SPECIFICATION FairSpec
CONSTANTS
    r1 = r1
    r2 = r2
    c1 = c1
    None = None
    Requests = {r1, r2}
    Conversations = {c1}
    ConversationOf <- OneConversation
    Agentic = {r2}
    MaxTokens = 1
    PlanLength = 2
    Trigger = 2
    Keep = 1
    MaxFaults = 1
INVARIANTS TypeOK StreamIsControlled RecordsAreTrue
PROPERTY EveryStreamEnds
CHECK_DEADLOCK FALSE
