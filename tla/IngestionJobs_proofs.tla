------------------------ MODULE IngestionJobs_proofs ------------------------
(***************************************************************************)
(* Proofs about IngestionJobs for every set of documents, jobs, workers    *)
(* and channels, and whether or not a run can outlive its claim.           *)
(***************************************************************************)
EXTENDS IngestionJobs, TLAPS

\* A run is a job and a number; it belongs to one job and to one document.
LEMMA RunParts ==
    ASSUME NEW r \in Runs
    PROVE  RunJob(r) \in Jobs /\ RunDoc(r) \in Docs
  BY ConstantsAssumption DEF Runs, RunJob, RunDoc

\* The run a claim starts is a run, as long as the bound on claims allows it.
LEMMA NextRunIsRun ==
    ASSUME TypeOK, NEW j \in Claimable
    PROVE  NextRun(j) \in Runs /\ RunJob(NextRun(j)) = j /\ j \in Jobs
  <1>1. j \in Jobs /\ attempts[j] \in Nat /\ attempts[j] < MaxClaims
    BY DEF TypeOK, Claimable
  <1>2. attempts[j] + 1 \in 1..MaxClaims
    BY <1>1, ConstantsAssumption
  <1> QED
    BY <1>1, <1>2 DEF NextRun, Runs, RunJob

-----------------------------------------------------------------------------
LEMMA InitTypeOK == Init => TypeOK
  BY ConstantsAssumption
  DEF Init, TypeOK, JobStatus, DocStatus, ChunkState, RunState, Fields, Runs, Stores

\* Requests keep the types.
LEMMA RequestTypeOK ==
    ASSUME TypeOK,
           \/ \E j \in Jobs : Upload(j) \/ Reprocess(j)
           \/ \E d \in Docs : DeleteDocument(d) \/ RetryCleanup(d)
    PROVE  TypeOK'
  <1>1. ASSUME NEW j \in Jobs, Upload(j) \/ Reprocess(j) PROVE TypeOK'
    <2>1. /\ status' \in [Jobs -> JobStatus]
          /\ pending' \in [Docs -> Jobs \cup {NoJob}]
          /\ docStatus' \in [Docs -> DocStatus]
      BY <1>1, ConstantsAssumption
      DEF Upload, Reprocess, EnqueueJob, TypeOK, JobStatus, DocStatus
    <2> QED
      BY <1>1, <2>1 DEF Upload, Reprocess, TypeOK, rowVars, runData, taskVars
  <1>2. ASSUME NEW d \in Docs, NEW known, Clean(d, known)
        PROVE  index' \in [Stores -> SUBSET Runs] /\ cleanup' \in [Docs -> SUBSET Stores]
    BY <1>2 DEF Clean, TypeOK
  <1>3. ASSUME NEW d \in Docs, DeleteDocument(d) PROVE TypeOK'
    <2>1. index' \in [Stores -> SUBSET Runs] /\ cleanup' \in [Docs -> SUBSET Stores]
      BY <1>2, <1>3 DEF DeleteDocument
    <2>2. deleted' \in [Docs -> BOOLEAN] /\ chunks' \in [Runs -> ChunkState]
      BY <1>3 DEF DeleteDocument, TypeOK, ChunkState
    <2> QED
      BY <1>3, <2>1, <2>2 DEF DeleteDocument, TypeOK, jobVars, runData, taskVars
  <1>4. ASSUME NEW d \in Docs, RetryCleanup(d) PROVE TypeOK'
    <2>1. index' \in [Stores -> SUBSET Runs] /\ cleanup' \in [Docs -> SUBSET Stores]
      BY <1>2, <1>4 DEF RetryCleanup
    <2> QED
      BY <1>4, <2>1 DEF RetryCleanup, TypeOK, jobVars, docVars, runData, taskVars
  <1> QED
    BY <1>1, <1>3, <1>4

\* The poll loop, the clock and the faults keep the types.
LEMMA SchedulerTypeOK ==
    ASSUME TypeOK,
           \/ \E j \in Jobs : TimePasses(j)
           \/ \E w \in Workers : Claim(w) \/ Crash(w)
           \/ \E w \in Workers, r \in Runs : FailCommit(w, r)
    PROVE  TypeOK'
  <1>1. ASSUME NEW j \in Jobs, TimePasses(j) PROVE TypeOK'
    BY <1>1 DEF TimePasses, TypeOK, docVars, rowVars, runData, taskVars
  <1>2. ASSUME NEW w \in Workers, Claim(w) PROVE TypeOK'
    <2>1. PICK batch \in SUBSET Claimable :
            /\ status' = [j \in Jobs |-> IF j \in batch THEN "RUNNING" ELSE status[j]]
            /\ attempts' = [j \in Jobs |-> IF j \in batch THEN attempts[j] + 1
                                                          ELSE attempts[j]]
            /\ ripe' = ripe \ batch
            /\ pc' = [r \in Runs |-> IF r \in {NextRun(j) : j \in batch}
                                     THEN "claimed" ELSE pc[r]]
            /\ running' = [running EXCEPT ![w] = @ \cup {NextRun(j) : j \in batch}]
            /\ awaited' = awaited \cup {NextRun(j) : j \in batch}
      BY <1>2 DEF Claim
    <2>2. {NextRun(j) : j \in batch} \subseteq Runs
      BY NextRunIsRun
    <2>3. /\ status' \in [Jobs -> JobStatus]
          /\ attempts' \in [Jobs -> Nat]
          /\ ripe' \subseteq Jobs
          /\ pc' \in [Runs -> RunState]
      BY <2>1 DEF TypeOK, JobStatus, RunState
    <2>4. running' \in [Workers -> SUBSET Runs] /\ awaited' \subseteq Runs
      BY <2>1, <2>2 DEF TypeOK
    <2> QED
      BY <1>2, <2>3, <2>4 DEF Claim, TypeOK, docVars, rowVars, runData
  <1>3. ASSUME NEW w \in Workers, Crash(w) PROVE TypeOK'
    <2>1. /\ pc' \in [Runs -> RunState]
          /\ indexed' \in [Runs -> SUBSET Channels]
          /\ previous' \in [Runs -> SUBSET Runs]
          /\ same' \in [Runs -> SUBSET Fields]
          /\ lock' \in [Docs -> Runs \cup {NoRun}]
      BY <1>3 DEF Crash, Forget, TypeOK, RunState
    <2>2. /\ running' \in [Workers -> SUBSET Runs]
          /\ awaited' \subseteq Runs
          /\ faults' \in Nat
      BY <1>3 DEF Crash, TypeOK
    <2> QED
      BY <1>3, <2>1, <2>2 DEF Crash, TypeOK, jobVars, docVars, rowVars
  <1>4. ASSUME NEW w \in Workers, NEW r \in Runs, FailCommit(w, r) PROVE TypeOK'
    <2>1. /\ pc' \in [Runs -> RunState]
          /\ indexed' \in [Runs -> SUBSET Channels]
          /\ previous' \in [Runs -> SUBSET Runs]
          /\ same' \in [Runs -> SUBSET Fields]
          /\ lock' \in [Docs -> Runs \cup {NoRun}]
      BY <1>4 DEF FailCommit, Goto, Forget, Release, TypeOK, RunState
    <2>2. /\ running' \in [Workers -> SUBSET Runs]
          /\ awaited' \subseteq Runs
          /\ faults' \in Nat
      BY <1>4 DEF FailCommit, TypeOK
    <2> QED
      BY <1>4, <2>1, <2>2 DEF FailCommit, TypeOK, jobVars, docVars, rowVars
  <1> QED
    BY <1>1, <1>2, <1>3, <1>4

\* The steps of a run keep the types.
LEMMA RunStepTypeOK ==
    ASSUME TypeOK, NEW r \in Runs, RunStep(r)
    PROVE  TypeOK'
  <1> USE DEF Goto
  <1>0. RunJob(r) \in Jobs /\ RunDoc(r) \in Docs
    BY RunParts
  <1>1. ASSUME Return(r)
        PROVE  /\ pc' \in [Runs -> RunState]
               /\ indexed' \in [Runs -> SUBSET Channels]
               /\ previous' \in [Runs -> SUBSET Runs]
               /\ same' \in [Runs -> SUBSET Fields]
               /\ running' \in [Workers -> SUBSET Runs]
               /\ awaited' \subseteq Runs
               /\ faults' \in Nat
    BY <1>1 DEF Return, Forget, TypeOK, RunState
  <1>2. ASSUME Release(r) PROVE lock' \in [Docs -> Runs \cup {NoRun}]
    BY <1>2 DEF Release, TypeOK
  <1>3. ASSUME NEW s \in RunState, Goto(r, s) PROVE pc' \in [Runs -> RunState]
    BY <1>3 DEF TypeOK
  <1>4. CASE Load(r)
    <2>1. pc' \in [Runs -> RunState] /\ same' \in [Runs -> SUBSET Fields]
      BY <1>4 DEF Load, TypeOK, RunState
    <2> QED
      BY <1>4, <2>1 DEF Load, TypeOK, jobVars, docVars, rowVars, taskVars
  <1>5. CASE Save(r)
    BY <1>5, <1>0 DEF Save, TypeOK, RunState, jobVars, docVars, rowVars, runData, taskVars
  <1>6. CASE FinishEmpty(r)
    <2>1. docStatus' \in [Docs -> DocStatus] /\ status' \in [Jobs -> JobStatus]
      BY <1>6 DEF FinishEmpty, SetSuccess, TypeOK, DocStatus, JobStatus
    <2> QED
      BY <1>6, <1>1, <2>1 DEF FinishEmpty, TypeOK, rowVars
  <1>7. CASE InsertVectors(r)
    BY <1>7 DEF InsertVectors, TypeOK, Stores, RunState, jobVars, docVars, rowVars,
                runData, taskVars
  <1>8. CASE IndexChannels(r)
    <2>1. PICK written \in SUBSET Channels, cleared \in SUBSET Channels :
            index' = Mirrored(r, written, cleared)
      BY <1>8 DEF IndexChannels
    <2>2. index' \in [Stores -> SUBSET Runs]
      BY <2>1 DEF Mirrored, TypeOK
    <2>3. PICK ok \in SUBSET Channels :
            \/ /\ Goto(r, "mirrored")
               /\ indexed' = [indexed EXCEPT ![r] = ok]
               /\ UNCHANGED <<lock, previous, same>>
            \/ Goto(r, "failed") /\ Release(r) /\ Forget({r})
      BY <1>8 DEF IndexChannels
    <2>4. /\ pc' \in [Runs -> RunState]
          /\ indexed' \in [Runs -> SUBSET Channels]
          /\ previous' \in [Runs -> SUBSET Runs]
          /\ same' \in [Runs -> SUBSET Fields]
          /\ lock' \in [Docs -> Runs \cup {NoRun}]
      BY <2>3, <1>2 DEF Forget, TypeOK, RunState
    <2> QED
      BY <1>8, <2>2, <2>4 DEF IndexChannels, TypeOK, jobVars, docVars, rowVars, taskVars
  <1>9. CASE SelectPrevious(r)
    <2>1. previous' \in [Runs -> SUBSET Runs] /\ pc' \in [Runs -> RunState]
      BY <1>9 DEF SelectPrevious, TypeOK, RunState
    <2> QED
      BY <1>9, <2>1 DEF SelectPrevious, TypeOK, jobVars, docVars, rowVars, taskVars
  <1>10. CASE Activate(r)
    <2>1. /\ docStatus' \in [Docs -> DocStatus]
          /\ status' \in [Jobs -> JobStatus]
          /\ chunks' \in [Runs -> ChunkState]
      BY <1>10 DEF Activate, SetSuccess, TypeOK, DocStatus, JobStatus, ChunkState
    <2>2. /\ active' \in [Docs -> Jobs \cup {NoJob}]
          /\ pending' \in [Docs -> Jobs \cup {NoJob}]
          /\ repairs' \subseteq Jobs \X Channels
      BY <1>10, <1>0 DEF Activate, TypeOK
    <2> QED
      BY <1>10, <1>1, <1>2, <2>1, <2>2 DEF Activate, TypeOK
  <1>11. CASE Fail(r)
    BY <1>11, <1>2 DEF Fail, Forget, TypeOK, RunState, jobVars, docVars, rowVars, taskVars
  <1>12. CASE MarkFailure(r)
    <2>1. /\ docStatus' \in [Docs -> DocStatus]
          /\ status' \in [Jobs -> JobStatus]
          /\ ripe' \subseteq Jobs
      BY <1>12 DEF MarkFailure, TypeOK, DocStatus, JobStatus
    <2> QED
      BY <1>12, <1>1, <2>1 DEF MarkFailure, TypeOK, rowVars
  <1> QED
    BY <1>4, <1>5, <1>6, <1>7, <1>8, <1>9, <1>10, <1>11, <1>12 DEF RunStep

LEMMA NextTypeOK == TypeOK /\ [Next]_vars => TypeOK'
  <1>1. ASSUME TypeOK, UNCHANGED vars PROVE TypeOK'
    BY <1>1 DEF TypeOK, vars, jobVars, docVars, rowVars, runData, taskVars
  <1> QED
    BY <1>1, RequestTypeOK, SchedulerTypeOK, RunStepTypeOK DEF Next

\* Every variable stays in its domain, for all values of the constants.
THEOREM TypeCorrect == Spec => []TypeOK
  <1>1. Init => TypeOK
    BY InitTypeOK
  <1> QED
    BY <1>1, NextTypeOK, PTL DEF Spec

-----------------------------------------------------------------------------
(***************************************************************************)
(* The row of the document protects the switch of generations.             *)
(***************************************************************************)

\* A run that is between Save and its commit keeps the row of its document.
LEMMA NextLockHeld ==
    ASSUME TypeOK, LockHeld, [Next]_vars
    PROVE  LockHeld'
  <1> SUFFICES ASSUME NEW q \in Runs, Locking(q)'
               PROVE  lock'[RunDoc(q)] = q
    BY DEF LockHeld, RunDoc
  <1> USE DEF Locking, Goto
  <1>0. RunDoc(q) \in Docs
    BY RunParts
  <1>1. CASE UNCHANGED <<pc, lock>>
    BY <1>1 DEF LockHeld
  <1>2. ASSUME NEW w \in Workers, Claim(w) PROVE lock'[RunDoc(q)] = q
    <2>1. Locking(q) /\ lock' = lock
      BY <1>2 DEF Claim, TypeOK
    <2> QED
      BY <2>1 DEF LockHeld
  <1>3. ASSUME NEW w \in Workers, Crash(w) PROVE lock'[RunDoc(q)] = q
    <2>1. q \notin running[w] /\ Locking(q)
      BY <1>3 DEF Crash, TypeOK
    <2> QED
      BY <1>0, <1>3, <2>1 DEF Crash, LockHeld
  <1>4. ASSUME NEW w \in Workers, NEW r \in Runs, FailCommit(w, r)
        PROVE  lock'[RunDoc(q)] = q
    <2>1. q # r /\ Locking(q)
      BY <1>4 DEF FailCommit, TypeOK
    <2> QED
      BY <1>0, <1>4, <2>1 DEF FailCommit, Release, LockHeld
  <1>5. ASSUME NEW r \in Runs, RunStep(r) PROVE lock'[RunDoc(q)] = q
    <2>0. RunDoc(r) \in Docs
      BY RunParts
    <2>1. CASE Load(r)
      BY <2>1 DEF Load, LockHeld, TypeOK
    <2>2. CASE Save(r)
      <3>1. CASE q = r
        BY <2>0, <2>2, <3>1 DEF Save, TypeOK
      <3>2. CASE q # r
        <4>1. Locking(q)
          BY <2>2, <3>2 DEF Save, TypeOK
        <4>2. lock[RunDoc(q)] = q /\ RunDoc(q) # RunDoc(r)
          BY <2>2, <4>1, ConstantsAssumption DEF Save, LockHeld
        <4> QED
          BY <2>2, <4>2, <1>0 DEF Save, TypeOK
      <3> QED
        BY <3>1, <3>2
    <2>3. CASE InsertVectors(r)
      BY <2>3 DEF InsertVectors, LockHeld, TypeOK
    <2>4. CASE SelectPrevious(r)
      BY <2>4 DEF SelectPrevious, LockHeld, TypeOK
    <2>5. CASE FinishEmpty(r) \/ MarkFailure(r)
      BY <2>5 DEF FinishEmpty, MarkFailure, Return, LockHeld, TypeOK
    <2>6. CASE Activate(r) \/ Fail(r)
      <3>1. q # r /\ Locking(q) /\ Release(r)
        BY <2>6 DEF Activate, Fail, Return, TypeOK
      <3> QED
        BY <1>0, <3>1 DEF Release, LockHeld
    <2>7. CASE IndexChannels(r)
      <3>1. /\ Locking(q)
            /\ lock' = lock \/ (q # r /\ Release(r))
        BY <2>7 DEF IndexChannels, TypeOK
      <3> QED
        BY <1>0, <3>1 DEF Release, LockHeld
    <2> QED
      BY <1>5, <2>1, <2>2, <2>3, <2>4, <2>5, <2>6, <2>7 DEF RunStep
  <1>6. CASE UNCHANGED vars
    BY <1>1, <1>6 DEF vars
  <1>7. ASSUME NEW j \in Jobs, Upload(j) \/ Reprocess(j) \/ TimePasses(j)
        PROVE  lock'[RunDoc(q)] = q
    BY <1>1, <1>7 DEF Upload, Reprocess, TimePasses
  <1>8. ASSUME NEW d \in Docs, DeleteDocument(d) \/ RetryCleanup(d)
        PROVE  lock'[RunDoc(q)] = q
    BY <1>1, <1>8 DEF DeleteDocument, RetryCleanup
  <1> QED
    BY <1>2, <1>3, <1>4, <1>5, <1>6, <1>7, <1>8 DEF Next

\* Only a deletion and a commit change the chunk rows or the active generation.
LEMMA NextChunks ==
    ASSUME [Next]_vars
    PROVE  \/ UNCHANGED <<chunks, active>>
           \/ \E d \in Docs : DeleteDocument(d)
           \/ \E r \in Runs : Activate(r)
  BY DEF Next, RunStep, vars, docVars, rowVars, Upload, Reprocess, TimePasses,
         RetryCleanup, Claim, Crash, FailCommit, Load, Save, FinishEmpty,
         InsertVectors, IndexChannels, SelectPrevious, Fail, MarkFailure

\* A run that is about to commit either was about to and kept what it had read,
\* or has just read the chunks to supersede.
LEMMA NextSwapping ==
    ASSUME TypeOK, [Next]_vars, NEW q \in Runs, pc'[q] = "swapping"
    PROVE  \/ pc[q] = "swapping" /\ previous'[q] = previous[q]
           \/ SelectPrevious(q)
  <1> USE DEF Goto, Forget
  <1>1. CASE UNCHANGED <<pc, previous>>
    BY <1>1
  <1>2. ASSUME NEW w \in Workers, Claim(w)
        PROVE  pc[q] = "swapping" /\ previous'[q] = previous[q]
    BY <1>2 DEF Claim, runData, TypeOK
  <1>3. ASSUME NEW w \in Workers, Crash(w)
        PROVE  pc[q] = "swapping" /\ previous'[q] = previous[q]
    BY <1>3 DEF Crash, TypeOK
  <1>4. ASSUME NEW w \in Workers, NEW r \in Runs, FailCommit(w, r)
        PROVE  pc[q] = "swapping" /\ previous'[q] = previous[q]
    BY <1>4 DEF FailCommit, TypeOK
  <1>5. ASSUME NEW r \in Runs, RunStep(r)
        PROVE  \/ pc[q] = "swapping" /\ previous'[q] = previous[q]
               \/ SelectPrevious(q)
    <2>1. CASE Load(r) \/ Save(r) \/ InsertVectors(r)
      BY <2>1 DEF Load, Save, InsertVectors, runData, TypeOK
    <2>2. CASE IndexChannels(r)
      <3>1. pc'[r] \in {"mirrored", "failed"}
        BY <2>2 DEF IndexChannels, TypeOK
      <3>2. q # r
        BY <3>1
      <3> QED
        BY <2>2, <3>2 DEF IndexChannels, TypeOK
    <2>3. CASE SelectPrevious(r)
      BY <2>3 DEF SelectPrevious, TypeOK
    <2>4. CASE FinishEmpty(r) \/ Activate(r) \/ MarkFailure(r)
      BY <2>4 DEF FinishEmpty, Activate, MarkFailure, Return, TypeOK
    <2>5. CASE Fail(r)
      BY <2>5 DEF Fail, TypeOK
    <2> QED
      BY <1>5, <2>1, <2>2, <2>3, <2>4, <2>5 DEF RunStep
  <1>6. CASE UNCHANGED vars
    BY <1>1, <1>6 DEF vars, runData
  <1>7. ASSUME NEW j \in Jobs, Upload(j) \/ Reprocess(j) \/ TimePasses(j)
        PROVE  UNCHANGED <<pc, previous>>
    BY <1>7 DEF Upload, Reprocess, TimePasses, runData
  <1>8. ASSUME NEW d \in Docs, DeleteDocument(d) \/ RetryCleanup(d)
        PROVE  UNCHANGED <<pc, previous>>
    BY <1>8 DEF DeleteDocument, RetryCleanup, runData
  <1> QED
    BY <1>1, <1>2, <1>3, <1>4, <1>5, <1>6, <1>7, <1>8 DEF Next

\* A commit changes chunks of its own document only.
LEMMA ActivateIsLocal ==
    ASSUME TypeOK, PreviousIsCurrent, NEW r \in Runs, Activate(r),
           NEW q \in Runs, RunDoc(q) # RunDoc(r)
    PROVE  chunks'[q] = chunks[q]
  BY DEF Activate, PreviousIsCurrent, Superseded, TypeOK

\* No step of another transaction makes what a run has read stale.
LEMMA NextPreviousIsCurrent ==
    ASSUME TypeOK, LockHeld, PreviousIsCurrent, [Next]_vars
    PROVE  PreviousIsCurrent'
  <1> SUFFICES ASSUME NEW q \in Runs, pc'[q] = "swapping"
               PROVE  previous'[q] = {x \in Runs : Superseded(q, x)'}
    BY DEF PreviousIsCurrent
  <1>0. RunDoc(q) \in Docs
    BY RunParts
  <1>1. CASE SelectPrevious(q)
    BY <1>1 DEF SelectPrevious, Superseded, RunDoc, RunJob, rowVars, TypeOK
  <1>2. CASE pc[q] = "swapping" /\ previous'[q] = previous[q]
    <2>1. previous[q] = {x \in Runs : Superseded(q, x)} /\ lock[RunDoc(q)] = q
      BY <1>2 DEF PreviousIsCurrent, LockHeld, Locking
    <2>2. SUFFICES ASSUME NEW x \in Runs, RunDoc(x) = RunDoc(q)
                   PROVE  chunks'[x] = chunks[x]
      BY <1>2, <2>1, <2>2 DEF Superseded, RunDoc, RunJob
    <2>3. ASSUME NEW d \in Docs, DeleteDocument(d) PROVE chunks'[x] = chunks[x]
      BY <2>1, <2>2, <2>3, ConstantsAssumption DEF DeleteDocument, TypeOK
    <2>4. ASSUME NEW r \in Runs, Activate(r) PROVE chunks'[x] = chunks[x]
      <3>1. q # r
        BY <2>4 DEF Activate, Return, Goto, TypeOK
      <3>2. lock[RunDoc(r)] = r
        BY <2>4 DEF Activate, LockHeld, Locking
      <3> QED
        BY <2>1, <2>2, <2>4, <3>1, <3>2, ActivateIsLocal
    <2> QED
      BY <2>3, <2>4, NextChunks
  <1> QED
    BY <1>1, <1>2, NextSwapping

\* A commit leaves served what it activates and what it does not supersede.
LEMMA ActivateServes ==
    ASSUME TypeOK, PreviousIsCurrent, NEW r \in Runs, Activate(r),
           NEW q \in Runs, chunks'[q] = "ACTIVE", RunDoc(q) = RunDoc(r)
    PROVE  RunJob(q) = RunJob(r)
  <1>1. q = r \/ (chunks[q] = "ACTIVE" /\ ~Superseded(r, q))
    BY DEF Activate, PreviousIsCurrent, TypeOK
  <1> QED
    BY <1>1 DEF Superseded

\* The switch leaves one generation.
LEMMA NextOneServedGeneration ==
    ASSUME TypeOK, PreviousIsCurrent, OneServedGeneration, [Next]_vars
    PROVE  OneServedGeneration'
  <1> SUFFICES ASSUME NEW d \in Docs, NEW q \in Runs, NEW x \in Runs,
                      RunDoc(q) = d, chunks'[q] = "ACTIVE",
                      RunDoc(x) = d, chunks'[x] = "ACTIVE"
               PROVE  RunJob(q) = RunJob(x)
    BY DEF OneServedGeneration, Served, RunsOfDoc, RunDoc, RunJob
  <1>1. CASE chunks[q] = "ACTIVE" /\ chunks[x] = "ACTIVE"
    BY <1>1 DEF OneServedGeneration, Served, RunsOfDoc
  <1>2. CASE UNCHANGED <<chunks, active>>
    BY <1>1, <1>2
  <1>3. ASSUME NEW e \in Docs, DeleteDocument(e) PROVE RunJob(q) = RunJob(x)
    BY <1>1, <1>3 DEF DeleteDocument, TypeOK
  <1>4. ASSUME NEW r \in Runs, Activate(r) PROVE RunJob(q) = RunJob(x)
    <2>1. CASE RunDoc(r) = d
      BY <1>4, <2>1, ActivateServes
    <2>2. CASE RunDoc(r) # d
      <3>1. chunks'[q] = chunks[q] /\ chunks'[x] = chunks[x]
        BY <1>4, <2>2, ActivateIsLocal
      <3> QED
        BY <1>1, <3>1
    <2> QED
      BY <2>1, <2>2
  <1> QED
    BY <1>2, <1>3, <1>4, NextChunks

\* The part of the inductive invariant that is about the switch of generations.
SwitchInv == TypeOK /\ LockHeld /\ PreviousIsCurrent /\ OneServedGeneration

LEMMA SwitchInvariant == Spec => []SwitchInv
  <1>1. Init => SwitchInv
    BY InitTypeOK
    DEF SwitchInv, Init, LockHeld, Locking, PreviousIsCurrent, OneServedGeneration,
        Served, RunsOfDoc
  <1>2. SwitchInv /\ [Next]_vars => SwitchInv'
    BY NextTypeOK, NextLockHeld, NextPreviousIsCurrent, NextOneServedGeneration
    DEF SwitchInv
  <1> QED
    BY <1>1, <1>2, PTL DEF Spec

\* Retrieval never sees chunks of two generations of a document, whatever the number
\* of workers and however long a run takes: the row lock alone protects the switch.
\* (Which generation the document records is another matter, see RecordedIsTheServed.)
THEOREM OneGenerationIsServed == Spec => []OneServedGeneration
  BY SwitchInvariant, PTL DEF SwitchInv

\* A reprocessing never takes a document out of retrieval, at whatever point it
\* fails: what was served is replaced in the commit that serves the new chunks.
THEOREM ServedUntilTheSwitch == Spec => ServedUntilReplaced
  <1>1. ASSUME SwitchInv, [Next]_vars, NEW d \in Docs, Served(d) # {}
        PROVE  Served(d)' # {} \/ deleted'[d]
    <2> USE DEF Served, RunsOfDoc, RunDoc
    <2>1. PICK q \in Runs : RunDoc(q) = d /\ chunks[q] = "ACTIVE"
      BY <1>1
    <2>2. CASE UNCHANGED <<chunks, active>>
      BY <2>1, <2>2
    <2>3. ASSUME NEW e \in Docs, DeleteDocument(e)
          PROVE  Served(d)' # {} \/ deleted'[d]
      BY <1>1, <2>1, <2>3 DEF SwitchInv, TypeOK, DeleteDocument
    <2>4. ASSUME NEW r \in Runs, Activate(r) PROVE Served(d)' # {}
      <3>1. CASE RunDoc(r) = d
        <4>1. chunks'[r] = "ACTIVE"
          BY <2>4 DEF Activate
        <4> QED
          BY <3>1, <4>1
      <3>2. CASE RunDoc(r) # d
        <4>1. chunks'[q] = chunks[q]
          BY <1>1, <2>1, <2>4, <3>2, ActivateIsLocal DEF SwitchInv
        <4> QED
          BY <2>1, <4>1
      <3> QED
        BY <3>1, <3>2
    <2> QED
      BY <1>1, <2>2, <2>3, <2>4, NextChunks
  <1>2. SwitchInv /\ [Next]_vars =>
          [\A d \in Docs : Served(d) # {} => Served(d)' # {} \/ deleted'[d]]_vars
    BY <1>1
  <1> QED
    BY <1>2, SwitchInvariant, PTL DEF Spec, ServedUntilReplaced

-----------------------------------------------------------------------------
(***************************************************************************)
(* What the stores hold.                                                   *)
(***************************************************************************)

\* Only the clean-up of a deletion and the two indexing steps write to a store.
LEMMA NextIndex ==
    ASSUME [Next]_vars
    PROVE  \/ UNCHANGED <<index, cleanup>> /\ (deleted' = deleted)
           \/ \E d \in Docs : DeleteDocument(d) \/ RetryCleanup(d)
           \/ \E r \in Runs : InsertVectors(r) \/ IndexChannels(r)
  BY DEF Next, RunStep, vars, docVars, rowVars, Upload, Reprocess, TimePasses,
         Claim, Crash, FailCommit, Load, Save, FinishEmpty,
         SelectPrevious, Activate, Fail, MarkFailure

\* Clean-ups are retried for deleted documents only.
LEMMA NextCleanupOfDeleted ==
    ASSUME TypeOK, CleanupOfDeleted, [Next]_vars
    PROVE  CleanupOfDeleted'
  <1>1. ASSUME NEW d \in Docs, DeleteDocument(d) PROVE CleanupOfDeleted'
    BY <1>1 DEF DeleteDocument, Clean, CleanupOfDeleted, TypeOK
  <1>2. ASSUME NEW d \in Docs, RetryCleanup(d) PROVE CleanupOfDeleted'
    BY <1>2 DEF RetryCleanup, Clean, CleanupOfDeleted, TypeOK, docVars
  <1>3. ASSUME NEW r \in Runs, InsertVectors(r) \/ IndexChannels(r)
        PROVE  CleanupOfDeleted'
    BY <1>3 DEF InsertVectors, IndexChannels, CleanupOfDeleted, docVars, rowVars
  <1> QED
    BY <1>1, <1>2, <1>3, NextIndex DEF CleanupOfDeleted

\* A store loses chunks of a document only once the document is deleted, but for
\* the graph, which loses them to another run of the document.
LEMMA IndexIsKept ==
    ASSUME TypeOK, CleanupOfDeleted, [Next]_vars,
           NEW s \in Stores, NEW q \in index[s], ~deleted'[RunDoc(q)]
    PROVE  /\ \/ q \in index'[s]
              \/ s = "graph" /\ \E r \in Runs : IndexChannels(r) /\ RunDoc(r) = RunDoc(q)
           /\ ~deleted[RunDoc(q)]
  <1>0. q \in Runs /\ RunDoc(q) \in Docs
    BY RunParts DEF TypeOK
  <1>1. ASSUME NEW d \in Docs, d # RunDoc(q), NEW known \in SUBSET RunsOfDoc(d),
               Clean(d, known)
        PROVE  q \in index'[s]
    BY <1>1 DEF Clean, Erased, RunsOfDoc
  <1>2. ASSUME NEW d \in Docs, DeleteDocument(d)
        PROVE  q \in index'[s] /\ ~deleted[RunDoc(q)]
    <2>1. d # RunDoc(q) /\ ~deleted[RunDoc(q)]
      BY <1>0, <1>2 DEF DeleteDocument, TypeOK
    <2>2. Clean(d, {r \in RunsOfDoc(d) : chunks[r] # "NONE"})
      BY <1>2 DEF DeleteDocument
    <2> QED
      BY <1>1, <2>1, <2>2
  <1>3. ASSUME NEW d \in Docs, RetryCleanup(d)
        PROVE  q \in index'[s] /\ ~deleted[RunDoc(q)]
    <2>1. deleted[d] /\ deleted' = deleted
      BY <1>3 DEF RetryCleanup, CleanupOfDeleted, docVars
    <2>2. Clean(d, {r \in RunsOfDoc(d) : chunks[r] = "DELETED"})
      BY <1>3 DEF RetryCleanup
    <2> QED
      BY <1>1, <2>1, <2>2
  <1>4. ASSUME NEW r \in Runs, InsertVectors(r)
        PROVE  q \in index'[s] /\ ~deleted[RunDoc(q)]
    BY <1>4 DEF InsertVectors, docVars, TypeOK
  <1>5. ASSUME NEW r \in Runs, IndexChannels(r)
        PROVE  /\ q \in index'[s] \/ (s = "graph" /\ RunDoc(r) = RunDoc(q))
               /\ ~deleted[RunDoc(q)]
    <2>1. PICK written \in SUBSET Channels, cleared \in SUBSET (Channels \cap {"graph"}) :
            index' = Mirrored(r, written, cleared)
      BY <1>5 DEF IndexChannels
    <2>2. q \in index'[s] \/ (s = "graph" /\ RunDoc(r) = RunDoc(q))
      BY <1>0, <2>1 DEF Mirrored, RunsOfDoc
    <2>3. deleted' = deleted
      BY <1>5 DEF IndexChannels, docVars
    <2> QED
      BY <2>2, <2>3
  <1> QED
    BY <1>2, <1>3, <1>4, <1>5, NextIndex

\* What a channel has reported as written is in its store.
LEMMA IndexChannelsWrites ==
    ASSUME TypeOK, NEW r \in Runs, IndexChannels(r), pc'[r] = "mirrored"
    PROVE  /\ Required \subseteq indexed'[r]
           /\ \A c \in indexed'[r] : r \in index'[c]
  <1>1. PICK written \in SUBSET Channels :
        \E ok \in SUBSET written, cleared \in SUBSET Channels :
          /\ index' = Mirrored(r, written, cleared)
          /\ IF Required \subseteq ok
             THEN indexed' = [indexed EXCEPT ![r] = ok]
             ELSE Goto(r, "failed")
    BY DEF IndexChannels
  <1>2. PICK ok \in SUBSET written, cleared \in SUBSET Channels :
          /\ index' = Mirrored(r, written, cleared)
          /\ IF Required \subseteq ok
             THEN indexed' = [indexed EXCEPT ![r] = ok]
             ELSE Goto(r, "failed")
    BY <1>1
  <1>3. Required \subseteq ok /\ indexed'[r] = ok
    BY <1>2 DEF Goto, TypeOK
  <1>4. \A c \in ok : r \in index'[c]
    BY <1>2 DEF Mirrored, Stores
  <1> QED
    BY <1>3, <1>4

\* A run on its way to the commit either had reached at least that point and
\* kept the channels it succeeded on, or has just written to the stores.
LEMMA NextProgress ==
    ASSUME TypeOK, [Next]_vars, NEW q \in Runs,
           pc'[q] \in {"stored", "mirrored", "swapping"}
    PROVE  \/ /\ pc'[q] = pc[q] \/ (pc'[q] = "swapping" /\ pc[q] = "mirrored")
              /\ indexed'[q] = indexed[q]
           \/ pc'[q] = "stored" /\ InsertVectors(q)
           \/ pc'[q] = "mirrored" /\ IndexChannels(q)
  <1> USE DEF Goto, Forget
  <1>1. CASE UNCHANGED <<pc, indexed>>
    BY <1>1
  <1>2. ASSUME NEW w \in Workers, Claim(w)
        PROVE  pc'[q] = pc[q] /\ indexed'[q] = indexed[q]
    BY <1>2 DEF Claim, runData, TypeOK
  <1>3. ASSUME NEW w \in Workers, Crash(w)
        PROVE  pc'[q] = pc[q] /\ indexed'[q] = indexed[q]
    BY <1>3 DEF Crash, TypeOK
  <1>4. ASSUME NEW w \in Workers, NEW r \in Runs, FailCommit(w, r)
        PROVE  pc'[q] = pc[q] /\ indexed'[q] = indexed[q]
    BY <1>4 DEF FailCommit, TypeOK
  <1>5. ASSUME NEW r \in Runs, RunStep(r)
        PROVE  \/ /\ pc'[q] = pc[q] \/ (pc'[q] = "swapping" /\ pc[q] = "mirrored")
                  /\ indexed'[q] = indexed[q]
               \/ pc'[q] = "stored" /\ InsertVectors(q)
               \/ pc'[q] = "mirrored" /\ IndexChannels(q)
    <2>1. CASE Load(r) \/ Save(r) \/ InsertVectors(r)
      BY <2>1 DEF Load, Save, InsertVectors, runData, TypeOK
    <2>2. CASE IndexChannels(r)
      <3>1. CASE q = r
        <4>1. pc'[r] \in {"mirrored", "failed"}
          BY <2>2 DEF IndexChannels, TypeOK
        <4> QED
          BY <2>2, <3>1, <4>1
      <3>2. CASE q # r
        <4>1. pc'[q] = pc[q] /\ indexed'[q] = indexed[q]
          BY <2>2, <3>2 DEF IndexChannels, TypeOK
        <4> QED
          BY <4>1
      <3> QED
        BY <3>1, <3>2
    <2>3. CASE SelectPrevious(r)
      BY <2>3 DEF SelectPrevious, TypeOK
    <2>4. CASE FinishEmpty(r) \/ Activate(r) \/ MarkFailure(r)
      BY <2>4 DEF FinishEmpty, Activate, MarkFailure, Return, TypeOK
    <2>5. CASE Fail(r)
      BY <2>5 DEF Fail, TypeOK
    <2> QED
      BY <1>5, <2>1, <2>2, <2>3, <2>4, <2>5 DEF RunStep
  <1>6. CASE UNCHANGED vars
    BY <1>1, <1>6 DEF vars, runData
  <1>7. ASSUME NEW j \in Jobs, Upload(j) \/ Reprocess(j) \/ TimePasses(j)
        PROVE  UNCHANGED <<pc, indexed>>
    BY <1>7 DEF Upload, Reprocess, TimePasses, runData
  <1>8. ASSUME NEW d \in Docs, DeleteDocument(d) \/ RetryCleanup(d)
        PROVE  UNCHANGED <<pc, indexed>>
    BY <1>8 DEF DeleteDocument, RetryCleanup, runData
  <1> QED
    BY <1>1, <1>2, <1>3, <1>4, <1>5, <1>6, <1>7, <1>8 DEF Next

\* While a run holds the row of its document no other run writes the graph for it.
LEMMA OneRunMirrors ==
    ASSUME LockHeld, NEW q \in Runs, Locking(q),
           NEW r \in Runs, IndexChannels(r), RunDoc(r) = RunDoc(q)
    PROVE  r = q
  BY DEF LockHeld, Locking, IndexChannels

\* A store keeps what a run wrote to it while the run completes.
LEMMA NextWritesAreKept ==
    ASSUME TypeOK, LockHeld, CleanupOfDeleted, WritesAreKept, [Next]_vars
    PROVE  WritesAreKept'
  <1> SUFFICES ASSUME NEW q \in Runs, ~deleted'[RunDoc(q)],
                      pc'[q] \in {"stored", "mirrored", "swapping"}
               PROVE  /\ q \in index'["milvus"]
                      /\ pc'[q] \in {"mirrored", "swapping"} =>
                             /\ Required \subseteq indexed'[q]
                             /\ \A c \in indexed'[q] : q \in index'[c]
    BY DEF WritesAreKept, RunDoc
  <1>0. "milvus" \in Stores /\ Channels \subseteq Stores /\ "milvus" # "graph"
    BY DEF Stores
  <1>1. deleted' = deleted \/ ~deleted[RunDoc(q)]
    BY NextIndex, RunParts
    DEF DeleteDocument, RetryCleanup, InsertVectors, IndexChannels, docVars, TypeOK
  <1>2. ASSUME pc[q] \in {"stored", "mirrored", "swapping"}
        PROVE  q \in index'["milvus"]
    BY <1>0, <1>1, <1>2, IndexIsKept DEF WritesAreKept, TypeOK
  <1>3. ASSUME pc[q] \in {"mirrored", "swapping"}
        PROVE  /\ Required \subseteq indexed[q]
               /\ \A c \in indexed[q] : q \in index'[c]
    <2>1. /\ Required \subseteq indexed[q]
          /\ \A c \in indexed[q] : c \in Stores /\ q \in index[c]
      BY <1>0, <1>1, <1>3 DEF WritesAreKept, TypeOK
    <2>2. ~\E r \in Runs : IndexChannels(r) /\ RunDoc(r) = RunDoc(q)
      BY <1>3, OneRunMirrors DEF Locking, IndexChannels
    <2> QED
      BY <2>1, <2>2, IndexIsKept
  <1>4. CASE /\ pc'[q] = pc[q] \/ (pc'[q] = "swapping" /\ pc[q] = "mirrored")
             /\ indexed'[q] = indexed[q]
    BY <1>2, <1>3, <1>4
  <1>5. CASE pc'[q] = "stored" /\ InsertVectors(q)
    BY <1>0, <1>5 DEF InsertVectors, TypeOK
  <1>6. CASE pc'[q] = "mirrored" /\ IndexChannels(q)
    <2>1. pc[q] = "stored"
      BY <1>6 DEF IndexChannels
    <2> QED
      BY <1>2, <1>6, <2>1, IndexChannelsWrites
  <1> QED
    BY <1>4, <1>5, <1>6, NextProgress

\* A row is committed by Activate, and is never taken back.
LEMMA NextRows ==
    ASSUME TypeOK, PreviousIsCurrent, [Next]_vars, NEW q \in Runs
    PROVE  \/ (chunks'[q] # "NONE") <=> (chunks[q] # "NONE")
           \/ Activate(q)
  <1>1. ASSUME NEW d \in Docs, DeleteDocument(d)
        PROVE  (chunks'[q] # "NONE") <=> (chunks[q] # "NONE")
    BY <1>1 DEF DeleteDocument, TypeOK
  <1>2. ASSUME NEW r \in Runs, Activate(r), q # r
        PROVE  (chunks'[q] # "NONE") <=> (chunks[q] # "NONE")
    BY <1>2 DEF Activate, PreviousIsCurrent, Superseded, TypeOK
  <1> QED
    BY <1>1, <1>2, NextChunks

\* No run goes back: a run that has tried the channels is on its way to its end, and
\* one that has ended stays so, as a claim starts a run that there was not.
Tried == {"mirrored", "swapping", "failed", "rejected", "ended"}

LEMMA NextRunsGoOn ==
    ASSUME TypeOK, RunsAreClaimed, [Next]_vars, NEW q \in Runs
    PROVE  /\ pc'[q] # "none" => q[2] <= attempts'[RunJob(q)]
           /\ \A w \in Workers : q \in running'[w] => pc'[q] # "none"
           /\ pc[q] = "ended" => pc'[q] = "ended"
           /\ pc[q] \in Tried => pc'[q] \in Tried
  <1> USE DEF Tried
  <1> DEFINE Step == /\ pc'[q] # "none" => q[2] <= attempts'[RunJob(q)]
                     /\ \A w \in Workers : q \in running'[w] => pc'[q] # "none"
                     /\ pc[q] = "ended" => pc'[q] = "ended"
                     /\ pc[q] \in Tried => pc'[q] \in Tried
  <1>0. RunJob(q) \in Jobs /\ q[2] \in Nat /\ attempts[RunJob(q)] \in Nat
    <2>1. RunJob(q) \in Jobs /\ q[2] \in Nat
      BY RunParts, ConstantsAssumption DEF Runs
    <2> QED
      BY <2>1 DEF TypeOK
  <1>1. CASE UNCHANGED <<pc, attempts, running>>
    BY <1>1 DEF RunsAreClaimed
  <1>2. ASSUME NEW w \in Workers, Claim(w) PROVE Step
    <2>1. PICK batch \in SUBSET Claimable :
            /\ attempts' = [j \in Jobs |-> IF j \in batch THEN attempts[j] + 1
                                                          ELSE attempts[j]]
            /\ pc' = [r \in Runs |-> IF r \in {NextRun(j) : j \in batch}
                                     THEN "claimed" ELSE pc[r]]
            /\ running' = [running EXCEPT ![w] = @ \cup {NextRun(j) : j \in batch}]
      BY <1>2 DEF Claim
    <2>2. CASE q \notin {NextRun(j) : j \in batch}
      <3>1. pc'[q] = pc[q] /\ \A v \in Workers : q \in running'[v] => q \in running[v]
        BY <2>1, <2>2 DEF TypeOK
      <3>2. attempts'[RunJob(q)] \in {attempts[RunJob(q)], attempts[RunJob(q)] + 1}
        BY <1>0, <2>1
      <3> QED
        BY <1>0, <3>1, <3>2 DEF RunsAreClaimed
    <2>3. ASSUME NEW j \in batch, q = NextRun(j) PROVE Step
      <3>1. RunJob(q) = j /\ q[2] = attempts[j] + 1
        BY <2>3 DEF NextRun, RunJob
      <3>2. pc[q] = "none"
        BY <1>0, <3>1 DEF RunsAreClaimed
      <3>3. attempts'[j] = attempts[j] + 1 /\ pc'[q] = "claimed"
        BY <1>0, <2>1, <2>3, <3>1
      <3> QED
        BY <1>0, <3>1, <3>2, <3>3
    <2> QED
      BY <2>2, <2>3
  <1>3. ASSUME NEW w \in Workers, Crash(w) PROVE Step
    <2>1. /\ attempts' = attempts
          /\ \A v \in Workers : q \in running'[v] => q \in running[v]
      BY <1>3 DEF Crash, jobVars, TypeOK
    <2>2. pc'[q] = pc[q] \/ (pc'[q] = "ended" /\ pc[q] # "none")
      BY <1>3 DEF Crash, RunsAreClaimed
    <2> QED
      BY <2>1, <2>2 DEF RunsAreClaimed
  <1>4. ASSUME NEW w \in Workers, NEW r \in Runs, FailCommit(w, r) PROVE Step
    <2>1. /\ attempts' = attempts
          /\ \A v \in Workers : q \in running'[v] => q \in running[v]
      BY <1>4 DEF FailCommit, jobVars, TypeOK
    <2>2. pc'[q] = pc[q] \/ (pc'[q] = "ended" /\ pc[q] # "none")
      BY <1>4 DEF FailCommit, Goto, TypeOK
    <2> QED
      BY <2>1, <2>2 DEF RunsAreClaimed
  <1>5. ASSUME NEW r \in Runs, RunStep(r) PROVE Step
    <2>1. /\ attempts' = attempts
          /\ \A v \in Workers : q \in running'[v] => q \in running[v]
      BY <1>5 DEF RunStep, Load, Save, FinishEmpty, InsertVectors, IndexChannels,
         SelectPrevious, Activate, Fail, MarkFailure, Return, jobVars, taskVars, TypeOK
    <2>2. \/ pc'[q] = pc[q]
          \/ /\ pc[q] \notin {"none", "ended"}
             /\ pc'[q] # "none"
             /\ pc[q] \in Tried => pc'[q] \in Tried
      <3> USE DEF Goto, TypeOK
      <3>1. CASE Load(r) \/ Save(r) \/ InsertVectors(r) \/ SelectPrevious(r) \/ Fail(r)
        BY <3>1 DEF Load, Save, InsertVectors, SelectPrevious, Fail
      <3>2. CASE IndexChannels(r)
        <4>1. pc' = [pc EXCEPT ![r] = "mirrored"] \/ pc' = [pc EXCEPT ![r] = "failed"]
          BY <3>2 DEF IndexChannels
        <4> QED
          BY <3>2, <4>1 DEF IndexChannels
      <3>3. CASE FinishEmpty(r) \/ Activate(r) \/ MarkFailure(r)
        BY <3>3 DEF FinishEmpty, Activate, MarkFailure, Return
      <3> QED
        BY <1>5, <3>1, <3>2, <3>3 DEF RunStep
    <2> QED
      BY <2>1, <2>2 DEF RunsAreClaimed
  <1>6. CASE UNCHANGED vars
    BY <1>1, <1>6 DEF vars, jobVars, taskVars
  <1>7. ASSUME NEW j \in Jobs, Upload(j) \/ Reprocess(j) \/ TimePasses(j) PROVE Step
    BY <1>1, <1>7 DEF Upload, Reprocess, TimePasses, taskVars
  <1>8. ASSUME NEW d \in Docs, DeleteDocument(d) \/ RetryCleanup(d) PROVE Step
    BY <1>1, <1>8 DEF DeleteDocument, RetryCleanup, jobVars, taskVars
  <1> QED
    BY <1>2, <1>3, <1>4, <1>5, <1>6, <1>7, <1>8 DEF Next

LEMMA NextRunsAreClaimed ==
    ASSUME TypeOK, PreviousIsCurrent, RunsAreClaimed, [Next]_vars
    PROVE  RunsAreClaimed'
  <1>1. ASSUME NEW q \in Runs, chunks'[q] # "NONE" PROVE pc'[q] = "ended"
    <2>1. CASE chunks[q] # "NONE"
      BY <2>1, NextRunsGoOn DEF RunsAreClaimed
    <2>2. CASE Activate(q)
      BY <2>2 DEF Activate, Return, Goto, TypeOK
    <2> QED
      BY <1>1, <2>1, <2>2, NextRows
  <1>2. \A w \in Workers : running'[w] \subseteq Runs
    BY NextTypeOK DEF TypeOK
  <1> QED
    BY <1>1, <1>2, NextRunsGoOn DEF RunsAreClaimed, RunJob

\* A repair record is never taken back.
LEMMA RepairsAreKept == [Next]_vars => repairs \subseteq repairs'
  BY DEF Next, RunStep, vars, rowVars, Upload, Reprocess, TimePasses,
         DeleteDocument, RetryCleanup, Claim, Crash, FailCommit, Load, Save,
         FinishEmpty, InsertVectors, IndexChannels, SelectPrevious, Activate,
         Fail, MarkFailure

\* A step other than a commit of the document leaves served what was.
LEMMA NextServed ==
    ASSUME TypeOK, PreviousIsCurrent, [Next]_vars, NEW q \in Runs, ~deleted'[RunDoc(q)]
    PROVE  \/ (chunks'[q] = "ACTIVE") <=> (chunks[q] = "ACTIVE")
           \/ \E r \in Runs : Activate(r) /\ RunDoc(r) = RunDoc(q)
  <1>1. ASSUME NEW d \in Docs, DeleteDocument(d)
        PROVE  (chunks'[q] = "ACTIVE") <=> (chunks[q] = "ACTIVE")
    BY <1>1, RunParts DEF DeleteDocument, TypeOK
  <1>2. ASSUME NEW r \in Runs, Activate(r), RunDoc(r) # RunDoc(q)
        PROVE  chunks'[q] = chunks[q]
    BY <1>2, ActivateIsLocal
  <1> QED
    BY <1>1, <1>2, NextChunks

\* A run that displaces what the graph holds of a document does so until it commits.
LEMMA NextDisplaces ==
    ASSUME TypeOK, PreviousIsCurrent, RunsAreClaimed, [Next]_vars,
           NEW q \in Runs, NEW d \in Docs, Displaces(q, d)
    PROVE  Displaces(q, d)' \/ (Activate(q) /\ RunDoc(q) = d)
  <1>1. RunDoc(q) = d /\ chunks[q] = "NONE" /\ pc[q] \in Tried
    BY DEF Displaces, Tried, TypeOK, RunState
  <1>2. CASE Activate(q)
    BY <1>1, <1>2
  <1>3. CASE chunks'[q] = "NONE"
    BY <1>1, <1>3, NextRunsGoOn DEF Displaces, Tried, RunDoc
  <1> QED
    BY <1>1, <1>2, <1>3, NextRows

\* The clause of ServedIsIndexed about the graph.
GraphIsKnown(q) ==
    \/ \E x \in Served(RunDoc(q)) : x \in index["graph"]
    \/ "graph" \notin Required /\ <<RunJob(q), "graph">> \in repairs
    \/ \E x \in Runs : Displaces(x, RunDoc(q))

\* What a commit serves has been indexed.
LEMMA ActivatedIsIndexed ==
    ASSUME TypeOK, CleanupOfDeleted, WritesAreKept, PreviousIsCurrent, [Next]_vars,
           NEW r \in Runs, Activate(r), NEW q \in Runs, RunDoc(q) = RunDoc(r),
           ~deleted'[RunDoc(q)], chunks'[q] = "ACTIVE", NEW c \in Channels
    PROVE  \/ r \in index'[c]
           \/ c \notin Required /\ <<RunJob(q), c>> \in repairs'
  <1>1. RunJob(q) = RunJob(r)
    BY ActivateServes
  <1>2. deleted' = deleted /\ index' = index /\ pc[r] = "swapping"
    BY DEF Activate
  <1>3. Required \subseteq indexed[r] /\ \A x \in indexed[r] : r \in index[x]
    BY <1>2 DEF WritesAreKept
  <1>4. \A x \in Channels \ indexed[r] : <<RunJob(r), x>> \in repairs'
    BY DEF Activate
  <1> QED
    BY <1>1, <1>2, <1>3, <1>4

\* What is served stays indexed, or its absence from the graph is accounted for.
LEMMA NextServedIsIndexed ==
    ASSUME TypeOK, CleanupOfDeleted, WritesAreKept, PreviousIsCurrent, RunsAreClaimed,
           ServedIsIndexed, [Next]_vars
    PROVE  ServedIsIndexed'
  <1> SUFFICES ASSUME NEW q \in Runs, ~deleted'[RunDoc(q)], chunks'[q] = "ACTIVE"
               PROVE  /\ q \in index'["milvus"]
                      /\ \A c \in Channels \ {"graph"} :
                             \/ q \in index'[c]
                             \/ c \notin Required /\ <<RunJob(q), c>> \in repairs'
                      /\ "graph" \in Channels => GraphIsKnown(q)'
    BY DEF ServedIsIndexed, Served, RunsOfDoc, RunDoc, RunJob, GraphIsKnown
  <1>0. "milvus" \in Stores /\ Channels \subseteq Stores /\ RunDoc(q) \in Docs
    BY RunParts DEF Stores
  <1>1. ASSUME NEW s \in Stores \ {"graph"}, NEW x \in index[s], RunDoc(x) = RunDoc(q)
        PROVE  x \in index'[s]
    BY <1>1, IndexIsKept
  <1>2. ~deleted[RunDoc(q)]
    BY <1>0, NextIndex
    DEF DeleteDocument, RetryCleanup, InsertVectors, IndexChannels, docVars, TypeOK
  <1>3. ASSUME chunks[q] = "ACTIVE"
        PROVE  /\ q \in index["milvus"]
               /\ \A c \in Channels \ {"graph"} :
                      \/ q \in index[c]
                      \/ c \notin Required /\ <<RunJob(q), c>> \in repairs
               /\ "graph" \in Channels => GraphIsKnown(q)
    BY <1>0, <1>2, <1>3 DEF ServedIsIndexed, Served, RunsOfDoc, GraphIsKnown
  <1>4. CASE \E r \in Runs : Activate(r) /\ RunDoc(r) = RunDoc(q)
    <2>1. PICK r \in Runs : Activate(r) /\ RunDoc(r) = RunDoc(q)
      BY <1>4
    <2>2. \A c \in Channels :
            \/ r \in index'[c]
            \/ c \notin Required /\ <<RunJob(q), c>> \in repairs'
      BY <2>1, ActivatedIsIndexed
    <2>3. chunks'[r] = "ACTIVE"
      BY <2>1 DEF Activate
    <2>4. "graph" \in Channels => GraphIsKnown(q)'
      BY <2>1, <2>2, <2>3 DEF GraphIsKnown, Served, RunsOfDoc, RunDoc, RunJob
    <2>5. CASE q = r
      <3>1. q \in index["milvus"] /\ index' = index
        BY <1>2, <2>1, <2>5 DEF Activate, WritesAreKept
      <3> QED
        BY <2>2, <2>4, <2>5, <3>1
    <2>6. CASE q # r
      <3>1. chunks[q] = "ACTIVE"
        BY <2>1, <2>6 DEF Activate, TypeOK
      <3> QED
        BY <1>0, <1>1, <1>3, <2>4, <3>1, RepairsAreKept
    <2> QED
      BY <2>5, <2>6
  <1>5. CASE ~\E r \in Runs : Activate(r) /\ RunDoc(r) = RunDoc(q)
    <2>1. chunks[q] = "ACTIVE"
      BY <1>5, NextServed
    <2>2. ASSUME "graph" \in Channels PROVE GraphIsKnown(q)'
      <3>1. CASE \E x \in Served(RunDoc(q)) : x \in index["graph"]
        <4>1. PICK x \in Runs :
                /\ RunDoc(x) = RunDoc(q)
                /\ chunks[x] = "ACTIVE"
                /\ x \in index["graph"]
          BY <3>1 DEF Served, RunsOfDoc
        <4>2. chunks'[x] = "ACTIVE"
          BY <1>5, <4>1, NextServed
        <4>3. CASE x \in index'["graph"]
          BY <4>1, <4>2, <4>3 DEF GraphIsKnown, Served, RunsOfDoc, RunDoc
        <4>4. CASE \E r \in Runs : IndexChannels(r) /\ RunDoc(r) = RunDoc(q)
          <5>1. PICK r \in Runs : IndexChannels(r) /\ RunDoc(r) = RunDoc(q)
            BY <4>4
          <5>2. pc[r] = "stored" /\ pc'[r] \in {"mirrored", "failed"} /\ chunks' = chunks
            BY <5>1 DEF IndexChannels, Goto, rowVars, TypeOK
          <5>3. chunks[r] = "NONE"
            BY <5>2 DEF RunsAreClaimed
          <5>4. Displaces(r, RunDoc(q))'
            BY <5>1, <5>2, <5>3 DEF Displaces, RunDoc
          <5> QED
            BY <5>4 DEF GraphIsKnown, RunDoc
        <4> QED
          BY <1>0, <2>2, <4>1, <4>3, <4>4, IndexIsKept
      <3>2. CASE "graph" \notin Required /\ <<RunJob(q), "graph">> \in repairs
        BY <3>2, RepairsAreKept DEF GraphIsKnown, RunJob
      <3>3. ASSUME NEW x \in Runs, Displaces(x, RunDoc(q)) PROVE GraphIsKnown(q)'
        BY <1>0, <1>5, <3>3, NextDisplaces DEF GraphIsKnown, RunDoc
      <3> QED
        BY <1>3, <2>1, <2>2, <3>1, <3>2, <3>3 DEF GraphIsKnown
    <2> QED
      BY <1>0, <1>1, <1>3, <2>1, <2>2, RepairsAreKept
  <1> QED
    BY <1>4, <1>5

LEMMA InitIndexed ==
    Init => CleanupOfDeleted /\ WritesAreKept /\ RunsAreClaimed /\ ServedIsIndexed
  BY DEF Init, CleanupOfDeleted, WritesAreKept, RunsAreClaimed, ServedIsIndexed,
         Served, RunsOfDoc, RunDoc

\* The inductive invariant holds for all values of the constants.
THEOREM InductiveInvariant == Spec => []IInv
  <1>1. Init => CleanupOfDeleted /\ WritesAreKept /\ RunsAreClaimed /\ ServedIsIndexed
    BY InitIndexed
  <1>2. SwitchInv /\ CleanupOfDeleted /\ WritesAreKept /\ RunsAreClaimed
          /\ ServedIsIndexed /\ [Next]_vars
          => (CleanupOfDeleted /\ WritesAreKept /\ RunsAreClaimed /\ ServedIsIndexed)'
    BY NextCleanupOfDeleted, NextWritesAreKept, NextRunsAreClaimed, NextServedIsIndexed
    DEF SwitchInv
  <1> QED
    BY <1>1, <1>2, SwitchInvariant, PTL DEF Spec, IInv, SwitchInv

\* What retrieval serves is in Milvus and in a required Elasticsearch; a channel that
\* misses it has a record for the repair worker.  The one exception is the graph,
\* whose entities a run of the document displaces before it commits, or fails to.
THEOREM ServedChunksAreIndexed == Spec => []ServedIsIndexed
  BY InductiveInvariant, PTL DEF IInv

-----------------------------------------------------------------------------
(***************************************************************************)
(* When no run outlives its claim.  A claim that timed out then belongs to *)
(* a run that is no longer live, so that a job has one live run at most.   *)
(***************************************************************************)

\* Two runs of a job differ in their number.
LEMMA SameRun ==
    ASSUME NEW r \in Runs, NEW q \in Runs, RunJob(r) = RunJob(q), r[2] = q[2]
    PROVE  r = q
  BY DEF Runs, RunJob

\* What a step of a run leaves alone: the other runs, the other jobs, the number
\* of claims; and its own job as well unless it ends the run.
LEMMA RunStepFrame ==
    ASSUME TypeOK, NEW r \in Runs, RunStep(r)
    PROVE  /\ LiveRun(r)
           /\ \A q \in Runs : q # r => pc'[q] = pc[q]
           /\ attempts' = attempts
           /\ ripe' \subseteq ripe
           /\ \A j \in Jobs : j # RunJob(r) => status'[j] = status[j]
           /\ LiveRun(r)' => status' = status
  <1> USE DEF Goto, LiveRun
  <1>1. CASE Load(r) \/ Save(r) \/ InsertVectors(r) \/ SelectPrevious(r) \/ Fail(r)
    BY <1>1 DEF Load, Save, InsertVectors, SelectPrevious, Fail, jobVars, TypeOK
  <1>2. CASE IndexChannels(r)
    BY <1>2 DEF IndexChannels, jobVars, TypeOK
  <1>3. CASE FinishEmpty(r) \/ Activate(r)
    BY <1>3, RunParts DEF FinishEmpty, Activate, Return, SetSuccess, TypeOK
  <1>4. CASE MarkFailure(r)
    BY <1>4, RunParts DEF MarkFailure, Return, TypeOK
  <1> QED
    BY <1>1, <1>2, <1>3, <1>4 DEF RunStep

\* A step that is not a run's: it keeps the jobs and the live runs, or it
\* enqueues a job, lets a claim time out, or claims jobs.
LEMMA OtherSteps ==
    ASSUME TypeOK, [Next]_vars
    PROVE  \/ /\ UNCHANGED jobVars
              /\ \A q \in Runs : LiveRun(q)' => LiveRun(q)
           \/ \E j \in Jobs : Upload(j) \/ Reprocess(j) \/ TimePasses(j)
           \/ \E w \in Workers : Claim(w)
           \/ \E r \in Runs : RunStep(r)
  <1> USE DEF LiveRun, jobVars
  <1>1. ASSUME NEW d \in Docs, DeleteDocument(d) \/ RetryCleanup(d)
        PROVE  UNCHANGED jobVars /\ \A q \in Runs : LiveRun(q)' => LiveRun(q)
    BY <1>1 DEF DeleteDocument, RetryCleanup
  <1>2. ASSUME NEW w \in Workers, Crash(w)
        PROVE  UNCHANGED jobVars /\ \A q \in Runs : LiveRun(q)' => LiveRun(q)
    BY <1>2 DEF Crash, TypeOK
  <1>3. ASSUME NEW w \in Workers, NEW r \in Runs, FailCommit(w, r)
        PROVE  UNCHANGED jobVars /\ \A q \in Runs : LiveRun(q)' => LiveRun(q)
    BY <1>3 DEF FailCommit, Goto, TypeOK
  <1>4. CASE UNCHANGED vars
    BY <1>4 DEF vars
  <1> QED
    BY <1>1, <1>2, <1>3, <1>4 DEF Next

\* The effect of a claim on the jobs and the runs.
LEMMA ClaimEffect ==
    ASSUME TypeOK, NEW w \in Workers, Claim(w)
    PROVE  \E batch \in SUBSET Claimable :
             /\ \A j \in batch : /\ status'[j] = "RUNNING"
                                /\ attempts'[j] = attempts[j] + 1
                                /\ j \notin ripe'
             /\ \A j \in Jobs \ batch : /\ status'[j] = status[j]
                                       /\ attempts'[j] = attempts[j]
             /\ ripe' \subseteq ripe
             /\ \A q \in Runs : pc'[q] = pc[q] \/ \E j \in batch : q = NextRun(j)
  <1>1. PICK batch \in SUBSET Claimable :
            /\ status' = [j \in Jobs |-> IF j \in batch THEN "RUNNING" ELSE status[j]]
            /\ attempts' = [j \in Jobs |-> IF j \in batch THEN attempts[j] + 1
                                                          ELSE attempts[j]]
            /\ ripe' = ripe \ batch
            /\ pc' = [r \in Runs |-> IF r \in {NextRun(j) : j \in batch}
                                     THEN "claimed" ELSE pc[r]]
    BY DEF Claim
  <1>2. batch \subseteq Jobs
    BY DEF Claimable
  <1> QED
    BY <1>1, <1>2

\* A job that has a live run can neither be claimed nor time out.
LEMMA NextOneLiveRun ==
    ASSUME ~RunsOutliveClaim, TypeOK, OneLiveRun, [Next]_vars
    PROVE  OneLiveRun'
  <1> DEFINE Last(q) == /\ status[RunJob(q)] = "RUNNING"
                        /\ attempts[RunJob(q)] = q[2]
                        /\ RunJob(q) \notin ripe
  <1> SUFFICES ASSUME NEW q \in Runs, LiveRun(q)'
               PROVE  Last(q)'
    BY DEF OneLiveRun, RunJob
  <1>0. RunJob(q) \in Jobs
    BY RunParts
  <1>1. CASE UNCHANGED jobVars /\ (LiveRun(q)' => LiveRun(q))
    BY <1>1 DEF OneLiveRun, RunJob, jobVars
  <1>2. ASSUME NEW j \in Jobs, Upload(j) \/ Reprocess(j) PROVE Last(q)'
    <2>1. LiveRun(q) /\ UNCHANGED <<attempts, ripe>>
      BY <1>2 DEF Upload, Reprocess, LiveRun
    <2>2. status'[RunJob(q)] = status[RunJob(q)]
      BY <1>0, <1>2, <2>1 DEF Upload, Reprocess, EnqueueJob, OneLiveRun, TypeOK
    <2> QED
      BY <2>1, <2>2 DEF OneLiveRun, RunJob
  <1>3. ASSUME NEW j \in Jobs, TimePasses(j) PROVE Last(q)'
    <2>1. LiveRun(q) /\ UNCHANGED <<attempts, status>>
      BY <1>3 DEF TimePasses, LiveRun
    <2>2. j # RunJob(q)
      BY <1>3, <2>1 DEF TimePasses, OneLiveRun
    <2> QED
      BY <1>3, <2>1, <2>2 DEF TimePasses, OneLiveRun, RunJob
  <1>4. ASSUME NEW w \in Workers, Claim(w) PROVE Last(q)'
    <2>1. PICK batch \in SUBSET Claimable :
             /\ \A j \in batch : /\ status'[j] = "RUNNING"
                                /\ attempts'[j] = attempts[j] + 1
                                /\ j \notin ripe'
             /\ \A j \in Jobs \ batch : /\ status'[j] = status[j]
                                       /\ attempts'[j] = attempts[j]
             /\ ripe' \subseteq ripe
             /\ pc'[q] = pc[q] \/ \E j \in batch : q = NextRun(j)
      BY <1>4, ClaimEffect
    <2>2. CASE pc'[q] = pc[q]
      <3>1. LiveRun(q)
        BY <2>2 DEF LiveRun
      <3>2. RunJob(q) \notin batch
        BY <3>1 DEF OneLiveRun, Claimable
      <3> QED
        BY <1>0, <2>1, <3>1, <3>2 DEF OneLiveRun, RunJob
    <2>3. ASSUME NEW j \in batch, q = NextRun(j) PROVE Last(q)'
      BY <2>1, <2>3 DEF NextRun, RunJob
    <2> QED
      BY <2>1, <2>2, <2>3
  <1>5. ASSUME NEW r \in Runs, RunStep(r) PROVE Last(q)'
    <2>1. CASE q = r
      BY <1>5, <2>1, RunStepFrame DEF OneLiveRun, RunJob
    <2>2. CASE q # r
      <3>1. LiveRun(q) /\ LiveRun(r)
        BY <1>5, <2>2, RunStepFrame DEF LiveRun
      <3>2. RunJob(q) # RunJob(r)
        BY <2>2, <3>1, SameRun DEF OneLiveRun
      <3> QED
        BY <1>0, <1>5, <3>1, <3>2, RunStepFrame DEF OneLiveRun, RunJob
    <2> QED
      BY <2>1, <2>2
  <1> QED
    BY <1>1, <1>2, <1>3, <1>4, <1>5, OtherSteps

\* Only the last run of a job settles it, and a settled job has no live run.
LEMMA NextSettled ==
    ASSUME TypeOK, OneLiveRun, [Next]_vars,
           NEW j \in Jobs, status[j] \in {"SUCCESS", "DEAD"}
    PROVE  status'[j] = status[j]
  <1>1. CASE UNCHANGED jobVars
    BY <1>1 DEF jobVars
  <1>2. ASSUME NEW k \in Jobs, Upload(k) \/ Reprocess(k) \/ TimePasses(k)
        PROVE  status'[j] = status[j]
    BY <1>2 DEF Upload, Reprocess, TimePasses, EnqueueJob, TypeOK
  <1>3. ASSUME NEW w \in Workers, Claim(w) PROVE status'[j] = status[j]
    <2>1. j \notin Claimable
      BY DEF Claimable
    <2> QED
      BY <1>3, <2>1, ClaimEffect
  <1>4. ASSUME NEW r \in Runs, RunStep(r) PROVE status'[j] = status[j]
    <2>1. RunJob(r) # j
      BY <1>4, RunStepFrame DEF OneLiveRun
    <2> QED
      BY <1>4, <2>1, RunStepFrame
  <1> QED
    BY <1>1, <1>2, <1>3, <1>4, OtherSteps

\* A run that commits finds no committed row of its job, and settles it.
LEMMA ActivateIsFirst ==
    ASSUME TypeOK, OneLiveRun, RowsOfSuccess, RunsReadUnsettled, NEW r \in Runs, Activate(r)
    PROVE  /\ \A q \in Runs : RunJob(q) = RunJob(r) => chunks[q] = "NONE"
           /\ status'[RunJob(r)] = "SUCCESS"
           /\ active' = [active EXCEPT ![RunDoc(r)] = RunJob(r)]
  <1>1. status[RunJob(r)] = "RUNNING"
    BY DEF Activate, LiveRun, OneLiveRun
  <1>2. \A q \in Runs : RunJob(q) = RunJob(r) => chunks[q] = "NONE"
    BY <1>1 DEF RowsOfSuccess
  <1>3. "status" \notin same[r] /\ "active" \notin same[r]
    BY DEF Activate, LiveRun, RunsReadUnsettled
  <1>4. /\ status'[RunJob(r)] = "SUCCESS"
        /\ active' = [active EXCEPT ![RunDoc(r)] = RunJob(r)]
    BY <1>3, RunParts DEF Activate, SetSuccess, TypeOK
  <1> QED
    BY <1>2, <1>4

LEMMA NextRowsOfSuccess ==
    ASSUME TypeOK, PreviousIsCurrent, OneLiveRun, RowsOfSuccess, OneRunCommits,
           RunsReadUnsettled, [Next]_vars
    PROVE  RowsOfSuccess' /\ OneRunCommits'
  <1>1. ASSUME NEW q \in Runs, chunks'[q] # "NONE"
        PROVE  status'[RunJob(q)] = "SUCCESS"
    <2>1. CASE chunks[q] # "NONE"
      BY <2>1, NextSettled, RunParts DEF RowsOfSuccess
    <2>2. CASE Activate(q)
      BY <2>2, ActivateIsFirst
    <2> QED
      BY <1>1, <2>1, <2>2, NextRows
  <1>2. ASSUME NEW q \in Runs, NEW x \in Runs, RunJob(q) = RunJob(x),
               chunks'[q] # "NONE", chunks'[x] # "NONE"
        PROVE  q = x
    <2>1. ASSUME NEW r \in Runs, Activate(r), NEW y \in Runs, y # r,
                 RunJob(y) = RunJob(r)
          PROVE  chunks'[y] = "NONE"
      <3>1. chunks[y] = "NONE"
        BY <2>1, ActivateIsFirst
      <3>2. ~Activate(y)
        BY <2>1 DEF Activate, Return, Goto, TypeOK
      <3> QED
        BY <3>1, <3>2, NextRows
    <2>2. CASE Activate(q) \/ Activate(x)
      BY <1>2, <2>1, <2>2
    <2>3. CASE ~Activate(q) /\ ~Activate(x)
      BY <1>2, <2>3, NextRows DEF OneRunCommits
    <2> QED
      BY <2>2, <2>3
  <1> QED
    BY <1>1, <1>2 DEF RowsOfSuccess, OneRunCommits, RunJob

\* The document is shown as processed in the step that settles its job, or by a
\* request that finds the job settled.
LEMMA NextSuccessShownIsEarned ==
    ASSUME TypeOK, OneLiveRun, RunsReadUnsettled, SuccessShownIsEarned, [Next]_vars
    PROVE  SuccessShownIsEarned'
  <1> SUFFICES ASSUME NEW d \in Docs, docStatus'[d] = "success"
               PROVE  \E j \in Jobs : DocOf[j] = d /\ status'[j] = "SUCCESS"
    BY DEF SuccessShownIsEarned
  <1>1. CASE docStatus[d] = "success"
    BY <1>1, NextSettled DEF SuccessShownIsEarned
  <1>2. ASSUME NEW j \in Jobs, Upload(j) \/ Reprocess(j), docStatus[d] # "success"
        PROVE  DocOf[j] = d /\ status'[j] = "SUCCESS"
    BY <1>2 DEF Upload, Reprocess, EnqueueJob, TypeOK
  <1>3. ASSUME NEW r \in Runs, FinishEmpty(r) \/ Activate(r), docStatus[d] # "success"
        PROVE  RunJob(r) \in Jobs /\ DocOf[RunJob(r)] = d /\ status'[RunJob(r)] = "SUCCESS"
    <2>1. "status" \notin same[r]
      BY <1>3 DEF FinishEmpty, Activate, LiveRun, RunsReadUnsettled
    <2> QED
      BY <1>3, <2>1, RunParts
      DEF FinishEmpty, Activate, SetSuccess, RunDoc, RunJob, TypeOK
  <1>4. ASSUME NEW r \in Runs, MarkFailure(r), docStatus[d] # "success" PROVE FALSE
    BY <1>4 DEF MarkFailure, TypeOK
  <1>5. \/ docStatus' = docStatus
        \/ \E j \in Jobs : Upload(j) \/ Reprocess(j)
        \/ \E r \in Runs : FinishEmpty(r) \/ Activate(r) \/ MarkFailure(r)
    BY DEF Next, RunStep, vars, docVars, TimePasses, DeleteDocument, RetryCleanup,
           Claim, Crash, FailCommit, Load, Save, InsertVectors, IndexChannels,
           SelectPrevious, Fail
  <1> QED
    BY <1>1, <1>2, <1>3, <1>4, <1>5

\* Only Load makes a run read fields; the end of a run forgets them.
LEMMA NextSame ==
    ASSUME TypeOK, [Next]_vars, NEW q \in Runs
    PROVE  same'[q] = {} \/ same'[q] = same[q] \/ Load(q)
  <1> USE DEF Forget, TypeOK
  <1>1. CASE same' = same
    BY <1>1
  <1>2. ASSUME NEW w \in Workers, Claim(w) \/ Crash(w)
        PROVE  same'[q] = {} \/ same'[q] = same[q]
    BY <1>2 DEF Claim, Crash, runData
  <1>3. ASSUME NEW w \in Workers, NEW r \in Runs, FailCommit(w, r)
        PROVE  same'[q] = {} \/ same'[q] = same[q]
    BY <1>3 DEF FailCommit
  <1>4. ASSUME NEW r \in Runs, RunStep(r)
        PROVE  same'[q] = {} \/ same'[q] = same[q] \/ Load(q)
    <2>1. CASE Load(r)
      BY <2>1 DEF Load
    <2>2. CASE Save(r) \/ InsertVectors(r) \/ SelectPrevious(r)
      BY <2>2 DEF Save, InsertVectors, SelectPrevious, runData
    <2>3. CASE IndexChannels(r)
      BY <2>3 DEF IndexChannels
    <2>4. CASE FinishEmpty(r) \/ Activate(r) \/ Fail(r) \/ MarkFailure(r)
      BY <2>4 DEF FinishEmpty, Activate, Fail, MarkFailure, Return
    <2> QED
      BY <1>4, <2>1, <2>2, <2>3, <2>4 DEF RunStep
  <1>5. CASE UNCHANGED vars
    BY <1>1, <1>5 DEF vars, runData
  <1>6. ASSUME NEW j \in Jobs, Upload(j) \/ Reprocess(j) \/ TimePasses(j)
        PROVE  same' = same
    BY <1>6 DEF Upload, Reprocess, TimePasses, runData
  <1>7. ASSUME NEW d \in Docs, DeleteDocument(d) \/ RetryCleanup(d)
        PROVE  same' = same
    BY <1>7 DEF DeleteDocument, RetryCleanup, runData
  <1> QED
    BY <1>1, <1>2, <1>3, <1>4, <1>5, <1>6, <1>7 DEF Next

\* A run reads the row of its document while its own job is RUNNING, hence before
\* its generation can be the recorded one.
LEMMA NextRunsReadUnsettled ==
    ASSUME TypeOK, OneLiveRun, RowsOfSuccess, RunsReadUnsettled, [Next]_vars
    PROVE  RunsReadUnsettled'
  <1>1. ASSUME NEW d \in Docs, active'[d] # NoJob
        PROVE  status'[active'[d]] = "SUCCESS"
    <2>1. CASE active'[d] = active[d]
      BY <1>1, <2>1, NextSettled DEF RunsReadUnsettled, TypeOK
    <2>2. ASSUME NEW r \in Runs, Activate(r) PROVE status'[active'[d]] = "SUCCESS"
      <3>1. active'[d] \in {active[d], RunJob(r)} /\ status'[RunJob(r)] = "SUCCESS"
        BY <2>2, ActivateIsFirst DEF TypeOK
      <3> QED
        BY <2>1, <3>1
    <2>3. ASSUME NEW e \in Docs, DeleteDocument(e) PROVE active' = active
      BY <2>3 DEF DeleteDocument
    <2> QED
      BY <2>1, <2>2, <2>3, NextChunks
  <1>2. ASSUME NEW q \in Runs PROVE same'[q] \subseteq {"pending"}
    <2>1. CASE same'[q] = {}
      BY <2>1
    <2>2. CASE same'[q] = same[q]
      BY <2>2 DEF RunsReadUnsettled
    <2>3. CASE Load(q)
      <3>1. status[RunJob(q)] = "RUNNING"
        BY <2>3 DEF Load, LiveRun, OneLiveRun
      <3>2. AsRead(q)["status"] # AsAssigned(q)["status"]
        BY <3>1 DEF AsRead, AsAssigned
      <3>3. active[RunDoc(q)] # RunJob(q)
        BY <3>1, RunParts, ConstantsAssumption DEF RunsReadUnsettled
      <3>4. AsRead(q)["active"] # AsAssigned(q)["active"]
        BY <3>3 DEF AsRead, AsAssigned
      <3>5. same'[q] = same[q] \/
            same'[q] = {f \in Fields : AsRead(q)[f] = AsAssigned(q)[f]}
        BY <2>3 DEF Load, TypeOK
      <3> QED
        BY <2>2, <3>2, <3>4, <3>5 DEF Fields
    <2> QED
      BY <2>1, <2>2, <2>3, NextSame
  <1> QED
    BY <1>1, <1>2 DEF RunsReadUnsettled

\* The commit that serves a generation records it.
LEMMA NextRecordedIsServed ==
    ASSUME TypeOK, PreviousIsCurrent, OneLiveRun, RowsOfSuccess, RunsReadUnsettled,
           RecordedIsServed, [Next]_vars
    PROVE  RecordedIsServed'
  <1> SUFFICES ASSUME NEW q \in Runs, chunks'[q] = "ACTIVE"
               PROVE  RunJob(q) = active'[RunDoc(q)]
    BY DEF RecordedIsServed, Served, RunsOfDoc, RunDoc, RunJob
  <1>0. RunDoc(q) \in Docs
    BY RunParts
  <1>1. ASSUME chunks[q] = "ACTIVE" PROVE RunJob(q) = active[RunDoc(q)]
    BY <1>0, <1>1 DEF RecordedIsServed, Served, RunsOfDoc
  <1>2. CASE UNCHANGED <<chunks, active>>
    BY <1>1, <1>2
  <1>3. ASSUME NEW d \in Docs, DeleteDocument(d) PROVE RunJob(q) = active'[RunDoc(q)]
    BY <1>1, <1>3 DEF DeleteDocument, TypeOK
  <1>4. ASSUME NEW r \in Runs, Activate(r) PROVE RunJob(q) = active'[RunDoc(q)]
    <2>1. active' = [active EXCEPT ![RunDoc(r)] = RunJob(r)]
      BY <1>4, ActivateIsFirst
    <2>2. CASE RunDoc(q) = RunDoc(r)
      BY <1>0, <1>4, <2>1, <2>2, ActivateServes DEF TypeOK
    <2>3. CASE RunDoc(q) # RunDoc(r)
      BY <1>0, <1>1, <1>4, <2>1, <2>3, ActivateIsLocal DEF TypeOK
    <2> QED
      BY <2>2, <2>3
  <1> QED
    BY <1>2, <1>3, <1>4, NextChunks

LEMMA InitPunctualInv == Init => PunctualInv
  BY RunParts
  DEF Init, PunctualInv, OneLiveRun, LiveRun, RowsOfSuccess, OneRunCommits,
      RunsReadUnsettled, SuccessShownIsEarned

\* The inductive invariant of the systems whose runs end before their claim.
THEOREM PunctualInvariant == ~RunsOutliveClaim => (Spec => [](SwitchInv /\ PunctualInv))
  <1> SUFFICES ASSUME ~RunsOutliveClaim
               PROVE  Spec => [](SwitchInv /\ PunctualInv)
    OBVIOUS
  <1>1. SwitchInv /\ PunctualInv /\ [Next]_vars => PunctualInv'
    BY NextOneLiveRun, NextRowsOfSuccess, NextRunsReadUnsettled,
       NextSuccessShownIsEarned
    DEF SwitchInv, PunctualInv
  <1> QED
    BY <1>1, InitPunctualInv, SwitchInvariant, PTL DEF Spec

\* A document is never served the chunks of two runs, of the same job or not: a
\* run repeated after a failure, a crash or a lost commit duplicates nothing.
THEOREM ChunksAreNotDuplicated == ~RunsOutliveClaim => (Spec => []NoDuplicateChunks)
  <1> SUFFICES ASSUME ~RunsOutliveClaim PROVE Spec => []NoDuplicateChunks
    OBVIOUS
  <1>1. SwitchInv /\ PunctualInv => NoDuplicateChunks
    BY DEF SwitchInv, PunctualInv, OneServedGeneration, OneRunCommits,
           NoDuplicateChunks, Served, RunsOfDoc
  <1> QED
    BY <1>1, PunctualInvariant, PTL

\* The served chunks are of the generation the document records, if no run outlives
\* its claim: then no run can have read its own generation as the recorded one.
THEOREM RecordedIsTheServed == ~RunsOutliveClaim => (Spec => []RecordedIsServed)
  <1> SUFFICES ASSUME ~RunsOutliveClaim PROVE Spec => []RecordedIsServed
    OBVIOUS
  <1>1. Init => RecordedIsServed
    BY DEF Init, RecordedIsServed, Served, RunsOfDoc
  <1>2. SwitchInv /\ PunctualInv /\ RecordedIsServed /\ [Next]_vars => RecordedIsServed'
    BY NextRecordedIsServed DEF SwitchInv, PunctualInv
  <1> QED
    BY <1>1, <1>2, PunctualInvariant, PTL DEF Spec

\* A document shown as processed has a job that succeeded.
THEOREM SuccessIsEarned == ~RunsOutliveClaim => (Spec => []SuccessShownIsEarned)
  <1> SUFFICES ASSUME ~RunsOutliveClaim PROVE Spec => []SuccessShownIsEarned
    OBVIOUS
  <1>1. PunctualInv => SuccessShownIsEarned
    BY DEF PunctualInv
  <1> QED
    BY <1>1, PunctualInvariant, PTL

\* A job that succeeded or was given up is never run or changed again.
THEOREM SettledJobsAreFinal == ~RunsOutliveClaim => (Spec => SettledIsFinal)
  <1> SUFFICES ASSUME ~RunsOutliveClaim PROVE Spec => SettledIsFinal
    OBVIOUS
  <1>1. SwitchInv /\ PunctualInv /\ [Next]_vars =>
          [\A j \in Jobs : status[j] \in {"SUCCESS", "DEAD"} => status'[j] = status[j]]_vars
    BY NextSettled DEF SwitchInv, PunctualInv
  <1> QED
    BY <1>1, PunctualInvariant, PTL DEF Spec, SettledIsFinal

-----------------------------------------------------------------------------
(***************************************************************************)
(* The refinement of GenerationStore: a deletion is Remove, a commit is    *)
(* Publish, and every other step stutters.                                 *)
(***************************************************************************)
Published == {j \in Jobs : \E r \in Runs : RunJob(r) = j /\ chunks[r] # "NONE"}

LEMMA GSInit == Init => GS!Init
  BY DEF Init, GS!Init, Generation, Served, RunsOfDoc

\* What is served and published depends on the chunk rows only.
LEMMA GSStutter ==
    ASSUME chunks' = chunks, deleted' = deleted, active' = active
    PROVE  UNCHANGED GS!gsVars
  BY DEF GS!gsVars, Generation, Served, RunsOfDoc, RunDoc, RunJob

LEMMA GSRemove ==
    ASSUME TypeOK, NEW d \in Docs, DeleteDocument(d)
    PROVE  GS!Remove(d)
  <1>1. \A q \in Runs : /\ RunDoc(q) = d => chunks'[q] # "ACTIVE"
                        /\ RunDoc(q) # d => chunks'[q] = chunks[q]
                        /\ (chunks'[q] # "NONE") <=> (chunks[q] # "NONE")
    BY DEF DeleteDocument, TypeOK
  <1>2. Generation(d)' = {}
    BY <1>1 DEF Generation, Served, RunsOfDoc, RunDoc, RunJob
  <1>3. \A e \in Docs : e # d => Generation(e)' = Generation(e)
    BY <1>1 DEF Generation, Served, RunsOfDoc, RunDoc, RunJob
  <1>4. Published' = Published
    BY <1>1 DEF Published, RunJob
  <1>5. /\ ~deleted[d]
        /\ deleted' = [deleted EXCEPT ![d] = TRUE]
        /\ active' = active
    BY DEF DeleteDocument
  <1> QED
    BY <1>2, <1>3, <1>4, <1>5 DEF GS!Remove, Published

LEMMA GSPublish ==
    ASSUME TypeOK, PreviousIsCurrent, OneLiveRun, RowsOfSuccess, RunsReadUnsettled,
           NEW r \in Runs, Activate(r)
    PROVE  GS!Publish(RunDoc(r), RunJob(r))
  <1>0. RunJob(r) \in Jobs /\ RunDoc(r) \in Docs
    BY RunParts
  <1>1. \A q \in Runs : RunJob(q) = RunJob(r) => chunks[q] = "NONE"
    BY ActivateIsFirst
  <1>2. chunks'[r] = "ACTIVE"
    BY DEF Activate
  <1>3. \A q \in Runs : q # r /\ RunDoc(q) = RunDoc(r) => chunks'[q] # "ACTIVE"
    BY <1>1 DEF Activate, PreviousIsCurrent, Superseded, TypeOK
  <1>4. \A q \in Runs : q # r => (chunks'[q] # "NONE" <=> chunks[q] # "NONE")
    BY DEF Activate, PreviousIsCurrent, Superseded, TypeOK
  <1>5. Generation(RunDoc(r))' = {RunJob(r)}
    BY <1>2, <1>3 DEF Generation, Served, RunsOfDoc, RunDoc, RunJob
  <1>6. ASSUME NEW e \in Docs, e # RunDoc(r) PROVE Generation(e)' = Generation(e)
    <2>1. \A q \in Runs : RunDoc(q) = e => chunks'[q] = chunks[q]
      BY <1>6, ActivateIsLocal
    <2> QED
      BY <2>1 DEF Generation, Served, RunsOfDoc, RunDoc, RunJob
  <1>7. RunJob(r) \notin Published
    BY <1>1 DEF Published
  <1>8. Published' = Published \cup {RunJob(r)}
    BY <1>0, <1>2, <1>4 DEF Published, RunJob
  <1>9. deleted' = deleted /\ active' = [active EXCEPT ![RunDoc(r)] = RunJob(r)]
    BY ActivateIsFirst DEF Activate
  <1> QED
    BY <1>0, <1>5, <1>6, <1>7, <1>8, <1>9 DEF GS!Publish, Published

LEMMA GSNext ==
    ASSUME SwitchInv, PunctualInv, [Next]_vars
    PROVE  [GS!Next]_GS!gsVars
  <1>1. ASSUME NEW d \in Docs, DeleteDocument(d) PROVE GS!Next
    BY <1>1, GSRemove DEF GS!Next, SwitchInv
  <1>2. ASSUME NEW r \in Runs, Activate(r) PROVE GS!Next
    BY <1>2, GSPublish, RunParts DEF GS!Next, SwitchInv, PunctualInv
  <1>3. \/ chunks' = chunks /\ deleted' = deleted /\ active' = active
        \/ \E d \in Docs : DeleteDocument(d)
        \/ \E r \in Runs : Activate(r)
    BY DEF Next, RunStep, vars, docVars, rowVars, Upload, Reprocess, TimePasses,
           RetryCleanup, Claim, Crash, FailCommit, Load, Save, FinishEmpty,
           InsertVectors, IndexChannels, SelectPrevious, Fail, MarkFailure
  <1> QED
    BY <1>1, <1>2, <1>3, GSStutter

\* The queue, the workers and the transactions implement what is promised to
\* retrieval: generations are switched and recorded in one step, each is published once, and
\* only a deletion takes a document out.
THEOREM Refinement == ~RunsOutliveClaim => (Spec => ImplementsGenerationStore)
  <1> SUFFICES ASSUME ~RunsOutliveClaim PROVE Spec => ImplementsGenerationStore
    OBVIOUS
  <1>1. SwitchInv /\ PunctualInv /\ [Next]_vars => [GS!Next]_GS!gsVars
    BY GSNext
  <1> QED
    BY <1>1, GSInit, PunctualInvariant, PTL DEF Spec, GS!Spec, ImplementsGenerationStore

=============================================================================
