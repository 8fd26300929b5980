-------------------------- MODULE GenerationStore --------------------------
(***************************************************************************)
(* What the ingestion subsystem promises to retrieval, with the queue, the *)
(* workers and the database transactions left out.  A document is served   *)
(* from at most one generation; a switch to another generation is one      *)
(* step; a generation is published at most once, so a replaced generation  *)
(* never comes back; the generation recorded for the document changes in   *)
(* the same step; and a document stops being served only when it is        *)
(* removed, which happens once.                                            *)
(***************************************************************************)
CONSTANTS Docs, Generations, NoGeneration

VARIABLES
    served,     \* Docs -> the set of generations whose chunks retrieval returns
    recorded,   \* Docs -> the generation the document is recorded to have
    published,  \* the generations that have been published so far
    removed     \* Docs -> BOOLEAN

gsVars == <<served, recorded, published, removed>>

Init ==
    /\ served = [d \in Docs |-> {}]
    /\ recorded = [d \in Docs |-> NoGeneration]
    /\ published = {}
    /\ removed = [d \in Docs |-> FALSE]

Publish(d, g) ==
    /\ g \notin published
    /\ served' = [served EXCEPT ![d] = {g}]
    /\ recorded' = [recorded EXCEPT ![d] = g]
    /\ published' = published \cup {g}
    /\ UNCHANGED removed

Remove(d) ==
    /\ ~removed[d]
    /\ removed' = [removed EXCEPT ![d] = TRUE]
    /\ served' = [served EXCEPT ![d] = {}]
    /\ UNCHANGED <<recorded, published>>

Next == \E d \in Docs : Remove(d) \/ \E g \in Generations : Publish(d, g)

Spec == Init /\ [][Next]_gsVars
=============================================================================
