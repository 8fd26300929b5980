-------------------------- MODULE MCIngestionJobs --------------------------
(* Instances of IngestionJobs: values for DocOf and Uploads. *)
EXTENDS IngestionJobs, TLC
CONSTANTS d1, d2, up, re, up2, w1, w2

\* one document, uploaded and reprocessed with another chunk configuration
OneDoc == {d1}
OneDocJobs == {up, re}
OneDocOf == up :> d1 @@ re :> d1

\* two documents, both uploaded
TwoDoc == {d1, d2}
TwoDocJobs == {up, up2}
TwoDocOf == up :> d1 @@ up2 :> d2

UploadJobs == Jobs \ {re}
WorkerSymmetry == Permutations({w1, w2})
=============================================================================
