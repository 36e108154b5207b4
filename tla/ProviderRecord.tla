--------------------------- MODULE ProviderRecord ---------------------------
(***************************************************************************)
(* What ScienceService relies on in a compute provider (the ComputeProvider *)
(* protocol of science/omnisci/compute/base.py), for one run: the status   *)
(* that provider.status reports, and what really became of the job.        *)
(*                                                                         *)
(* The record may lag behind the job, may be overwritten by a stale one    *)
(* and may change after it was terminal.  It says succeeded only when the  *)
(* job has succeeded, and a job that has ended never changes.              *)
(***************************************************************************)

VARIABLES
  record,   \* the status the provider reports; "none" before submission
  job       \* what became of the job

States == {"queued", "running", "succeeded", "failed", "cancelled", "timeout"}
Terminal == {"succeeded", "failed", "cancelled", "timeout"}

Init == record = "none" /\ job = "none"

Submit ==
  /\ record = "none"
  /\ record' = "queued"
  /\ job' = "active"

JobEnds ==
  /\ job = "active"
  /\ job' \in {"ok", "bad"}
  /\ UNCHANGED record

RecordMoves ==
  /\ record # "none"
  /\ record' \in States
  /\ record' = "succeeded" => job = "ok"
  /\ UNCHANGED job

\* The provider stops the job and records it, unless the job ended first.
Cancel ==
  /\ record \notin Terminal \cup {"none"}
  /\ record' = "cancelled"
  /\ job' = IF job = "active" THEN "bad" ELSE job

Next == Submit \/ JobEnds \/ RecordMoves \/ Cancel

Spec == Init /\ [][Next]_<<record, job>>
=============================================================================
