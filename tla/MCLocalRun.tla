----------------------------- MODULE MCLocalRun -----------------------------
(* Instances of LocalRun, and the fair specification for its liveness.     *)
EXTENDS LocalRun

\* Threads are scheduled and the time limit passes; the process itself may run
\* for ever.
FairSpec ==
  /\ Spec
  /\ WF_vars(Submitting)
  /\ \A c \in Cancellers : WF_vars(CancelKill(c) \/ CancelOpen(c) \/ CancelWrite(c))

\* A run that was started comes to an end on record, whatever its process does
\* and however cancel interferes: the record becomes terminal, or stays
\* unreadable, for good, unless a process of the server dies.
RecordSettles == proc = "alive" ~> (crashes > 0 \/ [](file = Garbled \/ Over))
=============================================================================
