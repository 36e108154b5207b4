--------------------------- MODULE MCSchedulerRun ---------------------------
(* Instances of SchedulerRun, and the fair specification for its liveness. *)
EXTENDS SchedulerRun

\* Some call goes on as long as one can, somebody asks for the status again and
\* again, the scheduler does not fail to answer for ever, and the accounting
\* catches up.
FairSpec ==
  /\ Spec
  /\ WF_vars(\E c \in Callers : Proceed(c))
  /\ SF_vars(\E c \in Callers : StatusRead(c))
  /\ SF_vars(\E c \in Callers : QueryScheduler(c))
  /\ WF_vars(Book)

\* The record of a run whose job has ended comes to show that it is over and
\* keeps showing it, or is unreadable: stale records and late answers that are
\* written over it do not last, even when the exit code file has been cleaned
\* away.  An ended job stays ended, so this is said of all times from some time on.
\* A job that the accounting knows nothing of is the exception.
RecordSettles ==
  <>[](spc = "done" /\ job \in Ended /\ Accounted(dialect, job)
         => Over \/ file \in Unreadable)
=============================================================================
