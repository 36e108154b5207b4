---------------------------- MODULE SchedulerRun ----------------------------
(***************************************************************************)
(* One run of a scheduler provider (science/omnisci/compute/scheduler.py,  *)
(* over the staging and cleanup of ssh.py): submit, and then any number of *)
(* overlapping calls of status, cancel and collect, each in a thread or    *)
(* process of its own.                                                     *)
(*                                                                         *)
(* A run is spread over run.json in the workspace, the outputs manifest    *)
(* beside it, the run's directory on the cluster, the exit code the job    *)
(* script leaves there, and the job in the scheduler.  Every remote        *)
(* command is an ssh connection that may fail, or do its work and lose the *)
(* reply.  Every call works on the record it read first and writes it back *)
(* whole; a write truncates run.json and then writes it.                   *)
(*                                                                         *)
(* All collections of a run use one outputs.tar beside run.json and extract *)
(* into the same files of the workspace, without a lock and in many steps. *)
(*                                                                         *)
(* Nobody knows the run before submit returns, so what submit writes is    *)
(* read by no other call.  The provider is configured to clean up          *)
(* (cleanup_remote), which is the default.                                 *)
(***************************************************************************)
EXTENDS Naturals

CONSTANTS
  Callers,     \* threads and processes that call status, cancel and collect
  Dialects,    \* schedulers: "slurm", "pbs", "sge"
  MaxAborts    \* bound on calls that raise or die half way

States == {"queued", "running", "succeeded", "failed", "cancelled", "timeout"}
Terminal == {"succeeded", "failed", "cancelled", "timeout"}

\* A record, reduced to its status, whether it has the scheduler's job id, and
\* whether the remote directory is recorded as removed.
Records == [status : States, id : BOOLEAN, cleaned : BOOLEAN]
NoRecord == [status |-> "none"]

\* What run.json can hold besides a record.
Absent == [status |-> "absent"]
Empty == [status |-> "empty"]
Garbled == [status |-> "garbled"]
Unreadable == {Absent, Empty, Garbled}

\* How a job can end: by itself, killed by a cancel, by its time limit, lost with
\* its node or by preemption, or deleted before it started.
Ended == {"zero", "nonzero", "killed", "limit", "lost", "deleted"}

ASSUME SchedulerRunAssumption ==
  MaxAborts \in Nat /\ Dialects \subseteq {"slurm", "pbs", "sge"}

VARIABLES
  file,      \* run.json
  manifest,  \* outputs_manifest.json exists
  archive,   \* outputs.tar: absent, short (being filled, or cut) or whole
  here,      \* the declared outputs are in the workspace, and whole
  dir,       \* the remote directory: none, present or removed
  code,      \* the exit code file in it: none, zero or nonzero
  job,       \* none, queued, running, dying (being killed) or how it ended
  booked,    \* the accounting knows how the job ended
  dialect,   \* the scheduler
  spc,       \* where submit is
  pc,        \* where each caller is
  next,      \* where it goes on after the write it is in
  mem,       \* the record it holds
  hand,      \* what became of the files it is writing or extracting
  reported,  \* history: a status call has returned succeeded
  asked,     \* history: a cancel call has found the run not over
  shared,    \* history: two collections copied the outputs at the same time
  last,      \* history: the status of the write that was last completed
  aborts     \* calls that raised or died so far

remote == <<dir, code, job, booked, dialect>>
local == <<manifest, archive, here>>
caller == <<pc, next, mem, hand>>
history == <<reported, asked, last, shared>>
vars == <<file, local, remote, spc, caller, history, aborts>>

-----------------------------------------------------------------------------
(* submit.                                                                 *)

Queued == [status |-> "queued", id |-> FALSE, cleaned |-> FALSE]

\* The run directory is made and its record written.
WriteQueued ==
  /\ spc = "new"
  /\ file' = Queued
  /\ last' = "queued"
  /\ spc' = "stage"
  /\ UNCHANGED <<local, remote, caller, reported, asked, shared, aborts>>

\* mkdir on the cluster, whatever becomes of its reply.
MakeDirectory ==
  /\ spc = "stage"
  /\ dir' = "present"
  /\ spc' \in {"upload", "stage_failed"}
  /\ UNCHANGED <<file, local, code, job, booked, dialect, caller, history, aborts>>

\* The project and the job script are uploaded.
Upload ==
  /\ spc = "upload"
  /\ spc' = "enqueue"
  /\ UNCHANGED <<file, local, remote, caller, history, aborts>>

\* sbatch or qsub queues the job; its reply arrives and can be parsed, or not.
Enqueue ==
  /\ spc = "enqueue"
  /\ job' = "queued"
  /\ spc' \in {"keep_id", "submit_failed"}
  /\ UNCHANGED <<file, local, dir, code, booked, dialect, caller, history, aborts>>

\* The job id is recorded and the run returned to the service.
KeepId ==
  /\ spc = "keep_id"
  /\ file' = [file EXCEPT !.id = TRUE]
  /\ last' = file.status
  /\ spc' = "done"
  /\ UNCHANGED <<local, remote, caller, reported, asked, shared, aborts>>

\* A step fails: before the remote directory is known to exist, or after.
SubmitFails ==
  /\ \/ spc = "stage" /\ spc' = "stage_failed"
     \/ spc \in {"upload", "enqueue"} /\ spc' = "submit_failed"
  /\ UNCHANGED <<file, local, remote, caller, history, aborts>>

\* The failure is recorded; a directory that is known of is cleaned up.
RecordFailure ==
  /\ spc \in {"stage_failed", "submit_failed"}
  /\ file' = [file EXCEPT !.status = "failed"]
  /\ last' = "failed"
  /\ spc' = IF spc = "submit_failed" THEN "cleanup" ELSE "raised"
  /\ UNCHANGED <<local, remote, caller, reported, asked, shared, aborts>>

RemoveDirectory == dir' = "removed" /\ code' = "none"

\* rm -rf on the cluster; an error is recorded and otherwise ignored.
SubmitCleanup ==
  /\ spc = "cleanup"
  /\ \/ RemoveDirectory /\ file' = [file EXCEPT !.cleaned = TRUE]
     \/ RemoveDirectory /\ UNCHANGED file
     \/ UNCHANGED <<dir, code, file>>
  /\ spc' = "raised"
  /\ UNCHANGED <<local, job, booked, dialect, caller, history, aborts>>

\* The submitting process dies.
SubmitDies ==
  /\ spc \notin {"new", "done", "raised", "dead"}
  /\ spc' = "dead"
  /\ UNCHANGED <<file, local, remote, caller, history, aborts>>

-----------------------------------------------------------------------------
(* The calls: reading and writing run.json, raising.                       *)

Readable == file \in Records

\* A call reads the record of a run the service knows of.
Read(c, to) ==
  /\ spc = "done"
  /\ pc[c] = "idle"
  /\ Readable
  /\ mem' = [mem EXCEPT ![c] = file]
  /\ pc' = [pc EXCEPT ![c] = to]
  /\ UNCHANGED <<next, hand>>

\* The call goes on to step to; Step leaves its hold on the files to the action.
Step(c, to) == pc' = [pc EXCEPT ![c] = to] /\ UNCHANGED <<next, mem>>
Goto(c, to) == Step(c, to) /\ UNCHANGED hand

\* The call goes on to write m over run.json and then to step to.
Save(c, m, to) ==
  /\ mem' = [mem EXCEPT ![c] = m]
  /\ next' = [next EXCEPT ![c] = to]
  /\ pc' = [pc EXCEPT ![c] = "open"]
  /\ UNCHANGED hand

Return(c) ==
  /\ pc' = [pc EXCEPT ![c] = "idle"]
  /\ next' = [next EXCEPT ![c] = "idle"]
  /\ mem' = [mem EXCEPT ![c] = NoRecord]
  /\ hand' = [hand EXCEPT ![c] = "none"]

\* A call that ends while it extracts leaves what it has extracted, or has
\* truncated one more file.
LeaveFiles(c) ==
  /\ here' \in IF pc[c] = "copy" THEN {here, FALSE} ELSE {here}
  /\ UNCHANGED <<manifest, archive>>

\* _write_record, first half: the file is truncated.
OpenRecord(c) ==
  /\ pc[c] = "open"
  /\ file' = Empty
  /\ Goto(c, "write")
  /\ UNCHANGED <<local, remote, spc, history, aborts>>

\* _write_record, second half: over nothing, or over what another call has
\* written since the truncation.
WriteRecord(c) ==
  /\ pc[c] = "write"
  /\ file' \in IF file = Empty THEN {mem[c]} ELSE {mem[c], Garbled}
  /\ last' = mem[c].status
  /\ IF next[c] = "idle" THEN Return(c) ELSE Goto(c, next[c])
  /\ UNCHANGED <<local, remote, spc, reported, asked, shared, aborts>>

\* A remote command or a write fails and the call raises, or the process dies.
Abort(c) ==
  /\ pc[c] # "idle"
  /\ aborts < MaxAborts
  /\ aborts' = aborts + 1
  /\ LeaveFiles(c)
  /\ Return(c)
  /\ UNCHANGED <<file, remote, spc, history>>

-----------------------------------------------------------------------------
(* status.                                                                 *)

\* Mutant: any exit code is a success.
AnyCode(x) == "succeeded"

\* The state an exit code stands for.
StateOfCode(x) == IF x = "zero" THEN "succeeded" ELSE "failed"

\* Grid Engine's accounting has nothing on a job that was deleted in the queue.
Accounted(d, j) == ~(d = "sge" /\ j = "deleted")

\* Mutant: Grid Engine's failed field, set for a job that was lost, is not read.
FailedIgnored(d, j) == IF j = "zero" \/ (d = "sge" /\ j = "lost") THEN "succeeded" ELSE "failed"

\* What the accounting's entry for a job that has ended is mapped to.
FinalState(d, j) ==
  CASE j = "zero" -> "succeeded"
    [] j \in {"killed", "deleted"} /\ d = "slurm" -> "cancelled"
    [] j = "limit" /\ d = "slurm" -> "timeout"
    [] OTHER -> "failed"

\* The states _query_scheduler may return; "none" when the scheduler's commands
\* print nothing, or nothing known.  A job that waits in Grid Engine's error state
\* is taken for a failed one, and a suspended one for a queued one.
Answers ==
  CASE job = "queued" -> {"queued", "none"} \cup (IF dialect = "sge" THEN {"failed"} ELSE {})
    [] job \in {"running", "dying"} -> {"running", "queued", "none"}
    [] job \in Ended /\ ~booked -> {"running", "none"}
    [] OTHER -> {FinalState(dialect, job), "none"}

\* A run that is over on record is reported as it is.
StatusOver(c) ==
  /\ spc = "done" /\ pc[c] = "idle"
  /\ Readable
  /\ file.status \in Terminal
  /\ reported' = (reported \/ file.status = "succeeded")
  /\ UNCHANGED <<file, local, remote, spc, caller, asked, last, shared, aborts>>

StatusRead(c) ==
  /\ Read(c, "exit_code")
  /\ file.status \notin Terminal
  /\ UNCHANGED <<file, local, remote, spc, history, aborts>>

\* The job script has left its exit code.
ExitCodeFound(c) ==
  /\ pc[c] = "exit_code"
  /\ code # "none"
  /\ Save(c, [mem[c] EXCEPT !.status = StateOfCode(code)], "report")
  /\ UNCHANGED <<file, local, remote, spc, history, aborts>>

\* Mutant: without an exit code the record is returned as it is.
NoQuery(c) ==
  /\ pc[c] = "exit_code"
  /\ code = "none"
  /\ Return(c)
  /\ UNCHANGED <<file, local, remote, spc, history, aborts>>

ExitCodeMissing(c) ==
  /\ pc[c] = "exit_code"
  /\ code = "none"
  /\ Goto(c, "query")
  /\ UNCHANGED <<file, local, remote, spc, history, aborts>>

\* Mutant: no answer is recorded too.
RecordNone(c) ==
  /\ pc[c] = "query"
  /\ \E s \in Answers : Save(c, [mem[c] EXCEPT !.status = s], "report")
  /\ UNCHANGED <<file, local, remote, spc, history, aborts>>

\* The scheduler is asked, and its answer recorded whatever it is.
QueryScheduler(c) ==
  /\ pc[c] = "query"
  /\ \E s \in Answers \ {"none"} : Save(c, [mem[c] EXCEPT !.status = s], "report")
  /\ UNCHANGED <<file, local, remote, spc, history, aborts>>

QueryUnknown(c) ==
  /\ pc[c] = "query"
  /\ "none" \in Answers
  /\ Return(c)
  /\ UNCHANGED <<file, local, remote, spc, history, aborts>>

\* The logs are fetched and the status is returned.
ReportStatus(c) ==
  /\ pc[c] = "report"
  /\ reported' = (reported \/ mem[c].status = "succeeded")
  /\ Return(c)
  /\ UNCHANGED <<file, local, remote, spc, asked, last, shared, aborts>>

-----------------------------------------------------------------------------
(* cancel and collect.                                                     *)

CancelRead(c) ==
  /\ Read(c, "kill")
  /\ file.status \notin Terminal
  /\ file.id
  /\ asked' = TRUE
  /\ UNCHANGED <<file, local, remote, spc, reported, last, shared, aborts>>

\* scancel or qdel: a waiting job is gone, a running one is being killed.
Kill ==
  /\ job' = CASE job = "queued" -> "deleted"
              [] job = "running" -> "dying"
              [] OTHER -> job
  /\ UNCHANGED <<dir, code, booked, dialect>>

\* Mutant: the result of the command is not checked.
CancelUnchecked(c) ==
  /\ pc[c] = "kill"
  /\ Kill \/ UNCHANGED remote
  /\ Save(c, [mem[c] EXCEPT !.status = "cancelled"], "clean")
  /\ UNCHANGED <<file, local, spc, history, aborts>>

\* The command succeeds, the logs are fetched, the run is recorded.
CancelCommand(c) ==
  /\ pc[c] = "kill"
  /\ Kill
  /\ Save(c, [mem[c] EXCEPT !.status = "cancelled"], "clean")
  /\ UNCHANGED <<file, local, spc, history, aborts>>

\* The command does its work, but cancel does not hear of it and raises.
CancelReplyLost(c) ==
  /\ pc[c] = "kill"
  /\ aborts < MaxAborts
  /\ aborts' = aborts + 1
  /\ Kill
  /\ Return(c)
  /\ UNCHANGED <<file, local, spc, history>>

\* A collection in one of these places found no manifest.
Copying == {"fetch", "stream", "read", "copy", "manifest"}

\* The service collects a run that was reported as succeeded.  With a manifest
\* on file only the cleanup is left to do.
CollectRead(c) ==
  /\ reported
  /\ Read(c, IF manifest THEN "clean" ELSE "fetch")
  /\ shared' = (shared \/ (~manifest /\ \E d \in Callers : pc[d] \in Copying))
  /\ UNCHANGED <<file, local, remote, spc, reported, asked, last, aborts>>

\* outputs.tar is created, or truncated under whoever fills or reads it.
OpenArchive(c) ==
  /\ pc[c] = "fetch"
  /\ archive' = "short"
  /\ hand' = [d \in Callers |-> IF d = c THEN "sound"
                                ELSE IF hand[d] = "sound" THEN "cut" ELSE hand[d]]
  /\ Step(c, "stream")
  /\ UNCHANGED <<file, manifest, here, remote, spc, history, aborts>>

\* tar on the cluster fills it.  The bytes are the same in every collection, so
\* an archive truncated in the meantime has a hole at its start, unless the call
\* that truncated it has filled that; one that was unlinked is not in its place.
StreamOutputs(c) ==
  /\ pc[c] = "stream"
  /\ dir = "present"
  /\ archive' \in CASE hand[c] = "gone" \/ archive = "whole" -> {archive}
                    [] hand[c] = "cut" -> {"short", "whole"}
                    [] OTHER -> {"whole"}
  /\ hand' = [hand EXCEPT ![c] = "none"]
  /\ Step(c, "read")
  /\ UNCHANGED <<file, manifest, here, remote, spc, history, aborts>>

\* The directory is gone: tar fails and collect raises.
StreamFails(c) ==
  /\ pc[c] = "stream"
  /\ dir # "present"
  /\ Return(c)
  /\ UNCHANGED <<file, local, remote, spc, history, aborts>>

\* Mutant: the manifest is written before the outputs are.
ManifestFirst(c) ==
  /\ pc[c] = "read"
  /\ archive # "absent"
  /\ manifest' = TRUE
  /\ here' = FALSE
  /\ hand' = [hand EXCEPT ![c] = "sound"]
  /\ Step(c, "copy")
  /\ UNCHANGED <<file, archive, remote, spc, history, aborts>>

\* _extract_outputs opens outputs.tar and begins to list it and to truncate the
\* files in the workspace, also under whoever extracts into them.
OpenOutputs(c) ==
  /\ pc[c] = "read"
  /\ archive # "absent"
  /\ here' = FALSE
  /\ hand' = [d \in Callers |-> IF d = c THEN IF archive = "whole" THEN "sound" ELSE "cut"
                                ELSE IF pc[d] = "copy" THEN "cut" ELSE hand[d]]
  /\ Step(c, "copy")
  /\ UNCHANGED <<file, manifest, archive, remote, spc, history, aborts>>

\* What is in the archive has been listed and written.  When it was short, or a
\* file was truncated under the call, files are missing or have holes: nothing is
\* compared with the outputs that were declared.  Then outputs.tar is unlinked,
\* whoever fills it; who reads it reads on.
CopyOutputs(c) ==
  /\ pc[c] = "copy"
  /\ here' \in IF hand[c] = "cut" THEN BOOLEAN ELSE {TRUE}
  /\ archive' = "absent"
  /\ hand' = [d \in Callers |-> IF d = c THEN "none"
                                ELSE IF hand[d] = "sound" \/ (hand[d] = "cut" /\ pc[d] = "stream")
                                THEN "gone" ELSE hand[d]]
  /\ Step(c, "manifest")
  /\ UNCHANGED <<file, manifest, remote, spc, history, aborts>>

\* tarfile finds no archive, or one that breaks off, and collect raises.
ArchiveFails(c) ==
  /\ \/ pc[c] = "read" /\ archive # "whole"
     \/ pc[c] = "copy" /\ hand[c] = "cut"
  /\ LeaveFiles(c)
  /\ Return(c)
  /\ UNCHANGED <<file, remote, spc, history, aborts>>

WriteManifest(c) ==
  /\ pc[c] = "manifest"
  /\ manifest' = TRUE
  /\ Goto(c, "clean")
  /\ UNCHANGED <<file, archive, here, remote, spc, history, aborts>>

\* _cleanup_remote: rm -rf, and the record says so.
Clean(c) ==
  /\ pc[c] = "clean"
  /\ ~mem[c].cleaned
  /\ RemoveDirectory
  /\ Save(c, [mem[c] EXCEPT !.cleaned = TRUE], "idle")
  /\ UNCHANGED <<file, local, job, booked, dialect, spc, history, aborts>>

\* The record says so already.
CleanSkips(c) ==
  /\ pc[c] = "clean"
  /\ mem[c].cleaned
  /\ Return(c)
  /\ UNCHANGED <<file, local, remote, spc, history, aborts>>

\* The command fails, with or without effect: the record is written with the
\* error and the call raises.
CleanFails(c) ==
  /\ pc[c] = "clean"
  /\ ~mem[c].cleaned
  /\ aborts < MaxAborts
  /\ aborts' = aborts + 1
  /\ RemoveDirectory \/ UNCHANGED <<dir, code>>
  /\ Save(c, mem[c], "idle")
  /\ UNCHANGED <<file, local, job, booked, dialect, spc, history>>

-----------------------------------------------------------------------------
(* The cluster.                                                            *)

JobStarts ==
  /\ job = "queued"
  /\ job' = "running"
  /\ UNCHANGED <<file, local, dir, code, booked, dialect, spc, caller, history, aborts>>

\* A node fails or the job is preempted; the scheduler queues it again.
JobRequeued ==
  /\ job = "running"
  /\ job' = "queued"
  /\ UNCHANGED <<file, local, dir, code, booked, dialect, spc, caller, history, aborts>>

\* The command ends and the job script leaves its exit code in the directory.
JobExits(how) ==
  /\ job \in {"running", "dying"}
  /\ job' = how
  /\ code' = IF dir = "present" THEN how ELSE code
  /\ UNCHANGED <<file, local, dir, booked, dialect, spc, caller, history, aborts>>

\* The job is killed, script and all.
JobKilled ==
  /\ job \in {"running", "dying"}
  /\ job' \in IF job = "dying" THEN {"killed"} ELSE {"limit", "lost"}
  /\ UNCHANGED <<file, local, dir, code, booked, dialect, spc, caller, history, aborts>>

Book ==
  /\ job \in Ended
  /\ ~booked
  /\ Accounted(dialect, job)
  /\ booked' = TRUE
  /\ UNCHANGED <<file, local, dir, code, job, dialect, spc, caller, history, aborts>>

-----------------------------------------------------------------------------
Init ==
  /\ file = Absent
  /\ manifest = FALSE
  /\ archive = "absent"
  /\ here = FALSE
  /\ dir = "none"
  /\ code = "none"
  /\ job = "none"
  /\ booked = FALSE
  /\ dialect \in Dialects
  /\ spc = "new"
  /\ pc = [c \in Callers |-> "idle"]
  /\ next = [c \in Callers |-> "idle"]
  /\ mem = [c \in Callers |-> NoRecord]
  /\ hand = [c \in Callers |-> "none"]
  /\ reported = FALSE
  /\ asked = FALSE
  /\ shared = FALSE
  /\ last = "none"
  /\ aborts = 0

Submitting ==
  \/ WriteQueued \/ MakeDirectory \/ Upload \/ Enqueue \/ KeepId
  \/ SubmitFails \/ RecordFailure \/ SubmitCleanup

Call(c) == StatusOver(c) \/ StatusRead(c) \/ CancelRead(c) \/ CollectRead(c)

Proceed(c) ==
  \/ OpenRecord(c) \/ WriteRecord(c)
  \/ ExitCodeFound(c) \/ ExitCodeMissing(c) \/ QueryScheduler(c) \/ QueryUnknown(c)
  \/ ReportStatus(c) \/ CancelCommand(c)
  \/ OpenArchive(c) \/ StreamOutputs(c) \/ StreamFails(c) \/ OpenOutputs(c) \/ CopyOutputs(c)
  \/ ArchiveFails(c) \/ WriteManifest(c) \/ Clean(c) \/ CleanSkips(c)

Breaks(c) == Abort(c) \/ CancelReplyLost(c) \/ CleanFails(c)

Cluster ==
  \/ JobStarts \/ JobRequeued \/ JobKilled \/ Book
  \/ \E how \in {"zero", "nonzero"} : JobExits(how)

Next ==
  \/ Submitting
  \/ SubmitDies
  \/ \E c \in Callers : Call(c) \/ Proceed(c) \/ Breaks(c)
  \/ Cluster

Spec == Init /\ [][Next]_vars

-----------------------------------------------------------------------------
(* Properties.                                                             *)

SubmitStates == {"new", "stage", "upload", "enqueue", "keep_id", "stage_failed", "submit_failed",
                 "cleanup", "done", "raised", "dead"}
PcStates == {"idle", "open", "write", "exit_code", "query", "report", "kill", "clean"} \cup Copying

\* Every variable holds a value of its kind, submit finds its record, and a call
\* past its first read holds one.
TypeOK ==
  /\ file \in Records \cup Unreadable
  /\ manifest \in BOOLEAN /\ here \in BOOLEAN
  /\ archive \in {"absent", "short", "whole"}
  /\ dir \in {"none", "present", "removed"}
  /\ code \in {"none", "zero", "nonzero"}
  /\ job \in {"none", "queued", "running", "dying"} \cup Ended
  /\ booked \in BOOLEAN
  /\ dialect \in Dialects
  /\ spc \in SubmitStates
  /\ spc \notin {"new", "done", "raised", "dead"} => file \in Records
  /\ pc \in [Callers -> PcStates]
  /\ next \in [Callers -> {"idle", "report", "clean"}]
  /\ mem \in [Callers -> Records \cup {NoRecord}]
  /\ \A c \in Callers : pc[c] # "idle" => mem[c] \in Records
  /\ hand \in [Callers -> {"none", "sound", "cut", "gone"}]
  /\ reported \in BOOLEAN /\ asked \in BOOLEAN /\ shared \in BOOLEAN
  /\ last \in States \cup {"none"}
  /\ aborts \in 0 .. MaxAborts

Over == Readable /\ file.status \in Terminal

\* A run that is on record, or was reported, as succeeded ran to its end with
\* exit code 0, however stale the record is that was written last: neither the
\* exit code file nor the scheduler's answer is taken for another job's.
SuccessIsReal ==
  (Readable /\ file.status = "succeeded") \/ reported => job = "zero"

\* A run that is on record as over, with its job id, has no job waiting or
\* running (contract item 3: terminal states release resources).  Grid Engine's
\* error state is the exception: such a job still waits.
TerminalReleases ==
  Over /\ file.id /\ dialect # "sge" => job \notin {"queued", "running"}

\* The outputs of a job that ended well are on the cluster or whole in the
\* workspace, wherever collections raise or die and others take over from them
\* or overlap with their cleanup: collect removes the directory last.  A run that
\* was to be cancelled is excepted, and so are collections that overlapped while
\* there was no manifest: one of them may truncate what the other has delivered.
OutputsKept ==
  spc = "done" /\ job = "zero" /\ ~asked /\ ~shared => dir = "present" \/ here

\* A record that says the remote directory is gone is right.
CleanedIsReal == Readable /\ file.cleaned => dir = "removed"

-----------------------------------------------------------------------------
(* The scheduler providers implement the contract of a provider.           *)

JobOf ==
  IF last = "none" THEN "none"
  ELSE IF job = "zero" THEN "ok"
  ELSE IF job \in Ended THEN "bad" ELSE "active"

\* provider.status of a scheduler run is a ProviderRecord, read at the last
\* write that was completed.
Contract == INSTANCE ProviderRecord WITH record <- last, job <- JobOf
Conforms == Contract!Spec
=============================================================================
