------------------------ MODULE SchedulerRun_proofs -------------------------
(***************************************************************************)
(* Proofs about the scheduler providers, for any number of callers, of     *)
(* calls that fail and for every scheduler.                                *)
(***************************************************************************)
EXTENDS SchedulerRun, TLAPS

-----------------------------------------------------------------------------
(* The inductive invariant.                                                *)

Waiting == {"queued", "running"}

\* What record m says is so when the job, the scheduler and the directory are
\* j, d and r.  A call holds a record while all three move on.
Sound(m, j, d, r) ==
  /\ m.status = "succeeded" => j = "zero"
  /\ m.status \in Terminal /\ m.id /\ d # "sge" => j \notin Waiting
  /\ m.cleaned => r = "removed"

FileInv == file \in Records => Sound(file, job, dialect, dir)

\* Only a run whose submission has returned is called for.  A call about to
\* clean up has the outputs here, or is a cancel.
CallerInv(c) ==
  /\ pc[c] # "idle" => spc = "done" /\ Sound(mem[c], job, dialect, dir)
  /\ pc[c] = "kill" \/ next[c] = "clean" => asked
  /\ pc[c] = "clean" => manifest \/ asked

\* What is there at each step of submit.
SubmitInv ==
  /\ spc = "new" <=> last = "none"
  /\ spc \in {"new", "stage", "upload", "enqueue"} => job = "none"
  /\ spc \in {"new", "stage"} => dir = "none"
  /\ spc \in {"upload", "enqueue", "keep_id"} => dir = "present"
  /\ spc \in {"stage", "upload", "enqueue", "keep_id"} => file = Queued
  /\ spc # "done" /\ file \in Records => ~file.id

\* The exit code file is the job's own, and what was said of the job holds.
JobInv ==
  /\ code # "none" => job = code
  /\ last = "succeeded" => job = "zero"
  /\ reported => job = "zero"

KeptInv == spc = "done" => dir = "present" \/ manifest \/ asked

\* A collection that copies while no other does: what it has in hand is whole,
\* and there is no manifest.
CopyInv(c) ==
  /\ pc[c] = "read" => archive = "whole"
  /\ pc[c] \in {"stream", "copy"} => hand[c] = "sound"
  /\ pc[c] = "manifest" => here
  /\ pc[c] \in Copying => ~manifest /\ \A d \in Callers : pc[d] \in Copying => d = c

\* Unless collections have copied at the same time, a manifest is right.
DeliveryInv == ~shared => (manifest => here) /\ \A c \in Callers : CopyInv(c)

RunInv ==
  /\ TypeOK
  /\ FileInv
  /\ \A c \in Callers : CallerInv(c)
  /\ SubmitInv
  /\ JobInv
  /\ KeptInv

-----------------------------------------------------------------------------
(* Lemmas.                                                                 *)

\* What run.json can hold is a record or none of them.
LEMMA Unread == Absent \notin Records /\ Empty \notin Records /\ Garbled \notin Records
                /\ NoRecord \notin Records
<1>1. \A m \in Records : m.status \in States
  BY DEF Records
<1>2. /\ Absent.status = "absent" /\ Empty.status = "empty"
      /\ Garbled.status = "garbled" /\ NoRecord.status = "none"
  BY DEF Absent, Empty, Garbled, NoRecord
<1> QED
  BY <1>1, <1>2 DEF States

\* The parts of a record.
LEMMA RecordParts ==
  ASSUME NEW m \in Records
  PROVE  m.status \in States /\ m.id \in BOOLEAN /\ m.cleaned \in BOOLEAN
BY DEF Records

\* A record with another status.
LEMMA StatusSet ==
  ASSUME NEW m \in Records, NEW s \in States
  PROVE  /\ [m EXCEPT !.status = s] \in Records
         /\ [m EXCEPT !.status = s].status = s
         /\ [m EXCEPT !.status = s].id = m.id
         /\ [m EXCEPT !.status = s].cleaned = m.cleaned
BY DEF Records

\* A record with the directory marked as removed.
LEMMA CleanedSet ==
  ASSUME NEW m \in Records
  PROVE  /\ [m EXCEPT !.cleaned = TRUE] \in Records
         /\ [m EXCEPT !.cleaned = TRUE].status = m.status
         /\ [m EXCEPT !.cleaned = TRUE].id = m.id
         /\ [m EXCEPT !.cleaned = TRUE].cleaned = TRUE
BY DEF Records

\* A record with the job id.
LEMMA IdSet ==
  ASSUME NEW m \in Records
  PROVE  /\ [m EXCEPT !.id = TRUE] \in Records
         /\ [m EXCEPT !.id = TRUE].status = m.status
         /\ [m EXCEPT !.id = TRUE].cleaned = m.cleaned
BY DEF Records

\* What the world may not take back in a step: a success, an end (only submit
\* queues a job), a removed directory, and what has been done or asked for.
Moves ==
  /\ dialect' = dialect
  /\ job = "zero" => job' = "zero"
  /\ job \in Waiting \/ spc = "enqueue" \/ job' \notin Waiting
  /\ dir = "removed" => dir' = "removed"
  /\ manifest => manifest'
  /\ asked => asked'
  /\ shared => shared'
  /\ spc = "done" => spc' = "done"

\* A record that was sound stays so.
LEMMA SoundStays ==
  ASSUME Moves, NEW m, Sound(m, job, dialect, dir), spc # "enqueue" \/ ~m.id
  PROVE  Sound(m, job', dialect', dir')
BY DEF Sound, Moves, Waiting

\* run.json left alone stays sound.
LEMMA FileFrame ==
  ASSUME RunInv, Moves, UNCHANGED file
  PROVE  FileInv'
<1> SUFFICES ASSUME file \in Records PROVE Sound(file, job', dialect', dir')
  BY DEF FileInv
<1> QED
  BY SoundStays DEF RunInv, FileInv, SubmitInv

\* Callers that are left alone stay sound.
LEMMA CallersFrame ==
  ASSUME RunInv, Moves, UNCHANGED caller
  PROVE  \A c \in Callers : CallerInv(c)'
<1> SUFFICES ASSUME NEW c \in Callers PROVE CallerInv(c)'
  OBVIOUS
<1>1. CallerInv(c) /\ UNCHANGED <<pc, next, mem>>
  BY DEF RunInv, caller
<1>2. pc[c] # "idle" => Sound(mem[c], job', dialect', dir')
  BY <1>1, SoundStays DEF CallerInv
<1> QED
  BY <1>1, <1>2 DEF CallerInv, Moves

\* The types of what collections share, and of what they hold of it.
FilesType ==
  /\ archive \in {"absent", "short", "whole"} /\ here \in BOOLEAN /\ shared \in BOOLEAN
  /\ hand \in [Callers -> {"none", "sound", "cut", "gone"}]

\* The types of what else the callers hold.
CallersType ==
  /\ pc \in [Callers -> PcStates]
  /\ next \in [Callers -> {"idle", "report", "clean"}]
  /\ mem \in [Callers -> Records \cup {NoRecord}]
  /\ \A c \in Callers : pc[c] # "idle" => mem[c] \in Records

\* One caller moves to step p with record m.
LEMMA CallerMoves ==
  ASSUME RunInv, Moves, spc = "done", NEW c \in Callers,
         NEW p \in PcStates, NEW n \in {"idle", "report", "clean"}, NEW m \in Records \cup {NoRecord},
         pc' = [pc EXCEPT ![c] = p],
         next' = [next EXCEPT ![c] = n],
         mem' = [mem EXCEPT ![c] = m],
         p # "idle" => m \in Records /\ Sound(m, job', dialect', dir'),
         p = "kill" \/ n = "clean" => asked',
         p = "clean" => manifest' \/ asked'
  PROVE  CallersType' /\ \A d \in Callers : CallerInv(d)'
<1>1. CallersType'
  BY DEF RunInv, TypeOK, CallersType
<1>2. ASSUME NEW d \in Callers PROVE CallerInv(d)'
  <2>1. CASE d = c
    <3>1. pc'[c] = p /\ next'[c] = n /\ mem'[c] = m
      BY DEF RunInv, TypeOK
    <3> QED
      BY <2>1, <3>1 DEF CallerInv, Moves
  <2>2. CASE d # c
    <3>1. pc'[d] = pc[d] /\ next'[d] = next[d] /\ mem'[d] = mem[d] /\ CallerInv(d)
      BY <2>2 DEF RunInv, TypeOK
    <3>2. pc[d] # "idle" => Sound(mem[d], job', dialect', dir')
      BY <3>1, SoundStays DEF CallerInv
    <3> QED
      BY <3>1, <3>2 DEF CallerInv, Moves
  <2> QED
    BY <2>1, <2>2
<1> QED
  BY <1>1, <1>2

\* A call returns.
LEMMA ReturnMoves ==
  ASSUME RunInv, Moves, spc = "done", NEW c \in Callers, Return(c)
  PROVE  CallersType' /\ \A d \in Callers : CallerInv(d)'
BY CallerMoves DEF Return, PcStates

\* A call goes on with the record it has.
LEMMA StepMoves ==
  ASSUME RunInv, Moves, NEW c \in Callers, pc[c] # "idle",
         NEW p \in PcStates \ {"idle", "kill"}, Step(c, p),
         p = "clean" => manifest' \/ asked'
  PROVE  CallersType' /\ \A d \in Callers : CallerInv(d)'
<1>1. /\ pc' = [pc EXCEPT ![c] = p]
      /\ next' = [next EXCEPT ![c] = next[c]] /\ mem' = [mem EXCEPT ![c] = mem[c]]
      /\ next[c] \in {"idle", "report", "clean"} /\ mem[c] \in Records
  BY DEF Step, RunInv, TypeOK
<1>2. CallerInv(c)
  BY DEF RunInv
<1>3. spc = "done" /\ Sound(mem[c], job', dialect', dir') /\ (next[c] = "clean" => asked')
  BY <1>2, SoundStays DEF CallerInv, Moves
<1> QED
  BY <1>1, <1>3, CallerMoves

\* A call goes on to write m.
LEMMA SaveMoves ==
  ASSUME RunInv, Moves, spc = "done", NEW c \in Callers, NEW m \in Records,
         NEW n \in {"idle", "report", "clean"}, Save(c, m, n),
         Sound(m, job', dialect', dir'), n = "clean" => asked'
  PROVE  CallersType' /\ \A d \in Callers : CallerInv(d)'
BY CallerMoves DEF Save, PcStates

\* No step takes back what Moves lists.
LEMMA MovesStep ==
  ASSUME RunInv, [Next]_vars
  PROVE  Moves
<1> USE DEF RunInv, TypeOK, SubmitInv, Moves, Waiting, Ended, vars, local, remote, caller, history
<1>1. CASE Submitting \/ SubmitDies
  BY <1>1 DEF Submitting, SubmitDies, WriteQueued, MakeDirectory, Upload, Enqueue, KeepId,
              SubmitFails, RecordFailure, SubmitCleanup, RemoveDirectory
<1>2. CASE Cluster
  BY <1>2 DEF Cluster, JobStarts, JobRequeued, JobExits, JobKilled, Book
<1>3. ASSUME NEW c \in Callers, Call(c) PROVE Moves
  BY <1>3 DEF Call, StatusOver, StatusRead, CancelRead, CollectRead
<1>4. ASSUME NEW c \in Callers, Proceed(c) PROVE Moves
  BY <1>4 DEF Proceed, OpenRecord, WriteRecord, ExitCodeFound, ExitCodeMissing, QueryScheduler,
              QueryUnknown, ReportStatus, CancelCommand, Kill, OpenArchive, StreamOutputs,
              StreamFails, OpenOutputs, CopyOutputs, ArchiveFails, LeaveFiles,
              WriteManifest, Clean, CleanSkips, RemoveDirectory
<1>5. ASSUME NEW c \in Callers, Breaks(c) PROVE Moves
  BY <1>5 DEF Breaks, Abort, LeaveFiles, CancelReplyLost, Kill, CleanFails, RemoveDirectory
<1>6. CASE UNCHANGED vars
  BY <1>6
<1> QED
  BY <1>1, <1>2, <1>3, <1>4, <1>5, <1>6 DEF Next

\* Every step leaves outputs.tar, the files and the histories in their kinds.
LEMMA FilesStep ==
  ASSUME RunInv, [Next]_vars
  PROVE  FilesType'
<1>1. FilesType
  BY DEF RunInv, TypeOK, FilesType
<1>2. ASSUME NEW c \in Callers, Return(c) PROVE hand' \in [Callers -> {"none", "sound", "cut", "gone"}]
  BY <1>1, <1>2 DEF Return, FilesType
<1>3. CASE Submitting \/ SubmitDies
  BY <1>1, <1>3 DEF FilesType, Submitting, SubmitDies, WriteQueued, MakeDirectory, Upload, Enqueue,
              KeepId, SubmitFails, RecordFailure, SubmitCleanup, local, caller, history
<1>4. CASE Cluster
  BY <1>1, <1>4 DEF FilesType, Cluster, JobStarts, JobRequeued, JobExits, JobKilled, Book, local,
              caller, history
<1>5. ASSUME NEW c \in Callers, Call(c) PROVE FilesType'
  <2>1. UNCHANGED <<archive, here, hand>>
    BY <1>5 DEF Call, StatusOver, StatusRead, CancelRead, CollectRead, Read, local, caller
  <2>2. shared' \in BOOLEAN
    BY <1>1, <1>5 DEF FilesType, Call, StatusOver, StatusRead, CancelRead, CollectRead, history
  <2> QED
    BY <1>1, <2>1, <2>2 DEF FilesType
<1>6. ASSUME NEW c \in Callers, Proceed(c) \/ Breaks(c) PROVE FilesType'
  <2>1. UNCHANGED shared
    BY <1>6 DEF Proceed, Breaks, OpenRecord, WriteRecord, ExitCodeFound, ExitCodeMissing,
              QueryScheduler, QueryUnknown, ReportStatus, CancelCommand, OpenArchive, StreamOutputs,
              StreamFails, OpenOutputs, CopyOutputs, ArchiveFails, WriteManifest, Clean, CleanSkips,
              Abort, CancelReplyLost, CleanFails, history
  <2>2. archive' \in {"absent", "short", "whole"} /\ here' \in BOOLEAN
    BY <1>1, <1>6 DEF FilesType, Proceed, Breaks, OpenRecord, WriteRecord, ExitCodeFound,
              ExitCodeMissing, QueryScheduler, QueryUnknown, ReportStatus, CancelCommand, OpenArchive,
              StreamOutputs, StreamFails, OpenOutputs, CopyOutputs, ArchiveFails, LeaveFiles,
              WriteManifest, Clean, CleanSkips, Abort, CancelReplyLost, CleanFails, local
  <2>3. CASE OpenArchive(c) \/ StreamOutputs(c) \/ OpenOutputs(c) \/ CopyOutputs(c)
    <3>1. hand' \in [Callers -> {"none", "sound", "cut", "gone"}]
      BY <1>1, <2>3 DEF FilesType, OpenArchive, StreamOutputs, OpenOutputs, CopyOutputs
    <3> QED
      BY <1>1, <2>1, <2>2, <3>1 DEF FilesType
  <2>4. CASE UNCHANGED hand \/ Return(c)
    BY <1>1, <1>2, <2>1, <2>2, <2>4 DEF FilesType
  <2> QED
    BY <1>6, <2>3, <2>4 DEF Proceed, Breaks, OpenRecord, WriteRecord, ExitCodeFound, ExitCodeMissing,
              QueryScheduler, QueryUnknown, ReportStatus, CancelCommand, StreamFails, ArchiveFails,
              WriteManifest, Clean, CleanSkips, Abort, CancelReplyLost, CleanFails, Goto, Save
<1>7. CASE UNCHANGED vars
  BY <1>1, <1>7 DEF FilesType, vars, local, caller, history
<1> QED
  BY <1>3, <1>4, <1>5, <1>6, <1>7 DEF Next

-----------------------------------------------------------------------------
(* Every step keeps the invariant.                                         *)

\* Nothing has happened.
LEMMA RunInit == Init => RunInv
<1> SUFFICES ASSUME Init PROVE RunInv
  OBVIOUS
<1> USE DEF Init
<1>1. TypeOK
  <2>1. file \in Records \cup Unreadable
    BY DEF Unreadable, Absent
  <2>2. CallersType
    BY DEF CallersType, PcStates
  <2>3. aborts \in 0 .. MaxAborts
    BY SchedulerRunAssumption
  <2>4. manifest \in BOOLEAN /\ booked \in BOOLEAN /\ reported \in BOOLEAN /\ asked \in BOOLEAN
    OBVIOUS
  <2>5. FilesType
    BY DEF FilesType
  <2> QED
    BY <2>1, <2>2, <2>3, <2>4, <2>5 DEF TypeOK, CallersType, FilesType, SubmitStates
<1>2. file \notin Records
  BY Unread
<1> QED
  BY <1>1, <1>2 DEF RunInv, FileInv, CallerInv, SubmitInv, JobInv, KeptInv

\* submit's steps.
LEMMA SubmitStep == RunInv /\ (Submitting \/ SubmitDies) => RunInv'
<1> SUFFICES ASSUME RunInv, Submitting \/ SubmitDies PROVE RunInv'
  OBVIOUS
<1>1. Moves
  BY MovesStep DEF Next
<1>2. /\ UNCHANGED <<manifest, booked, dialect, reported, asked, aborts>>
      /\ UNCHANGED caller
      /\ spc # "done"
      /\ FilesType'
  BY FilesStep DEF Next, Submitting, SubmitDies, WriteQueued, MakeDirectory, Upload, Enqueue, KeepId, SubmitFails,
         RecordFailure, SubmitCleanup, local, remote, history
<1>3. \A c \in Callers : CallerInv(c)'
  BY <1>1, <1>2, CallersFrame
<1>4. CallersType'
  BY <1>2 DEF RunInv, TypeOK, CallersType, caller
<1> USE DEF RunInv, SubmitStates, remote, history
<1>5. CASE WriteQueued
  <2>1. Queued \in Records /\ Queued.status = "queued" /\ ~Queued.id /\ ~Queued.cleaned
    BY DEF Queued, Records, States
  <2>2. file' \in Records /\ FileInv'
    BY <1>5, <2>1 DEF WriteQueued, FileInv, Sound, Terminal
  <2>3. TypeOK'
    BY <1>2, <1>4, <1>5, <2>2 DEF WriteQueued, TypeOK, CallersType, FilesType, States
  <2> QED
    BY <1>3, <1>5, <2>1, <2>2, <2>3 DEF WriteQueued, SubmitInv, JobInv, KeptInv
<1>6. CASE MakeDirectory \/ Upload \/ Enqueue \/ SubmitFails \/ SubmitDies
  <2>1. UNCHANGED <<file, last, code>>
    BY <1>6 DEF MakeDirectory, Upload, Enqueue, SubmitFails, SubmitDies
  <2>2. FileInv'
    BY <1>1, <2>1, FileFrame
  <2>3. TypeOK'
    BY <1>2, <1>4, <1>6, <2>1 DEF MakeDirectory, Upload, Enqueue, SubmitFails, SubmitDies, TypeOK, CallersType,
                                        FilesType
  <2>4. SubmitInv'
    BY <1>6, <2>1 DEF MakeDirectory, Upload, Enqueue, SubmitFails, SubmitDies, SubmitInv
  <2>5. JobInv' /\ KeptInv'
    BY <1>2, <1>6, <2>1 DEF MakeDirectory, Upload, Enqueue, SubmitFails, SubmitDies, SubmitInv, JobInv,
                            KeptInv, TypeOK
  <2> QED
    BY <1>3, <2>2, <2>3, <2>4, <2>5
<1>7. CASE KeepId
  <2>1. file \in Records /\ dir = "present" /\ last # "none"
    BY <1>7 DEF KeepId, TypeOK, SubmitInv
  <2>2. file' \in Records /\ file'.status = file.status /\ file'.cleaned = file.cleaned
    BY <1>7, <2>1, IdSet DEF KeepId
  <2>3. file.status = "queued"
    BY <1>7 DEF KeepId, SubmitInv, Queued
  <2>4. FileInv'
    BY <1>2, <1>7, <2>1, <2>2, <2>3 DEF KeepId, FileInv, Sound, Terminal
  <2>5. TypeOK'
    BY <1>2, <1>4, <1>7, <2>2, <2>3 DEF KeepId, TypeOK, CallersType, FilesType, States
  <2> QED
    BY <1>2, <1>3, <1>7, <2>1, <2>3, <2>4, <2>5 DEF KeepId, SubmitInv, JobInv, KeptInv
<1>8. CASE RecordFailure
  <2>1. file \in Records /\ last # "none"
    BY <1>8 DEF RecordFailure, TypeOK, SubmitInv
  <2>2. /\ file' \in Records /\ file'.status = "failed"
        /\ file'.id = file.id /\ file'.cleaned = file.cleaned
    BY <1>8, <2>1, StatusSet DEF RecordFailure, States
  <2>3. ~file.id
    BY <1>2, <2>1 DEF SubmitInv
  <2>4. FileInv'
    BY <1>8, <2>1, <2>2, <2>3 DEF RecordFailure, FileInv, Sound
  <2>5. TypeOK'
    BY <1>2, <1>4, <1>8, <2>2 DEF RecordFailure, TypeOK, CallersType, FilesType, States
  <2> QED
    BY <1>2, <1>3, <1>8, <2>1, <2>2, <2>3, <2>4, <2>5 DEF RecordFailure, SubmitInv, JobInv, KeptInv
<1>9. CASE SubmitCleanup
  <2>1. file \in Records /\ ~file.id
    BY <1>2, <1>9 DEF SubmitCleanup, TypeOK, SubmitInv
  <2>2. /\ dir' \in {"none", "present", "removed"} /\ code' \in {"none", "zero", "nonzero"}
        /\ code' # "none" => code' = code
        /\ UNCHANGED <<job, last>>
    BY <1>9 DEF SubmitCleanup, RemoveDirectory, TypeOK
  <2>3. file' \in Records /\ ~file'.id /\ FileInv'
    <3>1. CASE UNCHANGED file
      BY <1>1, <2>1, <3>1, FileFrame
    <3>2. CASE RemoveDirectory /\ file' = [file EXCEPT !.cleaned = TRUE]
      <4>1. /\ file' \in Records /\ file'.status = file.status /\ file'.id = file.id
            /\ file'.cleaned = TRUE
        BY <2>1, <3>2, CleanedSet
      <4> QED
        BY <1>2, <2>1, <2>2, <3>2, <4>1 DEF RemoveDirectory, FileInv, Sound
    <3> QED
      BY <1>9, <3>1, <3>2 DEF SubmitCleanup
  <2>4. TypeOK'
    BY <1>2, <1>4, <1>9, <2>2, <2>3 DEF SubmitCleanup, TypeOK, CallersType, FilesType
  <2> QED
    BY <1>2, <1>3, <1>9, <2>2, <2>3, <2>4 DEF SubmitCleanup, SubmitInv, JobInv, KeptInv
<1> QED
  BY <1>5, <1>6, <1>7, <1>8, <1>9 DEF Submitting

\* The cluster's steps.
LEMMA ClusterStep == RunInv /\ Cluster => RunInv'
<1> SUFFICES ASSUME RunInv, Cluster PROVE RunInv'
  OBVIOUS
<1>1. Moves
  BY MovesStep DEF Next
<1>2. /\ UNCHANGED <<file, manifest, dir, dialect, spc, reported, asked, last, aborts>>
      /\ UNCHANGED caller
      /\ FilesType'
  BY FilesStep DEF Next, Cluster, JobStarts, JobRequeued, JobExits, JobKilled, Book, local, history
<1>3. FileInv' /\ \A c \in Callers : CallerInv(c)'
  BY <1>1, <1>2, FileFrame, CallersFrame
<1>4. CallersType'
  BY <1>2 DEF RunInv, TypeOK, CallersType, caller
<1>5. /\ job # "none" /\ booked' \in BOOLEAN
      /\ job' \in {"queued", "running"} \cup Ended
      /\ code' \in {"none", "zero", "nonzero"} /\ (code' # "none" => job' = code')
  BY DEF RunInv, TypeOK, JobInv, Ended, Cluster, JobStarts, JobRequeued, JobExits, JobKilled, Book
<1>6. TypeOK'
  BY <1>2, <1>4, <1>5 DEF RunInv, TypeOK, CallersType, FilesType
<1> QED
  BY <1>1, <1>2, <1>3, <1>5, <1>6 DEF RunInv, SubmitInv, JobInv, KeptInv, Moves

\* The parts of the invariant that a call can touch.
LEMMA CallerParts ==
  ASSUME RunInv, spc = "done", UNCHANGED <<spc, booked, dialect>>,
         CallersType', FilesType', \A d \in Callers : CallerInv(d)',
         file' \in Records \cup Unreadable, FileInv',
         manifest' \in BOOLEAN, reported' \in BOOLEAN, asked' \in BOOLEAN,
         dir' \in {"none", "present", "removed"}, code' \in {"none", "zero", "nonzero"},
         job' \in {"none", "queued", "running", "dying"} \cup Ended,
         last' \in States, aborts' \in 0 .. MaxAborts, JobInv', KeptInv'
  PROVE  RunInv'
<1>1. TypeOK'
  BY DEF RunInv, TypeOK, CallersType, FilesType
<1>2. SubmitInv'
  BY DEF SubmitInv, States
<1> QED
  BY <1>1, <1>2 DEF RunInv

\* A call that touches no more than what the caller holds and counts, and the
\* histories, keeps the invariant when the caller's own part is kept.
LEMMA LocalStep ==
  ASSUME RunInv, Moves, spc = "done", UNCHANGED <<file, manifest, remote, spc, last>>,
         CallersType', FilesType', \A d \in Callers : CallerInv(d)',
         reported' \in BOOLEAN, reported' => job = "zero", asked' \in BOOLEAN,
         aborts' \in 0 .. MaxAborts
  PROVE  RunInv'
<1>1. FileInv'
  BY FileFrame
<1>2. JobInv' /\ KeptInv'
  BY DEF RunInv, JobInv, KeptInv, Moves, remote
<1>3. last \in States
  BY DEF RunInv, TypeOK, SubmitInv
<1> QED
  BY <1>1, <1>2, <1>3, CallerParts DEF RunInv, TypeOK, remote

\* The first step of a call.
LEMMA CallStep == ASSUME RunInv, NEW c \in Callers, Call(c) PROVE RunInv'
<1>1. Moves
  BY MovesStep DEF Next
<1>2. /\ spc = "done" /\ file \in Records /\ Sound(file, job, dialect, dir)
      /\ UNCHANGED <<file, manifest, remote, spc, last, aborts>>
      /\ FilesType'
  BY FilesStep DEF Next, Call, StatusOver, StatusRead, CancelRead, CollectRead, Read, Readable, local,
                   history, RunInv, FileInv
<1>3. /\ reported \in BOOLEAN /\ asked \in BOOLEAN /\ aborts' \in 0 .. MaxAborts
      /\ reported => job = "zero"
  BY <1>2 DEF RunInv, TypeOK, JobInv
<1>4. Sound(file, job', dialect', dir')
  BY <1>2 DEF remote
<1>5. ASSUME NEW p \in {"exit_code", "kill", "clean", "fetch"}, Read(c, p),
             p = "kill" => asked', p = "clean" => manifest'
      PROVE  CallersType' /\ \A d \in Callers : CallerInv(d)'
  <2>1. /\ pc' = [pc EXCEPT ![c] = p] /\ next' = [next EXCEPT ![c] = next[c]]
        /\ mem' = [mem EXCEPT ![c] = file]
        /\ next[c] \in {"idle", "report", "clean"}
    BY <1>5 DEF Read, RunInv, TypeOK
  <2>2. next[c] = "clean" => asked'
    BY <1>1 DEF RunInv, CallerInv, Moves
  <2>3. p \in PcStates
    BY DEF PcStates, Copying
  <2> QED
    BY <1>1, <1>2, <1>4, <1>5, <2>1, <2>2, <2>3, CallerMoves
<1>6. CASE StatusOver(c)
  <2>1. CallersType' /\ \A d \in Callers : CallerInv(d)'
    BY <1>1, <1>6, CallersFrame DEF StatusOver, CallersType, RunInv, TypeOK, caller
  <2>2. reported' \in BOOLEAN /\ (reported' => job = "zero") /\ UNCHANGED asked
    BY <1>2, <1>3, <1>6 DEF StatusOver, Sound
  <2> QED
    BY <1>1, <1>2, <1>3, <2>1, <2>2, LocalStep
<1>7. CASE StatusRead(c)
  <2>1. CallersType' /\ \A d \in Callers : CallerInv(d)'
    BY <1>5, <1>7 DEF StatusRead
  <2> QED
    BY <1>1, <1>2, <1>3, <1>7, <2>1, LocalStep DEF StatusRead, history
<1>8. CASE CancelRead(c)
  <2>1. CallersType' /\ \A d \in Callers : CallerInv(d)'
    BY <1>5, <1>8 DEF CancelRead
  <2> QED
    BY <1>1, <1>2, <1>3, <1>8, <2>1, LocalStep DEF CancelRead
<1>9. CASE CollectRead(c)
  <2>1. CallersType' /\ \A d \in Callers : CallerInv(d)'
    BY <1>2, <1>5, <1>9 DEF CollectRead
  <2> QED
    BY <1>1, <1>2, <1>3, <1>9, <2>1, LocalStep DEF CollectRead, history
<1> QED
  BY <1>6, <1>7, <1>8, <1>9 DEF Call

\* The answers of a scheduler are states, and terminal ones are right.
LEMMA AnswersAreReal ==
  ASSUME RunInv, NEW s \in Answers \ {"none"}
  PROVE  /\ s \in States
         /\ s = "succeeded" => job = "zero"
         /\ s \in Terminal /\ dialect # "sge" => job \notin Waiting
BY DEF RunInv, TypeOK, Answers, FinalState, States, Terminal, Ended, Waiting

\* A call that is under way holds a sound record of a submitted run.
LEMMA CallerHolds ==
  ASSUME RunInv, NEW c \in Callers, pc[c] # "idle"
  PROVE  /\ spc = "done"
         /\ mem[c] \in Records
         /\ Sound(mem[c], job, dialect, dir)
BY DEF RunInv, TypeOK, CallerInv

\* The steps of a call that leave everything but its own variables alone.
LEMMA ThinkStep ==
  ASSUME RunInv, NEW c \in Callers,
         \/ ExitCodeFound(c) \/ ExitCodeMissing(c) \/ QueryScheduler(c) \/ QueryUnknown(c)
         \/ ReportStatus(c) \/ OpenArchive(c) \/ StreamOutputs(c) \/ StreamFails(c) \/ OpenOutputs(c)
         \/ CopyOutputs(c) \/ ArchiveFails(c) \/ CleanSkips(c) \/ Abort(c)
  PROVE  RunInv'
<1>1. Moves
  BY MovesStep DEF Next, Proceed, Breaks
<1>2. /\ UNCHANGED <<file, manifest, remote, spc, last, asked>>
      /\ pc[c] # "idle"
      /\ FilesType'
  BY FilesStep DEF Next, Proceed, Breaks, ExitCodeFound, ExitCodeMissing, QueryScheduler, QueryUnknown,
         ReportStatus, OpenArchive, StreamOutputs, StreamFails, OpenOutputs, CopyOutputs, ArchiveFails,
         LeaveFiles, CleanSkips, Abort, local, history
<1>3. spc = "done" /\ mem[c] \in Records /\ Sound(mem[c], job', dialect', dir')
  BY <1>2, CallerHolds DEF remote
<1>4. reported' \in BOOLEAN /\ (reported' => job = "zero") /\ asked' \in BOOLEAN
  <2>1. reported \in BOOLEAN /\ (reported => job = "zero") /\ asked \in BOOLEAN
    BY DEF RunInv, TypeOK, JobInv
  <2>2. mem[c].status = "succeeded" => job = "zero"
    BY <1>2, CallerHolds DEF Sound
  <2>3. reported' = reported \/ reported' = (reported \/ mem[c].status = "succeeded")
    BY DEF ExitCodeFound, ExitCodeMissing, QueryScheduler, QueryUnknown, ReportStatus, OpenArchive,
           StreamOutputs, StreamFails, OpenOutputs, CopyOutputs, ArchiveFails, CleanSkips, Abort,
           history
  <2>4. reported' \in BOOLEAN
    BY <2>1, <2>3
  <2>5. reported' => job = "zero"
    BY <2>1, <2>2, <2>3
  <2> QED
    BY <1>2, <2>1, <2>4, <2>5
<1>5. aborts' \in 0 .. MaxAborts
  <2>1. aborts' = aborts \/ (aborts < MaxAborts /\ aborts' = aborts + 1)
    BY DEF ExitCodeFound, ExitCodeMissing, QueryScheduler, QueryUnknown, ReportStatus, OpenArchive,
           StreamOutputs, StreamFails, OpenOutputs, CopyOutputs, ArchiveFails, CleanSkips, Abort
  <2> QED
    BY <2>1, SchedulerRunAssumption DEF RunInv, TypeOK
<1>6. CallersType' /\ \A d \in Callers : CallerInv(d)'
  <2>1. ASSUME NEW s \in States, s = "succeeded" => job = "zero",
               s \in Terminal /\ dialect # "sge" => job \notin Waiting,
               Save(c, [mem[c] EXCEPT !.status = s], "report")
        PROVE  CallersType' /\ \A d \in Callers : CallerInv(d)'
    <3>1. PICK m \in Records : /\ m = [mem[c] EXCEPT !.status = s]
                               /\ m.status = s /\ m.cleaned = mem[c].cleaned
      BY <1>3, StatusSet
    <3>2. Sound(m, job', dialect', dir')
      BY <1>2, <1>3, <2>1, <3>1 DEF Sound, remote
    <3> QED
      BY <1>1, <1>3, <2>1, <3>1, <3>2, SaveMoves
  <2>2. CASE ExitCodeFound(c)
    <3>1. job = code /\ code \in {"zero", "nonzero"}
      BY <2>2 DEF ExitCodeFound, RunInv, TypeOK, JobInv
    <3>2. /\ StateOfCode(code) \in States
          /\ StateOfCode(code) = "succeeded" => job = "zero"
          /\ job \notin Waiting
      BY <3>1 DEF StateOfCode, States, Waiting
    <3> QED
      BY <2>1, <2>2, <3>2 DEF ExitCodeFound
  <2>3. CASE QueryScheduler(c)
    <3>1. PICK s \in Answers \ {"none"} : Save(c, [mem[c] EXCEPT !.status = s], "report")
      BY <2>3 DEF QueryScheduler
    <3>2. /\ s \in States /\ (s = "succeeded" => job = "zero")
          /\ s \in Terminal /\ dialect # "sge" => job \notin Waiting
      BY <3>1, AnswersAreReal
    <3> QED
      BY <2>1, <3>1, <3>2
  <2>4. CASE \/ ExitCodeMissing(c) \/ OpenArchive(c) \/ StreamOutputs(c) \/ OpenOutputs(c)
             \/ CopyOutputs(c)
    BY <1>1, <1>2, <2>4, StepMoves
       DEF ExitCodeMissing, OpenArchive, StreamOutputs, OpenOutputs, CopyOutputs, Goto, PcStates, Copying
  <2>5. CASE \/ QueryUnknown(c) \/ ReportStatus(c) \/ StreamFails(c) \/ ArchiveFails(c)
             \/ CleanSkips(c) \/ Abort(c)
    BY <1>1, <1>3, <2>5, ReturnMoves
       DEF QueryUnknown, ReportStatus, StreamFails, ArchiveFails, CleanSkips, Abort
  <2> QED
    BY <2>2, <2>3, <2>4, <2>5
<1> QED
  BY <1>1, <1>2, <1>3, <1>4, <1>5, <1>6, LocalStep

\* Writing run.json.
LEMMA WriteStep ==
  ASSUME RunInv, NEW c \in Callers, OpenRecord(c) \/ WriteRecord(c)
  PROVE  RunInv'
<1>1. Moves
  BY MovesStep DEF Next, Proceed
<1>2. /\ UNCHANGED <<manifest, remote, spc, reported, asked, aborts>>
      /\ pc[c] # "idle"
      /\ FilesType'
  BY FilesStep DEF Next, Proceed, OpenRecord, WriteRecord, local, history
<1>3. spc = "done" /\ mem[c] \in Records /\ Sound(mem[c], job', dialect', dir')
  BY <1>2, CallerHolds DEF remote
<1>4. /\ file' \in Records \cup Unreadable /\ FileInv'
      /\ last' \in States /\ (last' = "succeeded" => job = "zero")
  <2>1. CASE OpenRecord(c)
    <3>1. file' = Empty /\ last' = last
      BY <2>1 DEF OpenRecord, history
    <3> QED
      BY <1>3, <3>1, Unread DEF FileInv, Unreadable, RunInv, TypeOK, SubmitInv, JobInv
  <2>2. CASE WriteRecord(c)
    <3>1. file' \in {mem[c], Garbled} /\ last' = mem[c].status
      BY <2>2 DEF WriteRecord
    <3> QED
      BY <1>2, <1>3, <3>1, Unread, RecordParts DEF FileInv, Unreadable, Sound, remote
  <2> QED
    BY <2>1, <2>2
<1>5. JobInv' /\ KeptInv'
  BY <1>2, <1>4 DEF RunInv, JobInv, KeptInv, remote
<1>6. CallersType' /\ \A d \in Callers : CallerInv(d)'
  <2>1. CASE OpenRecord(c)
    BY <1>1, <1>2, <2>1, StepMoves DEF OpenRecord, Goto, PcStates
  <2>2. CASE WriteRecord(c) /\ next[c] = "idle"
    BY <1>1, <1>3, <2>2, ReturnMoves DEF WriteRecord
  <2>3. CASE WriteRecord(c) /\ next[c] # "idle"
    <3>1. PICK p \in {"report", "clean"} : p = next[c] /\ Goto(c, p)
      BY <2>3 DEF WriteRecord, RunInv, TypeOK
    <3>2. p = "clean" => asked'
      BY <1>2, <3>1 DEF RunInv, CallerInv
    <3>3. p \in PcStates \ {"idle", "kill"}
      BY DEF PcStates
    <3> QED
      BY <1>1, <1>2, <3>1, <3>2, <3>3, StepMoves DEF Goto
  <2> QED
    BY <2>1, <2>2, <2>3
<1>7. /\ manifest' \in BOOLEAN /\ reported' \in BOOLEAN /\ asked' \in BOOLEAN
      /\ aborts' \in 0 .. MaxAborts
  BY <1>2 DEF RunInv, TypeOK
<1>8. /\ dir' \in {"none", "present", "removed"} /\ code' \in {"none", "zero", "nonzero"}
      /\ job' \in {"none", "queued", "running", "dying"} \cup Ended
      /\ UNCHANGED <<spc, booked, dialect>>
  BY <1>2 DEF RunInv, TypeOK, remote
<1> QED
  BY <1>2, <1>3, <1>4, <1>5, <1>6, <1>7, <1>8, CallerParts

\* The steps of cancel and collect that change more than run.json.
LEMMA RemoteStep ==
  ASSUME RunInv, NEW c \in Callers,
         CancelCommand(c) \/ CancelReplyLost(c) \/ WriteManifest(c) \/ Clean(c) \/ CleanFails(c)
  PROVE  RunInv'
<1>1. Moves
  BY MovesStep DEF Next, Proceed, Breaks
<1>2. /\ UNCHANGED <<file, booked, dialect, spc, reported, asked, last>>
      /\ pc[c] \in {"kill", "manifest", "clean"}
      /\ FilesType'
  BY FilesStep DEF Next, Proceed, Breaks, CancelCommand, CancelReplyLost, Kill, WriteManifest, Clean,
                   CleanFails, remote, history
<1>3. spc = "done" /\ mem[c] \in Records /\ Sound(mem[c], job, dialect, dir)
  BY <1>2, CallerHolds
<1>4. FileInv'
  BY <1>1, <1>2, FileFrame
<1>5. /\ job' \in {"none", "queued", "running", "dying"} \cup Ended
      /\ dir' \in {"none", "present", "removed"} /\ code' \in {"none", "zero", "nonzero"}
      /\ (code # "none" => job' = job) /\ (code' # "none" => code' = code)
  BY DEF CancelCommand, CancelReplyLost, Kill, WriteManifest, Clean, CleanFails, RemoveDirectory,
         remote, RunInv, TypeOK, JobInv, Ended
<1>6. JobInv'
  BY <1>1, <1>2, <1>5 DEF RunInv, JobInv, Moves
<1>7. manifest' \in BOOLEAN /\ KeptInv'
  <2>1. CallerInv(c) /\ KeptInv /\ manifest \in BOOLEAN /\ asked \in BOOLEAN
    BY DEF RunInv, TypeOK
  <2>2. CASE CancelCommand(c) \/ CancelReplyLost(c) \/ WriteManifest(c)
    BY <1>2, <2>1, <2>2 DEF CancelCommand, CancelReplyLost, WriteManifest, Kill, local, remote,
                             KeptInv
  <2>3. CASE Clean(c) \/ CleanFails(c)
    BY <1>2, <2>1, <2>3 DEF Clean, CleanFails, CallerInv, KeptInv, local
  <2> QED
    BY <2>2, <2>3
<1>8. /\ aborts' \in 0 .. MaxAborts
      /\ last' \in States /\ file' \in Records \cup Unreadable
      /\ reported' \in BOOLEAN /\ asked' \in BOOLEAN
  BY <1>2, <1>3, SchedulerRunAssumption
     DEF CancelCommand, CancelReplyLost, WriteManifest, Clean, CleanFails, RunInv, TypeOK, SubmitInv
<1>9. CallersType' /\ \A d \in Callers : CallerInv(d)'
  <2>1. CASE CancelCommand(c)
    <3>1. PICK m \in Records : /\ m = [mem[c] EXCEPT !.status = "cancelled"]
                               /\ m.status = "cancelled" /\ m.cleaned = mem[c].cleaned
      BY <1>3, StatusSet DEF States
    <3>2. job' \notin Waiting /\ dir' = dir
      BY <2>1 DEF CancelCommand, Kill, Waiting
    <3>3. Sound(m, job', dialect', dir')
      BY <1>3, <3>1, <3>2 DEF Sound
    <3>4. asked'
      BY <1>2, <2>1 DEF CancelCommand, RunInv, CallerInv
    <3> QED
      BY <1>1, <1>3, <2>1, <3>1, <3>3, <3>4, SaveMoves DEF CancelCommand
  <2>2. CASE CancelReplyLost(c)
    BY <1>1, <1>3, <2>2, ReturnMoves DEF CancelReplyLost
  <2>3. CASE WriteManifest(c)
    BY <1>1, <2>3, StepMoves DEF WriteManifest, Goto, PcStates
  <2>4. CASE Clean(c)
    <3>1. PICK m \in Records : /\ m = [mem[c] EXCEPT !.cleaned = TRUE] /\ m.cleaned = TRUE
                               /\ m.status = mem[c].status /\ m.id = mem[c].id
      BY <1>3, CleanedSet
    <3>2. Sound(m, job', dialect', dir')
      BY <1>2, <1>3, <2>4, <3>1 DEF Clean, RemoveDirectory, Sound
    <3> QED
      BY <1>1, <1>3, <2>4, <3>1, <3>2, SaveMoves DEF Clean
  <2>5. CASE CleanFails(c)
    <3>1. Sound(mem[c], job', dialect', dir')
      BY <1>1, <1>3, SoundStays
    <3> QED
      BY <1>1, <1>3, <2>5, <3>1, SaveMoves DEF CleanFails
  <2> QED
    BY <2>1, <2>2, <2>3, <2>4, <2>5
<1> QED
  BY <1>2, <1>3, <1>4, <1>5, <1>6, <1>7, <1>8, <1>9, CallerParts

\* Every step keeps the invariant.
LEMMA RunStep == RunInv /\ [Next]_vars => RunInv'
<1> SUFFICES ASSUME RunInv, [Next]_vars PROVE RunInv'
  OBVIOUS
<1>1. CASE UNCHANGED vars
  BY <1>1 DEF RunInv, TypeOK, FileInv, CallerInv, SubmitInv, JobInv, KeptInv,
              vars, local, remote, caller, history
<1>2. ASSUME NEW c \in Callers, Proceed(c) \/ Breaks(c) PROVE RunInv'
  BY <1>2, ThinkStep, WriteStep, RemoteStep DEF Proceed, Breaks
<1> QED
  BY <1>1, <1>2, SubmitStep, ClusterStep, CallStep DEF Next

-----------------------------------------------------------------------------
(* The theorems.                                                           *)

\* The invariant holds in every reachable state.
THEOREM RunInvariant == Spec => []RunInv
BY RunInit, RunStep, PTL DEF Spec

\* run.json, the cluster and what the calls hold keep their kinds.
THEOREM TypeCorrect == Spec => []TypeOK
<1>1. RunInv => TypeOK
  BY DEF RunInv
<1> QED
  BY <1>1, RunInvariant, PTL

\* status reports, and run.json holds, a success only of a job that ended with
\* exit code 0, for any number of overlapping and failing calls.
THEOREM SuccessesAreReal == Spec => []SuccessIsReal
<1>1. RunInv => SuccessIsReal
  BY DEF RunInv, FileInv, JobInv, Sound, SuccessIsReal, Readable
<1> QED
  BY <1>1, RunInvariant, PTL

\* No job waits or runs behind a record that is terminal, cancels included.
THEOREM TerminalRunsAreReleased == Spec => []TerminalReleases
<1>1. RunInv => TerminalReleases
  BY DEF RunInv, FileInv, Sound, TerminalReleases, Over, Readable, Waiting
<1> QED
  BY <1>1, RunInvariant, PTL

\* remote_cleaned is never wrong.
THEOREM CleanedRunsAreGone == Spec => []CleanedIsReal
<1>1. RunInv => CleanedIsReal
  BY DEF RunInv, FileInv, Sound, CleanedIsReal, Readable
<1> QED
  BY <1>1, RunInvariant, PTL

-----------------------------------------------------------------------------
(* Collections that do not copy at the same time deliver whole outputs.    *)

Delivered == (manifest => here) /\ \A c \in Callers : CopyInv(c)

\* The only collection that copies takes a step.
LEMMA LoneStep ==
  ASSUME RunInv, NEW c \in Callers, pc[c] \in Copying, CopyInv(c), NEW p, p # "fetch",
         pc' = [pc EXCEPT ![c] = p], manifest' => here',
         p = "read" => archive' = "whole",
         p \in {"stream", "copy"} => hand'[c] = "sound",
         p = "manifest" => here',
         p \in Copying => ~manifest'
  PROVE  Delivered'
<1>1. pc'[c] = p /\ \A d \in Callers : d # c => pc'[d] \notin Copying
  BY DEF RunInv, TypeOK, CopyInv
<1>2. ASSUME NEW d \in Callers PROVE CopyInv(d)'
  BY <1>1 DEF CopyInv, Copying
<1> QED
  BY <1>2 DEF Delivered

\* A call takes a step to where it does not copy, and leaves the files alone.
LEMMA AsideStep ==
  ASSUME RunInv, Delivered, NEW c \in Callers, NEW p, p \notin Copying,
         pc' = [pc EXCEPT ![c] = p], UNCHANGED local,
         \A d \in Callers : d # c => hand'[d] = hand[d]
  PROVE  Delivered'
<1>1. pc'[c] = p /\ \A d \in Callers : d # c => pc'[d] = pc[d]
  BY DEF RunInv, TypeOK
<1>2. ASSUME NEW d \in Callers PROVE CopyInv(d)'
  BY <1>1 DEF Delivered, CopyInv, Copying, local
<1> QED
  BY <1>2 DEF Delivered, local

\* The steps of collect up to the manifest.
LEMMA CopyStep ==
  ASSUME RunInv, Delivered, NEW c \in Callers,
         \/ OpenArchive(c) \/ StreamOutputs(c) \/ OpenOutputs(c) \/ CopyOutputs(c)
         \/ WriteManifest(c)
  PROVE  Delivered'
<1>1. /\ CopyInv(c) /\ (manifest => here)
      /\ archive \in {"absent", "short", "whole"}
      /\ hand \in [Callers -> {"none", "sound", "cut", "gone"}]
  BY DEF Delivered, RunInv, TypeOK
<1>2. CASE OpenArchive(c)
  <2>1. pc[c] \in Copying /\ pc' = [pc EXCEPT ![c] = "stream"] /\ hand'[c] = "sound"
    BY <1>2 DEF OpenArchive, Step, Copying
  <2>2. ~manifest'
    BY <1>1, <1>2, <2>1 DEF OpenArchive, CopyInv
  <2> QED
    BY <1>1, <2>1, <2>2, LoneStep
<1>3. CASE StreamOutputs(c)
  <2>1. pc[c] \in Copying /\ pc' = [pc EXCEPT ![c] = "read"] /\ hand[c] = "sound"
    BY <1>1, <1>3 DEF StreamOutputs, Step, Copying, CopyInv
  <2>2. ~manifest' /\ archive' = "whole"
    BY <1>1, <1>3, <2>1 DEF StreamOutputs, CopyInv
  <2> QED
    BY <1>1, <2>1, <2>2, LoneStep
<1>4. CASE OpenOutputs(c)
  <2>1. pc[c] \in Copying /\ pc' = [pc EXCEPT ![c] = "copy"] /\ archive = "whole"
    BY <1>1, <1>4 DEF OpenOutputs, Step, Copying, CopyInv
  <2>2. ~manifest' /\ hand'[c] = "sound"
    BY <1>1, <1>4, <2>1 DEF OpenOutputs, CopyInv
  <2> QED
    BY <1>1, <2>1, <2>2, LoneStep
<1>5. CASE CopyOutputs(c)
  <2>1. pc[c] \in Copying /\ pc' = [pc EXCEPT ![c] = "manifest"] /\ hand[c] = "sound"
    BY <1>1, <1>5 DEF CopyOutputs, Step, Copying, CopyInv
  <2>2. ~manifest' /\ here'
    BY <1>1, <1>5, <2>1 DEF CopyOutputs, CopyInv
  <2> QED
    BY <1>1, <2>1, <2>2, LoneStep
<1>6. CASE WriteManifest(c)
  <2>1. pc[c] \in Copying /\ pc' = [pc EXCEPT ![c] = "clean"] /\ here'
    BY <1>1, <1>6 DEF WriteManifest, Goto, Step, Copying, CopyInv
  <2> QED
    BY <1>1, <2>1, LoneStep DEF Copying
<1> QED
  BY <1>2, <1>3, <1>4, <1>5, <1>6

\* A collection that raises or dies.
LEMMA BrokenStep ==
  ASSUME RunInv, Delivered, NEW c \in Callers, Return(c), LeaveFiles(c)
  PROVE  Delivered'
<1>1. pc' = [pc EXCEPT ![c] = "idle"] /\ \A d \in Callers : d # c => hand'[d] = hand[d]
  BY DEF Return, RunInv, TypeOK
<1>2. CASE pc[c] = "copy"
  <2>1. pc[c] \in Copying /\ CopyInv(c) /\ ~manifest'
    BY <1>2 DEF Delivered, CopyInv, Copying, LeaveFiles
  <2> QED
    BY <1>1, <2>1, LoneStep DEF Copying
<1>3. CASE pc[c] # "copy"
  <2>1. UNCHANGED local
    BY <1>3 DEF LeaveFiles, local
  <2> QED
    BY <1>1, <2>1, AsideStep DEF Copying
<1> QED
  BY <1>2, <1>3

\* The first step of a call; a collection does not find another one copying.
LEMMA JoinStep ==
  ASSUME RunInv, Delivered, NEW c \in Callers, Call(c), ~shared'
  PROVE  Delivered'
<1>1. UNCHANGED <<local, hand>>
  BY DEF Call, StatusOver, StatusRead, CancelRead, CollectRead, Read, caller
<1>2. CASE StatusOver(c)
  BY <1>1, <1>2 DEF StatusOver, caller, local, Delivered, CopyInv
<1>3. CASE StatusRead(c) \/ CancelRead(c) \/ (CollectRead(c) /\ manifest)
  <2>1. PICK p \in {"exit_code", "kill", "clean"} : pc' = [pc EXCEPT ![c] = p]
    BY <1>3 DEF StatusRead, CancelRead, CollectRead, Read
  <2> QED
    BY <1>1, <2>1, AsideStep DEF Copying
<1>4. CASE CollectRead(c) /\ ~manifest
  <2>1. pc' = [pc EXCEPT ![c] = "fetch"] /\ \A d \in Callers : pc[d] \notin Copying
    BY <1>4 DEF CollectRead, Read
  <2>2. pc'[c] = "fetch" /\ \A d \in Callers : d # c => pc'[d] \notin Copying
    BY <2>1 DEF RunInv, TypeOK
  <2>3. ~manifest'
    BY <1>1, <1>4 DEF local
  <2>4. ASSUME NEW d \in Callers PROVE CopyInv(d)'
    BY <2>2, <2>3 DEF CopyInv, Copying
  <2> QED
    BY <2>3, <2>4 DEF Delivered
<1> QED
  BY <1>2, <1>3, <1>4 DEF Call

LEMMA DeliveryStep == RunInv /\ DeliveryInv /\ [Next]_vars => DeliveryInv'
<1> SUFFICES ASSUME RunInv, DeliveryInv, [Next]_vars, ~shared' PROVE Delivered'
  BY DEF DeliveryInv, Delivered
<1>1. Delivered
  BY MovesStep DEF Moves, DeliveryInv, Delivered
<1>2. CASE UNCHANGED <<local, caller>>
  BY <1>1, <1>2 DEF Delivered, CopyInv, local, caller
<1>3. CASE Submitting \/ SubmitDies \/ Cluster \/ UNCHANGED vars
  BY <1>2, <1>3 DEF Submitting, SubmitDies, WriteQueued, MakeDirectory, Upload, Enqueue, KeepId,
              SubmitFails, RecordFailure, SubmitCleanup, Cluster, JobStarts, JobRequeued, JobExits,
              JobKilled, Book, vars
<1>4. ASSUME NEW c \in Callers, Call(c) PROVE Delivered'
  BY <1>1, <1>4, JoinStep
<1>5. ASSUME NEW c \in Callers, ArchiveFails(c) \/ Abort(c) PROVE Delivered'
  BY <1>1, <1>5, BrokenStep DEF ArchiveFails, Abort
<1>6. ASSUME NEW c \in Callers,
             \/ QueryUnknown(c) \/ ReportStatus(c) \/ StreamFails(c) \/ CleanSkips(c)
             \/ CancelReplyLost(c)
      PROVE  Delivered'
  <2>1. Return(c) /\ UNCHANGED local
    BY <1>6 DEF QueryUnknown, ReportStatus, StreamFails, CleanSkips, CancelReplyLost
  <2>2. pc' = [pc EXCEPT ![c] = "idle"] /\ \A d \in Callers : d # c => hand'[d] = hand[d]
    BY <2>1 DEF Return, RunInv, TypeOK
  <2> QED
    BY <1>1, <2>1, <2>2, AsideStep DEF Copying
<1>7. ASSUME NEW c \in Callers,
             \/ ExitCodeFound(c) \/ QueryScheduler(c) \/ CancelCommand(c) \/ Clean(c)
             \/ CleanFails(c)
      PROVE  Delivered'
  <2>1. pc' = [pc EXCEPT ![c] = "open"] /\ UNCHANGED <<local, hand>>
    BY <1>7 DEF ExitCodeFound, QueryScheduler, CancelCommand, Clean, CleanFails, Save
  <2> QED
    BY <1>1, <2>1, AsideStep DEF Copying
<1>8. ASSUME NEW c \in Callers, OpenRecord(c) \/ WriteRecord(c) \/ ExitCodeMissing(c)
      PROVE  Delivered'
  <2>1. next[c] \in {"idle", "report", "clean"}
    BY DEF RunInv, TypeOK
  <2>2. PICK p \in {"idle", "report", "clean", "write", "query"} : pc' = [pc EXCEPT ![c] = p]
    BY <1>8, <2>1 DEF OpenRecord, WriteRecord, ExitCodeMissing, Return, Goto, Step
  <2>3. UNCHANGED local /\ \A d \in Callers : d # c => hand'[d] = hand[d]
    BY <1>8 DEF OpenRecord, WriteRecord, ExitCodeMissing, Return, Goto, RunInv, TypeOK
  <2> QED
    BY <1>1, <2>2, <2>3, AsideStep DEF Copying
<1>9. ASSUME NEW c \in Callers, Proceed(c) \/ Breaks(c) PROVE Delivered'
  BY <1>1, <1>5, <1>6, <1>7, <1>8, <1>9, CopyStep DEF Proceed, Breaks
<1> QED
  BY <1>3, <1>4, <1>9 DEF Next

\* The outputs of a job that ended well, of a run nobody wanted cancelled, are on
\* the cluster or whole in the workspace at every moment, for any number of
\* callers and of calls that raise or die: collect removes the directory only
\* behind a manifest, and a manifest is right as long as no two collections have
\* copied the outputs at the same time.
THEOREM OutputsAreKept == Spec => []OutputsKept
<1>1. Init => DeliveryInv
  BY DEF Init, DeliveryInv, CopyInv, Copying
<1>2. RunInv /\ DeliveryInv => OutputsKept
  BY DEF RunInv, KeptInv, DeliveryInv, OutputsKept
<1> QED
  BY <1>1, <1>2, DeliveryStep, RunInvariant, PTL DEF Spec

-----------------------------------------------------------------------------
(* Refinement.                                                             *)

\* Every step of a scheduler provider is a step of the contract, or none.
LEMMA ContractStep ==
  ASSUME RunInv, [Next]_vars
  PROVE  [Contract!Next]_<<last, JobOf>>
<1>1. CASE spc = "new"
  <2>1. job = "none" /\ last = "none" /\ \A c \in Callers : pc[c] = "idle"
    BY <1>1 DEF RunInv, SubmitInv, CallerInv
  <2>2. CASE WriteQueued
    <3>1. last' = "queued" /\ job' = job
      BY <2>2 DEF WriteQueued, remote
    <3> QED
      BY <2>1, <3>1 DEF JobOf, Ended, Contract!Next, Contract!Submit
  <2>3. CASE UNCHANGED vars
    BY <2>3 DEF vars, history, remote, JobOf
  <2>4. WriteQueued \/ UNCHANGED vars
    <3>1. ~Cluster
      BY <2>1 DEF Cluster, JobStarts, JobRequeued, JobExits, JobKilled, Book, Ended
    <3>2. ~SubmitDies /\ (Submitting => WriteQueued)
      BY <1>1 DEF SubmitDies, Submitting, MakeDirectory, Upload, Enqueue, KeepId, SubmitFails,
                  RecordFailure, SubmitCleanup
    <3>3. ASSUME NEW c \in Callers PROVE ~Call(c) /\ ~Proceed(c) /\ ~Breaks(c)
      BY <1>1, <2>1 DEF Call, StatusOver, StatusRead, CancelRead, CollectRead, Read, Proceed,
              OpenRecord, WriteRecord, ExitCodeFound, ExitCodeMissing, QueryScheduler,
              QueryUnknown, ReportStatus, CancelCommand, OpenArchive, StreamOutputs,
              StreamFails, OpenOutputs, CopyOutputs, ArchiveFails,
              WriteManifest, Clean, CleanSkips, Breaks, Abort, CancelReplyLost, CleanFails
    <3> QED
      BY <3>1, <3>2, <3>3 DEF Next
  <2> QED
    BY <2>2, <2>3, <2>4
<1>2. CASE spc # "new"
  <2>1. last # "none" /\ RunInv'
    BY <1>2, RunStep DEF RunInv, SubmitInv
  <2>2. last' # "none" /\ last' \in States /\ (last' = "succeeded" => job' = "zero")
    <3>1. spc' # "new"
      BY <1>2 DEF Next, vars, Submitting, SubmitDies, WriteQueued, MakeDirectory, Upload, Enqueue,
              KeepId, SubmitFails, RecordFailure, SubmitCleanup, Cluster, JobStarts, JobRequeued,
              JobExits, JobKilled, Book, Call, StatusOver, StatusRead, CancelRead, CollectRead,
              Proceed, OpenRecord, WriteRecord, ExitCodeFound, ExitCodeMissing, QueryScheduler,
              QueryUnknown, ReportStatus, CancelCommand, OpenArchive, StreamOutputs,
              StreamFails, OpenOutputs, CopyOutputs, ArchiveFails,
              WriteManifest, Clean, CleanSkips, Breaks, Abort, CancelReplyLost, CleanFails
    <3> QED
      BY <2>1, <3>1 DEF RunInv, TypeOK, SubmitInv, JobInv
  <2>3. CASE UNCHANGED job
    <3>1. JobOf' = JobOf /\ (job = "zero" => JobOf = "ok")
      BY <2>1, <2>2, <2>3 DEF JobOf
    <3> QED
      BY <2>1, <2>2, <2>3, <3>1 DEF Contract!Next, Contract!RecordMoves, Contract!States, States
  <2>4. CASE job' # job
    <3>1. last' = last /\ job \notin Ended
      BY <2>4 DEF RunInv, SubmitInv, Next, vars, remote, history, Submitting, SubmitDies,
              WriteQueued, MakeDirectory, Upload,
              Enqueue, KeepId, SubmitFails, RecordFailure, SubmitCleanup, Cluster, JobStarts,
              JobRequeued, JobExits, JobKilled, Book, Call, StatusOver, StatusRead, CancelRead,
              CollectRead, Proceed, OpenRecord, WriteRecord, ExitCodeFound, ExitCodeMissing,
              QueryScheduler, QueryUnknown, ReportStatus, CancelCommand, Kill, OpenArchive,
              StreamOutputs, StreamFails, OpenOutputs, CopyOutputs, ArchiveFails, WriteManifest, Clean, CleanSkips, Breaks, Abort, CancelReplyLost,
              CleanFails, Ended
    <3> QED
      BY <2>1, <3>1 DEF JobOf, Ended, Contract!Next, Contract!JobEnds
  <2> QED
    BY <2>3, <2>4
<1> QED
  BY <1>1, <1>2

\* A scheduler provider implements the contract that ManagedRuns relies on, for
\* any number of callers and of calls that fail, on every scheduler.
THEOREM SchedulerConforms == Spec => Conforms
<1>1. Init => Contract!Init
  BY DEF Init, Contract!Init, JobOf
<1> QED
  BY <1>1, ContractStep, RunInvariant, PTL DEF Spec, Conforms, Contract!Spec

-----------------------------------------------------------------------------
(* A record that has settled: the part of RecordSettles that needs no       *)
(* fairness.                                                                *)

\* A call in one of these places writes the record it holds, or may.
Holding == {"open", "write", "report", "clean"} \cup Copying

\* The job has ended and the accounting knows it, run.json says that the run is
\* over or is unreadable, and so does every record that a call holds to write.
Settled ==
  /\ spc = "done"
  /\ job \in Ended /\ booked
  /\ Readable => file.status \in Terminal
  /\ \A c \in Callers : pc[c] \in Holding => mem[c].status \in Terminal

StaySettled == Settled => Settled'
SettledForGood == [][StaySettled]_vars

\* A call that goes on with nothing to write, or with the record of a run that
\* is over, leaves what the calls hold as it must be.
LEMMA HeldAfter ==
  ASSUME TypeOK, Settled, NEW c \in Callers, NEW to, NEW m,
         pc' = [pc EXCEPT ![c] = to], mem' = [mem EXCEPT ![c] = m],
         to \in Holding => m.status \in Terminal
  PROVE  \A d \in Callers : pc'[d] \in Holding => mem'[d].status \in Terminal
BY DEF TypeOK, Settled

LEMMA GoneOn ==
  ASSUME TypeOK, Settled, NEW c \in Callers, NEW to, Step(c, to),
         to \in Holding => mem[c].status \in Terminal
  PROVE  \A d \in Callers : pc'[d] \in Holding => mem'[d].status \in Terminal
BY DEF TypeOK, Settled, Step

LEMMA Returned ==
  ASSUME TypeOK, Settled, NEW c \in Callers, Return(c)
  PROVE  \A d \in Callers : pc'[d] \in Holding => mem'[d].status \in Terminal
BY HeldAfter DEF Return, Holding, Copying

LEMMA Saved ==
  ASSUME TypeOK, Settled, NEW c \in Callers, NEW m, NEW to, Save(c, m, to),
         m.status \in Terminal
  PROVE  \A d \in Callers : pc'[d] \in Holding => mem'[d].status \in Terminal
BY HeldAfter DEF Save

\* The job has ended and is booked: what the scheduler answers is final.
LEMMA AnswersAreFinal ==
  ASSUME job \in Ended, booked, NEW s \in Answers \ {"none"}
  PROVE  s \in Terminal
BY DEF Ended, Answers, FinalState, Terminal

\* A job that has ended is not stopped again.
LEMMA KillNothing ==
  ASSUME job \in Ended, Kill
  PROVE  job' = job /\ booked' = booked
BY DEF Kill, Ended

LEMMA CallSettled ==
  ASSUME RunInv, Settled, NEW c \in Callers, Call(c)
  PROVE  Settled'
<1>0. TypeOK
  BY DEF RunInv
<1>1. UNCHANGED <<file, job, booked, spc>>
  BY DEF Call, StatusOver, StatusRead, CancelRead, CollectRead, remote
<1>2. CASE StatusOver(c)
  BY <1>1, <1>2 DEF StatusOver, caller, Settled, Readable
<1>3. ASSUME NEW to, Read(c, to)
      PROVE  \A d \in Callers : pc'[d] \in Holding => mem'[d].status \in Terminal
  BY <1>0, <1>3, HeldAfter DEF Read, Settled
<1> QED
  BY <1>1, <1>2, <1>3 DEF Call, StatusRead, CancelRead, CollectRead, Settled, Readable

LEMMA ProceedSettled ==
  ASSUME RunInv, Settled, NEW c \in Callers, Proceed(c) \/ Breaks(c)
  PROVE  Settled'
<1> DEFINE Held == \A d \in Callers : pc[d] \in Holding => mem[d].status \in Terminal
<1>0. /\ TypeOK /\ Held /\ (pc[c] # "idle" => mem[c] \in Records)
      /\ spc = "done" /\ job \in Ended /\ booked
  BY DEF RunInv, TypeOK, Settled
<1>1. ASSUME UNCHANGED <<job, booked, spc>>, UNCHANGED file, Held' PROVE Settled'
  BY <1>1 DEF Settled, Readable
<1>2. CASE OpenRecord(c)
  <2>1. Held'
    BY <1>0, <1>2, GoneOn DEF OpenRecord, Goto, Holding
  <2> QED
    BY <1>0, <1>2, <2>1, Unread DEF OpenRecord, Settled, Readable, remote
<1>3. CASE WriteRecord(c)
  <2>1. pc[c] = "write" /\ mem[c].status \in Terminal
    BY <1>0, <1>3 DEF WriteRecord, Holding
  <2>2. Held'
    BY <1>0, <1>3, <2>1, GoneOn, Returned DEF WriteRecord, Goto
  <2>3. file' = mem[c] \/ file' = Garbled
    BY <1>3 DEF WriteRecord
  <2> QED
    BY <1>0, <1>3, <2>1, <2>2, <2>3, Unread DEF WriteRecord, Settled, Readable, remote
<1>4. CASE ExitCodeFound(c)
  <2>1. Held'
    <3>1. StateOfCode(code) \in Terminal /\ StateOfCode(code) \in States
      BY DEF StateOfCode, Terminal, States
    <3>2. [mem[c] EXCEPT !.status = StateOfCode(code)].status \in Terminal
      BY <1>0, <1>4, <3>1, StatusSet DEF ExitCodeFound
    <3> QED
      BY <1>0, <1>4, <3>2, Saved DEF ExitCodeFound
  <2> QED
    BY <1>1, <1>4, <2>1 DEF ExitCodeFound, remote
<1>5. CASE QueryScheduler(c)
  <2>1. PICK s \in Answers \ {"none"} : Save(c, [mem[c] EXCEPT !.status = s], "report")
    BY <1>5 DEF QueryScheduler
  <2>2. s \in Terminal /\ s \in States
    BY <1>0, AnswersAreFinal DEF Terminal, States
  <2>3. [mem[c] EXCEPT !.status = s].status \in Terminal
    BY <1>0, <1>5, <2>2, StatusSet DEF QueryScheduler
  <2>4. Held'
    BY <1>0, <2>1, <2>3, Saved
  <2> QED
    BY <1>1, <1>5, <2>4 DEF QueryScheduler, remote
<1>6. CASE ExitCodeMissing(c)
  BY <1>0, <1>1, <1>6, GoneOn DEF ExitCodeMissing, Goto, Holding, Copying, remote
<1>7. CASE \/ QueryUnknown(c) \/ ReportStatus(c) \/ StreamFails(c) \/ ArchiveFails(c)
           \/ CleanSkips(c) \/ Abort(c)
  BY <1>0, <1>1, <1>7, Returned
     DEF QueryUnknown, ReportStatus, StreamFails, ArchiveFails, CleanSkips, Abort, remote
<1>8. CASE CancelCommand(c)
  <2>1. [mem[c] EXCEPT !.status = "cancelled"].status \in Terminal
    BY <1>0, <1>8, StatusSet DEF CancelCommand, Terminal, States
  <2>2. Held'
    BY <1>0, <1>8, <2>1, Saved DEF CancelCommand
  <2> QED
    BY <1>0, <1>1, <1>8, <2>2, KillNothing DEF CancelCommand
<1>9. CASE CancelReplyLost(c)
  BY <1>0, <1>1, <1>9, KillNothing, Returned DEF CancelReplyLost
<1>10. CASE \/ OpenArchive(c) \/ StreamOutputs(c) \/ OpenOutputs(c) \/ CopyOutputs(c)
            \/ WriteManifest(c)
  <2>1. pc[c] \in Holding
    BY <1>10 DEF OpenArchive, StreamOutputs, OpenOutputs, CopyOutputs, WriteManifest, Holding, Copying
  <2> QED
    BY <1>0, <1>1, <1>10, <2>1, GoneOn
       DEF OpenArchive, StreamOutputs, OpenOutputs, CopyOutputs, WriteManifest, Goto, remote
<1>11. CASE Clean(c) \/ CleanFails(c)
  <2>1. pc[c] = "clean" /\ mem[c].status \in Terminal /\ mem[c] \in Records
    BY <1>0, <1>11 DEF Clean, CleanFails, Holding
  <2>2. [mem[c] EXCEPT !.cleaned = TRUE].status \in Terminal
    BY <2>1, CleanedSet
  <2>3. Held'
    BY <1>0, <1>11, <2>1, <2>2, Saved DEF Clean, CleanFails
  <2> QED
    BY <1>1, <1>11, <2>3 DEF Clean, CleanFails
<1> QED
  BY <1>2, <1>3, <1>4, <1>5, <1>6, <1>7, <1>8, <1>9, <1>10, <1>11 DEF Proceed, Breaks

LEMMA SettledStep == RunInv /\ [Next]_vars => StaySettled
<1> SUFFICES ASSUME RunInv, [Next]_vars, Settled PROVE Settled'
  BY DEF StaySettled
<1>1. ASSUME NEW c \in Callers, Call(c) \/ Proceed(c) \/ Breaks(c) PROVE Settled'
  BY <1>1, CallSettled, ProceedSettled
<1>2. CASE Submitting \/ SubmitDies
  BY <1>2 DEF Settled, Submitting, WriteQueued, MakeDirectory, Upload, Enqueue, KeepId, SubmitFails,
              RecordFailure, SubmitCleanup, SubmitDies
<1>3. CASE Cluster
  BY <1>3 DEF Settled, Ended, Cluster, JobStarts, JobRequeued, JobKilled, Book, JobExits
<1>4. CASE UNCHANGED vars
  BY <1>4 DEF vars, remote, caller, Settled, Readable
<1> QED
  BY <1>1, <1>2, <1>3, <1>4 DEF Next

\* Once the accounting has caught up and no call holds a live record any more,
\* run.json says for good that the run is over, or is unreadable: no call of
\* status, cancel or collect, however it overlaps with others or is cut short,
\* brings a live status back, for any scheduler.
THEOREM SettledRecordsStay == Spec => SettledForGood
<1>1. RunInv /\ [Next]_vars => StaySettled
  BY SettledStep
<1> QED
  BY <1>1, RunInvariant, PTL DEF Spec, SettledForGood
=============================================================================
