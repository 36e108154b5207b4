------------------------------ MODULE LocalRun ------------------------------
(***************************************************************************)
(* One run of the local compute provider (science/omnisci/compute/local.py):*)
(* the thread in submit, which starts the process and waits for it, the    *)
(* threads and processes in cancel, and run.json, the only thing they      *)
(* share.                                                                  *)
(*                                                                         *)
(* _write_record is not atomic: write_text truncates the file and then     *)
(* writes it.  A reader in between finds no JSON, and of two overlapping   *)
(* writers the later one may leave the longer text of the other behind.    *)
(* Each writer writes the whole record as it remembers it.                 *)
(***************************************************************************)
EXTENDS Naturals

CONSTANTS
  Cancellers,   \* threads and processes that call cancel
  MaxCrashes    \* bound on the deaths of submitting and cancelling processes

States == {"queued", "running", "succeeded", "failed", "cancelled", "timeout"}
TERMINAL_STATES == {"succeeded", "failed", "cancelled", "timeout"}

\* A record, reduced to its status, whether it has the process id, and the exit
\* code it shows.
Records == [status : States, pid : BOOLEAN, exit : {"null", "zero", "nonzero"}]

Queued == [status |-> "queued", pid |-> FALSE, exit |-> "null"]
NoRecord == [status |-> "none"]

\* What run.json can hold besides a record: no file, no text, broken text.
Unreadable == {[status |-> "absent"], [status |-> "empty"], [status |-> "garbled"]}
Absent == [status |-> "absent"]
Empty == [status |-> "empty"]
Garbled == [status |-> "garbled"]

ASSUME LocalRunAssumption == MaxCrashes \in Nat

VARIABLES
  file,      \* run.json
  proc,      \* the process: none, unstarted, alive, zero, nonzero or killed
  pc,        \* where submit is
  mem,       \* the record submit holds
  cpc,       \* where each canceller is
  cmem,      \* the record each canceller holds
  last,      \* history: the status of the write that was last completed
  early,     \* history: a cancel has read a record without the process id
  crashes    \* deaths so far

submitter == <<pc, mem>>
cancellers == <<cpc, cmem>>
vars == <<file, proc, submitter, cancellers, last, early, crashes>>

-----------------------------------------------------------------------------
(* run.json.                                                               *)

Readable == file \in Records

\* _write_record, first half.
Truncate == file' = Empty

\* _write_record, second half: over nothing, or over what another writer has
\* written since the truncation.
Write(m) ==
  /\ file' \in IF file = Empty THEN {m} ELSE {m, Garbled}
  /\ last' = m.status

Killed == proc' = IF proc = "alive" THEN "killed" ELSE proc

-----------------------------------------------------------------------------
(* submit.                                                                 *)

\* The run directory is new: nobody else writes the queued record.
OpenQueued ==
  /\ pc = "new"
  /\ Truncate
  /\ mem' = Queued
  /\ pc' = "write_queued"
  /\ UNCHANGED <<proc, cancellers, last, early, crashes>>

\* The record in memory is written and submit goes on.
WriteRecord(from, to) ==
  /\ pc = from
  /\ Write(mem)
  /\ pc' = to
  /\ UNCHANGED <<proc, mem, cancellers, early, crashes>>

\* Popen starts the process in a process group of its own.
Launch ==
  /\ pc = "launch"
  /\ proc' = "alive"
  /\ mem' = [mem EXCEPT !.status = "running", !.pid = TRUE]
  /\ pc' = "open_running"
  /\ UNCHANGED <<file, cancellers, last, early, crashes>>

\* Popen, or building its command, raises: so does submit.
LaunchFails ==
  /\ pc = "launch"
  /\ proc' = "unstarted"
  /\ pc' = "raised"
  /\ UNCHANGED <<file, mem, cancellers, last, early, crashes>>

OpenRecord(from, to) ==
  /\ pc = from
  /\ Truncate
  /\ pc' = to
  /\ UNCHANGED <<proc, mem, cancellers, last, early, crashes>>

Exited == proc \in {"zero", "nonzero", "killed"}

\* Mutant: the exit code is not looked at.
StatusAfterExitBlind ==
  IF file.status = "cancelled" THEN "cancelled" ELSE "succeeded"

\* The status of a process that has exited.
StatusAfterExit ==
  IF file.status = "cancelled" THEN "cancelled"
  ELSE IF proc = "zero" THEN "succeeded" ELSE "failed"

\* wait returns: the record is read again, in case the run was cancelled.
WaitReturns ==
  /\ pc = "wait"
  /\ Exited
  /\ Readable
  /\ mem' = [mem EXCEPT !.status = StatusAfterExit,
                        !.exit = IF proc = "zero" THEN "zero" ELSE "nonzero"]
  /\ pc' = "open_final"
  /\ UNCHANGED <<file, proc, cancellers, last, early, crashes>>

\* The record cannot be read while a canceller is writing it: submit raises.
WaitReadFails ==
  /\ pc = "wait"
  /\ Exited
  /\ ~Readable
  /\ pc' = "raised"
  /\ UNCHANGED <<file, proc, mem, cancellers, last, early, crashes>>

\* The time limit passes before the process has exited.
TimeoutExpires ==
  /\ pc = "wait"
  /\ proc = "alive"
  /\ pc' = "kill"
  /\ UNCHANGED <<file, proc, mem, cancellers, last, early, crashes>>

\* Mutant: the process is not killed.
KillTimedOutSpares ==
  /\ pc = "kill"
  /\ Exited
  /\ mem' = [mem EXCEPT !.status = "timeout"]
  /\ pc' = "open_final"
  /\ UNCHANGED <<file, proc, cancellers, last, early, crashes>>

\* The process group is killed, whether or not it has just exited by itself.
KillTimedOut ==
  /\ pc = "kill"
  /\ Killed
  /\ mem' = [mem EXCEPT !.status = "timeout"]
  /\ pc' = "open_final"
  /\ UNCHANGED <<file, cancellers, last, early, crashes>>

\* The submitting process dies.  Its child does not.
Crash ==
  /\ pc \notin {"new", "done", "raised", "crashed"}
  /\ crashes < MaxCrashes
  /\ crashes' = crashes + 1
  /\ pc' = "crashed"
  /\ UNCHANGED <<file, proc, mem, cancellers, last, early>>

-----------------------------------------------------------------------------
(* cancel.                                                                 *)

\* Mutant: the record that was read is not kept.
CancelReadForgets(c) ==
  /\ cpc[c] = "idle"
  /\ Readable
  /\ file.status \notin TERMINAL_STATES
  /\ cpc' = [cpc EXCEPT ![c] = IF file.pid THEN "kill" ELSE "open"]
  /\ early' = (early \/ ~file.pid)
  /\ UNCHANGED <<file, proc, submitter, cmem, last, crashes>>

\* The record is read; a run that is over cannot be cancelled.
CancelRead(c) ==
  /\ cpc[c] = "idle"
  /\ Readable
  /\ file.status \notin TERMINAL_STATES
  /\ cmem' = [cmem EXCEPT ![c] = file]
  /\ cpc' = [cpc EXCEPT ![c] = IF file.pid THEN "kill" ELSE "open"]
  /\ early' = (early \/ ~file.pid)
  /\ UNCHANGED <<file, proc, submitter, last, crashes>>

\* Mutant: the signal is not sent.
CancelKillSpares(c) ==
  /\ cpc[c] = "kill"
  /\ cpc' = [cpc EXCEPT ![c] = "open"]
  /\ UNCHANGED <<file, proc, submitter, cmem, last, early, crashes>>

CancelKill(c) ==
  /\ cpc[c] = "kill"
  /\ Killed
  /\ cpc' = [cpc EXCEPT ![c] = "open"]
  /\ UNCHANGED <<file, submitter, cmem, last, early, crashes>>

CancelOpen(c) ==
  /\ cpc[c] = "open"
  /\ Truncate
  /\ cpc' = [cpc EXCEPT ![c] = "write"]
  /\ UNCHANGED <<proc, submitter, cmem, last, early, crashes>>

CancelWrite(c) ==
  /\ cpc[c] = "write"
  /\ Write([cmem[c] EXCEPT !.status = "cancelled"])
  /\ cpc' = [cpc EXCEPT ![c] = "idle"]
  /\ cmem' = [cmem EXCEPT ![c] = NoRecord]
  /\ UNCHANGED <<proc, submitter, early, crashes>>

\* The cancelling process dies.
CancelCrash(c) ==
  /\ cpc[c] # "idle"
  /\ crashes < MaxCrashes
  /\ crashes' = crashes + 1
  /\ cpc' = [cpc EXCEPT ![c] = "idle"]
  /\ cmem' = [cmem EXCEPT ![c] = NoRecord]
  /\ UNCHANGED <<file, proc, submitter, last, early>>

-----------------------------------------------------------------------------
\* The process exits by itself.
Exit(how) ==
  /\ proc = "alive"
  /\ proc' = how
  /\ UNCHANGED <<file, submitter, cancellers, last, early, crashes>>

Init ==
  /\ file = Absent
  /\ proc = "none"
  /\ pc = "new"
  /\ mem = NoRecord
  /\ cpc = [c \in Cancellers |-> "idle"]
  /\ cmem = [c \in Cancellers |-> NoRecord]
  /\ last = "none"
  /\ early = FALSE
  /\ crashes = 0

Submitting ==
  \/ OpenQueued
  \/ WriteRecord("write_queued", "launch")
  \/ Launch
  \/ OpenRecord("open_running", "write_running")
  \/ WriteRecord("write_running", "wait")
  \/ WaitReturns
  \/ WaitReadFails
  \/ TimeoutExpires
  \/ KillTimedOut
  \/ OpenRecord("open_final", "write_final")
  \/ WriteRecord("write_final", "done")

Cancelling(c) == CancelRead(c) \/ CancelKill(c) \/ CancelOpen(c) \/ CancelWrite(c)

Next ==
  \/ Submitting
  \/ LaunchFails
  \/ Crash
  \/ \E c \in Cancellers : Cancelling(c) \/ CancelCrash(c)
  \/ \E how \in {"zero", "nonzero"} : Exit(how)

Spec == Init /\ [][Next]_vars

-----------------------------------------------------------------------------
(* Properties.                                                             *)

SubmitStates == {"new", "write_queued", "launch", "open_running", "write_running", "wait",
                 "kill", "open_final", "write_final", "done", "raised", "crashed"}

\* Every variable holds a value of its kind; submit holds a record from its
\* first write on, and a canceller past its read holds one.
TypeOK ==
  /\ file \in Records \cup Unreadable
  /\ proc \in {"none", "unstarted", "alive", "zero", "nonzero", "killed"}
  /\ pc \in SubmitStates
  /\ mem \in Records \cup {NoRecord}
  /\ pc # "new" => mem \in Records
  /\ cpc \in [Cancellers -> {"idle", "kill", "open", "write"}]
  /\ cmem \in [Cancellers -> Records \cup {NoRecord}]
  /\ \A c \in Cancellers : cpc[c] # "idle" => cmem[c] \in Records
  /\ last \in States \cup {"none"}
  /\ early \in BOOLEAN
  /\ crashes \in 0 .. MaxCrashes

\* A run that is on record as succeeded ran to its end and exited with 0, as
\* the exit code on record says: however cancel, the time limit and the exit of
\* the process race, a process that was killed is not reported as a success.
SuccessIsReal ==
  Readable /\ file.status = "succeeded" => proc = "zero" /\ file.exit = "zero"

Over == Readable /\ file.status \in TERMINAL_STATES

\* A run that is on record as over has no process left, whatever stale record
\* was written last, unless a cancel came before the process id was on record.
TerminalReleases == Over /\ ~early => proc # "alive"

-----------------------------------------------------------------------------
(* The local provider implements the contract of a provider.               *)

JobOf ==
  IF last = "none" THEN "none"
  ELSE IF proc \in {"none", "alive"} THEN "active"
  ELSE IF proc = "zero" THEN "ok" ELSE "bad"

\* provider.status of a local run is a ProviderRecord, read at the last write
\* that was completed: ScienceService may rely on a success it reports.
Contract == INSTANCE ProviderRecord WITH record <- last, job <- JobOf
Conforms == Contract!Spec
=============================================================================
