-------------------------- MODULE LocalRun_proofs --------------------------
(***************************************************************************)
(* Proofs about the local provider, for any number of cancellers and of    *)
(* deaths.                                                                 *)
(***************************************************************************)
EXTENDS LocalRun, TLAPS

-----------------------------------------------------------------------------
(* The inductive invariant.                                                *)

Launched == proc \notin {"none", "unstarted"}

\* A success that is on record, in memory or in the history is one.
RealSuccess(m) == m.status = "succeeded" => proc = "zero" /\ m.exit = "zero"

\* Before the first write there is no record, and so nothing to cancel.
BeforeFirstWrite ==
  /\ pc \in {"new", "write_queued"} => last = "none"
  /\ pc \in {"launch", "open_running", "write_running", "wait", "kill", "open_final",
             "write_final", "done", "raised"} => last # "none"
  /\ pc = "write_queued" => mem = Queued
  /\ last = "none" => proc = "none" /\ ~Readable /\ \A c \in Cancellers : cpc[c] = "idle"

\* The process is started once, by submit.
LaunchedOnce == pc \in {"new", "write_queued", "launch"} => proc = "none"

RecordInv ==
  /\ TypeOK
  /\ Readable => RealSuccess(file)
  /\ pc # "new" => RealSuccess(mem)
  /\ \A c \in Cancellers : cpc[c] # "idle" => cmem[c].status \notin TERMINAL_STATES
  /\ last = "succeeded" => proc = "zero"
  /\ BeforeFirstWrite
  /\ LaunchedOnce

\* What may stand in run.json is a record or none of them.
LEMMA Unread == Empty \notin Records /\ Garbled \notin Records /\ Absent \notin Records
<1>1. \A m \in Records : m.status \in States
  BY DEF Records
<1>2. Empty.status = "empty" /\ Garbled.status = "garbled" /\ Absent.status = "absent"
  BY DEF Empty, Garbled, Absent
<1> QED
  BY <1>1, <1>2 DEF States

\* A completed write leaves the record that was written, or nothing readable.
LEMMA Written ==
  ASSUME TypeOK, NEW m \in Records, Write(m)
  PROVE  /\ file' \in Records \cup Unreadable
         /\ Readable' => file' = m
         /\ last' = m.status /\ last' \in States
<1>1. file' = m \/ file' = Garbled
  BY DEF Write
<1>2. m.status \in States
  BY DEF Records
<1> QED
  BY <1>1, <1>2, Unread DEF Write, Readable, Unreadable, Garbled

\* The queued record and the records submit makes of the one it holds.
LEMMA QueuedRecord == Queued \in Records /\ Queued.status = "queued"
BY DEF Queued, Records, States

\* A record with another status.
LEMMA StatusSet ==
  ASSUME NEW m \in Records, NEW s \in States
  PROVE  /\ [m EXCEPT !.status = s] \in Records
         /\ [m EXCEPT !.status = s].status = s
BY DEF Records

\* A record with a process id.
LEMMA PidSet ==
  ASSUME NEW m \in Records, NEW s \in States
  PROVE  /\ [m EXCEPT !.status = s, !.pid = TRUE] \in Records
         /\ [m EXCEPT !.status = s, !.pid = TRUE].status = s
BY DEF Records

\* An empty workspace satisfies the invariant.
LEMMA RecordInit == Init => RecordInv
<1> SUFFICES ASSUME Init PROVE RecordInv
  OBVIOUS
<1>1. TypeOK
  <2>1. file \in Records \cup Unreadable
    BY DEF Init, Unreadable, Absent
  <2>2. cmem \in [Cancellers -> Records \cup {NoRecord}]
    BY DEF Init
  <2>3. /\ cpc \in [Cancellers -> {"idle", "kill", "open", "write"}]
        /\ \A c \in Cancellers : cpc[c] = "idle"
    BY DEF Init
  <2>4. crashes \in 0 .. MaxCrashes
    BY LocalRunAssumption DEF Init
  <2> QED
    BY <2>1, <2>2, <2>3, <2>4 DEF Init, TypeOK, SubmitStates
<1> QED
  BY <1>1, Unread DEF Init, RecordInv, BeforeFirstWrite, LaunchedOnce, Readable

\* The submitting thread keeps the invariant.
LEMMA SubmittingStep == RecordInv /\ Submitting => RecordInv'
<1> SUFFICES ASSUME RecordInv, Submitting PROVE RecordInv'
  OBVIOUS
<1> USE DEF RecordInv, TypeOK, SubmitStates, cancellers
<1>1. CASE OpenQueued
  <2>1. ~Readable' /\ file' \in Unreadable
    BY <1>1, Unread DEF OpenQueued, Truncate, Readable, Unreadable, Empty
  <2>2. mem' = Queued /\ mem' \in Records /\ mem'.status = "queued"
    BY <1>1, QueuedRecord DEF OpenQueued
  <2>3. /\ pc = "new" /\ pc' = "write_queued"
        /\ UNCHANGED <<proc, cpc, cmem, last, early, crashes>>
    BY <1>1 DEF OpenQueued
  <2>4. BeforeFirstWrite' /\ LaunchedOnce'
    BY <2>1, <2>2, <2>3 DEF BeforeFirstWrite, LaunchedOnce
  <2> QED
    BY <2>1, <2>2, <2>3, <2>4 DEF RealSuccess
<1>2. ASSUME NEW from \in SubmitStates \ {"new"}, NEW to \in SubmitStates \ {"new"},
             <<from, to>> \in {<<"write_queued", "launch">>, <<"write_running", "wait">>,
                               <<"write_final", "done">>},
             WriteRecord(from, to)
      PROVE  RecordInv'
  <2>1. mem \in Records /\ RealSuccess(mem) /\ pc = from /\ pc' = to
    BY <1>2 DEF WriteRecord
  <2>2. /\ file' \in Records \cup Unreadable
        /\ Readable' => file' = mem
        /\ last' = mem.status /\ last' \in States
    BY <1>2, <2>1, Written DEF WriteRecord
  <2>3. UNCHANGED <<proc, mem, cpc, cmem, early, crashes>>
    BY <1>2 DEF WriteRecord
  <2>4. TypeOK'
    BY <2>1, <2>2, <2>3
  <2>5. BeforeFirstWrite' /\ LaunchedOnce'
    BY <1>2, <2>1, <2>2, <2>3 DEF BeforeFirstWrite, LaunchedOnce, States
  <2> QED
    BY <2>1, <2>2, <2>3, <2>4, <2>5 DEF RealSuccess
<1>3. CASE Launch
  <2>1. mem' \in Records /\ mem'.status = "running"
    <3>1. mem \in Records /\ "running" \in States
      BY <1>3 DEF Launch, States
    <3> QED
      BY <1>3, <3>1, PidSet DEF Launch
  <2>2. BeforeFirstWrite' /\ LaunchedOnce'
    BY <1>3 DEF Launch, BeforeFirstWrite, LaunchedOnce, Readable
  <2>3. proc = "none"
    BY <1>3 DEF Launch, LaunchedOnce
  <2> QED
    BY <1>3, <2>1, <2>2, <2>3 DEF Launch, RealSuccess, Readable
<1>4. ASSUME NEW from \in SubmitStates \ {"new"}, NEW to \in SubmitStates \ {"new"},
             <<from, to>> \in {<<"open_running", "write_running">>, <<"open_final", "write_final">>},
             OpenRecord(from, to)
      PROVE  RecordInv'
  <2>1. file' = Empty /\ pc = from /\ pc' = to /\ UNCHANGED <<proc, mem, cpc, cmem, last, early, crashes>>
    BY <1>4 DEF OpenRecord, Truncate
  <2>2. ~Readable' /\ file' \in Unreadable
    BY <2>1, Unread DEF Readable, Unreadable, Empty
  <2>3. BeforeFirstWrite' /\ LaunchedOnce'
    BY <1>4, <2>1, <2>2 DEF BeforeFirstWrite, LaunchedOnce
  <2> QED
    BY <2>1, <2>2, <2>3 DEF RealSuccess
<1>5. CASE WaitReturns
  <2>1. StatusAfterExit \in States /\ (StatusAfterExit = "succeeded" => proc = "zero")
    BY DEF StatusAfterExit, States
  <2>2. mem' \in Records /\ RealSuccess(mem)'
    <3> DEFINE e == IF proc = "zero" THEN "zero" ELSE "nonzero"
    <3>1. mem \in Records /\ e \in {"null", "zero", "nonzero"}
      BY <1>5 DEF WaitReturns
    <3>2. mem' = [mem EXCEPT !.status = StatusAfterExit, !.exit = e] /\ proc' = proc
      BY <1>5 DEF WaitReturns
    <3> HIDE DEF e
    <3>3. mem' \in Records /\ mem'.status = StatusAfterExit /\ mem'.exit = e
      <4>1. PICK s \in States : s = StatusAfterExit
        BY <2>1
      <4>2. mem' = [mem EXCEPT !.status = s, !.exit = e]
        BY <3>2, <4>1
      <4> QED
        BY <3>1, <4>1, <4>2 DEF Records
    <3> QED
      BY <2>1, <3>2, <3>3 DEF RealSuccess, e
  <2>3. BeforeFirstWrite' /\ LaunchedOnce'
    BY <1>5 DEF WaitReturns, BeforeFirstWrite, LaunchedOnce, Readable
  <2> QED
    BY <1>5, <2>2, <2>3 DEF WaitReturns, RealSuccess, Readable
<1>6. CASE WaitReadFails \/ TimeoutExpires
  BY <1>6 DEF WaitReadFails, TimeoutExpires, BeforeFirstWrite, LaunchedOnce, Readable, RealSuccess
<1>7. CASE KillTimedOut
  <2>1. mem' \in Records /\ mem'.status = "timeout"
    BY <1>7, StatusSet DEF KillTimedOut, States
  <2>2. BeforeFirstWrite' /\ LaunchedOnce'
    BY <1>7 DEF KillTimedOut, Killed, BeforeFirstWrite, LaunchedOnce, Readable
  <2> QED
    BY <1>7, <2>1, <2>2 DEF KillTimedOut, Killed, RealSuccess, Readable
<1> QED
  BY <1>1, <1>2, <1>3, <1>4, <1>5, <1>6, <1>7 DEF Submitting

\* So does every step that is not the submitting thread's.
LEMMA OtherStep ==
  RecordInv /\ (LaunchFails \/ Crash \/ (\E c \in Cancellers : Cancelling(c) \/ CancelCrash(c))
                \/ \E how \in {"zero", "nonzero"} : Exit(how)) => RecordInv'
<1> SUFFICES ASSUME RecordInv,
                    LaunchFails \/ Crash \/ (\E c \in Cancellers : Cancelling(c) \/ CancelCrash(c))
                      \/ \E how \in {"zero", "nonzero"} : Exit(how)
             PROVE  RecordInv'
  OBVIOUS
<1> USE LocalRunAssumption DEF RecordInv, TypeOK, SubmitStates, cancellers, submitter
<1>1. CASE LaunchFails
  BY <1>1 DEF LaunchFails, BeforeFirstWrite, LaunchedOnce, Readable, RealSuccess
<1>2. CASE Crash
  BY <1>2 DEF Crash, BeforeFirstWrite, LaunchedOnce, Readable, RealSuccess
<1>3. ASSUME NEW how \in {"zero", "nonzero"}, Exit(how) PROVE RecordInv'
  BY <1>3 DEF Exit, BeforeFirstWrite, LaunchedOnce, Readable, RealSuccess
<1>4. ASSUME NEW c \in Cancellers, CancelRead(c) PROVE RecordInv'
  <2>1. TypeOK'
    BY <1>4 DEF CancelRead, Readable
  <2>2. BeforeFirstWrite' /\ LaunchedOnce'
    BY <1>4 DEF CancelRead, BeforeFirstWrite, LaunchedOnce, Readable
  <2> QED
    BY <1>4, <2>1, <2>2 DEF CancelRead, Readable, RealSuccess
<1>5. ASSUME NEW c \in Cancellers, CancelKill(c) PROVE RecordInv'
  BY <1>5 DEF CancelKill, Killed, BeforeFirstWrite, LaunchedOnce, Readable, RealSuccess
<1>6. ASSUME NEW c \in Cancellers, CancelOpen(c) PROVE RecordInv'
  <2>1. ~Readable' /\ file' \in Unreadable
    BY <1>6, Unread DEF CancelOpen, Truncate, Readable, Unreadable, Empty
  <2>2. BeforeFirstWrite' /\ LaunchedOnce'
    BY <1>6, <2>1 DEF CancelOpen, BeforeFirstWrite, LaunchedOnce
  <2> QED
    BY <1>6, <2>1, <2>2 DEF CancelOpen, RealSuccess
<1>7. ASSUME NEW c \in Cancellers, CancelWrite(c) PROVE RecordInv'
  <2> DEFINE m == [cmem[c] EXCEPT !.status = "cancelled"]
  <2>1. m \in Records /\ m.status = "cancelled"
    <3>1. cmem[c] \in Records /\ "cancelled" \in States
      BY <1>7 DEF CancelWrite, States
    <3> QED
      BY <3>1, StatusSet
  <2>2. Write(m)
    BY <1>7 DEF CancelWrite
  <2> HIDE DEF m
  <2>3. /\ file' \in Records \cup Unreadable
        /\ Readable' => file' = m
        /\ last' = "cancelled"
    BY <2>1, <2>2, Written
  <2>4. TypeOK'
    BY <1>7, <2>3 DEF CancelWrite, States
  <2>5. BeforeFirstWrite' /\ LaunchedOnce'
    BY <1>7, <2>3 DEF CancelWrite, BeforeFirstWrite, LaunchedOnce
  <2> QED
    BY <1>7, <2>1, <2>3, <2>4, <2>5 DEF CancelWrite, RealSuccess
<1>8. ASSUME NEW c \in Cancellers, CancelCrash(c) PROVE RecordInv'
  BY <1>8 DEF CancelCrash, BeforeFirstWrite, LaunchedOnce, Readable, RealSuccess
<1> QED
  BY <1>1, <1>2, <1>3, <1>4, <1>5, <1>6, <1>7, <1>8 DEF Cancelling

\* Every step keeps the invariant.
LEMMA RecordStep == RecordInv /\ [Next]_vars => RecordInv'
<1>1. RecordInv /\ UNCHANGED vars => RecordInv'
  BY DEF RecordInv, TypeOK, BeforeFirstWrite, LaunchedOnce, Readable, RealSuccess,
         vars, submitter, cancellers
<1> QED
  BY <1>1, SubmittingStep, OtherStep DEF Next

-----------------------------------------------------------------------------
(* The theorems.                                                           *)

\* The invariant holds in every reachable state.
THEOREM RecordInvariant == Spec => []RecordInv
BY RecordInit, RecordStep, PTL DEF Spec

\* run.json, the process and what submit and cancel hold keep their kinds.
THEOREM TypeCorrect == Spec => []TypeOK
<1>1. RecordInv => TypeOK
  BY DEF RecordInv
<1> QED
  BY <1>1, RecordInvariant, PTL

\* With any number of overlapping cancels and deaths, a run is on record as
\* succeeded only when its process exited with 0.
THEOREM SuccessesAreReal == Spec => []SuccessIsReal
<1>1. RecordInv => SuccessIsReal
  BY DEF RecordInv, RealSuccess, SuccessIsReal
<1> QED
  BY <1>1, RecordInvariant, PTL

-----------------------------------------------------------------------------
(* Refinement.                                                             *)

\* Every step of the local provider is a step of the contract, or none.
LEMMA ContractStep ==
  ASSUME RecordInv, [Next]_vars
  PROVE  [Contract!Next]_<<last, JobOf>>
<1> USE DEF RecordInv
<1>1. CASE UNCHANGED <<last, proc>>
  BY <1>1 DEF JobOf
<1>2. ASSUME last # "none", last' = last, proc = "alive", proc' \in {"alive", "zero", "nonzero", "killed"}
      PROVE  [Contract!Next]_<<last, JobOf>>
  BY <1>2 DEF JobOf, Contract!Next, Contract!JobEnds
<1>3. ASSUME NEW m \in Records, last # "none", last' = m.status, proc' = proc, RealSuccess(m)
      PROVE  [Contract!Next]_<<last, JobOf>>
  <2>1. m.status \in States
    BY DEF Records
  <2>2. JobOf' = JobOf /\ (proc = "zero" => JobOf = "ok")
    BY <1>3, <2>1 DEF JobOf, States
  <2> QED
    BY <1>3, <2>1, <2>2 DEF RealSuccess, Contract!Next, Contract!RecordMoves, Contract!States, States
<1>4. ASSUME WriteRecord("write_queued", "launch")
      PROVE  [Contract!Next]_<<last, JobOf>>
  <2>1. last = "none" /\ proc = "none" /\ proc' = proc /\ last' = "queued"
    BY <1>4, QueuedRecord DEF WriteRecord, Write, BeforeFirstWrite
  <2> QED
    BY <2>1 DEF JobOf, Contract!Next, Contract!Submit
<1>5. ASSUME NEW from \in {"write_running", "write_final"}, NEW to \in SubmitStates, WriteRecord(from, to)
      PROVE  [Contract!Next]_<<last, JobOf>>
  <2>1. mem \in Records /\ RealSuccess(mem) /\ last # "none" /\ last' = mem.status /\ proc' = proc
    BY <1>5 DEF WriteRecord, Write, BeforeFirstWrite, TypeOK
  <2> QED
    BY <1>3, <2>1
<1>6. CASE Launch
  <2>1. last # "none" /\ last' = last /\ proc = "none" /\ proc' = "alive"
    BY <1>6 DEF Launch, BeforeFirstWrite, LaunchedOnce
  <2> QED
    BY <2>1 DEF JobOf
<1>7. CASE LaunchFails
  <2>1. last # "none" /\ last' = last /\ proc = "none" /\ proc' = "unstarted"
    BY <1>7 DEF LaunchFails, BeforeFirstWrite, LaunchedOnce
  <2> QED
    BY <2>1 DEF JobOf, Contract!Next, Contract!JobEnds
<1>8. ASSUME Killed, last' = last PROVE [Contract!Next]_<<last, JobOf>>
  <2>1. proc = "alive" => last # "none"
    BY DEF BeforeFirstWrite
  <2> QED
    BY <1>1, <1>2, <1>8, <2>1 DEF Killed
<1>9. ASSUME NEW how \in {"zero", "nonzero"}, Exit(how) PROVE [Contract!Next]_<<last, JobOf>>
  BY <1>2, <1>9 DEF Exit, BeforeFirstWrite
<1>10. ASSUME NEW c \in Cancellers, CancelWrite(c) PROVE [Contract!Next]_<<last, JobOf>>
  <2>1. PICK m \in Records : m = [cmem[c] EXCEPT !.status = "cancelled"] /\ m.status = "cancelled"
    <3>1. cmem[c] \in Records /\ "cancelled" \in States
      BY <1>10 DEF CancelWrite, TypeOK, States
    <3> QED
      BY <3>1, StatusSet
  <2>2. last # "none" /\ last' = m.status /\ proc' = proc /\ RealSuccess(m)
    BY <1>10, <2>1 DEF CancelWrite, Write, BeforeFirstWrite, RealSuccess
  <2> QED
    BY <1>3, <2>2
<1>11. ASSUME Submitting PROVE [Contract!Next]_<<last, JobOf>>
  <2>1. CASE OpenQueued \/ OpenRecord("open_running", "write_running") \/ WaitReturns \/ WaitReadFails
             \/ TimeoutExpires \/ OpenRecord("open_final", "write_final")
    BY <1>1, <2>1 DEF OpenQueued, OpenRecord, WaitReturns, WaitReadFails, TimeoutExpires
  <2>2. CASE KillTimedOut
    BY <1>8, <2>2 DEF KillTimedOut
  <2>3. CASE WriteRecord("write_running", "wait") \/ WriteRecord("write_final", "done")
    BY <1>5, <2>3 DEF SubmitStates
  <2> QED
    BY <1>4, <1>6, <1>11, <2>1, <2>2, <2>3 DEF Submitting
<1>12. ASSUME NEW c \in Cancellers, Cancelling(c) \/ CancelCrash(c)
       PROVE  [Contract!Next]_<<last, JobOf>>
  <2>1. CASE CancelRead(c) \/ CancelOpen(c) \/ CancelCrash(c)
    BY <1>1, <2>1 DEF CancelRead, CancelOpen, CancelCrash
  <2>2. CASE CancelKill(c)
    BY <1>8, <2>2 DEF CancelKill
  <2> QED
    BY <1>10, <1>12, <2>1, <2>2 DEF Cancelling
<1>13. CASE Crash
  BY <1>1, <1>13 DEF Crash
<1>14. CASE UNCHANGED vars
  BY <1>1, <1>14 DEF vars
<1> QED
  BY <1>7, <1>9, <1>11, <1>12, <1>13, <1>14 DEF Next

\* The local provider implements the contract that ManagedRuns relies on: what
\* provider.status reports moves as ProviderRecord says, with any number of
\* cancels and deaths.
THEOREM LocalConforms == Spec => Conforms
<1>1. Init => Contract!Init
  BY DEF Init, Contract!Init, JobOf
<1> QED
  BY <1>1, ContractStep, RecordInvariant, PTL DEF Spec, Conforms, Contract!Spec

-----------------------------------------------------------------------------
(* No process outlives its record.                                         *)

\* Once the process id is on record the process was started, and it is started
\* only once: a canceller that has sent its signal has left no process alive.
ReleaseInv ==
  /\ Readable /\ file.pid => Launched
  /\ Readable /\ file.status \in TERMINAL_STATES => Exited
  /\ pc \in {"open_running", "write_running", "wait", "kill"} =>
       Launched /\ mem.status \notin TERMINAL_STATES
  /\ pc \in {"open_final", "write_final", "done"} => Exited
  /\ pc \in {"write_queued", "launch"} => ~mem.pid /\ mem.status = "queued"
  /\ \A c \in Cancellers : cpc[c] = "kill" => Launched
  /\ \A c \in Cancellers : cpc[c] \in {"open", "write"} => Exited

\* A process that was started stays started, and one that has exited exited.
LEMMA ProcessMoves ==
  ASSUME RecordInv, [Next]_vars
  PROVE  (Launched => Launched') /\ (Exited => Exited')
BY DEF RecordInv, LaunchedOnce, TypeOK, Next, vars, Submitting, Cancelling, OpenQueued, WriteRecord, Launch,
       OpenRecord, WaitReturns, WaitReadFails, TimeoutExpires, KillTimedOut, LaunchFails, Crash,
       CancelRead, CancelKill, CancelOpen, CancelWrite, CancelCrash, Exit, Killed, Launched, Exited,
       submitter, cancellers

\* A cancel that came early is remembered.
LEMMA EarlyStays ==
  ASSUME RecordInv, [Next]_vars
  PROVE  early => early'
BY DEF RecordInv, TypeOK, Next, vars, Submitting, Cancelling, OpenQueued, WriteRecord, Launch,
       OpenRecord, WaitReturns, WaitReadFails, TimeoutExpires, KillTimedOut, LaunchFails, Crash,
       CancelRead, CancelKill, CancelOpen, CancelWrite, CancelCrash, Exit

\* Every step keeps ReleaseInv as long as no cancel comes early.
LEMMA ReleaseStep ==
  ASSUME RecordInv, ReleaseInv, [Next]_vars, ~early'
  PROVE  ReleaseInv'
<1>0. (Launched => Launched') /\ (Exited => Exited') /\ (Exited => Launched)
  BY ProcessMoves DEF Exited, Launched
<1> DEFINE FilePart == /\ Readable /\ file.pid => Launched
                       /\ Readable /\ file.status \in TERMINAL_STATES => Exited
           SubmitPart == /\ pc \in {"open_running", "write_running", "wait", "kill"} =>
                              Launched /\ mem.status \notin TERMINAL_STATES
                         /\ pc \in {"open_final", "write_final", "done"} => Exited
                         /\ pc \in {"write_queued", "launch"} => ~mem.pid /\ mem.status = "queued"
           CancelPart == /\ \A c \in Cancellers : cpc[c] = "kill" => Launched
                         /\ \A c \in Cancellers : cpc[c] \in {"open", "write"} => Exited
<1>1. FilePart /\ SubmitPart /\ CancelPart
  BY DEF ReleaseInv
<1>2. UNCHANGED file => FilePart'
  BY <1>0, <1>1 DEF Readable
<1>3. UNCHANGED <<pc, mem>> => SubmitPart'
  BY <1>0, <1>1
<1>4. UNCHANGED cpc => CancelPart'
  BY <1>0, <1>1
<1>5. file' = Empty => FilePart'
  BY Unread DEF Readable
<1>6. ASSUME NEW m \in Records, Write(m), m.pid => Launched, m.status \in TERMINAL_STATES => Exited
      PROVE  FilePart'
  <2>1. Readable' => file' = m
    BY <1>6, Written DEF RecordInv
  <2> QED
    BY <1>0, <1>6, <2>1
<1>7. ASSUME Submitting PROVE ReleaseInv'
  <2>1. CASE OpenQueued
    <3>1. SubmitPart'
      BY <2>1 DEF OpenQueued, Queued
    <3> QED
      BY <1>4, <1>5, <2>1, <3>1 DEF OpenQueued, Truncate, ReleaseInv, cancellers
  <2>2. ASSUME NEW from, NEW to, WriteRecord(from, to),
               <<from, to>> \in {<<"write_queued", "launch">>, <<"write_running", "wait">>,
                                 <<"write_final", "done">>}
        PROVE  ReleaseInv'
    <3>1. mem \in Records /\ pc = from /\ pc' = to /\ mem' = mem /\ Write(mem) /\ cpc' = cpc
      BY <2>2 DEF WriteRecord, RecordInv, TypeOK, cancellers
    <3>2. (mem.pid => Launched) /\ (mem.status \in TERMINAL_STATES => Exited)
      BY <1>0, <1>1, <2>2, <3>1 DEF TERMINAL_STATES
    <3>3. SubmitPart'
      BY <1>0, <1>1, <2>2, <3>1
    <3> QED
      BY <1>4, <1>6, <3>1, <3>2, <3>3 DEF ReleaseInv
  <2>3. CASE Launch
    <3>1. mem \in Records
      BY <2>3 DEF Launch, RecordInv, TypeOK
    <3>2. mem'.status = "running"
      BY <2>3, <3>1 DEF Launch, Records
    <3>3. SubmitPart'
      BY <2>3, <3>2 DEF Launch, Launched, TERMINAL_STATES
    <3> QED
      BY <1>2, <1>4, <2>3, <3>3 DEF Launch, ReleaseInv, cancellers
  <2>4. ASSUME NEW from, NEW to, OpenRecord(from, to),
               <<from, to>> \in {<<"open_running", "write_running">>, <<"open_final", "write_final">>}
        PROVE  ReleaseInv'
    <3>1. SubmitPart'
      BY <1>0, <1>1, <2>4 DEF OpenRecord
    <3> QED
      BY <1>4, <1>5, <2>4, <3>1 DEF OpenRecord, Truncate, ReleaseInv, cancellers
  <2>5. CASE WaitReturns
    <3>1. SubmitPart'
      BY <1>0, <2>5 DEF WaitReturns
    <3> QED
      BY <1>2, <1>4, <2>5, <3>1 DEF WaitReturns, ReleaseInv, cancellers
  <2>6. CASE WaitReadFails \/ TimeoutExpires
    <3>1. SubmitPart'
      BY <1>0, <1>1, <2>6 DEF WaitReadFails, TimeoutExpires
    <3> QED
      BY <1>2, <1>4, <2>6, <3>1 DEF WaitReadFails, TimeoutExpires, ReleaseInv, cancellers
  <2>7. CASE KillTimedOut
    <3>1. Exited'
      BY <1>1, <2>7 DEF KillTimedOut, Killed, Launched, Exited, RecordInv, TypeOK
    <3>2. SubmitPart'
      BY <2>7, <3>1 DEF KillTimedOut
    <3> QED
      BY <1>2, <1>4, <2>7, <3>2 DEF KillTimedOut, ReleaseInv, cancellers
  <2> QED
    BY <1>7, <2>1, <2>2, <2>3, <2>4, <2>5, <2>6, <2>7 DEF Submitting
<1>8. ASSUME LaunchFails \/ Crash \/ (\E how \in {"zero", "nonzero"} : Exit(how)) PROVE ReleaseInv'
  <2>1. SubmitPart'
    BY <1>0, <1>1, <1>8 DEF LaunchFails, Crash, Exit, submitter
  <2>2. file' = file /\ cpc' = cpc
    BY <1>8 DEF LaunchFails, Crash, Exit, cancellers
  <2> QED
    BY <1>2, <1>4, <2>1, <2>2 DEF ReleaseInv
<1>9. ASSUME NEW c \in Cancellers, Cancelling(c) \/ CancelCrash(c) PROVE ReleaseInv'
  <2>0. pc' = pc /\ mem' = mem /\ cpc \in [Cancellers -> {"idle", "kill", "open", "write"}]
    BY <1>9 DEF Cancelling, CancelRead, CancelKill, CancelOpen, CancelWrite, CancelCrash,
                submitter, RecordInv, TypeOK
  <2>1. CASE CancelRead(c)
    <3>0. file.pid
      BY <2>1 DEF CancelRead
    <3>1. CancelPart'
      BY <1>0, <1>1, <2>0, <2>1, <3>0 DEF CancelRead
    <3> QED
      BY <1>2, <1>3, <2>0, <2>1, <3>1 DEF CancelRead, ReleaseInv
  <2>2. CASE CancelKill(c)
    <3>1. Exited'
      BY <1>1, <2>2 DEF CancelKill, Killed, Launched, Exited, RecordInv, TypeOK
    <3>2. CancelPart'
      BY <1>0, <1>1, <2>0, <2>2, <3>1 DEF CancelKill
    <3> QED
      BY <1>2, <1>3, <2>0, <2>2, <3>2 DEF CancelKill, ReleaseInv
  <2>3. CASE CancelOpen(c)
    <3>1. CancelPart'
      BY <1>0, <1>1, <2>0, <2>3 DEF CancelOpen
    <3> QED
      BY <1>3, <1>5, <2>0, <2>3, <3>1 DEF CancelOpen, Truncate, ReleaseInv
  <2>4. CASE CancelWrite(c)
    <3>1. CancelPart'
      BY <1>0, <1>1, <2>0, <2>4 DEF CancelWrite
    <3>2. PICK m \in Records : m = [cmem[c] EXCEPT !.status = "cancelled"]
      <4>1. cmem[c] \in Records /\ "cancelled" \in States
        BY <2>4 DEF CancelWrite, RecordInv, TypeOK, States
      <4> QED
        BY <4>1, StatusSet
    <3>3. Write(m) /\ Exited
      BY <1>1, <2>4, <3>2 DEF CancelWrite
    <3> QED
      BY <1>0, <1>3, <1>6, <2>0, <3>1, <3>3 DEF ReleaseInv
  <2>5. CASE CancelCrash(c)
    <3>1. CancelPart'
      BY <1>0, <1>1, <2>0, <2>5 DEF CancelCrash
    <3> QED
      BY <1>2, <1>3, <2>0, <2>5, <3>1 DEF CancelCrash, ReleaseInv
  <2> QED
    BY <1>9, <2>1, <2>2, <2>3, <2>4, <2>5 DEF Cancelling
<1>10. CASE UNCHANGED vars
  BY <1>2, <1>3, <1>4, <1>10 DEF vars, submitter, cancellers, ReleaseInv
<1> QED
  BY <1>7, <1>8, <1>9, <1>10 DEF Next

\* Terminal states release resources, for any number of cancellers and deaths:
\* as long as every cancel finds the process id on record, no run is on record
\* as over while its process is alive.
THEOREM TerminalRunsAreReleased == Spec => []TerminalReleases
<1>1. Init => early \/ ReleaseInv
  BY Unread DEF Init, ReleaseInv, Readable
<1>2. (early \/ ReleaseInv) /\ RecordInv /\ RecordInv' /\ [Next]_vars => (early \/ ReleaseInv)'
  BY ReleaseStep, EarlyStays
<1>3. (early \/ ReleaseInv) => TerminalReleases
  BY DEF ReleaseInv, TerminalReleases, Over, Exited
<1> QED
  BY <1>1, <1>2, <1>3, RecordInvariant, PTL DEF Spec

-----------------------------------------------------------------------------
(* What submit leaves on record: the part of RecordSettles that needs no    *)
(* fairness.                                                                *)

\* submit has returned, or has raised once the process was started.
SubmitOver == pc = "done" \/ (pc = "raised" /\ proc # "unstarted")

\* Somebody has truncated run.json and is yet to write it.
Writing ==
  \/ pc \in {"write_queued", "write_running", "write_final"}
  \/ \E c \in Cancellers : cpc[c] = "write"

\* Once submit is over nobody puts a live status on record again: run.json says
\* that the run is over or is garbled, or a cancel is between its truncation and
\* its write.  A process that dies there is the only one to leave it empty.
RecordStaysFinal ==
  SubmitOver =>
    \/ Over
    \/ file = Garbled
    \/ file = Empty /\ (crashes > 0 \/ \E c \in Cancellers : cpc[c] = "write")

FinalInv ==
  /\ file = Absent => pc = "new"
  /\ file = Empty => Writing \/ crashes > 0
  /\ pc \in {"open_final", "write_final"} => mem.status \in TERMINAL_STATES
  /\ SubmitOver /\ Readable => file.status \in TERMINAL_STATES

\* The four texts of run.json that are told apart.
LEMMA Texts ==
  /\ Empty # Garbled /\ Empty # Absent /\ Garbled # Absent
  /\ \A m \in Records : m # Empty /\ m # Garbled /\ m # Absent
<1>1. Empty.status = "empty" /\ Garbled.status = "garbled" /\ Absent.status = "absent"
  BY DEF Empty, Garbled, Absent
<1>2. Empty # Garbled /\ Empty # Absent /\ Garbled # Absent
  BY <1>1
<1> QED
  BY <1>2, Unread

\* A write that is completed leaves run.json neither empty nor absent.
LEMMA WrittenText ==
  ASSUME NEW m \in Records, Write(m)
  PROVE  file' # Empty /\ file' # Absent /\ (Readable' => file' = m)
<1>1. file' = m \/ file' = Garbled
  BY DEF Write
<1> QED
  BY <1>1, Texts, Unread DEF Readable

LEMMA SubmittingFinal ==
  ASSUME RecordInv, FinalInv, Submitting
  PROVE  FinalInv'
<1>0. TypeOK /\ (pc # "new" => mem \in Records)
  BY DEF RecordInv, TypeOK
<1>1. CASE OpenQueued
  BY <1>1, Texts, Unread DEF OpenQueued, Truncate, FinalInv, SubmitOver, Writing, Readable
<1>2. ASSUME NEW from, NEW to, WriteRecord(from, to),
             <<from, to>> \in {<<"write_queued", "launch">>, <<"write_running", "wait">>,
                               <<"write_final", "done">>}
      PROVE  FinalInv'
  <2>1. pc \in {"write_queued", "write_running", "write_final"} /\ mem \in Records
    BY <1>0, <1>2 DEF WriteRecord
  <2>2. file' # Empty /\ file' # Absent /\ (Readable' => file' = mem)
    BY <1>2, <2>1, WrittenText DEF WriteRecord
  <2>3. pc' \in {"launch", "wait"} \/ (pc = "write_final" /\ pc' = "done" /\ mem' = mem)
    BY <1>2 DEF WriteRecord
  <2> QED
    BY <2>2, <2>3 DEF FinalInv, SubmitOver
<1>3. CASE Launch
  BY <1>3 DEF Launch, FinalInv, SubmitOver, Writing, cancellers
<1>4. ASSUME NEW from, NEW to, OpenRecord(from, to),
             <<from, to>> \in {<<"open_running", "write_running">>,
                               <<"open_final", "write_final">>}
      PROVE  FinalInv'
  <2>1. file' = Empty /\ mem' = mem
        /\ (pc' = "write_running" \/ (pc = "open_final" /\ pc' = "write_final"))
    BY <1>4 DEF OpenRecord, Truncate
  <2> QED
    BY <2>1, Texts DEF FinalInv, SubmitOver, Writing
<1>5. CASE WaitReturns
  <2>1. mem'.status \in TERMINAL_STATES
    BY <1>0, <1>5 DEF WaitReturns, StatusAfterExit, TERMINAL_STATES, Records
  <2> QED
    BY <1>5, <2>1 DEF WaitReturns, FinalInv, SubmitOver, Writing, cancellers
<1>6. CASE WaitReadFails
  BY <1>6 DEF WaitReadFails, FinalInv, SubmitOver, Writing, cancellers, Readable
<1>7. CASE TimeoutExpires
  BY <1>7 DEF TimeoutExpires, FinalInv, SubmitOver, Writing, cancellers
<1>8. CASE KillTimedOut
  <2>1. mem'.status \in TERMINAL_STATES
    BY <1>0, <1>8 DEF KillTimedOut, TERMINAL_STATES, Records
  <2> QED
    BY <1>8, <2>1 DEF KillTimedOut, FinalInv, SubmitOver, Writing, cancellers
<1> QED
  BY <1>1, <1>2, <1>3, <1>4, <1>5, <1>6, <1>7, <1>8 DEF Submitting

LEMMA CancellingFinal ==
  ASSUME RecordInv, FinalInv, NEW c \in Cancellers, Cancelling(c)
  PROVE  FinalInv'
<1>0. cpc \in [Cancellers -> {"idle", "kill", "open", "write"}]
      /\ (cpc[c] # "idle" => cmem[c] \in Records)
  BY DEF RecordInv, TypeOK
<1>1. CASE CancelRead(c)
  <2>1. \A d \in Cancellers : cpc[d] = "write" => cpc'[d] = "write"
    BY <1>0, <1>1 DEF CancelRead
  <2> QED
    BY <1>1, <2>1 DEF CancelRead, FinalInv, SubmitOver, Writing, submitter, Readable
<1>2. CASE CancelKill(c)
  <2>1. \A d \in Cancellers : cpc[d] = "write" => cpc'[d] = "write"
    BY <1>0, <1>2 DEF CancelKill
  <2>2. SubmitOver' => SubmitOver
    BY <1>2 DEF CancelKill, Killed, SubmitOver, submitter
  <2> QED
    BY <1>2, <2>1, <2>2 DEF CancelKill, FinalInv, Writing, submitter, Readable
<1>3. CASE CancelOpen(c)
  <2>1. file' = Empty /\ cpc'[c] = "write"
    BY <1>0, <1>3 DEF CancelOpen, Truncate
  <2> QED
    BY <1>3, <2>1, Texts, Unread DEF CancelOpen, FinalInv, Writing, submitter, Readable
<1>4. CASE CancelWrite(c)
  <2> DEFINE m == [cmem[c] EXCEPT !.status = "cancelled"]
  <2>1. m \in Records /\ m.status \in TERMINAL_STATES
    BY <1>0, <1>4 DEF CancelWrite, Records, States, TERMINAL_STATES
  <2>2. file' # Empty /\ file' # Absent /\ (Readable' => file' = m)
    BY <1>4, <2>1, WrittenText DEF CancelWrite
  <2> QED
    BY <1>4, <2>1, <2>2 DEF CancelWrite, FinalInv, submitter
<1> QED
  BY <1>1, <1>2, <1>3, <1>4 DEF Cancelling

LEMMA NextFinal == RecordInv /\ FinalInv /\ [Next]_vars => FinalInv'
<1> SUFFICES ASSUME RecordInv, FinalInv, [Next]_vars PROVE FinalInv'
  OBVIOUS
<1>0. crashes \in Nat
  BY DEF RecordInv, TypeOK
<1>1. CASE Submitting
  BY <1>1, SubmittingFinal
<1>2. CASE LaunchFails
  BY <1>2 DEF LaunchFails, FinalInv, SubmitOver, Writing, cancellers
<1>3. CASE Crash
  BY <1>0, <1>3 DEF Crash, FinalInv, SubmitOver
<1>4. ASSUME NEW c \in Cancellers, Cancelling(c) PROVE FinalInv'
  BY <1>4, CancellingFinal
<1>5. ASSUME NEW c \in Cancellers, CancelCrash(c) PROVE FinalInv'
  BY <1>0, <1>5 DEF CancelCrash, FinalInv, SubmitOver, submitter, Readable
<1>6. ASSUME NEW how \in {"zero", "nonzero"}, Exit(how) PROVE FinalInv'
  BY <1>6 DEF Exit, FinalInv, SubmitOver, Writing, submitter, cancellers, Readable
<1>7. CASE UNCHANGED vars
  BY <1>7 DEF vars, FinalInv, SubmitOver, Writing, submitter, cancellers, Readable
<1> QED
  BY <1>1, <1>2, <1>3, <1>4, <1>5, <1>6, <1>7 DEF Next

\* However many cancels overlap with the end of submit, none of them undoes it:
\* what submit and cancel leave in run.json is a run that is over, or text that
\* no JSON parser takes (_write_record, called by submit and by cancel).
THEOREM FinalRecordsStay == Spec => []RecordStaysFinal
<1>1. Init => FinalInv
  BY Texts, Unread DEF Init, FinalInv, SubmitOver, Readable
<1>2. RecordInv /\ FinalInv => RecordStaysFinal
  <2> SUFFICES ASSUME RecordInv, FinalInv, SubmitOver
               PROVE  \/ Over
                      \/ file = Garbled
                      \/ file = Empty /\ (crashes > 0 \/ \E c \in Cancellers : cpc[c] = "write")
    BY DEF RecordStaysFinal
  <2>1. file \in Records \/ file \in {Absent, Empty, Garbled}
    BY DEF RecordInv, TypeOK, Unreadable, Absent, Empty, Garbled
  <2>2. CASE file \in Records
    BY <2>2 DEF Over, Readable, FinalInv
  <2>3. CASE file = Absent
    BY <2>3 DEF FinalInv, SubmitOver
  <2>4. CASE file = Empty
    BY <2>4 DEF FinalInv, SubmitOver, Writing
  <2> QED
    BY <2>1, <2>2, <2>3, <2>4
<1> QED
  BY <1>1, <1>2, NextFinal, RecordInvariant, PTL DEF Spec
=============================================================================
