------------------------ MODULE ScheduledTask_proofs -------------------------
(***************************************************************************)
(* Proofs about a scheduled task, for any rules, any number of job objects  *)
(* and background fires, any cap, grace and tolerance, and any settings of  *)
(* the clock.                                                               *)
(***************************************************************************)
EXTENDS ScheduledTask, TLAPS

USE ScheduledTaskAssumption

-----------------------------------------------------------------------------
(* The jobs.                                                               *)

LEMMA BlankRecord == Blank \in JobRecords /\ ~Blank.timer /\ Blank.rule \in Rules
<1>1. (CHOOSE r \in Rules : TRUE) \in Rules
  OBVIOUS
<1> QED
  BY <1>1 DEF Blank, JobRecords, Never

\* A job that was just armed: its occurrence is later than now, and its timer
\* runs down when the occurrence is due unless it is capped.
LEMMA ArmedJob ==
  ASSUME wall \in Nat, NEW r \in Rules, NEW o \in Occurrences[r] \cup {Never}, IsNext(r, o)
  PROVE  /\ Armed(r, o) \in JobRecords
         /\ Armed(r, o).rule = r
         /\ Armed(r, o).timer \/ Armed(r, o).next = Never
         /\ Armed(r, o).timer => Armed(r, o).next > wall
         /\ Armed(r, o).timer /\ ~Armed(r, o).capped =>
               Armed(r, o).next = wall + Armed(r, o).left
<1>1. o \in Nat /\ (o # Never => o > wall)
  BY DEF IsNext, Never
<1>2. o # Never => o - wall \in Nat
  BY <1>1
<1> DEFINE left == IF o = Never THEN 0 ELSE IF o > wall + Cap THEN Cap ELSE o - wall
<1>3. left \in Nat
  BY <1>2
<1>4. (o > wall + Cap) \in BOOLEAN /\ (o # Never) \in BOOLEAN
  OBVIOUS
<1>5. Armed(r, o) = [rule |-> r, next |-> o, capped |-> o > wall + Cap,
                     timer |-> o # Never, left |-> left]
  BY DEF Armed
<1> HIDE DEF left
<1>6. Armed(r, o) \in JobRecords
  BY <1>1, <1>3, <1>4, <1>5 DEF JobRecords
<1>7. /\ Armed(r, o).rule = r /\ Armed(r, o).next = o
      /\ Armed(r, o).timer = (o # Never) /\ Armed(r, o).left = left
      /\ Armed(r, o).capped = (o > wall + Cap)
  BY <1>5
<1>8. o # Never /\ ~(o > wall + Cap) => o = wall + left
  BY <1>1 DEF left
<1> QED
  BY <1>1, <1>6, <1>7, <1>8

\* remove takes the entry and its timer away and changes nothing else that a
\* tick reads.
LEMMA CancelledJobs ==
  ASSUME job \in [Jobs -> JobRecords]
  PROVE  /\ Cancelled \in [Jobs -> JobRecords]
         /\ \A j \in Jobs :
              /\ Cancelled[j].timer => j # registered /\ Cancelled[j] = job[j]
              /\ tick[j] # "none" =>
                    Cancelled[j].next = job[j].next /\ Cancelled[j].capped = job[j].capped
<1>1. \A j \in Jobs : Cancelled[j] \in JobRecords
  BY BlankRecord DEF Cancelled, JobRecords
<1>2. Cancelled \in [Jobs -> JobRecords]
  BY <1>1 DEF Cancelled
<1>3. ASSUME NEW j \in Jobs
      PROVE  /\ Cancelled[j].timer => j # registered /\ Cancelled[j] = job[j]
             /\ tick[j] # "none" =>
                   Cancelled[j].next = job[j].next /\ Cancelled[j].capped = job[j].capped
  BY BlankRecord DEF Cancelled, JobRecords
<1> QED
  BY <1>2, <1>3

\* What an armed job looks like.
Fresh(j, r) ==
  /\ job'[j].rule = r
  /\ job'[j].timer \/ job'[j].next = Never
  /\ job'[j].timer => job'[j].next > wall
  /\ job'[j].timer /\ ~job'[j].capped => job'[j].next = wall + job'[j].left

\* _register: a new job, armed, that no tick holds; no other has a timer that
\* had none.
LEMMA RegisteredJob ==
  ASSUME TypeOK, NEW r \in Rules, Register(r)
  PROVE  /\ job' \in [Jobs -> JobRecords]
         /\ \E j \in Jobs :
              /\ registered' = j /\ tick[j] = "none" /\ Fresh(j, r)
              /\ \A k \in Jobs \ {j} :
                   /\ job'[k].timer => k # registered /\ job'[k] = job[k]
                   /\ tick[k] # "none" =>
                         job'[k].next = job[k].next /\ job'[k].capped = job[k].capped
<1>1. PICK j \in Jobs, o \in Occurrences[r] \cup {Never} :
         /\ tick[j] = "none" /\ IsNext(r, o)
         /\ registered' = j
         /\ job' = [Cancelled EXCEPT ![j] = Armed(r, o)]
  BY DEF Register, Unreferenced
<1>2. wall \in Nat /\ job \in [Jobs -> JobRecords]
  BY DEF TypeOK
<1>3. Cancelled \in [Jobs -> JobRecords] /\ Armed(r, o) \in JobRecords
  BY <1>1, <1>2, CancelledJobs, ArmedJob
<1>4. job' \in [Jobs -> JobRecords] /\ job'[j] = Armed(r, o)
      /\ \A k \in Jobs \ {j} : job'[k] = Cancelled[k]
  BY <1>1, <1>3
<1>5. Fresh(j, r)
  BY <1>1, <1>2, <1>4, ArmedJob DEF Fresh
<1> QED
  BY <1>1, <1>2, <1>4, <1>5, CancelledJobs

\* The end of a tick: the job is armed again, or is gone.
LEMMA RearmedJob ==
  ASSUME TypeOK, NEW j \in Jobs, Rearm(j)
  PROVE  /\ job' \in [Jobs -> JobRecords] /\ registered' = registered
         /\ \A k \in Jobs \ {j} : job'[k] = job[k]
         /\ registered = j => Fresh(j, job[j].rule)
         /\ registered # j => ~job'[j].timer
<1>1. wall \in Nat /\ job \in [Jobs -> JobRecords] /\ job[j].rule \in Rules
  BY DEF TypeOK, JobRecords
<1>2. CASE registered = j
  <2>1. PICK o \in Occurrences[job[j].rule] \cup {Never} :
           IsNext(job[j].rule, o) /\ job' = [job EXCEPT ![j] = Armed(job[j].rule, o)]
    BY <1>2 DEF Rearm
  <2>2. Armed(job[j].rule, o) \in JobRecords
    BY <1>1, <2>1, ArmedJob
  <2>3. Fresh(j, job[j].rule)
    BY <1>1, <2>1, ArmedJob DEF Fresh
  <2> QED
    BY <1>1, <1>2, <2>1, <2>2, <2>3 DEF Rearm
<1>3. CASE registered # j
  BY <1>1, <1>3, BlankRecord DEF Rearm
<1> QED
  BY <1>2, <1>3

-----------------------------------------------------------------------------
(* Types.                                                                  *)

JobType == registered \in Jobs \cup {NoJob} /\ job \in [Jobs -> JobRecords]

LEMMA RemoveJobType == ASSUME TypeOK, Remove PROVE JobType'
  BY CancelledJobs DEF TypeOK, JobType, Remove

LEMMA RegisterJobType == ASSUME TypeOK, NEW r \in Rules, Register(r) PROVE JobType'
  BY RegisteredJob DEF JobType

LEMMA RearmJobType == ASSUME TypeOK, NEW j \in Jobs, Rearm(j) PROVE JobType'
  BY RearmedJob DEF TypeOK, JobType

LEMMA InitTypeOK == Init => TypeOK
<1> SUFFICES ASSUME Init PROVE TypeOK
  OBVIOUS
<1>1. row \in [state : {"none", "active", "paused", "deleted"}, rule : Rules]
  BY BlankRecord DEF Init
<1>2. JobType
  BY BlankRecord DEF Init, JobType
<1>3. fire \in [Fires -> FireRecords]
  BY DEF Init, FreeFire, FireRecords
<1> QED
  BY <1>1, <1>2, <1>3 DEF Init, TypeOK, JobType

\* The server and the requests.
LEMMA ServerTypeOK ==
  ASSUME TypeOK, Start \/ StartFails \/ Stop \/ Exit \/ Requests
  PROVE  TypeOK'
<1> USE DEF server, clock, jobs, history
<1>0. row.rule \in Rules
  BY DEF TypeOK
<1>1. CASE Start
  <2>1. JobType'
    BY <1>0, <1>1, RegisterJobType DEF Start, TypeOK, JobType
  <2> QED
    BY <1>1, <2>1 DEF Start, TypeOK, JobType
<1>2. CASE StartFails
  BY <1>2 DEF StartFails, TypeOK
<1>3. CASE Stop
  BY <1>3, RemoveJobType DEF Stop, TypeOK, JobType
<1>4. CASE Exit
  BY <1>4, RemoveJobType DEF Exit, TypeOK, JobType, FreeFire, FireRecords
<1>5. ASSUME NEW r \in Rules, Create(r) PROVE TypeOK'
  BY <1>5, RegisterJobType DEF Create, TypeOK, JobType
<1>6. ASSUME NEW s \in {"active", "paused"}, NEW r \in Rules, Patch(s, r) PROVE TypeOK'
  <2>1. JobType'
    BY <1>6, RegisterJobType, RemoveJobType DEF Patch
  <2> QED
    BY <1>6, <2>1 DEF Patch, TypeOK, JobType
<1>7. CASE Delete
  BY <1>7, RemoveJobType DEF Delete, TypeOK, JobType
<1> QED
  BY <1>1, <1>2, <1>3, <1>4, <1>5, <1>6, <1>7 DEF Requests

LEMMA AdvanceTypeOK == ASSUME TypeOK, Advance PROVE TypeOK'
<1>1. \A j \in Jobs : job'[j] \in JobRecords
  BY DEF Advance, TypeOK, JobRecords
<1> QED
  BY <1>1 DEF Advance, TypeOK, server, history

\* The ticks.
LEMMA TicksTypeOK == ASSUME TypeOK, NEW j \in Jobs,
                            Wake(j) \/ SkipTick(j) \/ FireTick(j) \/ ReadRow(j) \/ Resume(j)
                     PROVE  TypeOK'
<1> USE DEF server, clock, jobs, history
<1>1. CASE Wake(j)
  <2>0. job[j] \in JobRecords
    BY DEF TypeOK
  <2>1. [job[j] EXCEPT !.timer = FALSE] \in JobRecords
    BY <2>0 DEF JobRecords
  <2>2. job' = [job EXCEPT ![j] = [job[j] EXCEPT !.timer = FALSE]]
    BY <1>1 DEF Wake
  <2>3. job' \in [Jobs -> JobRecords]
    BY <2>1, <2>2 DEF TypeOK
  <2> QED
    BY <1>1, <2>3 DEF Wake, TypeOK
<1>2. CASE SkipTick(j)
  BY <1>2, RearmJobType DEF SkipTick, TypeOK, JobType
<1>3. CASE FireTick(j)
  <2>1. job[j].next \in Nat /\ job[j].capped \in BOOLEAN
    BY DEF TypeOK, JobRecords
  <2>2. rushed' \in BOOLEAN /\ again' \in BOOLEAN /\ fired' \in Nat
    BY <1>3, <2>1 DEF FireTick, TypeOK
  <2> QED
    BY <1>3, <2>2 DEF FireTick, TypeOK
<1>4. CASE ReadRow(j)
  BY <1>4 DEF ReadRow, TypeOK
<1>5. CASE Resume(j)
  <2>0. \A f \in Fires : [fire[f] EXCEPT !.pc = "start"] \in FireRecords
    BY DEF TypeOK, FireRecords
  <2>1. fire' \in [Fires -> FireRecords] /\ inFlight' \in BOOLEAN
    BY <1>5, <2>0 DEF Resume, TypeOK
  <2> QED
    BY <1>5, <2>1, RearmJobType DEF Resume, TypeOK, JobType
<1> QED
  BY <1>1, <1>2, <1>3, <1>4, <1>5

\* The steps of a background fire leave the rest of the state alone but for two
\* counters and the key.
LEMMA FireTypeOK ==
  ASSUME TypeOK, NEW f \in Fires, FireStep(f)
  PROVE  TypeOK' /\ UNCHANGED <<row, server, clock, jobs, tick, rushed, fired, again>>
<1> USE DEF server, clock, jobs, history
<1>1. fire' \in [Fires -> FireRecords]
  BY DEF TypeOK, FireRecords, FreeFire, FireStep, RunFire, Validate, CreateSession,
         CreateFails, Override, OverrideFails, Grant, Dispatch, Record, RecordFails,
         Discard, Step
<1>2. inFlight' = inFlight \/ inFlight' = FALSE
  BY DEF FireStep, RunFire, Validate, CreateSession,
         CreateFails, Override, OverrideFails, Grant, Dispatch, Record, RecordFails,
         Discard, Step
<1>4. late' \in {late, late + 1} /\ orphans' \in {orphans, orphans + 1}
  BY DEF FireStep, RunFire, Validate, CreateSession,
         CreateFails, Override, OverrideFails, Grant, Dispatch, Record, RecordFails,
         Discard, Step
<1>3. UNCHANGED <<row, server, clock, jobs, tick, rushed, fired, again>>
  BY DEF FireStep, RunFire, Validate, CreateSession,
         CreateFails, Override, OverrideFails, Grant, Dispatch, Record, RecordFails,
         Discard, Step
<1>5. inFlight' \in BOOLEAN
  BY <1>2 DEF TypeOK
<1> HIDE DEF history
<1> QED
  BY <1>1, <1>3, <1>4, <1>5 DEF TypeOK

\* Every step keeps the type.
LEMMA NextTypeOK == TypeOK /\ [Next]_vars => TypeOK'
<1> SUFFICES ASSUME TypeOK, [Next]_vars PROVE TypeOK'
  OBVIOUS
<1>1. CASE Start \/ StartFails \/ Stop \/ Exit \/ Requests
  BY <1>1, ServerTypeOK
<1>2. CASE Advance
  BY <1>2, AdvanceTypeOK
<1>3. ASSUME NEW w \in 0..MaxTime, SetClock(w) PROVE TypeOK'
  BY <1>3 DEF SetClock, TypeOK, server, jobs
<1>4. CASE Ticks
  BY <1>4, TicksTypeOK DEF Ticks
<1>5. ASSUME NEW f \in Fires, FireStep(f) PROVE TypeOK'
  BY <1>5, FireTypeOK
<1>6. CASE UNCHANGED vars
  BY <1>6 DEF vars, TypeOK, server, clock, jobs, history
<1> QED
  BY <1>1, <1>2, <1>3, <1>4, <1>5, <1>6 DEF Next

\* The state of the row, the scheduler and the fires keeps its type: a timer
\* never counts below zero.
THEOREM TypeCorrect == Spec => []TypeOK
  BY InitTypeOK, NextTypeOK, PTL DEF Spec

-----------------------------------------------------------------------------
(* The schedule follows the row.                                           *)

\* A server that is down has no job and no tick.
DownInv ==
  up = "down" => /\ ~started /\ registered = NoJob
                 /\ \A j \in Jobs : tick[j] = "none"

\* Nothing was scheduled before the task was created.
NoneInv ==
  row.state = "none" => \A j \in Jobs : tick[j] = "none"

ScheduleInv == ScheduleFollowsRow /\ DownInv /\ NoneInv

LEMMA InitScheduleInv == Init => ScheduleInv
  BY BlankRecord DEF Init, ScheduleInv, ScheduleFollowsRow, DownInv, NoneInv

\* A job was registered for a row that is active now.
LEMMA RegisterFollows ==
  ASSUME TypeOK, ScheduleInv, NEW r \in Rules, Register(r), UNCHANGED tick,
         row'.state = "active", row'.rule = r, up' # "down"
  PROVE  ScheduleInv'
<1>1. PICK j \in Jobs :
         /\ registered' = j /\ tick[j] = "none" /\ Fresh(j, r)
         /\ \A k \in Jobs \ {j} : job'[k].timer => k # registered /\ job'[k] = job[k]
  BY RegisteredJob
<1>2. \A k \in Jobs : job'[k].timer => k = j
  BY <1>1 DEF ScheduleInv, ScheduleFollowsRow
<1>3. Scheduled(j)'
  BY <1>1 DEF Scheduled, Fresh
<1> QED
  BY <1>1, <1>2, <1>3 DEF ScheduleInv, ScheduleFollowsRow, DownInv, NoneInv

\* The job was removed for a row that is not active now, or by a server that
\* has stopped.
LEMMA RemoveFollows ==
  ASSUME TypeOK, ScheduleInv, Remove,
         ~started' \/ row'.state # "active",
         up' = "down" => ~started' /\ \A j \in Jobs : tick'[j] = "none",
         row'.state = "none" => \A j \in Jobs : tick'[j] = "none"
  PROVE  ScheduleInv'
<1>1. registered' = NoJob /\ \A j \in Jobs : ~job'[j].timer
  BY CancelledJobs DEF Remove, ScheduleInv, ScheduleFollowsRow, TypeOK
<1> QED
  BY <1>1 DEF ScheduleInv, ScheduleFollowsRow, DownInv, NoneInv

LEMMA ServerFollows ==
  ASSUME TypeOK, ScheduleInv, Start \/ StartFails \/ Stop \/ Exit \/ Requests
  PROVE  ScheduleInv'
<1> USE DEF server, jobs
<1>0. row.rule \in Rules /\ row \in [state : {"none", "active", "paused", "deleted"}, rule : Rules]
  BY DEF TypeOK
<1>1. CASE Start
  <2>1. CASE row.state = "active"
    BY <1>0, <1>1, <2>1, RegisterFollows DEF Start
  <2>2. CASE row.state # "active"
    BY <1>1, <2>2 DEF Start, ScheduleInv, ScheduleFollowsRow, DownInv, NoneInv, Scheduled
  <2> QED
    BY <2>1, <2>2
<1>2. CASE StartFails
  BY <1>2 DEF StartFails, ScheduleInv, ScheduleFollowsRow, DownInv, NoneInv, Scheduled
<1>3. CASE Stop
  BY <1>3, RemoveFollows DEF Stop, ScheduleInv, NoneInv
<1>4. CASE Exit
  BY <1>4, RemoveFollows DEF Exit
<1>5. ASSUME NEW r \in Rules, Create(r) PROVE ScheduleInv'
  BY <1>5, RegisterFollows DEF Create
<1>6. ASSUME NEW s \in {"active", "paused"}, NEW r \in Rules, Patch(s, r)
      PROVE  ScheduleInv'
  <2>1. CASE s = "active"
    BY <1>6, <2>1, RegisterFollows DEF Patch
  <2>2. CASE s = "paused"
    BY <1>6, <2>2, RemoveFollows DEF Patch
  <2> QED
    BY <2>1, <2>2
<1>7. CASE Delete
  BY <1>0, <1>7, RemoveFollows DEF Delete
<1> QED
  BY <1>1, <1>2, <1>3, <1>4, <1>5, <1>6, <1>7 DEF Requests

\* The end of a tick.
LEMMA RearmFollows ==
  ASSUME TypeOK, ScheduleInv, NEW j \in Jobs, Rearm(j), tick[j] # "none",
         tick' = [tick EXCEPT ![j] = "none"], UNCHANGED <<row, server>>
  PROVE  ScheduleInv'
<1> USE DEF server
<1>1. registered = j => Fresh(j, job[j].rule)
  BY RearmedJob
<1>2. registered # j => ~job'[j].timer
  BY RearmedJob
<1>3. registered' = registered /\ \A k \in Jobs \ {j} : job'[k] = job[k]
  BY RearmedJob
<1>4. tick'[j] = "none" /\ \A k \in Jobs \ {j} : tick'[k] = tick[k]
  BY DEF TypeOK
<1>5. registered # NoJob => Scheduled(registered)'
  <2>1. CASE registered = j
    BY <1>1, <1>3, <1>4, <2>1 DEF Scheduled, Fresh, ScheduleInv, ScheduleFollowsRow
  <2>2. CASE registered # j /\ registered # NoJob
    BY <1>3, <1>4, <2>2 DEF Scheduled, ScheduleInv, ScheduleFollowsRow, TypeOK
  <2> QED
    BY <2>1, <2>2
<1>6. \A k \in Jobs : job'[k].timer => k = registered
  BY <1>2, <1>3 DEF ScheduleInv, ScheduleFollowsRow
<1> QED
  BY <1>3, <1>4, <1>5, <1>6 DEF ScheduleInv, ScheduleFollowsRow, DownInv, NoneInv

LEMMA TicksFollow ==
  ASSUME TypeOK, ScheduleInv, NEW j \in Jobs,
         Wake(j) \/ SkipTick(j) \/ FireTick(j) \/ ReadRow(j) \/ Resume(j)
  PROVE  ScheduleInv'
<1> USE DEF server, jobs
<1>1. CASE Wake(j)
  <2>1. /\ job'[j].timer = FALSE /\ job'[j].rule = job[j].rule /\ tick'[j] = "ready"
        /\ \A k \in Jobs \ {j} : job'[k] = job[k] /\ tick'[k] = tick[k]
    BY <1>1 DEF Wake, TypeOK, JobRecords
  <2>2. registered = j
    BY <1>1 DEF Wake, ScheduleInv, ScheduleFollowsRow
  <2>3. NoJob # j
    OBVIOUS
  <2> QED
    BY <1>1, <2>1, <2>2, <2>3
       DEF Wake, Running, ScheduleInv, ScheduleFollowsRow, Scheduled, DownInv, NoneInv
<1>2. CASE SkipTick(j)
  BY <1>2, RearmFollows DEF SkipTick
<1>3. ASSUME tick[j] # "none", tick'[j] # "none",
             \A k \in Jobs \ {j} : tick'[k] = tick[k], UNCHANGED <<row, server, jobs>>
      PROVE  ScheduleInv'
  <2>1. registered \in Jobs \cup {NoJob}
    BY DEF TypeOK
  <2>2. registered # NoJob => Scheduled(registered)'
    BY <1>3, <2>1 DEF ScheduleInv, ScheduleFollowsRow, Scheduled
  <2>3. DownInv' /\ NoneInv'
    BY <1>3 DEF ScheduleInv, DownInv, NoneInv
  <2> QED
    BY <1>3, <2>2, <2>3 DEF ScheduleInv, ScheduleFollowsRow
<1>4. CASE FireTick(j)
  BY <1>3, <1>4 DEF FireTick, TypeOK
<1>5. CASE ReadRow(j)
  BY <1>3, <1>5 DEF ReadRow, TypeOK
<1>6. CASE Resume(j)
  BY <1>6, RearmFollows DEF Resume
<1> QED
  BY <1>1, <1>2, <1>4, <1>5, <1>6

\* Every step keeps the schedule in line with the row.
LEMMA NextScheduleInv == TypeOK /\ ScheduleInv /\ [Next]_vars => ScheduleInv'
<1> SUFFICES ASSUME TypeOK, ScheduleInv, [Next]_vars PROVE ScheduleInv'
  OBVIOUS
<1>1. CASE Start \/ StartFails \/ Stop \/ Exit \/ Requests
  BY <1>1, ServerFollows
<1>2. CASE Advance
  <2>1. \A j \in Jobs : /\ job'[j].timer = job[j].timer /\ job'[j].rule = job[j].rule
                        /\ job'[j].next = job[j].next
    BY <1>2 DEF Advance, TypeOK, JobRecords
  <2> QED
    BY <1>2, <2>1 DEF Advance, server, TypeOK, ScheduleInv, ScheduleFollowsRow, Scheduled,
                      DownInv, NoneInv
<1>3. CASE UNCHANGED <<row, server, jobs, tick>>
  BY <1>3 DEF server, jobs, ScheduleInv, ScheduleFollowsRow, Scheduled, DownInv, NoneInv
<1>4. ASSUME NEW w \in 0..MaxTime, SetClock(w) PROVE ScheduleInv'
  BY <1>3, <1>4 DEF SetClock
<1>5. CASE Ticks
  BY <1>5, TicksFollow DEF Ticks
<1>6. ASSUME NEW f \in Fires, FireStep(f) PROVE ScheduleInv'
  BY <1>3, <1>6, FireTypeOK
<1>7. CASE UNCHANGED vars
  BY <1>3, <1>7 DEF vars
<1> QED
  BY <1>1, <1>2, <1>4, <1>5, <1>6, <1>7 DEF Next

LEMMA ScheduleInvariant == Spec => []ScheduleInv
  BY InitScheduleInv, NextScheduleInv, TypeCorrect, PTL DEF Spec

\* The schedule in memory is the one the row asks for, whatever requests, ticks
\* of removed jobs, stops and restarts do (_register, remove, _fire_and_rearm).
THEOREM ScheduleInLine == Spec => []ScheduleFollowsRow
<1>1. ScheduleInv => ScheduleFollowsRow
  BY DEF ScheduleInv
<1> QED
  BY <1>1, ScheduleInvariant, PTL

-----------------------------------------------------------------------------
(* The background fires.                                                   *)

Before == {"free", "start", "validate", "create"}   \* no session yet
Creating == {"validate", "create"}
Recording == {"validate", "create", "override", "grant", "dispatch", "record"}

\* A fire has a session only once it was created.
SessionInv ==
  \A f \in Fires : fire[f].pc \in Before => fire[f].sess = "none"

\* A task that is not active lets no new fire through to a session: the one that
\* may still create a session has not done so yet.
LateInv ==
  /\ row.state = "active" => late = 0
  /\ late <= 1
  /\ late = 1 => \A f \in Fires : fire[f].pc \notin Creating

\* Nor does a deleted one to a run row.
OrphanInv ==
  /\ row.state # "deleted" => orphans = 0
  /\ orphans <= 1
  /\ orphans = 1 => \A f \in Fires : fire[f].pc \notin Recording

\* Before the task is created there is no fire.
NoFireInv ==
  row.state = "none" => late = 0 /\ \A f \in Fires : fire[f].pc = "free"

FireInv ==
  /\ OneFireAtATime /\ SessionInv /\ SessionsAreRecorded
  /\ LateInv /\ OrphanInv /\ NoFireInv

LEMMA InitFireInv == Init => FireInv
<1> SUFFICES ASSUME Init PROVE FireInv
  OBVIOUS
<1>1. \A f \in Fires : fire[f] = FreeFire
  BY DEF Init
<1>2. OneFireAtATime
  BY <1>1 DEF Init, OneFireAtATime, Live, FreeFire
<1>3. SessionInv /\ SessionsAreRecorded
  BY <1>1 DEF SessionInv, SessionsAreRecorded, FreeFire
<1>4. LateInv /\ OrphanInv /\ NoFireInv
  BY <1>1 DEF Init, LateInv, OrphanInv, NoFireInv, FreeFire
<1> QED
  BY <1>2, <1>3, <1>4 DEF FireInv

\* What the server and the requests do: the row changes, and no fire does.
LEMMA ServerFires ==
  ASSUME TypeOK, FireInv, Start \/ StartFails \/ Stop \/ Exit \/ Requests
  PROVE  FireInv'
<1> USE DEF server, history
<1>1. CASE Start \/ StartFails \/ Stop
  BY <1>1 DEF Start, StartFails, Stop, FireInv, OneFireAtATime, Live, SessionInv,
              SessionsAreRecorded, LateInv, OrphanInv, NoFireInv
<1>2. CASE Exit
  <2>1. \A f \in Fires : fire'[f].pc = "free" /\ fire'[f].sess = "none"
    BY <1>2 DEF Exit, FreeFire
  <2>2. OneFireAtATime'
    BY <1>2, <2>1 DEF Exit, OneFireAtATime, Live
  <2> QED
    BY <1>2, <2>1, <2>2 DEF Exit, FireInv, SessionInv, SessionsAreRecorded, LateInv,
       OrphanInv, NoFireInv, Creating, Recording
<1>3. ASSUME UNCHANGED <<fire, inFlight, orphans>>,
             row.state # "deleted", row'.state # "none",
             late' \in {0, late}, row'.state = "active" => late' = 0
      PROVE  FireInv'
  <2>1. OneFireAtATime' /\ SessionInv' /\ SessionsAreRecorded'
    BY <1>3 DEF FireInv, OneFireAtATime, Live, SessionInv, SessionsAreRecorded
  <2>2. LateInv' /\ OrphanInv' /\ NoFireInv'
    BY <1>3 DEF FireInv, LateInv, OrphanInv, NoFireInv
  <2> QED
    BY <2>1, <2>2 DEF FireInv
<1>4. ASSUME NEW r \in Rules, Create(r) PROVE FireInv'
  <2>1. row'.state = "active" /\ row.state = "none"
    BY <1>4 DEF Create
  <2>2. late = 0 /\ UNCHANGED <<fire, inFlight, orphans, late>>
    BY <1>4, <2>1 DEF Create, FireInv, NoFireInv
  <2> QED
    BY <1>3, <2>1, <2>2
<1>5. ASSUME NEW s \in {"active", "paused"}, NEW r \in Rules, Patch(s, r) PROVE FireInv'
  <2>1. row'.state = s /\ row.state \in {"active", "paused"}
    BY <1>5 DEF Patch
  <2>2. late' = (IF s = "active" THEN 0 ELSE late) /\ UNCHANGED <<fire, inFlight, orphans>>
    BY <1>5 DEF Patch
  <2> QED
    BY <1>3, <2>1, <2>2
<1>6. CASE Delete
  BY <1>3, <1>6 DEF Delete, TypeOK
<1> QED
  BY <1>1, <1>2, <1>4, <1>5, <1>6 DEF Requests

\* on_fire starts a fire only when none is in flight.
LEMMA ResumeFires ==
  ASSUME TypeOK, ScheduleInv, FireInv, NEW j \in Jobs, Resume(j)
  PROVE  FireInv'
<1> USE DEF server, history
<1>0. row.state # "none"
  BY DEF Resume, ScheduleInv, NoneInv
<1>1. CASE Spawns(j)
  <2>1. PICK f \in Fires : fire' = [fire EXCEPT ![f].pc = "start"] /\ inFlight' = TRUE
    BY <1>1 DEF Resume
  <2>2. \A g \in Fires : fire[g].pc = "free"
    BY <1>1 DEF Spawns, FireInv, OneFireAtATime, Live
  <2>3. /\ fire'[f].pc = "start" /\ fire'[f].sess = fire[f].sess
        /\ \A g \in Fires \ {f} : fire'[g] = fire[g]
    BY <2>1 DEF TypeOK, FireRecords
  <2>4. OneFireAtATime'
    BY <2>1, <2>2, <2>3 DEF OneFireAtATime, Live
  <2>5. SessionInv' /\ SessionsAreRecorded'
    BY <2>2, <2>3 DEF FireInv, SessionInv, SessionsAreRecorded, Before
  <2>6. LateInv' /\ OrphanInv' /\ NoFireInv'
    BY <1>0, <2>2, <2>3 DEF Resume, FireInv, LateInv, OrphanInv, NoFireInv, Creating, Recording
  <2> QED
    BY <2>4, <2>5, <2>6 DEF FireInv
<1>2. CASE ~Spawns(j)
  BY <1>2 DEF Resume, FireInv, OneFireAtATime, Live, SessionInv, SessionsAreRecorded,
              LateInv, OrphanInv, NoFireInv
<1> QED
  BY <1>1, <1>2

\* A fire that goes on to another step.
LEMMA FireGoesOn ==
  ASSUME TypeOK, FireInv, NEW f \in Fires, UNCHANGED <<row, inFlight>>,
         fire[f].pc # "free", fire'[f].pc # "free",
         \A g \in Fires \ {f} : fire'[g] = fire[g],
         fire'[f].pc \in Before => fire'[f].sess = "none",
         fire'[f].pc = "ended" /\ fire'[f].sess = "kept" => fire'[f].run \in {"named", "lost"},
         \/ late' = late /\ (fire'[f].pc \in Creating => fire[f].pc \in Creating \/ late = 0)
         \/ late = 0 /\ late' = 1 /\ row.state # "active" /\ fire'[f].pc \notin Creating,
         \/ orphans' = orphans
            /\ (fire'[f].pc \in Recording => fire[f].pc \in Recording \/ orphans = 0)
         \/ orphans = 0 /\ orphans' = 1 /\ row.state = "deleted" /\ fire'[f].pc \notin Recording
  PROVE  FireInv'
<1>1. \A g \in Fires \ {f} : fire[g].pc = "free"
  BY DEF FireInv, OneFireAtATime, Live
<1>2. OneFireAtATime'
  <2>1. inFlight = (\E g \in Fires : Live(g))
    BY DEF FireInv, OneFireAtATime
  <2>2. (\E g \in Fires : Live(g)) /\ (\E g \in Fires : Live(g))'
    BY DEF Live
  <2>3. \A g \in Fires : Live(g)' => g = f
    BY <1>1 DEF Live
  <2>4. inFlight' = (\E g \in Fires : Live(g))'
    BY <2>1, <2>2
  <2> QED
    BY <2>3, <2>4 DEF OneFireAtATime
<1>3. SessionInv' /\ SessionsAreRecorded'
  BY DEF FireInv, SessionInv, SessionsAreRecorded
<1>4. LateInv'
  BY <1>1 DEF FireInv, LateInv, Creating, TypeOK
<1>5. OrphanInv'
  BY <1>1 DEF FireInv, OrphanInv, Recording, TypeOK
<1>6. NoFireInv'
  BY DEF FireInv, NoFireInv
<1> QED
  BY <1>2, <1>3, <1>4, <1>5, <1>6 DEF FireInv

\* The place of a fire that takes a plain step.
LEMMA StepPlace ==
  ASSUME TypeOK, NEW f \in Fires, NEW from, NEW to, Step(f, from, to)
  PROVE  /\ fire[f].pc = from /\ fire'[f].pc = to
         /\ fire'[f].sess = fire[f].sess /\ fire'[f].run = fire[f].run
         /\ \A g \in Fires \ {f} : fire'[g] = fire[g]
         /\ UNCHANGED <<row, inFlight, late, orphans>>
  BY DEF Step, TypeOK, FireRecords, history

LEMMA FireStepFires ==
  ASSUME TypeOK, FireInv, NEW f \in Fires, FireStep(f)
  PROVE  FireInv'
<1> USE DEF Before, Creating, Recording
<1>0. /\ fire[f].pc \in Before => fire[f].sess = "none"
      /\ late = 1 => fire[f].pc \notin Creating
      /\ orphans = 1 => fire[f].pc \notin Recording
      /\ row.state = "active" => late = 0 /\ orphans = 0
      /\ row.state # "deleted" => orphans = 0
      /\ late \in {0, 1} /\ orphans \in {0, 1}
  BY DEF FireInv, SessionInv, LateInv, OrphanInv, TypeOK
<1>1. CASE RunFire(f)
  <2>1. CASE row.state = "active" /\ Step(f, "start", "validate")
    BY <1>0, <2>1, StepPlace, FireGoesOn
  <2>2. CASE Step(f, "start", "ended")
    BY <1>0, <2>2, StepPlace, FireGoesOn
  <2> QED
    BY <1>1, <2>1, <2>2 DEF RunFire
<1>2. CASE Validate(f)
  <2>1. CASE Step(f, "validate", "create")
    BY <1>0, <2>1, StepPlace, FireGoesOn
  <2>2. CASE Step(f, "validate", "record")
    BY <1>0, <2>2, StepPlace, FireGoesOn
  <2>3. CASE Step(f, "validate", "ended")
    BY <1>0, <2>3, StepPlace, FireGoesOn
  <2> QED
    BY <1>2, <2>1, <2>2, <2>3 DEF Validate
<1>3. CASE CreateSession(f)
  <2>1. PICK to \in {"override", "grant"} :
           fire' = [fire EXCEPT ![f].pc = to, ![f].sess = "kept"]
    BY <1>3 DEF CreateSession
  <2>2. fire'[f].pc = to /\ \A g \in Fires \ {f} : fire'[g] = fire[g]
    BY <2>1 DEF TypeOK, FireRecords
  <2>3. fire[f].pc = "create" /\ late = 0 /\ UNCHANGED <<row, inFlight, orphans>>
    BY <1>0, <1>3 DEF CreateSession
  <2>4. late' = IF row.state = "active" THEN late ELSE late + 1
    BY <1>3 DEF CreateSession
  <2>5. late + 1 = 1
    BY <2>3
  <2>6. late' = late \/ (late' = 1 /\ row.state # "active")
    BY <2>4, <2>5, Zenon
  <2> QED
    BY <2>2, <2>3, <2>6, FireGoesOn
<1>4. CASE CreateFails(f)
  BY <1>0, <1>4, StepPlace, FireGoesOn DEF CreateFails
<1>5. CASE Override(f)
  BY <1>0, <1>5, StepPlace, FireGoesOn DEF Override
<1>6. CASE OverrideFails(f)
  <2>1. fire'[f].pc = "record" /\ \A g \in Fires \ {f} : fire'[g] = fire[g]
    BY <1>6 DEF OverrideFails, TypeOK, FireRecords
  <2> QED
    BY <1>0, <1>6, <2>1, FireGoesOn DEF OverrideFails, history
<1>7. CASE Grant(f)
  <2>1. CASE Step(f, "grant", "dispatch")
    BY <1>0, <2>1, StepPlace, FireGoesOn
  <2>2. CASE Step(f, "grant", "record")
    BY <1>0, <2>2, StepPlace, FireGoesOn
  <2> QED
    BY <1>7, <2>1, <2>2 DEF Grant
<1>8. CASE Dispatch(f)
  BY <1>0, <1>8, StepPlace, FireGoesOn DEF Dispatch
<1>9. CASE Record(f)
  <2>1. /\ fire'[f].pc = "ended" /\ fire'[f].sess = fire[f].sess
        /\ fire'[f].run = IF fire[f].sess = "kept" THEN "named" ELSE "plain"
        /\ \A g \in Fires \ {f} : fire'[g] = fire[g]
    BY <1>9 DEF Record, TypeOK, FireRecords
  <2>2. fire[f].pc = "record" /\ orphans = 0 /\ UNCHANGED <<row, inFlight, late>>
    BY <1>0, <1>9 DEF Record
  <2>3. orphans' = IF row.state = "deleted" THEN orphans + 1 ELSE orphans
    BY <1>9 DEF Record
  <2>4. orphans + 1 = 1
    BY <2>2
  <2>5. orphans' = orphans \/ (orphans' = 1 /\ row.state = "deleted")
    BY <2>3, <2>4, Zenon
  <2> QED
    BY <2>1, <2>2, <2>5, FireGoesOn
<1>10. CASE RecordFails(f)
  <2>1. /\ fire'[f].pc = "ended" /\ fire'[f].run = "lost"
        /\ \A g \in Fires \ {f} : fire'[g] = fire[g]
    BY <1>10 DEF RecordFails, TypeOK, FireRecords
  <2> QED
    BY <1>0, <1>10, <2>1, FireGoesOn DEF RecordFails, history
<1>11. CASE Discard(f)
  <2>1. \A g \in Fires : fire'[g].pc = "free" /\ (g = f => fire'[g].sess = "none")
        /\ (g # f => fire'[g] = fire[g])
    BY <1>11 DEF Discard, FreeFire, FireInv, OneFireAtATime, Live, TypeOK
  <2>2. OneFireAtATime'
    BY <1>11, <2>1 DEF Discard, OneFireAtATime, Live
  <2> QED
    BY <1>11, <2>1, <2>2 DEF Discard, history, FireInv, SessionInv, SessionsAreRecorded,
       LateInv, OrphanInv, NoFireInv
<1> QED
  BY <1>1, <1>2, <1>3, <1>4, <1>5, <1>6, <1>7, <1>8, <1>9, <1>10, <1>11 DEF FireStep

\* Every step keeps the invariant of the fires.
LEMMA NextFireInv == TypeOK /\ ScheduleInv /\ FireInv /\ [Next]_vars => FireInv'
<1> SUFFICES ASSUME TypeOK, ScheduleInv, FireInv, [Next]_vars PROVE FireInv'
  OBVIOUS
<1>1. CASE Start \/ StartFails \/ Stop \/ Exit \/ Requests
  BY <1>1, ServerFires
<1>2. CASE UNCHANGED <<row, inFlight, fire, late, orphans>>
  BY <1>2 DEF FireInv, OneFireAtATime, Live, SessionInv, SessionsAreRecorded, LateInv,
              OrphanInv, NoFireInv
<1>3. CASE Advance
  BY <1>2, <1>3 DEF Advance, history
<1>4. ASSUME NEW w \in 0..MaxTime, SetClock(w) PROVE FireInv'
  BY <1>2, <1>4 DEF SetClock
<1>5. ASSUME NEW j \in Jobs, Wake(j) \/ SkipTick(j) \/ FireTick(j) \/ ReadRow(j)
      PROVE  FireInv'
  BY <1>2, <1>5 DEF Wake, SkipTick, FireTick, ReadRow, history
<1>6. ASSUME NEW j \in Jobs, Resume(j) PROVE FireInv'
  BY <1>6, ResumeFires
<1>7. ASSUME NEW f \in Fires, FireStep(f) PROVE FireInv'
  BY <1>7, FireStepFires
<1>8. CASE UNCHANGED vars
  BY <1>2, <1>8 DEF vars, history
<1> QED
  BY <1>1, <1>3, <1>4, <1>5, <1>6, <1>7, <1>8 DEF Next, Ticks

LEMMA FireInvariant == Spec => []FireInv
  BY InitFireInv, NextFireInv, TypeCorrect, ScheduleInvariant, PTL DEF Spec

\* Two background fires of a task are never under way at once (_IN_FLIGHT_TASKS).
THEOREM FiresExclude == Spec => []OneFireAtATime
<1>1. FireInv => OneFireAtATime
  BY DEF FireInv
<1> QED
  BY <1>1, FireInvariant, PTL

\* A paused or deleted task gets one more session, and a deleted one one more run
\* row, at most (_run_fire reads the row again).
THEOREM TaskWindsDown == Spec => []DeadTaskWindsDown
<1>1. FireInv => DeadTaskWindsDown
  BY DEF FireInv, LateInv, OrphanInv, DeadTaskWindsDown
<1> QED
  BY <1>1, FireInvariant, PTL

\* Every session a fire was able to name is on its run row, wherever the fire
\* failed, unless the row could not be written (_run_fire_for_task).
THEOREM SessionsRecorded == Spec => []SessionsAreRecorded
<1>1. FireInv => SessionsAreRecorded
  BY DEF FireInv
<1> QED
  BY <1>1, FireInvariant, PTL

-----------------------------------------------------------------------------
(* No occurrence is fired twice.                                           *)

\* Unless the clock was set back or a capped timer's tick fired, what a timer or
\* a queued tick stands for is later than what was fired last, a timer runs down
\* no earlier than its occurrence is due, and a timer armed while a tick is queued
\* stands for something later than the tick.
Ordered ==
  /\ fired <= wall
  /\ \A j \in Jobs : job[j].timer \/ tick[j] = "ready" => job[j].next > fired
  /\ \A j \in Jobs : job[j].timer /\ ~job[j].capped => job[j].next <= wall + job[j].left
  /\ \A j \in Jobs : tick[j] = "ready" /\ ~job[j].capped => job[j].next <= wall
  /\ \A j, k \in Jobs :
        job[j].timer /\ tick[k] = "ready" /\ ~job[k].capped => job[j].next > job[k].next

OnceInv ==
  /\ \A j, k \in Jobs : tick[j] = "ready" /\ tick[k] = "ready" => j = k
  /\ ~rushed => Ordered
  /\ FiredOnce

LEMMA InitOnceInv == Init => OnceInv
  BY BlankRecord DEF Init, OnceInv, Ordered, FiredOnce

\* Jobs are removed, or one of them is armed: no tick becomes ready.
LEMMA ArmOnce ==
  ASSUME TypeOK, TypeOK', ScheduleInv, OnceInv, UNCHANGED <<wall, rushed, fired, again>>,
         \A k \in Jobs : tick'[k] = "ready" => tick[k] = "ready",
         \A k \in Jobs : tick'[k] = "ready" =>
            job'[k].next = job[k].next /\ job'[k].capped = job[k].capped,
         \A k \in Jobs : job'[k].timer =>
            \/ job'[k] = job[k]
            \/ /\ job'[k].next > wall
               /\ ~job'[k].capped => job'[k].next = wall + job'[k].left
  PROVE  OnceInv'
<1>1. wall \in Nat /\ fired \in Nat /\ job \in [Jobs -> JobRecords] /\ job' \in [Jobs -> JobRecords]
  BY DEF TypeOK
<1>2. \A k \in Jobs : job[k].next \in Nat /\ job'[k].next \in Nat /\ job'[k].left \in Nat
  BY <1>1 DEF JobRecords
<1>3. ASSUME ~rushed PROVE Ordered'
  BY <1>1, <1>2, <1>3 DEF OnceInv, Ordered
<1> QED
  BY <1>3 DEF OnceInv, FiredOnce

LEMMA ServerOnce ==
  ASSUME TypeOK, TypeOK', ScheduleInv, OnceInv, Start \/ StartFails \/ Stop \/ Exit \/ Requests
  PROVE  OnceInv'
<1> USE DEF server, clock, jobs, history
<1>0. job \in [Jobs -> JobRecords] /\ row.rule \in Rules
  BY DEF TypeOK
<1>1. ASSUME Remove, UNCHANGED <<wall, rushed, fired, again>>,
             UNCHANGED tick \/ \A k \in Jobs : tick'[k] = "none"
      PROVE  OnceInv'
  BY <1>0, <1>1, CancelledJobs, ArmOnce DEF Remove
<1>2. ASSUME NEW r \in Rules, Register(r), UNCHANGED <<tick, wall, rushed, fired, again>>
      PROVE  OnceInv'
  <2>1. PICK j \in Jobs :
          /\ tick[j] = "none" /\ Fresh(j, r)
          /\ \A k \in Jobs \ {j} :
               /\ job'[k].timer => k # registered /\ job'[k] = job[k]
               /\ tick[k] # "none" =>
                     job'[k].next = job[k].next /\ job'[k].capped = job[k].capped
    BY <1>2, RegisteredJob
  <2> QED
    BY <1>2, <2>1, ArmOnce DEF Fresh
<1>3. CASE UNCHANGED <<jobs, tick, wall, rushed, fired, again>>
  BY <1>3, ArmOnce
<1>4. CASE Start
  BY <1>0, <1>2, <1>3, <1>4 DEF Start
<1>5. CASE StartFails
  BY <1>3, <1>5 DEF StartFails
<1>6. CASE Stop
  BY <1>1, <1>6 DEF Stop
<1>7. CASE Exit
  BY <1>1, <1>7 DEF Exit
<1>8. ASSUME NEW r \in Rules, Create(r) PROVE OnceInv'
  BY <1>2, <1>8 DEF Create
<1>9. ASSUME NEW s \in {"active", "paused"}, NEW r \in Rules, Patch(s, r) PROVE OnceInv'
  BY <1>1, <1>2, <1>9 DEF Patch
<1>10. CASE Delete
  BY <1>1, <1>10 DEF Delete
<1> QED
  BY <1>4, <1>5, <1>6, <1>7, <1>8, <1>9, <1>10 DEF Requests

\* Time passes or the clock is set: the timers run down no faster than the clock.
LEMMA TimeOnce ==
  ASSUME TypeOK, TypeOK', OnceInv, Advance \/ \E w \in 0..MaxTime : SetClock(w)
  PROVE  OnceInv'
<1>0. wall \in Nat /\ wall' \in Nat /\ fired \in Nat
      /\ \A j \in Jobs : job[j].next \in Nat /\ job[j].left \in Nat /\ job'[j].left \in Nat
  BY DEF TypeOK, JobRecords
<1>1. CASE Advance
  <2>1. /\ wall' = wall + 1 /\ UNCHANGED <<tick, rushed, fired, again>>
        /\ \A j \in Jobs : /\ job'[j].timer = job[j].timer /\ job'[j].next = job[j].next
                           /\ job'[j].capped = job[j].capped
                           /\ job'[j].left + 1 >= job[j].left
    BY <1>0, <1>1 DEF Advance, history, TypeOK, JobRecords
  <2>2. ~rushed => Ordered'
    BY <1>0, <2>1 DEF OnceInv, Ordered
  <2> QED
    BY <2>1, <2>2 DEF OnceInv, FiredOnce
<1>2. ASSUME NEW w \in 0..MaxTime, SetClock(w) PROVE OnceInv'
  <2>1. UNCHANGED <<tick, job, fired, again>> /\ (~rushed' => ~rushed /\ wall' >= wall)
    <3>1. wall' = w /\ UNCHANGED <<tick, job, fired, again>>
      BY <1>2 DEF SetClock, jobs
    <3>2. ~rushed' => ~rushed /\ ~(w < wall)
      BY <1>2, Zenon DEF SetClock
    <3> QED
      BY <1>0, <3>1, <3>2
  <2>2. ~rushed' => Ordered'
    BY <1>0, <2>1 DEF OnceInv, Ordered
  <2> QED
    BY <2>1, <2>2 DEF OnceInv, FiredOnce
<1> QED
  BY <1>1, <1>2

LEMMA NotBoth == \A m, n \in Nat : m > n => ~(m <= n)
  OBVIOUS

LEMMA TicksOnce ==
  ASSUME TypeOK, TypeOK', ScheduleInv, OnceInv, NEW j \in Jobs,
         Wake(j) \/ SkipTick(j) \/ FireTick(j) \/ ReadRow(j) \/ Resume(j)
  PROVE  OnceInv'
<1> USE DEF clock, jobs, history
<1>0. /\ wall \in Nat /\ fired \in Nat
      /\ \A k \in Jobs : job[k].next \in Nat
      /\ \A k \in Jobs : tick'[k] # tick[k] => k = j
  BY DEF TypeOK, JobRecords, Wake, SkipTick, FireTick, ReadRow, Resume
<1>1. CASE Wake(j)
  <2>1. /\ ~job'[j].timer /\ tick'[j] = "ready"
        /\ job'[j].next = job[j].next /\ job'[j].capped = job[j].capped
        /\ \A k \in Jobs \ {j} : job'[k] = job[k] /\ tick'[k] = tick[k]
    BY <1>1 DEF Wake, TypeOK, JobRecords
  <2>2. \A k \in Jobs \ {j} : tick[k] # "ready" /\ ~job'[k].timer
    BY <1>1, <2>1 DEF Wake, ScheduleInv, ScheduleFollowsRow
  <2>3. UNCHANGED <<wall, rushed, fired, again>> /\ job[j].timer /\ job[j].left = 0
    BY <1>1 DEF Wake
  <2>4. ~rushed => Ordered'
    BY <1>0, <2>1, <2>2, <2>3 DEF OnceInv, Ordered
  <2> QED
    BY <2>1, <2>2, <2>3, <2>4 DEF OnceInv, FiredOnce
<1>2. CASE SkipTick(j) \/ Resume(j)
  <2>1. Rearm(j) /\ tick'[j] = "none" /\ UNCHANGED <<wall, rushed, fired, again>>
    BY <1>2 DEF SkipTick, Resume, TypeOK
  <2>2. /\ \A k \in Jobs \ {j} : job'[k] = job[k]
        /\ registered = j => Fresh(j, job[j].rule)
        /\ registered # j => ~job'[j].timer
    BY <2>1, RearmedJob
  <2> QED
    BY <1>0, <2>1, <2>2, ArmOnce DEF Fresh
<1>3. CASE ReadRow(j)
  <2>1. tick'[j] # "ready" /\ UNCHANGED <<job, wall, rushed, fired, again>>
    BY <1>3 DEF ReadRow, TypeOK
  <2> QED
    BY <1>0, <2>1, ArmOnce
<1>4. CASE FireTick(j)
  <2>1. /\ tick[j] = "ready" /\ tick'[j] = "reading" /\ fired' = job[j].next
        /\ UNCHANGED <<job, wall>> /\ rushed' = (rushed \/ job[j].capped)
    BY <1>4 DEF FireTick, TypeOK
  <2>2. \A k \in Jobs : tick'[k] # "ready"
    BY <1>0, <2>1 DEF OnceInv
  <2>3. ~rushed' => ~rushed /\ ~job[j].capped
    BY <2>1
  <2>4. ~rushed' => job[j].next > fired
    BY <2>1, <2>3 DEF OnceInv, Ordered
  <2>5. ~again'
    <3>1. again' = (again \/ (~rushed' /\ job[j].next <= fired))
      BY <1>4 DEF FireTick
    <3>2. job[j].next \in Nat /\ fired \in Nat
      BY <1>0
    <3>3. job[j].next > fired => ~(job[j].next <= fired)
      BY <3>2, NotBoth, Zenon
    <3> QED
      BY <2>4, <3>1, <3>3, Zenon DEF OnceInv, FiredOnce
  <2>6. ~rushed' => Ordered'
    BY <1>0, <2>1, <2>2, <2>3 DEF OnceInv, Ordered
  <2> QED
    BY <2>2, <2>5, <2>6 DEF OnceInv, FiredOnce
<1> QED
  BY <1>1, <1>2, <1>3, <1>4

\* Every step keeps the order of occurrences.
LEMMA NextOnceInv == TypeOK /\ TypeOK' /\ ScheduleInv /\ OnceInv /\ [Next]_vars => OnceInv'
<1> SUFFICES ASSUME TypeOK, TypeOK', ScheduleInv, OnceInv, [Next]_vars PROVE OnceInv'
  OBVIOUS
<1>1. CASE Start \/ StartFails \/ Stop \/ Exit \/ Requests
  BY <1>1, ServerOnce
<1>2. CASE Advance \/ \E w \in 0..MaxTime : SetClock(w)
  BY <1>2, TimeOnce
<1>3. CASE Ticks
  BY <1>3, TicksOnce DEF Ticks
<1>4. CASE UNCHANGED <<wall, job, tick, rushed, fired, again>>
  BY <1>4, ArmOnce
<1>5. ASSUME NEW f \in Fires, FireStep(f) PROVE OnceInv'
  BY <1>4, <1>5, FireTypeOK DEF clock, jobs
<1>6. CASE UNCHANGED vars
  BY <1>4, <1>6 DEF vars, clock, jobs, history
<1> QED
  BY <1>1, <1>2, <1>3, <1>5, <1>6 DEF Next

\* An occurrence is fired at most once across ticks, changes of the task and
\* restarts, unless the clock is set back or a capped timer's tick fires (_arm,
\* _fire_and_rearm).
THEOREM NoOccurrenceTwice == Spec => []FiredOnce
<1>1. TypeOK /\ TypeOK' /\ ScheduleInv /\ OnceInv /\ [Next]_vars => OnceInv'
  BY NextOnceInv
<1>2. OnceInv => FiredOnce
  BY DEF OnceInv
<1> QED
  BY <1>1, <1>2, InitOnceInv, TypeCorrect, ScheduleInvariant, PTL DEF Spec
=============================================================================
