---------------------------- MODULE ScheduledTask ----------------------------
(***************************************************************************)
(* One recurring task of the OmniGent server: its row, its job and timer in *)
(* ScheduledTaskScheduler (omnigent/server/scheduled/scheduler.py), the     *)
(* fire path the timer starts (fire.py) and the requests that create,       *)
(* change and delete it.  The scheduler keeps nothing two tasks share.      *)
(*                                                                         *)
(* An action is what the event loop does between two awaits, or one         *)
(* transaction of a store called in a thread.  A job is an object: after it *)
(* is removed, a tick that has begun still holds it.  The timers count real *)
(* time, the scheduler reads the wall clock, which may be set.              *)
(***************************************************************************)
EXTENDS Naturals

CONSTANTS
  Rules,         \* recurrence rules a task can have
  Occurrences,   \* the instants at which each rule fires
  Jobs,          \* job objects that exist at the same time
  NoJob,
  Fires,         \* background fires that exist at the same time
  Cap,           \* _MAX_TIMER_DELAY_S
  Grace,         \* MISFIRE_GRACE_TIME_S
  Tolerance,     \* _DUE_TOLERANCE_S
  MaxTime,       \* bound on the wall clock
  MaxSets        \* bound on the settings of the wall clock

ASSUME ScheduledTaskAssumption ==
  /\ Rules # {}
  /\ Occurrences \in [Rules -> SUBSET (Nat \ {0})]
  /\ Jobs \subseteq Nat /\ NoJob \notin Jobs
  /\ Fires \subseteq Nat
  /\ Cap \in Nat /\ Grace \in Nat /\ Tolerance \in Nat
  /\ MaxTime \in Nat /\ MaxSets \in Nat

Never == 0   \* next_run of a rule that is exhausted

VARIABLES
  row,          \* the task's row: its state and its rule
  up,           \* the server: down, up or stopping
  started,      \* _started
  wall,         \* the wall clock
  sets,         \* settings of the wall clock so far
  registered,   \* the task's entry in _jobs
  job,          \* job objects
  tick,         \* where the tick of each job is
  inFlight,     \* the task's key is in _IN_FLIGHT_TASKS
  fire,         \* background fires
  rushed,       \* history: the clock was set back, or a capped timer's tick fired
  fired,        \* history: the last occurrence a tick has called on_fire for
  again,        \* history: not rushed, one was called for that was not a later one
  late,         \* history: sessions created since the row was last active
  orphans       \* history: run rows inserted after the task was deleted

server == <<up, started>>
clock == <<wall, sets>>
jobs == <<registered, job>>
history == <<rushed, fired, again, late, orphans>>
vars == <<row, server, clock, jobs, tick, inFlight, fire, history>>

JobRecords == [rule : Rules, next : Nat, capped : BOOLEAN,
               timer : BOOLEAN, left : Nat]

\* A job object that does not exist.
Blank == [rule |-> CHOOSE r \in Rules : TRUE, next |-> Never, capped |-> FALSE,
          timer |-> FALSE, left |-> 0]

FireRecords ==
  [pc : {"free", "start", "validate", "create", "override", "grant", "dispatch",
         "record", "ended"},
   sess : {"none", "half", "kept"},          \* the session this fire created
   run : {"none", "plain", "named", "lost"}] \* its run row, and whether it names the session

FreeFire == [pc |-> "free", sess |-> "none", run |-> "none"]

-----------------------------------------------------------------------------
(* The scheduler.                                                          *)

\* next_fire_after: the first occurrence strictly after the wall clock.
IsNext(r, o) ==
  LET later == {x \in Occurrences[r] : x > wall}
  IN IF later = {} THEN o = Never
     ELSE o \in later /\ \A x \in later : o <= x

\* Mutant: a capped timer is not remembered as one.
ArmedUncapped(r, o) ==
  [rule |-> r, next |-> o, capped |-> FALSE,
   timer |-> o # Never,
   left |-> IF o = Never THEN 0 ELSE IF o > wall + Cap THEN Cap ELSE o - wall]

\* _arm: the job as it is after its timer was armed for o, for Cap at most.
Armed(r, o) ==
  [rule |-> r, next |-> o, capped |-> o > wall + Cap,
   timer |-> o # Never,
   left |-> IF o = Never THEN 0 ELSE IF o > wall + Cap THEN Cap ELSE o - wall]

\* The jobs after the registered one has left _jobs and its timer is cancelled:
\* only its tick still holds it.
Cancelled ==
  [j \in Jobs |->
     IF j # registered THEN job[j]
     ELSE IF tick[j] = "none" THEN Blank
     ELSE [job[j] EXCEPT !.timer = FALSE, !.left = 0]]

\* remove
Remove ==
  /\ registered' = NoJob
  /\ job' = Cancelled

\* Nothing refers to the object j: a new job may take its place.
Unreferenced(j) == j # registered /\ tick[j] = "none"

\* _register: the old job is removed, a new one takes its entry and is armed.
Register(r) ==
  \E j \in Jobs, o \in Occurrences[r] \cup {Never} :
     /\ Unreferenced(j)
     /\ \A k \in Jobs : Unreferenced(k) => j <= k
     /\ IsNext(r, o)
     /\ registered' = j
     /\ job' = [Cancelled EXCEPT ![j] = Armed(r, o)]

\* Mutant: a removed job is armed again too.
RearmAlways(j) ==
  /\ \E o \in Occurrences[job[j].rule] \cup {Never} :
        /\ IsNext(job[j].rule, o)
        /\ job' = [job EXCEPT ![j] = Armed(job[j].rule, o)]
  /\ UNCHANGED registered

\* The end of _fire_and_rearm: the job is armed again if it is still registered.
Rearm(j) ==
  /\ IF registered = j
     THEN \E o \in Occurrences[job[j].rule] \cup {Never} :
             /\ IsNext(job[j].rule, o)
             /\ job' = [job EXCEPT ![j] = Armed(job[j].rule, o)]
     ELSE job' = [job EXCEPT ![j] = Blank]
  /\ UNCHANGED registered

\* start, when the server boots: a job for the row if it is active.
Start ==
  /\ up = "down"
  /\ up' = "up"
  /\ started' = TRUE
  /\ IF row.state = "active" THEN Register(row.rule) ELSE UNCHANGED jobs
  /\ UNCHANGED <<row, clock, tick, inFlight, fire, history>>

\* The list of active tasks cannot be read: the server runs, no task is armed.
StartFails ==
  /\ up = "down"
  /\ up' = "up"
  /\ UNCHANGED <<row, started, clock, jobs, tick, inFlight, fire, history>>

\* stop, when the server shuts down: ticks and fires that have begun go on.
Stop ==
  /\ up = "up"
  /\ up' = "stopping"
  /\ started' = FALSE
  /\ Remove
  /\ UNCHANGED <<row, clock, tick, inFlight, fire, history>>

\* The process ends, after a stop or by a crash.
Exit ==
  /\ up # "down"
  /\ up' = "down"
  /\ started' = FALSE
  /\ Remove
  /\ tick' = [j \in Jobs |-> "none"]
  /\ inFlight' = FALSE
  /\ fire' = [f \in Fires |-> FreeFire]
  /\ UNCHANGED <<row, clock, history>>

-----------------------------------------------------------------------------
(* The requests.  Each awaits only before it touches the row, and the row  *)
(* and the scheduler are changed without an await in between.              *)

\* create_scheduled_task
Create(r) ==
  /\ up = "up"
  /\ row.state = "none"
  /\ row' = [state |-> "active", rule |-> r]
  /\ Register(r)
  /\ UNCHANGED <<server, clock, tick, inFlight, fire, history>>

\* update_scheduled_task, whatever of state and rule it changes: a row that was
\* deleted while the request was validated is not found and nothing happens.
Patch(s, r) ==
  /\ up = "up"
  /\ row.state \in {"active", "paused"}
  /\ row' = [state |-> s, rule |-> r]
  /\ IF s = "active" THEN Register(r) ELSE Remove
  /\ late' = IF s = "active" THEN 0 ELSE late
  /\ UNCHANGED <<server, clock, tick, inFlight, fire, rushed, fired, again, orphans>>

\* delete_scheduled_task: the row and its run rows go.
Delete ==
  /\ up = "up"
  /\ row.state \in {"active", "paused"}
  /\ row' = [row EXCEPT !.state = "deleted"]
  /\ Remove
  /\ UNCHANGED <<server, clock, tick, inFlight, fire, history>>

-----------------------------------------------------------------------------
(* Time.                                                                   *)

\* Mutant: a timer that has run down runs on.
AdvancePastZero ==
  /\ wall < MaxTime
  /\ wall' = wall + 1
  /\ job' = [j \in Jobs |-> [job[j] EXCEPT !.left = IF job[j].timer THEN @ - 1 ELSE 0]]
  /\ UNCHANGED <<row, server, sets, registered, tick, inFlight, fire, history>>

\* A unit of time passes.
Advance ==
  /\ wall < MaxTime
  /\ wall' = wall + 1
  /\ job' = [j \in Jobs |->
               [job[j] EXCEPT !.left = IF @ > 0 THEN @ - 1 ELSE 0]]
  /\ UNCHANGED <<row, server, sets, registered, tick, inFlight, fire, history>>

\* The wall clock is set, forward or back.
SetClock(w) ==
  /\ sets < MaxSets
  /\ w # wall
  /\ sets' = sets + 1
  /\ wall' = w
  /\ rushed' = (rushed \/ w < wall)
  /\ UNCHANGED <<row, server, jobs, tick, inFlight, fire, fired, again, late, orphans>>

-----------------------------------------------------------------------------
(* The ticks.  job.running is TRUE exactly while tick[j] is reading, got or *)
(* refused.  A job has one tick at a time, so it never stops one: it is     *)
(* there for fire(), which nothing but the tests calls and which is left out.*)

Running == up # "down"

\* The timer has run down and _tick queues the coroutine.  The loop runs what
\* is queued in order: a coroutine queued by an earlier timer begins first.
Wake(j) ==
  /\ Running
  /\ job[j].timer
  /\ job[j].left = 0
  /\ \A k \in Jobs : tick[k] # "ready"
  /\ job' = [job EXCEPT ![j].timer = FALSE]
  /\ tick' = [tick EXCEPT ![j] = "ready"]
  /\ UNCHANGED <<row, server, clock, registered, inFlight, fire, history>>

\* A capped timer wakes before the occurrence is due.
EarlyWake(j) == job[j].capped /\ job[j].next > wall + Tolerance

Misfire(j) == wall > job[j].next + Grace

\* The tick does not fire: it is early or too late.
SkipTick(j) ==
  /\ Running
  /\ tick[j] = "ready"
  /\ EarlyWake(j) \/ Misfire(j)
  /\ tick' = [tick EXCEPT ![j] = "none"]
  /\ Rearm(j)
  /\ UNCHANGED <<row, server, clock, inFlight, fire, history>>

\* The tick calls on_fire, which asks a thread for the row.  Whether the job is
\* still registered is not looked at.
FireTick(j) ==
  /\ Running
  /\ tick[j] = "ready"
  /\ ~EarlyWake(j) /\ ~Misfire(j)
  /\ tick' = [tick EXCEPT ![j] = "reading"]
  /\ rushed' = (rushed \/ job[j].capped)
  /\ fired' = job[j].next
  /\ again' = (again \/ (~rushed' /\ job[j].next <= fired))
  /\ UNCHANGED <<row, server, clock, jobs, inFlight, fire, late, orphans>>

\* The thread reads the row: it is active, or it is not or the read fails.
ReadRow(j) ==
  /\ Running
  /\ tick[j] = "reading"
  /\ \E answer \in IF row.state = "active" THEN {"got", "refused"} ELSE {"refused"} :
        tick' = [tick EXCEPT ![j] = answer]
  /\ UNCHANGED <<row, server, clock, jobs, inFlight, fire, history>>

\* Mutant: the key is not looked for.
SpawnsBlind(j) == tick[j] = "got"

\* on_fire goes on: the row was active and no fire of the task is in flight.
Spawns(j) == tick[j] = "got" /\ ~inFlight

\* on_fire returns, having started a background fire or not, and the tick arms
\* the job again.
Resume(j) ==
  /\ Running
  /\ tick[j] \in {"got", "refused"}
  /\ IF Spawns(j)
     THEN \E f \in Fires :
             /\ fire[f].pc = "free"
             /\ \A g \in Fires : fire[g].pc = "free" => f <= g
             /\ fire' = [fire EXCEPT ![f].pc = "start"]
             /\ inFlight' = TRUE
     ELSE UNCHANGED <<fire, inFlight>>
  /\ tick' = [tick EXCEPT ![j] = "none"]
  /\ Rearm(j)
  /\ UNCHANGED <<row, server, clock, history>>

-----------------------------------------------------------------------------
(* The background fire.                                                    *)

\* A step of the background fire f that touches nothing but its own record.
Step(f, from, to) ==
  /\ fire[f].pc = from
  /\ fire' = [fire EXCEPT ![f].pc = to]
  /\ UNCHANGED <<row, server, clock, jobs, tick, inFlight, history>>

\* Mutant: the row on_fire has read is trusted.
RunFireTrusts(f) == Step(f, "start", "validate")

\* _run_fire reads the row again: the fire ends here unless it is active.
RunFire(f) ==
  \/ row.state = "active" /\ Step(f, "start", "validate")
  \/ Step(f, "start", "ended")

\* The target, the host, the agent and the workspace are looked at: the run goes
\* on, or is recorded as failed or skipped, or a store raises and nothing is.
Validate(f) ==
  \/ Step(f, "validate", "create")
  \/ Step(f, "validate", "record")
  \/ Step(f, "validate", "ended")

\* create_conversation: with the task's model and effort still to be stored, or
\* without any.
CreateSession(f) ==
  /\ fire[f].pc = "create"
  /\ \E to \in {"override", "grant"} :
        fire' = [fire EXCEPT ![f].pc = to, ![f].sess = "kept"]
  /\ late' = IF row.state = "active" THEN late ELSE late + 1
  /\ UNCHANGED <<row, server, clock, jobs, tick, inFlight, rushed, fired, again, orphans>>

CreateFails(f) == Step(f, "create", "record")

Override(f) == Step(f, "override", "grant")

\* update_conversation raises: the session is there, the fire has no name for it.
OverrideFails(f) ==
  /\ fire[f].pc = "override"
  /\ fire' = [fire EXCEPT ![f].pc = "record", ![f].sess = "half"]
  /\ UNCHANGED <<row, server, clock, jobs, tick, inFlight, history>>

\* Mutant: a session without its owner's grant is not recorded.
GrantForgets(f) ==
  \/ Step(f, "grant", "dispatch")
  \/ Step(f, "grant", "ended")

\* _grant_owner; a failure is recorded as a failed run.
Grant(f) ==
  \/ Step(f, "grant", "dispatch")
  \/ Step(f, "grant", "record")

\* The runner is launched and the prompt sent; a failure is recorded too.
Dispatch(f) == Step(f, "dispatch", "record")

\* _record_run stamps the last run on the row, if there still is one, and then
\* inserts the run row, whether the task has a row or not.
Record(f) ==
  /\ fire[f].pc = "record"
  /\ fire' = [fire EXCEPT ![f].pc = "ended",
                          ![f].run = IF fire[f].sess = "kept" THEN "named" ELSE "plain"]
  /\ orphans' = IF row.state = "deleted" THEN orphans + 1 ELSE orphans
  /\ UNCHANGED <<row, server, clock, jobs, tick, inFlight, rushed, fired, again, late>>

\* Either write of _record_run raises: this is logged and the fire ends.
RecordFails(f) ==
  /\ fire[f].pc = "record"
  /\ fire' = [fire EXCEPT ![f].pc = "ended", ![f].run = "lost"]
  /\ UNCHANGED <<row, server, clock, jobs, tick, inFlight, history>>

\* The done callback of the background fire.
Discard(f) ==
  /\ fire[f].pc = "ended"
  /\ fire' = [fire EXCEPT ![f] = FreeFire]
  /\ inFlight' = FALSE
  /\ UNCHANGED <<row, server, clock, jobs, tick, history>>

\* What the event loop and the stores' threads do for the fire f.
FireStep(f) ==
  \/ RunFire(f) \/ Validate(f) \/ CreateSession(f) \/ CreateFails(f)
  \/ Override(f) \/ OverrideFails(f) \/ Grant(f) \/ Dispatch(f)
  \/ Record(f) \/ RecordFails(f) \/ Discard(f)

-----------------------------------------------------------------------------
Init ==
  /\ row = [state |-> "none", rule |-> Blank.rule]
  /\ up = "down" /\ started = FALSE
  /\ wall = 0 /\ sets = 0
  /\ registered = NoJob
  /\ job = [j \in Jobs |-> Blank]
  /\ tick = [j \in Jobs |-> "none"]
  /\ inFlight = FALSE
  /\ fire = [f \in Fires |-> FreeFire]
  /\ rushed = FALSE /\ fired = 0 /\ again = FALSE
  /\ late = 0 /\ orphans = 0

Requests ==
  \/ \E r \in Rules : Create(r)
  \/ \E s \in {"active", "paused"}, r \in Rules : Patch(s, r)
  \/ Delete

Ticks ==
  \E j \in Jobs :
     Wake(j) \/ SkipTick(j) \/ FireTick(j) \/ ReadRow(j) \/ Resume(j)

Next ==
  \/ Start \/ StartFails \/ Stop \/ Exit
  \/ Requests
  \/ Advance
  \/ \E w \in 0..MaxTime : SetClock(w)
  \/ Ticks
  \/ \E f \in Fires : FireStep(f)

Spec == Init /\ [][Next]_vars

-----------------------------------------------------------------------------
(* Properties.                                                             *)

TypeOK ==
  /\ row \in [state : {"none", "active", "paused", "deleted"}, rule : Rules]
  /\ up \in {"down", "up", "stopping"} /\ started \in BOOLEAN
  /\ wall \in Nat /\ sets \in Nat
  /\ registered \in Jobs \cup {NoJob}
  /\ job \in [Jobs -> JobRecords]
  /\ tick \in [Jobs -> {"none", "ready", "reading", "got", "refused"}]
  /\ inFlight \in BOOLEAN
  /\ fire \in [Fires -> FireRecords]
  /\ rushed \in BOOLEAN /\ fired \in Nat /\ again \in BOOLEAN
  /\ late \in Nat /\ orphans \in Nat

Live(f) == fire[f].pc # "free"

\* However ticks of removed jobs and slow reads of the row overlap, two
\* background fires of the task are never under way at once, and the task's key
\* is in _IN_FLIGHT_TASKS exactly while one is (fire.py:73).
OneFireAtATime ==
  /\ \A f, g \in Fires : Live(f) /\ Live(g) => f = g
  /\ inFlight = (\E f \in Fires : Live(f))

\* The job of an active task: it has the row's rule and one timer, a tick that
\* will arm it again, or no occurrence left.
Scheduled(j) ==
  /\ row.state = "active"
  /\ job[j].rule = row.rule
  /\ (job[j].timer \/ tick[j] # "none" \/ job[j].next = Never)
  /\ ~(job[j].timer /\ tick[j] # "none")

\* Whatever requests and ticks do to it, the schedule in memory is the one the
\* row asks for: a registered job is scheduled, an active row has one once the
\* schedule was loaded, and no other job has a timer left.
ScheduleFollowsRow ==
  /\ registered # NoJob => Scheduled(registered)
  /\ started /\ row.state = "active" => registered # NoJob
  /\ \A j \in Jobs : job[j].timer => j = registered

\* A later tick fires a later occurrence, whatever becomes of the job in between
\* (a change of the task, a restart): none is fired twice, unless the wall clock
\* was set back or a tick of a capped timer found its occurrence due (within
\* _DUE_TOLERANCE_S, or held up until then).
FiredOnce == ~again

\* A task that was paused or deleted winds down: at most one session is still
\* created for it and, once it is deleted, at most one run row is left behind,
\* both by the fire that was in flight.
DeadTaskWindsDown == late <= 1 /\ orphans <= 1

\* A fire that ends has left a run row that names its session, at whichever
\* step it failed, unless the row could not be written or the session was lost
\* to the fire while it was created.
SessionsAreRecorded ==
  \A f \in Fires :
     fire[f].pc = "ended" /\ fire[f].sess = "kept" => fire[f].run \in {"named", "lost"}
=============================================================================
