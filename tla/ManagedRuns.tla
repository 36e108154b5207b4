---------------------------- MODULE ManagedRuns ----------------------------
(***************************************************************************)
(* Managed runs of ScienceService (science/omnisci/service.py): submit_job, *)
(* get_run, list_runs, cancel_run and the reconciliation they share,       *)
(* _sync_run and _collect_run_outputs.                                     *)
(*                                                                         *)
(* A run lives in two places that no transaction joins: the provider's own *)
(* record of the job (run.json and the job itself) and the row in the runs *)
(* table.  A call reads its row into memory, talks to the provider, and    *)
(* writes the whole row back.  Calls of different requests interleave      *)
(* between any two of these steps, and any step can be the last one of a   *)
(* call that raised or of a process that died.                             *)
(*                                                                         *)
(* Of the provider nothing is assumed but its contract, ProviderRecord: it *)
(* reports success only for a job that succeeded.                          *)
(***************************************************************************)
EXTENDS Naturals, FiniteSets

CONSTANTS
  Clients,       \* threads and processes that call the service
  Keys,          \* idempotency keys
  NoKey,         \* not a key
  Runs,          \* run ids the provider hands out; bounds the jobs submitted
  NumOutputs,    \* declared outputs of a job
  MaxRounds,     \* bound on the collections of one run
  MaxAborts,     \* bound on calls cut short
  StableRuns,    \* runs whose provider keeps artifact ids in its manifest
  FinalRecords,  \* TRUE: a provider record in a terminal state never changes
  MayVanish      \* TRUE: a provider may be unconfigured, or its record lost

States == {"queued", "running", "succeeded", "failed", "cancelled", "timeout"}
Terminal == {"succeeded", "failed", "cancelled", "timeout"}
Outputs == 1 .. NumOutputs
Rounds == 1 .. MaxRounds

\* An artifact row: the run and output it is for, and the collection that
\* gave it its id.
Artifacts == [run : Runs, round : Rounds, out : Outputs]

\* What the n-th collection of a run returns.
Collection(r, n) == {[run |-> r, round |-> n, out |-> o] : o \in Outputs}

\* A row of the runs table and a copy of one in memory.
RunRows == [key : Keys, status : States, outputs : SUBSET Artifacts]
Copies == [run : Runs, key : Keys, status : States, outputs : SUBSET Artifacts]

NoCopy == [run |-> "none"]

ASSUME ManagedRunsAssumption ==
  /\ NumOutputs \in Nat /\ MaxRounds \in Nat /\ MaxAborts \in Nat
  /\ NoKey \notin Keys
  /\ StableRuns \subseteq Runs
  /\ FinalRecords \in BOOLEAN /\ MayVanish \in BOOLEAN

VARIABLES
  rows,       \* the runs table: a function from run ids to rows
  artifacts,  \* the artifacts table
  record,     \* the provider's status of each run; "none" before submission
  job,        \* what really became of the job
  jobKey,     \* the key each job was submitted with
  rounds,     \* how often each run's outputs were collected with new ids
  manifest,   \* the collection a provider that keeps ids has on file, or 0
  pc,         \* where each client's call is
  asked,      \* the key a submission asks for
  mine,       \* the copy of a run row each client works on
  todo,       \* the copies list_runs has still to reconcile
  adding,     \* collected artifacts still to be inserted
  aborts      \* calls cut short so far

tables == <<rows, artifacts>>
provider == <<record, job, jobKey, rounds, manifest>>
locals == <<pc, asked, mine, todo, adding>>
vars == <<tables, provider, locals, aborts>>

\* The provider's side of each run.
Provider(r) == INSTANCE ProviderRecord WITH record <- record[r], job <- job[r]

-----------------------------------------------------------------------------
Copy(r) == [run |-> r, key |-> rows[r].key, status |-> rows[r].status,
            outputs |-> rows[r].outputs]

\* repo.update("runs", ...): the whole row, as the caller remembers it.
SaveRow(m) == rows' = [rows EXCEPT ![m.run] =
                         [key |-> m.key, status |-> m.status, outputs |-> m.outputs]]

\* The call is over; what it held in memory is gone.
Return(c) ==
  /\ pc' = [pc EXCEPT ![c] = "idle"]
  /\ asked' = [asked EXCEPT ![c] = NoKey]
  /\ mine' = [mine EXCEPT ![c] = NoCopy]
  /\ todo' = [todo EXCEPT ![c] = {}]
  /\ adding' = [adding EXCEPT ![c] = {}]

\* The client takes up the copies ms, one at a time, or returns.
Work(c, ms) ==
  \/ ms = {} /\ Return(c)
  \/ \E m \in ms :
       /\ pc' = [pc EXCEPT ![c] = "status"]
       /\ mine' = [mine EXCEPT ![c] = m]
       /\ todo' = [todo EXCEPT ![c] = ms \ {m}]
       /\ UNCHANGED <<asked, adding>>

\* The copy is reconciled except, perhaps, for its outputs.
NeedsCollect(m) == m.status = "succeeded" /\ m.outputs = {}

AfterSync(c, m) ==
  \/ /\ NeedsCollect(m)
     /\ pc' = [pc EXCEPT ![c] = "collect"]
     /\ mine' = [mine EXCEPT ![c] = m]
     /\ UNCHANGED <<asked, todo, adding>>
  \/ ~NeedsCollect(m) /\ Work(c, todo[c])

-----------------------------------------------------------------------------
(* submit_job.                                                             *)

\* Mutant: the key is not looked up.
FindRunBlind(c, k) ==
  /\ pc[c] = "idle"
  /\ pc' = [pc EXCEPT ![c] = "submit"]
  /\ asked' = [asked EXCEPT ![c] = k]
  /\ UNCHANGED <<tables, provider, mine, todo, adding, aborts>>

\* A known key is answered with its row; otherwise the submission goes on.
FindRun(c, k) ==
  /\ pc[c] = "idle"
  /\ ~ \E r \in DOMAIN rows : rows[r].key = k
  /\ pc' = [pc EXCEPT ![c] = "submit"]
  /\ asked' = [asked EXCEPT ![c] = k]
  /\ UNCHANGED <<tables, provider, mine, todo, adding, aborts>>

\* The approval gate raises, before anything was submitted.
GateRefuses(c) ==
  /\ pc[c] = "submit"
  /\ Return(c)
  /\ UNCHANGED <<tables, provider, aborts>>

\* provider.submit starts a job under a new run id.
ProviderSubmit(c) ==
  /\ pc[c] = "submit"
  /\ \E r \in Runs :
       /\ record' = [record EXCEPT ![r] = "queued"]
       /\ job' = [job EXCEPT ![r] = "active"]
       /\ Provider(r)!Submit
       /\ jobKey' = [jobKey EXCEPT ![r] = asked[c]]
       /\ mine' = [mine EXCEPT ![c] =
                     [run |-> r, key |-> asked[c], status |-> "queued", outputs |-> {}]]
  /\ pc' = [pc EXCEPT ![c] = "first_status"]
  /\ UNCHANGED <<tables, rounds, manifest, asked, todo, adding, aborts>>

\* Mutant: outputs are collected before the row is inserted.
FirstStatusCollects(c) ==
  /\ pc[c] = "first_status"
  /\ mine' = [mine EXCEPT ![c].status = record[mine[c].run]]
  /\ pc' = [pc EXCEPT ![c] = IF record[mine[c].run] = "succeeded" THEN "collect" ELSE "add_row"]
  /\ UNCHANGED <<tables, provider, asked, todo, adding, aborts>>

FirstStatus(c) ==
  /\ pc[c] = "first_status"
  /\ mine' = [mine EXCEPT ![c].status = record[mine[c].run]]
  /\ pc' = [pc EXCEPT ![c] = "add_row"]
  /\ UNCHANGED <<tables, provider, asked, todo, adding, aborts>>

\* The row is inserted; a run that has already succeeded is collected.
AddRow(c) ==
  /\ pc[c] = "add_row"
  /\ rows' = [r \in DOMAIN rows \cup {mine[c].run} |->
                IF r = mine[c].run
                THEN [key |-> mine[c].key, status |-> mine[c].status, outputs |-> {}]
                ELSE rows[r]]
  /\ AfterSync(c, mine[c])
  /\ UNCHANGED <<artifacts, provider, aborts>>

-----------------------------------------------------------------------------
(* get_run, list_runs, cancel_run and _sync_run.                           *)

\* Mutant: the row is not read.
GetRunUnread(c, r) ==
  /\ pc[c] = "idle"
  /\ pc' = [pc EXCEPT ![c] = "status"]
  /\ UNCHANGED <<tables, provider, asked, mine, todo, adding, aborts>>

GetRun(c, r) ==
  /\ pc[c] = "idle"
  /\ pc' = [pc EXCEPT ![c] = "status"]
  /\ mine' = [mine EXCEPT ![c] = Copy(r)]
  /\ UNCHANGED <<tables, provider, asked, todo, adding, aborts>>

\* All rows are read at once and reconciled one after the other.
ListRuns(c) ==
  /\ pc[c] = "idle"
  /\ DOMAIN rows # {}
  /\ Work(c, {Copy(r) : r \in DOMAIN rows})
  /\ UNCHANGED <<tables, provider, aborts>>

CancelRun(c, r) ==
  /\ pc[c] = "idle"
  /\ pc' = [pc EXCEPT ![c] = "cancel"]
  /\ mine' = [mine EXCEPT ![c] = Copy(r)]
  /\ UNCHANGED <<tables, provider, asked, todo, adding, aborts>>

\* provider.cancel stops the job, unless the job ended first.
ProviderCancel(c) ==
  /\ pc[c] = "cancel"
  /\ \E r \in {mine[c].run} :
       /\ record' = [record EXCEPT ![r] = "cancelled"]
       /\ job' = [job EXCEPT ![r] = IF @ = "active" THEN "bad" ELSE @]
       /\ Provider(r)!Cancel
  /\ pc' = [pc EXCEPT ![c] = "status"]
  /\ UNCHANGED <<tables, jobKey, rounds, manifest, asked, mine, todo, adding, aborts>>

\* The call raises: the run is over, or its provider or record is gone.
CancelRefused(c) ==
  /\ pc[c] = "cancel"
  /\ record[mine[c].run] \in Terminal \/ MayVanish
  /\ Return(c)
  /\ UNCHANGED <<tables, provider, aborts>>

\* Mutant: a status is taken over only when it is not terminal.
StatusChangedLive(c) ==
  /\ pc[c] = "status"
  /\ LET seen == record[mine[c].run]
     IN  /\ seen # mine[c].status /\ seen \notin Terminal
         /\ mine' = [mine EXCEPT ![c].status = seen]
  /\ pc' = [pc EXCEPT ![c] = "update"]
  /\ UNCHANGED <<tables, provider, asked, todo, adding, aborts>>

\* The provider's status differs from the copy's: the row will be written.
\* A terminal status that is not final may differ in its exit code or finish
\* time alone.
StatusChanged(c) ==
  /\ pc[c] = "status"
  /\ LET seen == record[mine[c].run]
     IN  /\ seen # mine[c].status \/ (seen \in Terminal /\ ~FinalRecords)
         /\ mine' = [mine EXCEPT ![c].status = seen]
  /\ pc' = [pc EXCEPT ![c] = "update"]
  /\ UNCHANGED <<tables, provider, asked, todo, adding, aborts>>

\* Mutant: outputs are collected only when the status has just changed.
StatusSameReturns(c) ==
  /\ pc[c] = "status"
  /\ record[mine[c].run] = mine[c].status
  /\ Work(c, todo[c])
  /\ UNCHANGED <<tables, provider, aborts>>

StatusSame(c) ==
  /\ pc[c] = "status"
  /\ record[mine[c].run] = mine[c].status
  /\ AfterSync(c, mine[c])
  /\ UNCHANGED <<tables, provider, aborts>>

\* The provider is not configured, or has no record of the run: the copy is
\* left as it is and is not collected.
StatusUnknown(c) ==
  /\ pc[c] = "status"
  /\ MayVanish
  /\ Work(c, todo[c])
  /\ UNCHANGED <<tables, provider, aborts>>

UpdateRow(c) ==
  /\ pc[c] = "update"
  /\ SaveRow(mine[c])
  /\ AfterSync(c, mine[c])
  /\ UNCHANGED <<artifacts, provider, aborts>>

-----------------------------------------------------------------------------
(* _collect_run_outputs.                                                   *)

\* Mutant: a manifest on file is ignored.
CollectAfresh(c) ==
  /\ pc[c] = "collect"
  /\ LET r == mine[c].run
         n == IF rounds[r] < MaxRounds THEN rounds[r] + 1 ELSE rounds[r]
     IN  /\ rounds' = [rounds EXCEPT ![r] = n]
         /\ manifest' = [manifest EXCEPT ![r] = n]
         /\ adding' = [adding EXCEPT ![c] = Collection(r, n)]
  /\ pc' = [pc EXCEPT ![c] = "adding"]
  /\ UNCHANGED <<tables, record, job, jobKey, asked, mine, todo, aborts>>

\* provider.collect fetches the outputs.  Its artifacts get new ids, unless the
\* provider keeps ids and has a manifest on file from an earlier collection.
Collect(c) ==
  /\ pc[c] = "collect"
  /\ LET r == mine[c].run
         filed == r \in StableRuns /\ manifest[r] # 0
         n == IF filed THEN manifest[r] ELSE rounds[r] + 1
     IN  /\ n \in Rounds
         /\ rounds' = [rounds EXCEPT ![r] = IF filed THEN @ ELSE n]
         /\ manifest' = [manifest EXCEPT ![r] = IF r \in StableRuns THEN n ELSE @]
         /\ adding' = [adding EXCEPT ![c] = Collection(r, n)]
  /\ pc' = [pc EXCEPT ![c] = "adding"]
  /\ UNCHANGED <<tables, record, job, jobKey, asked, mine, todo, aborts>>

FirstOf(as) == {a \in as : \A b \in as : a.out <= b.out}

\* Mutant: the insert is not committed.
AddArtifactUncommitted(c) ==
  /\ pc[c] = "adding"
  /\ \E a \in FirstOf(adding[c]) :
       /\ a \notin artifacts
       /\ adding' = [adding EXCEPT ![c] = @ \ {a}]
       /\ mine' = [mine EXCEPT ![c].outputs = @ \cup {a}]
  /\ UNCHANGED <<rows, artifacts, provider, pc, asked, todo, aborts>>

\* One artifact is inserted and its id noted on the copy.
AddArtifact(c) ==
  /\ pc[c] = "adding"
  /\ \E a \in FirstOf(adding[c]) :
       /\ a \notin artifacts
       /\ artifacts' = artifacts \cup {a}
       /\ adding' = [adding EXCEPT ![c] = @ \ {a}]
       /\ mine' = [mine EXCEPT ![c].outputs = @ \cup {a}]
  /\ UNCHANGED <<rows, provider, pc, asked, todo, aborts>>

\* The id is taken: the insert violates the primary key and the call fails.
AddDuplicate(c) ==
  /\ pc[c] = "adding"
  /\ \E a \in FirstOf(adding[c]) : a \in artifacts
  /\ Return(c)
  /\ UNCHANGED <<tables, provider, aborts>>

\* Mutant: the row is written after any insert.
SaveOutputsEarly(c) ==
  /\ pc[c] = "adding"
  /\ SaveRow(mine[c])
  /\ Work(c, todo[c])
  /\ UNCHANGED <<artifacts, provider, aborts>>

\* All are inserted: the row is written with the ids.
SaveOutputs(c) ==
  /\ pc[c] = "adding"
  /\ adding[c] = {}
  /\ SaveRow(mine[c])
  /\ Work(c, todo[c])
  /\ UNCHANGED <<artifacts, provider, aborts>>

\* A provider call or a repository call raises, or the process dies.
Abort(c) ==
  /\ pc[c] # "idle"
  /\ aborts < MaxAborts
  /\ aborts' = aborts + 1
  /\ Return(c)
  /\ UNCHANGED <<tables, provider>>

-----------------------------------------------------------------------------
(* The provider.                                                           *)

JobEnds(r, how) ==
  /\ job' = [job EXCEPT ![r] = how]
  /\ UNCHANGED <<tables, record, jobKey, rounds, manifest, locals, aborts>>
  /\ Provider(r)!JobEnds

\* The provider's record moves on, or is overwritten by a stale one.
RecordMoves(r, s) ==
  /\ FinalRecords => record[r] \notin Terminal
  /\ record' = [record EXCEPT ![r] = s]
  /\ UNCHANGED <<tables, job, jobKey, rounds, manifest, locals, aborts>>
  /\ Provider(r)!RecordMoves

-----------------------------------------------------------------------------
Init ==
  /\ rows = [r \in {} |-> NoCopy]
  /\ artifacts = {}
  /\ record = [r \in Runs |-> "none"]
  /\ job = [r \in Runs |-> "none"]
  /\ jobKey = [r \in Runs |-> NoKey]
  /\ rounds = [r \in Runs |-> 0]
  /\ manifest = [r \in Runs |-> 0]
  /\ pc = [c \in Clients |-> "idle"]
  /\ asked = [c \in Clients |-> NoKey]
  /\ mine = [c \in Clients |-> NoCopy]
  /\ todo = [c \in Clients |-> {}]
  /\ adding = [c \in Clients |-> {}]
  /\ aborts = 0

\* A call starts.
Call(c) ==
  \/ \E k \in Keys : FindRun(c, k)
  \/ \E r \in DOMAIN rows : GetRun(c, r) \/ CancelRun(c, r)
  \/ ListRuns(c)

\* A call goes on.
Proceed(c) ==
  \/ GateRefuses(c)
  \/ ProviderSubmit(c)
  \/ FirstStatus(c)
  \/ AddRow(c)
  \/ ProviderCancel(c)
  \/ CancelRefused(c)
  \/ StatusChanged(c)
  \/ StatusSame(c)
  \/ StatusUnknown(c)
  \/ UpdateRow(c)
  \/ Collect(c)
  \/ AddArtifact(c)
  \/ AddDuplicate(c)
  \/ SaveOutputs(c)

ProviderStep ==
  \E r \in Runs :
    \/ \E how \in {"ok", "bad"} : JobEnds(r, how)
    \/ \E s \in States : RecordMoves(r, s)

Next ==
  \/ \E c \in Clients : Call(c) \/ Proceed(c) \/ Abort(c)
  \/ ProviderStep

Spec == Init /\ [][Next]_vars

-----------------------------------------------------------------------------
(* Properties.                                                             *)

PcStates == {"idle", "submit", "first_status", "add_row", "cancel", "status",
             "update", "collect", "adding"}

TablesType ==
  /\ DOMAIN rows \subseteq Runs
  /\ rows \in [DOMAIN rows -> RunRows]
  /\ artifacts \subseteq Artifacts

ProviderType ==
  /\ record \in [Runs -> States \cup {"none"}]
  /\ job \in [Runs -> {"none", "active", "ok", "bad"}]
  /\ jobKey \in [Runs -> Keys \cup {NoKey}]
  /\ rounds \in [Runs -> 0 .. MaxRounds]
  /\ manifest \in [Runs -> 0 .. MaxRounds]

LocalsType ==
  /\ pc \in [Clients -> PcStates]
  /\ asked \in [Clients -> Keys \cup {NoKey}]
  /\ mine \in [Clients -> Copies \cup {NoCopy}]
  /\ todo \in [Clients -> SUBSET Copies]
  /\ adding \in [Clients -> SUBSET Artifacts]
  /\ \A c \in Clients : pc[c] = "submit" => asked[c] \in Keys
  /\ \A c \in Clients : pc[c] \notin {"idle", "submit"} =>
       mine[c] \in Copies /\ record[mine[c].run] # "none"

\* Every variable holds a value of its kind, and a call past its first read
\* works on a copy of the row of a run that its provider knows.
TypeOK == TablesType /\ ProviderType /\ LocalsType /\ aborts \in 0 .. MaxAborts

\* Every artifact id a run row lists is in the artifacts table, so run_outputs
\* finds all of them: a row is never ahead of the inserts, whichever stale copy
\* of it is written back and wherever a call stops.
OutputsRegistered == \A r \in DOMAIN rows : rows[r].outputs \subseteq artifacts

\* A run row lists no outputs or all of them, from one collection: a collection
\* that stops half way, or two that overlap, leave no partial or mixed list
\* (_collect_run_outputs writes the row only after its last insert).
OutputsWhole ==
  \A r \in DOMAIN rows :
    \/ rows[r].outputs = {}
    \/ \E n \in Rounds : rows[r].outputs = Collection(r, n)

\* Every artifact belongs to a run that has a row and whose job succeeded
\* (submit_job adds the row before it collects; _sync_run collects only what the
\* provider reports as succeeded).
ArtifactsAccountedFor ==
  \A a \in artifacts : a.run \in DOMAIN rows /\ job[a.run] = "ok"

\* An idempotency key has at most one run row (submit_job answers a known key
\* with its row).  Holds when clients do not overlap.
OneRowPerKey == \A r, s \in DOMAIN rows : rows[r].key = rows[s].key => r = s

\* An idempotency key is given to the provider at most once.
OneJobPerKey ==
  \A r, s \in Runs : record[r] # "none" /\ record[s] # "none" /\ jobKey[r] = jobKey[s] => r = s

\* An output is registered once, however often its run is reconciled or
\* submitted again, even when collections are cut short if the provider keeps
\* artifact ids (_collect_run_outputs).  Holds when clients do not overlap.
RegisteredOnce ==
  \A a, b \in artifacts :
    (a.run \in StableRuns \/ aborts = 0) /\ a.run = b.run /\ a.out = b.out => a = b
=============================================================================
