------------------------- MODULE ManagedRuns_proofs -------------------------
(***************************************************************************)
(* Proofs about managed runs, for any number of clients, keys, runs,       *)
(* outputs and interruptions, and for any provider that reports success    *)
(* only for a job that succeeded.                                          *)
(***************************************************************************)
EXTENDS ManagedRuns, TLAPS

-----------------------------------------------------------------------------
(* The inductive invariant.                                                *)

\* No outputs, or all outputs of one collection.
Whole(r, s) == s = {} \/ \E n \in Rounds : s = Collection(r, n)

\* What holds of a row and of every copy of it, however old.
Sound(r, status, outputs) ==
  /\ outputs \subseteq artifacts
  /\ Whole(r, outputs)
  /\ status = "succeeded" => job[r] = "ok"

RowsSound == \A r \in DOMAIN rows : Sound(r, rows[r].status, rows[r].outputs)

CopySound(m) == m.run \in DOMAIN rows /\ Sound(m.run, m.status, m.outputs)

RecordsSound ==
  \A r \in Runs : /\ record[r] = "succeeded" => job[r] = "ok"
                  /\ record[r] = "none" => job[r] = "none"

RowsRecorded == \A r \in DOMAIN rows : record[r] # "none"

\* A client in the middle of a collection has inserted what it noted, and what
\* it noted and what is left make up the collection.
Collecting(c) ==
  /\ mine[c].run \in DOMAIN rows
  /\ job[mine[c].run] = "ok"
  /\ mine[c].status = "succeeded"
  /\ mine[c].outputs \subseteq artifacts
  /\ \E n \in Rounds : mine[c].outputs \cup adding[c] = Collection(mine[c].run, n)

ClientSound(c) ==
  /\ pc[c] \in {"first_status", "add_row"} =>
       mine[c].outputs = {} /\ (mine[c].status = "succeeded" => job[mine[c].run] = "ok")
  /\ pc[c] \in {"cancel", "status", "update", "collect"} => CopySound(mine[c])
  /\ pc[c] = "collect" => NeedsCollect(mine[c])
  /\ pc[c] = "adding" => Collecting(c)
  /\ \A m \in todo[c] : CopySound(m)

RunsInv ==
  /\ TypeOK
  /\ RowsSound
  /\ RecordsSound
  /\ RowsRecorded
  /\ \A c \in Clients : ClientSound(c)
  /\ ArtifactsAccountedFor
-----------------------------------------------------------------------------
(* What no step takes back.                                                *)

Kept ==
  /\ artifacts \subseteq artifacts'
  /\ DOMAIN rows \subseteq DOMAIN rows'
  /\ \A r \in Runs : job[r] = "ok" => job'[r] = "ok"
  /\ \A r \in Runs : record[r] # "none" => record'[r] # "none"

SameLocals(c) ==
  pc'[c] = pc[c] /\ asked'[c] = asked[c] /\ mine'[c] = mine[c]
  /\ todo'[c] = todo[c] /\ adding'[c] = adding[c]

\* A sound row stays sound through a step that takes nothing back.
LEMMA SoundKept ==
  ASSUME Kept, NEW r \in Runs
  PROVE  \A st, os : Sound(r, st, os) => Sound(r, st, os)'
BY DEF Kept, Sound

\* So does a sound copy.
LEMMA CopyKept ==
  ASSUME Kept
  PROVE  \A m \in Copies : CopySound(m) => CopySound(m)'
<1> SUFFICES ASSUME NEW m \in Copies, CopySound(m) PROVE CopySound(m)'
  OBVIOUS
<1>1. m.run \in Runs
  BY DEF Copies
<1>2. Sound(m.run, m.status, m.outputs)'
  BY <1>1, SoundKept DEF CopySound
<1> QED
  BY <1>2 DEF CopySound, Kept

\* A client that a step leaves alone stays sound.
LEMMA ClientKept ==
  ASSUME RunsInv, Kept, NEW c \in Clients, SameLocals(c)
  PROVE  ClientSound(c)'
<1> USE DEF RunsInv, TypeOK, LocalsType
<1>1. ASSUME pc[c] \in {"first_status", "add_row"}
      PROVE  mine[c].outputs = {} /\ (mine[c].status = "succeeded" => job'[mine[c].run] = "ok")
  <2>1. mine[c] \in Copies /\ mine[c].run \in Runs
    BY <1>1 DEF Copies
  <2> QED
    BY <1>1, <2>1 DEF ClientSound, Kept
<1>2. ASSUME pc[c] \in {"cancel", "status", "update", "collect"} PROVE CopySound(mine[c])'
  <2>1. mine[c] \in Copies
    BY <1>2
  <2> QED
    BY <1>2, <2>1, CopyKept DEF ClientSound, CopySound, Sound, SameLocals
<1>3. ASSUME pc[c] = "adding" PROVE Collecting(c)'
  <2>1. mine[c].run \in Runs
    BY <1>3 DEF Copies
  <2> QED
    BY <1>3, <2>1 DEF ClientSound, Collecting, Kept, SameLocals
<1>4. \A m \in todo[c] : CopySound(m)'
  BY CopyKept DEF ClientSound
<1> QED
  BY <1>1, <1>2, <1>3, <1>4 DEF ClientSound, SameLocals, NeedsCollect

\* A client that a step leaves alone keeps a copy of a run its provider knows.
LEMMA LocalsKept ==
  ASSUME RunsInv, Kept, NEW c \in Clients, SameLocals(c)
  PROVE  /\ pc'[c] = "submit" => asked'[c] \in Keys
         /\ pc'[c] \notin {"idle", "submit"} => mine'[c] \in Copies /\ record'[mine'[c].run] # "none"
<1>1. ASSUME pc[c] \notin {"idle", "submit"} PROVE mine[c] \in Copies /\ mine[c].run \in Runs
  BY <1>1 DEF RunsInv, TypeOK, LocalsType, Copies
<1> QED
  BY <1>1 DEF RunsInv, TypeOK, LocalsType, Kept, SameLocals

\* One client moves and its new copy is sound: the locals of all clients are.
LEMMA OneClient ==
  ASSUME RunsInv, Kept, NEW c \in Clients,
         \A d \in Clients \ {c} : SameLocals(d),
         pc' \in [Clients -> PcStates], asked' \in [Clients -> Keys \cup {NoKey}],
         mine' \in [Clients -> Copies \cup {NoCopy}], todo' \in [Clients -> SUBSET Copies],
         adding' \in [Clients -> SUBSET Artifacts],
         pc'[c] = "submit" => asked'[c] \in Keys,
         pc'[c] \notin {"idle", "submit"} => mine'[c] \in Copies /\ record'[mine'[c].run] # "none",
         ClientSound(c)'
  PROVE  LocalsType' /\ \A d \in Clients : ClientSound(d)'
<1>1. \A d \in Clients \ {c} : ClientSound(d)'
  BY ClientKept
<1>2. LocalsType'
  BY LocalsKept DEF LocalsType
<1> QED
  BY <1>1, <1>2

\* A client that returns, or takes up the next sound copy, is sound.
LEMMA WorkSound ==
  ASSUME RunsInv, Kept, RowsRecorded', NEW c \in Clients, NEW ms \in SUBSET Copies, Work(c, ms),
         \A m \in ms : CopySound(m)'
  PROVE  LocalsType' /\ \A d \in Clients : ClientSound(d)'
<1> USE DEF RunsInv, TypeOK, LocalsType
<1>1. CASE Return(c)
  <2>1. /\ pc' \in [Clients -> PcStates] /\ asked' \in [Clients -> Keys \cup {NoKey}]
        /\ mine' \in [Clients -> Copies \cup {NoCopy}] /\ todo' \in [Clients -> SUBSET Copies]
        /\ adding' \in [Clients -> SUBSET Artifacts]
        /\ pc'[c] = "idle" /\ todo'[c] = {}
        /\ \A d \in Clients \ {c} : SameLocals(d)
    BY <1>1 DEF Return, PcStates, SameLocals
  <2>2. ClientSound(c)'
    BY <2>1 DEF ClientSound
  <2> QED
    BY <2>1, <2>2, OneClient
<1>2. ASSUME NEW m \in ms,
             pc' = [pc EXCEPT ![c] = "status"], mine' = [mine EXCEPT ![c] = m],
             todo' = [todo EXCEPT ![c] = ms \ {m}], UNCHANGED <<asked, adding>>
      PROVE LocalsType' /\ \A d \in Clients : ClientSound(d)'
  <2>1. /\ pc' \in [Clients -> PcStates] /\ asked' \in [Clients -> Keys \cup {NoKey}]
        /\ mine' \in [Clients -> Copies \cup {NoCopy}] /\ todo' \in [Clients -> SUBSET Copies]
        /\ adding' \in [Clients -> SUBSET Artifacts]
        /\ pc'[c] = "status" /\ mine'[c] = m /\ todo'[c] = ms \ {m}
        /\ \A d \in Clients \ {c} : SameLocals(d)
    BY <1>2 DEF PcStates, SameLocals
  <2>2. CopySound(mine[c])'
    BY <2>1 DEF CopySound, Sound
  <2>3. ClientSound(c)'
    BY <2>1, <2>2 DEF ClientSound
  <2>4. record'[m.run] # "none"
    BY DEF CopySound, RowsRecorded
  <2> QED
    BY <2>1, <2>3, <2>4, OneClient
<1> QED
  BY <1>1, <1>2 DEF Work

\* A client that has reconciled a sound copy goes on soundly.
LEMMA AfterSyncSound ==
  ASSUME RunsInv, Kept, RowsRecorded', NEW c \in Clients, NEW m \in Copies, AfterSync(c, m),
         CopySound(m)'
  PROVE  LocalsType' /\ \A d \in Clients : ClientSound(d)'
<1> USE DEF RunsInv, TypeOK, LocalsType
<1>0. todo[c] \in SUBSET Copies /\ \A n \in todo[c] : CopySound(n)'
  BY CopyKept DEF ClientSound
<1>1. CASE /\ NeedsCollect(m)
           /\ pc' = [pc EXCEPT ![c] = "collect"]
           /\ mine' = [mine EXCEPT ![c] = m]
           /\ UNCHANGED <<asked, todo, adding>>
  <2>1. /\ pc' \in [Clients -> PcStates] /\ asked' \in [Clients -> Keys \cup {NoKey}]
        /\ mine' \in [Clients -> Copies \cup {NoCopy}] /\ todo' \in [Clients -> SUBSET Copies]
        /\ adding' \in [Clients -> SUBSET Artifacts]
        /\ pc'[c] = "collect" /\ mine'[c] = m /\ todo'[c] = todo[c]
        /\ \A d \in Clients \ {c} : SameLocals(d)
    BY <1>1 DEF PcStates, SameLocals
  <2>2. CopySound(mine[c])' /\ NeedsCollect(mine[c])'
    BY <1>1, <2>1 DEF CopySound, Sound, NeedsCollect
  <2>3. ClientSound(c)'
    BY <1>0, <2>1, <2>2 DEF ClientSound
  <2>4. record'[m.run] # "none"
    BY DEF CopySound, RowsRecorded
  <2> QED
    BY <2>1, <2>3, <2>4, OneClient
<1>2. CASE Work(c, todo[c])
  BY <1>0, <1>2, WorkSound
<1> QED
  BY <1>1, <1>2 DEF AfterSync
-----------------------------------------------------------------------------
(* The steps.                                                              *)

\* A step that leaves the tables and the provider alone takes nothing back.
LEMMA QuietKept ==
  ASSUME RunsInv, UNCHANGED <<tables, provider>>
  PROVE  /\ Kept /\ TablesType' /\ ProviderType'
         /\ RowsSound' /\ RecordsSound' /\ RowsRecorded' /\ ArtifactsAccountedFor'
BY DEF RunsInv, TypeOK, Kept, TablesType, ProviderType, RowsSound, Sound, RecordsSound,
       RowsRecorded, ArtifactsAccountedFor, tables, provider

\* A copy read from the table is sound, and so is a saved copy.
LEMMA CopyRead ==
  ASSUME RunsInv, NEW r \in DOMAIN rows
  PROVE  Copy(r) \in Copies /\ CopySound(Copy(r)) /\ Copy(r).run = r /\ record[r] # "none"
<1>1. r \in Runs /\ rows[r] \in RunRows
  BY DEF RunsInv, TypeOK, TablesType
<1> QED
  BY <1>1 DEF RunsInv, Copy, Copies, RunRows, CopySound, RowsSound, RowsRecorded

\* Writing a sound copy back, however old, leaves every row sound.
LEMMA RowSaved ==
  ASSUME RunsInv, NEW m \in Copies, m.run \in DOMAIN rows, SaveRow(m),
         m.outputs \subseteq artifacts, Whole(m.run, m.outputs),
         m.status = "succeeded" => job[m.run] = "ok",
         UNCHANGED <<artifacts, provider>>
  PROVE  /\ Kept /\ TablesType' /\ ProviderType'
         /\ RowsSound' /\ RecordsSound' /\ RowsRecorded' /\ ArtifactsAccountedFor'
         /\ CopySound(m)'
<1> DEFINE row == [key |-> m.key, status |-> m.status, outputs |-> m.outputs]
<1>1. row \in RunRows
  BY DEF Copies, RunRows
<1>2. /\ DOMAIN rows' = DOMAIN rows
      /\ \A r \in DOMAIN rows : rows'[r] = IF r = m.run THEN row ELSE rows[r]
      /\ rows' \in [DOMAIN rows -> RunRows]
  BY <1>1 DEF SaveRow, RunsInv, TypeOK, TablesType
<1>3. Kept /\ TablesType' /\ ProviderType' /\ RecordsSound' /\ RowsRecorded'
      /\ ArtifactsAccountedFor'
  BY <1>2 DEF RunsInv, TypeOK, Kept, TablesType, ProviderType, RecordsSound, RowsRecorded,
              ArtifactsAccountedFor, provider
<1>4. RowsSound'
  BY <1>2 DEF RunsInv, RowsSound, Sound, Whole, provider
<1>5. CopySound(m)'
  BY <1>2 DEF CopySound, Sound, Whole, provider
<1> QED
  BY <1>3, <1>4, <1>5

\* A client about to use its copy outside a submission has a sound one.
LEMMA CopyHeld ==
  ASSUME RunsInv, NEW c \in Clients, pc[c] \in {"cancel", "status", "update", "collect", "adding"}
  PROVE  mine[c] \in Copies /\ mine[c].run \in DOMAIN rows /\ mine[c].run \in Runs
         /\ record[mine[c].run] \in States
         /\ todo[c] \in SUBSET Copies /\ \A m \in todo[c] : CopySound(m)
<1>1. mine[c] \in Copies /\ record[mine[c].run] # "none" /\ todo[c] \in SUBSET Copies
  BY DEF RunsInv, TypeOK, LocalsType
<1>2. mine[c].run \in Runs
  BY <1>1 DEF Copies
<1>3. record[mine[c].run] \in States
  BY <1>1, <1>2 DEF RunsInv, TypeOK, ProviderType
<1> QED
  BY <1>1, <1>2, <1>3 DEF RunsInv, ClientSound, CopySound, Collecting

\* The first step of a call: it reads, and writes nothing.
LEMMA CallStep == ASSUME RunsInv, NEW c \in Clients, Call(c) PROVE RunsInv'
<1> USE ManagedRunsAssumption
<1>1. UNCHANGED <<tables, provider, aborts>>
  BY DEF Call, FindRun, GetRun, CancelRun, ListRuns
<1>2. /\ Kept /\ TablesType' /\ ProviderType'
      /\ RowsSound' /\ RecordsSound' /\ RowsRecorded' /\ ArtifactsAccountedFor'
  BY <1>1, QuietKept
<1>3. LocalsType' /\ \A d \in Clients : ClientSound(d)'
  <2>1. ASSUME NEW k \in Keys, FindRun(c, k) PROVE LocalsType' /\ \A d \in Clients : ClientSound(d)'
    <3>1. /\ pc' \in [Clients -> PcStates] /\ asked' \in [Clients -> Keys \cup {NoKey}]
          /\ mine' \in [Clients -> Copies \cup {NoCopy}] /\ todo' \in [Clients -> SUBSET Copies]
          /\ adding' \in [Clients -> SUBSET Artifacts]
          /\ pc'[c] = "submit" /\ asked'[c] = k /\ todo'[c] = todo[c]
          /\ \A d \in Clients \ {c} : SameLocals(d)
      BY <2>1 DEF FindRun, RunsInv, TypeOK, LocalsType, PcStates, SameLocals
    <3>2. \A m \in todo[c] : CopySound(m)'
      BY <1>2, CopyKept DEF RunsInv, TypeOK, LocalsType, ClientSound
    <3>3. ClientSound(c)'
      BY <3>1, <3>2 DEF ClientSound
    <3> QED
      BY <1>2, <3>1, <3>3, OneClient
  <2>2. ASSUME NEW r \in DOMAIN rows, NEW to \in {"status", "cancel"}, pc[c] = "idle",
               pc' = [pc EXCEPT ![c] = to], mine' = [mine EXCEPT ![c] = Copy(r)],
               UNCHANGED <<asked, todo, adding>>
        PROVE  LocalsType' /\ \A d \in Clients : ClientSound(d)'
    <3>1. Copy(r) \in Copies /\ CopySound(Copy(r)) /\ Copy(r).run = r /\ record[r] # "none"
      BY CopyRead
    <3>2. /\ pc' \in [Clients -> PcStates] /\ asked' \in [Clients -> Keys \cup {NoKey}]
          /\ mine' \in [Clients -> Copies \cup {NoCopy}] /\ todo' \in [Clients -> SUBSET Copies]
          /\ adding' \in [Clients -> SUBSET Artifacts]
          /\ pc'[c] = to /\ mine'[c] = Copy(r) /\ todo'[c] = todo[c]
          /\ \A d \in Clients \ {c} : SameLocals(d)
      BY <2>2, <3>1 DEF RunsInv, TypeOK, LocalsType, PcStates, SameLocals
    <3>3. \A m \in todo[c] : CopySound(m)'
      BY <1>2, CopyKept DEF RunsInv, TypeOK, LocalsType, ClientSound
    <3>4. CopySound(mine[c])'
      BY <1>1, <3>1, <3>2 DEF CopySound, Sound, tables, provider
    <3>5. ClientSound(c)'
      BY <3>2, <3>3, <3>4 DEF ClientSound
    <3>6. record'[mine'[c].run] # "none"
      BY <1>1, <3>1, <3>2 DEF provider
    <3> QED
      BY <1>2, <3>1, <3>2, <3>5, <3>6, OneClient
  <2>3. CASE ListRuns(c)
    <3> DEFINE ms == {Copy(r) : r \in DOMAIN rows}
    <3>1. ms \in SUBSET Copies /\ \A m \in ms : CopySound(m)
      BY CopyRead
    <3>2. \A m \in ms : CopySound(m)'
      BY <1>2, <3>1, CopyKept
    <3>3. Work(c, ms)
      BY <2>3 DEF ListRuns
    <3> HIDE DEF ms
    <3> QED
      BY <1>2, <3>1, <3>2, <3>3, WorkSound
  <2> QED
    BY <2>1, <2>2, <2>3 DEF Call, GetRun, CancelRun
<1> QED
  BY <1>1, <1>2, <1>3 DEF RunsInv, TypeOK

\* A step that leaves the tables alone and keeps the provider's records sound.
LEMMA ProviderKept ==
  ASSUME RunsInv, Kept, UNCHANGED tables, RecordsSound'
  PROVE  TablesType' /\ RowsSound' /\ RowsRecorded' /\ ArtifactsAccountedFor'
<1>1. DOMAIN rows \subseteq Runs /\ \A a \in artifacts : a.run \in Runs
  BY DEF RunsInv, TypeOK, TablesType, Artifacts
<1>2. TablesType'
  BY DEF RunsInv, TypeOK, TablesType, tables
<1>3. RowsSound'
  BY <1>1 DEF RunsInv, Kept, RowsSound, Sound, tables
<1>4. RowsRecorded' /\ ArtifactsAccountedFor'
  BY <1>1 DEF RunsInv, Kept, RowsRecorded, ArtifactsAccountedFor, tables
<1> QED
  BY <1>2, <1>3, <1>4

\* A step of the provider leaves every client as sound as it was.
LEMMA AllClientsKept ==
  ASSUME RunsInv, Kept, UNCHANGED locals
  PROVE  LocalsType' /\ \A d \in Clients : ClientSound(d)'
<1>1. \A d \in Clients : SameLocals(d)
  BY DEF locals, SameLocals
<1>2. \A d \in Clients : ClientSound(d)'
  BY <1>1, ClientKept
<1>3. LocalsType'
  BY <1>1, LocalsKept DEF RunsInv, TypeOK, LocalsType, locals
<1> QED
  BY <1>2, <1>3

\* The provider's own steps: a job ends, or the record of a run is rewritten.
LEMMA ProviderStepSound == ASSUME RunsInv, ProviderStep PROVE RunsInv'
<1>1. UNCHANGED <<tables, locals, aborts>>
  BY DEF ProviderStep, JobEnds, RecordMoves
<1>2. Kept /\ ProviderType' /\ RecordsSound'
  <2>1. ASSUME NEW r \in Runs, NEW how \in {"ok", "bad"}, JobEnds(r, how)
        PROVE  Kept /\ ProviderType' /\ RecordsSound'
    <3>1. ProviderType'
      BY <2>1 DEF JobEnds, RunsInv, TypeOK, ProviderType
    <3>2. Kept /\ RecordsSound'
      BY <2>1 DEF JobEnds, Provider!JobEnds, RunsInv, TypeOK, ProviderType, Kept, RecordsSound, tables
    <3> QED
      BY <3>1, <3>2
  <2>2. ASSUME NEW r \in Runs, NEW s \in States, RecordMoves(r, s)
        PROVE  Kept /\ ProviderType' /\ RecordsSound'
    <3>1. ProviderType'
      BY <2>2 DEF RecordMoves, RunsInv, TypeOK, ProviderType
    <3>2. Kept /\ RecordsSound'
      BY <2>2 DEF RecordMoves, Provider!RecordMoves, RunsInv, TypeOK, ProviderType, Kept,
                  RecordsSound, tables, States
    <3> QED
      BY <3>1, <3>2
  <2> QED
    BY <2>1, <2>2 DEF ProviderStep
<1>3. TablesType' /\ RowsSound' /\ RowsRecorded' /\ ArtifactsAccountedFor'
  BY <1>1, <1>2, ProviderKept
<1>4. LocalsType' /\ \A d \in Clients : ClientSound(d)'
  BY <1>1, <1>2, AllClientsKept
<1> QED
  BY <1>1, <1>2, <1>3, <1>4 DEF RunsInv, TypeOK

\* A call that ends in an error, or is cut short, leaves nothing unsound behind.
LEMMA ReturnStep ==
  ASSUME RunsInv, NEW c \in Clients, Return(c), UNCHANGED <<tables, provider>>,
         aborts' \in 0 .. MaxAborts
  PROVE  RunsInv'
<1>1. /\ Kept /\ TablesType' /\ ProviderType'
      /\ RowsSound' /\ RecordsSound' /\ RowsRecorded' /\ ArtifactsAccountedFor'
  BY QuietKept
<1>2. Work(c, {})
  BY DEF Work
<1>3. LocalsType' /\ \A d \in Clients : ClientSound(d)'
  BY <1>1, <1>2, WorkSound
<1> QED
  BY <1>1, <1>3 DEF RunsInv, TypeOK

\* submit_job: the provider starts a job under a run id that no row has.
LEMMA SubmitStep == ASSUME RunsInv, NEW c \in Clients, ProviderSubmit(c) PROVE RunsInv'
<1> USE DEF RunsInv, TypeOK
<1>1. PICK r \in Runs :
        /\ record[r] = "none"
        /\ record' = [record EXCEPT ![r] = "queued"]
        /\ job' = [job EXCEPT ![r] = "active"]
        /\ jobKey' = [jobKey EXCEPT ![r] = asked[c]]
        /\ mine' = [mine EXCEPT ![c] =
                      [run |-> r, key |-> asked[c], status |-> "queued", outputs |-> {}]]
  BY DEF ProviderSubmit, Provider!Submit
<1>2. /\ pc[c] = "submit" /\ asked[c] \in Keys
      /\ pc' = [pc EXCEPT ![c] = "first_status"]
      /\ UNCHANGED <<tables, rounds, manifest, asked, todo, adding, aborts>>
  BY DEF ProviderSubmit, LocalsType
<1>3. ProviderType'
  BY <1>1, <1>2 DEF ProviderType, States
<1>4. Kept /\ RecordsSound'
  BY <1>1, <1>2 DEF ProviderType, Kept, RecordsSound, tables
<1>5. TablesType' /\ RowsSound' /\ RowsRecorded' /\ ArtifactsAccountedFor'
  BY <1>2, <1>4, ProviderKept
<1> DEFINE m == [run |-> r, key |-> asked[c], status |-> "queued", outputs |-> {}]
<1>6. m \in Copies
  BY <1>2 DEF Copies, States
<1>7. /\ pc' \in [Clients -> PcStates] /\ asked' \in [Clients -> Keys \cup {NoKey}]
      /\ mine' \in [Clients -> Copies \cup {NoCopy}] /\ todo' \in [Clients -> SUBSET Copies]
      /\ adding' \in [Clients -> SUBSET Artifacts]
      /\ pc'[c] = "first_status" /\ mine'[c] = m /\ todo'[c] = todo[c]
      /\ \A d \in Clients \ {c} : SameLocals(d)
  BY <1>1, <1>2, <1>6 DEF LocalsType, PcStates, SameLocals
<1>8. \A n \in todo[c] : CopySound(n)'
  BY <1>4, CopyKept DEF LocalsType, ClientSound
<1>9. ClientSound(c)'
  BY <1>7, <1>8 DEF ClientSound
<1>10. record'[m.run] # "none"
  BY <1>1 DEF ProviderType
<1>11. LocalsType' /\ \A d \in Clients : ClientSound(d)'
  BY <1>4, <1>6, <1>7, <1>9, <1>10, OneClient
<1> QED
  BY <1>2, <1>3, <1>4, <1>5, <1>11

\* A client that takes a newer status into its copy and keeps the rest of it.
LEMMA StatusTaken ==
  ASSUME RunsInv, NEW c \in Clients, NEW to \in {"add_row", "update"},
         pc[c] = (IF to = "add_row" THEN "first_status" ELSE "status"),
         mine' = [mine EXCEPT ![c].status = record[mine[c].run]],
         pc' = [pc EXCEPT ![c] = to],
         UNCHANGED <<tables, provider, asked, todo, adding, aborts>>
  PROVE  RunsInv'
<1> USE DEF RunsInv, TypeOK
<1> DEFINE r == mine[c].run
           m == [mine[c] EXCEPT !.status = record[r]]
<1>1. /\ Kept /\ TablesType' /\ ProviderType'
      /\ RowsSound' /\ RecordsSound' /\ RowsRecorded' /\ ArtifactsAccountedFor'
  BY QuietKept
<1>2. mine[c] \in Copies /\ r \in Runs /\ record[r] \in States
  <2>1. mine[c] \in Copies /\ record[r] # "none"
    BY DEF LocalsType
  <2> QED
    BY <2>1 DEF Copies, ProviderType
<1>3. /\ m \in Copies /\ m.run = r /\ m.outputs = mine[c].outputs /\ m.status = record[r]
      /\ mine' = [mine EXCEPT ![c] = m]
  BY <1>2 DEF Copies, LocalsType
<1> HIDE DEF m
<1>4. /\ pc' \in [Clients -> PcStates] /\ asked' \in [Clients -> Keys \cup {NoKey}]
      /\ mine' \in [Clients -> Copies \cup {NoCopy}] /\ todo' \in [Clients -> SUBSET Copies]
      /\ adding' \in [Clients -> SUBSET Artifacts]
      /\ pc'[c] = to /\ mine'[c] = m /\ todo'[c] = todo[c]
      /\ \A d \in Clients \ {c} : SameLocals(d)
  BY <1>3 DEF LocalsType, PcStates, SameLocals
<1>5. \A n \in todo[c] : CopySound(n)'
  BY <1>1, CopyKept DEF LocalsType, ClientSound
<1>6. m.status = "succeeded" => job'[m.run] = "ok"
  BY <1>2, <1>3 DEF RecordsSound, provider
<1>7. ClientSound(c)'
  <2>1. CASE to = "add_row"
    <3>1. mine[c].outputs = {}
      BY <2>1 DEF ClientSound
    <3> QED
      BY <1>3, <1>4, <1>5, <1>6, <2>1, <3>1 DEF ClientSound
  <2>2. CASE to = "update"
    <3>1. CopySound(mine[c])
      BY <2>2 DEF ClientSound
    <3>2. CopySound(mine[c])'
      BY <1>3, <1>4, <1>6, <3>1 DEF CopySound, Sound, tables
    <3> QED
      BY <1>4, <1>5, <2>2, <3>2 DEF ClientSound
  <2> QED
    BY <2>1, <2>2
<1>8. record'[m.run] # "none"
  BY <1>2, <1>3 DEF LocalsType, provider, States
<1>9. LocalsType' /\ \A d \in Clients : ClientSound(d)'
  BY <1>1, <1>3, <1>4, <1>7, <1>8, OneClient
<1> QED
  BY <1>1, <1>9

\* submit_job inserts the row of a job it has just started.
LEMMA AddRowStep == ASSUME RunsInv, NEW c \in Clients, AddRow(c) PROVE RunsInv'
<1> USE DEF RunsInv, TypeOK
<1>0. mine[c] \in Copies
  BY DEF AddRow, LocalsType
<1> PICK m \in Copies : m = mine[c]
  BY <1>0
<1> DEFINE row == [key |-> m.key, status |-> m.status, outputs |-> {}]
<1>1. pc[c] = "add_row" /\ AfterSync(c, m) /\ UNCHANGED <<artifacts, provider, aborts>>
  BY DEF AddRow
<1>2. /\ m \in Copies /\ record[m.run] # "none" /\ m.outputs = {}
      /\ m.status = "succeeded" => job[m.run] = "ok"
  BY <1>1 DEF LocalsType, ClientSound
<1>3. row \in RunRows /\ m.run \in Runs
  BY <1>2 DEF Copies, RunRows
<1>4. /\ DOMAIN rows' = DOMAIN rows \cup {m.run}
      /\ \A r \in DOMAIN rows' : rows'[r] = IF r = m.run THEN row ELSE rows[r]
  BY DEF AddRow
<1>5. TablesType' /\ ProviderType'
  <2>1. rows' = [r \in DOMAIN rows \cup {m.run} |-> IF r = m.run THEN row ELSE rows[r]]
    BY DEF AddRow
  <2>2. \A r \in DOMAIN rows \cup {m.run} : (IF r = m.run THEN row ELSE rows[r]) \in RunRows
    BY <1>3 DEF TablesType
  <2>3. rows' \in [DOMAIN rows' -> RunRows]
    BY <1>4, <2>1, <2>2
  <2> QED
    BY <1>1, <1>3, <1>4, <2>3 DEF TablesType, ProviderType, provider
<1>6. Kept /\ RecordsSound' /\ RowsRecorded' /\ ArtifactsAccountedFor'
  BY <1>1, <1>2, <1>4 DEF Kept, RecordsSound, RowsRecorded, ArtifactsAccountedFor, provider
<1>7. RowsSound'
  BY <1>1, <1>2, <1>4 DEF RowsSound, Sound, Whole, provider
<1>8. CopySound(m)'
  <2>1. m.run \in DOMAIN rows' /\ m.outputs = {} /\ (m.status = "succeeded" => job'[m.run] = "ok")
    BY <1>1, <1>2, <1>4 DEF provider
  <2> QED
    BY <2>1 DEF CopySound, Sound, Whole
<1>9. LocalsType' /\ \A d \in Clients : ClientSound(d)'
  BY <1>1, <1>2, <1>6, <1>8, AfterSyncSound
<1> QED
  BY <1>1, <1>5, <1>6, <1>7, <1>9

\* cancel_run: the provider stops the job; the copy goes on to be reconciled.
LEMMA CancelStep == ASSUME RunsInv, NEW c \in Clients, ProviderCancel(c) PROVE RunsInv'
<1> USE DEF RunsInv, TypeOK
<1> DEFINE r == mine[c].run
<1>1. /\ pc[c] = "cancel"
      /\ record' = [record EXCEPT ![r] = "cancelled"]
      /\ job' = [job EXCEPT ![r] = IF @ = "active" THEN "bad" ELSE @]
      /\ pc' = [pc EXCEPT ![c] = "status"]
      /\ UNCHANGED <<tables, jobKey, rounds, manifest, asked, mine, todo, adding, aborts>>
  BY DEF ProviderCancel
<1>2. /\ mine[c] \in Copies /\ r \in Runs /\ record[r] \in States
      /\ todo[c] \in SUBSET Copies /\ \A m \in todo[c] : CopySound(m)
      /\ CopySound(mine[c])
  BY <1>1, CopyHeld DEF ClientSound
<1>3. ProviderType'
  BY <1>1, <1>2 DEF ProviderType, States
<1>4. Kept /\ RecordsSound'
  BY <1>1, <1>2 DEF ProviderType, Kept, RecordsSound, tables, States
<1>5. TablesType' /\ RowsSound' /\ RowsRecorded' /\ ArtifactsAccountedFor'
  BY <1>1, <1>4, ProviderKept
<1>6. /\ pc' \in [Clients -> PcStates] /\ pc'[c] = "status"
      /\ \A d \in Clients \ {c} : SameLocals(d)
  BY <1>1 DEF LocalsType, PcStates, SameLocals
<1>7. CopySound(mine[c])' /\ \A m \in todo[c] : CopySound(m)'
  <2>1. \A m \in Copies : CopySound(m) => CopySound(m)'
    BY <1>4, CopyKept
  <2>2. PICK m \in Copies : m = mine[c]
    BY <1>2
  <2>3. CopySound(m)'
    BY <1>2, <2>1, <2>2
  <2> QED
    BY <1>1, <1>2, <2>1, <2>2, <2>3 DEF CopySound, Sound
<1>8. ClientSound(c)'
  BY <1>1, <1>6, <1>7 DEF ClientSound
<1>9. record'[mine'[c].run] # "none"
  BY <1>1, <1>2 DEF ProviderType
<1>10. LocalsType' /\ \A d \in Clients : ClientSound(d)'
  BY <1>1, <1>2, <1>4, <1>6, <1>8, <1>9, OneClient DEF LocalsType
<1> QED
  BY <1>1, <1>3, <1>4, <1>5, <1>10

\* The status did not change: the copy is collected or left.
LEMMA StatusSameStep == ASSUME RunsInv, NEW c \in Clients, StatusSame(c) PROVE RunsInv'
<1>1. pc[c] = "status" /\ AfterSync(c, mine[c]) /\ UNCHANGED <<tables, provider, aborts>>
  BY DEF StatusSame
<1>2. /\ Kept /\ TablesType' /\ ProviderType'
      /\ RowsSound' /\ RecordsSound' /\ RowsRecorded' /\ ArtifactsAccountedFor'
  BY <1>1, QuietKept
<1>3. PICK m \in Copies : m = mine[c]
  BY <1>1, CopyHeld
<1>4. CopySound(m)'
  BY <1>1, <1>2, <1>3, CopyKept DEF RunsInv, ClientSound
<1>5. LocalsType' /\ \A d \in Clients : ClientSound(d)'
  BY <1>1, <1>2, <1>3, <1>4, AfterSyncSound
<1> QED
  BY <1>1, <1>2, <1>5 DEF RunsInv, TypeOK

\* The provider knows nothing of the run: the client goes on to its next copy.
LEMMA StatusUnknownStep == ASSUME RunsInv, NEW c \in Clients, StatusUnknown(c) PROVE RunsInv'
<1>1. pc[c] = "status" /\ Work(c, todo[c]) /\ UNCHANGED <<tables, provider, aborts>>
  BY DEF StatusUnknown
<1>2. /\ Kept /\ TablesType' /\ ProviderType'
      /\ RowsSound' /\ RecordsSound' /\ RowsRecorded' /\ ArtifactsAccountedFor'
  BY <1>1, QuietKept
<1>3. PICK ms \in SUBSET Copies : ms = todo[c] /\ \A m \in ms : CopySound(m)
  BY <1>1, CopyHeld
<1>4. \A m \in ms : CopySound(m)'
  BY <1>2, <1>3, CopyKept
<1>5. LocalsType' /\ \A d \in Clients : ClientSound(d)'
  BY <1>1, <1>2, <1>3, <1>4, WorkSound
<1> QED
  BY <1>1, <1>2, <1>5 DEF RunsInv, TypeOK

\* _sync_run writes its copy of the row, however old the copy is.
LEMMA UpdateRowStep == ASSUME RunsInv, NEW c \in Clients, UpdateRow(c) PROVE RunsInv'
<1>1. /\ pc[c] = "update" /\ SaveRow(mine[c]) /\ AfterSync(c, mine[c])
      /\ UNCHANGED <<artifacts, provider, aborts>>
  BY DEF UpdateRow
<1>2. PICK m \in Copies : m = mine[c]
  BY <1>1, CopyHeld
<1>3. CopySound(m)
  BY <1>1, <1>2 DEF RunsInv, ClientSound
<1>4. /\ Kept /\ TablesType' /\ ProviderType'
      /\ RowsSound' /\ RecordsSound' /\ RowsRecorded' /\ ArtifactsAccountedFor'
      /\ CopySound(m)'
  BY <1>1, <1>2, <1>3, RowSaved DEF CopySound, Sound
<1>5. LocalsType' /\ \A d \in Clients : ClientSound(d)'
  BY <1>1, <1>2, <1>4, AfterSyncSound
<1> QED
  BY <1>1, <1>4, <1>5 DEF RunsInv, TypeOK

\* provider.collect gives the client one whole collection to insert.
LEMMA CollectStep == ASSUME RunsInv, NEW c \in Clients, Collect(c) PROVE RunsInv'
<1> USE DEF RunsInv, TypeOK
<1> DEFINE r == mine[c].run
<1>1. PICK n \in Rounds :
        /\ rounds' \in {rounds, [rounds EXCEPT ![r] = n]}
        /\ manifest' \in {manifest, [manifest EXCEPT ![r] = n]}
        /\ adding' = [adding EXCEPT ![c] = Collection(r, n)]
  <2> DEFINE filed == r \in StableRuns /\ manifest[r] # 0
             n == IF filed THEN manifest[r] ELSE rounds[r] + 1
  <2>1. n \in Rounds
    BY DEF Collect
  <2>2. rounds' = [rounds EXCEPT ![r] = IF filed THEN @ ELSE n]
        /\ manifest' = [manifest EXCEPT ![r] = IF r \in StableRuns THEN n ELSE @]
        /\ adding' = [adding EXCEPT ![c] = Collection(r, n)]
    BY DEF Collect
  <2> HIDE DEF n, filed
  <2>3. rounds' \in {rounds, [rounds EXCEPT ![r] = n]}
    BY <2>2 DEF ProviderType
  <2>4. manifest' \in {manifest, [manifest EXCEPT ![r] = n]}
    BY <2>2 DEF ProviderType
  <2> QED
    BY <2>1, <2>2, <2>3, <2>4
<1>2. /\ pc[c] = "collect" /\ pc' = [pc EXCEPT ![c] = "adding"]
      /\ UNCHANGED <<tables, record, job, jobKey, asked, mine, todo, aborts>>
  BY DEF Collect
<1>3. /\ mine[c] \in Copies /\ r \in Runs /\ r \in DOMAIN rows /\ record[r] \in States
      /\ todo[c] \in SUBSET Copies /\ \A m \in todo[c] : CopySound(m)
      /\ CopySound(mine[c]) /\ NeedsCollect(mine[c])
  BY <1>2, CopyHeld DEF ClientSound
<1>4. ProviderType'
  <2>1. n \in 0 .. MaxRounds
    BY ManagedRunsAssumption DEF Rounds
  <2>2. rounds' \in [Runs -> 0 .. MaxRounds] /\ manifest' \in [Runs -> 0 .. MaxRounds]
    BY <1>1, <2>1 DEF ProviderType
  <2> QED
    BY <1>2, <2>2 DEF ProviderType
<1>5. Kept /\ RecordsSound'
  BY <1>2 DEF Kept, RecordsSound, tables
<1>6. TablesType' /\ RowsSound' /\ RowsRecorded' /\ ArtifactsAccountedFor'
  BY <1>2, <1>5, ProviderKept
<1>7. Collection(r, n) \subseteq Artifacts
  BY <1>3 DEF Collection, Artifacts
<1>8. /\ pc' \in [Clients -> PcStates] /\ pc'[c] = "adding"
      /\ adding' \in [Clients -> SUBSET Artifacts] /\ adding'[c] = Collection(r, n)
      /\ \A d \in Clients \ {c} : SameLocals(d)
  BY <1>1, <1>2, <1>7 DEF LocalsType, PcStates, SameLocals
<1>9. \A m \in todo[c] : CopySound(m)'
  BY <1>3, <1>5, CopyKept
<1>10. Collecting(c)'
  <2>1. r \in DOMAIN rows' /\ job'[r] = "ok" /\ mine'[c].status = "succeeded" /\ mine'[c].outputs = {}
    BY <1>2, <1>3 DEF CopySound, Sound, NeedsCollect, tables
  <2>2. mine'[c].outputs \cup adding'[c] = Collection(mine'[c].run, n)
    BY <1>2, <1>8, <2>1
  <2> QED
    BY <1>2, <2>1, <2>2 DEF Collecting
<1>11. ClientSound(c)'
  BY <1>2, <1>8, <1>9, <1>10 DEF ClientSound
<1>12. LocalsType' /\ \A d \in Clients : ClientSound(d)'
  BY <1>2, <1>3, <1>5, <1>8, <1>11, OneClient DEF LocalsType, States
<1> QED
  BY <1>2, <1>4, <1>5, <1>6, <1>12

\* _collect_run_outputs inserts one artifact and notes its id.
LEMMA AddArtifactStep == ASSUME RunsInv, NEW c \in Clients, AddArtifact(c) PROVE RunsInv'
<1> USE DEF RunsInv, TypeOK
<1>1. PICK a \in FirstOf(adding[c]) :
        /\ artifacts' = artifacts \cup {a}
        /\ adding' = [adding EXCEPT ![c] = @ \ {a}]
        /\ mine' = [mine EXCEPT ![c].outputs = @ \cup {a}]
  BY DEF AddArtifact
<1>2. pc[c] = "adding" /\ UNCHANGED <<rows, provider, pc, asked, todo, aborts>>
  BY DEF AddArtifact
<1>3. /\ mine[c] \in Copies /\ mine[c].run \in Runs /\ record[mine[c].run] \in States
      /\ todo[c] \in SUBSET Copies /\ \A m \in todo[c] : CopySound(m)
      /\ Collecting(c)
  BY <1>2, CopyHeld DEF ClientSound
<1>4. PICK n \in Rounds : mine[c].outputs \cup adding[c] = Collection(mine[c].run, n)
  BY <1>3 DEF Collecting
<1>5. a \in adding[c] /\ a \in Artifacts /\ a.run = mine[c].run
  BY <1>4 DEF FirstOf, LocalsType, Collection
<1>6. TablesType' /\ ProviderType'
  BY <1>1, <1>2, <1>5 DEF TablesType, ProviderType, provider
<1>7. Kept /\ RecordsSound' /\ RowsRecorded'
  BY <1>1, <1>2 DEF Kept, RecordsSound, RowsRecorded, provider
<1>8. RowsSound'
  BY <1>1, <1>2 DEF RowsSound, Sound, provider
<1>9. ArtifactsAccountedFor'
  BY <1>1, <1>2, <1>3, <1>5 DEF ArtifactsAccountedFor, Collecting, provider
<1> DEFINE m == [mine[c] EXCEPT !.outputs = @ \cup {a}]
<1>10. /\ m \in Copies /\ m.run = mine[c].run /\ m.status = mine[c].status
       /\ m.outputs = mine[c].outputs \cup {a}
       /\ mine' = [mine EXCEPT ![c] = m]
  BY <1>1, <1>3, <1>5 DEF Copies, LocalsType
<1> HIDE DEF m
<1>11. /\ mine' \in [Clients -> Copies \cup {NoCopy}] /\ mine'[c] = m
       /\ adding' \in [Clients -> SUBSET Artifacts] /\ adding'[c] = adding[c] \ {a}
       /\ \A d \in Clients \ {c} : SameLocals(d)
  BY <1>1, <1>2, <1>10 DEF LocalsType, SameLocals
<1>12. \A k \in todo[c] : CopySound(k)'
  BY <1>3, <1>7, CopyKept
<1>13. Collecting(c)'
  <2>1. mine'[c].outputs \cup adding'[c] = Collection(mine'[c].run, n)
    BY <1>4, <1>5, <1>10, <1>11
  <2>2. mine'[c].outputs \subseteq artifacts'
    BY <1>1, <1>3, <1>10, <1>11 DEF Collecting
  <2> QED
    BY <1>2, <1>3, <1>10, <1>11, <2>1, <2>2 DEF Collecting, provider
<1>14. ClientSound(c)'
  BY <1>2, <1>12, <1>13 DEF ClientSound
<1>15. record'[m.run] # "none"
  BY <1>2, <1>3, <1>10 DEF provider, States
<1>16. LocalsType' /\ \A d \in Clients : ClientSound(d)'
  BY <1>2, <1>7, <1>10, <1>11, <1>14, <1>15, OneClient DEF LocalsType
<1> QED
  BY <1>2, <1>6, <1>7, <1>8, <1>9, <1>16

\* Everything is inserted: the row is written with a whole collection.
LEMMA SaveOutputsStep == ASSUME RunsInv, NEW c \in Clients, SaveOutputs(c) PROVE RunsInv'
<1>1. /\ pc[c] = "adding" /\ adding[c] = {} /\ SaveRow(mine[c]) /\ Work(c, todo[c])
      /\ UNCHANGED <<artifacts, provider, aborts>>
  BY DEF SaveOutputs
<1>2. /\ mine[c] \in Copies /\ todo[c] \in SUBSET Copies /\ \A m \in todo[c] : CopySound(m)
      /\ Collecting(c)
  BY <1>1, CopyHeld DEF RunsInv, ClientSound
<1>3. Whole(mine[c].run, mine[c].outputs)
  BY <1>1, <1>2 DEF Whole, Collecting
<1>4. PICK m \in Copies : m = mine[c]
  BY <1>2
<1>5. /\ Kept /\ TablesType' /\ ProviderType'
      /\ RowsSound' /\ RecordsSound' /\ RowsRecorded' /\ ArtifactsAccountedFor'
  BY <1>1, <1>2, <1>3, <1>4, RowSaved DEF Collecting
<1>6. \A k \in todo[c] : CopySound(k)'
  BY <1>2, <1>5, CopyKept
<1>7. LocalsType' /\ \A d \in Clients : ClientSound(d)'
  <2>1. PICK ms \in SUBSET Copies : ms = todo[c]
    BY <1>2
  <2> QED
    BY <1>1, <1>5, <1>6, <2>1, WorkSound
<1> QED
  BY <1>1, <1>5, <1>7 DEF RunsInv, TypeOK

\* Every step of a client, of the provider and of a crash keeps the invariant.
LEMMA RunsStep == RunsInv /\ [Next]_vars => RunsInv'
<1> SUFFICES ASSUME RunsInv, [Next]_vars PROVE RunsInv'
  OBVIOUS
<1>0. aborts \in 0 .. MaxAborts /\ MaxAborts \in Nat
  BY ManagedRunsAssumption DEF RunsInv, TypeOK
<1>1. ASSUME NEW c \in Clients, Call(c) PROVE RunsInv'
  BY <1>1, CallStep
<1>2. ASSUME NEW c \in Clients, GateRefuses(c) \/ CancelRefused(c) \/ AddDuplicate(c) PROVE RunsInv'
  <2>1. Return(c) /\ UNCHANGED <<tables, provider>> /\ aborts' = aborts
    BY <1>2 DEF GateRefuses, CancelRefused, AddDuplicate
  <2> QED
    BY <1>0, <2>1, ReturnStep
<1>3. ASSUME NEW c \in Clients, ProviderSubmit(c) PROVE RunsInv'
  BY <1>3, SubmitStep
<1>4. ASSUME NEW c \in Clients, FirstStatus(c) PROVE RunsInv'
  BY <1>4, StatusTaken DEF FirstStatus
<1>5. ASSUME NEW c \in Clients, AddRow(c) PROVE RunsInv'
  BY <1>5, AddRowStep
<1>6. ASSUME NEW c \in Clients, ProviderCancel(c) PROVE RunsInv'
  BY <1>6, CancelStep
<1>7. ASSUME NEW c \in Clients, StatusChanged(c) PROVE RunsInv'
  BY <1>7, StatusTaken DEF StatusChanged
<1>8. ASSUME NEW c \in Clients, StatusSame(c) PROVE RunsInv'
  BY <1>8, StatusSameStep
<1>17. ASSUME NEW c \in Clients, StatusUnknown(c) PROVE RunsInv'
  BY <1>17, StatusUnknownStep
<1>9. ASSUME NEW c \in Clients, UpdateRow(c) PROVE RunsInv'
  BY <1>9, UpdateRowStep
<1>10. ASSUME NEW c \in Clients, Collect(c) PROVE RunsInv'
  BY <1>10, CollectStep
<1>11. ASSUME NEW c \in Clients, AddArtifact(c) PROVE RunsInv'
  BY <1>11, AddArtifactStep
<1>12. ASSUME NEW c \in Clients, SaveOutputs(c) PROVE RunsInv'
  BY <1>12, SaveOutputsStep
<1>13. ASSUME NEW c \in Clients, Abort(c) PROVE RunsInv'
  <2>1. Return(c) /\ UNCHANGED <<tables, provider>> /\ aborts' \in 0 .. MaxAborts
    BY <1>0, <1>13 DEF Abort
  <2> QED
    BY <2>1, ReturnStep
<1>14. CASE ProviderStep
  BY <1>14, ProviderStepSound
<1>15. CASE UNCHANGED vars
  <2>1. UNCHANGED <<tables, provider, locals>> /\ aborts' = aborts
    BY <1>15 DEF vars
  <2>2. /\ Kept /\ TablesType' /\ ProviderType'
        /\ RowsSound' /\ RecordsSound' /\ RowsRecorded' /\ ArtifactsAccountedFor'
    BY <2>1, QuietKept
  <2>3. LocalsType' /\ \A d \in Clients : ClientSound(d)'
    BY <2>1, <2>2, AllClientsKept
  <2> QED
    BY <1>0, <2>1, <2>2, <2>3 DEF RunsInv, TypeOK
<1>16. ASSUME NEW c \in Clients, Proceed(c) PROVE RunsInv'
  BY <1>2, <1>3, <1>4, <1>5, <1>6, <1>7, <1>8, <1>9, <1>10, <1>11, <1>12, <1>16, <1>17 DEF Proceed
<1> QED
  BY <1>1, <1>13, <1>14, <1>15, <1>16 DEF Next

-----------------------------------------------------------------------------
(* The theorems.                                                           *)

\* A workspace without runs satisfies the invariant.
LEMMA RunsInit == Init => RunsInv
<1> SUFFICES ASSUME Init PROVE RunsInv
  OBVIOUS
<1>1. TypeOK
  BY ManagedRunsAssumption DEF Init, TypeOK, TablesType, ProviderType, LocalsType, PcStates
<1>2. \A c \in Clients : ClientSound(c)
  BY DEF Init, ClientSound
<1> QED
  BY <1>1, <1>2 DEF Init, RunsInv, RowsSound, RecordsSound, RowsRecorded, ArtifactsAccountedFor

\* The invariant holds in every reachable state.
THEOREM RunsInvariant == Spec => []RunsInv
BY RunsInit, RunsStep, PTL DEF Spec

\* Type correctness: the tables, the provider's records and the callers' copies
\* keep their kinds, and a call past its first read works on a run that its
\* provider knows (submit_job, get_run, cancel_run, _sync_run).
THEOREM TypeCorrect == Spec => []TypeOK
<1>1. RunsInv => TypeOK
  BY DEF RunsInv
<1> QED
  BY <1>1, RunsInvariant, PTL

\* Whatever stale copies _sync_run and _collect_run_outputs write back, and
\* wherever calls stop, the output ids of a run row are registered artifacts.
THEOREM OutputsAreRegistered == Spec => []OutputsRegistered
<1>1. RunsInv => OutputsRegistered
  BY DEF RunsInv, RowsSound, Sound, OutputsRegistered
<1> QED
  BY <1>1, RunsInvariant, PTL

\* A run row lists the outputs of one whole collection or none, with any number
\* of overlapping and interrupted calls of _collect_run_outputs.
THEOREM OutputsAreWhole == Spec => []OutputsWhole
<1>1. RunsInv => OutputsWhole
  BY DEF RunsInv, RowsSound, Sound, Whole, OutputsWhole
<1> QED
  BY <1>1, RunsInvariant, PTL

\* Every registered artifact belongs to a run with a row and a successful job,
\* although no transaction joins the artifacts, the row and the provider.
THEOREM ArtifactsAreAccountedFor == Spec => []ArtifactsAccountedFor
<1>1. RunsInv => ArtifactsAccountedFor
  BY DEF RunsInv
<1> QED
  BY <1>1, RunsInvariant, PTL
-----------------------------------------------------------------------------
(* Keys.  A row and every copy of it carry the key their job was submitted *)
(* with, whatever the clients do.                                          *)

RowKeysTrue == \A r \in DOMAIN rows : rows[r].key = jobKey[r]

CopyKeysTrue(c) ==
  /\ pc[c] \notin {"idle", "submit"} => mine[c].key = jobKey[mine[c].run]
  /\ \A m \in todo[c] : m.key = jobKey[m.run]

KeysInv == RowKeysTrue /\ \A c \in Clients : CopyKeysTrue(c)

\* What a client holds once it has taken up the next copy or returned.
LEMMA WorkOutcome ==
  ASSUME RunsInv, NEW c \in Clients, NEW ms, Work(c, ms)
  PROVE  /\ \A d \in Clients \ {c} : SameLocals(d)
         /\ \/ pc'[c] = "idle" /\ todo'[c] = {}
            \/ \E m \in ms : pc'[c] = "status" /\ mine'[c] = m /\ todo'[c] = ms \ {m}
BY DEF RunsInv, TypeOK, LocalsType, Work, Return, SameLocals

\* What a client holds once it has reconciled the copy m.
LEMMA AfterSyncOutcome ==
  ASSUME RunsInv, NEW c \in Clients, NEW m, AfterSync(c, m)
  PROVE  /\ \A d \in Clients \ {c} : SameLocals(d)
         /\ \/ pc'[c] = "idle" /\ todo'[c] = {}
            \/ pc'[c] = "collect" /\ mine'[c] = m /\ todo'[c] = todo[c]
            \/ \E n \in todo[c] : pc'[c] = "status" /\ mine'[c] = n /\ todo'[c] = todo[c] \ {n}
<1>1. CASE Work(c, todo[c])
  BY <1>1, WorkOutcome
<1>2. CASE /\ pc' = [pc EXCEPT ![c] = "collect"]
           /\ mine' = [mine EXCEPT ![c] = m]
           /\ UNCHANGED <<asked, todo, adding>>
  BY <1>2 DEF RunsInv, TypeOK, LocalsType, SameLocals
<1> QED
  BY <1>1, <1>2 DEF AfterSync

\* A copy in use is of a run that its provider knows.
LEMMA CopyRecorded ==
  ASSUME RunsInv, NEW c \in Clients
  PROVE  /\ pc[c] \notin {"idle", "submit"} =>
              mine[c] \in Copies /\ mine[c].run \in Runs /\ record[mine[c].run] # "none"
         /\ \A m \in todo[c] : m \in Copies /\ m.run \in DOMAIN rows /\ m.run \in Runs
                               /\ record[m.run] # "none"
<1>1. \A m \in Copies : m.run \in Runs
  BY DEF Copies
<1> QED
  BY <1>1 DEF RunsInv, TypeOK, LocalsType, ClientSound, CopySound, RowsRecorded

\* The key of a job that was submitted does not change.
KeysFixed == \A r \in Runs : record[r] # "none" => jobKey'[r] = jobKey[r]

\* A client that a step leaves alone keeps the true keys on its copies.
LEMMA KeysOfOthers ==
  ASSUME RunsInv, KeysInv, KeysFixed, NEW c \in Clients, SameLocals(c)
  PROVE  CopyKeysTrue(c)'
BY CopyRecorded DEF KeysInv, KeysFixed, CopyKeysTrue, SameLocals

\* Writing back a copy with its true key leaves every key true.
LEMMA KeySaved ==
  ASSUME RunsInv, KeysInv, NEW m, m.run \in DOMAIN rows, m.key = jobKey[m.run], SaveRow(m),
         jobKey' = jobKey
  PROVE  RowKeysTrue'
<1>1. /\ DOMAIN rows' = DOMAIN rows
      /\ \A r \in DOMAIN rows : rows'[r] = IF r = m.run
           THEN [key |-> m.key, status |-> m.status, outputs |-> m.outputs] ELSE rows[r]
  BY DEF SaveRow, RunsInv, TypeOK, TablesType
<1> QED
  BY <1>1 DEF KeysInv, RowKeysTrue

\* A submission gives the job its key, and the copy the same one.
LEMMA SubmitKeys ==
  ASSUME RunsInv, KeysInv, NEW c \in Clients, ProviderSubmit(c)
  PROVE  KeysInv'
<1>1. PICK r \in Runs :
        /\ record[r] = "none"
        /\ jobKey' = [jobKey EXCEPT ![r] = asked[c]]
        /\ mine' = [mine EXCEPT ![c] =
                      [run |-> r, key |-> asked[c], status |-> "queued", outputs |-> {}]]
  BY DEF ProviderSubmit, Provider!Submit
<1>2. UNCHANGED <<tables, asked, todo, adding>> /\ pc' = [pc EXCEPT ![c] = "first_status"]
  BY DEF ProviderSubmit
<1>3. KeysFixed
  BY <1>1 DEF KeysFixed, RunsInv, TypeOK, ProviderType
<1>4. \A d \in Clients \ {c} : SameLocals(d)
  BY <1>1, <1>2 DEF SameLocals, RunsInv, TypeOK, LocalsType
<1>5. mine'[c].key = asked[c] /\ mine'[c].run = r /\ jobKey'[r] = asked[c] /\ todo'[c] = todo[c]
  BY <1>1, <1>2 DEF RunsInv, TypeOK, LocalsType, ProviderType
<1>6. CopyKeysTrue(c)'
  BY <1>3, <1>5, CopyRecorded DEF KeysInv, KeysFixed, CopyKeysTrue
<1>7. RowKeysTrue'
  BY <1>2, <1>3 DEF KeysInv, RowKeysTrue, KeysFixed, RunsInv, TypeOK, TablesType, RowsRecorded, tables
<1> QED
  BY <1>3, <1>4, <1>6, <1>7, KeysOfOthers DEF KeysInv

\* The step of a client that submits nothing and writes no row leaves keys true.
LEMMA QuietKeys ==
  ASSUME RunsInv, KeysInv, jobKey' = jobKey, UNCHANGED rows,
         NEW c \in Clients, \A d \in Clients \ {c} : SameLocals(d), CopyKeysTrue(c)'
  PROVE  KeysInv'
<1>1. KeysFixed
  BY DEF KeysFixed
<1> QED
  BY <1>1, KeysOfOthers DEF KeysInv, RowKeysTrue

\* A call that reads rows copies their keys.
LEMMA CallKeys ==
  ASSUME RunsInv, KeysInv, NEW c \in Clients, Call(c)
  PROVE  KeysInv'
<1>1. UNCHANGED <<tables, provider>>
  BY DEF Call, FindRun, GetRun, CancelRun, ListRuns
<1>2. \A r \in DOMAIN rows : Copy(r).key = jobKey[r] /\ Copy(r).run = r
  BY DEF KeysInv, RowKeysTrue, Copy
<1>3. ASSUME NEW k \in Keys, FindRun(c, k)
      PROVE  (\A d \in Clients \ {c} : SameLocals(d)) /\ CopyKeysTrue(c)'
  BY <1>1, <1>3 DEF FindRun, KeysInv, CopyKeysTrue, SameLocals, RunsInv, TypeOK, LocalsType, provider
<1>4. ASSUME NEW r \in DOMAIN rows, GetRun(c, r) \/ CancelRun(c, r)
      PROVE  (\A d \in Clients \ {c} : SameLocals(d)) /\ CopyKeysTrue(c)'
  <2>1. mine' = [mine EXCEPT ![c] = Copy(r)] /\ UNCHANGED <<asked, todo, adding>>
        /\ pc' \in {[pc EXCEPT ![c] = "status"], [pc EXCEPT ![c] = "cancel"]}
    BY <1>4 DEF GetRun, CancelRun
  <2>2. mine'[c] = Copy(r) /\ \A d \in Clients \ {c} : SameLocals(d)
    BY <2>1 DEF SameLocals, RunsInv, TypeOK, LocalsType
  <2> QED
    BY <1>1, <1>2, <2>1, <2>2 DEF KeysInv, CopyKeysTrue, provider
<1>5. CASE ListRuns(c)
  <2> DEFINE ms == {Copy(r) : r \in DOMAIN rows}
  <2>1. \A m \in ms : m.key = jobKey[m.run]
    BY <1>2
  <2>2. Work(c, ms)
    BY <1>5 DEF ListRuns
  <2> HIDE DEF ms
  <2>3. (\A d \in Clients \ {c} : SameLocals(d)) /\ CopyKeysTrue(c)'
    BY <1>1, <2>1, <2>2, WorkOutcome DEF CopyKeysTrue, provider
  <2> QED
    BY <1>1, <2>3, QuietKeys DEF tables, provider
<1> QED
  BY <1>1, <1>3, <1>4, <1>5, QuietKeys DEF Call, tables, provider

\* A client that goes on after its copy m was reconciled keeps keys true.
LEMMA AfterSyncKeys ==
  ASSUME RunsInv, KeysInv, NEW c \in Clients, NEW m, AfterSync(c, m), m.key = jobKey[m.run],
         jobKey' = jobKey
  PROVE  \A d \in Clients : CopyKeysTrue(d)'
<1>1. CopyKeysTrue(c)'
  BY AfterSyncOutcome DEF KeysInv, CopyKeysTrue
<1>2. KeysFixed
  BY DEF KeysFixed
<1> QED
  BY <1>1, <1>2, AfterSyncOutcome, KeysOfOthers

\* So does one that goes on to its next copy.
LEMMA WorkKeys ==
  ASSUME RunsInv, KeysInv, NEW c \in Clients, Work(c, todo[c]), jobKey' = jobKey
  PROVE  \A d \in Clients : CopyKeysTrue(d)'
<1>1. CopyKeysTrue(c)'
  <2>1. \A m \in todo[c] : m.key = jobKey[m.run]
    BY DEF KeysInv, CopyKeysTrue
  <2> QED
    BY <2>1, WorkOutcome DEF CopyKeysTrue
<1>2. KeysFixed
  BY DEF KeysFixed
<1> QED
  BY <1>1, <1>2, WorkOutcome, KeysOfOthers

\* A call that returns has no copies left.
LEMMA ReturnKeys ==
  ASSUME RunsInv, KeysInv, NEW c \in Clients, Return(c), UNCHANGED <<tables, provider>>
  PROVE  KeysInv'
<1>1. pc'[c] = "idle" /\ todo'[c] = {} /\ \A d \in Clients \ {c} : SameLocals(d)
  BY DEF Return, SameLocals, RunsInv, TypeOK, LocalsType
<1>2. CopyKeysTrue(c)'
  BY <1>1 DEF CopyKeysTrue
<1> QED
  BY <1>1, <1>2, QuietKeys DEF tables, provider

\* Every step of a call that is under way keeps keys true.
LEMMA ProceedKeys ==
  ASSUME RunsInv, KeysInv, NEW c \in Clients, Proceed(c)
  PROVE  KeysInv'
<1> DEFINE m == mine[c]
<1>0. pc[c] \notin {"idle", "submit"} =>
        /\ m \in Copies /\ m.run \in Runs /\ record[m.run] # "none" /\ m.key = jobKey[m.run]
  BY CopyRecorded DEF KeysInv, CopyKeysTrue
<1>1. CASE GateRefuses(c) \/ CancelRefused(c) \/ AddDuplicate(c)
  BY <1>1, ReturnKeys DEF GateRefuses, CancelRefused, AddDuplicate
<1>2. CASE ProviderSubmit(c)
  BY <1>2, SubmitKeys
<1>3. CASE FirstStatus(c) \/ StatusChanged(c)
  <2>1. /\ mine' = [mine EXCEPT ![c].status = record[m.run]]
        /\ pc' \in {[pc EXCEPT ![c] = "add_row"], [pc EXCEPT ![c] = "update"]}
        /\ pc[c] \in {"first_status", "status"}
        /\ UNCHANGED <<tables, provider, asked, todo, adding>>
    BY <1>3 DEF FirstStatus, StatusChanged
  <2>2. /\ mine'[c].run = m.run /\ mine'[c].key = m.key
        /\ \A d \in Clients \ {c} : SameLocals(d)
    BY <1>0, <2>1 DEF RunsInv, TypeOK, LocalsType, SameLocals, Copies
  <2>3. CopyKeysTrue(c)'
    BY <1>0, <2>1, <2>2 DEF KeysInv, CopyKeysTrue, provider
  <2> QED
    BY <2>1, <2>2, <2>3, QuietKeys DEF tables, provider
<1>4. CASE AddRow(c)
  <2>1. pc[c] = "add_row" /\ AfterSync(c, m) /\ jobKey' = jobKey
    BY <1>4 DEF AddRow, provider
  <2>2. \A d \in Clients : CopyKeysTrue(d)'
    BY <1>0, <2>1, AfterSyncKeys
  <2>3. /\ DOMAIN rows' = DOMAIN rows \cup {m.run}
        /\ \A r \in DOMAIN rows' : rows'[r].key = IF r = m.run THEN m.key ELSE rows[r].key
    BY <1>4 DEF AddRow
  <2>4. RowKeysTrue'
    BY <1>0, <2>1, <2>3 DEF KeysInv, RowKeysTrue
  <2> QED
    BY <2>2, <2>4 DEF KeysInv
<1>5. CASE ProviderCancel(c)
  <2>1. /\ pc[c] = "cancel" /\ pc' = [pc EXCEPT ![c] = "status"]
        /\ UNCHANGED <<tables, jobKey, asked, mine, todo, adding>>
    BY <1>5 DEF ProviderCancel
  <2>2. \A d \in Clients \ {c} : SameLocals(d)
    BY <2>1 DEF RunsInv, TypeOK, LocalsType, SameLocals
  <2>3. CopyKeysTrue(c)'
    BY <1>0, <2>1 DEF KeysInv, CopyKeysTrue
  <2> QED
    BY <2>1, <2>2, <2>3, QuietKeys DEF tables
<1>6. CASE StatusSame(c)
  <2>1. pc[c] = "status" /\ AfterSync(c, m) /\ UNCHANGED <<rows, jobKey>>
    BY <1>6 DEF StatusSame, provider, tables
  <2>2. \A d \in Clients : CopyKeysTrue(d)'
    BY <1>0, <2>1, AfterSyncKeys
  <2> QED
    BY <2>1, <2>2 DEF KeysInv, RowKeysTrue
<1>7. CASE StatusUnknown(c)
  <2>1. Work(c, todo[c]) /\ UNCHANGED <<rows, jobKey>>
    BY <1>7 DEF StatusUnknown, provider, tables
  <2>2. \A d \in Clients : CopyKeysTrue(d)'
    BY <2>1, WorkKeys
  <2> QED
    BY <2>1, <2>2 DEF KeysInv, RowKeysTrue
<1>8. CASE UpdateRow(c)
  <2>1. pc[c] = "update" /\ SaveRow(m) /\ AfterSync(c, m) /\ jobKey' = jobKey
    BY <1>8 DEF UpdateRow, provider
  <2>2. m.run \in DOMAIN rows
    BY <2>1, CopyHeld
  <2>3. RowKeysTrue'
    BY <1>0, <2>1, <2>2, KeySaved
  <2>4. \A d \in Clients : CopyKeysTrue(d)'
    BY <1>0, <2>1, AfterSyncKeys
  <2> QED
    BY <2>3, <2>4 DEF KeysInv
<1>9. CASE Collect(c)
  <2>1. /\ pc[c] = "collect" /\ pc' = [pc EXCEPT ![c] = "adding"]
        /\ UNCHANGED <<tables, jobKey, asked, mine, todo>>
        /\ \E as : adding' = [adding EXCEPT ![c] = as]
    BY <1>9 DEF Collect
  <2>2. \A d \in Clients \ {c} : SameLocals(d)
    BY <2>1 DEF RunsInv, TypeOK, LocalsType, SameLocals
  <2>3. CopyKeysTrue(c)'
    BY <1>0, <2>1 DEF KeysInv, CopyKeysTrue
  <2> QED
    BY <2>1, <2>2, <2>3, QuietKeys DEF tables
<1>10. CASE AddArtifact(c)
  <2>1. PICK a \in FirstOf(adding[c]) :
          /\ adding' = [adding EXCEPT ![c] = @ \ {a}]
          /\ mine' = [mine EXCEPT ![c].outputs = @ \cup {a}]
    BY <1>10 DEF AddArtifact
  <2>2. pc[c] = "adding" /\ UNCHANGED <<rows, provider, pc, asked, todo>>
    BY <1>10 DEF AddArtifact
  <2>3. /\ mine'[c].run = m.run /\ mine'[c].key = m.key
        /\ \A d \in Clients \ {c} : SameLocals(d)
    BY <1>0, <2>1, <2>2 DEF RunsInv, TypeOK, LocalsType, SameLocals, Copies
  <2>4. CopyKeysTrue(c)'
    BY <1>0, <2>2, <2>3 DEF KeysInv, CopyKeysTrue, provider
  <2> QED
    BY <2>2, <2>3, <2>4, QuietKeys DEF provider
<1>11. CASE SaveOutputs(c)
  <2>1. pc[c] = "adding" /\ SaveRow(m) /\ Work(c, todo[c]) /\ jobKey' = jobKey
    BY <1>11 DEF SaveOutputs, provider
  <2>2. m.run \in DOMAIN rows
    BY <2>1, CopyHeld
  <2>3. RowKeysTrue'
    BY <1>0, <2>1, <2>2, KeySaved
  <2>4. \A d \in Clients : CopyKeysTrue(d)'
    BY <2>1, WorkKeys
  <2> QED
    BY <2>3, <2>4 DEF KeysInv
<1> QED
  BY <1>1, <1>2, <1>3, <1>4, <1>5, <1>6, <1>7, <1>8, <1>9, <1>10, <1>11 DEF Proceed

\* Every step keeps keys true.
LEMMA KeysStep == RunsInv /\ KeysInv /\ [Next]_vars => KeysInv'
<1> SUFFICES ASSUME RunsInv, KeysInv, [Next]_vars PROVE KeysInv'
  OBVIOUS
<1>1. ASSUME NEW c \in Clients, Call(c) PROVE KeysInv'
  BY <1>1, CallKeys
<1>2. ASSUME NEW c \in Clients, Proceed(c) PROVE KeysInv'
  BY <1>2, ProceedKeys
<1>3. ASSUME NEW c \in Clients, Abort(c) PROVE KeysInv'
  BY <1>3, ReturnKeys DEF Abort
<1>4. ASSUME UNCHANGED <<rows, jobKey, locals>> PROVE KeysInv'
  BY <1>4 DEF KeysInv, RowKeysTrue, CopyKeysTrue, locals
<1>5. CASE ProviderStep
  BY <1>4, <1>5 DEF ProviderStep, JobEnds, RecordMoves, tables
<1>6. CASE UNCHANGED vars
  BY <1>4, <1>6 DEF vars, tables, provider
<1> QED
  BY <1>1, <1>2, <1>3, <1>5, <1>6 DEF Next

\* A run row and the job it stands for have the same idempotency key, with any
\* number of clients that submit, reconcile and cancel at once: no stale copy
\* that _sync_run or _collect_run_outputs writes back moves a key to another run.
THEOREM KeysAreTrue == Spec => []KeysInv
<1>1. Init => KeysInv
  BY DEF Init, KeysInv, RowKeysTrue, CopyKeysTrue
<1> QED
  BY <1>1, KeysStep, RunsInvariant, PTL DEF Spec

-----------------------------------------------------------------------------
(* One client.  Nothing below holds when calls overlap.                     *)

Alone == \A c, d \in Clients : c = d

\* No row has the key.
Unused(k) == \A r \in DOMAIN rows : rows[r].key # k

\* What a client that works alone knows of the runs table: the key it submits
\* is unused, and its copies are current.
Serial(c) ==
  /\ pc[c] = "submit" => Unused(asked[c])
  /\ pc[c] \in {"first_status", "add_row"} => Unused(mine[c].key)
  /\ pc[c] \in {"idle", "submit", "first_status", "add_row", "cancel"} => todo[c] = {}
  /\ pc[c] \in {"cancel", "status", "update", "collect"} =>
       mine[c].outputs = rows[mine[c].run].outputs
  /\ \A m \in todo[c] : m.outputs = rows[m.run].outputs /\ m.run # mine[c].run
  /\ \A m, n \in todo[c] : m.run = n.run => m = n

\* Without interruptions every job has a row, or a client about to insert it.
JobsHeld ==
  \A r \in Runs : record[r] # "none" =>
    \/ r \in DOMAIN rows
    \/ \E c \in Clients : pc[c] \in {"first_status", "add_row"} /\ mine[c].run = r

SerialInv ==
  /\ RunsInv /\ KeysInv
  /\ \A c \in Clients : Serial(c)
  /\ OneRowPerKey
  /\ aborts = 0 => JobsHeld /\ OneJobPerKey

\* The artifacts of a run.
Of(r) == {a \in artifacts : a.run = r}

\* A provider that keeps ids has every artifact of a run on file.
OnFile ==
  /\ \A a \in artifacts : a.run \in StableRuns => a.round = manifest[a.run]
  /\ \A c \in Clients : pc[c] = "adding" =>
       \A a \in adding[c] : a.run \in StableRuns => a.round = manifest[a.run]

\* Without interruptions the artifacts of a run are the ones its row lists, or
\* the ones the collection under way has inserted.
Listed ==
  /\ \A r \in DOMAIN rows :
       (\A c \in Clients : ~(pc[c] = "adding" /\ mine[c].run = r)) => Of(r) = rows[r].outputs
  /\ \A c \in Clients : pc[c] = "adding" =>
       /\ Of(mine[c].run) = mine[c].outputs
       /\ adding[c] \cap mine[c].outputs = {}

RegisteredInv == SerialInv /\ OnFile /\ (aborts = 0 => Listed)

\* What a lone client knows of the table stays true while it neither writes a
\* row nor moves.
LEMMA SerialKept ==
  ASSUME NEW c \in Clients, Serial(c), SameLocals(c), UNCHANGED rows
  PROVE  Serial(c)'
BY DEF Serial, SameLocals, Unused

\* A row was written from the copy m: the rows of other runs, and the keys of
\* all, are what they were.
LEMMA SavedRows ==
  ASSUME RunsInv, KeysInv, NEW m \in Copies, m.run \in DOMAIN rows, m.key = jobKey[m.run],
         SaveRow(m)
  PROVE  /\ DOMAIN rows' = DOMAIN rows
         /\ \A r \in DOMAIN rows : rows'[r].key = rows[r].key
         /\ \A r \in DOMAIN rows \ {m.run} : rows'[r] = rows[r]
         /\ rows'[m.run].outputs = m.outputs
BY DEF SaveRow, RunsInv, TypeOK, TablesType, KeysInv, RowKeysTrue

\* A lone client that goes on to one of its copies holds current ones.
LEMMA WorkSerial ==
  ASSUME RunsInv, NEW c \in Clients, NEW ms, Work(c, ms),
         \A m \in ms : m.outputs = rows'[m.run].outputs,
         \A m, n \in ms : m.run = n.run => m = n
  PROVE  Serial(c)'
<1>1. CASE pc'[c] = "idle" /\ todo'[c] = {}
  BY <1>1 DEF Serial
<1>2. CASE \E m \in ms : pc'[c] = "status" /\ mine'[c] = m /\ todo'[c] = ms \ {m}
  BY <1>2 DEF Serial
<1> QED
  BY <1>1, <1>2, WorkOutcome

\* So does one that has reconciled the copy m.
LEMMA AfterSyncSerial ==
  ASSUME RunsInv, NEW c \in Clients, NEW m, AfterSync(c, m),
         m.outputs = rows'[m.run].outputs,
         \A n \in todo[c] : n.outputs = rows'[n.run].outputs /\ n.run # m.run,
         \A n, k \in todo[c] : n.run = k.run => n = k
  PROVE  Serial(c)'
<1>1. CASE pc'[c] = "idle" /\ todo'[c] = {}
  BY <1>1 DEF Serial
<1>2. CASE pc'[c] = "collect" /\ mine'[c] = m /\ todo'[c] = todo[c]
  BY <1>2 DEF Serial
<1>3. CASE \E n \in todo[c] : pc'[c] = "status" /\ mine'[c] = n /\ todo'[c] = todo[c] \ {n}
  BY <1>3 DEF Serial
<1> QED
  BY <1>1, <1>2, <1>3, AfterSyncOutcome

\* A call that starts alone reads the table as it is.
LEMMA CallSerial ==
  ASSUME RunsInv, NEW c \in Clients, Serial(c), Call(c)
  PROVE  Serial(c)'
<1>1. UNCHANGED rows /\ pc[c] = "idle" /\ todo[c] = {}
  BY DEF Call, FindRun, GetRun, CancelRun, ListRuns, tables, Serial
<1>2. \A r \in DOMAIN rows : Copy(r).run = r /\ Copy(r).outputs = rows[r].outputs
  BY DEF Copy
<1>3. ASSUME NEW k \in Keys, FindRun(c, k) PROVE Serial(c)'
  <2>1. pc'[c] = "submit" /\ asked'[c] = k /\ todo'[c] = {} /\ Unused(k)
    BY <1>1, <1>3 DEF FindRun, Unused, RunsInv, TypeOK, LocalsType
  <2> QED
    BY <1>1, <2>1 DEF Serial, Unused
<1>4. ASSUME NEW r \in DOMAIN rows, GetRun(c, r) \/ CancelRun(c, r) PROVE Serial(c)'
  <2>1. mine'[c] = Copy(r) /\ todo'[c] = {} /\ pc'[c] \in {"status", "cancel"}
    BY <1>1, <1>4 DEF GetRun, CancelRun, RunsInv, TypeOK, LocalsType
  <2> QED
    BY <1>1, <1>2, <2>1 DEF Serial
<1>5. CASE ListRuns(c)
  <2> DEFINE ms == {Copy(r) : r \in DOMAIN rows}
  <2>1. /\ \A m \in ms : m.outputs = rows'[m.run].outputs
        /\ \A m, n \in ms : m.run = n.run => m = n
    BY <1>1, <1>2
  <2>2. Work(c, ms)
    BY <1>5 DEF ListRuns
  <2> HIDE DEF ms
  <2> QED
    BY <2>1, <2>2, WorkSerial
<1> QED
  BY <1>3, <1>4, <1>5 DEF Call

\* A call that goes on alone keeps an unused key or current copies.
LEMMA ProceedSerial ==
  ASSUME RunsInv, KeysInv, NEW c \in Clients, Serial(c), Proceed(c)
  PROVE  Serial(c)'
<1> DEFINE m == mine[c]
<1>0. /\ pc[c] \notin {"idle", "submit"} =>
           m \in Copies /\ m.run \in Runs /\ m.key = jobKey[m.run]
      /\ \A n \in todo[c] : n \in Copies /\ n.run \in DOMAIN rows
  BY CopyRecorded DEF KeysInv, CopyKeysTrue
<1>1. CASE GateRefuses(c) \/ CancelRefused(c) \/ AddDuplicate(c)
  <2>1. pc'[c] = "idle" /\ todo'[c] = {}
    BY <1>1 DEF GateRefuses, CancelRefused, AddDuplicate, Return, RunsInv, TypeOK, LocalsType
  <2> QED
    BY <2>1 DEF Serial
<1>2. CASE ProviderSubmit(c)
  <2>1. /\ pc[c] = "submit" /\ pc'[c] = "first_status" /\ mine'[c].key = asked[c]
        /\ UNCHANGED <<rows, todo>>
    BY <1>2 DEF ProviderSubmit, RunsInv, TypeOK, LocalsType, tables
  <2> QED
    BY <2>1 DEF Serial, Unused
<1>3. CASE FirstStatus(c)
  <2>1. /\ pc[c] = "first_status" /\ pc'[c] = "add_row" /\ UNCHANGED <<rows, todo>>
        /\ mine' = [mine EXCEPT ![c].status = record[m.run]]
    BY <1>3 DEF FirstStatus, RunsInv, TypeOK, LocalsType, tables
  <2>2. mine'[c].key = m.key
    BY <1>0, <2>1 DEF RunsInv, TypeOK, LocalsType, Copies
  <2> QED
    BY <2>1, <2>2 DEF Serial, Unused
<1>4. CASE StatusChanged(c)
  <2>1. /\ pc[c] = "status" /\ pc'[c] = "update" /\ UNCHANGED <<rows, todo>>
        /\ mine' = [mine EXCEPT ![c].status = record[m.run]]
    BY <1>4 DEF StatusChanged, RunsInv, TypeOK, LocalsType, tables
  <2>2. mine'[c].run = m.run /\ mine'[c].outputs = m.outputs
    BY <1>0, <2>1 DEF RunsInv, TypeOK, LocalsType, Copies
  <2> QED
    BY <2>1, <2>2 DEF Serial
<1>5. CASE AddRow(c)
  <2>1. /\ pc[c] = "add_row" /\ AfterSync(c, m) /\ todo[c] = {}
        /\ rows'[m.run].outputs = {} /\ m.outputs = {}
    BY <1>5 DEF AddRow, Serial, RunsInv, ClientSound
  <2> QED
    BY <2>1, AfterSyncSerial
<1>6. CASE ProviderCancel(c)
  <2>1. pc[c] = "cancel" /\ pc'[c] = "status" /\ UNCHANGED <<rows, todo, mine>>
    BY <1>6 DEF ProviderCancel, RunsInv, TypeOK, LocalsType, tables
  <2> QED
    BY <2>1 DEF Serial
<1>7. CASE StatusSame(c)
  <2>1. pc[c] = "status" /\ AfterSync(c, m) /\ UNCHANGED rows
    BY <1>7 DEF StatusSame, tables
  <2> QED
    BY <2>1, AfterSyncSerial DEF Serial
<1>8. CASE StatusUnknown(c)
  <2>1. Work(c, todo[c]) /\ UNCHANGED rows
    BY <1>8 DEF StatusUnknown, tables
  <2> QED
    BY <2>1, WorkSerial DEF Serial
<1>9. CASE UpdateRow(c)
  <2>1. pc[c] = "update" /\ SaveRow(m) /\ AfterSync(c, m)
    BY <1>9 DEF UpdateRow
  <2>2. m.run \in DOMAIN rows
    BY <2>1, CopyHeld
  <2>3. /\ \A r \in DOMAIN rows \ {m.run} : rows'[r] = rows[r]
        /\ rows'[m.run].outputs = m.outputs
    BY <1>0, <2>1, <2>2, SavedRows
  <2> QED
    BY <1>0, <2>1, <2>3, AfterSyncSerial DEF Serial
<1>10. CASE Collect(c)
  <2>1. pc[c] = "collect" /\ pc'[c] = "adding" /\ UNCHANGED <<rows, todo, mine>>
    BY <1>10 DEF Collect, RunsInv, TypeOK, LocalsType, tables
  <2> QED
    BY <2>1 DEF Serial
<1>11. CASE AddArtifact(c)
  <2>1. PICK a : mine' = [mine EXCEPT ![c].outputs = @ \cup {a}]
    BY <1>11 DEF AddArtifact
  <2>2. pc[c] = "adding" /\ UNCHANGED <<rows, pc, todo>>
    BY <1>11 DEF AddArtifact
  <2>3. mine'[c].run = m.run
    BY <1>0, <2>1, <2>2 DEF RunsInv, TypeOK, LocalsType, Copies
  <2> QED
    BY <2>2, <2>3 DEF Serial
<1>12. CASE SaveOutputs(c)
  <2>1. pc[c] = "adding" /\ SaveRow(m) /\ Work(c, todo[c])
    BY <1>12 DEF SaveOutputs
  <2>2. m.run \in DOMAIN rows
    BY <2>1, CopyHeld
  <2>3. /\ \A r \in DOMAIN rows \ {m.run} : rows'[r] = rows[r]
        /\ rows'[m.run].outputs = m.outputs
    BY <1>0, <2>1, <2>2, SavedRows
  <2> QED
    BY <1>0, <2>1, <2>3, WorkSerial DEF Serial
<1> QED
  BY <1>1, <1>2, <1>3, <1>4, <1>5, <1>6, <1>7, <1>8, <1>9, <1>10, <1>11, <1>12 DEF Proceed

\* Only an insertion adds to the runs table, and no step changes a row's key.
LEMMA KeysOfRows ==
  ASSUME RunsInv, KeysInv, [Next]_vars, \A c \in Clients : ~AddRow(c)
  PROVE  DOMAIN rows' = DOMAIN rows /\ \A r \in DOMAIN rows : rows'[r].key = rows[r].key
<1>1. ASSUME NEW c \in Clients, pc[c] \in {"update", "adding"}, SaveRow(mine[c])
      PROVE  DOMAIN rows' = DOMAIN rows /\ \A r \in DOMAIN rows : rows'[r].key = rows[r].key
  <2>1. mine[c] \in Copies /\ mine[c].run \in DOMAIN rows /\ mine[c].key = jobKey[mine[c].run]
    BY <1>1, CopyHeld DEF KeysInv, CopyKeysTrue
  <2> QED
    BY <1>1, <2>1, SavedRows
<1>2. ASSUME NEW c \in Clients, Proceed(c)
      PROVE  DOMAIN rows' = DOMAIN rows /\ \A r \in DOMAIN rows : rows'[r].key = rows[r].key
  <2>1. CASE UpdateRow(c) \/ SaveOutputs(c)
    BY <1>1, <2>1 DEF UpdateRow, SaveOutputs
  <2>2. CASE \/ GateRefuses(c) \/ ProviderSubmit(c) \/ FirstStatus(c) \/ ProviderCancel(c)
             \/ CancelRefused(c) \/ StatusChanged(c) \/ StatusSame(c) \/ StatusUnknown(c)
             \/ Collect(c) \/ AddArtifact(c) \/ AddDuplicate(c)
    <3>1. rows' = rows
      BY <2>2 DEF GateRefuses, ProviderSubmit, FirstStatus, ProviderCancel, CancelRefused,
                  StatusChanged, StatusSame, StatusUnknown, Collect, AddArtifact, AddDuplicate, tables
    <3> QED
      BY <3>1
  <2> QED
    BY <1>2, <2>1, <2>2 DEF Proceed
<1>3. ASSUME NEW c \in Clients, Call(c) \/ Abort(c) PROVE rows' = rows
  BY <1>3 DEF Call, FindRun, GetRun, CancelRun, ListRuns, Abort, tables
<1>4. CASE ProviderStep
  BY <1>4 DEF ProviderStep, JobEnds, RecordMoves, tables
<1>5. CASE UNCHANGED vars
  BY <1>5 DEF vars, tables
<1> QED
  BY <1>2, <1>3, <1>4, <1>5 DEF Next

\* Only a submission makes the provider know a run, or gives a job a key.
LEMMA OnlySubmissions ==
  ASSUME RunsInv, [Next]_vars, \A c \in Clients : ~ProviderSubmit(c)
  PROVE  jobKey' = jobKey /\ \A r \in Runs : record'[r] # "none" => record[r] # "none"
<1>1. ASSUME NEW c \in Clients, Call(c) \/ Abort(c) PROVE UNCHANGED provider
  BY <1>1 DEF Call, FindRun, GetRun, CancelRun, ListRuns, Abort
<1>2. ASSUME NEW c \in Clients, Proceed(c), ~ProviderCancel(c) PROVE UNCHANGED <<record, jobKey>>
  BY <1>2 DEF Proceed, GateRefuses, FirstStatus, AddRow, CancelRefused, StatusChanged, StatusSame,
              StatusUnknown, UpdateRow, Collect, AddArtifact, AddDuplicate, SaveOutputs, provider
<1>3. ASSUME NEW c \in Clients, ProviderCancel(c)
      PROVE  jobKey' = jobKey /\ \A r \in Runs : record'[r] # "none" => record[r] # "none"
  <2>1. /\ pc[c] = "cancel" /\ jobKey' = jobKey
        /\ record' = [record EXCEPT ![mine[c].run] = "cancelled"]
    BY <1>3 DEF ProviderCancel
  <2> QED
    BY <2>1, CopyRecorded DEF RunsInv, TypeOK, ProviderType
<1>4. CASE ProviderStep
  BY <1>4 DEF ProviderStep, JobEnds, RecordMoves, Provider!RecordMoves, RunsInv, TypeOK, ProviderType
<1>5. CASE UNCHANGED vars
  BY <1>5 DEF vars, provider
<1> QED
  BY <1>1, <1>2, <1>3, <1>4, <1>5 DEF Next, provider

\* A lone client keeps its view of the table true at every step.
LEMMA SerialStep ==
  ASSUME Alone, RunsInv, KeysInv, \A c \in Clients : Serial(c), [Next]_vars
  PROVE  \A c \in Clients : Serial(c)'
<1> SUFFICES ASSUME NEW c \in Clients PROVE Serial(c)'
  OBVIOUS
<1>1. CASE Call(c)
  BY <1>1, CallSerial
<1>2. CASE Proceed(c)
  BY <1>2, ProceedSerial
<1>3. CASE Abort(c)
  <2>1. pc'[c] = "idle" /\ todo'[c] = {}
    BY <1>3 DEF Abort, Return, RunsInv, TypeOK, LocalsType
  <2> QED
    BY <2>1 DEF Serial
<1>4. CASE ProviderStep
  BY <1>4, SerialKept DEF ProviderStep, JobEnds, RecordMoves, tables, locals, SameLocals
<1>5. CASE UNCHANGED vars
  BY <1>5, SerialKept DEF vars, tables, locals, SameLocals
<1> QED
  BY <1>1, <1>2, <1>3, <1>4, <1>5 DEF Next, Alone

\* An insertion uses a key that no row has.
LEMMA OneRowStep ==
  ASSUME Alone, RunsInv, KeysInv, \A c \in Clients : Serial(c), OneRowPerKey, [Next]_vars
  PROVE  OneRowPerKey'
<1>1. CASE \A c \in Clients : ~AddRow(c)
  BY <1>1, KeysOfRows DEF OneRowPerKey
<1>2. ASSUME NEW c \in Clients, AddRow(c) PROVE OneRowPerKey'
  <2>1. Unused(mine[c].key)
    BY <1>2 DEF AddRow, Serial
  <2>2. /\ DOMAIN rows' = DOMAIN rows \cup {mine[c].run}
        /\ \A r \in DOMAIN rows' :
             rows'[r].key = IF r = mine[c].run THEN mine[c].key ELSE rows[r].key
    BY <1>2 DEF AddRow
  <2> QED
    BY <2>1, <2>2 DEF OneRowPerKey, Unused
<1> QED
  BY <1>1, <1>2

\* While no call was cut short, a job is submitted under a key without a job.
LEMMA OneJobStep ==
  ASSUME Alone, RunsInv, RunsInv', KeysInv, \A c \in Clients : Serial(c),
         JobsHeld, OneJobPerKey, [Next]_vars, aborts' = 0
  PROVE  JobsHeld' /\ OneJobPerKey'
<1>0. ASSUME NEW c \in Clients, pc[c] \notin {"first_status", "add_row"}
      PROVE  \A r \in Runs : record[r] # "none" => r \in DOMAIN rows
  BY <1>0 DEF JobsHeld, Alone
<1>1. ASSUME NEW c \in Clients, ProviderSubmit(c) PROVE JobsHeld' /\ OneJobPerKey'
  <2>1. PICK r \in Runs :
          /\ record[r] = "none"
          /\ record' = [record EXCEPT ![r] = "queued"]
          /\ jobKey' = [jobKey EXCEPT ![r] = asked[c]]
          /\ mine' = [mine EXCEPT ![c] =
                        [run |-> r, key |-> asked[c], status |-> "queued", outputs |-> {}]]
    BY <1>1 DEF ProviderSubmit, Provider!Submit
  <2>2. pc[c] = "submit" /\ pc' = [pc EXCEPT ![c] = "first_status"] /\ rows' = rows
    BY <1>1 DEF ProviderSubmit, tables
  <2>3. /\ \A s \in Runs \ {r} : record'[s] = record[s] /\ jobKey'[s] = jobKey[s]
        /\ jobKey'[r] = asked[c] /\ mine'[c].run = r /\ pc'[c] = "first_status"
    BY <2>1, <2>2 DEF RunsInv, TypeOK, ProviderType, LocalsType
  <2>4. \A s \in Runs : record[s] # "none" => s \in DOMAIN rows /\ jobKey[s] # asked[c]
    BY <1>0, <2>2 DEF Serial, Unused, KeysInv, RowKeysTrue
  <2>5. JobsHeld'
    BY <2>2, <2>3, <2>4 DEF JobsHeld
  <2>6. OneJobPerKey'
    BY <2>3, <2>4 DEF OneJobPerKey
  <2> QED
    BY <2>5, <2>6
<1>2. ASSUME \A c \in Clients : ~ProviderSubmit(c) PROVE JobsHeld' /\ OneJobPerKey'
  <2>1. jobKey' = jobKey /\ \A r \in Runs : record'[r] # "none" => record[r] # "none"
    BY <1>2, OnlySubmissions
  <2>2. OneJobPerKey'
    BY <2>1 DEF OneJobPerKey
  <2>3. DOMAIN rows \subseteq DOMAIN rows'
    BY KeysOfRows DEF AddRow
  <2>4. ASSUME NEW r \in Runs, record[r] # "none", r \notin DOMAIN rows
        PROVE  \/ r \in DOMAIN rows'
               \/ \E c \in Clients : pc'[c] \in {"first_status", "add_row"} /\ mine'[c].run = r
    <3>1. PICK c \in Clients : pc[c] \in {"first_status", "add_row"} /\ mine[c].run = r
      BY <2>4 DEF JobsHeld
    <3>2. mine[c] \in Copies
      BY <3>1, CopyRecorded
    <3>3. CASE FirstStatus(c)
      <4>1. pc'[c] = "add_row" /\ mine' = [mine EXCEPT ![c].status = record[mine[c].run]]
        BY <3>3 DEF FirstStatus, RunsInv, TypeOK, LocalsType
      <4>2. mine'[c].run = r
        BY <3>1, <3>2, <4>1 DEF RunsInv, TypeOK, LocalsType, Copies
      <4> QED
        BY <4>1, <4>2
    <3>4. CASE AddRow(c)
      BY <3>1, <3>4 DEF AddRow
    <3>5. CASE UNCHANGED <<pc, mine>>
      BY <3>1, <3>5
    <3>6. Proceed(c) => FirstStatus(c) \/ AddRow(c)
      BY <1>2, <3>1 DEF Proceed, GateRefuses, ProviderCancel, CancelRefused, StatusChanged,
         StatusSame, StatusUnknown, UpdateRow, Collect, AddArtifact, AddDuplicate, SaveOutputs
    <3>7. ~Call(c)
      BY <3>1 DEF Call, FindRun, GetRun, CancelRun, ListRuns
    <3>8. ~Abort(c)
      <4>1. aborts \in Nat
        BY ManagedRunsAssumption DEF RunsInv, TypeOK
      <4> QED
        BY <4>1 DEF Abort
    <3>9. ProviderStep \/ UNCHANGED vars => UNCHANGED <<pc, mine>>
      BY DEF ProviderStep, JobEnds, RecordMoves, vars, locals
    <3> QED
      BY <3>3, <3>4, <3>5, <3>6, <3>7, <3>8, <3>9 DEF Next, Alone
  <2>5. JobsHeld'
    BY <2>1, <2>3, <2>4 DEF JobsHeld
  <2> QED
    BY <2>2, <2>5
<1> QED
  BY <1>1, <1>2

\* Interruptions are counted up.
LEMMA AbortsCounted ==
  ASSUME RunsInv, [Next]_vars, aborts' = 0
  PROVE  aborts = 0 /\ \A c \in Clients : ~Abort(c)
<1>1. aborts \in Nat
  BY ManagedRunsAssumption DEF RunsInv, TypeOK
<1>2. \A c \in Clients : ~Abort(c)
  BY <1>1 DEF Abort
<1>3. aborts' = aborts
  BY <1>2 DEF Next, vars, Call, FindRun, GetRun, CancelRun, ListRuns, Proceed, GateRefuses,
     ProviderSubmit, FirstStatus, AddRow, ProviderCancel, CancelRefused, StatusChanged, StatusSame,
     StatusUnknown, UpdateRow, Collect, AddArtifact, AddDuplicate, SaveOutputs, ProviderStep,
     JobEnds, RecordMoves
<1> QED
  BY <1>2, <1>3

\* A lone client keeps the whole of its invariant.
LEMMA SerialInvStep == ASSUME Alone PROVE SerialInv /\ [Next]_vars => SerialInv'
<1> SUFFICES ASSUME SerialInv, [Next]_vars PROVE SerialInv'
  OBVIOUS
<1>1. RunsInv' /\ KeysInv'
  BY RunsStep, KeysStep DEF SerialInv
<1>2. (\A c \in Clients : Serial(c)') /\ OneRowPerKey'
  BY SerialStep, OneRowStep DEF SerialInv
<1>3. ASSUME aborts' = 0 PROVE JobsHeld' /\ OneJobPerKey'
  BY <1>1, <1>3, AbortsCounted, OneJobStep DEF SerialInv
<1> QED
  BY <1>1, <1>2, <1>3 DEF SerialInv

\* With one client at work at a time, whatever interrupts its calls, every job and
\* every row of a key is accounted for: what _submit_run, submit_job and sync_run
\* leave behind is what the client that works now holds, or a row on its own.
THEOREM SerialInvariant == ASSUME Alone PROVE Spec => []SerialInv
<1>1. Init => SerialInv
  <2> SUFFICES ASSUME Init PROVE SerialInv
    OBVIOUS
  <2>1. KeysInv /\ \A c \in Clients : Serial(c)
    BY DEF Init, KeysInv, RowKeysTrue, CopyKeysTrue, Serial
  <2> QED
    BY <2>1, RunsInit DEF Init, SerialInv, OneRowPerKey, JobsHeld, OneJobPerKey
<1> QED
  BY <1>1, SerialInvStep, PTL DEF Spec

\* Without overlapping calls an idempotency key has at most one run row,
\* wherever submissions and reconciliations are cut short (submit_job answers a
\* known key with its row, and no later write changes a key).
THEOREM OneRowForAKey == ASSUME Alone PROVE Spec => []OneRowPerKey
<1>1. SerialInv => OneRowPerKey
  BY DEF SerialInv
<1> QED
  BY <1>1, SerialInvariant, PTL

\* Without overlap and without interruption the provider gets one job per key,
\* what submit_job promises of its idempotency key: overlap and interruption
\* between provider.submit and the insert are the only ways to a second job.
THEOREM OneJobForAKey == ASSUME Alone PROVE Spec => [](aborts = 0 => OneJobPerKey)
<1>1. SerialInv => (aborts = 0 => OneJobPerKey)
  BY DEF SerialInv
<1> QED
  BY <1>1, SerialInvariant, PTL

\* What a client is inserting is for its run.
LEMMA AddingOwn ==
  ASSUME RunsInv, NEW c \in Clients, pc[c] = "adding"
  PROVE  /\ mine[c] \in Copies /\ mine[c].run \in DOMAIN rows /\ mine[c].run \in Runs
         /\ mine[c].outputs \subseteq artifacts
         /\ \A a \in adding[c] : a \in Artifacts /\ a.run = mine[c].run
         /\ \E n \in Rounds : mine[c].outputs \cup adding[c] = Collection(mine[c].run, n)
<1>1. Collecting(c) /\ adding[c] \subseteq Artifacts
  BY DEF RunsInv, TypeOK, LocalsType, ClientSound
<1> QED
  BY <1>1, CopyHeld DEF Collecting, Collection

\* The client leaves the artifacts and the manifests alone and starts no insert.
LEMMA FileKept ==
  ASSUME OnFile, UNCHANGED <<artifacts, manifest>>,
         \A c \in Clients : pc'[c] = "adding" => pc[c] = "adding" /\ adding'[c] = adding[c]
  PROVE  OnFile'
BY DEF OnFile

\* A collection takes its ids from the manifest, or files them.
LEMMA CollectOnFile ==
  ASSUME Alone, RunsInv, OnFile, NEW c \in Clients, Collect(c)
  PROVE  OnFile'
<1> DEFINE r == mine[c].run
           filed == r \in StableRuns /\ manifest[r] # 0
           n == IF filed THEN manifest[r] ELSE rounds[r] + 1
<1>1. /\ pc[c] = "collect" /\ n \in Rounds /\ UNCHANGED artifacts
      /\ manifest' = [manifest EXCEPT ![r] = IF r \in StableRuns THEN n ELSE @]
      /\ adding' = [adding EXCEPT ![c] = Collection(r, n)]
  BY DEF Collect, tables
<1>2. r \in Runs
  BY <1>1, CopyRecorded
<1>3. \A a \in adding'[c] : a.run = r /\ a.round = n
  BY <1>1 DEF RunsInv, TypeOK, LocalsType, Collection
<1>4. /\ \A s \in Runs \ {r} : manifest'[s] = manifest[s]
      /\ r \in StableRuns => manifest'[r] = n
  BY <1>1, <1>2 DEF RunsInv, TypeOK, ProviderType
<1>5. ASSUME NEW a \in artifacts, a.run \in StableRuns PROVE a.round = manifest'[a.run]
  <2>1. a.round = manifest[a.run] /\ a.run \in Runs /\ a.round \in Rounds
    BY <1>5 DEF OnFile, RunsInv, TypeOK, TablesType, Artifacts
  <2>2. a.round # 0
    BY <2>1, ManagedRunsAssumption DEF Rounds
  <2>3. CASE a.run = r
    BY <1>4, <1>5, <2>1, <2>2, <2>3
  <2> QED
    BY <1>4, <2>1, <2>3
<1> HIDE DEF n
<1> QED
  BY <1>1, <1>3, <1>4, <1>5 DEF OnFile, Alone

\* Every step of a lone client keeps the artifacts of stable runs on file.
LEMMA OnFileStep ==
  ASSUME Alone, RunsInv, OnFile, [Next]_vars
  PROVE  OnFile'
<1>1. ASSUME NEW c \in Clients, Collect(c) PROVE OnFile'
  BY <1>1, CollectOnFile
<1>2. ASSUME NEW c \in Clients, AddArtifact(c) PROVE OnFile'
  <2>1. PICK a \in FirstOf(adding[c]) :
          artifacts' = artifacts \cup {a} /\ adding' = [adding EXCEPT ![c] = @ \ {a}]
    BY <1>2 DEF AddArtifact
  <2>2. pc[c] = "adding" /\ UNCHANGED <<pc, manifest>> /\ a \in adding[c]
    BY <1>2, <2>1 DEF AddArtifact, provider, FirstOf
  <2>3. adding'[c] = adding[c] \ {a}
    BY <2>1 DEF RunsInv, TypeOK, LocalsType
  <2> QED
    BY <2>1, <2>2, <2>3 DEF OnFile, Alone
<1>3. ASSUME NEW c \in Clients, Return(c), UNCHANGED <<artifacts, manifest>> PROVE OnFile'
  BY <1>3, FileKept DEF Return, RunsInv, TypeOK, LocalsType, Alone
<1>4. ASSUME NEW c \in Clients, NEW ms, Work(c, ms), UNCHANGED <<artifacts, manifest>> PROVE OnFile'
  BY <1>4, WorkOutcome, FileKept DEF Alone
<1>5. ASSUME NEW c \in Clients, NEW m, AfterSync(c, m), UNCHANGED <<artifacts, manifest>> PROVE OnFile'
  BY <1>5, AfterSyncOutcome, FileKept DEF Alone
<1>6. ASSUME NEW c \in Clients, NEW to, to # "adding", pc' = [pc EXCEPT ![c] = to],
             UNCHANGED <<artifacts, manifest>>
      PROVE  OnFile'
  BY <1>6, FileKept DEF Alone, RunsInv, TypeOK, LocalsType
<1>7. ASSUME NEW c \in Clients, Call(c) PROVE OnFile'
  <2>1. CASE ListRuns(c)
    BY <1>4, <2>1 DEF ListRuns, tables, provider
  <2>2. ASSUME NEW k \in Keys, FindRun(c, k) PROVE OnFile'
    BY <1>6, <2>2 DEF FindRun, tables, provider
  <2>3. ASSUME NEW r, GetRun(c, r) \/ CancelRun(c, r) PROVE OnFile'
    BY <1>6, <2>3 DEF GetRun, CancelRun, tables, provider
  <2> QED
    BY <1>7, <2>1, <2>2, <2>3 DEF Call
<1>8. ASSUME NEW c \in Clients, Proceed(c) PROVE OnFile'
  <2>1. CASE GateRefuses(c) \/ CancelRefused(c) \/ AddDuplicate(c)
    BY <1>3, <2>1 DEF GateRefuses, CancelRefused, AddDuplicate, tables, provider
  <2>2. CASE ProviderSubmit(c) \/ FirstStatus(c) \/ ProviderCancel(c) \/ StatusChanged(c)
    BY <1>6, <2>2 DEF ProviderSubmit, FirstStatus, ProviderCancel, StatusChanged, tables, provider
  <2>3. CASE AddRow(c) \/ StatusSame(c) \/ UpdateRow(c)
    BY <1>5, <2>3 DEF AddRow, StatusSame, UpdateRow, tables, provider
  <2>4. CASE StatusUnknown(c) \/ SaveOutputs(c)
    BY <1>4, <2>4 DEF StatusUnknown, SaveOutputs, tables, provider
  <2> QED
    BY <1>1, <1>2, <1>8, <2>1, <2>2, <2>3, <2>4 DEF Proceed
<1>9. ASSUME NEW c \in Clients, Abort(c) PROVE OnFile'
  BY <1>3, <1>9 DEF Abort, tables, provider
<1>10. CASE ProviderStep \/ UNCHANGED vars
  BY <1>10, FileKept DEF ProviderStep, JobEnds, RecordMoves, vars, tables, provider, locals
<1> QED
  BY <1>7, <1>8, <1>9, <1>10 DEF Next

\* Rows change, nobody is inserting, and no row loses or gains outputs.
LEMMA ListedKept ==
  ASSUME RunsInv, Listed, UNCHANGED artifacts,
         \A c \in Clients : pc[c] # "adding" /\ pc'[c] # "adding",
         \A r \in DOMAIN rows' :
           IF r \in DOMAIN rows THEN rows'[r].outputs = rows[r].outputs ELSE rows'[r].outputs = {}
  PROVE  Listed'
<1>1. \A r : r \notin DOMAIN rows => Of(r) = {}
  BY DEF RunsInv, ArtifactsAccountedFor, Of
<1>2. \A r : Of(r)' = Of(r)
  BY DEF Of
<1>3. \A r \in DOMAIN rows : Of(r) = rows[r].outputs
  BY DEF Listed
<1> QED
  BY <1>1, <1>2, <1>3 DEF Listed

\* A lone client that is not cut short keeps every artifact on its run's row, or
\* among the ones it is inserting.
LEMMA ProceedListed ==
  ASSUME Alone, RunsInv, KeysInv, NEW c \in Clients, Serial(c), Listed, Proceed(c)
  PROVE  Listed'
<1> DEFINE m == mine[c]
<1>0. /\ pc \in [Clients -> PcStates] /\ adding \in [Clients -> SUBSET Artifacts]
      /\ mine \in [Clients -> Copies \cup {NoCopy}]
      /\ pc[c] \notin {"idle", "submit"} => m \in Copies /\ m.key = jobKey[m.run]
  BY CopyRecorded DEF RunsInv, TypeOK, LocalsType, KeysInv, CopyKeysTrue
<1>1. ASSUME pc[c] # "adding", pc'[c] # "adding", UNCHANGED <<rows, artifacts>> PROVE Listed'
  BY <1>1, ListedKept DEF Alone
<1>2. CASE GateRefuses(c) \/ CancelRefused(c)
  BY <1>0, <1>1, <1>2 DEF GateRefuses, CancelRefused, Return, tables
<1>3. CASE ProviderSubmit(c) \/ FirstStatus(c) \/ ProviderCancel(c) \/ StatusChanged(c)
  BY <1>0, <1>1, <1>3 DEF ProviderSubmit, FirstStatus, ProviderCancel, StatusChanged, tables
<1>4. CASE StatusSame(c)
  <2>1. pc[c] = "status" /\ AfterSync(c, m) /\ UNCHANGED <<rows, artifacts>>
    BY <1>4 DEF StatusSame, tables
  <2>2. pc'[c] # "adding"
    BY <2>1, AfterSyncOutcome
  <2> QED
    BY <1>1, <2>1, <2>2
<1>5. CASE StatusUnknown(c)
  <2>1. pc[c] = "status" /\ Work(c, todo[c]) /\ UNCHANGED <<rows, artifacts>>
    BY <1>5 DEF StatusUnknown, tables
  <2>2. pc'[c] # "adding"
    BY <2>1, WorkOutcome
  <2> QED
    BY <1>1, <2>1, <2>2
<1>6. CASE AddRow(c)
  <2>1. pc[c] = "add_row" /\ AfterSync(c, m) /\ UNCHANGED artifacts
    BY <1>6 DEF AddRow
  <2>2. pc'[c] # "adding"
    BY <2>1, AfterSyncOutcome
  <2>3. m.run \notin DOMAIN rows
    BY <1>0, <2>1 DEF Serial, Unused, KeysInv, RowKeysTrue
  <2>4. \A r \in DOMAIN rows' :
          IF r \in DOMAIN rows THEN rows'[r].outputs = rows[r].outputs ELSE rows'[r].outputs = {}
    BY <1>6, <2>3 DEF AddRow
  <2> QED
    BY <2>1, <2>2, <2>4, ListedKept DEF Alone
<1>7. CASE UpdateRow(c)
  <2>1. pc[c] = "update" /\ SaveRow(m) /\ AfterSync(c, m) /\ UNCHANGED artifacts
    BY <1>7 DEF UpdateRow
  <2>2. m.run \in DOMAIN rows /\ pc'[c] # "adding"
    BY <2>1, CopyHeld, AfterSyncOutcome
  <2>3. DOMAIN rows' = DOMAIN rows /\ \A r \in DOMAIN rows : rows'[r].outputs = rows[r].outputs
    BY <1>0, <2>1, <2>2, SavedRows DEF Serial
  <2> QED
    BY <2>1, <2>2, <2>3, ListedKept DEF Alone
<1>8. CASE Collect(c)
  <2>1. PICK n : adding' = [adding EXCEPT ![c] = Collection(m.run, n)]
    BY <1>8 DEF Collect
  <2>2. /\ pc[c] = "collect" /\ pc'[c] = "adding" /\ UNCHANGED <<rows, artifacts, mine>>
    BY <1>0, <1>8 DEF Collect, tables
  <2>3. m.run \in DOMAIN rows /\ m.outputs = {} /\ rows[m.run].outputs = {}
    BY <2>2, CopyHeld DEF RunsInv, ClientSound, NeedsCollect, Serial
  <2>4. \A r \in DOMAIN rows : Of(r) = rows[r].outputs
    BY <2>2 DEF Listed, Alone
  <2>5. \A r : Of(r)' = Of(r)
    BY <2>2 DEF Of
  <2> QED
    BY <2>2, <2>3, <2>4, <2>5 DEF Listed, Alone
<1>9. CASE AddArtifact(c)
  <2>1. PICK a \in FirstOf(adding[c]) :
          /\ artifacts' = artifacts \cup {a}
          /\ adding' = [adding EXCEPT ![c] = @ \ {a}]
          /\ mine' = [mine EXCEPT ![c].outputs = @ \cup {a}]
    BY <1>9 DEF AddArtifact
  <2>2. pc[c] = "adding" /\ UNCHANGED <<rows, pc>> /\ a \in adding[c]
    BY <1>9, <2>1 DEF AddArtifact, FirstOf
  <2>3. a.run = m.run
    BY <2>2, AddingOwn
  <2>4. /\ adding'[c] = adding[c] \ {a}
        /\ mine'[c].run = m.run /\ mine'[c].outputs = m.outputs \cup {a}
    BY <1>0, <2>1, <2>2 DEF Copies
  <2>5. Of(m.run) = m.outputs /\ adding[c] \cap m.outputs = {}
    BY <2>2 DEF Listed
  <2>6. \A r : Of(r)' = IF r = m.run THEN Of(r) \cup {a} ELSE Of(r)
    BY <2>1, <2>3 DEF Of
  <2>7. Of(mine[c].run)' = mine'[c].outputs
    BY <2>4, <2>5, <2>6 DEF Of
  <2> QED
    BY <2>2, <2>4, <2>5, <2>6, <2>7 DEF Listed, Alone
<1>10. CASE AddDuplicate(c)
  <2>1. PICK a \in adding[c] : a \in artifacts
    BY <1>10 DEF AddDuplicate, FirstOf
  <2>2. pc[c] = "adding"
    BY <1>10 DEF AddDuplicate
  <2>3. a \in Of(m.run)
    BY <2>1, <2>2, AddingOwn DEF Of
  <2> QED
    BY <2>1, <2>2, <2>3 DEF Listed
<1>11. CASE SaveOutputs(c)
  <2>1. pc[c] = "adding" /\ SaveRow(m) /\ Work(c, todo[c]) /\ UNCHANGED artifacts
    BY <1>11 DEF SaveOutputs
  <2>2. m.run \in DOMAIN rows /\ pc'[c] # "adding"
    BY <2>1, CopyHeld, WorkOutcome
  <2>3. /\ DOMAIN rows' = DOMAIN rows /\ rows'[m.run].outputs = m.outputs
        /\ \A r \in DOMAIN rows \ {m.run} : rows'[r] = rows[r]
    BY <1>0, <2>1, <2>2, SavedRows
  <2>4. \A r : Of(r)' = Of(r)
    BY <2>1 DEF Of
  <2>5. Of(m.run) = m.outputs /\ \A r \in DOMAIN rows \ {m.run} : Of(r) = rows[r].outputs
    BY <2>1 DEF Listed, Alone
  <2> QED
    BY <2>2, <2>3, <2>4, <2>5 DEF Listed, Alone
<1> QED
  BY <1>2, <1>3, <1>4, <1>5, <1>6, <1>7, <1>8, <1>9, <1>10, <1>11 DEF Proceed

\* So does every step while nothing was cut short.
LEMMA ListedStep ==
  ASSUME Alone, SerialInv, Listed, [Next]_vars, aborts' = 0
  PROVE  Listed'
<1> USE DEF SerialInv
<1>1. ASSUME NEW c \in Clients, Proceed(c) PROVE Listed'
  BY <1>1, ProceedListed
<1>2. ASSUME NEW c \in Clients, Call(c) PROVE Listed'
  <2>1. pc[c] = "idle" /\ UNCHANGED <<rows, artifacts>>
    BY <1>2 DEF Call, FindRun, GetRun, CancelRun, ListRuns, tables
  <2>2. pc'[c] # "adding"
    <3>1. CASE ListRuns(c)
      BY <3>1, WorkOutcome DEF ListRuns
    <3>2. CASE ~ListRuns(c)
      BY <1>2, <3>2 DEF Call, FindRun, GetRun, CancelRun, RunsInv, TypeOK, LocalsType
    <3> QED
      BY <3>1, <3>2
  <2> QED
    BY <2>1, <2>2, ListedKept DEF Alone
<1>3. CASE UNCHANGED <<rows, artifacts, pc, mine, adding>>
  BY <1>3 DEF Listed, Of
<1>4. CASE ProviderStep \/ UNCHANGED vars
  BY <1>3, <1>4 DEF ProviderStep, JobEnds, RecordMoves, vars, tables, locals
<1> QED
  BY <1>1, <1>2, <1>4, AbortsCounted DEF Next

\* A lone client registers artifacts as the invariant says.
LEMMA RegisteredStep == ASSUME Alone PROVE RegisteredInv /\ [Next]_vars => RegisteredInv'
<1> SUFFICES ASSUME RegisteredInv, [Next]_vars PROVE RegisteredInv'
  OBVIOUS
<1>1. SerialInv' /\ OnFile'
  BY SerialInvStep, OnFileStep DEF RegisteredInv, SerialInv
<1>2. ASSUME aborts' = 0 PROVE Listed'
  BY <1>2, AbortsCounted, ListedStep DEF RegisteredInv, SerialInv
<1> QED
  BY <1>1, <1>2 DEF RegisteredInv

\* Without overlapping calls an output is registered once, however often its run
\* is reconciled: with any interruptions if the provider keeps artifact ids in
\* its manifest, and as long as no call was cut short otherwise
\* (_collect_run_outputs collects only what the row does not list).
THEOREM OutputsRegisteredOnce == ASSUME Alone PROVE Spec => []RegisteredOnce
<1>1. Init => RegisteredInv
  <2> SUFFICES ASSUME Init PROVE RegisteredInv
    OBVIOUS
  <2>1. KeysInv /\ \A c \in Clients : Serial(c)
    BY DEF Init, KeysInv, RowKeysTrue, CopyKeysTrue, Serial
  <2>2. SerialInv
    BY <2>1, RunsInit DEF Init, SerialInv, OneRowPerKey, JobsHeld, OneJobPerKey
  <2> QED
    BY <2>2 DEF Init, RegisteredInv, OnFile, Listed
<1>2. RegisteredInv => RegisteredOnce
  <2> SUFFICES ASSUME RegisteredInv, NEW a \in artifacts, NEW b \in artifacts,
                      a.run \in StableRuns \/ aborts = 0, a.run = b.run, a.out = b.out
               PROVE  a = b
    BY DEF RegisteredOnce
  <2>1. a \in Artifacts /\ b \in Artifacts
    BY DEF RegisteredInv, SerialInv, RunsInv, TypeOK, TablesType
  <2>2. a.round = b.round => a = b
    BY <2>1 DEF Artifacts
  <2>3. CASE a.run \in StableRuns
    BY <2>2, <2>3 DEF RegisteredInv, OnFile
  <2>4. CASE aborts = 0
    <3>1. Listed /\ a.run \in DOMAIN rows /\ a \in Of(a.run) /\ b \in Of(a.run)
      BY <2>4 DEF RegisteredInv, SerialInv, RunsInv, ArtifactsAccountedFor, Of
    <3>2. CASE \A c \in Clients : ~(pc[c] = "adding" /\ mine[c].run = a.run)
      <4>1. a \in rows[a.run].outputs /\ b \in rows[a.run].outputs
        BY <3>1, <3>2 DEF Listed
      <4>2. Whole(a.run, rows[a.run].outputs)
        BY <3>1 DEF RegisteredInv, SerialInv, RunsInv, RowsSound, Sound
      <4>3. a.round = b.round
        BY <4>1, <4>2 DEF Whole, Collection
      <4> QED
        BY <2>2, <4>3
    <3>3. ASSUME NEW c \in Clients, pc[c] = "adding", mine[c].run = a.run PROVE a = b
      <4>1. a \in mine[c].outputs /\ b \in mine[c].outputs
        BY <3>1, <3>3 DEF Listed
      <4>2. PICK n \in Rounds : mine[c].outputs \cup adding[c] = Collection(mine[c].run, n)
        BY <3>3, AddingOwn DEF RegisteredInv, SerialInv
      <4>3. a.round = n /\ b.round = n
        BY <4>1, <4>2 DEF Collection
      <4> QED
        BY <2>2, <4>3
    <3> QED
      BY <3>2, <3>3
  <2> QED
    BY <2>3, <2>4
<1> QED
  BY <1>1, <1>2, RegisteredStep, PTL DEF Spec

-----------------------------------------------------------------------------
(* Statuses, when the provider never changes a terminal record: the part of *)
(* StatusConverges that needs no fairness.                                  *)

\* A status that says the run is over is the one its provider reports.
TrueEnd(r, status) == status \in Terminal => status = record[r]

RowEndsTrue == \A r \in DOMAIN rows : TrueEnd(r, rows[r].status)

CopyEndsTrue(c) ==
  /\ pc[c] \notin {"idle", "submit"} => TrueEnd(mine[c].run, mine[c].status)
  /\ \A m \in todo[c] : TrueEnd(m.run, m.status)

EndsInv == RowEndsTrue /\ \A c \in Clients : CopyEndsTrue(c)

\* A run that is being submitted has no row yet, and one client at it.
InSubmission(c) == pc[c] \in {"first_status", "add_row"}

SubmissionsFresh ==
  \A c \in Clients : InSubmission(c) =>
    /\ mine[c].run \notin DOMAIN rows
    /\ \A d \in Clients : InSubmission(d) /\ mine[d].run = mine[c].run => d = c

\* The row shows how the run ended, and no client is about to write anything else.
Converged(r) ==
  /\ r \in DOMAIN rows
  /\ record[r] \in Terminal
  /\ rows[r].status = record[r]
  /\ \A c \in Clients : pc[c] = "update" /\ mine[c].run = r => mine[c].status = record[r]

StayConverged == \A r \in Runs : Converged(r) => Converged(r)'
ConvergedForGood == [][StayConverged]_vars

\* A record that says how the run ended stays as it is.
EndsFixed == \A r \in Runs : record[r] \in Terminal => record'[r] = record[r]

LEMMA RecordsFixed ==
  ASSUME FinalRecords, RunsInv, [Next]_vars
  PROVE  EndsFixed
<1> USE DEF EndsFixed
<1>1. ASSUME NEW c \in Clients, Call(c) \/ Abort(c) PROVE UNCHANGED record
  BY <1>1 DEF Call, FindRun, GetRun, CancelRun, ListRuns, Abort, provider
<1>2. ASSUME NEW c \in Clients, Proceed(c), ~ProviderCancel(c), ~ProviderSubmit(c)
      PROVE  UNCHANGED record
  BY <1>2 DEF Proceed, GateRefuses, FirstStatus, AddRow, CancelRefused, StatusChanged, StatusSame,
              StatusUnknown, UpdateRow, Collect, AddArtifact, AddDuplicate, SaveOutputs, provider
<1>3. ASSUME NEW c \in Clients, ProviderCancel(c) PROVE EndsFixed
  BY <1>3 DEF ProviderCancel, Provider!Cancel, Provider!Terminal, Terminal, RunsInv, TypeOK,
              ProviderType
<1>4. ASSUME NEW c \in Clients, ProviderSubmit(c) PROVE EndsFixed
  BY <1>4 DEF ProviderSubmit, Provider!Submit, Terminal, RunsInv, TypeOK, ProviderType
<1>5. CASE ProviderStep
  BY <1>5 DEF ProviderStep, JobEnds, RecordMoves, RunsInv, TypeOK, ProviderType
<1>6. CASE UNCHANGED vars
  BY <1>6 DEF vars, provider
<1> QED
  BY <1>1, <1>2, <1>3, <1>4, <1>5, <1>6 DEF Next

\* Rows that a step leaves alone, and the copies of a client it leaves alone.
LEMMA EndsOfRows ==
  ASSUME RunsInv, EndsInv, EndsFixed, UNCHANGED rows
  PROVE  RowEndsTrue'
BY DEF EndsInv, EndsFixed, RowEndsTrue, TrueEnd, RunsInv, TypeOK, TablesType

LEMMA EndsOfOthers ==
  ASSUME RunsInv, EndsInv, EndsFixed, NEW c \in Clients, SameLocals(c)
  PROVE  CopyEndsTrue(c)'
BY CopyRecorded DEF EndsInv, EndsFixed, CopyEndsTrue, TrueEnd, SameLocals

\* Copies with a true end keep it.
LEMMA EndsKept ==
  ASSUME EndsFixed
  PROVE  \A st : \A r \in Runs : TrueEnd(r, st) => (st \in Terminal => st = record'[r])
BY DEF EndsFixed, TrueEnd

\* The client takes up the next copy, or goes on after its copy m.
LEMMA WorkEnds ==
  ASSUME RunsInv, EndsInv, EndsFixed, NEW c \in Clients, NEW ms, Work(c, ms),
         \A m \in ms : m.run \in Runs /\ TrueEnd(m.run, m.status)
  PROVE  \A d \in Clients : CopyEndsTrue(d)'
<1>1. \A m \in ms : m.status \in Terminal => m.status = record'[m.run]
  BY EndsKept
<1>2. CopyEndsTrue(c)'
  BY <1>1, WorkOutcome DEF CopyEndsTrue, TrueEnd
<1> QED
  BY <1>2, WorkOutcome, EndsOfOthers

LEMMA AfterSyncEnds ==
  ASSUME RunsInv, EndsInv, EndsFixed, NEW c \in Clients, NEW m, AfterSync(c, m),
         m.run \in Runs, TrueEnd(m.run, m.status)
  PROVE  \A d \in Clients : CopyEndsTrue(d)'
<1>1. /\ m.status \in Terminal => m.status = record'[m.run]
      /\ \A n \in todo[c] : n.status \in Terminal => n.status = record'[n.run]
  BY EndsKept, CopyRecorded DEF EndsInv, CopyEndsTrue
<1>2. CopyEndsTrue(c)'
  BY <1>1, AfterSyncOutcome DEF CopyEndsTrue, TrueEnd
<1> QED
  BY <1>2, AfterSyncOutcome, EndsOfOthers

\* The client c moves, and its copy keeps its run and its status, or takes the
\* provider's.
LEMMA OneCopyEnds ==
  ASSUME RunsInv, EndsInv, EndsFixed, NEW c \in Clients,
         \A d \in Clients \ {c} : SameLocals(d), UNCHANGED rows, todo'[c] = todo[c],
         pc'[c] \notin {"idle", "submit"} =>
           /\ mine'[c].run \in Runs
           /\ \/ pc[c] \notin {"idle", "submit"} /\ mine'[c].run = mine[c].run
                 /\ mine'[c].status = mine[c].status
              \/ mine'[c].status = record'[mine'[c].run]
              \/ mine'[c].status \notin Terminal
  PROVE  EndsInv'
<1>1. CopyEndsTrue(c)'
  <2>1. \A n \in todo[c] : n.status \in Terminal => n.status = record'[n.run]
    BY EndsKept, CopyRecorded DEF EndsInv, CopyEndsTrue
  <2>2. ASSUME pc'[c] \notin {"idle", "submit"}
        PROVE  mine'[c].status \in Terminal => mine'[c].status = record'[mine'[c].run]
    BY <2>2, EndsKept DEF EndsInv, CopyEndsTrue
  <2> QED
    BY <2>1, <2>2 DEF CopyEndsTrue, TrueEnd
<1> QED
  BY <1>1, EndsOfRows, EndsOfOthers DEF EndsInv

\* Writing back a copy with a true end leaves every end true.
LEMMA EndSaved ==
  ASSUME RunsInv, EndsInv, EndsFixed, NEW m, m.run \in DOMAIN rows, SaveRow(m),
         TrueEnd(m.run, m.status)
  PROVE  RowEndsTrue'
<1>1. /\ DOMAIN rows' = DOMAIN rows /\ DOMAIN rows \subseteq Runs
      /\ \A r \in DOMAIN rows : rows'[r] = IF r = m.run
           THEN [key |-> m.key, status |-> m.status, outputs |-> m.outputs] ELSE rows[r]
  BY DEF SaveRow, RunsInv, TypeOK, TablesType
<1>2. \A r \in DOMAIN rows : TrueEnd(r, rows'[r].status)
  BY <1>1 DEF EndsInv, RowEndsTrue
<1> QED
  BY <1>1, <1>2, EndsKept DEF RowEndsTrue, TrueEnd

LEMMA ReturnEnds ==
  ASSUME RunsInv, EndsInv, EndsFixed, NEW c \in Clients, Return(c), UNCHANGED rows
  PROVE  EndsInv'
<1>1. pc'[c] = "idle" /\ todo'[c] = {} /\ \A d \in Clients \ {c} : SameLocals(d)
  BY DEF Return, SameLocals, RunsInv, TypeOK, LocalsType
<1>2. CopyEndsTrue(c)'
  BY <1>1 DEF CopyEndsTrue
<1> QED
  BY <1>1, <1>2, EndsOfRows, EndsOfOthers DEF EndsInv

\* A call that starts reads rows with true ends.
LEMMA CallEnds ==
  ASSUME RunsInv, EndsInv, EndsFixed, NEW c \in Clients, Call(c)
  PROVE  EndsInv'
<1>1. UNCHANGED <<rows, record>>
  BY DEF Call, FindRun, GetRun, CancelRun, ListRuns, tables, provider
<1>2. \A r \in DOMAIN rows : /\ r \in Runs /\ Copy(r).run = r
                             /\ TrueEnd(Copy(r).run, Copy(r).status)
  BY DEF EndsInv, RowEndsTrue, Copy, RunsInv, TypeOK, TablesType
<1>3. ASSUME NEW k \in Keys, FindRun(c, k) PROVE EndsInv'
  <2>1. /\ \A d \in Clients \ {c} : SameLocals(d)
        /\ todo'[c] = todo[c] /\ pc'[c] = "submit"
    BY <1>3 DEF FindRun, SameLocals, RunsInv, TypeOK, LocalsType
  <2> QED
    BY <1>1, <2>1, OneCopyEnds
<1>4. ASSUME NEW r \in DOMAIN rows, GetRun(c, r) \/ CancelRun(c, r) PROVE EndsInv'
  <2>1. /\ \A d \in Clients \ {c} : SameLocals(d)
        /\ todo'[c] = todo[c] /\ mine'[c] = Copy(r)
    BY <1>4 DEF GetRun, CancelRun, SameLocals, RunsInv, TypeOK, LocalsType
  <2>2. \/ mine'[c].status = record'[mine'[c].run]
        \/ mine'[c].status \notin Terminal
    BY <1>1, <1>2, <2>1 DEF TrueEnd
  <2> QED
    BY <1>1, <1>2, <2>1, <2>2, OneCopyEnds
<1>5. CASE ListRuns(c)
  <2> DEFINE ms == {Copy(r) : r \in DOMAIN rows}
  <2>1. \A m \in ms : m.run \in Runs /\ TrueEnd(m.run, m.status)
    BY <1>2
  <2>2. Work(c, ms)
    BY <1>5 DEF ListRuns
  <2> HIDE DEF ms
  <2>3. \A d \in Clients : CopyEndsTrue(d)'
    BY <2>1, <2>2, WorkEnds
  <2> QED
    BY <1>1, <2>3, EndsOfRows DEF EndsInv
<1> QED
  BY <1>3, <1>4, <1>5 DEF Call

\* A call that goes on takes the provider's status over, or keeps its own.
LEMMA ProceedEnds ==
  ASSUME RunsInv, EndsInv, EndsFixed, NEW c \in Clients, Proceed(c)
  PROVE  EndsInv'
<1> DEFINE m == mine[c]
<1>0. /\ pc[c] \notin {"idle", "submit"} =>
           m \in Copies /\ m.run \in Runs /\ TrueEnd(m.run, m.status)
      /\ \A n \in todo[c] : n.run \in Runs /\ TrueEnd(n.run, n.status)
  BY CopyRecorded DEF EndsInv, CopyEndsTrue
<1>1. CASE GateRefuses(c) \/ CancelRefused(c) \/ AddDuplicate(c)
  BY <1>1, ReturnEnds DEF GateRefuses, CancelRefused, AddDuplicate, tables
<1>2. CASE ProviderSubmit(c)
  <2>1. PICK r \in Runs :
          mine' = [mine EXCEPT ![c] =
                     [run |-> r, key |-> asked[c], status |-> "queued", outputs |-> {}]]
    BY <1>2 DEF ProviderSubmit
  <2>2. /\ \A d \in Clients \ {c} : SameLocals(d)
        /\ UNCHANGED rows /\ todo'[c] = todo[c]
        /\ mine'[c].run \in Runs /\ mine'[c].status \notin Terminal
    BY <1>2, <2>1 DEF ProviderSubmit, SameLocals, RunsInv, TypeOK, LocalsType, Terminal, tables
  <2> QED
    BY <2>2, OneCopyEnds
<1>3. CASE FirstStatus(c) \/ StatusChanged(c)
  <2>1. /\ mine' = [mine EXCEPT ![c].status = record[m.run]]
        /\ pc' \in {[pc EXCEPT ![c] = "add_row"], [pc EXCEPT ![c] = "update"]}
        /\ pc[c] \in {"first_status", "status"}
        /\ UNCHANGED <<rows, record, asked, todo, adding>>
    BY <1>3 DEF FirstStatus, StatusChanged, tables, provider
  <2>2. /\ mine'[c].run = m.run /\ mine'[c].status = record'[m.run]
        /\ \A d \in Clients \ {c} : SameLocals(d)
    BY <1>0, <2>1 DEF RunsInv, TypeOK, LocalsType, SameLocals, Copies
  <2> QED
    BY <1>0, <2>1, <2>2, OneCopyEnds
<1>4. CASE AddRow(c)
  <2>1. pc[c] = "add_row" /\ AfterSync(c, m)
    BY <1>4 DEF AddRow
  <2>2. \A d \in Clients : CopyEndsTrue(d)'
    BY <1>0, <2>1, AfterSyncEnds
  <2>3. /\ DOMAIN rows' = DOMAIN rows \cup {m.run}
        /\ \A r \in DOMAIN rows' : rows'[r].status = IF r = m.run THEN m.status ELSE rows[r].status
    BY <1>4 DEF AddRow
  <2>4. \A r \in DOMAIN rows' : r \in Runs /\ TrueEnd(r, rows'[r].status)
    BY <1>0, <2>1, <2>3 DEF EndsInv, RowEndsTrue, RunsInv, TypeOK, TablesType
  <2>5. RowEndsTrue'
    BY <2>4, EndsKept DEF RowEndsTrue, TrueEnd
  <2> QED
    BY <2>2, <2>5 DEF EndsInv
<1>5. CASE ProviderCancel(c) \/ Collect(c)
  <2>1. /\ pc[c] \notin {"idle", "submit"} /\ UNCHANGED <<rows, mine, todo>>
        /\ \A d \in Clients \ {c} : SameLocals(d)
    BY <1>5 DEF ProviderCancel, Collect, tables, RunsInv, TypeOK, LocalsType, SameLocals
  <2> QED
    BY <1>0, <2>1, OneCopyEnds
<1>6. CASE StatusSame(c)
  <2>1. pc[c] = "status" /\ AfterSync(c, m) /\ UNCHANGED rows
    BY <1>6 DEF StatusSame, tables
  <2>2. \A d \in Clients : CopyEndsTrue(d)'
    BY <1>0, <2>1, AfterSyncEnds
  <2> QED
    BY <2>1, <2>2, EndsOfRows DEF EndsInv
<1>7. CASE StatusUnknown(c)
  <2>1. Work(c, todo[c]) /\ UNCHANGED rows
    BY <1>7 DEF StatusUnknown, tables
  <2>2. \A d \in Clients : CopyEndsTrue(d)'
    BY <1>0, <2>1, WorkEnds
  <2> QED
    BY <2>1, <2>2, EndsOfRows DEF EndsInv
<1>8. CASE UpdateRow(c)
  <2>1. pc[c] = "update" /\ SaveRow(m) /\ AfterSync(c, m)
    BY <1>8 DEF UpdateRow
  <2>2. RowEndsTrue'
    BY <1>0, <2>1, CopyHeld, EndSaved
  <2>3. \A d \in Clients : CopyEndsTrue(d)'
    BY <1>0, <2>1, AfterSyncEnds
  <2> QED
    BY <2>2, <2>3 DEF EndsInv
<1>9. CASE AddArtifact(c)
  <2>1. PICK a \in FirstOf(adding[c]) :
          /\ adding' = [adding EXCEPT ![c] = @ \ {a}]
          /\ mine' = [mine EXCEPT ![c].outputs = @ \cup {a}]
    BY <1>9 DEF AddArtifact
  <2>2. pc[c] = "adding" /\ UNCHANGED <<rows, pc, asked, todo>>
    BY <1>9 DEF AddArtifact
  <2>3. /\ mine'[c].run = m.run /\ mine'[c].status = m.status
        /\ \A d \in Clients \ {c} : SameLocals(d)
    BY <1>0, <2>1, <2>2 DEF RunsInv, TypeOK, LocalsType, SameLocals, Copies
  <2> QED
    BY <1>0, <2>2, <2>3, OneCopyEnds
<1>10. CASE SaveOutputs(c)
  <2>1. pc[c] = "adding" /\ SaveRow(m) /\ Work(c, todo[c])
    BY <1>10 DEF SaveOutputs
  <2>2. RowEndsTrue'
    BY <1>0, <2>1, CopyHeld, EndSaved
  <2>3. \A d \in Clients : CopyEndsTrue(d)'
    BY <1>0, <2>1, WorkEnds
  <2> QED
    BY <2>2, <2>3 DEF EndsInv
<1> QED
  BY <1>1, <1>2, <1>3, <1>4, <1>5, <1>6, <1>7, <1>8, <1>9, <1>10 DEF Proceed

LEMMA EndsStep ==
  ASSUME FinalRecords
  PROVE  RunsInv /\ EndsInv /\ [Next]_vars => EndsInv'
<1> SUFFICES ASSUME RunsInv, EndsInv, [Next]_vars PROVE EndsInv'
  OBVIOUS
<1>0. EndsFixed
  BY RecordsFixed
<1>1. ASSUME NEW c \in Clients, Call(c) PROVE EndsInv'
  BY <1>0, <1>1, CallEnds
<1>2. ASSUME NEW c \in Clients, Proceed(c) PROVE EndsInv'
  BY <1>0, <1>2, ProceedEnds
<1>3. ASSUME NEW c \in Clients, Abort(c) PROVE EndsInv'
  BY <1>0, <1>3, ReturnEnds DEF Abort, tables
<1>4. ASSUME UNCHANGED <<rows, locals>> PROVE EndsInv'
  <2>1. \A c \in Clients : SameLocals(c)
    BY <1>4 DEF locals, SameLocals
  <2> QED
    BY <1>0, <1>4, <2>1, EndsOfRows, EndsOfOthers DEF EndsInv
<1>5. CASE ProviderStep
  BY <1>4, <1>5 DEF ProviderStep, JobEnds, RecordMoves, tables
<1>6. CASE UNCHANGED vars
  BY <1>4, <1>6 DEF vars, tables
<1> QED
  BY <1>1, <1>2, <1>3, <1>5, <1>6 DEF Next

\* With a provider whose terminal records are final, a row never shows a run as
\* over in another way than it ended: of the stale copies that overlapping calls
\* of _sync_run write back, only those of a live status are wrong.
THEOREM EndsAreTrue == ASSUME FinalRecords PROVE Spec => []EndsInv
<1>1. Init => EndsInv
  BY DEF Init, EndsInv, RowEndsTrue, CopyEndsTrue
<1> QED
  BY <1>1, EndsStep, RunsInvariant, PTL DEF Spec

\* Only provider.submit makes a client hold a run that has no row.
LEMMA SubmissionMoves ==
  ASSUME RunsInv, [Next]_vars, NEW c \in Clients, InSubmission(c)', ~ProviderSubmit(c)
  PROVE  InSubmission(c) /\ mine'[c].run = mine[c].run
<1> USE DEF InSubmission
<1>0. pc[c] \notin {"idle", "submit"} => mine[c] \in Copies
  BY CopyRecorded
<1>1. CASE SameLocals(c)
  BY <1>1 DEF SameLocals
<1>2. ASSUME NEW d \in Clients, NEW ms, Work(d, ms) PROVE SameLocals(c)
  BY <1>2, WorkOutcome
<1>3. ASSUME NEW d \in Clients, NEW m, AfterSync(d, m) PROVE SameLocals(c)
  BY <1>3, AfterSyncOutcome
<1>4. ASSUME NEW d \in Clients, Return(d) PROVE SameLocals(c)
  BY <1>4 DEF Return, SameLocals, RunsInv, TypeOK, LocalsType
<1>5. ASSUME NEW d \in Clients, Call(d) PROVE SameLocals(c)
  <2>1. CASE ListRuns(d)
    BY <1>2, <2>1 DEF ListRuns
  <2>2. CASE ~ListRuns(d)
    BY <1>5, <2>2 DEF Call, FindRun, GetRun, CancelRun, SameLocals, RunsInv, TypeOK, LocalsType
  <2> QED
    BY <2>1, <2>2
<1>6. ASSUME NEW d \in Clients, FirstStatus(d)
      PROVE  InSubmission(c) /\ mine'[c].run = mine[c].run
  <2>1. CASE c = d
    BY <1>0, <1>6, <2>1 DEF FirstStatus, RunsInv, TypeOK, LocalsType, Copies
  <2>2. CASE c # d
    BY <1>1, <1>6, <2>2 DEF FirstStatus, SameLocals, RunsInv, TypeOK, LocalsType
  <2> QED
    BY <2>1, <2>2
<1>7. ASSUME NEW d \in Clients,
             ProviderSubmit(d) \/ ProviderCancel(d) \/ StatusChanged(d) \/ Collect(d) \/ AddArtifact(d)
      PROVE  SameLocals(c)
  <2>1. c # d
    BY <1>7 DEF ProviderSubmit, ProviderCancel, StatusChanged, Collect, AddArtifact,
                RunsInv, TypeOK, LocalsType
  <2> QED
    BY <1>7, <2>1 DEF ProviderSubmit, ProviderCancel, StatusChanged, Collect, AddArtifact,
                      SameLocals, RunsInv, TypeOK, LocalsType
<1>8. ASSUME NEW d \in Clients, Proceed(d)
      PROVE  InSubmission(c) /\ mine'[c].run = mine[c].run
  BY <1>1, <1>2, <1>3, <1>4, <1>6, <1>7, <1>8
     DEF Proceed, GateRefuses, AddRow, CancelRefused, StatusSame, StatusUnknown, UpdateRow,
         AddDuplicate, SaveOutputs
<1>9. CASE ProviderStep
  BY <1>1, <1>9 DEF ProviderStep, JobEnds, RecordMoves, locals, SameLocals
<1>10. CASE UNCHANGED vars
  BY <1>1, <1>10 DEF vars, locals, SameLocals
<1> QED
  BY <1>1, <1>4, <1>5, <1>8, <1>9, <1>10 DEF Next, Abort

\* A run that is being submitted stays without a row until its own client inserts
\* it: the provider hands out a new run id each time.
LEMMA FreshStep == RunsInv /\ KeysInv /\ SubmissionsFresh /\ [Next]_vars => SubmissionsFresh'
<1> SUFFICES ASSUME RunsInv, KeysInv, SubmissionsFresh, [Next]_vars PROVE SubmissionsFresh'
  OBVIOUS
<1>1. ASSUME NEW b \in Clients, ProviderSubmit(b) PROVE SubmissionsFresh'
  <2>1. PICK r \in Runs :
          /\ record[r] = "none"
          /\ mine' = [mine EXCEPT ![b] =
                        [run |-> r, key |-> asked[b], status |-> "queued", outputs |-> {}]]
    BY <1>1 DEF ProviderSubmit, Provider!Submit
  <2>2. /\ UNCHANGED rows /\ r \notin DOMAIN rows /\ mine'[b].run = r
        /\ \A d \in Clients \ {b} : SameLocals(d)
    BY <1>1, <2>1 DEF ProviderSubmit, tables, RunsInv, RowsRecorded, TypeOK, LocalsType, SameLocals
  <2>3. \A d \in Clients \ {b} : InSubmission(d) => mine[d].run # r
    BY <2>1, CopyRecorded DEF InSubmission
  <2> QED
    BY <2>2, <2>3 DEF SubmissionsFresh, InSubmission, SameLocals
<1>2. ASSUME NEW b \in Clients, AddRow(b) PROVE SubmissionsFresh'
  <2>1. /\ DOMAIN rows' = DOMAIN rows \cup {mine[b].run} /\ InSubmission(b)
        /\ \A d \in Clients \ {b} : SameLocals(d)
        /\ pc'[b] \in {"idle", "collect", "status"}
    BY <1>2, AfterSyncOutcome DEF AddRow, InSubmission
  <2> QED
    BY <2>1 DEF SubmissionsFresh, InSubmission, SameLocals
<1>3. CASE \A b \in Clients : ~ProviderSubmit(b) /\ ~AddRow(b)
  <2>1. DOMAIN rows' = DOMAIN rows
    BY <1>3, KeysOfRows
  <2>2. \A d \in Clients : InSubmission(d)' => InSubmission(d) /\ mine'[d].run = mine[d].run
    BY <1>3, SubmissionMoves
  <2> QED
    BY <2>1, <2>2 DEF SubmissionsFresh, InSubmission
<1> QED
  BY <1>1, <1>2, <1>3

LEMMA FreshInvariant == Spec => []SubmissionsFresh
<1>1. Init => SubmissionsFresh
  BY DEF Init, SubmissionsFresh, InSubmission
<1> QED
  BY <1>1, FreshStep, RunsInvariant, KeysAreTrue, PTL DEF Spec

\* A client that is about to write a status has just taken it from the provider,
\* or was about to write it before.
LEMMA UpdateMoves ==
  ASSUME RunsInv, [Next]_vars, NEW c \in Clients, pc'[c] = "update"
  PROVE  \/ pc[c] = "update" /\ mine'[c] = mine[c]
         \/ mine'[c].status = record[mine'[c].run]
<1>1. CASE SameLocals(c)
  BY <1>1 DEF SameLocals
<1>2. ASSUME NEW d \in Clients, NEW ms, Work(d, ms) PROVE SameLocals(c)
  BY <1>2, WorkOutcome
<1>3. ASSUME NEW d \in Clients, NEW m, AfterSync(d, m) PROVE SameLocals(c)
  BY <1>3, AfterSyncOutcome
<1>4. ASSUME NEW d \in Clients, Return(d) PROVE SameLocals(c)
  BY <1>4 DEF Return, SameLocals, RunsInv, TypeOK, LocalsType
<1>5. ASSUME NEW d \in Clients, Call(d) PROVE SameLocals(c)
  <2>1. CASE ListRuns(d)
    BY <1>2, <2>1 DEF ListRuns
  <2>2. CASE ~ListRuns(d)
    BY <1>5, <2>2 DEF Call, FindRun, GetRun, CancelRun, SameLocals, RunsInv, TypeOK, LocalsType
  <2> QED
    BY <2>1, <2>2
<1>6. ASSUME NEW d \in Clients, StatusChanged(d)
      PROVE  SameLocals(c) \/ mine'[c].status = record[mine'[c].run]
  <2>1. CASE c = d
    <3>1. mine[c] \in Copies
      BY <1>6, <2>1, CopyRecorded DEF StatusChanged
    <3> QED
      BY <1>6, <2>1, <3>1 DEF StatusChanged, RunsInv, TypeOK, LocalsType, Copies
  <2>2. CASE c # d
    BY <1>6, <2>2 DEF StatusChanged, SameLocals, RunsInv, TypeOK, LocalsType
  <2> QED
    BY <2>1, <2>2
<1>7. ASSUME NEW d \in Clients,
             ProviderSubmit(d) \/ FirstStatus(d) \/ ProviderCancel(d) \/ Collect(d) \/ AddArtifact(d)
      PROVE  SameLocals(c)
  <2>1. c # d
    BY <1>7 DEF ProviderSubmit, FirstStatus, ProviderCancel, Collect, AddArtifact,
                RunsInv, TypeOK, LocalsType
  <2> QED
    BY <1>7, <2>1 DEF ProviderSubmit, FirstStatus, ProviderCancel, Collect, AddArtifact,
                      SameLocals, RunsInv, TypeOK, LocalsType
<1>8. ASSUME NEW d \in Clients, Proceed(d)
      PROVE  SameLocals(c) \/ mine'[c].status = record[mine'[c].run]
  BY <1>2, <1>3, <1>4, <1>6, <1>7, <1>8
     DEF Proceed, GateRefuses, AddRow, CancelRefused, StatusSame, StatusUnknown, UpdateRow,
         AddDuplicate, SaveOutputs
<1>9. CASE ProviderStep
  BY <1>1, <1>9 DEF ProviderStep, JobEnds, RecordMoves, locals, SameLocals
<1>10. CASE UNCHANGED vars
  BY <1>1, <1>10 DEF vars, locals, SameLocals
<1> QED
  BY <1>1, <1>4, <1>5, <1>8, <1>9, <1>10 DEF Next, Abort

\* Who writes the status of a row.
LEMMA StatusWriters ==
  ASSUME RunsInv, [Next]_vars, NEW r \in DOMAIN rows
  PROVE  /\ r \in DOMAIN rows'
         /\ \/ rows'[r].status = rows[r].status
            \/ \E c \in Clients : /\ pc[c] \in {"add_row", "update", "adding"}
                                  /\ mine[c].run = r /\ rows'[r].status = mine[c].status
<1>1. ASSUME NEW c \in Clients, pc[c] \in {"update", "adding"}, SaveRow(mine[c])
      PROVE  /\ r \in DOMAIN rows'
             /\ \/ rows'[r].status = rows[r].status
                \/ mine[c].run = r /\ rows'[r].status = mine[c].status
  <2>1. DOMAIN rows' = DOMAIN rows
    BY <1>1 DEF SaveRow
  <2>2. rows'[r] = IF r = mine[c].run
                   THEN [key |-> mine[c].key, status |-> mine[c].status, outputs |-> mine[c].outputs]
                   ELSE rows[r]
    BY <1>1 DEF SaveRow, RunsInv, TypeOK, TablesType
  <2> QED
    BY <2>1, <2>2
<1>2. ASSUME NEW c \in Clients, AddRow(c)
      PROVE  /\ r \in DOMAIN rows' /\ pc[c] = "add_row"
             /\ \/ rows'[r].status = rows[r].status
                \/ mine[c].run = r /\ rows'[r].status = mine[c].status
  BY <1>2 DEF AddRow
<1>3. ASSUME NEW c \in Clients, Proceed(c), ~AddRow(c), ~UpdateRow(c), ~SaveOutputs(c)
      PROVE  UNCHANGED rows
  BY <1>3 DEF Proceed, GateRefuses, ProviderSubmit, FirstStatus, ProviderCancel, CancelRefused,
              StatusChanged, StatusSame, StatusUnknown, Collect, AddArtifact, AddDuplicate, tables
<1>4. ASSUME NEW c \in Clients, UpdateRow(c) \/ SaveOutputs(c)
      PROVE  pc[c] \in {"update", "adding"} /\ SaveRow(mine[c])
  BY <1>4 DEF UpdateRow, SaveOutputs
<1>5. ASSUME NEW c \in Clients, Call(c) \/ Abort(c) PROVE UNCHANGED rows
  BY <1>5 DEF Call, FindRun, GetRun, CancelRun, ListRuns, Abort, tables
<1>6. CASE UNCHANGED rows
  BY <1>6
<1>7. CASE ProviderStep \/ UNCHANGED vars
  BY <1>6, <1>7 DEF ProviderStep, JobEnds, RecordMoves, vars, tables
<1> QED
  BY <1>1, <1>2, <1>3, <1>4, <1>5, <1>6, <1>7 DEF Next

LEMMA ConvergedStep ==
  ASSUME FinalRecords
  PROVE  RunsInv /\ EndsInv /\ SubmissionsFresh /\ [Next]_vars => StayConverged
<1> SUFFICES ASSUME RunsInv, EndsInv, SubmissionsFresh, [Next]_vars,
                    NEW r \in Runs, Converged(r)
             PROVE  Converged(r)'
  BY DEF StayConverged
<1>1. r \in DOMAIN rows /\ record'[r] = record[r]
  BY RecordsFixed DEF EndsFixed, Converged
<1>2. ASSUME NEW c \in Clients, pc[c] \in {"add_row", "update", "adding"}, mine[c].run = r
      PROVE  mine[c].status = record[r]
  <2>1. CASE pc[c] = "add_row"
    BY <1>1, <1>2, <2>1 DEF SubmissionsFresh, InSubmission
  <2>2. CASE pc[c] = "update"
    BY <1>2, <2>2 DEF Converged
  <2>3. CASE pc[c] = "adding"
    BY <1>2, <2>3 DEF RunsInv, ClientSound, Collecting, EndsInv, CopyEndsTrue, TrueEnd, Terminal
  <2> QED
    BY <1>2, <2>1, <2>2, <2>3
<1>3. r \in DOMAIN rows' /\ rows'[r].status = record[r]
  BY <1>1, <1>2, StatusWriters DEF Converged
<1>4. \A c \in Clients : pc'[c] = "update" /\ mine'[c].run = r => mine'[c].status = record[r]
  BY UpdateMoves DEF Converged
<1> QED
  BY <1>1, <1>3, <1>4 DEF Converged

\* A row that shows how its run ended stays so, whatever calls of get_run,
\* list_runs and cancel_run overlap and wherever they are cut short, from the
\* moment on that no stale status is about to be written: stale writes die out
\* and are not made anew.
THEOREM ConvergedRowsStay == ASSUME FinalRecords PROVE Spec => ConvergedForGood
<1>1. RunsInv /\ EndsInv /\ SubmissionsFresh /\ [Next]_vars => StayConverged
  BY ConvergedStep
<1> QED
  BY <1>1, RunsInvariant, EndsAreTrue, FreshInvariant, PTL DEF Spec, ConvergedForGood
=============================================================================
