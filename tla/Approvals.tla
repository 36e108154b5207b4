----------------------------- MODULE Approvals -----------------------------
(***************************************************************************)
(* The approval gate of ScienceService (science/omnisci/service.py).       *)
(*                                                                         *)
(* A gated call (a compute submission, a storage read, write or copy)      *)
(* passes one gate after another and then performs its operation.  A gate  *)
(* reads the approvals table, walks the matching rows from the newest to   *)
(* the oldest and lets the first row that says anything decide: pass,      *)
(* consume a one-time approval and pass, refuse, or, when no row decides,  *)
(* record a new pending approval and refuse.  Operators resolve and revoke *)
(* rows.                                                                   *)
(*                                                                         *)
(* Every HTTP request, MCP call and command line builds its own service    *)
(* with its own connection, so a repository call is one atomic step and    *)
(* everything between two repository calls interleaves with every other    *)
(* caller.  An update writes back the whole row its caller read earlier.   *)
(***************************************************************************)
EXTENDS Naturals, Sequences, FiniteSets

CONSTANTS
  Clients,        \* threads and processes that make gated calls
  Operators,      \* threads and processes that resolve and revoke approvals
  GateActions,    \* semantic actions a gate asks for ("storage.read:s3" ...)
  SkillActions,   \* semantic actions request_skill records; no gate asks for them
  Scopes,         \* idempotency keys and storage prefixes
  StartsWith,     \* <<p, s>>: the string s starts with the string p
  Calls,          \* the gate sequences of the calls clients make
  Policies,       \* the sets of gate actions a policy may exempt
  MaxApprovals    \* bound on the number of approvals ever recorded

Kinds == {"one_time", "prefix", "project"}
WideKinds == {"prefix", "project"}
Decisions == {"pending", "approved", "denied", "revoked"}

Gates == [action : GateActions \cup SkillActions, scope : Scopes]

Ids == 1 .. MaxApprovals

\* A row of the approvals table, reduced to what the gate and the operators
\* read.  An id is the position of the row's created_at among all of them.
Rows == [action : GateActions \cup SkillActions, scope : Scopes,
         decision : Decisions, kind : Kinds, consumed : BOOLEAN]

\* A row a caller has read and may write back later.
Held == [id : Ids, row : Rows]

\* Why a gate let a call pass: an approval and the breadth it had when it was
\* read, or the policy that exempts the action (id 0).
Backings == [id : Ids \cup {0}, kind : Kinds \cup {"exempt"}]
Exempt == [id |-> 0, kind |-> "exempt"]

ASSUME ApprovalsAssumption ==
  /\ MaxApprovals \in Nat
  /\ GateActions \cap SkillActions = {}
  /\ Policies \subseteq SUBSET GateActions
  /\ StartsWith \subseteq Scopes \X Scopes
  /\ \A s \in Scopes : <<s, s>> \in StartsWith
  /\ Calls \subseteq Seq([action : GateActions, scope : Scopes]) \ {<< >>}

VARIABLES
  approvals,  \* the table: a function from the ids recorded so far to rows
  nextId,     \* the next created_at stamp
  policy,     \* gate actions the stored policies exempt from approval
  pc,         \* where each client's call is
  call,       \* the gates of each client's call
  snapshot,   \* the policies each client's service loaded when it was built
  backing,    \* why each gate passed so far let the client's call pass
  held,       \* the row each client is about to write
  opc,        \* where each operator's call is
  oheld,      \* the row each operator is about to write
  grants,     \* history: <<id, kind>> an operator wrote as approved
  revoked,    \* history: ids an operator wrote as revoked
  uses        \* history: how often each approval was consumed, up to 2

clientVars == <<pc, call, snapshot, backing, held>>
operatorVars == <<opc, oheld>>
history == <<grants, revoked, uses>>
vars == <<approvals, nextId, policy, clientVars, operatorVars, history>>

-----------------------------------------------------------------------------
(* The walk over the rows.                                                 *)

\* The filter of _require_approval: same action, and a scope the row covers.
Matches(row, g) ==
  /\ row.action = g.action
  /\ \/ row.scope = g.scope
     \/ row.kind = "project"
     \/ row.kind = "prefix" /\ <<row.scope, g.scope>> \in StartsWith

\* Mutant: consumed_at is not looked at.
UsableConsumed(row) == row.decision = "approved"

\* An approved row that lets the gate pass.
Usable(row) == row.decision = "approved" /\ (row.kind \in WideKinds \/ ~row.consumed)

\* Mutant: a consumed one-time approval ends the walk, as a refusal.
DecidesConsumed(row, g) ==
  \/ row.decision \in {"pending", "denied", "approved"} /\ row.scope = g.scope
  \/ Usable(row) /\ (row.kind \in WideKinds \/ row.scope = g.scope)

\* The row ends the walk for gate g, one way or the other.
Decides(row, g) ==
  \/ row.decision \in {"pending", "denied"} /\ row.scope = g.scope
  \/ Usable(row) /\ (row.kind \in WideKinds \/ row.scope = g.scope)

Speaks(row, g) == Matches(row, g) /\ Decides(row, g)

\* Row i is the newest that decides gate g.
Decisive(i, g) ==
  /\ i \in DOMAIN approvals
  /\ Speaks(approvals[i], g)
  /\ \A j \in DOMAIN approvals : j > i => ~Speaks(approvals[j], g)

Pending(g) == [action |-> g.action, scope |-> g.scope, decision |-> "pending",
               kind |-> "one_time", consumed |-> FALSE]

NoHeld == [id |-> 0]

-----------------------------------------------------------------------------
(* Clients.                                                                *)

Gate(c) == call[c][Len(backing[c]) + 1]

\* Mutant: the call looks for one gate more than it has.
PassOneMore(c, why) ==
  /\ backing' = [backing EXCEPT ![c] = Append(@, why)]
  /\ pc' = [pc EXCEPT ![c] = IF Len(backing[c]) = Len(call[c]) THEN "perform" ELSE "gate"]

\* Mutant: the second gate of a call is forgotten.
PassFirstGate(c, why) ==
  /\ backing' = [backing EXCEPT ![c] = Append(@, why)]
  /\ pc' = [pc EXCEPT ![c] = "perform"]

\* The gate is passed; the call goes on to its next gate or to its operation.
Pass(c, why) ==
  /\ backing' = [backing EXCEPT ![c] = Append(@, why)]
  /\ pc' = [pc EXCEPT ![c] = IF Len(backing[c]) + 1 = Len(call[c])
                             THEN "perform" ELSE "gate"]

\* The call is over: what its service held in memory is gone.
Return(c) ==
  /\ pc' = [pc EXCEPT ![c] = "idle"]
  /\ call' = [call EXCEPT ![c] = << >>]
  /\ snapshot' = [snapshot EXCEPT ![c] = {}]
  /\ backing' = [backing EXCEPT ![c] = << >>]
  /\ held' = [held EXCEPT ![c] = NoHeld]

\* A call starts: a service is built for it and loads the stored policies.
Begin(c, gates) ==
  /\ pc[c] = "idle"
  /\ pc' = [pc EXCEPT ![c] = "gate"]
  /\ call' = [call EXCEPT ![c] = gates]
  /\ snapshot' = [snapshot EXCEPT ![c] = policy]
  /\ backing' = [backing EXCEPT ![c] = << >>]
  /\ UNCHANGED <<approvals, nextId, policy, held, operatorVars, history>>

\* The policies exempt the action: the gate asks for nothing.
PassExempt(c) ==
  /\ pc[c] = "gate"
  /\ Gate(c).action \in snapshot[c]
  /\ Pass(c, Exempt)
  /\ UNCHANGED <<approvals, nextId, policy, call, snapshot, held, operatorVars, history>>

\* A pending or a denied row decides: the call fails and changes nothing.
Refuse(c) ==
  /\ pc[c] = "gate"
  /\ Gate(c).action \notin snapshot[c]
  /\ \E i \in DOMAIN approvals : Decisive(i, Gate(c)) /\ ~Usable(approvals[i])
  /\ Return(c)
  /\ UNCHANGED <<approvals, nextId, policy, operatorVars, history>>

\* An approval for a prefix or for the project decides; it is not used up.
PassWide(c) ==
  /\ pc[c] = "gate"
  /\ Gate(c).action \notin snapshot[c]
  /\ \E i \in DOMAIN approvals :
       /\ Decisive(i, Gate(c))
       /\ Usable(approvals[i]) /\ approvals[i].kind \in WideKinds
       /\ Pass(c, [id |-> i, kind |-> approvals[i].kind])
  /\ UNCHANGED <<approvals, nextId, policy, call, snapshot, held, operatorVars, history>>

\* An unconsumed one-time approval decides: the copy in memory is marked.
TakeOneTime(c) ==
  /\ pc[c] = "gate"
  /\ Gate(c).action \notin snapshot[c]
  /\ \E i \in DOMAIN approvals :
       /\ Decisive(i, Gate(c))
       /\ Usable(approvals[i]) /\ approvals[i].kind \notin WideKinds
       /\ held' = [held EXCEPT ![c] =
                     [id |-> i, row |-> [approvals[i] EXCEPT !.consumed = TRUE]]]
  /\ pc' = [pc EXCEPT ![c] = "consume"]
  /\ UNCHANGED <<approvals, nextId, policy, call, snapshot, backing, operatorVars, history>>

\* No row decides: a pending approval is built, its created_at set.
NeedApproval(c) ==
  /\ pc[c] = "gate"
  /\ Gate(c).action \notin snapshot[c]
  /\ ~ \E i \in DOMAIN approvals : Decisive(i, Gate(c))
  /\ nextId <= MaxApprovals
  /\ held' = [held EXCEPT ![c] = [id |-> nextId, row |-> Pending(Gate(c))]]
  /\ nextId' = nextId + 1
  /\ pc' = [pc EXCEPT ![c] = "request"]
  /\ UNCHANGED <<approvals, policy, call, snapshot, backing, operatorVars, history>>

\* An agent asks for a skill: a pending approval, whatever the table holds.
RequestSkill(c, g) ==
  /\ pc[c] = "idle"
  /\ nextId <= MaxApprovals
  /\ held' = [held EXCEPT ![c] = [id |-> nextId, row |-> Pending(g)]]
  /\ nextId' = nextId + 1
  /\ pc' = [pc EXCEPT ![c] = "request"]
  /\ UNCHANGED <<approvals, policy, call, snapshot, backing, operatorVars, history>>

\* The marked copy overwrites the row and the gate is passed.
Consume(c) ==
  /\ pc[c] = "consume"
  /\ approvals' = [approvals EXCEPT ![held[c].id] = held[c].row]
  /\ uses' = [uses EXCEPT ![held[c].id] = IF @ < 2 THEN @ + 1 ELSE @]
  /\ Pass(c, [id |-> held[c].id, kind |-> held[c].row.kind])
  /\ held' = [held EXCEPT ![c] = NoHeld]
  /\ UNCHANGED <<nextId, policy, call, snapshot, operatorVars, grants, revoked>>

\* The pending row is inserted; the call fails with ApprovalRequiredError.
Request(c) ==
  /\ pc[c] = "request"
  /\ approvals' = [i \in DOMAIN approvals \cup {held[c].id} |->
                     IF i = held[c].id THEN held[c].row ELSE approvals[i]]
  /\ Return(c)
  /\ UNCHANGED <<nextId, policy, operatorVars, history>>

\* All gates are passed: the provider or the storage backend is called.
Perform(c) ==
  /\ pc[c] = "perform"
  /\ Return(c)
  /\ UNCHANGED <<approvals, nextId, policy, operatorVars, history>>

\* The process dies, or a repository call raises, before the next step.
Crash(c) ==
  /\ pc[c] # "idle"
  /\ Return(c)
  /\ UNCHANGED <<approvals, nextId, policy, operatorVars, history>>

-----------------------------------------------------------------------------
(* Operators.                                                              *)

OperatorReturn(o) ==
  /\ opc' = [opc EXCEPT ![o] = "idle"]
  /\ oheld' = [oheld EXCEPT ![o] = NoHeld]

\* Mutant: resolve_approval accepts a row that is already decided.
ResolveReadAny(o, i) ==
  /\ opc[o] = "idle"
  /\ opc' = [opc EXCEPT ![o] = "resolve"]
  /\ oheld' = [oheld EXCEPT ![o] = [id |-> i, row |-> approvals[i]]]
  /\ UNCHANGED <<approvals, nextId, policy, clientVars, history>>

\* resolve_approval reads the row and refuses one that is already decided.
ResolveRead(o, i) ==
  /\ opc[o] = "idle"
  /\ approvals[i].decision = "pending"
  /\ opc' = [opc EXCEPT ![o] = "resolve"]
  /\ oheld' = [oheld EXCEPT ![o] = [id |-> i, row |-> approvals[i]]]
  /\ UNCHANGED <<approvals, nextId, policy, clientVars, history>>

\* It writes the decision and the breadth into its copy and saves the copy.
ResolveWrite(o, decision, kind) ==
  /\ opc[o] = "resolve"
  /\ approvals' = [approvals EXCEPT ![oheld[o].id] =
                     [oheld[o].row EXCEPT !.decision = decision, !.kind = kind]]
  /\ grants' = IF decision = "approved" THEN grants \cup {<<oheld[o].id, kind>>} ELSE grants
  /\ OperatorReturn(o)
  /\ UNCHANGED <<nextId, policy, clientVars, revoked, uses>>

\* revoke_approval reads the row; only an approval that can still be used,
\* or is not one-time, may be revoked.
RevokeRead(o, i) ==
  /\ opc[o] = "idle"
  /\ approvals[i].decision = "approved"
  /\ ~(approvals[i].kind = "one_time" /\ approvals[i].consumed)
  /\ opc' = [opc EXCEPT ![o] = "revoke"]
  /\ oheld' = [oheld EXCEPT ![o] = [id |-> i, row |-> approvals[i]]]
  /\ UNCHANGED <<approvals, nextId, policy, clientVars, history>>

RevokeWrite(o) ==
  /\ opc[o] = "revoke"
  /\ approvals' = [approvals EXCEPT ![oheld[o].id] =
                     [oheld[o].row EXCEPT !.decision = "revoked"]]
  /\ revoked' = revoked \cup {oheld[o].id}
  /\ OperatorReturn(o)
  /\ UNCHANGED <<nextId, policy, clientVars, grants, uses>>

\* set_policies replaces the stored policies; running calls keep theirs.
SetPolicies(exempt) ==
  /\ policy' = exempt
  /\ UNCHANGED <<approvals, nextId, clientVars, operatorVars, history>>

OperatorCrash(o) ==
  /\ opc[o] # "idle"
  /\ OperatorReturn(o)
  /\ UNCHANGED <<approvals, nextId, policy, clientVars, history>>

-----------------------------------------------------------------------------
Init ==
  /\ approvals = << >>
  /\ nextId = 1
  /\ policy = {}
  /\ pc = [c \in Clients |-> "idle"]
  /\ call = [c \in Clients |-> << >>]
  /\ snapshot = [c \in Clients |-> {}]
  /\ backing = [c \in Clients |-> << >>]
  /\ held = [c \in Clients |-> NoHeld]
  /\ opc = [o \in Operators |-> "idle"]
  /\ oheld = [o \in Operators |-> NoHeld]
  /\ grants = {}
  /\ revoked = {}
  /\ uses = [i \in Ids |-> 0]

ClientStep(c) ==
  \/ \E gates \in Calls : Begin(c, gates)
  \/ PassExempt(c)
  \/ Refuse(c)
  \/ PassWide(c)
  \/ TakeOneTime(c)
  \/ NeedApproval(c)
  \/ \E a \in SkillActions, s \in Scopes : RequestSkill(c, [action |-> a, scope |-> s])
  \/ Consume(c)
  \/ Request(c)
  \/ Perform(c)
  \/ Crash(c)

OperatorStep(o) ==
  \/ \E i \in DOMAIN approvals : ResolveRead(o, i) \/ RevokeRead(o, i)
  \/ \E d \in {"approved", "denied"}, k \in Kinds : ResolveWrite(o, d, k)
  \/ RevokeWrite(o)
  \/ OperatorCrash(o)

Next ==
  \/ \E c \in Clients : ClientStep(c)
  \/ \E o \in Operators : OperatorStep(o)
  \/ \E exempt \in Policies : SetPolicies(exempt)

Spec == Init /\ [][Next]_vars

-----------------------------------------------------------------------------
(* Properties.                                                             *)

PcStates == {"idle", "gate", "consume", "request", "perform"}

\* Every variable holds a value of its kind, a caller that is about to write a
\* row holds one, and a client at a gate has that gate in its call.
TypeOK ==
  /\ DOMAIN approvals \subseteq Ids
  /\ approvals \in [DOMAIN approvals -> Rows]
  /\ nextId \in 1 .. MaxApprovals + 1
  /\ policy \subseteq GateActions
  /\ pc \in [Clients -> PcStates]
  /\ call \in [Clients -> Calls \cup {<< >>}]
  /\ snapshot \in [Clients -> SUBSET GateActions]
  /\ backing \in [Clients -> Seq(Backings)]
  /\ held \in [Clients -> Held \cup {NoHeld}]
  /\ \A c \in Clients : pc[c] \in {"consume", "request"} => held[c] \in Held
  /\ \A c \in Clients : pc[c] \in {"gate", "consume"} => Len(backing[c]) < Len(call[c])
  /\ opc \in [Operators -> {"idle", "resolve", "revoke"}]
  /\ oheld \in [Operators -> Held \cup {NoHeld}]
  /\ \A o \in Operators : opc[o] # "idle" => oheld[o] \in Held
  /\ grants \subseteq Ids \X Kinds
  /\ revoked \subseteq Ids
  /\ uses \in [Ids -> 0 .. 2]

\* Backing b justifies gate g of client c: the policies its service loaded
\* exempt the action, or an operator approved row b.id with breadth b.kind, and
\* that row is for this action and, with that breadth, covers this scope.
Justifies(b, g, c) ==
  \/ b = Exempt /\ g.action \in snapshot[c]
  \/ /\ b.id \in DOMAIN approvals
     /\ <<b.id, b.kind>> \in grants
     /\ Matches([approvals[b.id] EXCEPT !.kind = b.kind], g)

\* A call reaches its provider or storage backend only when every one of its
\* gates was justified (submit_job, storage_*), whatever the other clients and
\* operators wrote in between and whichever stale rows were written back.
OperationBacked ==
  \A c \in Clients : pc[c] = "perform" =>
    /\ Len(backing[c]) = Len(call[c])
    /\ \A k \in 1 .. Len(call[c]) : Justifies(backing[c][k], call[c][k], c)

\* Once revoke_approval has written a row, no later gate can pass on that row:
\* not even a client that read it before and writes its stale copy back makes
\* it usable again.  Holds when operators do not overlap.
RevokedUnusable == \A i \in revoked : ~Usable(approvals[i])

\* A one-time approval lets one gate pass, once (_require_approval marks it
\* consumed).  Holds when neither clients nor operators overlap.
OneTimeUsedOnce == \A i \in Ids : uses[i] <= 1

\* A one-time approval that a gate has passed on lets no later gate pass, even
\* when a client that read it before, or an operator that is revoking it, writes
\* an older copy of the row back.  Holds when operators do not overlap; clients
\* that read the row at the same time may still share it.
ConsumedUnusable == \A i \in Ids : uses[i] > 0 => ~Usable(approvals[i])

\* A denial is final: resolve_approval refuses a decided row, and no stale
\* write of a client brings the row back.  Holds when operators do not overlap.
DeniedIsFinal ==
  [][\A i \in DOMAIN approvals :
       approvals[i].decision = "denied" => approvals'[i] = approvals[i]]_vars

=============================================================================
