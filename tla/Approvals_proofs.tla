-------------------------- MODULE Approvals_proofs --------------------------
(***************************************************************************)
(* Proofs about the approval gate, for any clients, operators, actions,    *)
(* scopes, calls and number of approvals.                                  *)
(***************************************************************************)
EXTENDS Approvals, TLAPS

\* What a gate writes is a row, and what it copies is one.
LEMMA RowFacts ==
  /\ \A g \in Gates : Pending(g) \in Rows
  /\ \A r \in Rows : [r EXCEPT !.consumed = TRUE] \in Rows
  /\ \A r \in Rows, d \in Decisions, k \in Kinds :
       [r EXCEPT !.decision = d, !.kind = k] \in Rows
  /\ \A r \in Rows : [r EXCEPT !.decision = "revoked"] \in Rows
BY DEF Gates, Pending, Rows, Decisions, Kinds

\* A call, or none, is a sequence of gates.
LEMMA CallSeq ==
  \A s \in Calls \cup {<< >>} :
    s \in Seq([action : GateActions, scope : Scopes]) /\ Len(s) \in Nat
<1>1. \A S : << >> \in Seq(S)
  OBVIOUS
<1>2. \A s \in Calls \cup {<< >>} : s \in Seq([action : GateActions, scope : Scopes])
  BY <1>1, ApprovalsAssumption
<1>3. \A S : \A s \in Seq(S) : Len(s) \in Nat
  OBVIOUS
<1> QED
  BY <1>2, <1>3

\* A client's call, and the gates of it, are of their kinds.
LEMMA CallType ==
  ASSUME TypeOK, NEW c \in Clients
  PROVE  call[c] \in Seq([action : GateActions, scope : Scopes]) /\ Len(call[c]) \in Nat
<1>1. call[c] \in Calls \cup {<< >>}
  BY DEF TypeOK
<1> QED
  BY <1>1, CallSeq

\* A client at a gate is at a gate of its call.
LEMMA GateType ==
  ASSUME TypeOK, NEW c \in Clients, pc[c] \in {"gate", "consume"}
  PROVE  Gate(c) \in Gates /\ Gate(c).action \in GateActions
<1>1. call[c] \in Seq([action : GateActions, scope : Scopes])
  BY CallType
<1>2. backing[c] \in Seq(Backings) /\ Len(backing[c]) < Len(call[c])
  BY DEF TypeOK
<1>3. Len(backing[c]) + 1 \in 1 .. Len(call[c])
  BY <1>1, <1>2
<1>4. \A S : \A s \in Seq(S) : \A n \in 1 .. Len(s) : s[n] \in S
  OBVIOUS
<1>5. call[c][Len(backing[c]) + 1] \in [action : GateActions, scope : Scopes]
  BY <1>1, <1>3, <1>4
<1> QED
  BY <1>5 DEF Gate, Gates

\* Passing a gate leaves the client at its next gate or at its operation.
LEMMA PassType ==
  ASSUME TypeOK, NEW c \in Clients, pc[c] \in {"gate", "consume"},
         NEW why \in Backings, Pass(c, why), UNCHANGED call
  PROVE  /\ pc' = [pc EXCEPT ![c] = pc'[c]]
         /\ pc'[c] \in {"perform", "gate"}
         /\ pc' \in [Clients -> PcStates]
         /\ backing' \in [Clients -> Seq(Backings)]
         /\ \A d \in Clients : pc'[d] \in {"gate", "consume"} => Len(backing'[d]) < Len(call'[d])
         /\ pc'[c] = "perform" => Len(backing'[c]) = Len(call'[c])
         /\ backing'[c] = Append(backing[c], why)
         /\ \A d \in Clients \ {c} : backing'[d] = backing[d] /\ pc'[d] = pc[d]
<1>1. /\ backing[c] \in Seq(Backings)
      /\ Len(backing[c]) \in Nat
      /\ Len(backing[c]) < Len(call[c])
  BY DEF TypeOK
<1>2. Len(call[c]) \in Nat
  BY CallType
<1>3. /\ backing'[c] = Append(backing[c], why)
      /\ \A d \in Clients \ {c} : backing'[d] = backing[d]
      /\ backing' \in [Clients -> Seq(Backings)]
      /\ Len(backing'[c]) = Len(backing[c]) + 1
  BY <1>1 DEF Pass, TypeOK
<1>4. /\ pc'[c] = IF Len(backing[c]) + 1 = Len(call[c]) THEN "perform" ELSE "gate"
      /\ \A d \in Clients \ {c} : pc'[d] = pc[d]
      /\ pc' \in [Clients -> PcStates]
      /\ pc' = [pc EXCEPT ![c] = pc'[c]]
  BY DEF Pass, TypeOK, PcStates
<1>5. \A d \in Clients : pc'[d] \in {"gate", "consume"} => Len(backing'[d]) < Len(call'[d])
  <2>1. pc'[c] \in {"gate", "consume"} => Len(backing'[c]) < Len(call'[c])
    BY <1>1, <1>2, <1>3, <1>4
  <2>2. \A d \in Clients \ {c} :
          pc[d] \in {"gate", "consume"} => Len(backing[d]) < Len(call[d])
    BY DEF TypeOK
  <2>3. \A d \in Clients \ {c} :
          pc'[d] \in {"gate", "consume"} => Len(backing'[d]) < Len(call'[d])
    BY <2>2, <1>3, <1>4
  <2> QED
    BY <2>1, <2>3
<1> QED
  BY <1>1, <1>2, <1>3, <1>4, <1>5

\* An empty table and idle callers are of their kinds.
LEMMA TypeInit == Init => TypeOK
BY ApprovalsAssumption DEF Init, TypeOK, Ids, Rows, PcStates

\* Every variable of the gate keeps its kind, whatever order the steps of the
\* calls come in (the type invariant of _require_approval and its callers).
THEOREM TypeCorrect == Spec => []TypeOK
<1>1. Init => TypeOK
  BY TypeInit
<1>2. TypeOK /\ [Next]_vars => TypeOK'
  <2> SUFFICES ASSUME TypeOK, [Next]_vars PROVE TypeOK'
    OBVIOUS
  <2> USE ApprovalsAssumption
  <2>1. ASSUME NEW c \in Clients, NEW gates \in Calls, Begin(c, gates) PROVE TypeOK'
    BY <2>1 DEF Begin, TypeOK, PcStates, operatorVars, history
  <2>2. ASSUME NEW c \in Clients, PassExempt(c) PROVE TypeOK'
    <3>1. Exempt \in Backings
      BY DEF Exempt, Backings
    <3>2. pc[c] = "gate" /\ Pass(c, Exempt) /\ UNCHANGED call
      BY <2>2 DEF PassExempt
    <3> QED
      BY <2>2, <3>1, <3>2, PassType DEF PassExempt, TypeOK, operatorVars, history
  <2>3. ASSUME NEW c \in Clients, Refuse(c) PROVE TypeOK'
    BY <2>3 DEF Refuse, Return, TypeOK, PcStates, operatorVars, history
  <2>4. ASSUME NEW c \in Clients, PassWide(c) PROVE TypeOK'
    <3>1. PICK i \in DOMAIN approvals : Pass(c, [id |-> i, kind |-> approvals[i].kind])
      BY <2>4 DEF PassWide
    <3>2. [id |-> i, kind |-> approvals[i].kind] \in Backings
      BY DEF Backings, TypeOK, Rows
    <3>3. pc[c] = "gate" /\ UNCHANGED call
      BY <2>4 DEF PassWide
    <3> QED
      BY <2>4, <3>1, <3>2, <3>3, PassType DEF PassWide, TypeOK, operatorVars, history
  <2>5. ASSUME NEW c \in Clients, TakeOneTime(c) PROVE TypeOK'
    <3>1. PICK i \in DOMAIN approvals :
            held' = [held EXCEPT ![c] =
                       [id |-> i, row |-> [approvals[i] EXCEPT !.consumed = TRUE]]]
      BY <2>5 DEF TakeOneTime
    <3>2. [id |-> i, row |-> [approvals[i] EXCEPT !.consumed = TRUE]] \in Held
      BY RowFacts DEF TypeOK, Held
    <3> QED
      BY <2>5, <3>1, <3>2 DEF TakeOneTime, TypeOK, PcStates, operatorVars, history
  <2>6. ASSUME NEW c \in Clients, NeedApproval(c) PROVE TypeOK'
    <3>1. Gate(c) \in Gates
      BY <2>6, GateType DEF NeedApproval
    <3>2. nextId \in Ids /\ nextId' \in 1 .. MaxApprovals + 1
      BY <2>6 DEF NeedApproval, TypeOK, Ids
    <3>3. [id |-> nextId, row |-> Pending(Gate(c))] \in Held
      BY <3>1, <3>2, RowFacts DEF Held
    <3> QED
      BY <2>6, <3>2, <3>3 DEF NeedApproval, TypeOK, PcStates, operatorVars, history
  <2>7. ASSUME NEW c \in Clients, NEW a \in SkillActions, NEW s \in Scopes,
               RequestSkill(c, [action |-> a, scope |-> s])
        PROVE TypeOK'
    <3>1. [action |-> a, scope |-> s] \in Gates
      BY DEF Gates
    <3>2. nextId \in Ids /\ nextId' \in 1 .. MaxApprovals + 1
      BY <2>7 DEF RequestSkill, TypeOK, Ids
    <3>3. [id |-> nextId, row |-> Pending([action |-> a, scope |-> s])] \in Held
      BY <3>1, <3>2, RowFacts DEF Held
    <3> QED
      BY <2>7, <3>2, <3>3 DEF RequestSkill, TypeOK, PcStates, operatorVars, history
  <2>8. ASSUME NEW c \in Clients, Consume(c) PROVE TypeOK'
    <3>1. held[c] \in Held /\ held[c].id \in Ids /\ held[c].row \in Rows
      BY <2>8 DEF Consume, TypeOK, Held
    <3>2. [id |-> held[c].id, kind |-> held[c].row.kind] \in Backings
      BY <3>1 DEF Backings, Rows
    <3>3. /\ pc[c] = "consume" /\ UNCHANGED call
          /\ Pass(c, [id |-> held[c].id, kind |-> held[c].row.kind])
      BY <2>8 DEF Consume
    <3>4. uses' \in [Ids -> 0 .. 2]
      BY <2>8, <3>1 DEF Consume, TypeOK
    <3>5. DOMAIN approvals' \subseteq Ids /\ approvals' \in [DOMAIN approvals' -> Rows]
      BY <2>8, <3>1 DEF Consume, TypeOK
    <3> QED
      BY <2>8, <3>2, <3>3, <3>4, <3>5, PassType DEF Consume, TypeOK, operatorVars
  <2>9. ASSUME NEW c \in Clients, Request(c) PROVE TypeOK'
    <3>1. held[c].id \in Ids /\ held[c].row \in Rows
      BY <2>9 DEF Request, TypeOK, Held
    <3>2. DOMAIN approvals' \subseteq Ids /\ approvals' \in [DOMAIN approvals' -> Rows]
      BY <2>9, <3>1 DEF Request, TypeOK
    <3> QED
      BY <2>9, <3>2 DEF Request, Return, TypeOK, PcStates, operatorVars, history
  <2>10. ASSUME NEW c \in Clients, Perform(c) PROVE TypeOK'
    BY <2>10 DEF Perform, Return, TypeOK, PcStates, operatorVars, history
  <2>11. ASSUME NEW c \in Clients, Crash(c) PROVE TypeOK'
    BY <2>11 DEF Crash, Return, TypeOK, PcStates, operatorVars, history
  <2>12. ASSUME NEW o \in Operators, NEW i \in DOMAIN approvals, ResolveRead(o, i)
         PROVE TypeOK'
    BY <2>12 DEF ResolveRead, Held, TypeOK, PcStates, clientVars, history
  <2>13. ASSUME NEW o \in Operators, NEW i \in DOMAIN approvals, RevokeRead(o, i)
         PROVE TypeOK'
    BY <2>13 DEF RevokeRead, Held, TypeOK, PcStates, clientVars, history
  <2>14. ASSUME NEW o \in Operators, NEW d \in {"approved", "denied"}, NEW k \in Kinds,
                ResolveWrite(o, d, k)
         PROVE TypeOK'
    <3>1. oheld[o].id \in Ids /\ oheld[o].row \in Rows
      BY <2>14 DEF ResolveWrite, TypeOK, Held
    <3>2. [oheld[o].row EXCEPT !.decision = d, !.kind = k] \in Rows
      BY <3>1, RowFacts DEF Decisions
    <3>3. DOMAIN approvals' \subseteq Ids /\ approvals' \in [DOMAIN approvals' -> Rows]
      BY <2>14, <3>2 DEF ResolveWrite, TypeOK
    <3>4. grants' \subseteq Ids \X Kinds
      BY <2>14, <3>1 DEF ResolveWrite, TypeOK
    <3> QED
      BY <2>14, <3>3, <3>4 DEF ResolveWrite, OperatorReturn, TypeOK, clientVars
  <2>15. ASSUME NEW o \in Operators, RevokeWrite(o) PROVE TypeOK'
    BY <2>15, RowFacts DEF RevokeWrite, OperatorReturn, Held, TypeOK, PcStates, clientVars
  <2>16. ASSUME NEW o \in Operators, OperatorCrash(o) PROVE TypeOK'
    BY <2>16 DEF OperatorCrash, OperatorReturn, TypeOK, PcStates, clientVars, history
  <2>17. ASSUME NEW exempt \in Policies, SetPolicies(exempt) PROVE TypeOK'
    BY <2>17 DEF SetPolicies, TypeOK, clientVars, operatorVars, history
  <2>18. CASE UNCHANGED vars
    BY <2>18 DEF TypeOK, vars, clientVars, operatorVars, history
  <2> QED
    BY <2>1, <2>2, <2>3, <2>4, <2>5, <2>6, <2>7, <2>8, <2>9, <2>10, <2>11, <2>12,
       <2>13, <2>14, <2>15, <2>16, <2>17, <2>18 DEF Next, ClientStep, OperatorStep
<1> QED
  BY <1>1, <1>2, PTL DEF Spec
-----------------------------------------------------------------------------
(* OperationBacked: the inductive invariant.                               *)

\* A caller's copy asks for the same thing as the row it was read from.
SameRequest(r, i) ==
  i \in DOMAIN approvals /\ r.action = approvals[i].action /\ r.scope = approvals[i].scope

\* An approved row was approved, with this breadth, by an operator.
RowsGranted ==
  \A i \in DOMAIN approvals :
    approvals[i].decision = "approved" => <<i, approvals[i].kind>> \in grants

\* A client about to consume holds a granted one-time approval for its gate.
ConsumerGranted(c) ==
  /\ SameRequest(held[c].row, held[c].id)
  /\ held[c].row.decision = "approved" /\ held[c].row.kind = "one_time"
  /\ held[c].row.consumed = TRUE
  /\ <<held[c].id, "one_time">> \in grants
  /\ held[c].row.action = Gate(c).action /\ held[c].row.scope = Gate(c).scope

ConsumersGranted == \A c \in Clients : pc[c] = "consume" => ConsumerGranted(c)

OperatorsHold == \A o \in Operators : opc[o] # "idle" => SameRequest(oheld[o].row, oheld[o].id)

\* A row about to be inserted is new and pending.
RequestsFresh ==
  /\ \A i \in DOMAIN approvals : i < nextId
  /\ \A c \in Clients : pc[c] = "request" =>
       /\ held[c].id < nextId /\ held[c].id \notin DOMAIN approvals
       /\ held[c].row.decision = "pending"
  /\ \A c, d \in Clients : pc[c] = "request" /\ pc[d] = "request" /\ c # d =>
       held[c].id # held[d].id

\* The gates a call has passed are justified.
PassedJustified ==
  \A c \in Clients :
    /\ Len(backing[c]) <= Len(call[c])
    /\ pc[c] = "perform" => Len(backing[c]) = Len(call[c])
    /\ \A k \in 1 .. Len(backing[c]) : Justifies(backing[c][k], call[c][k], c)

BackedInv ==
  /\ TypeOK
  /\ RowsGranted
  /\ ConsumersGranted
  /\ OperatorsHold
  /\ RequestsFresh
  /\ PassedJustified

\* A step keeps what every recorded row asks for, and what was granted.
RequestsKept ==
  /\ DOMAIN approvals \subseteq DOMAIN approvals'
  /\ \A i \in DOMAIN approvals : /\ approvals'[i].action = approvals[i].action
                                  /\ approvals'[i].scope = approvals[i].scope
  /\ grants \subseteq grants'

\* A justification outlives such a step.
LEMMA JustifiesKept ==
  ASSUME TypeOK, TypeOK', RequestsKept, NEW c \in Clients, snapshot'[c] = snapshot[c]
  PROVE  \A b, g : Justifies(b, g, c) => Justifies(b, g, c)'
<1> SUFFICES ASSUME NEW b, NEW g, Justifies(b, g, c) PROVE Justifies(b, g, c)'
  OBVIOUS
<1>1. CASE b = Exempt /\ g.action \in snapshot[c]
  BY <1>1 DEF Justifies
<1>2. CASE /\ b.id \in DOMAIN approvals
           /\ <<b.id, b.kind>> \in grants
           /\ Matches([approvals[b.id] EXCEPT !.kind = b.kind], g)
  <2>1. approvals[b.id] \in Rows /\ approvals'[b.id] \in Rows /\ b.id \in DOMAIN approvals'
    BY <1>2 DEF TypeOK, RequestsKept
  <2>2. approvals'[b.id].action = approvals[b.id].action
        /\ approvals'[b.id].scope = approvals[b.id].scope
    BY <1>2 DEF RequestsKept
  <2>3. Matches([approvals'[b.id] EXCEPT !.kind = b.kind], g)
    BY <1>2, <2>1, <2>2 DEF Matches, Rows
  <2> QED
    BY <1>2, <2>1, <2>3 DEF Justifies, RequestsKept, Matches
<1> QED
  BY <1>1, <1>2 DEF Justifies

\* A client that goes on being about to consume keeps a granted approval.
LEMMA ConsumerKept ==
  ASSUME BackedInv, RequestsKept, NEW c \in Clients, pc[c] = "consume",
         held'[c] = held[c], call'[c] = call[c], backing'[c] = backing[c]
  PROVE  ConsumerGranted(c)'
<1>1. ConsumerGranted(c)
  BY DEF BackedInv, ConsumersGranted
<1>2. SameRequest(held[c].row, held[c].id)'
  BY <1>1 DEF ConsumerGranted, SameRequest, RequestsKept
<1>3. Gate(c)' = Gate(c)
  BY DEF Gate
<1> QED
  BY <1>1, <1>2, <1>3 DEF ConsumerGranted, RequestsKept

\* A step that starts no consumption keeps what the consumers hold granted.
LEMMA ConsumersKept ==
  ASSUME BackedInv, RequestsKept,
         \A c \in Clients : pc'[c] = "consume" =>
           /\ pc[c] = "consume" /\ held'[c] = held[c]
           /\ call'[c] = call[c] /\ backing'[c] = backing[c]
  PROVE  ConsumersGranted'
BY ConsumerKept DEF ConsumersGranted

\* Calls that pass no gate in a step stay justified.
LEMMA PassedKept ==
  ASSUME BackedInv, TypeOK', RequestsKept,
         \A c \in Clients :
           \/ /\ backing'[c] = backing[c] /\ call'[c] = call[c] /\ snapshot'[c] = snapshot[c]
              /\ pc'[c] = "perform" => pc[c] = "perform"
           \/ backing'[c] = << >> /\ pc'[c] # "perform"
  PROVE  PassedJustified'
<1> SUFFICES ASSUME NEW c \in Clients
             PROVE /\ Len(backing'[c]) <= Len(call'[c])
                   /\ pc'[c] = "perform" => Len(backing'[c]) = Len(call'[c])
                   /\ \A k \in 1 .. Len(backing'[c]) :
                        Justifies(backing[c][k], call[c][k], c)'
  BY DEF PassedJustified
<1>1. CASE /\ backing'[c] = backing[c] /\ call'[c] = call[c] /\ snapshot'[c] = snapshot[c]
           /\ pc'[c] = "perform" => pc[c] = "perform"
  <2>1. \A b, g : Justifies(b, g, c) => Justifies(b, g, c)'
    BY <1>1, JustifiesKept DEF BackedInv
  <2> QED
    BY <1>1, <2>1 DEF BackedInv, PassedJustified, Justifies
<1>2. CASE backing'[c] = << >> /\ pc'[c] # "perform"
  <2>1. Len(call'[c]) \in Nat
    <3>1. call'[c] \in Calls \cup {<< >>}
      BY DEF TypeOK
    <3> QED
      BY <3>1, CallSeq
  <2> QED
    BY <1>2, <2>1
<1> QED
  BY <1>1, <1>2

\* A call that passes a justified gate stays justified.
LEMMA PassedMore ==
  ASSUME BackedInv, TypeOK', RequestsKept, UNCHANGED <<call, snapshot>>,
         NEW c \in Clients, pc[c] \in {"gate", "consume"},
         NEW why \in Backings, Pass(c, why), Justifies(why, Gate(c), c)
  PROVE  PassedJustified'
<1> USE DEF BackedInv
<1>1. /\ pc'[c] = "perform" => Len(backing'[c]) = Len(call'[c])
      /\ backing'[c] = Append(backing[c], why)
      /\ \A d \in Clients \ {c} : backing'[d] = backing[d] /\ pc'[d] = pc[d]
  BY PassType
<1>2. backing[c] \in Seq(Backings) /\ Len(backing[c]) < Len(call[c])
  BY DEF TypeOK
<1>3. Len(call[c]) \in Nat
  BY CallType
<1>4. /\ Len(backing'[c]) = Len(backing[c]) + 1
      /\ \A k \in 1 .. Len(backing[c]) : backing'[c][k] = backing[c][k]
      /\ backing'[c][Len(backing[c]) + 1] = why
  BY <1>1, <1>2
<1>5. \A d \in Clients : \A b, g : Justifies(b, g, d) => Justifies(b, g, d)'
  BY JustifiesKept
<1>6. \A k \in 1 .. Len(backing'[c]) : Justifies(backing[c][k], call[c][k], c)'
  <2> SUFFICES ASSUME NEW k \in 1 .. Len(backing'[c])
               PROVE  Justifies(backing[c][k], call[c][k], c)'
    OBVIOUS
  <2>1. CASE k \in 1 .. Len(backing[c])
    <3>1. Justifies(backing[c][k], call[c][k], c)
      BY <2>1 DEF PassedJustified
    <3> QED
      BY <1>4, <1>5, <2>1, <3>1 DEF Justifies
  <2>2. CASE k = Len(backing[c]) + 1
    BY <1>4, <1>5, <2>2 DEF Justifies, Gate
  <2> QED
    BY <1>2, <1>4, <2>1, <2>2
<1>7. ASSUME NEW d \in Clients \ {c}
      PROVE /\ Len(backing'[d]) <= Len(call'[d])
            /\ pc'[d] = "perform" => Len(backing'[d]) = Len(call'[d])
            /\ \A k \in 1 .. Len(backing'[d]) : Justifies(backing[d][k], call[d][k], d)'
  BY <1>1, <1>5 DEF PassedJustified, Justifies
<1>8. Len(backing'[c]) <= Len(call'[c])
  BY <1>2, <1>3, <1>4
<1> QED
  BY <1>1, <1>6, <1>7, <1>8 DEF PassedJustified
\* A step that leaves the table alone, and every row a caller is about to
\* write, keeps the facts about rows.
LEMMA RowsKept ==
  ASSUME BackedInv, TypeOK', UNCHANGED <<approvals, grants>>, nextId <= nextId',
         \A c \in Clients : pc'[c] \in {"consume", "request"} =>
           /\ pc'[c] = pc[c] /\ held'[c] = held[c]
           /\ call'[c] = call[c] /\ backing'[c] = backing[c],
         \A o \in Operators : opc'[o] # "idle" => opc'[o] = opc[o] /\ oheld'[o] = oheld[o]
  PROVE  RequestsKept /\ RowsGranted' /\ ConsumersGranted' /\ OperatorsHold' /\ RequestsFresh'
<1>1. RequestsKept
  BY DEF RequestsKept
<1>2. RowsGranted'
  BY DEF BackedInv, RowsGranted
<1>3. ConsumersGranted'
  BY <1>1, ConsumersKept
<1>4. OperatorsHold'
  BY DEF BackedInv, OperatorsHold, SameRequest
<1>5. RequestsFresh'
  <2>1. nextId \in Nat /\ nextId' \in Nat /\ DOMAIN approvals \subseteq Nat
    BY ApprovalsAssumption DEF BackedInv, TypeOK, Ids
  <2>2. \A c \in Clients : pc[c] = "request" => held[c].id \in Nat
    BY DEF BackedInv, TypeOK, Held, Ids
  <2> QED
    BY <2>1, <2>2 DEF BackedInv, RequestsFresh
<1> QED
  BY <1>1, <1>2, <1>3, <1>4, <1>5

\* Every step of the clients, the operators and the policies keeps BackedInv.
LEMMA BackedStep == BackedInv /\ TypeOK' /\ [Next]_vars => BackedInv'
<1> SUFFICES ASSUME BackedInv, TypeOK', [Next]_vars PROVE BackedInv'
  OBVIOUS
<1> USE ApprovalsAssumption DEF BackedInv
<1>1. ASSUME NEW c \in Clients, NEW gates \in Calls, Begin(c, gates) PROVE BackedInv'
  <2>1. RequestsKept /\ RowsGranted' /\ ConsumersGranted' /\ OperatorsHold' /\ RequestsFresh'
    BY <1>1, RowsKept DEF Begin, TypeOK, operatorVars, history
  <2> QED
    BY <1>1, <2>1, PassedKept DEF Begin, TypeOK
<1>2. ASSUME NEW c \in Clients, PassExempt(c) PROVE BackedInv'
  <2>1. pc[c] = "gate" /\ Pass(c, Exempt) /\ Exempt \in Backings /\ Justifies(Exempt, Gate(c), c)
    BY <1>2 DEF PassExempt, Exempt, Backings, Justifies
  <2>2. UNCHANGED <<approvals, nextId, policy, call, snapshot, held, operatorVars, history>>
    BY <1>2 DEF PassExempt
  <2>3. RequestsKept /\ RowsGranted' /\ ConsumersGranted' /\ OperatorsHold' /\ RequestsFresh'
    BY <2>1, <2>2, PassType, RowsKept DEF TypeOK, operatorVars, history
  <2> QED
    BY <2>1, <2>2, <2>3, PassedMore
<1>3. ASSUME NEW c \in Clients, Return(c),
             UNCHANGED <<approvals, nextId, policy, operatorVars, history>>
      PROVE BackedInv'
  <2>1. RequestsKept /\ RowsGranted' /\ ConsumersGranted' /\ OperatorsHold' /\ RequestsFresh'
    BY <1>3, RowsKept DEF Return, TypeOK, operatorVars, history
  <2> QED
    BY <1>3, <2>1, PassedKept DEF Return, TypeOK
<1>4. ASSUME NEW c \in Clients, PassWide(c) PROVE BackedInv'
  <2>1. PICK i \in DOMAIN approvals :
          /\ Decisive(i, Gate(c))
          /\ Usable(approvals[i]) /\ approvals[i].kind \in WideKinds
          /\ Pass(c, [id |-> i, kind |-> approvals[i].kind])
    BY <1>4 DEF PassWide
  <2> DEFINE why == [id |-> i, kind |-> approvals[i].kind]
  <2>2. approvals[i] \in Rows /\ i \in Ids
    BY DEF TypeOK
  <2>3. why \in Backings
    BY <2>2 DEF Backings, Rows
  <2>4. Justifies(why, Gate(c), c)
    <3>1. [approvals[i] EXCEPT !.kind = approvals[i].kind] = approvals[i]
      BY <2>2 DEF Rows
    <3> QED
      BY <2>1, <3>1 DEF Justifies, RowsGranted, Decisive, Speaks, Usable
  <2>5. /\ pc[c] = "gate"
        /\ UNCHANGED <<approvals, nextId, policy, call, snapshot, held, operatorVars, history>>
    BY <1>4 DEF PassWide
  <2>6. RequestsKept /\ RowsGranted' /\ ConsumersGranted' /\ OperatorsHold' /\ RequestsFresh'
    BY <2>1, <2>3, <2>5, PassType, RowsKept DEF TypeOK, operatorVars, history
  <2> QED
    BY <2>1, <2>3, <2>4, <2>5, <2>6, PassedMore
<1>5. ASSUME NEW c \in Clients, TakeOneTime(c) PROVE BackedInv'
  <2>1. PICK i \in DOMAIN approvals :
          /\ Decisive(i, Gate(c))
          /\ Usable(approvals[i]) /\ approvals[i].kind \notin WideKinds
          /\ held' = [held EXCEPT ![c] =
                        [id |-> i, row |-> [approvals[i] EXCEPT !.consumed = TRUE]]]
    BY <1>5 DEF TakeOneTime
  <2>2. approvals[i] \in Rows /\ approvals[i].kind = "one_time"
    BY <2>1 DEF TypeOK, Rows, Kinds, WideKinds
  <2>3. /\ pc' = [pc EXCEPT ![c] = "consume"]
        /\ UNCHANGED <<approvals, nextId, policy, call, snapshot, backing, operatorVars, history>>
    BY <1>5 DEF TakeOneTime
  <2>4. RequestsKept
    BY <2>3 DEF RequestsKept, history
  <2>5. /\ held'[c].id = i
        /\ held'[c].row = [approvals[i] EXCEPT !.consumed = TRUE]
        /\ \A d \in Clients \ {c} : held'[d] = held[d] /\ pc'[d] = pc[d]
        /\ pc'[c] = "consume"
    BY <2>1, <2>3 DEF TypeOK
  <2>6. ConsumersGranted'
    <3>1. /\ approvals[i].decision = "approved"
          /\ approvals[i].action = Gate(c).action /\ approvals[i].scope = Gate(c).scope
      BY <2>1, <2>2 DEF Decisive, Speaks, Matches, Decides, Usable, WideKinds
    <3>2. /\ SameRequest(held'[c].row, i)
          /\ held'[c].row.decision = "approved" /\ held'[c].row.kind = "one_time"
          /\ held'[c].row.consumed = TRUE
          /\ held'[c].row.action = Gate(c).action /\ held'[c].row.scope = Gate(c).scope
      BY <2>2, <2>5, <3>1 DEF SameRequest, Rows
    <3>3. <<i, "one_time">> \in grants
      BY <2>2, <3>1 DEF RowsGranted
    <3>4. ConsumerGranted(c)'
      BY <2>3, <2>5, <3>2, <3>3 DEF ConsumerGranted, SameRequest, Gate, history
    <3>5. \A d \in Clients \ {c} : pc'[d] = "consume" =>
            /\ pc[d] = "consume" /\ held'[d] = held[d]
            /\ call'[d] = call[d] /\ backing'[d] = backing[d]
      BY <2>3, <2>5
    <3> QED
      BY <2>4, <3>4, <3>5, ConsumerKept DEF ConsumersGranted
  <2>7. RowsGranted' /\ OperatorsHold' /\ RequestsFresh'
    BY <2>3, <2>5 DEF RowsGranted, OperatorsHold, RequestsFresh, SameRequest, operatorVars, history
  <2> QED
    BY <2>3, <2>4, <2>5, <2>6, <2>7, PassedKept DEF TypeOK
<1>6. ASSUME NEW c \in Clients, NEW g \in Gates, nextId <= MaxApprovals,
             held' = [held EXCEPT ![c] = [id |-> nextId, row |-> Pending(g)]],
             nextId' = nextId + 1, pc' = [pc EXCEPT ![c] = "request"],
             UNCHANGED <<approvals, policy, call, snapshot, backing, operatorVars, history>>
      PROVE BackedInv'
  <2>1. RequestsKept
    BY <1>6 DEF RequestsKept, history
  <2>2. RowsGranted' /\ ConsumersGranted' /\ OperatorsHold'
    BY <1>6 DEF TypeOK, RowsGranted, ConsumersGranted, ConsumerGranted, OperatorsHold, SameRequest, Gate,
                operatorVars, history
  <2>3. RequestsFresh'
    <3>1. nextId \in Nat /\ DOMAIN approvals \subseteq Nat
      BY DEF TypeOK, Ids
    <3>2. \A d \in Clients : pc[d] = "request" => held[d].id \in Nat
      BY DEF TypeOK, Held, Ids
    <3>3. /\ held'[c].id = nextId /\ held'[c].row.decision = "pending"
          /\ \A d \in Clients \ {c} : held'[d] = held[d] /\ pc'[d] = pc[d]
      BY <1>6 DEF TypeOK, Pending
    <3> QED
      BY <1>6, <3>1, <3>2, <3>3 DEF RequestsFresh
  <2> QED
    BY <1>6, <2>1, <2>2, <2>3, PassedKept DEF TypeOK
<1>7. ASSUME NEW c \in Clients, Consume(c) PROVE BackedInv'
  <2> DEFINE i == held[c].id
             why == [id |-> i, kind |-> held[c].row.kind]
  <2>1. /\ i \in DOMAIN approvals /\ i \in Ids
        /\ held[c].row \in Rows
        /\ held[c].row.decision = "approved" /\ held[c].row.kind = "one_time"
        /\ held[c].row.action = approvals[i].action /\ held[c].row.scope = approvals[i].scope
        /\ <<i, "one_time">> \in grants
        /\ held[c].row.action = Gate(c).action /\ held[c].row.scope = Gate(c).scope
    BY <1>7 DEF Consume, TypeOK, Held, ConsumersGranted, ConsumerGranted, SameRequest
  <2>2. /\ pc[c] = "consume" /\ Pass(c, why)
        /\ approvals' = [approvals EXCEPT ![i] = held[c].row]
        /\ held' = [held EXCEPT ![c] = NoHeld]
        /\ UNCHANGED <<nextId, policy, call, snapshot, operatorVars, grants, revoked>>
    BY <1>7 DEF Consume
  <2>3. why \in Backings
    BY <2>1 DEF Backings, Rows
  <2>4. RequestsKept
    BY <2>1, <2>2 DEF RequestsKept
  <2>5. Justifies(why, Gate(c), c)
    <3>1. approvals[i] \in Rows
      BY <2>1 DEF TypeOK
    <3> QED
      BY <2>1, <3>1 DEF Justifies, Matches, Rows
  <2>6. /\ pc'[c] \in {"perform", "gate"}
        /\ \A d \in Clients \ {c} : pc'[d] = pc[d] /\ backing'[d] = backing[d] /\ held'[d] = held[d]
    BY <2>2, <2>3, PassType DEF TypeOK
  <2>7. RowsGranted'
    BY <2>1, <2>2 DEF RowsGranted, TypeOK
  <2>8. ConsumersGranted'
    <3>1. \A d \in Clients : pc'[d] = "consume" =>
            /\ pc[d] = "consume" /\ held'[d] = held[d]
            /\ call'[d] = call[d] /\ backing'[d] = backing[d]
      BY <2>2, <2>6
    <3> QED
      BY <2>4, <3>1, ConsumersKept
  <2>9. OperatorsHold'
    BY <2>2, <2>4 DEF OperatorsHold, SameRequest, RequestsKept, operatorVars
  <2>10. RequestsFresh'
    BY <2>2, <2>6 DEF RequestsFresh
  <2> QED
    BY <2>2, <2>3, <2>4, <2>5, <2>7, <2>8, <2>9, <2>10, PassedMore
<1>8. ASSUME NEW c \in Clients, Request(c) PROVE BackedInv'
  <2> DEFINE i == held[c].id
  <2>1. /\ pc[c] = "request" /\ i \in Ids /\ i \notin DOMAIN approvals /\ i < nextId
        /\ held[c].row \in Rows
    BY <1>8 DEF Request, TypeOK, Held, RequestsFresh
  <2>2. /\ DOMAIN approvals' = DOMAIN approvals \cup {i}
        /\ approvals'[i] = held[c].row
        /\ \A j \in DOMAIN approvals : approvals'[j] = approvals[j]
        /\ UNCHANGED <<nextId, policy, operatorVars, history>>
        /\ Return(c)
    BY <1>8, <2>1 DEF Request
  <2>3. /\ pc'[c] = "idle" /\ backing'[c] = << >>
        /\ \A d \in Clients \ {c} : /\ pc'[d] = pc[d] /\ held'[d] = held[d] /\ call'[d] = call[d]
                                    /\ backing'[d] = backing[d] /\ snapshot'[d] = snapshot[d]
    BY <2>2 DEF Return, TypeOK
  <2>4. RequestsKept
    BY <2>2 DEF RequestsKept, history
  <2>5. RowsGranted'
    <3>1. held[c].row.decision = "pending"
      BY <2>1 DEF RequestsFresh
    <3> QED
      BY <2>2, <3>1 DEF RowsGranted, history
  <2>6. ConsumersGranted'
    <3>1. \A d \in Clients : pc'[d] = "consume" =>
            /\ pc[d] = "consume" /\ held'[d] = held[d]
            /\ call'[d] = call[d] /\ backing'[d] = backing[d]
      BY <2>3
    <3> QED
      BY <2>4, <3>1, ConsumersKept
  <2>7. OperatorsHold'
    BY <2>2, <2>4 DEF OperatorsHold, SameRequest, RequestsKept, operatorVars
  <2>8. RequestsFresh'
    BY <2>1, <2>2, <2>3 DEF RequestsFresh
  <2> QED
    BY <2>3, <2>4, <2>5, <2>6, <2>7, <2>8, PassedKept
<1>9. ASSUME NEW o \in Operators, NEW i \in DOMAIN approvals, NEW w \in {"resolve", "revoke"},
             opc' = [opc EXCEPT ![o] = w],
             oheld' = [oheld EXCEPT ![o] = [id |-> i, row |-> approvals[i]]],
             UNCHANGED <<approvals, nextId, policy, clientVars, history>>
      PROVE BackedInv'
  <2>1. RequestsKept /\ RowsGranted' /\ ConsumersGranted' /\ RequestsFresh'
    BY <1>9 DEF RequestsKept, RowsGranted, ConsumersGranted, ConsumerGranted, SameRequest, RequestsFresh, Gate,
                clientVars, history
  <2>2. OperatorsHold'
    BY <1>9 DEF OperatorsHold, SameRequest, TypeOK
  <2> QED
    BY <1>9, <2>1, <2>2, PassedKept DEF clientVars
<1>10. ASSUME NEW o \in Operators, opc[o] # "idle", NEW d \in Decisions, NEW k \in Kinds,
              approvals' = [approvals EXCEPT ![oheld[o].id] =
                              [oheld[o].row EXCEPT !.decision = d, !.kind = k]],
              d = "approved" => <<oheld[o].id, k>> \in grants',
              grants \subseteq grants',
              OperatorReturn(o), UNCHANGED <<nextId, policy, clientVars>>
       PROVE BackedInv'
  <2> DEFINE i == oheld[o].id
             r == [oheld[o].row EXCEPT !.decision = d, !.kind = k]
  <2>1. /\ i \in DOMAIN approvals /\ oheld[o].row \in Rows
        /\ oheld[o].row.action = approvals[i].action /\ oheld[o].row.scope = approvals[i].scope
    BY <1>10 DEF TypeOK, Held, OperatorsHold, SameRequest
  <2>2. r.action = approvals[i].action /\ r.scope = approvals[i].scope
        /\ r.decision = d /\ r.kind = k
    BY <2>1 DEF Rows
  <2>3. /\ DOMAIN approvals' = DOMAIN approvals /\ approvals'[i] = r
        /\ \A j \in DOMAIN approvals \ {i} : approvals'[j] = approvals[j]
    BY <1>10, <2>1
  <2>4. RequestsKept
    BY <1>10, <2>2, <2>3 DEF RequestsKept
  <2>5. RowsGranted'
    BY <1>10, <2>2, <2>3 DEF RowsGranted
  <2>6. ConsumersGranted' /\ RequestsFresh'
    <3>1. ConsumersGranted'
      BY <1>10, <2>4, ConsumersKept DEF clientVars
    <3>2. RequestsFresh'
      BY <1>10, <2>3 DEF RequestsFresh, clientVars
    <3> QED
      BY <3>1, <3>2
  <2>7. OperatorsHold'
    BY <1>10, <2>4 DEF OperatorReturn, OperatorsHold, SameRequest, RequestsKept, TypeOK
  <2> QED
    BY <1>10, <2>4, <2>5, <2>6, <2>7, PassedKept DEF clientVars
<1>11. CASE UNCHANGED <<approvals, nextId, clientVars, history>> /\ \A o \in Operators :
              opc'[o] # "idle" => opc'[o] = opc[o] /\ oheld'[o] = oheld[o]
  <2>1. nextId <= nextId'
    BY <1>11 DEF TypeOK
  <2>2. RequestsKept /\ RowsGranted' /\ ConsumersGranted' /\ OperatorsHold' /\ RequestsFresh'
    BY <1>11, <2>1, RowsKept DEF clientVars, history
  <2> QED
    BY <1>11, <2>2, PassedKept DEF clientVars
<1>12. ASSUME NEW c \in Clients, ClientStep(c) PROVE BackedInv'
  <2>1. CASE NeedApproval(c)
    <3>1. Gate(c) \in Gates
      BY <2>1, GateType DEF NeedApproval
    <3> QED
      BY <1>6, <2>1, <3>1 DEF NeedApproval
  <2>2. ASSUME NEW a \in SkillActions, NEW s \in Scopes,
               RequestSkill(c, [action |-> a, scope |-> s])
        PROVE BackedInv'
    <3>1. [action |-> a, scope |-> s] \in Gates
      BY DEF Gates
    <3> QED
      BY <1>6, <2>2, <3>1 DEF RequestSkill
  <2>3. CASE Refuse(c) \/ Perform(c) \/ Crash(c)
    BY <1>3, <2>3 DEF Refuse, Perform, Crash
  <2> QED
    BY <1>1, <1>2, <1>4, <1>5, <1>7, <1>8, <1>12, <2>1, <2>2, <2>3 DEF ClientStep
<1>13. ASSUME NEW o \in Operators, OperatorStep(o) PROVE BackedInv'
  <2>1. ASSUME NEW i \in DOMAIN approvals, ResolveRead(o, i) \/ RevokeRead(o, i)
        PROVE BackedInv'
    BY <1>9, <2>1 DEF ResolveRead, RevokeRead
  <2>2. ASSUME NEW d \in {"approved", "denied"}, NEW k \in Kinds, ResolveWrite(o, d, k)
        PROVE BackedInv'
    BY <1>10, <2>2 DEF ResolveWrite, Decisions
  <2>3. CASE RevokeWrite(o)
    <3>1. oheld[o].row \in Rows
      BY <2>3 DEF RevokeWrite, TypeOK, Held
    <3>2. /\ oheld[o].row.kind \in Kinds
          /\ [oheld[o].row EXCEPT !.decision = "revoked"]
             = [oheld[o].row EXCEPT !.decision = "revoked", !.kind = oheld[o].row.kind]
      BY <3>1 DEF Rows
    <3> QED
      BY <1>10, <2>3, <3>2 DEF RevokeWrite, Decisions
  <2>4. CASE OperatorCrash(o)
    BY <1>11, <2>4 DEF OperatorCrash, OperatorReturn, TypeOK
  <2> QED
    BY <1>13, <2>1, <2>2, <2>3, <2>4 DEF OperatorStep
<1>14. ASSUME NEW exempt \in Policies, SetPolicies(exempt) PROVE BackedInv'
  BY <1>11, <1>14 DEF SetPolicies, operatorVars
<1>15. CASE UNCHANGED vars
  BY <1>11, <1>15 DEF vars, operatorVars
<1> QED
  BY <1>12, <1>13, <1>14, <1>15 DEF Next

\* BackedInv holds in every reachable state.
LEMMA BackedInvariant == Spec => []BackedInv
<1>1. Init => BackedInv
  BY ApprovalsAssumption, TypeInit DEF Init, BackedInv, RowsGranted, ConsumersGranted,
     OperatorsHold, RequestsFresh, PassedJustified
<1>2. BackedInv /\ TypeOK' /\ [Next]_vars => BackedInv'
  BY BackedStep
<1> QED
  BY <1>1, <1>2, TypeCorrect, PTL DEF Spec

\* No call reaches its provider or storage backend through a gate that neither
\* the policies nor an operator opened for it, in any interleaving of calls,
\* resolutions, revocations, stale writes and crashes.
THEOREM OperationsAreBacked == Spec => []OperationBacked
<1>1. BackedInv => OperationBacked
  BY DEF BackedInv, PassedJustified, OperationBacked
<1> QED
  BY <1>1, BackedInvariant, PTL
-----------------------------------------------------------------------------
(* What is settled stays settled, as long as operators do not overlap.     *)

OneOperator == \A o, p \in Operators : o = p

\* A row that no gate passes on and no operator may take up again.
Dead(row) ==
  \/ row.decision \in {"denied", "revoked"}
  \/ row.decision = "approved" /\ row.kind = "one_time" /\ row.consumed = TRUE

\* The rows that were revoked or passed on are dead.
SettledDead ==
  \A i \in Ids : i \in revoked \/ uses[i] > 0 =>
    i \in DOMAIN approvals /\ Dead(approvals[i])

\* A row that was granted is neither pending nor denied.
GrantsStand ==
  \A i \in Ids, k \in Kinds : <<i, k>> \in grants =>
    i \in DOMAIN approvals /\ approvals[i].decision \notin {"pending", "denied"}

\* The row an operator resolves is still pending, the row it revokes was granted.
OperatorsCurrent ==
  \A o \in Operators :
    /\ opc[o] = "resolve" => approvals[oheld[o].id].decision = "pending"
    /\ opc[o] = "revoke" => \E k \in Kinds : <<oheld[o].id, k>> \in grants

SettledInv == SettledDead /\ GrantsStand /\ OperatorsCurrent

\* A step that leaves the table alone, and starts no operator's call, keeps
\* SettledInv.
LEMMA SettledQuiet ==
  ASSUME BackedInv, SettledInv, UNCHANGED <<approvals, grants, revoked, uses>>,
         \A o \in Operators : opc'[o] # "idle" => opc'[o] = opc[o] /\ oheld'[o] = oheld[o]
  PROVE  SettledInv'
BY DEF SettledInv, SettledDead, GrantsStand, OperatorsCurrent, Dead

\* Every step keeps SettledInv, and the row of a denied approval.
LEMMA SettledStep ==
  ASSUME OneOperator, BackedInv, SettledInv, [Next]_vars
  PROVE  /\ SettledInv'
         /\ \A i \in DOMAIN approvals :
              approvals[i].decision = "denied" => approvals'[i] = approvals[i]
<1> DEFINE Goal == /\ SettledInv'
                   /\ \A i \in DOMAIN approvals :
                        approvals[i].decision = "denied" => approvals'[i] = approvals[i]
<1>1. ASSUME UNCHANGED <<approvals, grants, revoked, uses>>,
             \A o \in Operators : opc'[o] # "idle" => opc'[o] = opc[o] /\ oheld'[o] = oheld[o]
      PROVE  Goal
  BY <1>1, SettledQuiet
<1>2. ASSUME NEW c \in Clients, ClientStep(c), UNCHANGED <<approvals, operatorVars, history>>
      PROVE  Goal
  BY <1>1, <1>2 DEF operatorVars, history
<1>3. ASSUME NEW c \in Clients, Consume(c) PROVE Goal
  <2> DEFINE i == held[c].id
  <2>1. /\ i \in DOMAIN approvals /\ i \in Ids
        /\ held[c].row.decision = "approved" /\ held[c].row.kind = "one_time"
        /\ held[c].row.consumed = TRUE
        /\ <<i, "one_time">> \in grants
    BY <1>3 DEF Consume, BackedInv, TypeOK, Held, ConsumersGranted, ConsumerGranted, SameRequest
  <2>2. /\ DOMAIN approvals' = DOMAIN approvals /\ approvals'[i] = held[c].row
        /\ \A j \in DOMAIN approvals \ {i} : approvals'[j] = approvals[j]
        /\ \A j \in Ids \ {i} : uses'[j] = uses[j]
        /\ UNCHANGED <<opc, oheld, grants, revoked>>
    BY <1>3, <2>1 DEF Consume, BackedInv, TypeOK, operatorVars
  <2>3. approvals[i].decision \notin {"pending", "denied"}
    BY <2>1 DEF SettledInv, GrantsStand, Kinds
  <2>4. SettledDead'
    BY <2>1, <2>2 DEF SettledInv, SettledDead, Dead
  <2>5. GrantsStand'
    BY <2>1, <2>2 DEF SettledInv, GrantsStand
  <2>6. OperatorsCurrent'
    BY <2>2, <2>3 DEF SettledInv, OperatorsCurrent, BackedInv, OperatorsHold, SameRequest
  <2> QED
    BY <2>2, <2>3, <2>4, <2>5, <2>6 DEF SettledInv
<1>4. ASSUME NEW c \in Clients, Request(c) PROVE Goal
  <2> DEFINE i == held[c].id
  <2>1. /\ i \in Ids /\ i \notin DOMAIN approvals
    BY <1>4 DEF Request, BackedInv, TypeOK, Held, RequestsFresh
  <2>2. /\ DOMAIN approvals' = DOMAIN approvals \cup {i}
        /\ \A j \in DOMAIN approvals : approvals'[j] = approvals[j]
        /\ UNCHANGED <<opc, oheld, grants, revoked, uses>>
    BY <1>4, <2>1 DEF Request, operatorVars, history
  <2>3. SettledDead' /\ GrantsStand'
    BY <2>1, <2>2 DEF SettledInv, SettledDead, GrantsStand, Dead
  <2>4. OperatorsCurrent'
    BY <2>2 DEF SettledInv, OperatorsCurrent, BackedInv, OperatorsHold, SameRequest
  <2> QED
    BY <2>2, <2>3, <2>4 DEF SettledInv
<1>5. ASSUME NEW o \in Operators, NEW i \in DOMAIN approvals, ResolveRead(o, i) \/ RevokeRead(o, i)
      PROVE  Goal
  <2>1. /\ UNCHANGED <<approvals, grants, revoked, uses>>
        /\ opc'[o] = IF approvals[i].decision = "pending" THEN "resolve" ELSE "revoke"
        /\ oheld'[o].id = i
        /\ approvals[i].decision \in {"pending", "approved"}
    BY <1>5 DEF ResolveRead, RevokeRead, BackedInv, TypeOK, history
  <2>2. \A p \in Operators : p = o
    BY DEF OneOperator
  <2>3. approvals[i].decision = "approved" => \E k \in Kinds : <<i, k>> \in grants
    BY DEF BackedInv, RowsGranted, TypeOK, Rows
  <2>4. OperatorsCurrent'
    BY <2>1, <2>2, <2>3 DEF OperatorsCurrent
  <2>5. SettledDead' /\ GrantsStand'
    BY <2>1 DEF SettledInv, SettledDead, GrantsStand, Dead
  <2> QED
    BY <2>1, <2>4, <2>5 DEF SettledInv
<1>6. ASSUME NEW o \in Operators, NEW d \in {"approved", "denied"}, NEW k \in Kinds,
             ResolveWrite(o, d, k)
      PROVE  Goal
  <2> DEFINE i == oheld[o].id
  <2>1. /\ opc[o] = "resolve" /\ i \in DOMAIN approvals /\ i \in Ids
        /\ oheld[o].row \in Rows /\ approvals[i].decision = "pending"
    BY <1>6 DEF ResolveWrite, BackedInv, TypeOK, Held, OperatorsHold, SameRequest,
       SettledInv, OperatorsCurrent
  <2>2. /\ DOMAIN approvals' = DOMAIN approvals /\ approvals'[i].decision = d
        /\ \A j \in DOMAIN approvals \ {i} : approvals'[j] = approvals[j]
        /\ grants' = IF d = "approved" THEN grants \cup {<<i, k>>} ELSE grants
        /\ UNCHANGED <<revoked, uses>>
    BY <1>6, <2>1 DEF ResolveWrite, Rows
  <2>3. i \notin revoked /\ ~(uses[i] > 0)
    BY <2>1 DEF SettledInv, SettledDead, Dead
  <2>4. \A h \in Kinds : <<i, h>> \notin grants
    BY <2>1 DEF SettledInv, GrantsStand
  <2>5. SettledDead'
    BY <2>2, <2>3 DEF SettledInv, SettledDead, Dead
  <2>6. GrantsStand'
    <3> SUFFICES ASSUME NEW j \in Ids, NEW h \in Kinds, <<j, h>> \in grants'
                 PROVE  j \in DOMAIN approvals' /\ approvals'[j].decision \notin {"pending", "denied"}
      BY DEF GrantsStand
    <3>1. CASE j = i
      BY <2>1, <2>2, <2>4, <3>1
    <3>2. CASE j # i
      BY <2>2, <3>2 DEF SettledInv, GrantsStand
    <3> QED
      BY <3>1, <3>2
  <2>7. \A p \in Operators : opc'[p] = "idle"
    BY <1>6 DEF OneOperator, ResolveWrite, OperatorReturn, BackedInv, TypeOK
  <2>8. OperatorsCurrent'
    BY <2>7 DEF OperatorsCurrent
  <2> QED
    BY <2>1, <2>2, <2>5, <2>6, <2>8 DEF SettledInv
<1>7. ASSUME NEW o \in Operators, RevokeWrite(o) PROVE Goal
  <2> DEFINE i == oheld[o].id
  <2>1. /\ opc[o] = "revoke" /\ i \in DOMAIN approvals /\ i \in Ids /\ oheld[o].row \in Rows
    BY <1>7 DEF RevokeWrite, BackedInv, TypeOK, Held, OperatorsHold, SameRequest
  <2>2. approvals[i].decision # "denied"
    BY <2>1 DEF SettledInv, OperatorsCurrent, GrantsStand
  <2>3. /\ DOMAIN approvals' = DOMAIN approvals /\ approvals'[i].decision = "revoked"
        /\ \A j \in DOMAIN approvals \ {i} : approvals'[j] = approvals[j]
        /\ revoked' = revoked \cup {i}
        /\ UNCHANGED <<grants, uses>>
    BY <1>7, <2>1 DEF RevokeWrite, Rows
  <2>4. SettledDead' /\ GrantsStand'
    BY <2>1, <2>3 DEF SettledInv, SettledDead, GrantsStand, Dead
  <2>5. \A p \in Operators : opc'[p] = "idle"
    BY <1>7 DEF OneOperator, RevokeWrite, OperatorReturn, BackedInv, TypeOK
  <2>6. OperatorsCurrent'
    BY <2>5 DEF OperatorsCurrent
  <2> QED
    BY <2>2, <2>3, <2>4, <2>6 DEF SettledInv
<1>8. ASSUME NEW o \in Operators, OperatorCrash(o) PROVE Goal
  BY <1>1, <1>8 DEF OperatorCrash, OperatorReturn, BackedInv, TypeOK, history
<1>9. ASSUME NEW exempt \in Policies, SetPolicies(exempt) PROVE Goal
  BY <1>1, <1>9 DEF SetPolicies, operatorVars, history
<1>10. CASE UNCHANGED vars
  BY <1>1, <1>10 DEF vars, operatorVars, history
<1>11. ASSUME NEW c \in Clients, ClientStep(c) PROVE Goal
  <2>1. CASE UNCHANGED <<approvals, operatorVars, history>>
    BY <1>2, <1>11, <2>1
  <2>2. CASE Consume(c) \/ Request(c)
    BY <1>3, <1>4, <2>2
  <2> QED
    BY <1>11, <2>1, <2>2 DEF ClientStep, Begin, PassExempt, Refuse, PassWide, TakeOneTime,
       NeedApproval, RequestSkill, Perform, Crash
<1>12. ASSUME NEW o \in Operators, OperatorStep(o) PROVE Goal
  BY <1>5, <1>6, <1>7, <1>8, <1>12 DEF OperatorStep
<1> QED
  BY <1>9, <1>10, <1>11, <1>12 DEF Next

\* SettledInv holds in every reachable state, when operators do not overlap.
LEMMA SettledInvariant == ASSUME OneOperator PROVE Spec => []SettledInv
<1>1. Init => SettledInv
  BY DEF Init, SettledInv, SettledDead, GrantsStand, OperatorsCurrent
<1>2. BackedInv /\ SettledInv /\ [Next]_vars => SettledInv'
  BY SettledStep
<1> QED
  BY <1>1, <1>2, BackedInvariant, PTL DEF Spec

\* A revoked approval lets no gate pass again, not even when a client that read
\* it before writes its stale copy back (revoke_approval, _require_approval): for
\* any number of clients, and operators that do not overlap.
THEOREM RevokedStayUnusable == ASSUME OneOperator PROVE Spec => []RevokedUnusable
<1>1. BackedInv /\ SettledInv => RevokedUnusable
  BY DEF BackedInv, TypeOK, Rows, SettledInv, SettledDead, Dead, RevokedUnusable, Usable, WideKinds
<1> QED
  BY <1>1, BackedInvariant, SettledInvariant, PTL

\* An approval that a gate has passed on once lets no later gate pass, although
\* older copies of its row are written back (_require_approval): for any number
\* of clients, and operators that do not overlap.
THEOREM ConsumedStayUnusable == ASSUME OneOperator PROVE Spec => []ConsumedUnusable
<1>1. BackedInv /\ SettledInv => ConsumedUnusable
  BY DEF BackedInv, TypeOK, Rows, SettledInv, SettledDead, Dead, ConsumedUnusable, Usable, WideKinds
<1> QED
  BY <1>1, BackedInvariant, SettledInvariant, PTL

\* No step changes the row of a denied approval (resolve_approval): for any
\* number of clients, and operators that do not overlap.
THEOREM DenialsAreFinal == ASSUME OneOperator PROVE Spec => DeniedIsFinal
<1>1. BackedInv /\ SettledInv /\ [Next]_vars =>
        [\A i \in DOMAIN approvals :
           approvals[i].decision = "denied" => approvals'[i] = approvals[i]]_vars
  BY SettledStep
<1> QED
  BY <1>1, BackedInvariant, SettledInvariant, PTL DEF Spec, DeniedIsFinal

\* A decided row that no gate can pass on never becomes one that a gate can pass
\* on: what was denied, revoked or used up needs a new request.
StayUnusable ==
  \A i \in DOMAIN approvals :
    approvals[i].decision # "pending" /\ ~Usable(approvals[i])
      => i \in DOMAIN approvals' /\ approvals'[i].decision # "pending" /\ ~Usable(approvals'[i])

SettledForGood == [][StayUnusable]_vars

\* A row is dead just when it is decided and unusable.
LEMMA DeadRows ==
  ASSUME NEW row \in Rows
  PROVE  Dead(row) <=> row.decision # "pending" /\ ~Usable(row)
BY DEF Dead, Usable, Rows, Decisions, Kinds, WideKinds

\* Every step leaves the dead rows dead.
LEMMA DeadStep ==
  ASSUME OneOperator, BackedInv, SettledInv, [Next]_vars
  PROVE  \A i \in DOMAIN approvals :
           Dead(approvals[i]) => i \in DOMAIN approvals' /\ Dead(approvals'[i])
<1> DEFINE Goal == \A i \in DOMAIN approvals :
                     Dead(approvals[i]) => i \in DOMAIN approvals' /\ Dead(approvals'[i])
<1>1. ASSUME NEW c \in Clients, Consume(c) PROVE Goal
  <2>1. held[c].row.decision = "approved" /\ held[c].row.kind = "one_time"
        /\ held[c].row.consumed = TRUE
    BY <1>1 DEF Consume, BackedInv, ConsumersGranted, ConsumerGranted
  <2>2. approvals' = [approvals EXCEPT ![held[c].id] = held[c].row]
    BY <1>1 DEF Consume
  <2> QED
    BY <2>1, <2>2 DEF Dead
<1>2. ASSUME NEW c \in Clients, Request(c) PROVE Goal
  <2>1. held[c].id \notin DOMAIN approvals
    BY <1>2 DEF Request, BackedInv, RequestsFresh
  <2> QED
    BY <1>2, <2>1 DEF Request
<1>3. ASSUME NEW o \in Operators, NEW d, NEW k, ResolveWrite(o, d, k) PROVE Goal
  <2>1. approvals[oheld[o].id].decision = "pending"
    BY <1>3 DEF ResolveWrite, SettledInv, OperatorsCurrent
  <2> QED
    BY <1>3, <2>1 DEF ResolveWrite, Dead
<1>4. ASSUME NEW o \in Operators, RevokeWrite(o) PROVE Goal
  <2>1. oheld[o].row \in Rows
    BY <1>4 DEF RevokeWrite, BackedInv, TypeOK, Held
  <2>2. [oheld[o].row EXCEPT !.decision = "revoked"].decision = "revoked"
    BY <2>1 DEF Rows
  <2> QED
    BY <1>4, <2>2 DEF RevokeWrite, Dead
<1>5. CASE UNCHANGED approvals
  BY <1>5
<1>6. ASSUME NEW c \in Clients, ClientStep(c) PROVE Goal
  BY <1>1, <1>2, <1>5, <1>6 DEF ClientStep, Begin, PassExempt, Refuse, PassWide, TakeOneTime,
     NeedApproval, RequestSkill, Perform, Crash
<1>7. ASSUME NEW o \in Operators, OperatorStep(o) PROVE Goal
  BY <1>3, <1>4, <1>5, <1>7 DEF OperatorStep, ResolveRead, RevokeRead, OperatorCrash
<1> QED
  BY <1>5, <1>6, <1>7 DEF Next, SetPolicies, vars

\* No order of requests, stale writes, resolutions and revocations brings a
\* decided approval back to life (_require_approval, resolve_approval,
\* revoke_approval): for any number of clients, and operators that do not overlap.
THEOREM SettledStaySettled == ASSUME OneOperator PROVE Spec => SettledForGood
<1>1. BackedInv /\ BackedInv' /\ SettledInv /\ [Next]_vars => [StayUnusable]_vars
  <2> SUFFICES ASSUME BackedInv, BackedInv', SettledInv, [Next]_vars,
                      NEW i \in DOMAIN approvals,
                      approvals[i].decision # "pending", ~Usable(approvals[i])
               PROVE  /\ i \in DOMAIN approvals' /\ approvals'[i].decision # "pending"
                      /\ ~Usable(approvals'[i])
    BY DEF StayUnusable
  <2>1. approvals[i] \in Rows /\ (i \in DOMAIN approvals' => approvals'[i] \in Rows)
    BY DEF BackedInv, TypeOK
  <2>2. Dead(approvals[i])
    BY <2>1, DeadRows
  <2>3. i \in DOMAIN approvals' /\ Dead(approvals'[i])
    BY <2>2, DeadStep
  <2> QED
    BY <2>1, <2>3, DeadRows
<1> QED
  BY <1>1, BackedInvariant, SettledInvariant, PTL DEF Spec, SettledForGood

OneClient == \A c, d \in Clients : c = d

\* An approval about to be used has not been used.
UnusedHeld ==
  /\ \A i \in Ids : uses[i] \in {0, 1}
  /\ \A c \in Clients : pc[c] = "consume" => uses[held[c].id] = 0

\* A lone client marks the approval used before it can read it again.
LEMMA UsedOnceStep ==
  ASSUME OneClient, BackedInv, SettledInv, UnusedHeld, [Next]_vars
  PROVE  UnusedHeld'
<1>0. /\ uses \in [Ids -> 0 .. 2] /\ pc \in [Clients -> PcStates]
      /\ held \in [Clients -> Held \cup {NoHeld}]
  BY DEF BackedInv, TypeOK
<1>1. ASSUME NEW c \in Clients, Consume(c) PROVE UnusedHeld'
  <2>1. held[c].id \in Ids /\ uses[held[c].id] = 0
    BY <1>1 DEF Consume, BackedInv, TypeOK, Held, UnusedHeld
  <2>2. \A i \in Ids : uses'[i] = IF i = held[c].id THEN 1 ELSE uses[i]
    BY <1>0, <1>1, <2>1 DEF Consume
  <2>3. pc'[c] # "consume"
    BY <1>0, <1>1 DEF Consume, Pass
  <2> QED
    BY <2>2, <2>3 DEF UnusedHeld, OneClient
<1>2. ASSUME NEW c \in Clients, TakeOneTime(c) PROVE UnusedHeld'
  <2>1. PICK i \in DOMAIN approvals :
          /\ Usable(approvals[i])
          /\ held' = [held EXCEPT ![c] =
                        [id |-> i, row |-> [approvals[i] EXCEPT !.consumed = TRUE]]]
    BY <1>2 DEF TakeOneTime
  <2>2. i \in Ids /\ approvals[i] \in Rows
    BY DEF BackedInv, TypeOK
  <2>3. ~Dead(approvals[i])
    BY <2>1, <2>2, DeadRows
  <2>4. ~(uses[i] > 0)
    BY <2>2, <2>3 DEF SettledInv, SettledDead
  <2>5. uses[i] = 0
    BY <2>2, <2>4 DEF UnusedHeld
  <2>6. held'[c].id = i /\ uses' = uses
    BY <1>0, <1>2, <2>1 DEF TakeOneTime, history
  <2> QED
    BY <2>5, <2>6 DEF UnusedHeld, OneClient
<1>3. ASSUME uses' = uses, \A c \in Clients : pc'[c] = "consume" => pc[c] = "consume" /\ held'[c] = held[c]
      PROVE  UnusedHeld'
  BY <1>3 DEF UnusedHeld
<1>4. ASSUME NEW c \in Clients, ClientStep(c), ~Consume(c), ~TakeOneTime(c)
      PROVE  uses' = uses /\ pc'[c] # "consume"
  BY <1>0, <1>4 DEF ClientStep, Begin, PassExempt, Refuse, PassWide, NeedApproval, RequestSkill,
     Request, Perform, Crash, Return, Pass, history
<1>5. ASSUME NEW c \in Clients, ClientStep(c) PROVE UnusedHeld'
  BY <1>1, <1>2, <1>3, <1>4, <1>5 DEF OneClient
<1>6. ASSUME NEW o \in Operators, OperatorStep(o) PROVE UnusedHeld'
  BY <1>3, <1>6 DEF OperatorStep, ResolveRead, RevokeRead, ResolveWrite, RevokeWrite, OperatorCrash,
     clientVars, history
<1>7. CASE (\E exempt \in Policies : SetPolicies(exempt)) \/ UNCHANGED vars
  BY <1>3, <1>7 DEF SetPolicies, vars, clientVars, history
<1> QED
  BY <1>5, <1>6, <1>7 DEF Next

\* With one client and one operator a one-time approval lets one gate pass, once,
\* wherever the calls are cut short: overlapping clients are the only way to the
\* second use that _require_approval permits.
THEOREM OneTimeIsUsedOnce ==
  ASSUME OneClient, OneOperator PROVE Spec => []OneTimeUsedOnce
<1>1. Init => UnusedHeld
  BY DEF Init, UnusedHeld
<1>2. BackedInv /\ SettledInv /\ UnusedHeld /\ [Next]_vars => UnusedHeld'
  BY UsedOnceStep
<1>3. UnusedHeld => OneTimeUsedOnce
  BY DEF UnusedHeld, OneTimeUsedOnce
<1> QED
  BY <1>1, <1>2, <1>3, BackedInvariant, SettledInvariant, PTL DEF Spec
=============================================================================
