------------------------- MODULE RunnerTunnel_proofs -------------------------
(***************************************************************************)
(* Proofs about the tunnel of a runner, for any number of connections, of   *)
(* requests, of waiters and of chunks, and for any caps.                    *)
(***************************************************************************)
EXTENDS RunnerTunnel, FiniteSetTheorems, TLAPS

USE RunnerTunnelAssumption

-----------------------------------------------------------------------------
(* The inductive invariant: one half for connections and requests, one for  *)
(* the waiters.                                                             *)

TunnelType ==
  /\ current \in Sessions \cup {NoSession}
  /\ sess \in [Sessions -> {"new", "accepted", "open", "stopping", "closed"}]
  /\ wire \subseteq Sessions

RequestType == inFlight \subseteq Requests /\ req \in [Requests -> RequestRecords]

\* A request is in in_flight only while its caller is at it, nothing was done
\* for one that has not begun, and no chunk is read that the response has not.
RequestSane ==
  \A r \in Requests :
     /\ r \in inFlight => Active(r)
     /\ req[r].pc = "idle" => req[r] = Idle
     /\ req[r].read <= Chunks

RequestInv ==
  /\ TunnelType /\ RequestType
  /\ RequestSane
  /\ NobodyIsStranded
  /\ ResponsesAreWhole

WaitType ==
  /\ current \in Sessions \cup {NoSession}
  /\ wait \in [Waiters -> {"idle", "waiting", "expired"}]
  /\ waiters \subseteq Waiters /\ woken \subseteq Waiters
  /\ others \in Nat /\ total \in Nat

\* Whoever is in the map is in a call that no result is scheduled for.
MapSane ==
  /\ \A w \in waiters : wait[w] # "idle"
  /\ waiters \cap woken = {}

WaitInv ==
  /\ WaitType
  /\ MapSane
  /\ WaitersAreCounted
  /\ NoLostWakeup

-----------------------------------------------------------------------------
(* Connections and requests.                                               *)

LEMMA InitRequestInv == Init => RequestInv
  BY DEF Init, RequestInv, TunnelType, RequestType, RequestSane, NobodyIsStranded,
         ResponsesAreWhole, Active, Idle, RequestRecords

\* The registry entry changes and the requests of the old session are aborted:
\* nobody is left in in_flight, and every caller has its abort scheduled.
LEMMA AbortRequests ==
  ASSUME RequestInv, AbortInFlight(current),
         current' \in Sessions \cup {NoSession},
         sess' \in [Sessions -> {"new", "accepted", "open", "stopping", "closed"}],
         wire' \subseteq Sessions
  PROVE  RequestInv'
<1> USE DEF RequestInv, RequestType
<1>1. inFlight' = {}
  BY DEF AbortInFlight, RequestSane, NobodyIsStranded
<1>2. req' \in [Requests -> RequestRecords]
  BY DEF AbortInFlight, RequestRecords
<1>3. \A r \in Requests :
         /\ req'[r].pc = req[r].pc /\ req'[r].read = req[r].read
         /\ req'[r].abort = IF r \in inFlight THEN "scheduled" ELSE req[r].abort
         /\ r \notin inFlight => req'[r] = req[r]
  BY DEF AbortInFlight, RequestRecords, RequestSane, NobodyIsStranded
<1>4. RequestSane'
  BY <1>1, <1>3 DEF RequestSane, Active
<1>5. NobodyIsStranded'
  BY <1>1, <1>3 DEF NobodyIsStranded, Active
<1>6. ResponsesAreWhole'
  BY <1>3 DEF ResponsesAreWhole
<1> QED
  BY <1>1, <1>2, <1>4, <1>5, <1>6 DEF TunnelType

\* Nothing a request sees has changed.
LEMMA SameRequests ==
  ASSUME RequestInv, UNCHANGED <<current, inFlight, req>>,
         sess' \in [Sessions -> {"new", "accepted", "open", "stopping", "closed"}],
         wire' \subseteq Sessions
  PROVE  RequestInv'
  BY DEF RequestInv, TunnelType, RequestType, RequestSane, NobodyIsStranded,
         ResponsesAreWhole, Active

LEMMA ConnectionsRequestInv ==
  ASSUME RequestInv, Connections
  PROVE  RequestInv'
<1> USE DEF RequestInv, TunnelType, tunnel, requests, waiting, Closes, Deregister
<1>1. CASE DropStaleTunnel
  BY <1>1, AbortRequests DEF DropStaleTunnel
<1>2. ASSUME NEW s \in Sessions, Accept(s) PROVE RequestInv'
  BY <1>2, SameRequests DEF Accept
<1>3. ASSUME NEW s \in Sessions, Register(s) PROVE RequestInv'
  BY <1>3, AbortRequests DEF Register
<1>4. ASSUME NEW s \in Sessions, Refuse(s) PROVE RequestInv'
  BY <1>4, SameRequests DEF Refuse
<1>5. ASSUME NEW s \in Sessions, HandshakeFails(s) PROVE RequestInv'
  BY <1>5, AbortRequests DEF HandshakeFails
<1>6. ASSUME NEW s \in Sessions, RunnerVanishes(s) PROVE RequestInv'
  BY <1>6, SameRequests DEF RunnerVanishes
<1>7. ASSUME NEW s \in Sessions, HandlerStops(s) PROVE RequestInv'
  BY <1>7, SameRequests DEF HandlerStops
<1>8. ASSUME NEW s \in Sessions, HandlerEnds(s) PROVE RequestInv'
  BY <1>8, AbortRequests, SameRequests DEF HandlerEnds
<1> QED
  BY <1>1, <1>2, <1>3, <1>4, <1>5, <1>6, <1>7, <1>8 DEF Connections

Underway == {"opened", "asked", "streaming"}

\* A step of the request r that leaves it in in_flight, or out of it.
LEMMA RequestGoesOn ==
  ASSUME RequestInv, NEW r \in Requests, NEW q \in RequestRecords,
         UNCHANGED tunnel, UNCHANGED inFlight,
         req' = [req EXCEPT ![r] = q],
         q.pc \in Underway <=> Active(r),
         q.sess = req[r].sess, q.abort = "no" <=> req[r].abort = "no",
         q.pc # "idle", q.read <= Chunks,
         q.pc = "done" => q.read = Chunks
  PROVE  RequestInv'
<1> USE DEF RequestInv, RequestType, Underway
<1>1. req' \in [Requests -> RequestRecords] /\ inFlight' \subseteq Requests
  OBVIOUS
<1>2. TunnelType' /\ current' = current
  BY DEF TunnelType, tunnel
<1>3. RequestSane'
  BY DEF RequestSane, Active
<1>4. NobodyIsStranded'
  BY <1>2 DEF NobodyIsStranded, Active
<1>5. ResponsesAreWhole'
  BY DEF ResponsesAreWhole
<1> QED
  BY <1>1, <1>2, <1>3, <1>4, <1>5

\* The request r is over and leaves in_flight.
LEMMA RequestEnds ==
  ASSUME RequestInv, NEW r \in Requests, NEW pc \in {"done", "failed", "closed"},
         UNCHANGED tunnel, inFlight' = inFlight \ {r},
         req' = [req EXCEPT ![r].pc = pc],
         pc = "done" => req[r].read = Chunks
  PROVE  RequestInv'
<1> USE DEF RequestInv, RequestType
<1>1. req' \in [Requests -> RequestRecords] /\ inFlight' \subseteq Requests
  BY DEF RequestRecords
<1>2. TunnelType' /\ current' = current
  BY DEF TunnelType, tunnel
<1>3. req'[r].pc = pc /\ req'[r].read = req[r].read
      /\ \A x \in Requests \ {r} : req'[x] = req[x]
  BY DEF RequestRecords
<1>4. RequestSane'
  BY <1>3 DEF RequestSane, Active
<1>5. NobodyIsStranded'
  BY <1>2, <1>3 DEF NobodyIsStranded, Active
<1>6. ResponsesAreWhole'
  BY <1>3 DEF ResponsesAreWhole
<1> QED
  BY <1>1, <1>2, <1>4, <1>5, <1>6

\* A new request is in in_flight of the session that is registered.
LEMMA OpenRequestInv ==
  ASSUME RequestInv, NEW r \in Requests, Open(r)
  PROVE  RequestInv'
<1> USE DEF RequestInv, RequestType, Open
<1> DEFINE q == [req[r] EXCEPT !.pc = "opened", !.sess = current]
<1>1. req' \in [Requests -> RequestRecords] /\ inFlight' \subseteq Requests
  <2>1. req[r] \in RequestRecords
    OBVIOUS
  <2>2. q \in RequestRecords
    BY <2>1 DEF RequestRecords, TunnelType
  <2>3. req' = [req EXCEPT ![r] = q]
    OBVIOUS
  <2> QED
    BY <2>2, <2>3
<1>2. TunnelType' /\ current' = current
  BY DEF TunnelType, tunnel
<1>3. /\ req'[r].pc = "opened" /\ req'[r].sess = current
      /\ req'[r].abort = "no" /\ req'[r].read = 0
      /\ \A x \in Requests \ {r} : req'[x] = req[x]
  BY DEF RequestSane, Idle, RequestRecords
<1>4. RequestSane'
  BY <1>3 DEF RequestSane, Active
<1>5. NobodyIsStranded'
  BY <1>2, <1>3 DEF NobodyIsStranded, Active
<1>6. ResponsesAreWhole'
  BY <1>3 DEF ResponsesAreWhole
<1> QED
  BY <1>1, <1>2, <1>4, <1>5, <1>6

\* The body iterator ends without an error only at the end of the response, with
\* every chunk read.
LEMMA BodyRequestInv ==
  ASSUME RequestInv, NEW r \in Requests, TakeBody(r)
  PROVE  RequestInv'
<1> USE DEF RequestInv, RequestType, TakeBody
<1>0. req[r] \in RequestRecords /\ req[r].read <= Chunks
  BY DEF RequestSane
<1>1. CASE req[r].abort = "run"
  BY <1>1, RequestEnds
<1>2. CASE req[r].abort # "run" /\ Queued(r)
  <2> DEFINE q == [req[r] EXCEPT !.read = @ + 1]
  <2>1. q \in RequestRecords /\ q.pc = "streaming" /\ q.read <= Chunks
        /\ q.sess = req[r].sess /\ q.abort = req[r].abort
    BY <1>0, <1>2 DEF Queued, RequestRecords
  <2>2. req' = [req EXCEPT ![r] = q] /\ UNCHANGED inFlight
    BY <1>2
  <2> QED
    BY <2>1, <2>2, RequestGoesOn DEF Underway, Active
<1>3. CASE req[r].abort # "run" /\ ~Queued(r)
  <2>1. req[r].ran = Chunks + 2
    BY <1>3 DEF Sentinel
  <2>2. req[r].read = Chunks
    BY <1>0, <1>3, <2>1 DEF Queued, RequestRecords
  <2> QED
    BY <1>3, <2>2, RequestEnds
<1> QED
  BY <1>1, <1>2, <1>3

LEMMA RequestsRequestInv ==
  ASSUME RequestInv, NEW r \in Requests,
         Open(r) \/ ReceiveFrame(r) \/ RequestStep(r) \/ GiveUp(r)
  PROVE  RequestInv'
<1> USE DEF RequestInv, RequestType
<1>0. req[r] \in RequestRecords /\ req[r].read <= Chunks
      /\ (req[r].pc = "done" => req[r].read = Chunks)
  BY DEF RequestSane, ResponsesAreWhole
<1>1. CASE Open(r)
  BY <1>1, OpenRequestInv
<1>2. CASE ReceiveFrame(r)
  <2> DEFINE q == [req[r] EXCEPT !.routed = @ + 1]
  <2>1. q \in RequestRecords /\ q.pc = req[r].pc /\ q.read = req[r].read
        /\ q.sess = req[r].sess /\ q.abort = req[r].abort
    BY <1>0 DEF RequestRecords
  <2>2. req' = [req EXCEPT ![r] = q] /\ UNCHANGED <<tunnel, inFlight>> /\ q.pc # "idle"
    BY <1>2, <2>1 DEF ReceiveFrame
  <2> QED
    BY <1>0, <2>1, <2>2, RequestGoesOn DEF Underway, Active
<1>3. CASE GiveUp(r)
  BY <1>3, RequestEnds DEF GiveUp
<1>4. CASE QueueFrame(r)
  <2> DEFINE q == [req[r] EXCEPT !.pc = "asked"]
  <2>1. q \in RequestRecords /\ q.pc = "asked" /\ q.read = req[r].read
        /\ q.sess = req[r].sess /\ q.abort = req[r].abort
    BY <1>0 DEF RequestRecords
  <2>2. CASE req[r].sess = current
    BY <1>0, <1>4, <2>1, <2>2, RequestGoesOn DEF QueueFrame, Underway, Active
  <2>3. CASE req[r].sess # current
    BY <1>4, <2>3, RequestEnds DEF QueueFrame
  <2> QED
    BY <2>2, <2>3
<1>5. CASE RunFrame(r)
  <2> DEFINE q == [req[r] EXCEPT !.ran = @ + 1]
  <2>1. q \in RequestRecords /\ q.pc = req[r].pc /\ q.read = req[r].read
        /\ q.sess = req[r].sess /\ q.abort = req[r].abort
    BY <1>0 DEF RequestRecords
  <2>2. req' = [req EXCEPT ![r] = q] /\ UNCHANGED <<tunnel, inFlight>>
    BY <1>5 DEF RunFrame
  <2>3. q.pc # "idle"
    BY <1>5, <2>1 DEF RunFrame, RequestSane, Idle
  <2> QED
    BY <1>0, <2>1, <2>2, <2>3, RequestGoesOn DEF Underway, Active
<1>6. CASE RunAbort(r)
  <2> DEFINE q == [req[r] EXCEPT !.abort = "run"]
  <2>1. q \in RequestRecords /\ q.pc = req[r].pc /\ q.read = req[r].read
        /\ q.sess = req[r].sess /\ q.abort = "run"
    BY <1>0 DEF RequestRecords
  <2>2. req' = [req EXCEPT ![r] = q] /\ UNCHANGED <<tunnel, inFlight>>
        /\ req[r].abort # "no"
    BY <1>6 DEF RunAbort
  <2>3. q.pc # "idle"
    BY <2>1, <2>2 DEF RequestSane, Idle
  <2> QED
    BY <1>0, <2>1, <2>2, <2>3, RequestGoesOn DEF Underway, Active
<1>7. CASE TakeHead(r)
  <2> DEFINE q == [req[r] EXCEPT !.pc = "streaming"]
  <2>1. q \in RequestRecords /\ q.pc = "streaming" /\ q.read = req[r].read
        /\ q.sess = req[r].sess /\ q.abort = req[r].abort
    BY <1>0 DEF RequestRecords
  <2>2. CASE req[r].ran > 0
    BY <1>0, <1>7, <2>1, <2>2, RequestGoesOn DEF TakeHead, Underway, Active
  <2>3. CASE ~(req[r].ran > 0)
    BY <1>7, <2>3, RequestEnds DEF TakeHead
  <2> QED
    BY <2>2, <2>3
<1>8. CASE TakeBody(r)
  BY <1>8, BodyRequestInv
<1> QED
  BY <1>1, <1>2, <1>3, <1>4, <1>5, <1>6, <1>7, <1>8 DEF RequestStep

\* Every step keeps the invariant of connections and requests.
LEMMA NextRequestInv == RequestInv /\ [Next]_vars => RequestInv'
<1> SUFFICES ASSUME RequestInv, [Next]_vars PROVE RequestInv'
  OBVIOUS
<1>1. CASE Connections
  BY <1>1, ConnectionsRequestInv
<1>2. ASSUME NEW r \in Requests,
             Open(r) \/ ReceiveFrame(r) \/ RequestStep(r) \/ GiveUp(r)
      PROVE  RequestInv'
  BY <1>2, RequestsRequestInv
<1>3. CASE UNCHANGED <<tunnel, requests>>
  BY <1>3, SameRequests DEF tunnel, requests, RequestInv, TunnelType
<1>4. ASSUME NEW w \in Waiters, WaiterStep(w) PROVE RequestInv'
  BY <1>3, <1>4 DEF WaiterStep, Wait, SetResult, Expire, Leave
<1>5. CASE OtherWaits \/ OtherLeaves
  BY <1>3, <1>5 DEF OtherWaits, OtherLeaves
<1> QED
  BY <1>1, <1>2, <1>3, <1>4, <1>5 DEF Next, vars

LEMMA RequestInvariant == Spec => []RequestInv
  BY InitRequestInv, NextRequestInv, PTL DEF Spec

\* However connections replace each other and whoever deregisters them, nobody
\* waits for a tunnel that is gone: a request under way is known to the
\* registered session or its abort has been scheduled (_abort_session_inflight).
THEOREM NobodyStranded == Spec => []NobodyIsStranded
<1>1. RequestInv => NobodyIsStranded
  BY DEF RequestInv
<1> QED
  BY <1>1, RequestInvariant, PTL

\* A response that ends without an error has all of its chunks, whenever the
\* tunnel breaks (__aiter__ of _TunneledByteStream).
THEOREM ResponsesWhole == Spec => []ResponsesAreWhole
<1>1. RequestInv => ResponsesAreWhole
  BY DEF RequestInv
<1> QED
  BY <1>1, RequestInvariant, PTL

-----------------------------------------------------------------------------
(* The waiters.                                                            *)

LEMMA MapIsFinite ==
  ASSUME NEW S, S \subseteq Waiters
  PROVE  IsFiniteSet(S) /\ Cardinality(S) \in Nat
  BY FS_Subset, FS_CardinalityType

LEMMA InitWaitInv == Init => WaitInv
  BY FS_EmptySet DEF Init, WaitInv, WaitType, MapSane, WaitersAreCounted, NoLostWakeup

\* The entry is taken out: nothing happens to the waiters.
LEMMA GoneWaitInv ==
  ASSUME WaitInv, UNCHANGED waiting, current' \in {current, NoSession}
  PROVE  WaitInv'
  BY DEF WaitInv, WaitType, MapSane, WaitersAreCounted, NoLostWakeup, waiting

LEMMA RegisterWaitInv ==
  ASSUME WaitInv, NEW s \in Sessions, Register(s)
  PROVE  WaitInv'
<1> USE DEF WaitInv, WaitType, Register
<1>1. Cardinality(waiters) \in Nat /\ total = Cardinality(waiters) + others
  BY MapIsFinite DEF WaitersAreCounted
<1>2. total' = others /\ others' = others
  BY <1>1
<1>3. WaitersAreCounted'
  BY <1>1, <1>2, FS_EmptySet DEF WaitersAreCounted
<1>4. WaitType' /\ MapSane' /\ NoLostWakeup'
  BY <1>2 DEF MapSane, NoLostWakeup
<1> QED
  BY <1>3, <1>4

LEMMA ConnectionsWaitInv ==
  ASSUME WaitInv, Connections
  PROVE  WaitInv'
<1>1. CASE DropStaleTunnel
  BY <1>1, GoneWaitInv DEF DropStaleTunnel, Deregister
<1>2. ASSUME NEW s \in Sessions,
             Accept(s) \/ Refuse(s) \/ HandshakeFails(s) \/ RunnerVanishes(s)
               \/ HandlerStops(s) \/ HandlerEnds(s)
      PROVE  WaitInv'
  BY <1>2, GoneWaitInv
     DEF Accept, Refuse, HandshakeFails, RunnerVanishes, HandlerStops, HandlerEnds, Deregister
<1>3. ASSUME NEW s \in Sessions, Register(s) PROVE WaitInv'
  BY <1>3, RegisterWaitInv
<1> QED
  BY <1>1, <1>2, <1>3 DEF Connections

LEMMA WaiterWaitInv ==
  ASSUME WaitInv, NEW w \in Waiters, WaiterStep(w)
  PROVE  WaitInv'
<1> USE DEF WaitInv, WaitType
<1>0. IsFiniteSet(waiters) /\ Cardinality(waiters) \in Nat
  BY MapIsFinite
<1>1. CASE Wait(w)
  <2> USE <1>1 DEF Wait, tunnel
  <2>1. w \notin waiters
    BY DEF MapSane
  <2>2. Cardinality(waiters') = Cardinality(waiters) + 1
    BY <1>0, <2>1, FS_AddElement
  <2>3. WaitersAreCounted'
    BY <1>0, <2>2 DEF WaitersAreCounted, Full
  <2>4. WaitType' /\ MapSane' /\ NoLostWakeup'
    BY DEF MapSane, NoLostWakeup
  <2> QED
    BY <2>3, <2>4
<1>2. CASE SetResult(w)
  BY <1>2 DEF SetResult, tunnel, MapSane, NoLostWakeup, WaitersAreCounted
<1>3. CASE Expire(w)
  BY <1>3 DEF Expire, tunnel, MapSane, NoLostWakeup, WaitersAreCounted
<1>4. CASE Leave(w)
  <2> USE <1>4 DEF Leave, tunnel
  <2>1. Cardinality(waiters') = IF w \in waiters THEN Cardinality(waiters) - 1
                                ELSE Cardinality(waiters)
    BY <1>0, FS_RemoveElement
  <2>2. Cardinality(waiters') \in Nat
    BY MapIsFinite
  <2>3. WaitersAreCounted' /\ total' \in Nat
    BY <1>0, <2>1, <2>2 DEF WaitersAreCounted
  <2>4. WaitType' /\ MapSane' /\ NoLostWakeup'
    BY <2>3 DEF MapSane, NoLostWakeup
  <2> QED
    BY <2>3, <2>4
<1> QED
  BY <1>1, <1>2, <1>3, <1>4 DEF WaiterStep

\* Every step keeps the invariant of the waiters.
LEMMA NextWaitInv == WaitInv /\ [Next]_vars => WaitInv'
<1> SUFFICES ASSUME WaitInv, [Next]_vars PROVE WaitInv'
  OBVIOUS
<1>1. CASE Connections
  BY <1>1, ConnectionsWaitInv
<1>2. ASSUME NEW w \in Waiters, WaiterStep(w) PROVE WaitInv'
  BY <1>2, WaiterWaitInv
<1>3. ASSUME NEW r \in Requests,
             Open(r) \/ ReceiveFrame(r) \/ RequestStep(r) \/ GiveUp(r)
      PROVE  WaitInv'
  BY <1>3, GoneWaitInv
     DEF Open, ReceiveFrame, RequestStep, QueueFrame, RunFrame, RunAbort, TakeHead,
         TakeBody, GiveUp, tunnel
<1>4. CASE OtherWaits \/ OtherLeaves
  <2>1. Cardinality(waiters) \in Nat
    BY MapIsFinite DEF WaitInv, WaitType
  <2> QED
    BY <1>4, <2>1 DEF OtherWaits, OtherLeaves, tunnel, WaitInv, WaitType, MapSane,
                      WaitersAreCounted, NoLostWakeup
<1>5. CASE UNCHANGED vars
  BY <1>5, GoneWaitInv DEF vars, tunnel
<1> QED
  BY <1>1, <1>2, <1>3, <1>4, <1>5 DEF Next

LEMMA WaitInvariant == Spec => []WaitInv
  BY InitWaitInv, NextWaitInv, PTL DEF Spec

\* The state of the tunnel, its requests and its waiters keeps its type: the
\* count of waiters never goes below zero.
THEOREM TypeCorrect == Spec => []TypeOK
<1>1. RequestInv /\ WaitInv => TypeOK
  BY DEF RequestInv, TunnelType, RequestType, WaitInv, WaitType, TypeOK
<1> QED
  BY <1>1, RequestInvariant, WaitInvariant, PTL

\* _connect_waiter_total is the number of registered waiters and within the caps,
\* whether a waiter leaves by its time limit or is taken out by register.
THEOREM WaitersCounted == Spec => []WaitersAreCounted
<1>1. WaitInv => WaitersAreCounted
  BY DEF WaitInv
<1> QED
  BY <1>1, WaitInvariant, PTL

\* No wake-up is lost between register and wait_for_runner.
THEOREM WakeupsKept == Spec => []NoLostWakeup
<1>1. WaitInv => NoLostWakeup
  BY DEF WaitInv
<1> QED
  BY <1>1, WaitInvariant, PTL

-----------------------------------------------------------------------------
(* Why a request to a runner that is gone can end, whoever went first: the  *)
(* part of LostRequestsEnd that needs no fairness.                          *)

\* The registry never holds a session whose handler has cleaned up.
EntryIsOwned == current # NoSession => sess[current] \in {"open", "stopping"}

\* The callbacks of a request run in the order its frames arrived, none after its
\* abort; the head comes before the body, and no chunk is read before it arrived.
InOrder(q) ==
  /\ q.pc # "idle" => q.sess # NoSession
  /\ q.ran <= q.routed /\ q.routed <= Chunks + 2
  /\ q.abort = "run" => q.ran = q.routed
  /\ q.pc \in {"streaming", "done"} => q.ran > 0
  /\ q.read > 0 => q.read < q.ran

FramesInOrder == \A r \in Requests : InOrder(req[r])

\* A request under way has its abort scheduled, or waits on the registered
\* session, and the handler of that session has its clean-up still before it.
SomeoneEndsIt ==
  \A r \in Requests :
     Active(r) =>
       \/ req[r].abort # "no"
       \/ /\ req[r].sess = current
          /\ current # NoSession
          /\ sess[current] \in {"open", "stopping"}

OrderInv == RequestInv /\ FramesInOrder

LEMMA ConnectionsKeepOwner ==
  ASSUME TunnelType, EntryIsOwned, Connections
  PROVE  EntryIsOwned'
<1> USE DEF TunnelType, EntryIsOwned, Closes, Deregister
<1>1. CASE DropStaleTunnel
  BY <1>1 DEF DropStaleTunnel
<1>2. ASSUME NEW s \in Sessions, Accept(s) PROVE EntryIsOwned'
  BY <1>2 DEF Accept
<1>3. ASSUME NEW s \in Sessions, Register(s) PROVE EntryIsOwned'
  BY <1>3 DEF Register
<1>4. ASSUME NEW s \in Sessions, Refuse(s) PROVE EntryIsOwned'
  BY <1>4 DEF Refuse
<1>5. ASSUME NEW s \in Sessions, HandshakeFails(s) PROVE EntryIsOwned'
  BY <1>5 DEF HandshakeFails
<1>6. ASSUME NEW s \in Sessions, RunnerVanishes(s) PROVE EntryIsOwned'
  BY <1>6 DEF RunnerVanishes
<1>7. ASSUME NEW s \in Sessions, HandlerStops(s) PROVE EntryIsOwned'
  BY <1>7 DEF HandlerStops
<1>8. ASSUME NEW s \in Sessions, HandlerEnds(s) PROVE EntryIsOwned'
  BY <1>8 DEF HandlerEnds
<1> QED
  BY <1>1, <1>2, <1>3, <1>4, <1>5, <1>6, <1>7, <1>8 DEF Connections

\* Requests and waiters leave the connections alone.
LEMMA OthersLeaveTunnel ==
  ASSUME [Next]_vars, ~Connections
  PROVE  UNCHANGED tunnel
<1>1. ASSUME NEW r \in Requests,
             Open(r) \/ ReceiveFrame(r) \/ RequestStep(r) \/ GiveUp(r)
      PROVE  UNCHANGED tunnel
  BY <1>1 DEF Open, ReceiveFrame, RequestStep, QueueFrame, RunFrame, RunAbort, TakeHead,
              TakeBody, GiveUp
<1>2. ASSUME NEW w \in Waiters, WaiterStep(w) PROVE UNCHANGED tunnel
  BY <1>2 DEF WaiterStep, Wait, SetResult, Expire, Leave
<1> QED
  BY <1>1, <1>2 DEF Next, OtherWaits, OtherLeaves, vars

LEMMA NextKeepsOwner == RequestInv /\ EntryIsOwned /\ [Next]_vars => EntryIsOwned'
<1> SUFFICES ASSUME RequestInv, EntryIsOwned, [Next]_vars PROVE EntryIsOwned'
  OBVIOUS
<1>1. CASE Connections
  BY <1>1, ConnectionsKeepOwner DEF RequestInv
<1>2. CASE ~Connections
  BY <1>2, OthersLeaveTunnel DEF EntryIsOwned, tunnel
<1> QED
  BY <1>1, <1>2

LEMMA InitInOrder == Init => FramesInOrder
  BY DEF Init, FramesInOrder, InOrder, Idle

\* The abort of a request that nobody routes frames to any more.
LEMMA AbortInOrder ==
  ASSUME OrderInv, NEW s, AbortInFlight(s)
  PROVE  FramesInOrder'
<1> SUFFICES ASSUME NEW r \in Requests PROVE InOrder(req'[r])
  BY DEF FramesInOrder
<1>1. req[r] \in RequestRecords /\ InOrder(req[r])
  BY DEF OrderInv, RequestInv, RequestType, FramesInOrder
<1>2. CASE req'[r] = req[r]
  BY <1>1, <1>2
<1>3. CASE req'[r] = [req[r] EXCEPT !.abort = "scheduled"]
  BY <1>1, <1>3 DEF InOrder, RequestRecords
<1> QED
  BY <1>2, <1>3 DEF AbortInFlight

LEMMA ConnectionsInOrder ==
  ASSUME OrderInv, Connections
  PROVE  FramesInOrder'
<1>1. CASE UNCHANGED req
  BY <1>1 DEF OrderInv, FramesInOrder
<1>2. ASSUME NEW s \in Sessions,
             Accept(s) \/ Refuse(s) \/ RunnerVanishes(s) \/ HandlerStops(s)
      PROVE  FramesInOrder'
  BY <1>1, <1>2 DEF Accept, Refuse, RunnerVanishes, HandlerStops, requests
<1>3. ASSUME NEW s \in Sessions, Register(s) \/ HandshakeFails(s) \/ HandlerEnds(s)
      PROVE  FramesInOrder'
  BY <1>1, <1>3, AbortInOrder DEF Register, HandshakeFails, HandlerEnds, Deregister, requests
<1> QED
  BY <1>2, <1>3, AbortInOrder DEF Connections, DropStaleTunnel, Deregister

\* Only the record of the request that moves changes.
LEMMA OneRequestInOrder ==
  ASSUME OrderInv, NEW r \in Requests, NEW q, req' = [req EXCEPT ![r] = q], InOrder(q)
  PROVE  FramesInOrder'
  BY DEF OrderInv, RequestInv, RequestType, FramesInOrder

LEMMA RequestsInOrder ==
  ASSUME OrderInv, NEW r \in Requests,
         Open(r) \/ ReceiveFrame(r) \/ RequestStep(r) \/ GiveUp(r)
  PROVE  FramesInOrder'
<1>0. req[r] \in RequestRecords /\ InOrder(req[r])
  BY DEF OrderInv, RequestInv, RequestType, FramesInOrder
<1>1. CASE Open(r)
  <2> DEFINE q == [req[r] EXCEPT !.pc = "opened", !.sess = current]
  <2>1. InOrder(q)
    BY <1>0, <1>1 DEF Open, InOrder, RequestRecords
  <2>2. req' = [req EXCEPT ![r] = q]
    BY <1>1 DEF Open
  <2> QED
    BY <2>1, <2>2, OneRequestInOrder
<1>2. CASE ReceiveFrame(r)
  <2> DEFINE q == [req[r] EXCEPT !.routed = @ + 1]
  <2>1. req[r].abort = "no"
    BY <1>2 DEF ReceiveFrame, Receives, OrderInv, RequestInv, NobodyIsStranded, Active
  <2>2. InOrder(q)
    BY <1>0, <1>2, <2>1 DEF ReceiveFrame, InOrder, RequestRecords
  <2>3. req' = [req EXCEPT ![r] = q]
    BY <1>2 DEF ReceiveFrame
  <2> QED
    BY <2>2, <2>3, OneRequestInOrder
<1>3. ASSUME NEW pc \in {"asked", "failed", "closed"}, req[r].pc # "idle",
             req' = [req EXCEPT ![r].pc = pc]
      PROVE  FramesInOrder'
  <2> DEFINE q == [req[r] EXCEPT !.pc = pc]
  <2>1. InOrder(q)
    BY <1>0, <1>3 DEF InOrder, RequestRecords
  <2>2. req' = [req EXCEPT ![r] = q]
    BY <1>3
  <2> QED
    BY <2>1, <2>2, OneRequestInOrder
<1>4. CASE QueueFrame(r) \/ GiveUp(r)
  BY <1>3, <1>4 DEF QueueFrame, GiveUp
<1>5. CASE RunFrame(r)
  <2> DEFINE q == [req[r] EXCEPT !.ran = @ + 1]
  <2>1. InOrder(q)
    BY <1>0, <1>5 DEF RunFrame, InOrder, RequestRecords
  <2>2. req' = [req EXCEPT ![r] = q]
    BY <1>5 DEF RunFrame
  <2> QED
    BY <2>1, <2>2, OneRequestInOrder
<1>6. CASE RunAbort(r)
  <2> DEFINE q == [req[r] EXCEPT !.abort = "run"]
  <2>1. InOrder(q)
    BY <1>0, <1>6 DEF RunAbort, InOrder, RequestRecords
  <2>2. req' = [req EXCEPT ![r] = q]
    BY <1>6 DEF RunAbort
  <2> QED
    BY <2>1, <2>2, OneRequestInOrder
<1>7. CASE TakeHead(r)
  <2> DEFINE q == [req[r] EXCEPT !.pc = "streaming"]
  <2>1. CASE req[r].ran > 0
    <3>1. InOrder(q)
      BY <1>0, <1>7, <2>1 DEF TakeHead, InOrder, RequestRecords
    <3>2. req' = [req EXCEPT ![r] = q]
      BY <1>7, <2>1 DEF TakeHead
    <3> QED
      BY <3>1, <3>2, OneRequestInOrder
  <2>2. CASE ~(req[r].ran > 0)
    BY <1>3, <1>7, <2>2 DEF TakeHead
  <2> QED
    BY <2>1, <2>2
<1>8. CASE TakeBody(r)
  <2>1. CASE req[r].abort = "run"
    BY <1>3, <1>8, <2>1 DEF TakeBody
  <2>2. CASE req[r].abort # "run" /\ Queued(r)
    <3> DEFINE q == [req[r] EXCEPT !.read = @ + 1]
    <3>1. InOrder(q)
      BY <1>0, <2>2 DEF Queued, InOrder, RequestRecords
    <3>2. req' = [req EXCEPT ![r] = q]
      BY <1>8, <2>2 DEF TakeBody
    <3> QED
      BY <3>1, <3>2, OneRequestInOrder
  <2>3. CASE req[r].abort # "run" /\ ~Queued(r)
    <3> DEFINE q == [req[r] EXCEPT !.pc = "done"]
    <3>1. InOrder(q)
      BY <1>0, <1>8, <2>3 DEF TakeBody, Sentinel, InOrder, RequestRecords
    <3>2. req' = [req EXCEPT ![r] = q]
      BY <1>8, <2>3 DEF TakeBody
    <3> QED
      BY <3>1, <3>2, OneRequestInOrder
  <2> QED
    BY <2>1, <2>2, <2>3
<1> QED
  BY <1>1, <1>2, <1>4, <1>5, <1>6, <1>7, <1>8 DEF RequestStep

LEMMA NextInOrder == OrderInv /\ [Next]_vars => FramesInOrder'
<1> SUFFICES ASSUME OrderInv, [Next]_vars PROVE FramesInOrder'
  OBVIOUS
<1>1. CASE Connections
  BY <1>1, ConnectionsInOrder
<1>2. ASSUME NEW r \in Requests,
             Open(r) \/ ReceiveFrame(r) \/ RequestStep(r) \/ GiveUp(r)
      PROVE  FramesInOrder'
  BY <1>2, RequestsInOrder
<1>3. CASE UNCHANGED req
  BY <1>3 DEF OrderInv, FramesInOrder
<1>4. ASSUME NEW w \in Waiters, WaiterStep(w) PROVE FramesInOrder'
  BY <1>3, <1>4 DEF WaiterStep, Wait, SetResult, Expire, Leave, requests
<1>5. CASE OtherWaits \/ OtherLeaves
  BY <1>3, <1>5 DEF OtherWaits, OtherLeaves, requests
<1> QED
  BY <1>1, <1>2, <1>3, <1>4, <1>5 DEF Next, vars, requests

\* The callbacks that the receive loop and the registry hand to the loop of a
\* request (_call_soon_threadsafe) keep their order: an abort overtakes no frame
\* and no frame comes after it, and the caller never reads ahead of them.
THEOREM CallbacksInOrder == Spec => []FramesInOrder
<1>1. Init => OrderInv
  BY InitInOrder, InitRequestInv DEF OrderInv
<1>2. OrderInv /\ [Next]_vars => OrderInv'
  BY NextInOrder, NextRequestInv DEF OrderInv
<1>3. OrderInv => FramesInOrder
  BY DEF OrderInv
<1> QED
  BY <1>1, <1>2, <1>3, PTL DEF Spec

\* A request is never left to a tunnel that nobody minds: it is being aborted, or
\* the handler of its session is still to deregister it, which aborts it
\* (runner_tunnel.py, the finally of the route).
THEOREM LostRequestsHaveAWayOut == Spec => []SomeoneEndsIt
<1>1. Init => EntryIsOwned
  BY DEF Init, EntryIsOwned
<1>2. RequestInv /\ EntryIsOwned /\ FramesInOrder => SomeoneEndsIt
  BY DEF FramesInOrder, InOrder, RequestInv, EntryIsOwned, SomeoneEndsIt, NobodyIsStranded, RequestSane,
         RequestType, RequestRecords, Active, TunnelType
<1> QED
  BY <1>1, <1>2, NextKeepsOwner, RequestInvariant, CallbacksInOrder, PTL DEF Spec

-----------------------------------------------------------------------------
(* A request implements Exchange.                                          *)

\* What the caller is at.
Phase(r) ==
  CASE req[r].pc \in {"opened", "asked"} -> "waiting"
    [] req[r].pc = "streaming" -> "reading"
    [] OTHER -> req[r].pc

Call(r) == INSTANCE Exchange WITH phase <- Phase(r), got <- req[r].read

\* The caller of r notices nothing.
LEMMA CallStutters ==
  ASSUME NEW r \in Requests, req'[r].pc = req[r].pc, req'[r].read = req[r].read
  PROVE  UNCHANGED <<Phase(r), req[r].read>>
  BY DEF Phase

LEMMA ConnectionsStutter ==
  ASSUME RequestInv, NEW r \in Requests, Connections
  PROVE  req'[r].pc = req[r].pc /\ req'[r].read = req[r].read
<1>0. req[r] \in RequestRecords
  BY DEF RequestInv, RequestType
<1>1. ASSUME NEW s, AbortInFlight(s)
      PROVE  req'[r].pc = req[r].pc /\ req'[r].read = req[r].read
  BY <1>0, <1>1 DEF AbortInFlight, RequestRecords
<1>2. ASSUME NEW s \in Sessions,
             Accept(s) \/ Refuse(s) \/ RunnerVanishes(s) \/ HandlerStops(s)
      PROVE  UNCHANGED req
  BY <1>2 DEF Accept, Refuse, RunnerVanishes, HandlerStops, requests
<1>3. ASSUME NEW s \in Sessions, Register(s) \/ HandshakeFails(s) \/ HandlerEnds(s)
      PROVE  UNCHANGED req \/ AbortInFlight(current)
  BY <1>3 DEF Register, HandshakeFails, HandlerEnds, Deregister, requests
<1> QED
  BY <1>1, <1>2, <1>3 DEF Connections, DropStaleTunnel, Deregister

\* A step of the request r itself.
LEMMA OwnCallStep ==
  ASSUME RequestInv, NEW r \in Requests,
         Open(r) \/ ReceiveFrame(r) \/ RequestStep(r) \/ GiveUp(r)
  PROVE  Call(r)!Next \/ UNCHANGED <<Phase(r), req[r].read>>
<1> USE DEF Call!Next, Phase
<1>0. req[r] \in RequestRecords /\ req[r].read <= Chunks /\ r \in DOMAIN req
  BY DEF RequestInv, RequestType, RequestSane
<1>1. CASE Open(r)
  <2>1. req'[r].pc = "opened" /\ req'[r].read = req[r].read /\ req[r].pc = "idle"
    BY <1>0, <1>1 DEF Open, RequestRecords
  <2> QED
    BY <2>1 DEF Call!Call
<1>2. ASSUME Active(r), NEW pc \in {"failed", "closed"}, req' = [req EXCEPT ![r].pc = pc]
      PROVE  Call(r)!Fail \/ Call(r)!Close
  <2>1. req'[r].pc = pc /\ req'[r].read = req[r].read
    BY <1>0, <1>2 DEF RequestRecords
  <2> QED
    BY <1>2, <2>1 DEF Active, Call!Fail, Call!Close
<1>3. CASE ReceiveFrame(r) \/ RunFrame(r) \/ RunAbort(r)
  <2>1. req'[r].pc = req[r].pc /\ req'[r].read = req[r].read
    BY <1>0, <1>3 DEF ReceiveFrame, RunFrame, RunAbort, RequestRecords
  <2> QED
    BY <2>1, CallStutters
<1>4. CASE GiveUp(r)
  BY <1>2, <1>4 DEF GiveUp, Active
<1>5. CASE QueueFrame(r)
  <2>1. CASE req[r].sess = current
    <3>1. req'[r].pc = "asked" /\ req'[r].read = req[r].read /\ req[r].pc = "opened"
      BY <1>0, <1>5, <2>1 DEF QueueFrame, RequestRecords
    <3> QED
      BY <3>1
  <2>2. CASE req[r].sess # current
    BY <1>2, <1>5, <2>2 DEF QueueFrame, Active
  <2> QED
    BY <2>1, <2>2
<1>6. CASE TakeHead(r)
  <2>1. CASE req[r].ran > 0
    <3>1. req'[r].pc = "streaming" /\ req'[r].read = req[r].read /\ req[r].pc = "asked"
      BY <1>0, <1>6, <2>1 DEF TakeHead, RequestRecords
    <3> QED
      BY <3>1 DEF Call!Respond
  <2>2. CASE ~(req[r].ran > 0)
    BY <1>2, <1>6, <2>2 DEF TakeHead, Active
  <2> QED
    BY <2>1, <2>2
<1>7. CASE TakeBody(r)
  <2>1. CASE req[r].abort = "run"
    BY <1>2, <1>7, <2>1 DEF TakeBody, Active
  <2>2. CASE req[r].abort # "run" /\ Queued(r)
    <3>1. /\ req'[r].pc = "streaming" /\ req[r].pc = "streaming"
          /\ req'[r].read = req[r].read + 1 /\ req[r].read < Chunks
      BY <1>0, <1>7, <2>2 DEF TakeBody, Queued, RequestRecords
    <3> QED
      BY <3>1 DEF Call!Yield
  <2>3. CASE req[r].abort # "run" /\ ~Queued(r)
    <3>1. req[r].ran = Chunks + 2
      BY <1>7, <2>3 DEF TakeBody, Sentinel
    <3>2. req[r].read = Chunks
      BY <1>0, <2>3, <3>1 DEF Queued, RequestRecords
    <3>3. req'[r].pc = "done" /\ req'[r].read = req[r].read /\ req[r].pc = "streaming"
      BY <1>0, <1>7, <2>3 DEF TakeBody, RequestRecords
    <3> QED
      BY <3>2, <3>3 DEF Call!Finish
  <2> QED
    BY <2>1, <2>2, <2>3
<1> QED
  BY <1>1, <1>2, <1>3, <1>4, <1>5, <1>6, <1>7 DEF RequestStep

\* A step of another request x.
LEMMA OtherCallStep ==
  ASSUME RequestInv, NEW r \in Requests, NEW x \in Requests \ {r},
         Open(x) \/ ReceiveFrame(x) \/ RequestStep(x) \/ GiveUp(x)
  PROVE  req'[r] = req[r]
  BY DEF RequestInv, RequestType, Open, ReceiveFrame, RequestStep, QueueFrame, RunFrame,
         RunAbort, TakeHead, TakeBody, GiveUp

LEMMA CallStep ==
  ASSUME NEW r \in Requests
  PROVE  RequestInv /\ [Next]_vars => [Call(r)!Next]_<<Phase(r), req[r].read>>
<1> SUFFICES ASSUME RequestInv, [Next]_vars
             PROVE  Call(r)!Next \/ UNCHANGED <<Phase(r), req[r].read>>
  OBVIOUS
<1>1. CASE Connections
  BY <1>1, ConnectionsStutter, CallStutters
<1>2. ASSUME NEW x \in Requests,
             Open(x) \/ ReceiveFrame(x) \/ RequestStep(x) \/ GiveUp(x)
      PROVE  Call(r)!Next \/ UNCHANGED <<Phase(r), req[r].read>>
  <2>1. CASE x = r
    BY <1>2, <2>1, OwnCallStep
  <2>2. CASE x # r
    BY <1>2, <2>2, OtherCallStep, CallStutters
  <2> QED
    BY <2>1, <2>2
<1>3. CASE UNCHANGED req
  BY <1>3, CallStutters
<1>4. ASSUME NEW w \in Waiters, WaiterStep(w) PROVE UNCHANGED req
  BY <1>4 DEF WaiterStep, Wait, SetResult, Expire, Leave, requests
<1>5. CASE OtherWaits \/ OtherLeaves
  BY <1>3, <1>5 DEF OtherWaits, OtherLeaves, requests
<1> QED
  BY <1>1, <1>2, <1>3, <1>4, <1>5 DEF Next, vars, requests

\* Every request through the tunnel is an HTTP exchange as its caller expects it
\* of a transport: whatever connections replace, abort or drop, the call ends
\* once, and well only with the whole body (handle_async_request, __aiter__ and
\* aclose in transport.py).
THEOREM RequestsAreExchanges ==
  ASSUME NEW r \in Requests
  PROVE  Spec => Call(r)!Spec
<1>1. Init => Call(r)!Init
  BY DEF Init, Call!Init, Phase, Idle
<1> QED
  BY <1>1, CallStep, RequestInvariant, PTL DEF Spec, Call!Spec
=============================================================================
