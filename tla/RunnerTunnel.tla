----------------------------- MODULE RunnerTunnel -----------------------------
(***************************************************************************)
(* The tunnel of one runner on the OmniGent server: TunnelRegistry          *)
(* (omnigent/runner/transports/ws_tunnel/registry.py), the WebSocket route  *)
(* that owns a tunnel (server/routes/runner_tunnel.py), the HTTP requests   *)
(* sent through it (transport.py) and the callers of wait_for_runner.       *)
(*                                                                         *)
(* A tunnel is a session object, a generation: a newer one replaces it while*)
(* its handler, and requests that hold it, are still at work.  The route    *)
(* runs on one event loop and changes the registry under its lock; requests *)
(* and waiters live on other loops, which are told through callbacks that   *)
(* run in the order they were scheduled.                                    *)
(***************************************************************************)
EXTENDS Naturals, FiniteSets

CONSTANTS
  Sessions,     \* connections the runner makes
  NoSession,
  Requests,     \* HTTP requests sent to the runner
  Waiters,      \* callers of wait_for_runner
  Chunks,       \* body frames of a response
  MaxPerRunner, \* max_connect_waiters_per_runner
  MaxTotal      \* max_connect_waiters_total

ASSUME RunnerTunnelAssumption ==
  /\ NoSession \notin Sessions
  /\ Chunks \in Nat
  /\ IsFiniteSet(Waiters)
  /\ MaxPerRunner \in Nat \ {0} /\ MaxTotal \in Nat \ {0}

VARIABLES
  current,   \* the runner's entry in _sessions
  sess,      \* where the handler of each connection is
  wire,      \* the connections over which the runner can still be reached
  inFlight,  \* in_flight of the sessions, for all of them
  req,       \* the requests
  wait,      \* where each waiter is
  waiters,   \* the runner's wait state in _connect_waits
  woken,     \* waiters for which a result is scheduled
  others,    \* registered waiters for other runners
  total      \* _connect_waiter_total

tunnel == <<current, sess, wire>>
requests == <<inFlight, req>>
waiting == <<wait, waiters, woken, others, total>>
vars == <<tunnel, requests, waiting>>

\* routed, ran: response frames the receive loop has scheduled a callback for,
\* and callbacks that have run: the head, the chunks, the end.  The abort is
\* scheduled when the request leaves in_flight, so it is the last callback.
RequestRecords ==
  [pc : {"idle", "opened", "asked", "streaming", "done", "failed", "closed"},
   sess : Sessions \cup {NoSession},
   routed : Nat, ran : Nat, read : Nat,
   abort : {"no", "scheduled", "run"}]

Idle == [pc |-> "idle", sess |-> NoSession, routed |-> 0, ran |-> 0, read |-> 0,
         abort |-> "no"]

-----------------------------------------------------------------------------
(* The registry.                                                           *)

\* Mutant: the requests of a session that goes are only forgotten.
AbortInFlightForgets(s) ==
  /\ inFlight' = {r \in inFlight : req[r].sess # s}
  /\ UNCHANGED req

\* _abort_session_inflight, for the session s that has left the registry.
AbortInFlight(s) ==
  /\ inFlight' = {r \in inFlight : req[r].sess # s}
  /\ req' = [r \in Requests |->
               IF r \in inFlight /\ req[r].sess = s
               THEN [req[r] EXCEPT !.abort = "scheduled"] ELSE req[r]]

\* Mutant: the waiters are forgotten.
RegisterWakesNobody(s) ==
  /\ sess[s] = "accepted"
  /\ sess' = [sess EXCEPT ![s] = "open"]
  /\ current' = s
  /\ AbortInFlight(current)
  /\ waiters' = {}
  /\ total' = total - Cardinality(waiters)
  /\ UNCHANGED <<wire, wait, woken, others>>

\* register: the newest connection wins, and the waiters are taken out of the
\* registry before they are told.
Register(s) ==
  /\ sess[s] = "accepted"
  /\ sess' = [sess EXCEPT ![s] = "open"]
  /\ current' = s
  /\ AbortInFlight(current)
  /\ waiters' = {}
  /\ total' = total - Cardinality(waiters)
  /\ woken' = woken \cup waiters
  /\ UNCHANGED <<wire, wait, others>>

\* deregister of whatever session is there now.
Deregister ==
  /\ current' = NoSession
  /\ AbortInFlight(current)

-----------------------------------------------------------------------------
(* The handler of a connection.                                            *)

Accept(s) ==
  /\ sess[s] = "new"
  /\ sess' = [sess EXCEPT ![s] = "accepted"]
  /\ wire' = wire \cup {s}
  /\ UNCHANGED <<current, requests, waiting>>

Closes(s) ==
  /\ sess' = [sess EXCEPT ![s] = "closed"]
  /\ wire' = wire \ {s}

\* The runner hangs up before its hello, or sends another frame or a hello of
\* another protocol version.
Refuse(s) ==
  /\ sess[s] = "accepted"
  /\ Closes(s)
  /\ UNCHANGED <<current, requests, waiting>>

\* The hello cannot be decoded: the handler has no session of its own yet and
\* deregisters the runner, whichever connection it has.
HandshakeFails(s) ==
  /\ sess[s] = "accepted"
  /\ Closes(s)
  /\ Deregister
  /\ UNCHANGED waiting

\* The runner goes away without a word.
RunnerVanishes(s) ==
  /\ s \in wire
  /\ wire' = wire \ {s}
  /\ UNCHANGED <<current, sess, requests, waiting>>

\* One of the helper tasks of the handler ends: the connection is closed, the
\* session was replaced or removed, or nothing was heard for three pings.
HandlerStops(s) ==
  /\ sess[s] = "open"
  /\ sess' = [sess EXCEPT ![s] = "stopping"]
  /\ UNCHANGED <<current, wire, requests, waiting>>

\* The helper tasks are gone and the handler deregisters its own session, if it
\* is still the registered one.
HandlerEnds(s) ==
  /\ sess[s] = "stopping"
  /\ Closes(s)
  /\ IF current = s THEN Deregister ELSE UNCHANGED <<current, requests>>
  /\ UNCHANGED waiting

\* The server wakes a managed host and drops the tunnel it holds for stale.
DropStaleTunnel ==
  /\ current # NoSession
  /\ Deregister
  /\ UNCHANGED <<sess, wire, waiting>>

\* The receive loop of a session takes frames for it while it is registered.
Receives(r) ==
  /\ sess[req[r].sess] = "open"
  /\ req[r].sess = current
  /\ r \in inFlight

\* The next frame of the response to r arrives and its callback is scheduled.
ReceiveFrame(r) ==
  /\ req[r].pc \in {"asked", "streaming"}
  /\ req[r].sess \in wire
  /\ req[r].routed < Chunks + 2
  /\ Receives(r)
  /\ req' = [req EXCEPT ![r].routed = @ + 1]
  /\ UNCHANGED <<tunnel, inFlight, waiting>>

-----------------------------------------------------------------------------
(* A request.                                                              *)

\* open_request, on the session that is registered now.
Open(r) ==
  /\ req[r].pc = "idle"
  /\ current # NoSession
  /\ req' = [req EXCEPT ![r].pc = "opened", ![r].sess = current]
  /\ inFlight' = inFlight \cup {r}
  /\ UNCHANGED <<tunnel, waiting>>

\* send_text, on the loop of the session: the request frame is queued, unless
\* the session is not the registered one any more.
QueueFrame(r) ==
  /\ req[r].pc = "opened"
  /\ IF req[r].sess = current
     THEN req' = [req EXCEPT ![r].pc = "asked"] /\ UNCHANGED inFlight
     ELSE req' = [req EXCEPT ![r].pc = "failed"] /\ inFlight' = inFlight \ {r}
  /\ UNCHANGED <<tunnel, waiting>>

\* A callback that a frame scheduled runs on the request's loop.
RunFrame(r) ==
  /\ req[r].ran < req[r].routed
  /\ req' = [req EXCEPT ![r].ran = @ + 1]
  /\ UNCHANGED <<tunnel, inFlight, waiting>>

\* _abort_request_state runs: an unset head fails, the iterator is woken.
RunAbort(r) ==
  /\ req[r].abort = "scheduled"
  /\ req[r].ran = req[r].routed
  /\ req' = [req EXCEPT ![r].abort = "run"]
  /\ UNCHANGED <<tunnel, inFlight, waiting>>

\* The future of the head is done: it has a head, or an error.
TakeHead(r) ==
  /\ req[r].pc = "asked"
  /\ req[r].ran > 0 \/ req[r].abort = "run"
  /\ IF req[r].ran > 0
     THEN req' = [req EXCEPT ![r].pc = "streaming"] /\ UNCHANGED inFlight
     ELSE req' = [req EXCEPT ![r].pc = "failed"] /\ inFlight' = inFlight \ {r}
  /\ UNCHANGED <<tunnel, waiting>>

\* Mutant: only the end of the response wakes the iterator.
SentinelAtEnd(r) == req[r].ran = Chunks + 2

\* The iterator is woken for the end of the response, or by the abort.
Sentinel(r) == req[r].ran = Chunks + 2 \/ req[r].abort = "run"

\* A chunk that has arrived and was not read yet.
Queued(r) == req[r].ran > req[r].read + 1 /\ req[r].read < Chunks

\* Mutant: what the iterator gets is not checked against the abort.
TakeBodyUnchecked(r) ==
  /\ req[r].pc = "streaming"
  /\ Queued(r) \/ Sentinel(r)
  /\ IF Queued(r)
     THEN req' = [req EXCEPT ![r].read = @ + 1] /\ UNCHANGED inFlight
     ELSE req' = [req EXCEPT ![r].pc = "done"] /\ inFlight' = inFlight \ {r}
  /\ UNCHANGED <<tunnel, waiting>>

\* The body iterator gets an item: it raises if the request was aborted, takes
\* a chunk, or ends at the sentinel.
TakeBody(r) ==
  /\ req[r].pc = "streaming"
  /\ Queued(r) \/ Sentinel(r)
  /\ \/ /\ req[r].abort = "run"
        /\ req' = [req EXCEPT ![r].pc = "failed"]
        /\ inFlight' = inFlight \ {r}
     \/ /\ req[r].abort # "run" /\ Queued(r)
        /\ req' = [req EXCEPT ![r].read = @ + 1]
        /\ UNCHANGED inFlight
     \/ /\ req[r].abort # "run" /\ ~Queued(r)
        /\ req' = [req EXCEPT ![r].pc = "done"]
        /\ inFlight' = inFlight \ {r}
  /\ UNCHANGED <<tunnel, waiting>>

\* The caller gives up: it is cancelled while it waits for the head, or closes
\* the response (aclose), which also asks the runner to stop.
GiveUp(r) ==
  /\ req[r].pc \in {"opened", "asked", "streaming"}
  /\ req' = [req EXCEPT ![r].pc = "closed"]
  /\ inFlight' = inFlight \ {r}
  /\ UNCHANGED <<tunnel, waiting>>

-----------------------------------------------------------------------------
(* A caller of wait_for_runner.                                            *)

\* Mutant: a waiter that finds the map full is registered all the same.
FullIgnored == FALSE

\* The waiter cap of the runner, or that of the server, is reached.
Full == Cardinality(waiters) >= MaxPerRunner \/ total >= MaxTotal

\* The runner is not online and the caller is registered.  An online runner is
\* returned at once, and a caller that finds the map full sleeps and looks again:
\* neither leaves a trace.  The future is a new one: a result that is still
\* scheduled for an earlier call of w means nothing to it.
Wait(w) ==
  /\ wait[w] = "idle"
  /\ current = NoSession
  /\ ~Full
  /\ wait' = [wait EXCEPT ![w] = "waiting"]
  /\ waiters' = waiters \cup {w}
  /\ total' = total + 1
  /\ woken' = woken \ {w}
  /\ UNCHANGED <<tunnel, requests, others>>

\* The result that register scheduled is set: the caller has its runner.
SetResult(w) ==
  /\ w \in woken
  /\ woken' = woken \ {w}
  /\ wait' = [wait EXCEPT ![w] = IF @ = "waiting" THEN "idle" ELSE @]
  /\ UNCHANGED <<tunnel, requests, waiters, others, total>>

\* The time limit passes, or the caller is cancelled.
Expire(w) ==
  /\ wait[w] = "waiting"
  /\ wait' = [wait EXCEPT ![w] = "expired"]
  /\ UNCHANGED <<tunnel, requests, waiters, woken, others, total>>

\* Mutant: the count goes down although register has taken the waiter out.
LeaveTwice(w) ==
  /\ wait[w] = "expired"
  /\ wait' = [wait EXCEPT ![w] = "idle"]
  /\ waiters' = waiters \ {w}
  /\ total' = total - 1
  /\ UNCHANGED <<tunnel, requests, woken, others>>

\* The end of wait_for_runner: the caller leaves the map if it is still there.
Leave(w) ==
  /\ wait[w] = "expired"
  /\ wait' = [wait EXCEPT ![w] = "idle"]
  /\ waiters' = waiters \ {w}
  /\ total' = IF w \in waiters THEN total - 1 ELSE total
  /\ UNCHANGED <<tunnel, requests, woken, others>>

\* Waiters for other runners come, below the cap of the server, and go.
OtherWaits ==
  /\ total < MaxTotal
  /\ others' = others + 1
  /\ total' = total + 1
  /\ UNCHANGED <<tunnel, requests, wait, waiters, woken>>

OtherLeaves ==
  /\ others > 0
  /\ others' = others - 1
  /\ total' = total - 1
  /\ UNCHANGED <<tunnel, requests, wait, waiters, woken>>

-----------------------------------------------------------------------------
Init ==
  /\ current = NoSession
  /\ sess = [s \in Sessions |-> "new"]
  /\ wire = {}
  /\ inFlight = {}
  /\ req = [r \in Requests |-> Idle]
  /\ wait = [w \in Waiters |-> "idle"]
  /\ waiters = {} /\ woken = {} /\ others = 0 /\ total = 0

Connections ==
  \/ DropStaleTunnel
  \/ \E s \in Sessions :
        \/ Accept(s) \/ Register(s) \/ Refuse(s) \/ HandshakeFails(s)
        \/ RunnerVanishes(s) \/ HandlerStops(s) \/ HandlerEnds(s)

\* What the loops do for a request without its caller and the runner.
RequestStep(r) ==
  QueueFrame(r) \/ RunFrame(r) \/ RunAbort(r) \/ TakeHead(r) \/ TakeBody(r)

WaiterStep(w) == Wait(w) \/ SetResult(w) \/ Expire(w) \/ Leave(w)

Next ==
  \/ Connections
  \/ \E r \in Requests : Open(r) \/ ReceiveFrame(r) \/ RequestStep(r) \/ GiveUp(r)
  \/ \E w \in Waiters : WaiterStep(w)
  \/ OtherWaits \/ OtherLeaves

\* The ping loop notices a runner that is gone, the queue of a session that is
\* not registered ends its sender: the handler stops and cleans up.
LosesTunnel(s) == (s \notin wire \/ s # current) /\ HandlerStops(s)

Fairness ==
  /\ \A s \in Sessions : WF_vars(LosesTunnel(s)) /\ WF_vars(HandlerEnds(s))
  /\ \A r \in Requests : WF_vars(RequestStep(r))

Spec == Init /\ [][Next]_vars

FairSpec == Spec /\ Fairness

-----------------------------------------------------------------------------
(* Properties.                                                             *)

TypeOK ==
  /\ current \in Sessions \cup {NoSession}
  /\ sess \in [Sessions -> {"new", "accepted", "open", "stopping", "closed"}]
  /\ wire \subseteq Sessions
  /\ inFlight \subseteq Requests
  /\ req \in [Requests -> RequestRecords]
  /\ wait \in [Waiters -> {"idle", "waiting", "expired"}]
  /\ waiters \subseteq Waiters /\ woken \subseteq Waiters
  /\ others \in Nat /\ total \in Nat

Active(r) == req[r].pc \in {"opened", "asked", "streaming"}

\* A request that is under way is known to the registered session, so that its
\* frames find it, or its abort has been scheduled: however connections replace
\* each other, nobody waits for a tunnel that is gone (registry.py:260).
NobodyIsStranded ==
  \A r \in Requests :
     Active(r) =>
       IF r \in inFlight
       THEN req[r].sess = current /\ req[r].abort = "no"
       ELSE req[r].abort # "no"

\* A response that ends without an error is whole: a tunnel that breaks between
\* two chunks is never taken for the end of the body.
ResponsesAreWhole ==
  \A r \in Requests : req[r].pc = "done" => req[r].read = Chunks

\* The count of waiters is that of the maps and stays within the caps, although
\* a waiter leaves by its own time limit or is taken out by register, whichever
\* comes first.
WaitersAreCounted ==
  /\ total = Cardinality(waiters) + others
  /\ total <= MaxTotal /\ Cardinality(waiters) <= MaxPerRunner

\* No wake-up is lost: while the runner is online nobody is left in the map, and
\* a registered caller that still waits is in the map or has its result
\* scheduled.
NoLostWakeup ==
  /\ current # NoSession => waiters = {}
  /\ \A w \in Waiters : wait[w] = "waiting" => w \in waiters \cup woken

\* A request to a runner that is gone ends, in an error if need be.
LostRequestsEnd ==
  \A r \in Requests :
     (Active(r) /\ req[r].sess \notin wire) ~> ~Active(r)
=============================================================================
