------------------------------ MODULE HostTunnel ------------------------------
(***************************************************************************)
(* The tunnel of one host id on the OmniGent server: HostRegistry           *)
(* (omnigent/server/host_registry.py), the WebSocket route that owns a      *)
(* connection (server/routes/host_tunnel.py) and the host's row in the      *)
(* database (omnigent/stores/host_store.py), which every replica reads to   *)
(* tell whether the host is live.                                           *)
(*                                                                         *)
(* The registry dies with the server, the row stays.  A write to the row is *)
(* made by a thread, so it lands while the event loop goes on.  The server  *)
(* is one of several users (allow_host_id_reown is off).                    *)
(***************************************************************************)
CONSTANTS
  Conns,      \* connections made for the host id
  NoConn,
  Users,      \* the users they are authenticated as
  NoUser,     \* no row
  UserOf(_)

ASSUME HostTunnelAssumption ==
  /\ NoConn \notin Conns
  /\ NoUser \notin Users
  /\ \A c \in Conns : UserOf(c) \in Users

VARIABLES
  registered, \* the host's entry in _hosts
  conn,       \* where the handler of each connection is
  wire,       \* the connections over which the host can still be reached
  poisoned,   \* the connections whose outbound queue holds the sentinel
  owner,      \* owner of the row
  status,     \* status of the row
  fresh,      \* updated_at of the row is within HOST_LIVENESS_TTL_S
  touches     \* connections with an update of updated_at on its way

registry == <<registered, poisoned>>
row == <<owner, status, fresh>>
vars == <<registry, conn, wire, row, touches>>

\* The handler of a connection.  It cleans up when its helper tasks are gone,
\* and once more if one of them, or the first clean-up, raised an exception.
Places == {"new", "accepted", "upserted", "open", "raised", "ended",
           "raisedOffline", "endedOffline", "again", "againOffline", "closed"}

Goes(c, place) == conn' = [conn EXCEPT ![c] = place]

Hangs(c) == Goes(c, "closed") /\ wire' = wire \ {c}

-----------------------------------------------------------------------------
(* The handshake.                                                          *)

\* get_host, before the upgrade is accepted: another user's host is refused.
Accept(c) ==
  /\ conn[c] = "new"
  /\ IF owner \in {NoUser, UserOf(c)}
     THEN Goes(c, "accepted") /\ wire' = wire \cup {c}
     ELSE Hangs(c)
  /\ UNCHANGED <<registry, row, touches>>

\* No hello, or one of another protocol version.
Refuse(c) ==
  /\ conn[c] = "accepted"
  /\ Hangs(c)
  /\ UNCHANGED <<registry, row, touches>>

\* Mutant: the owner is not looked at again.
UpsertBlind(c) ==
  /\ conn[c] = "accepted"
  /\ owner' = UserOf(c) /\ status' = "online" /\ fresh' = TRUE
  /\ Goes(c, "upserted") /\ UNCHANGED wire
  /\ UNCHANGED <<registry, touches>>

\* upsert_on_connect: it raises if a connection of another user was faster, and
\* the handler, which has registered nothing, leaves the other alone.
Upsert(c) ==
  /\ conn[c] = "accepted"
  /\ IF owner \in {NoUser, UserOf(c)}
     THEN /\ owner' = UserOf(c) /\ status' = "online" /\ fresh' = TRUE
          /\ Goes(c, "upserted") /\ UNCHANGED wire
     ELSE Hangs(c) /\ UNCHANGED row
  /\ UNCHANGED <<registry, touches>>

\* Mutant: the entry that is replaced is told even when there is none.
RegisterTellsNone(c) ==
  /\ conn[c] = "upserted"
  /\ Goes(c, "open")
  /\ registered' = c
  /\ poisoned' = poisoned \cup {registered}
  /\ UNCHANGED <<wire, row, touches>>

\* register: the newest connection wins and the sender of the old one is told.
Register(c) ==
  /\ conn[c] = "upserted"
  /\ Goes(c, "open")
  /\ registered' = c
  /\ poisoned' = poisoned \cup ({registered} \ {NoConn})
  /\ UNCHANGED <<wire, row, touches>>

-----------------------------------------------------------------------------
(* The helper tasks.                                                       *)

\* The host goes away without a word.
HostVanishes(c) ==
  /\ c \in wire
  /\ wire' = wire \ {c}
  /\ UNCHANGED <<registry, conn, row, touches>>

\* heartbeat of the ping loop, or update_harness_readiness of the receive loop:
\* a thread is started, and writes the row whatever happens to the task.
Touch(c) ==
  /\ conn[c] = "open"
  /\ touches' = touches \cup {c}
  /\ UNCHANGED <<registry, conn, wire, row>>

\* Only updated_at changes, so an update that comes after set_offline does not
\* put the host online again.
TouchLands(c) ==
  /\ c \in touches
  /\ touches' = touches \ {c}
  /\ fresh' = TRUE
  /\ UNCHANGED <<registry, conn, wire, owner, status>>

\* A helper task ends, with an exception (the socket is closed, a write of the
\* row failed) or without (the sentinel, three pings without an answer).
HandlerStops(c) ==
  /\ conn[c] = "open"
  /\ \E place \in {"raised", "ended"} : Goes(c, place)
  /\ UNCHANGED <<registry, wire, row, touches>>

-----------------------------------------------------------------------------
(* The clean-up.                                                           *)

Then(place) ==
  CASE place = "raised" -> "raisedOffline"
    [] place = "ended" -> "endedOffline"
    [] place = "again" -> "againOffline"

\* Mutant: a handler that ended with an exception takes nothing out.
DeregisterEnded(c) ==
  /\ conn[c] \in {"raised", "ended", "again"}
  /\ registered' = IF conn[c] = "ended" THEN NoConn ELSE registered
  /\ Goes(c, Then(conn[c]))
  /\ UNCHANGED <<poisoned, wire, row, touches>>

\* deregister: whatever connection is there now is taken out.
Deregister(c) ==
  /\ conn[c] \in {"raised", "ended", "again"}
  /\ registered' = NoConn
  /\ Goes(c, Then(conn[c]))
  /\ UNCHANGED <<poisoned, wire, row, touches>>

\* set_offline.
SetOffline(c) ==
  /\ conn[c] \in {"raisedOffline", "endedOffline", "againOffline"}
  /\ status' = "offline" /\ fresh' = TRUE
  /\ IF conn[c] = "raisedOffline"
     THEN Goes(c, "again") /\ UNCHANGED wire ELSE Hangs(c)
  /\ UNCHANGED <<registry, owner, touches>>

\* set_offline raises: the handler tries once more.
SetOfflineFails(c) ==
  /\ conn[c] \in {"raisedOffline", "endedOffline", "againOffline"}
  /\ IF conn[c] = "againOffline"
     THEN Hangs(c) ELSE Goes(c, "again") /\ UNCHANGED wire
  /\ UNCHANGED <<registry, row, touches>>

-----------------------------------------------------------------------------
(* The server.                                                             *)

\* The server wakes a managed host and drops the connection it holds for stale.
DropStaleTunnel ==
  /\ registered # NoConn
  /\ registered' = NoConn
  /\ UNCHANGED <<poisoned, conn, wire, row, touches>>

\* The server dies: nobody cleans up.
Crash ==
  /\ registered' = NoConn
  /\ poisoned' = {}
  /\ conn' = [c \in Conns |-> IF conn[c] = "new" THEN "new" ELSE "closed"]
  /\ wire' = {}
  /\ touches' = {}
  /\ UNCHANGED row

\* Nobody has written the row for 90 seconds: the ping loops, which write every
\* 30 seconds, are gone.
Lapse ==
  /\ fresh
  /\ \A c \in Conns : conn[c] # "open" /\ c \notin touches
  /\ fresh' = FALSE
  /\ UNCHANGED <<registry, conn, wire, owner, status, touches>>

-----------------------------------------------------------------------------
Init ==
  /\ registered = NoConn /\ poisoned = {}
  /\ conn = [c \in Conns |-> "new"]
  /\ wire = {} /\ touches = {}
  /\ owner = NoUser /\ status = "offline" /\ fresh = FALSE

Handler(c) ==
  \/ Upsert(c) \/ Refuse(c) \/ Register(c)
  \/ Deregister(c) \/ SetOffline(c) \/ SetOfflineFails(c)

Next ==
  \/ \E c \in Conns :
        \/ Accept(c) \/ Handler(c) \/ HostVanishes(c)
        \/ Touch(c) \/ TouchLands(c) \/ HandlerStops(c)
  \/ DropStaleTunnel \/ Crash \/ Lapse

\* The ping loop notices a host that is gone, the sentinel ends the sender.
LosesHost(c) == (c \notin wire \/ c \in poisoned) /\ HandlerStops(c)

Fairness ==
  /\ \A c \in Conns : /\ WF_vars(LosesHost(c)) /\ WF_vars(Handler(c))
                      /\ WF_vars(TouchLands(c))
  /\ WF_vars(Lapse)

Spec == Init /\ [][Next]_vars

FairSpec == Spec /\ Fairness

-----------------------------------------------------------------------------
(* Properties.                                                             *)

TypeOK ==
  /\ registered \in Conns \cup {NoConn}
  /\ poisoned \subseteq Conns
  /\ conn \in [Conns -> Places]
  /\ wire \subseteq Conns /\ touches \subseteq Conns
  /\ owner \in Users \cup {NoUser}
  /\ status \in {"online", "offline"}
  /\ fresh \in BOOLEAN

\* is_online: what every replica believes.
Live == status = "online" /\ fresh

\* A host id stays with the user who claimed it first: whichever connections of
\* several users overlap between the check, the hello and the upsert, those that
\* get as far as the registry belong to the owner of the row (host_tunnel.py:191).
OneOwner ==
  \A c \in Conns :
     (registered = c \/ conn[c] \notin {"new", "accepted", "closed"}) => UserOf(c) = owner

\* A host that is gone for good ends up out of the registry and not live on its
\* row, although the server may die or a clean-up may fail.
GoneHostGoesOffline ==
  <>[](wire = {}) => <>[](registered = NoConn /\ ~Live)
=============================================================================
