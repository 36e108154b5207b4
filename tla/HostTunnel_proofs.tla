-------------------------- MODULE HostTunnel_proofs --------------------------
(***************************************************************************)
(* Type correctness of HostTunnel and the ownership of a host id, for any   *)
(* number of connections and users.                                         *)
(***************************************************************************)
EXTENDS HostTunnel, TLAPS

USE HostTunnelAssumption

\* The initial state has its type.
LEMMA InitTypeOK == Init => TypeOK
  BY DEF Init, TypeOK, Places

\* What a handler does keeps the type.
LEMMA HandlerTypeOK ==
  ASSUME TypeOK, NEW c \in Conns, Handler(c)
  PROVE  TypeOK'
<1> USE DEF TypeOK, Places, Goes, Hangs, registry, row
<1>1. CASE Upsert(c)
  BY <1>1 DEF Upsert
<1>2. CASE Refuse(c)
  BY <1>2 DEF Refuse
<1>3. CASE Register(c)
  BY <1>3 DEF Register
<1>4. CASE Deregister(c)
  BY <1>4 DEF Deregister, Then
<1>5. CASE SetOffline(c)
  BY <1>5 DEF SetOffline
<1>6. CASE SetOfflineFails(c)
  BY <1>6 DEF SetOfflineFails
<1> QED
  BY <1>1, <1>2, <1>3, <1>4, <1>5, <1>6 DEF Handler

\* Every step keeps the type.
LEMMA NextTypeOK == TypeOK /\ [Next]_vars => TypeOK'
<1> SUFFICES ASSUME TypeOK, [Next]_vars PROVE TypeOK'
  OBVIOUS
<1>1. ASSUME NEW c \in Conns, Handler(c) PROVE TypeOK'
  BY <1>1, HandlerTypeOK
<1> USE DEF TypeOK, Places, Goes, Hangs, registry, row
<1>2. ASSUME NEW c \in Conns, Accept(c) PROVE TypeOK'
  BY <1>2 DEF Accept
<1>3. ASSUME NEW c \in Conns, HostVanishes(c) PROVE TypeOK'
  BY <1>3 DEF HostVanishes
<1>4. ASSUME NEW c \in Conns, Touch(c) PROVE TypeOK'
  BY <1>4 DEF Touch
<1>5. ASSUME NEW c \in Conns, TouchLands(c) PROVE TypeOK'
  BY <1>5 DEF TouchLands
<1>6. ASSUME NEW c \in Conns, HandlerStops(c) PROVE TypeOK'
  BY <1>6 DEF HandlerStops
<1>7. CASE DropStaleTunnel
  BY <1>7 DEF DropStaleTunnel
<1>8. CASE Crash
  BY <1>8 DEF Crash
<1>9. CASE Lapse
  BY <1>9 DEF Lapse
<1>10. CASE UNCHANGED vars
  BY <1>10 DEF vars
<1> QED
  BY <1>1, <1>2, <1>3, <1>4, <1>5, <1>6, <1>7, <1>8, <1>9, <1>10 DEF Next

\* The state of the registry, of the handlers and of the row keeps its type.
THEOREM TypeCorrect == Spec => []TypeOK
<1>1. Init => TypeOK
  BY InitTypeOK
<1>2. TypeOK /\ [Next]_vars => TypeOK'
  BY NextTypeOK
<1> QED
  BY <1>1, <1>2, PTL DEF Spec

-----------------------------------------------------------------------------
(* The owner of the row changes at most once, from nobody to the user of    *)
(* the first upsert: whoever has got past the upsert is that user.          *)

LEMMA HandlerOneOwner ==
  ASSUME TypeOK, OneOwner, NEW c \in Conns, Handler(c)
  PROVE  OneOwner'
<1> USE DEF TypeOK, OneOwner, Goes, Hangs, registry, row
<1>1. CASE Upsert(c)
  BY <1>1 DEF Upsert
<1>2. CASE Refuse(c)
  BY <1>2 DEF Refuse
<1>3. CASE Register(c)
  BY <1>3 DEF Register
<1>4. CASE Deregister(c)
  BY <1>4 DEF Deregister, Then
<1>5. CASE SetOffline(c)
  BY <1>5 DEF SetOffline
<1>6. CASE SetOfflineFails(c)
  BY <1>6 DEF SetOfflineFails
<1> QED
  BY <1>1, <1>2, <1>3, <1>4, <1>5, <1>6 DEF Handler

LEMMA NextOneOwner == TypeOK /\ OneOwner /\ [Next]_vars => OneOwner'
<1> SUFFICES ASSUME TypeOK, OneOwner, [Next]_vars PROVE OneOwner'
  OBVIOUS
<1>1. ASSUME NEW c \in Conns, Handler(c) PROVE OneOwner'
  BY <1>1, HandlerOneOwner
<1> USE DEF TypeOK, OneOwner, Goes, Hangs, registry, row
<1>2. ASSUME NEW c \in Conns, Accept(c) PROVE OneOwner'
  BY <1>2 DEF Accept
<1>3. ASSUME NEW c \in Conns, HostVanishes(c) PROVE OneOwner'
  BY <1>3 DEF HostVanishes
<1>4. ASSUME NEW c \in Conns, Touch(c) PROVE OneOwner'
  BY <1>4 DEF Touch
<1>5. ASSUME NEW c \in Conns, TouchLands(c) PROVE OneOwner'
  BY <1>5 DEF TouchLands
<1>6. ASSUME NEW c \in Conns, HandlerStops(c) PROVE OneOwner'
  BY <1>6 DEF HandlerStops
<1>7. CASE DropStaleTunnel
  BY <1>7 DEF DropStaleTunnel
<1>8. CASE Crash
  BY <1>8 DEF Crash
<1>9. CASE Lapse
  BY <1>9 DEF Lapse
<1>10. CASE UNCHANGED vars
  BY <1>10 DEF vars
<1> QED
  BY <1>1, <1>2, <1>3, <1>4, <1>5, <1>6, <1>7, <1>8, <1>9, <1>10 DEF Next

\* A host id stays with the user who claimed it first, however many connections
\* of however many users overlap in the handshake (upsert_on_connect is the
\* backstop of the check before accept).
THEOREM OwnerIsFixed == Spec => []OneOwner
<1>1. Init => OneOwner
  BY DEF Init, OneOwner
<1>2. TypeOK /\ OneOwner /\ [Next]_vars => OneOwner'
  BY NextOneOwner
<1> QED
  BY <1>1, <1>2, TypeCorrect, PTL DEF Spec

-----------------------------------------------------------------------------
(* The registry's entry: the part of GoneHostGoesOffline that needs no      *)
(* fairness.                                                                *)

\* The entry has a handler that is still to take it out, and that was not told
\* to stop: the sentinel is for a connection that was replaced.
EntryIsMinded ==
  \A c \in Conns :
     registered = c => conn[c] \in {"open", "raised", "ended"} /\ c \notin poisoned

\* Only a connection that had the entry was told to stop.
ToldOnceOpen == \A c \in poisoned : conn[c] \notin {"new", "accepted", "upserted"}

EntryInv == EntryIsMinded /\ ToldOnceOpen

LEMMA HandlerEntryInv ==
  ASSUME TypeOK, EntryInv, NEW c \in Conns, Handler(c)
  PROVE  EntryInv'
<1> USE DEF TypeOK, EntryInv, EntryIsMinded, ToldOnceOpen, Goes, Hangs, registry, row
<1>1. CASE Upsert(c)
  BY <1>1 DEF Upsert
<1>2. CASE Refuse(c)
  BY <1>2 DEF Refuse
<1>3. CASE Register(c)
  BY <1>3 DEF Register
<1>4. CASE Deregister(c)
  BY <1>4 DEF Deregister, Then
<1>5. CASE SetOffline(c)
  BY <1>5 DEF SetOffline
<1>6. CASE SetOfflineFails(c)
  BY <1>6 DEF SetOfflineFails
<1> QED
  BY <1>1, <1>2, <1>3, <1>4, <1>5, <1>6 DEF Handler

LEMMA NextEntryInv == TypeOK /\ EntryInv /\ [Next]_vars => EntryInv'
<1> SUFFICES ASSUME TypeOK, EntryInv, [Next]_vars PROVE EntryInv'
  OBVIOUS
<1>1. ASSUME NEW c \in Conns, Handler(c) PROVE EntryInv'
  BY <1>1, HandlerEntryInv
<1> USE DEF TypeOK, EntryInv, EntryIsMinded, ToldOnceOpen, Goes, Hangs, registry, row
<1>2. ASSUME NEW c \in Conns, Accept(c) PROVE EntryInv'
  BY <1>2 DEF Accept
<1>3. ASSUME NEW c \in Conns, HostVanishes(c) PROVE EntryInv'
  BY <1>3 DEF HostVanishes
<1>4. ASSUME NEW c \in Conns, Touch(c) PROVE EntryInv'
  BY <1>4 DEF Touch
<1>5. ASSUME NEW c \in Conns, TouchLands(c) PROVE EntryInv'
  BY <1>5 DEF TouchLands
<1>6. ASSUME NEW c \in Conns, HandlerStops(c) PROVE EntryInv'
  BY <1>6 DEF HandlerStops
<1>7. CASE DropStaleTunnel
  BY <1>7 DEF DropStaleTunnel
<1>8. CASE Crash
  BY <1>8 DEF Crash
<1>9. CASE Lapse
  BY <1>9 DEF Lapse
<1>10. CASE UNCHANGED vars
  BY <1>10 DEF vars
<1> QED
  BY <1>1, <1>2, <1>3, <1>4, <1>5, <1>6, <1>7, <1>8, <1>9, <1>10 DEF Next

\* The registry never keeps a connection whose handler has cleaned up, whichever
\* connections overlap, whatever clean-up fails and whenever the server dies; and
\* the newest connection is never told to stop by a replacement (register and
\* deregister of HostRegistry, the clean-up of the route).
THEOREM EntryMinded == Spec => []EntryIsMinded
<1>1. Init => EntryInv
  BY DEF Init, EntryInv, EntryIsMinded, ToldOnceOpen
<1>2. EntryInv => EntryIsMinded
  BY DEF EntryInv
<1> QED
  BY <1>1, <1>2, NextEntryInv, TypeCorrect, PTL DEF Spec
=============================================================================
