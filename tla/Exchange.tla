------------------------------ MODULE Exchange ------------------------------
(***************************************************************************)
(* What the caller of an HTTP request through the tunnel sees of it: the    *)
(* contract of httpx.AsyncBaseTransport that WSTunnelTransport              *)
(* (omnigent/runner/transports/ws_tunnel/transport.py) implements, for one  *)
(* request.  Connections, sessions and callbacks are not part of it.        *)
(*                                                                         *)
(* A call ends once.  It ends well only after a response with its whole     *)
(* body, read in order; a head that never comes and a body that breaks off  *)
(* are errors; the caller may close it before.                              *)
(***************************************************************************)
EXTENDS Naturals

CONSTANT Chunks   \* chunks of the body the runner answers with

VARIABLES
  phase,   \* what the caller is at, or how the call ended
  got      \* chunks of the body the caller has

Init == phase = "idle" /\ got = 0

\* handle_async_request is called.
Call == phase = "idle" /\ phase' = "waiting" /\ UNCHANGED got

\* The call returns a response: a head with a body still to read.
Respond == phase = "waiting" /\ phase' = "reading" /\ UNCHANGED got

\* The iterator of the body gives its next chunk.
Yield ==
  /\ phase = "reading"
  /\ got < Chunks
  /\ got' = got + 1
  /\ UNCHANGED phase

\* The iterator of the body ends: nothing of it is missing.
Finish ==
  /\ phase = "reading"
  /\ got = Chunks
  /\ phase' = "done"
  /\ UNCHANGED got

\* The call raises, or the iterator of the body does.
Fail == phase \in {"waiting", "reading"} /\ phase' = "failed" /\ UNCHANGED got

\* The caller is cancelled, or closes the response.
Close == phase \in {"waiting", "reading"} /\ phase' = "closed" /\ UNCHANGED got

Next == Call \/ Respond \/ Yield \/ Finish \/ Fail \/ Close

Spec == Init /\ [][Next]_<<phase, got>>
=============================================================================
