---------------------------- MODULE MCApprovals ----------------------------
(* Instances of Approvals: a compute submission, a storage read and a      *)
(* storage copy that passes a read gate and then a write gate.             *)
EXTENDS Approvals

CONSTANTS prefix, object   \* two scopes; the object's URI starts with the prefix

MCStartsWith == {<<prefix, prefix>>, <<object, object>>, <<prefix, object>>}

ReadObject == <<[action |-> "read", scope |-> object]>>
ReadPrefix == <<[action |-> "read", scope |-> prefix]>>
WriteObject == <<[action |-> "write", scope |-> object]>>
Copy == ReadObject \o WriteObject

ReadCalls == {ReadObject, ReadPrefix}
CopyCalls == {Copy}
MixedCalls == {Copy, ReadPrefix}

NoPolicies == {{}}
SomePolicies == {{}, {"write"}}

-----------------------------------------------------------------------------
(* The retry workflow: a client repeats a refused call once its request is *)
(* resolved, and an operator approves every request, for once or for more. *)

NothingPending == \A i \in DOMAIN approvals : approvals[i].decision # "pending"

Retry(c) == NothingPending /\ \E gates \in Calls : Begin(c, gates)

RetryNext ==
  \/ \E c \in Clients :
       \/ Retry(c)
       \/ PassWide(c) \/ TakeOneTime(c) \/ NeedApproval(c)
       \/ Consume(c) \/ Request(c)
  \/ \E o \in Operators :
       \/ \E i \in DOMAIN approvals : ResolveRead(o, i)
       \/ \E k \in Kinds : ResolveWrite(o, "approved", k)
  \/ (\A c \in Clients : pc[c] = "perform") /\ UNCHANGED vars

RetrySpec ==
  /\ Init /\ [][RetryNext]_vars
  /\ \A c \in Clients :
       /\ WF_vars(Retry(c))
       /\ WF_vars(PassWide(c) \/ TakeOneTime(c) \/ NeedApproval(c))
       /\ WF_vars(Consume(c) \/ Request(c))
  /\ \A o \in Operators :
       /\ WF_vars(\E i \in DOMAIN approvals : ResolveRead(o, i))
       /\ WF_vars(\E k \in Kinds : ResolveWrite(o, "approved", k))

\* A copy between two remote locations needs two one-time approvals, and its
\* refused second gate uses up the first (storage_copy, _require_approval).  The
\* retries still get through, at the cost of three approvals at most: with more
\* the run would be out of approvals and deadlock.
CopyEventuallyPerforms == \A c \in Clients : <>(pc[c] = "perform")
=============================================================================
