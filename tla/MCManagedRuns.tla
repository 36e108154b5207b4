--------------------------- MODULE MCManagedRuns ---------------------------
(* Instances of ManagedRuns, and the fair specification for its liveness.  *)
EXTENDS ManagedRuns, TLC

Symmetry == Permutations(Clients) \cup Permutations(Keys)

\* Calls run to their end, and somebody asks for each run again and again.
FairSpec ==
  /\ Spec
  /\ \A c \in Clients : WF_vars(Proceed(c))
  /\ \A r \in Runs : SF_vars(\E c \in Clients : r \in DOMAIN rows /\ GetRun(c, r))

\* The outputs of a run whose provider record says succeeded end up on its row
\* and stay there, even when a call that was collecting them is cut short and
\* stale copies without outputs are written over the row (_sync_run collects
\* again while the row lists none).
OutputsEventuallyListed ==
  \A r \in Runs :
    (r \in DOMAIN rows /\ record[r] = "succeeded")
      ~> [](r \in DOMAIN rows /\ rows[r].outputs # {})

\* Stale writes die out: once the provider record of a run is terminal, its row
\* comes to show that status and keeps it, however the calls that reconcile it
\* overlap (_sync_run writes what it last saw, over whatever the row holds).
StatusConverges ==
  \A r \in Runs :
    (r \in DOMAIN rows /\ record[r] \in Terminal)
      ~> [](r \in DOMAIN rows /\ rows[r].status = record[r])
=============================================================================
