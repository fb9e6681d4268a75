-------------------------- MODULE MCTokenLifecycle --------------------------
(***************************************************************************)
(* Instances of TokenLifecycle for TLC.  Two clients: c1 may do everything *)
(* that is registered for it, c2 is a registered client that may redeem    *)
(* and refresh, but is not registered for the offline scope.               *)
(***************************************************************************)
EXTENDS TokenLifecycle, TLC

CONSTANTS c1, c2, offline

MCClients == {c1, c2}
MCScopes == {offline}

\* c2 lacks the scope, so a grant of it to c2 cannot be refreshed.
MCClientScopes == c1 :> {offline} @@ c2 :> {}

\* Both clients may use the hybrid flow.
MCHybridGrantTypes == [c \in MCClients |-> GrantTypes]

Symmetry == Permutations(Calls)
=============================================================================
