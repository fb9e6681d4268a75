--------------------------- MODULE MCTokenValidity ---------------------------
(***************************************************************************)
(* Instances of TokenValidity for TLC: one client, one scope, a clock of   *)
(* half seconds.  The lifespans are as short as rounding lets them be told *)
(* apart.                                                                  *)
(***************************************************************************)
EXTENDS TokenValidity, TLC

CONSTANTS c1, offline

MCClients == {c1}
MCScopes == {offline}
MCClientScopes == c1 :> {offline}
MCClientGrantTypes == c1 :> GrantTypes

\* The code lives one second, an access token of the front channel one; the
\* client has half a second at the token endpoint, and its refreshes leave the
\* expiry of the refresh token as it is.
MCConfigLifespan == "code" :> 2 @@ "access" :> 0 @@ "refresh" :> 1
MCDefaultLifespan == "code" :> 6 @@ "access" :> 2 @@ "refresh" :> 8
MCClientLifespans ==
    c1 :> [key \in LifespanKeys |->
        CASE key = <<"authorization_code", "access">> -> 1
          [] key = <<"refresh_token", "refresh">> -> -1
          [] OTHER -> None]

\* No lifespans of its own.
MCNoClientLifespans == c1 :> [key \in LifespanKeys |-> None]

Symmetry == Permutations(Calls) \union Permutations(Secrets)
=============================================================================
