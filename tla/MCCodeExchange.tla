--------------------------- MODULE MCCodeExchange ---------------------------
(***************************************************************************)
(* Instances of CodeExchange for TLC: one client, which may refresh if the *)
(* cfg says so, and two verifiers and one malformed one.                   *)
(***************************************************************************)
EXTENDS CodeExchange, TLC

CONSTANTS c1

MCClientScopes == c1 :> Scopes
MCExchangeOnly == c1 :> {"authorization_code"}
MCExchangeAndRefresh == c1 :> {"authorization_code", "refresh_token"}

Symmetry == Permutations(Calls)
=============================================================================
