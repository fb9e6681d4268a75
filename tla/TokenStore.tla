----------------------------- MODULE TokenStore -----------------------------
(***************************************************************************)
(* The token tables of MemoryStore (storage/memory.go): authorization      *)
(* codes, access tokens, refresh tokens, and the two indexes that lead     *)
(* from a request ID to "its" access token and refresh token.  Every       *)
(* method of MemoryStore holds its mutexes from its first to its last      *)
(* statement, so one method is one atomic step; the one exception,         *)
(* RotateRefreshToken, calls two such methods in a row and is left to the  *)
(* modules that use it.                                                    *)
(*                                                                         *)
(* A signature is named by whoever generated the token: a code by the      *)
(* authorize request it was issued for, an access token by the authorize   *)
(* request (front channel) or the token endpoint call (back channel), a    *)
(* refresh token by the token endpoint call.  Tokens are random strings,   *)
(* so two of them never have the same signature.                           *)
(***************************************************************************)

CONSTANTS
    AuthReqs,   \* authorize requests; also their request IDs and their codes
    Calls,      \* calls of the token and of the revocation endpoint
    Clients,    \* registered OAuth 2.0 clients
    Scopes,     \* scopes that can be granted
    None        \* an absent entry of a map

\* The stored form of a fosite.Requester, as far as the handlers read it back.
Requester == [id : AuthReqs, client : Clients, scopes : SUBSET Scopes]

AccessSignatures == AuthReqs \union Calls

ResponseTypes == {"code", "code token"}

\* StoreAuthorizeCode; responseType is the form value that Sanitize keeps.
CodeSession == [active : BOOLEAN, req : Requester, responseType : ResponseTypes]

\* StoreRefreshToken; its accessTokenSignature is written and never read.
RefreshSession == [active : BOOLEAN, req : Requester]

ASSUME NoneAssumption ==
    /\ None \notin AuthReqs \union Calls
    /\ None \notin Requester
    /\ None \notin CodeSession
    /\ None \notin RefreshSession

ASSUME NamesAssumption == AuthReqs \intersect Calls = {}

VARIABLES
    authorizeCodes,          \* AuthorizeCodes
    accessTokens,            \* AccessTokens
    accessTokenRequestIDs,   \* AccessTokenRequestIDs
    refreshTokens,           \* RefreshTokens
    refreshTokenRequestIDs   \* RefreshTokenRequestIDs

accessVars == <<accessTokens, accessTokenRequestIDs>>
refreshVars == <<refreshTokens, refreshTokenRequestIDs>>
storeVars == <<authorizeCodes, accessVars, refreshVars>>

StoreTypeOK ==
    /\ authorizeCodes \in [AuthReqs -> CodeSession \union {None}]
    /\ accessTokens \in [AccessSignatures -> Requester \union {None}]
    /\ accessTokenRequestIDs \in [AuthReqs -> AccessSignatures \union {None}]
    /\ refreshTokens \in [Calls -> RefreshSession \union {None}]
    /\ refreshTokenRequestIDs \in [AuthReqs -> Calls \union {None}]

\* NewMemoryStore: every map is empty.
StoreInit ==
    /\ authorizeCodes = [a \in AuthReqs |-> None]
    /\ accessTokens = [s \in AccessSignatures |-> None]
    /\ accessTokenRequestIDs = [a \in AuthReqs |-> None]
    /\ refreshTokens = [t \in Calls |-> None]
    /\ refreshTokenRequestIDs = [a \in AuthReqs |-> None]

-----------------------------------------------------------------------------
(* Authorization codes.                                                    *)

CreateAuthorizeCodeSession(code, req, type) ==
    authorizeCodes' = [authorizeCodes EXCEPT ![code] =
        [active |-> TRUE, req |-> req, responseType |-> type]]

\* Mutant: a used code is not told from an unused one.
GetAuthorizeCodeErrorUsedIsFine(code) ==
    IF authorizeCodes[code] = None THEN "ErrNotFound" ELSE "nil"

\* The error of GetAuthorizeCodeSession, "nil" when there is none.
GetAuthorizeCodeError(code) ==
    IF authorizeCodes[code] = None THEN "ErrNotFound"
    ELSE IF ~authorizeCodes[code].active THEN "ErrInvalidatedAuthorizeCode"
    ELSE "nil"

\* An entry is never deleted, so ErrNotFound is not an outcome after a Get
\* that found it; that the code was active is not checked again.
InvalidateAuthorizeCodeSession(code) ==
    /\ authorizeCodes[code] # None
    /\ authorizeCodes' = [authorizeCodes EXCEPT ![code].active = FALSE]

-----------------------------------------------------------------------------
(* Access tokens.  The index remembers one signature per request ID.       *)

CreateAccessTokenSession(sig, req) ==
    /\ accessTokens' = [accessTokens EXCEPT ![sig] = req]
    /\ accessTokenRequestIDs' = [accessTokenRequestIDs EXCEPT ![req.id] = sig]

\* Mutant: nothing is deleted.
RevokeNoAccessToken(id) == UNCHANGED accessVars

\* Deletes the token the index leads to; the index entry itself stays.
RevokeAccessToken(id) ==
    /\ accessTokens' =
          IF accessTokenRequestIDs[id] = None THEN accessTokens
          ELSE [accessTokens EXCEPT ![accessTokenRequestIDs[id]] = None]
    /\ UNCHANGED accessTokenRequestIDs

-----------------------------------------------------------------------------
(* Refresh tokens.                                                         *)

\* Mutant: the index is written only for the first token of a request.
CreateRefreshTokenIndexedOnce(sig, req) ==
    /\ refreshTokens' = [refreshTokens EXCEPT ![sig] =
                            [active |-> TRUE, req |-> req]]
    /\ refreshTokenRequestIDs' = [refreshTokenRequestIDs EXCEPT ![req.id] =
                                     IF @ = None THEN sig ELSE @]

CreateRefreshTokenSession(sig, req) ==
    /\ refreshTokens' = [refreshTokens EXCEPT ![sig] =
                            [active |-> TRUE, req |-> req]]
    /\ refreshTokenRequestIDs' =
          [refreshTokenRequestIDs EXCEPT ![req.id] = sig]

GetRefreshTokenError(sig) ==
    IF refreshTokens[sig] = None THEN "ErrNotFound"
    ELSE IF ~refreshTokens[sig].active THEN "ErrInactiveToken"
    ELSE "nil"

\* Only the token goes: the index may lead to a token that is not there.
DeleteRefreshTokenSession(sig) ==
    /\ refreshTokens' = [refreshTokens EXCEPT ![sig] = None]
    /\ UNCHANGED refreshTokenRequestIDs

\* RevokeRefreshToken returns ErrNotFound: indexed, but not in the table.
RevokeRefreshTokenFails(id) ==
    /\ refreshTokenRequestIDs[id] # None
    /\ refreshTokens[refreshTokenRequestIDs[id]] = None

\* Mutant: a token that is gone is not an error, and is written back.
RevokeRefreshTokenWritesBack(id) ==
    /\ refreshTokens' =
          IF refreshTokenRequestIDs[id] = None THEN refreshTokens
          ELSE [refreshTokens EXCEPT ![refreshTokenRequestIDs[id]] =
                    [active |-> FALSE, req |-> authorizeCodes[id].req]]
    /\ UNCHANGED refreshTokenRequestIDs

\* A request ID the index does not have is not an error and changes nothing.
RevokeRefreshToken(id) ==
    /\ refreshTokens' =
          IF refreshTokenRequestIDs[id] = None \/ RevokeRefreshTokenFails(id)
          THEN refreshTokens
          ELSE [refreshTokens EXCEPT
                    ![refreshTokenRequestIDs[id]].active = FALSE]
    /\ UNCHANGED refreshTokenRequestIDs
=============================================================================
