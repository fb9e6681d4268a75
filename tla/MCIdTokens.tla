----------------------------- MODULE MCIdTokens -----------------------------
(* One authorize request of every response type, with the parameters that  *)
(* the ID token depends on, exchanged and refreshed by three calls.        *)
EXTENDS IdTokens, TLC

CONSTANTS a1, k1, k2, k3, p1, p2

MCAuthReqs == {a1}
MCCalls == {k1, k2, k3}
MCKeyPairs == <<p1, p2>>

MCIDTokenLifespan ==
    [implicit |-> 1, authorization_code |-> 1, refresh_token |-> 0]

\* An ID token as id_token_hint: of which pair, of which subject, expired.
Hint(p, sub, exp) ==
    [header |-> Claim("alg", "RS256"), pair |-> p,
     claims |-> Over(StringClaim("sub", sub), TimeClaim("exp", exp))]

Plain == [types |-> {"code"}, nonce |-> "n1", maxAge |-> 0, prompt |-> <<>>,
          acrValues |-> FALSE, hint |-> None, public |-> FALSE, secureRedirect |-> TRUE,
          authTime |-> 0, rat |-> 1]

\* Every response type, and every nonce.
Types == {{"code"}, {"code", "id_token"}, {"code", "token"}, {"id_token"},
          {"code", "id_token", "token"}, {"id_token", "token"}}
MCForms ==
    {[Plain EXCEPT !.types = t] : t \in Types}
    \union {[Plain EXCEPT !.nonce = n] : n \in {"", "short"}}
    \union {[Plain EXCEPT !.types = {"id_token"}, !.nonce = n] : n \in {"", "short"}}
    \union {[Plain EXCEPT !.prompt = <<"login", "consent">>, !.authTime = t] : t \in 0..1}
    \union {[Plain EXCEPT !.types = {"id_token"}, !.prompt = p, !.authTime = t] :
        p \in {<<"none">>, <<"login">>}, t \in 0..2}
    \union {[Plain EXCEPT !.types = {"id_token"}, !.prompt = <<"none">>, !.authTime = 1,
                         !.public = TRUE, !.secureRedirect = secure] : secure \in BOOLEAN}
    \union {[Plain EXCEPT !.maxAge = 1, !.acrValues = TRUE, !.authTime = t, !.rat = r] :
        t \in 0..1, r \in {0, 2, 3}}
    \union {[Plain EXCEPT !.prompt = p] :
        p \in {<<"none", "login">>, <<"consent">>, <<"create">>}}
    \union {[Plain EXCEPT !.hint = h] :
        h \in {Hint(p1, "peter", 1), Hint(p1, "other", 9), Hint(p1, "", 9)}}

MCGrantedScopes == <<"openid", "read">>
MCGrantedAudience == <<"api">>

CallSymmetry == Permutations(MCCalls)
=============================================================================
