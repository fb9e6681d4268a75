-------------------------- MODULE MCTokenEndpoint --------------------------
(* Two clients that the operator registers in different ways, three calls  *)
(* of the two endpoints, and a composition that names two factories twice. *)
EXTENDS TokenEndpoint

CONSTANTS k1, k2, k3

MCCalls == {k1, k2, k3}
CallSymmetry == Permutations(MCCalls)

A == <<"a">>
AB == <<"a", "b">>
AAny == <<"a", "*">>
MCScopes == {A, AB, AAny}

MCConfigs == {[canSkipClientAuth |-> FALSE, idOptional |-> FALSE,
               scopeStrategy |-> "wildcard"],
              [canSkipClientAuth |-> TRUE, idOptional |-> TRUE,
               scopeStrategy |-> "hierarchic"]}

MCFactories == <<"OAuth2ClientCredentialsGrantFactory", "OAuth2PKCEFactory",
                 "OAuth2ResourceOwnerPasswordCredentialsFactory",
                 "OAuth2ClientCredentialsGrantFactory",
                 "RFC7523AssertionGrantFactory", "OAuth2TokenRevocationFactory",
                 "OAuth2TokenRevocationFactory", "OpenIDConnectExplicitFactory">>

\* A client that may do everything with its header, and whose secret rotates.
Basic == [id |-> "c1", oidc |-> TRUE, method |-> "client_secret_basic",
          public |-> FALSE, hash |-> "s1", rotated |-> {"s2"},
          grantTypes |-> {"client_credentials", "password", Jwt},
          scopes |-> {AAny}]
Plain == [Basic EXCEPT !.oidc = FALSE, !.hash = "s2", !.rotated = {},
                       !.grantTypes = {}, !.scopes = {A}]
Public == [Basic EXCEPT !.id = "c2", !.method = "none", !.public = TRUE,
                        !.grantTypes = {"client_credentials", "password"},
                        !.scopes = {A}]
Signing == [Basic EXCEPT !.id = "c2", !.method = "private_key_jwt"]
MCRegistrations == [c1 |-> {Basic, Plain}, c2 |-> {Public, Signing, None}]

NoCred == [basic |-> None, id |-> None, secret |-> None, assertion |-> None]
Header(id, secret) == [NoCred EXCEPT !.basic = <<id, secret>>]
Body(id, secret) == [NoCred EXCEPT !.id = id, !.secret = secret]
Signed(id, by) == [NoCred EXCEPT !.id = id, !.assertion = by]

TheForm(grant, cred, scopes, proof) ==
    [grants |-> <<grant>>, cred |-> cred, scopes |-> scopes, proof |-> proof]

PeterKnows == <<"peter", "pw">>

MCTokenForms ==
    {TheForm("client_credentials", cred, {AB}, NoProof) :
        cred \in {Header("c1", "s2"), Body("c1", "s2"), Signed("c2", "c1")}}
    \union {TheForm("client_credentials", Signed(None, "c2"), {A}, NoProof)}
    \union {TheForm("password", cred, {AB}, PeterKnows) :
        cred \in {Header("c1", "s1"), Body("c2", None)}}
    \union {TheForm(Jwt, cred, {AB}, <<"key", "j1">>) :
        cred \in {NoCred, Header("c1", "s2")}}
    \union {TheForm(Jwt, NoCred, {AB}, <<"key", None>>)}
    \union {[TheForm(Jwt, NoCred, {A}, <<"key", "j1">>)
                EXCEPT !.grants = <<Jwt, "password">>]}

MCRevokeCredentials == {Header("c1", "s2"), Body("c2", None)}

MCPasswords == [peter |-> "pw"]
MCKeyScopes == [key |-> {A, AAny}]
=============================================================================
