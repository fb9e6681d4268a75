------------------------ MODULE ClientAuthentication ------------------------
(***************************************************************************)
(* Who calls (client_authentication.go): the client that the credentials   *)
(* of a request authenticate, or the error.  A client may be registered    *)
(* for OpenID Connect, which ties it to one method, or not, and then only  *)
(* its secrets count.  What makes a signed assertion acceptable is the     *)
(* matter of ClientAssertions; here it is signed by somebody and accepted. *)
(***************************************************************************)
EXTENDS ErrorValues, FiniteSets

CONSTANTS
    ClientIDs,    \* client IDs that may be registered
    Secrets,      \* client secrets; a hash has the name of its secret
    Scopes,       \* scope values, as the scope strategy takes them
    Anonymous,    \* the client of a request that was never authenticated
    None

Methods == {"client_secret_basic", "client_secret_post", "private_key_jwt",
            "none", "client_secret_jwt"}

GrantTypes == {"client_credentials", "password", "authorization_code",
               "urn:ietf:params:oauth:grant-type:jwt-bearer"}

\* DefaultOpenIDConnectClient, or a DefaultClient if it is not oidc.
Client == [id : ClientIDs, oidc : BOOLEAN, method : Methods, public : BOOLEAN,
           hash : Secrets, rotated : SUBSET Secrets,
           grantTypes : SUBSET GrantTypes, scopes : SUBSET Scopes]

\* The basic header, the client_id and the client_secret of the form, and who
\* signed the client_assertion; an empty value is an absent one.
Credentials == [basic : (ClientIDs \X (Secrets \union {None})) \union {None},
                id : ClientIDs \union {None}, secret : Secrets \union {None},
                assertion : ClientIDs \union {None}]

\* Without registered grant types there is one.
GetGrantTypes(c) ==
    IF c.grantTypes = {} THEN {"authorization_code"} ELSE c.grantTypes

\* A client or an error.
Accept(c) == <<"client", c>>
Refuse(err) == <<"error", err>>

-----------------------------------------------------------------------------

\* BCrypt.Compare of a secret, None for the empty one.
Compare(hash, secret) == hash = secret

\* The current secret, or one that was rotated out and is still listed.
checkClientSecret(c, secret) ==
    \E hash \in {c.hash} \union c.rotated : Compare(hash, secret)

\* The header if there is one, else the form.
PresentedID(cred) == IF cred.basic # None THEN cred.basic[1] ELSE cred.id
PresentedSecret(cred) == IF cred.basic # None THEN cred.basic[2] ELSE cred.secret

\* Mutant: the method of a form with a secret is not looked at.
MethodAllowedBasicOnly(c, cred) ==
    c.oidc =>
        /\ cred.basic # None /\ cred.basic[2] # None
           => c.method = "client_secret_basic"
        /\ c.public => c.method = "none"

\* The method that a request uses must be the one registered.
MethodAllowed(c, cred) ==
    c.oidc =>
        /\ cred.id # None /\ cred.secret # None => c.method = "client_secret_post"
        /\ cred.basic # None /\ cred.basic[2] # None
           => c.method = "client_secret_basic"
        /\ c.public => c.method = "none"

AuthenticateBySecret(clients, cred) ==
    LET id == PresentedID(cred) IN
    IF id = None THEN Refuse(<<"ErrInvalidRequest">>)
    ELSE IF clients[id] = None THEN Refuse(WithWrap("ErrInvalidClient", <<"ErrNotFound">>))
    ELSE IF ~MethodAllowed(clients[id], cred) THEN Refuse(<<"ErrInvalidClient">>)
    ELSE IF clients[id].public \/ checkClientSecret(clients[id], PresentedSecret(cred))
         THEN Accept(clients[id])
    ELSE Refuse(WithWrap("ErrInvalidClient", <<"errMismatchedHashAndPassword">>))

\* The key is looked up among those of the client that the form names, and iss
\* and sub must be that client.  Which of the refusals it is depends on the keys.
SignedBy(c, cred) == c.method = "private_key_jwt" /\ cred.assertion = c.id

\* The form need not name the client: then sub does.
AuthenticateByAssertion(clients, cred) ==
    LET id == IF cred.id # None THEN cred.id ELSE cred.assertion IN
    IF clients[id] = None THEN Refuse(WithWrap("ErrInvalidClient", <<"ErrNotFound">>))
    ELSE IF ~clients[id].oidc THEN Refuse(<<"ErrInvalidRequest">>)
    ELSE IF SignedBy(clients[id], cred) THEN Accept(clients[id])
    ELSE Refuse(<<"ErrInvalidClient">>)

\* DefaultClientAuthenticationStrategy: an assertion goes before a secret.
AuthenticateClient(clients, cred) ==
    IF cred.assertion # None THEN AuthenticateByAssertion(clients, cred)
    ELSE AuthenticateBySecret(clients, cred)
=============================================================================
