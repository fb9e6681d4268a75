---------------------------- MODULE Composition ----------------------------
(***************************************************************************)
(* Which handlers an instance runs, and in which order (compose/*.go,      *)
(* fosite.go).  A handler is named by the factory that makes it: no two of *)
(* them make the same type.                                                *)
(***************************************************************************)
EXTENDS Integers, Sequences, TLC

\* The handler interfaces that the type a factory returns implements.
OAuth2Interfaces == [
    OAuth2AuthorizeExplicitFactory                |-> {"authorize", "token"},
    OAuth2AuthorizeImplicitFactory                |-> {"authorize"},
    OAuth2ClientCredentialsGrantFactory           |-> {"token"},
    OAuth2RefreshTokenGrantFactory                |-> {"token"},
    OAuth2ResourceOwnerPasswordCredentialsFactory |-> {"token"},
    OAuth2TokenIntrospectionFactory               |-> {"introspect"},
    OAuth2StatelessJWTIntrospectionFactory        |-> {"introspect"},
    OAuth2TokenRevocationFactory                  |-> {"revoke"} ]

OpenIDInterfaces == [
    OpenIDConnectExplicitFactory |-> {"authorize", "token"},
    OpenIDConnectImplicitFactory |-> {"authorize"},
    OpenIDConnectHybridFactory   |-> {"authorize"},
    OpenIDConnectRefreshFactory  |-> {"token"},
    OpenIDConnectDeviceFactory   |-> {"device", "token"} ]

DeviceInterfaces == [
    RFC8628DeviceFactory                   |-> {"device"},
    RFC8628DeviceAuthorizationTokenFactory |-> {"token"} ]

OtherInterfaces == [
    RFC7523AssertionGrantFactory           |-> {"token"},
    OAuth2PKCEFactory                      |-> {"authorize", "token"},
    PushedAuthorizeHandlerFactory          |-> {"pushed"},
    OIDCUserinfoVerifiableCredentialFactory |-> {"token"} ]

Interfaces ==
    OAuth2Interfaces @@ OpenIDInterfaces @@ DeviceInterfaces @@ OtherInterfaces

\* Mutant: duplicates are kept.
AppendsDuplicates(factories, i) == TRUE

\* The handler of the i-th factory is added to its list: a second handler of a
\* type is ignored.
Appends(factories, i) == \A j \in 1 .. i - 1 : factories[j] # factories[i]

\* One list of the configuration, say "token": the places of its handlers
\* among the factories, whose order is that of the list.
Compose(kind, factories) ==
    {i \in DOMAIN factories :
        kind \in Interfaces[factories[i]] /\ Appends(factories, i)}

ComposeAllEnabled == <<
    "OAuth2AuthorizeExplicitFactory", "OAuth2AuthorizeImplicitFactory",
    "OAuth2ClientCredentialsGrantFactory", "OAuth2RefreshTokenGrantFactory",
    "OAuth2ResourceOwnerPasswordCredentialsFactory",
    "RFC7523AssertionGrantFactory", "RFC8628DeviceFactory",
    "RFC8628DeviceAuthorizationTokenFactory", "OpenIDConnectExplicitFactory",
    "OpenIDConnectImplicitFactory", "OpenIDConnectHybridFactory",
    "OpenIDConnectRefreshFactory", "OpenIDConnectDeviceFactory",
    "OAuth2TokenIntrospectionFactory", "OAuth2TokenRevocationFactory",
    "OAuth2PKCEFactory", "PushedAuthorizeHandlerFactory" >>
=============================================================================
