------------------------ MODULE MCAuthorizeEndpoint ------------------------
(***************************************************************************)
(* Instances of AuthorizeEndpoint for TLC: a public client with one        *)
(* redirect URI and a confidential one with two, of which one is insecure. *)
(* The forms are one of each kind that the checks and handlers tell apart. *)
(***************************************************************************)
EXTENDS AuthorizeEndpoint, TLC

CONSTANTS c1, c2, r1, r2, email, u1

MCClientScopes == c1 :> {openid} @@ c2 :> {openid, email}
MCRedirectURIs == c1 :> {r1} @@ c2 :> {r1, r2}
MCResponseTypes ==
    c1 :> {{"code"}, {"token"}, {"id_token"}, {"code", "token"}} @@ c2 :> SUBSET Parts
MCResponseModes == c1 :> {"query"} @@ c2 :> Modes
MCGrantTypes ==
    c1 :> {"authorization_code"} @@ c2 :> {"authorization_code", "implicit"}

Base == [client |-> c2, uri |-> None, response |-> {"code"}, mode |-> "",
         scopes |-> {openid}, redirect |-> r1, nonce |-> "long",
         challenge |-> None, method |-> None, fine |-> TRUE, object |-> None]

Public == [Base EXCEPT !.client = c1, !.challenge = "challenge", !.method = "S256"]

Object == [valid |-> TRUE, client |-> None, scopes |-> None, redirect |-> None]

\* Forms that are accepted.
Good ==
    {[Base EXCEPT !.response = ps] : ps \in SUBSET Parts \ {{}}}
    \union
    {Public,
     [Public EXCEPT !.redirect = None, !.scopes = {}, !.method = "plain"],
     [Public EXCEPT !.response = {"code", "token"}],
     [Public EXCEPT !.response = {"token"}],
     [Public EXCEPT !.challenge = None],
     [Base EXCEPT !.response = {"token", "code"}, !.mode = "query"],
     [Base EXCEPT !.response = {"id_token", "code"}, !.nonce = "short"],
     [Base EXCEPT !.redirect = r2, !.scopes = {email}],
     [Base EXCEPT !.object = [Object EXCEPT !.client = c2, !.scopes = {email},
                                            !.redirect = r2]],
     [Base EXCEPT !.object = [Object EXCEPT !.redirect = r1], !.redirect = r2]}

\* Forms that are refused at once.
Bad ==
    {[Base EXCEPT !.object = [Object EXCEPT !.client = c1]],
     [Base EXCEPT !.object = [Object EXCEPT !.redirect = r2], !.redirect = None],
     [Base EXCEPT !.mode = "unknown"],
     [Base EXCEPT !.redirect = None],
     [Public EXCEPT !.redirect = r2],
     [Public EXCEPT !.scopes = {openid, email}],
     [Base EXCEPT !.fine = FALSE]}

\* What a browser may bring along with a request_uri.
Presenting ==
    {[f EXCEPT !.uri = u1, !.redirect = r] :
        f \in {Base, Public}, r \in {None, r1, r2}}

MCForms == Good \union Bad \union Presenting
MCPushedForms ==
    {Public, [Public EXCEPT !.redirect = None, !.scopes = {}, !.challenge = None, !.method = None],
     [Base EXCEPT !.response = Parts, !.mode = "form_post"],
     [Base EXCEPT !.redirect = r2, !.scopes = {email}]}

\* For the finding: pushed requests alone.
MCPresented == Presenting

Symmetry == Permutations(Calls)
=============================================================================
