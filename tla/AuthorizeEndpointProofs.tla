----------------------- MODULE AuthorizeEndpointProofs ----------------------
(***************************************************************************)
(* Proofs about AuthorizeEndpoint.  The calls meet in the table of pushed  *)
(* requests only, so the inductive invariant has a part about that table   *)
(* and its calls (TableOK, LinkOK), and one that follows a single call     *)
(* through the handlers (WorkOK): what each kind of response has issued    *)
(* and stored when a handler is reached.                                   *)
(***************************************************************************)
EXTENDS AuthorizeEndpoint, TLAPS

\* What is stored under a request_uri is what was pushed, and it was validated.
TableOK ==
    \A u \in RequestURIs :
        /\ parSessions[u] # None => parSessions[u] = pushed[u]
        /\ pushed[u] # None =>
              /\ pushed[u].redirect \in RedirectURIs[pushed[u].client]
              /\ pushed[u].form.redirect \in {None, pushed[u].redirect}
              /\ pushed[u].response # {}

\* A call of a pushed request works on that request, merged with its form; once
\* it has left par_delete the session is gone.
LinkOK(k) ==
    /\ stage[k] = "idle" => req[k] = None /\ outcome[k] = None
    /\ stage[k] # "idle" => asked[k] \in Forms
    /\ stage[k] \in {"par_delete", "consent"} \union Handlers =>
          req[k] # None /\ outcome[k] = None
    /\ stage[k] = "par_delete" => asked[k].uri # None
    /\ req[k] # None =>
          /\ req[k].redirect \in RedirectURIs[req[k].client]
          /\ req[k].response # {}
          /\ asked[k].uri = None => req[k].form.redirect \in {None, req[k].redirect}
          /\ asked[k].uri # None =>
                /\ pushed[asked[k].uri] # None
                /\ req[k] = Merge(asked[k], pushed[asked[k].uri])
                /\ stage[k] = "par_delete" \/ parSessions[asked[k].uri] = None
    /\ stage[k] \in {"consent"} \union Handlers \/ Answered(k) =>
          /\ enforce => asked[k].uri # None
          /\ asked[k].uri # None => asked[k].client = pushed[asked[k].uri].client

\* What a call has in its response, and with it in the store, when handler s is
\* reached: nothing until the handler for its response types was there.
Issued(k, s) ==
    LET response == req[k].response IN
    IF response = {"code"} THEN IF s = "explicit" THEN {} ELSE {"code"}
    ELSE IF response = {"token"} THEN IF s \in {"explicit", "implicit"} THEN {} ELSE {"token"}
    ELSE IF "code" \notin response
         THEN IF s \in {"hybrid", "pkce", "finish"} /\ OpenIDGranted(k) THEN response ELSE {}
    ELSE IF s \in {"pkce", "finish"}
         THEN {p \in response : p = "id_token" => OpenIDGranted(k)} ELSE {}

HasIDSession(k, s) ==
    /\ "code" \in req[k].response /\ OpenIDGranted(k)
    /\ IF req[k].response = {"code"}
       THEN s \in {"oidc_implicit", "hybrid", "pkce", "finish"}
       ELSE s \in {"pkce", "finish"}

WorkOK(k, s) ==
    /\ granted[k] \subseteq req[k].scopes
    /\ resp[k].params = Issued(k, s)
    /\ resp[k].handled = Issued(k, s) \union
          (IF "code" \in Issued(k, s) /\ req[k].response # {"code"} THEN {"id_token"} ELSE {})
    /\ resp[k].params # {} /\ resp[k].params # {"code"} => resp[k].default = "fragment"
    /\ codes[k] # None <=> "code" \in Issued(k, s)
    /\ codes[k] # None => codes[k].redirect = req[k].form.redirect
    /\ accessTokens[k] # None <=> "token" \in Issued(k, s)
    /\ k \in idSessions <=> HasIDSession(k, s)
    /\ IF s = "finish" /\ "code" \in req[k].response
       THEN /\ Validate(req[k].form, req[k].client)
            /\ pkceSessions[k] =
                  IF req[k].form.challenge = None /\ req[k].form.method = None THEN None
                  ELSE [challenge |-> req[k].form.challenge, method |-> req[k].form.method]
       ELSE pkceSessions[k] = None

Fresh(k) ==
    /\ codes[k] = None /\ accessTokens[k] = None /\ pkceSessions[k] = None
    /\ k \notin idSessions

CallOK(k) ==
    /\ stage[k] \in {"idle", "par_delete", "consent"} => Fresh(k)
    /\ stage[k] \in Handlers => WorkOK(k, stage[k])
    /\ outcome[k] # None =>
          /\ stage[k] = "done"
          /\ outcome[k].error => outcome[k].params = {} /\ outcome[k].mode = None
          /\ outcome[k].redirect # None =>
                outcome[k].redirect \in
                    RedirectURIs[IF req[k] = None THEN asked[k].client ELSE req[k].client]
          /\ ~outcome[k].error =>
                /\ req[k] # None
                /\ WorkOK(k, "finish")
                /\ req[k].response \subseteq resp[k].handled
                /\ ~(resp[k].default = "fragment" /\ req[k].mode = "query")
                /\ outcome[k] = [error |-> FALSE, params |-> resp[k].params,
                                 mode |-> req[k].mode, redirect |-> req[k].redirect]

IInv ==
    /\ AuthorizeTypeOK
    /\ TableOK
    /\ \A k \in Calls : LinkOK(k) /\ CallOK(k)
    /\ PushedUsedOnce

-----------------------------------------------------------------------------
(* Forms and requests.                                                     *)

\* MatchRedirectURIWithClientRedirectURIs finds registered URIs only, and a URI
\* that was given is what it finds.
LEMMA MatchRegistered ==
    ASSUME NEW c \in Clients, NEW raw \in {None} \union Redirects, Match(c, raw) # None
    PROVE  /\ Match(c, raw) \in Redirects /\ Match(c, raw) \in RedirectURIs[c]
           /\ raw \in {None, Match(c, raw)}
<1>1. CASE raw # None
  BY <1>1, AuthorizeAssumption DEF Match
<1>2. CASE raw = None
  <2>1. PICK r \in Redirects : RedirectURIs[c] = {r}
    BY <1>2 DEF Match
  <2>2. Match(c, raw) = CHOOSE s \in Redirects : RedirectURIs[c] = {s}
    BY <1>2, <2>1 DEF Match
  <2> QED  BY <1>2, <2>1, <2>2
<1> QED  BY <1>1, <1>2

LEMMA EffectiveForm ==
    ASSUME NEW f \in Form
    PROVE  /\ Effective(f) \in Form
           /\ Effective(f).client = f.client /\ Effective(f).response = f.response
           /\ Effective(f).mode = f.mode /\ Effective(f).uri = f.uri
<1>1. CASE ~HasObject(f)
  BY <1>1 DEF Effective
<1>2. CASE HasObject(f)
  <2>1. f.object \in Objects
    BY <1>2 DEF HasObject, Form
  <2>2. /\ f.object.scopes \in {None} \union SUBSET Scopes
        /\ f.object.redirect \in {None} \union Redirects
    BY <2>1 DEF Objects
  <2>3. Effective(f) = [f EXCEPT
            !.scopes = IF f.object.scopes = None THEN f.scopes ELSE f.object.scopes,
            !.redirect = IF f.object.redirect = None THEN f.redirect ELSE f.object.redirect]
    BY <1>2 DEF Effective
  <2> QED  BY <2>2, <2>3 DEF Form
<1> QED  BY <1>1, <1>2

\* What newAuthorizeRequest makes of an accepted form.
LEMMA RequestMade ==
    ASSUME NEW f \in Form, Accepted(f)
    PROVE  LET r == NewRequest(f) IN
           /\ r \in Request
           /\ r.redirect \in RedirectURIs[r.client] /\ r.response # {}
           /\ r.form.redirect \in {None, r.redirect}
<1> DEFINE g == Effective(f)
<1>1. /\ g \in Form /\ g.client = f.client /\ g.response = f.response /\ g.mode = f.mode
  BY EffectiveForm
<1>2. /\ f.client \in Clients /\ g.redirect \in {None} \union Redirects
      /\ f.response \in SUBSET Parts /\ f.mode \in Modes \union {"", "unknown"}
      /\ g.scopes \in SUBSET Scopes
  BY <1>1 DEF Form
<1>3. Match(f.client, g.redirect) # None /\ f.mode # "unknown" /\ f.response # {}
  BY <1>1 DEF Accepted, RedirectAccepted, ParametersAccepted
<1>4. RequestedScopes(g) \in SUBSET Scopes
  BY <1>2 DEF RequestedScopes
<1>5. /\ Match(f.client, g.redirect) \in Redirects
      /\ Match(f.client, g.redirect) \in RedirectURIs[f.client]
      /\ g.redirect \in {None, Match(f.client, g.redirect)}
  BY <1>2, <1>3, MatchRegistered
<1>6. DefaultMode(f.response) \in {"query", "fragment"}
  BY DEF DefaultMode
<1> DEFINE r == NewRequest(f)
<1>7. /\ r.client = f.client /\ r.response = f.response /\ r.scopes = RequestedScopes(g)
      /\ r.redirect = Match(f.client, g.redirect) /\ r.form = g
  BY DEF NewRequest
<1>8. /\ r.mode = IF f.mode = "" THEN DefaultMode(f.response) ELSE f.mode
      /\ r.default = IF f.mode = "" THEN DefaultMode(f.response) ELSE ""
  BY DEF NewRequest
<1>9. r = [client |-> r.client, response |-> r.response, mode |-> r.mode,
           default |-> r.default, scopes |-> r.scopes, redirect |-> r.redirect,
           form |-> r.form]
  BY DEF NewRequest
<1> HIDE DEF g, r
<1>10. r.mode \in Modes /\ r.default \in Defaults
  BY <1>2, <1>3, <1>6, <1>8 DEF Modes, Defaults
<1>11. r \in Request
  BY <1>1, <1>2, <1>4, <1>5, <1>7, <1>9, <1>10 DEF Request
<1>12. /\ r.redirect \in RedirectURIs[r.client] /\ r.response # {}
       /\ r.form.redirect \in {None, r.redirect}
  BY <1>3, <1>5, <1>7
<1> QED  BY <1>11, <1>12 DEF r

\* The error of a form goes to a registered redirect URI or nowhere.
LEMMA ErrorsRegistered ==
    ASSUME NEW f \in Form, ErrorRedirect(f) # None
    PROVE  ErrorRedirect(f) \in Redirects /\ ErrorRedirect(f) \in RedirectURIs[f.client]
<1>1. /\ f.client \in Clients /\ f.redirect \in {None} \union Redirects
      /\ Effective(f).redirect \in {None} \union Redirects
  BY EffectiveForm DEF Form
<1>2. \/ ErrorRedirect(f) = Match(f.client, f.redirect)
      \/ ErrorRedirect(f) = Match(f.client, Effective(f).redirect)
  BY DEF ErrorRedirect
<1> QED  BY <1>1, <1>2, MatchRegistered

\* A pushed request keeps all but the optional parameters of its form.
LEMMA MergedRequest ==
    ASSUME NEW b \in Form, NEW p \in Request
    PROVE  /\ Merge(b, p) \in Request
           /\ Merge(b, p).client = p.client /\ Merge(b, p).response = p.response
           /\ Merge(b, p).mode = p.mode /\ Merge(b, p).redirect = p.redirect
           /\ Merge(b, p).scopes = p.scopes
           /\ Merge(b, p).form.redirect = Or(p.form.redirect, b.redirect)
<1>1. p.form \in Form
  BY DEF Request
<1> DEFINE n == Or(p.form.nonce, b.nonce)
           c == Or(p.form.challenge, b.challenge)
           h == Or(p.form.method, b.method)
           r == Or(p.form.redirect, b.redirect)
           m1 == [p.form EXCEPT !.uri = b.uri]
           m2 == [m1 EXCEPT !.redirect = r]
           m3 == [m2 EXCEPT !.nonce = n]
           m4 == [m3 EXCEPT !.challenge = c]
           m5 == [m4 EXCEPT !.method = h]
<1>2. /\ r \in {None} \union Redirects /\ n \in Nonces
      /\ c \in Challenges /\ h \in Methods
  BY <1>1 DEF Form, Or
<1>3. MergeForm(b, p.form) \in Form /\ MergeForm(b, p.form).redirect = r
  <2>1. MergeForm(b, p.form) = m5
    BY DEF MergeForm
  <2> HIDE DEF r, n, c, h
  <2>2. m1 \in Form
    BY <1>1 DEF Form
  <2> HIDE DEF m1
  <2>3. m2 \in Form /\ m2.redirect = r
    BY <2>2, <1>2 DEF Form
  <2> HIDE DEF m2
  <2>4. m3 \in Form /\ m3.redirect = m2.redirect
    BY <2>3, <1>2 DEF Form
  <2> HIDE DEF m3
  <2>5. m4 \in Form /\ m4.redirect = m3.redirect
    BY <2>4, <1>2 DEF Form
  <2> HIDE DEF m4
  <2>6. m5 \in Form /\ m5.redirect = m4.redirect
    BY <2>5, <1>2 DEF Form
  <2> HIDE DEF m5
  <2> QED  BY <2>1, <2>3, <2>4, <2>5, <2>6
<1>4. /\ Merge(b, p) \in Request
      /\ Merge(b, p).form = MergeForm(b, p.form)
  BY <1>3 DEF Request, Merge, Defaults
<1>5. /\ Merge(b, p).client = p.client /\ Merge(b, p).response = p.response
      /\ Merge(b, p).mode = p.mode /\ Merge(b, p).redirect = p.redirect
      /\ Merge(b, p).scopes = p.scopes
  BY DEF Request, Merge
<1> QED  BY <1>3, <1>4, <1>5

-----------------------------------------------------------------------------
(* Steps.                                                                  *)

LEMMA InitInv == Init => IInv
<1> SUFFICES ASSUME Init PROVE IInv
  OBVIOUS
<1>1. AuthorizeTypeOK
  <2>1. NoResponse \in Response
    BY DEF NoResponse, Response, Defaults
  <2>2. enforce \in BOOLEAN
    BY DEF Init
  <2> QED  BY <2>1, <2>2 DEF Init, AuthorizeTypeOK, Stages
<1>2. TableOK /\ PushedUsedOnce
  BY DEF Init, TableOK, PushedUsedOnce, Presented
<1>3. \A k \in Calls : LinkOK(k) /\ CallOK(k)
  BY DEF Init, LinkOK, CallOK, Fresh, Handlers, Answered
<1> QED  BY <1>1, <1>2, <1>3 DEF IInv

\* A call that a step leaves alone stays as it should be; the table may get new
\* requests and lose old ones.
LEMMA Frame ==
    ASSUME NEW j \in Calls, LinkOK(j), CallOK(j),
           enforce' = enforce, stage'[j] = stage[j], asked'[j] = asked[j],
           req'[j] = req[j], granted'[j] = granted[j], resp'[j] = resp[j],
           outcome'[j] = outcome[j], codes'[j] = codes[j],
           accessTokens'[j] = accessTokens[j], pkceSessions'[j] = pkceSessions[j],
           j \in idSessions' <=> j \in idSessions,
           req[j] # None /\ asked[j].uri # None =>
               /\ pushed'[asked[j].uri] = pushed[asked[j].uri]
               /\ parSessions[asked[j].uri] = None => parSessions'[asked[j].uri] = None
    PROVE  LinkOK(j)' /\ CallOK(j)'
<1>1. LinkOK(j)'
  <2>1. /\ stage'[j] = "idle" => req'[j] = None /\ outcome'[j] = None
        /\ stage'[j] # "idle" => asked'[j] \in Forms
        /\ stage'[j] \in {"par_delete", "consent"} \union Handlers =>
              req'[j] # None /\ outcome'[j] = None
        /\ stage'[j] = "par_delete" => asked'[j].uri # None
        /\ Answered(j)' <=> Answered(j)
    BY DEF LinkOK, Answered
  <2>2. ASSUME req'[j] # None
        PROVE  /\ req'[j].redirect \in RedirectURIs[req'[j].client]
               /\ req'[j].response # {}
               /\ asked'[j].uri = None => req'[j].form.redirect \in {None, req'[j].redirect}
               /\ asked'[j].uri # None =>
                    /\ pushed'[asked'[j].uri] # None
                    /\ req'[j] = Merge(asked'[j], pushed'[asked'[j].uri])
                    /\ stage'[j] = "par_delete" \/ parSessions'[asked'[j].uri] = None
    BY <2>2 DEF LinkOK
  <2>3. ASSUME stage'[j] \in {"consent"} \union Handlers \/ Answered(j)'
        PROVE  /\ enforce' => asked'[j].uri # None
               /\ asked'[j].uri # None => asked'[j].client = pushed'[asked'[j].uri].client
    <3>1. stage[j] \in {"consent"} \union Handlers \/ Answered(j)
      BY <2>1, <2>3
    <3>2. req[j] # None
      BY <3>1 DEF LinkOK, CallOK, Answered
    <3> QED  BY <3>1, <3>2 DEF LinkOK
  <2> QED  BY <2>1, <2>2, <2>3 DEF LinkOK
<1>2. \A s : WorkOK(j, s) => WorkOK(j, s)'
  BY DEF WorkOK, Issued, HasIDSession, OpenIDGranted
<1>3. CallOK(j)'
  <2>1. stage[j] \in {"idle", "par_delete", "consent"} => Fresh(j)'
    BY DEF CallOK, Fresh
  <2>2. stage[j] \in Handlers => WorkOK(j, stage[j])'
    BY <1>2 DEF CallOK
  <2>3. outcome[j] # None /\ ~outcome[j].error => WorkOK(j, "finish")'
    BY <1>2 DEF CallOK
  <2> QED  BY <2>1, <2>2, <2>3 DEF CallOK
<1> QED  BY <1>1, <1>3

LEMMA PushInv ==
    ASSUME IInv, NEW u \in RequestURIs, NEW f \in PushedForms, Push(u, f)
    PROVE  IInv'
<1> DEFINE r == NewRequest(f)
<1>1. f \in Form /\ Accepted(f) /\ pushed[u] = None
  BY AuthorizeAssumption DEF Push
<1>2. /\ r \in Request
      /\ r.redirect \in RedirectURIs[r.client] /\ r.response # {}
      /\ r.form.redirect \in {None, r.redirect}
  BY <1>1, RequestMade
<1>3. /\ parSessions' = [parSessions EXCEPT ![u] = r]
      /\ pushed' = [pushed EXCEPT ![u] = r]
      /\ UNCHANGED <<enforce, stage, asked, req, granted, resp, outcome, codes,
                     accessTokens, idSessions, pkceSessions, raced>>
  BY DEF Push, answers, stores
<1> HIDE DEF r
<1>4. AuthorizeTypeOK'
  BY <1>2, <1>3 DEF IInv, AuthorizeTypeOK
<1>5. TableOK'
  BY <1>2, <1>3 DEF IInv, AuthorizeTypeOK, TableOK
<1>6. ASSUME NEW j \in Calls
      PROVE  LinkOK(j)' /\ CallOK(j)'
  <2>1. LinkOK(j) /\ CallOK(j)
    BY DEF IInv
  <2>2. ASSUME req[j] # None, asked[j].uri # None
        PROVE  /\ pushed'[asked[j].uri] = pushed[asked[j].uri]
               /\ parSessions[asked[j].uri] = None => parSessions'[asked[j].uri] = None
    <3>1. pushed[asked[j].uri] # None
      BY <2>1, <2>2 DEF LinkOK
    <3>2. asked[j].uri # u
      BY <3>1, <1>1
    <3> QED  BY <3>2, <1>3
  <2> QED  BY <2>1, <2>2, <1>3, Frame
<1>7. PushedUsedOnce'
  BY <1>3 DEF IInv, PushedUsedOnce, Presented
<1> QED  BY <1>4, <1>5, <1>6, <1>7 DEF IInv

LEMMA DirectInv ==
    ASSUME IInv, NEW k \in Calls, NEW f \in Forms, Direct(k, f)
    PROVE  IInv'
<1>1. /\ f \in Form /\ f.uri = None /\ stage[k] = "idle"
      /\ asked' = [asked EXCEPT ![k] = f]
      /\ UNCHANGED <<enforce, parSessions, granted, resp, codes, accessTokens,
                     idSessions, pkceSessions, pushed, raced>>
  BY AuthorizeAssumption DEF Direct, stores, history
<1>2. LinkOK(k) /\ CallOK(k) /\ req[k] = None /\ outcome[k] = None /\ Fresh(k)
  BY <1>1 DEF IInv, LinkOK, CallOK
<1>3. TableOK'
  BY <1>1 DEF IInv, TableOK
<1>4. ASSUME NEW d \in {None} \union Redirects, Refuse(k, d), req' = req,
             d # None => d \in RedirectURIs[f.client]
      PROVE  IInv'
  <2> DEFINE o == [error |-> TRUE, params |-> {}, mode |-> None, redirect |-> d]
  <2>1. /\ outcome' = [outcome EXCEPT ![k] = o]
        /\ stage' = [stage EXCEPT ![k] = "done"]
    BY <1>4 DEF Refuse, Goto
  <2>2. /\ o \in Outcome
        /\ o.error = TRUE /\ o.params = {} /\ o.mode = None /\ o.redirect = d
    BY DEF Outcome
  <2>3. o # None
    BY <2>2, AuthorizeAssumption
  <2> HIDE DEF o
  <2>4. AuthorizeTypeOK'
    BY <1>1, <1>4, <2>1, <2>2 DEF IInv, AuthorizeTypeOK, Stages
  <2>5. LinkOK(k)' /\ CallOK(k)'
    BY <1>1, <1>2, <1>4, <2>1, <2>2, <2>3, <2>4
    DEF LinkOK, CallOK, Answered, Handlers, IInv, AuthorizeTypeOK
  <2>6. ASSUME NEW j \in Calls, j # k
        PROVE  LinkOK(j)' /\ CallOK(j)'
    BY <1>1, <1>4, <2>1, <2>6, Frame DEF IInv, AuthorizeTypeOK
  <2>7. PushedUsedOnce'
    BY <1>1, <1>2, <1>4 DEF IInv, AuthorizeTypeOK, PushedUsedOnce, Presented
  <2> QED  BY <1>3, <2>4, <2>5, <2>6, <2>7 DEF IInv
<1>5. ASSUME enforce, Refuse(k, None), req' = req
      PROVE  IInv'
  BY <1>4, <1>5
<1>6. ASSUME ~Accepted(f), Refuse(k, ErrorRedirect(f)), req' = req
      PROVE  IInv'
  BY <1>1, <1>4, <1>6, ErrorsRegistered
<1>7. ASSUME ~enforce, Accepted(f), req' = [req EXCEPT ![k] = NewRequest(f)],
             Goto(k, "consent"), outcome' = outcome
      PROVE  IInv'
  <2> DEFINE r == NewRequest(f)
  <2>1. /\ r \in Request
        /\ r.redirect \in RedirectURIs[r.client] /\ r.response # {}
        /\ r.form.redirect \in {None, r.redirect}
    BY <1>1, <1>7, RequestMade
  <2>2. req' = [req EXCEPT ![k] = r] /\ stage' = [stage EXCEPT ![k] = "consent"]
    BY <1>7 DEF Goto
  <2>3. r # None
    BY <2>1, AuthorizeAssumption
  <2> HIDE DEF r
  <2>4. AuthorizeTypeOK'
    BY <1>1, <1>7, <2>1, <2>2 DEF IInv, AuthorizeTypeOK, Stages
  <2>5. LinkOK(k)' /\ CallOK(k)'
    BY <1>1, <1>2, <1>7, <2>1, <2>2, <2>3, <2>4
    DEF LinkOK, CallOK, Answered, Handlers, Fresh, IInv, AuthorizeTypeOK
  <2>6. ASSUME NEW j \in Calls, j # k
        PROVE  LinkOK(j)' /\ CallOK(j)'
    BY <1>1, <1>7, <2>2, <2>6, Frame DEF IInv, AuthorizeTypeOK
  <2>7. PushedUsedOnce'
    BY <1>1, <2>2, AuthorizeAssumption DEF IInv, AuthorizeTypeOK, PushedUsedOnce, Presented
  <2> QED  BY <1>3, <2>4, <2>5, <2>6, <2>7 DEF IInv
<1> QED  BY <1>5, <1>6, <1>7 DEF Direct

LEMMA GetPARInv ==
    ASSUME IInv, NEW k \in Calls, NEW f \in Forms, GetPAR(k, f)
    PROVE  IInv'
<1> DEFINE u == f.uri
           p == parSessions[u]
           others == {j \in Calls : stage[j] = "par_delete" /\ asked[j].uri = u}
<1>1. /\ f \in Form /\ u \in RequestURIs /\ stage[k] = "idle"
      /\ asked' = [asked EXCEPT ![k] = f]
      /\ UNCHANGED <<enforce, parSessions, granted, resp, codes, accessTokens,
                     idSessions, pkceSessions, pushed>>
  BY AuthorizeAssumption DEF GetPAR, stores, Form
<1>2. LinkOK(k) /\ CallOK(k) /\ req[k] = None /\ outcome[k] = None /\ Fresh(k)
  BY <1>1 DEF IInv, LinkOK, CallOK
<1>3. TableOK'
  BY <1>1 DEF IInv, TableOK
<1>4. ASSUME p = None, Refuse(k, None), req' = req, raced' = raced
      PROVE  IInv'
  <2> DEFINE o == [error |-> TRUE, params |-> {}, mode |-> None, redirect |-> None]
  <2>1. /\ outcome' = [outcome EXCEPT ![k] = o]
        /\ stage' = [stage EXCEPT ![k] = "done"]
    BY <1>4 DEF Refuse, Goto
  <2>2. /\ o \in Outcome
        /\ o.error = TRUE /\ o.params = {} /\ o.mode = None /\ o.redirect = None
    BY DEF Outcome
  <2>3. o # None
    BY <2>2, AuthorizeAssumption
  <2> HIDE DEF o
  <2>4. AuthorizeTypeOK'
    BY <1>1, <1>4, <2>1, <2>2 DEF IInv, AuthorizeTypeOK, Stages
  <2>5. LinkOK(k)' /\ CallOK(k)'
    BY <1>1, <1>2, <1>4, <2>1, <2>2, <2>3, <2>4
    DEF LinkOK, CallOK, Answered, Handlers, IInv, AuthorizeTypeOK
  <2>6. ASSUME NEW j \in Calls, j # k
        PROVE  LinkOK(j)' /\ CallOK(j)'
    BY <1>1, <1>4, <2>1, <2>6, Frame DEF IInv, AuthorizeTypeOK
  <2>7. PushedUsedOnce'
    BY <1>1, <1>2, <1>4 DEF IInv, AuthorizeTypeOK, PushedUsedOnce, Presented
  <2> QED  BY <1>3, <2>4, <2>5, <2>6, <2>7 DEF IInv
<1>5. ASSUME p # None, req' = [req EXCEPT ![k] = Merge(f, p)],
             raced' = raced \union ({k} \X others) \union (others \X {k}),
             Goto(k, "par_delete"), outcome' = outcome
      PROVE  IInv'
  <2> DEFINE r == Merge(f, p)
  <2>1. /\ p \in Request /\ p = pushed[u]
        /\ p.redirect \in RedirectURIs[p.client] /\ p.response # {}
    BY <1>1, <1>5 DEF IInv, AuthorizeTypeOK, TableOK
  <2>2. /\ r \in Request
        /\ r.redirect \in RedirectURIs[r.client] /\ r.response # {}
    BY <1>1, <2>1, MergedRequest
  <2>3. r # None
    BY <2>2, AuthorizeAssumption
  <2>4. req' = [req EXCEPT ![k] = r] /\ stage' = [stage EXCEPT ![k] = "par_delete"]
    BY <1>5 DEF Goto
  <2>5. r = Merge(f, pushed[u]) /\ u # None
    BY <1>1, <2>1, AuthorizeAssumption
  <2> HIDE DEF r
  <2>6. AuthorizeTypeOK'
    <3>1. raced' \in SUBSET (Calls \X Calls)
      BY <1>5 DEF IInv, AuthorizeTypeOK
    <3> QED  BY <1>1, <1>5, <2>2, <2>4, <3>1 DEF IInv, AuthorizeTypeOK, Stages
  <2>7. LinkOK(k)' /\ CallOK(k)'
    <3>1. LinkOK(k)'
      BY <1>1, <1>2, <1>5, <2>1, <2>2, <2>3, <2>4, <2>5, <2>6
      DEF LinkOK, Answered, Handlers, IInv, AuthorizeTypeOK
    <3>2. CallOK(k)'
      BY <1>1, <1>2, <1>5, <2>4, <2>6 DEF CallOK, Handlers, Fresh, IInv, AuthorizeTypeOK
    <3> QED  BY <3>1, <3>2
  <2>8. ASSUME NEW j \in Calls, j # k
        PROVE  LinkOK(j)' /\ CallOK(j)'
    BY <1>1, <1>5, <2>4, <2>8, Frame DEF IInv, AuthorizeTypeOK
  <2>9. PushedUsedOnce'
    <3>1. ASSUME NEW j \in Calls, j # k, Presented(j, u)
          PROVE  j \in others
      <4>1. LinkOK(j) /\ parSessions[u] # None
        BY <1>5 DEF IInv
      <4>2. asked[j].uri = u /\ req[j] # None /\ u # None
        BY <3>1, <2>5 DEF Presented
      <4> QED  BY <4>1, <4>2 DEF LinkOK
    <3>2. ASSUME NEW v \in RequestURIs, NEW j \in Calls, j # k
          PROVE  Presented(j, v)' <=> Presented(j, v)
      BY <1>1, <2>4, <3>2 DEF IInv, AuthorizeTypeOK, Presented
    <3>3. ASSUME NEW v \in RequestURIs, Presented(k, v)'
          PROVE  v = u
      BY <1>1, <3>3 DEF IInv, AuthorizeTypeOK, Presented
    <3>4. SUFFICES ASSUME NEW v \in RequestURIs, NEW i \in Calls, NEW j \in Calls,
                          Presented(i, v)', Presented(j, v)', i # j
                   PROVE  <<i, j>> \in raced'
      BY DEF PushedUsedOnce
    <3>5. CASE i # k /\ j # k
      <4>1. Presented(i, v) /\ Presented(j, v)
        BY <3>2, <3>4, <3>5
      <4>2. <<i, j>> \in raced
        BY <3>4, <4>1 DEF IInv, PushedUsedOnce
      <4> QED  BY <1>5, <4>2
    <3>6. CASE i = k
      <4>1. v = u /\ Presented(j, u)
        BY <3>2, <3>3, <3>4, <3>6
      <4>2. j \in others
        BY <3>1, <3>4, <3>6, <4>1
      <4> HIDE DEF others
      <4> QED  BY <1>5, <3>6, <4>2
    <3>7. CASE j = k
      <4>1. v = u /\ Presented(i, u)
        BY <3>2, <3>3, <3>4, <3>7
      <4>2. i \in others
        BY <3>1, <3>4, <3>7, <4>1
      <4> HIDE DEF others
      <4> QED  BY <1>5, <3>7, <4>2
    <3> QED  BY <3>5, <3>6, <3>7
  <2> QED  BY <1>3, <2>6, <2>7, <2>8, <2>9 DEF IInv
<1> QED  BY <1>4, <1>5 DEF GetPAR

\* DeletePARSession: whether or not the call goes on, the request is gone.
LEMMA DeletePARInv ==
    ASSUME IInv, NEW k \in Calls, DeletePAR(k)
    PROVE  IInv'
<1> DEFINE u == asked[k].uri
<1>1. /\ stage[k] = "par_delete"
      /\ parSessions' = [parSessions EXCEPT ![u] = None]
      /\ UNCHANGED <<enforce, asked, req, granted, resp, codes, accessTokens,
                     idSessions, pkceSessions, pushed, raced>>
  BY DEF DeletePAR, stores, history
<1>2. LinkOK(k) /\ CallOK(k) /\ req[k] # None /\ outcome[k] = None /\ Fresh(k)
  BY <1>1 DEF IInv, LinkOK, CallOK
<1>3. /\ asked[k] \in Form /\ u \in RequestURIs /\ u # None /\ req[k] \in Request
      /\ req[k].redirect \in Redirects
      /\ req[k].redirect \in RedirectURIs[req[k].client]
  <2>1. asked[k] \in Form /\ u # None /\ req[k].redirect \in RedirectURIs[req[k].client]
    BY <1>1, <1>2, AuthorizeAssumption DEF LinkOK
  <2>2. req[k] \in Request
    BY <1>2 DEF IInv, AuthorizeTypeOK
  <2>3. u \in RequestURIs
    BY <2>1 DEF Form
  <2>4. req[k].redirect \in Redirects
    BY <2>2 DEF Request
  <2> QED  BY <2>1, <2>2, <2>3, <2>4
<1>4. parSessions'[u] = None /\ TableOK'
  BY <1>1, <1>3 DEF IInv, AuthorizeTypeOK, TableOK
<1>5. PushedUsedOnce'
  BY <1>1 DEF IInv, PushedUsedOnce, Presented
<1>6. ASSUME asked[k].client # req[k].client, Refuse(k, req[k].redirect)
      PROVE  IInv'
  <2> DEFINE o == [error |-> TRUE, params |-> {}, mode |-> None, redirect |-> req[k].redirect]
  <2>1. /\ outcome' = [outcome EXCEPT ![k] = o]
        /\ stage' = [stage EXCEPT ![k] = "done"]
    BY <1>6 DEF Refuse, Goto
  <2>2. /\ o \in Outcome
        /\ o.error = TRUE /\ o.params = {} /\ o.mode = None /\ o.redirect = req[k].redirect
    BY <1>3 DEF Outcome
  <2>3. o # None
    BY <2>2, AuthorizeAssumption
  <2> HIDE DEF o
  <2>4. AuthorizeTypeOK'
    BY <1>1, <1>6, <2>1, <2>2 DEF IInv, AuthorizeTypeOK, Stages
  <2>5. LinkOK(k)' /\ CallOK(k)'
    BY <1>1, <1>2, <1>3, <1>4, <2>1, <2>2, <2>3, <2>4
    DEF LinkOK, CallOK, Answered, Handlers, IInv, AuthorizeTypeOK
  <2>6. ASSUME NEW j \in Calls, j # k
        PROVE  LinkOK(j)' /\ CallOK(j)'
    BY <1>1, <2>1, <2>6, Frame DEF IInv, AuthorizeTypeOK
  <2> QED  BY <1>4, <1>5, <2>4, <2>5, <2>6 DEF IInv
<1>7. ASSUME asked[k].client = req[k].client, Goto(k, "consent"), outcome' = outcome
      PROVE  IInv'
  <2>1. stage' = [stage EXCEPT ![k] = "consent"]
    BY <1>7 DEF Goto
  <2>2. asked[k].client = pushed[u].client
    <3>1. pushed[u] \in Request /\ req[k] = Merge(asked[k], pushed[u])
      BY <1>2, <1>3 DEF LinkOK, IInv, AuthorizeTypeOK
    <3> QED  BY <1>3, <1>7, <3>1, MergedRequest
  <2>3. AuthorizeTypeOK'
    BY <1>1, <1>7, <2>1 DEF IInv, AuthorizeTypeOK, Stages
  <2>4. LinkOK(k)' /\ CallOK(k)'
    BY <1>1, <1>2, <1>3, <1>4, <1>7, <2>1, <2>2, <2>3
    DEF LinkOK, CallOK, Answered, Handlers, Fresh, IInv, AuthorizeTypeOK
  <2>5. ASSUME NEW j \in Calls, j # k
        PROVE  LinkOK(j)' /\ CallOK(j)'
    BY <1>1, <1>7, <2>1, <2>5, Frame DEF IInv, AuthorizeTypeOK
  <2> QED  BY <1>4, <1>5, <2>3, <2>4, <2>5 DEF IInv
<1> QED  BY <1>6, <1>7 DEF DeletePAR

-----------------------------------------------------------------------------
(* The handlers: each works for one call, on what is that call's.          *)

\* A step of call k keeps the types and leaves the tables of other calls alone.
Local(k) ==
    /\ UNCHANGED <<enforce, parSessions, asked, req, pushed, raced>>
    /\ granted' \in [Calls -> SUBSET Scopes]
    /\ resp' \in [Calls -> Response]
    /\ codes' \in [Calls -> {None} \union Code]
    /\ accessTokens' \in [Calls -> {None} \union Token]
    /\ idSessions' \in SUBSET Calls
    /\ pkceSessions' \in [Calls -> {None} \union Proof]
    /\ \A j \in Calls : j # k =>
          /\ granted'[j] = granted[j] /\ resp'[j] = resp[j] /\ codes'[j] = codes[j]
          /\ accessTokens'[j] = accessTokens[j] /\ pkceSessions'[j] = pkceSessions[j]
          /\ j \in idSessions' <=> j \in idSessions

\* A handler that is reached finds a request and no outcome.
LEMMA AtWork ==
    ASSUME IInv, NEW k \in Calls, stage[k] \in {"consent"} \union Handlers
    PROVE  /\ LinkOK(k) /\ CallOK(k) /\ outcome[k] = None
           /\ req[k] # None /\ req[k] \in Request /\ req[k].form \in Form
           /\ req[k].client \in Clients /\ req[k].scopes \in SUBSET Scopes
           /\ req[k].response \in SUBSET Parts /\ req[k].response # {}
           /\ req[k].redirect \in Redirects
           /\ req[k].redirect \in RedirectURIs[req[k].client]
           /\ req[k].form.redirect \in {None} \union Redirects
           /\ granted[k] \in SUBSET Scopes /\ resp[k] \in Response
<1>1. LinkOK(k) /\ CallOK(k) /\ outcome[k] = None /\ req[k] # None
  BY DEF IInv, LinkOK
<1>2. req[k] \in Request /\ granted[k] \in SUBSET Scopes /\ resp[k] \in Response
  BY <1>1 DEF IInv, AuthorizeTypeOK
<1>3. /\ req[k].form \in Form
      /\ req[k].client \in Clients /\ req[k].scopes \in SUBSET Scopes
      /\ req[k].response \in SUBSET Parts /\ req[k].redirect \in Redirects
  BY <1>2 DEF Request
<1>4. req[k].form.redirect \in {None} \union Redirects
  BY <1>3 DEF Form
<1> QED  BY <1>1, <1>2, <1>3, <1>4 DEF LinkOK

\* A call that fails is done, whatever it leaves in the tables.
LEMMA Failing ==
    ASSUME IInv, NEW k \in Calls, stage[k] \in {"consent"} \union Handlers, Local(k),
           Refuse(k, req[k].redirect)
    PROVE  IInv'
<1> DEFINE o == [error |-> TRUE, params |-> {}, mode |-> None, redirect |-> req[k].redirect]
<1>1. /\ LinkOK(k) /\ CallOK(k) /\ req[k] # None /\ req[k].redirect \in Redirects
      /\ req[k].redirect \in RedirectURIs[req[k].client]
  BY AtWork
<1>2. /\ outcome' = [outcome EXCEPT ![k] = o]
      /\ stage' = [stage EXCEPT ![k] = "done"]
  BY DEF Refuse, Goto
<1>3. /\ o \in Outcome
      /\ o.error = TRUE /\ o.params = {} /\ o.mode = None /\ o.redirect = req[k].redirect
  BY <1>1 DEF Outcome
<1>4. o # None
  BY <1>3, AuthorizeAssumption
<1> HIDE DEF o
<1>5. AuthorizeTypeOK'
  BY <1>2, <1>3 DEF Local, IInv, AuthorizeTypeOK, Stages
<1>6. stage[k] \notin {"idle", "par_delete", "done"}
  BY DEF Handlers
<1>7. LinkOK(k)' /\ CallOK(k)'
  BY <1>1, <1>2, <1>3, <1>4, <1>5, <1>6
  DEF Local, LinkOK, CallOK, Answered, Handlers, IInv, AuthorizeTypeOK
<1>8. ASSUME NEW j \in Calls, j # k
      PROVE  LinkOK(j)' /\ CallOK(j)'
  BY <1>2, <1>8, Frame DEF Local, IInv, AuthorizeTypeOK
<1>9. TableOK' /\ PushedUsedOnce'
  BY DEF Local, IInv, TableOK, PushedUsedOnce, Presented
<1> QED  BY <1>5, <1>7, <1>8, <1>9 DEF IInv

\* A call that goes on has done the work that the next handler takes for done.
LEMMA Passing ==
    ASSUME IInv, NEW k \in Calls, stage[k] \in {"consent"} \union Handlers, Local(k),
           NEW next \in Handlers, Goto(k, next), outcome' = outcome, WorkOK(k, next)'
    PROVE  IInv'
<1>1. LinkOK(k) /\ CallOK(k) /\ req[k] # None /\ outcome[k] = None
  BY AtWork
<1>2. stage' = [stage EXCEPT ![k] = next] /\ next \in Stages
  BY DEF Goto, Stages
<1>3. AuthorizeTypeOK'
  BY <1>2 DEF Local, IInv, AuthorizeTypeOK
<1>4. stage[k] \notin {"idle", "par_delete", "done"}
      /\ next \notin {"idle", "par_delete", "consent", "done"}
  BY DEF Handlers
<1>5. LinkOK(k)'
  BY <1>1, <1>2, <1>3, <1>4 DEF Local, LinkOK, Answered, IInv, AuthorizeTypeOK
<1>6. CallOK(k)'
  BY <1>1, <1>2, <1>4 DEF CallOK, IInv, AuthorizeTypeOK
<1>7. ASSUME NEW j \in Calls, j # k
      PROVE  LinkOK(j)' /\ CallOK(j)'
  BY <1>2, <1>7, Frame DEF Local, IInv, AuthorizeTypeOK
<1>8. TableOK' /\ PushedUsedOnce'
  BY DEF Local, IInv, TableOK, PushedUsedOnce, Presented
<1> QED  BY <1>3, <1>5, <1>6, <1>7, <1>8 DEF IInv

\* The user denies the request, or the work begins with nothing issued.
LEMMA ConsentInv ==
    ASSUME IInv, NEW k \in Calls, Consent(k)
    PROVE  IInv'
<1>1. /\ stage[k] = "consent"
      /\ UNCHANGED <<enforce, parSessions, asked, req, codes, accessTokens,
                     idSessions, pkceSessions, pushed, raced>>
  BY DEF Consent, stores, history
<1>2. ASSUME Refuse(k, req[k].redirect), UNCHANGED <<granted, resp>>
      PROVE  IInv'
  <2>1. Local(k)
    BY <1>1, <1>2 DEF Local, IInv, AuthorizeTypeOK
  <2> QED  BY <1>1, <1>2, <2>1, Failing
<1>3. ASSUME NEW g \in SUBSET req[k].scopes, granted' = [granted EXCEPT ![k] = g],
             resp' = [resp EXCEPT ![k] = [NoResponse EXCEPT !.default = req[k].default]],
             Goto(k, "explicit"), outcome' = outcome
      PROVE  IInv'
  <2> DEFINE n == [NoResponse EXCEPT !.default = req[k].default]
  <2>1. /\ req[k] \in Request /\ req[k].scopes \in SUBSET Scopes /\ CallOK(k)
        /\ req[k].response \in SUBSET Parts /\ req[k].response # {}
    BY <1>1, AtWork
  <2>2. /\ n \in Response /\ n.params = {} /\ n.handled = {}
        /\ resp' = [resp EXCEPT ![k] = n]
    BY <1>3, <2>1 DEF NoResponse, Response, Request
  <2> HIDE DEF n
  <2>3. Local(k)
    BY <1>1, <1>3, <2>1, <2>2 DEF Local, IInv, AuthorizeTypeOK
  <2>4. resp'[k] = n /\ granted'[k] = g /\ req'[k] = req[k]
    BY <1>1, <1>3, <2>2 DEF IInv, AuthorizeTypeOK
  <2>5. Issued(k, "explicit")' = {} /\ ~HasIDSession(k, "explicit")'
    BY <2>1, <2>4 DEF Issued, HasIDSession
  <2>6. Fresh(k)
    BY <1>1, <2>1 DEF CallOK
  <2>7. WorkOK(k, "explicit")'
    BY <1>1, <1>3, <2>2, <2>4, <2>5, <2>6 DEF WorkOK, Fresh
  <2>8. "explicit" \in Handlers
    BY DEF Handlers
  <2> QED  BY <1>1, <1>3, <2>3, <2>7, <2>8, Passing
<1> QED  BY <1>2, <1>3 DEF Consent

\* A handler that the request is none of the business of.
LEMMA Skipping ==
    ASSUME IInv, NEW k \in Calls, stage[k] \in Handlers, UNCHANGED Unread,
           NEW next \in Handlers, Skip(k, next),
           Issued(k, next) = Issued(k, stage[k]),
           HasIDSession(k, next) <=> HasIDSession(k, stage[k]),
           stage[k] # "finish",
           next = "finish" => "code" \notin req[k].response
    PROVE  IInv'
<1>1. /\ UNCHANGED <<enforce, parSessions, asked, req, granted, resp, outcome, codes,
                     accessTokens, idSessions, pkceSessions, pushed, raced>>
      /\ Goto(k, next)
  BY DEF Unread, Skip, stores, history
<1>2. Local(k)
  BY <1>1 DEF Local, IInv, AuthorizeTypeOK
<1>3. WorkOK(k, stage[k])
  BY AtWork DEF CallOK
<1>4. WorkOK(k, next)
  BY <1>3 DEF WorkOK
<1>5. WorkOK(k, next)'
  BY <1>1, <1>4 DEF WorkOK, Issued, HasIDSession, OpenIDGranted
<1> QED  BY <1>1, <1>2, <1>5, Passing

\* A handler that fails and has stored nothing.
LEMMA FailingClean ==
    ASSUME IInv, NEW k \in Calls, stage[k] \in Handlers, UNCHANGED Unread,
           Fail(k), UNCHANGED stores
    PROVE  IInv'
<1>1. /\ UNCHANGED <<enforce, parSessions, asked, req, granted, resp, codes,
                     accessTokens, idSessions, pkceSessions, pushed, raced>>
      /\ Refuse(k, req[k].redirect)
  BY DEF Unread, Fail, stores, history
<1>2. Local(k)
  BY <1>1 DEF Local, IInv, AuthorizeTypeOK
<1> QED  BY <1>1, <1>2, Failing

\* What the first handler does is the work of the ones after it undone.
LEMMA ExplicitInv ==
    ASSUME IInv, NEW k \in Calls, Explicit(k)
    PROVE  IInv'
<1> DEFINE fits == req[k].response = {"code"}
           allowed == req[k].redirect \in SecureRedirects /\ ScopesAllowed(k)
           n == [params |-> resp[k].params \union {"code"},
                 handled |-> resp[k].handled \union {"code"}, default |-> "query"]
           c == [client |-> req[k].client, scopes |-> granted[k],
                 redirect |-> req[k].form.redirect]
<1>1. stage[k] = "explicit" /\ UNCHANGED Unread
  BY DEF Explicit
<1>2. /\ stage[k] \in Handlers /\ "implicit" \in Handlers
  BY <1>1 DEF Handlers
<1>3. /\ WorkOK(k, "explicit") /\ resp[k] \in Response
      /\ c \in Code /\ c.redirect = req[k].form.redirect
  BY <1>1, <1>2, AtWork DEF CallOK, Code
<1>4. c # None
  BY <1>3, AuthorizeAssumption
<1>5. ASSUME ~fits, Skip(k, "implicit")
      PROVE  IInv'
  <2>1. /\ Issued(k, "implicit") = Issued(k, "explicit")
        /\ HasIDSession(k, "implicit") <=> HasIDSession(k, "explicit")
    BY <1>5 DEF Issued, HasIDSession
  <2> QED  BY <1>1, <1>2, <1>5, <2>1, Skipping
<1>6. ASSUME Fail(k), UNCHANGED stores
      PROVE  IInv'
  BY <1>1, <1>2, <1>6, FailingClean
<1>7. ASSUME fits, StoreCode(k), Pass(k, "implicit", {"code"}, {"code"}, "query"),
             UNCHANGED <<accessTokens, idSessions, pkceSessions>>
      PROVE  IInv'
  <2>1. /\ UNCHANGED <<enforce, parSessions, asked, req, granted, outcome,
                       accessTokens, idSessions, pkceSessions, pushed, raced>>
        /\ Goto(k, "implicit")
    BY <1>1, <1>7 DEF Unread, Pass, history
  <2>2. /\ codes' = [codes EXCEPT ![k] = c]
        /\ resp' = [resp EXCEPT ![k] = n]
    BY <1>7 DEF StoreCode, Pass
  <2>3. /\ n \in Response /\ n.params = resp[k].params \union {"code"}
        /\ n.handled = resp[k].handled \union {"code"}
    BY <1>3 DEF Response, Parts, Defaults
  <2> HIDE DEF n, c
  <2>4. Local(k)
    BY <1>3, <2>1, <2>2, <2>3 DEF Local, IInv, AuthorizeTypeOK
  <2>5. codes'[k] = c /\ resp'[k] = n /\ req'[k] = req[k] /\ granted'[k] = granted[k]
    BY <2>1, <2>2 DEF IInv, AuthorizeTypeOK
  <2>6. /\ Issued(k, "explicit") = {} /\ Issued(k, "implicit")' = {"code"}
        /\ ~HasIDSession(k, "explicit") /\ ~HasIDSession(k, "implicit")'
    BY <1>7, <2>5 DEF Issued, HasIDSession
  <2>7. WorkOK(k, "implicit")'
    <3>1. /\ granted[k] \subseteq req[k].scopes
          /\ n.params = {"code"} /\ n.handled = {"code"}
          /\ accessTokens[k] = None /\ pkceSessions[k] = None /\ k \notin idSessions
      BY <1>3, <2>3, <2>6 DEF WorkOK
    <3>2. /\ codes'[k] # None /\ codes'[k].redirect = req'[k].form.redirect
          /\ req'[k].response = {"code"}
      BY <1>3, <1>4, <1>7, <2>5
    <3> QED  BY <2>1, <2>5, <2>6, <3>1, <3>2 DEF WorkOK
  <2> QED  BY <1>2, <2>1, <2>4, <2>7, Passing
<1> QED  BY <1>1, <1>5, <1>6, <1>7 DEF Explicit

\* An access token for the response type token alone.
LEMMA ImplicitInv ==
    ASSUME IInv, NEW k \in Calls, Implicit(k)
    PROVE  IInv'
<1> DEFINE fits == req[k].response = {"token"}
           n == [params |-> resp[k].params \union {"token"},
                 handled |-> resp[k].handled \union {"token"}, default |-> "fragment"]
           t == [client |-> req[k].client, scopes |-> granted[k]]
<1>1. stage[k] = "implicit" /\ UNCHANGED Unread
  BY DEF Implicit
<1>2. stage[k] \in Handlers /\ "oidc_explicit" \in Handlers
  BY <1>1 DEF Handlers
<1>3. WorkOK(k, "implicit") /\ resp[k] \in Response /\ t \in Token
  BY <1>1, <1>2, AtWork DEF CallOK, Token
<1>4. t # None
  BY <1>3, AuthorizeAssumption
<1>5. ASSUME ~fits, Skip(k, "oidc_explicit")
      PROVE  IInv'
  <2>1. /\ Issued(k, "oidc_explicit") = Issued(k, "implicit")
        /\ HasIDSession(k, "oidc_explicit") <=> HasIDSession(k, "implicit")
    BY <1>5 DEF Issued, HasIDSession
  <2> QED  BY <1>1, <1>2, <1>5, <2>1, Skipping
<1>6. ASSUME Fail(k), UNCHANGED stores
      PROVE  IInv'
  BY <1>1, <1>2, <1>6, FailingClean
<1>7. ASSUME fits, StoreToken(k), Pass(k, "oidc_explicit", {"token"}, {"token"}, "fragment"),
             UNCHANGED <<codes, idSessions, pkceSessions>>
      PROVE  IInv'
  <2>1. /\ UNCHANGED <<enforce, parSessions, asked, req, granted, outcome,
                       codes, idSessions, pkceSessions, pushed, raced>>
        /\ Goto(k, "oidc_explicit")
    BY <1>1, <1>7 DEF Unread, Pass, history
  <2>2. /\ accessTokens' = [accessTokens EXCEPT ![k] = t]
        /\ resp' = [resp EXCEPT ![k] = n]
    BY <1>7 DEF StoreToken, Pass
  <2>3. /\ n \in Response /\ n.params = resp[k].params \union {"token"}
        /\ n.handled = resp[k].handled \union {"token"} /\ n.default = "fragment"
    BY <1>3 DEF Response, Parts, Defaults
  <2> HIDE DEF n, t
  <2>4. Local(k)
    BY <1>3, <2>1, <2>2, <2>3 DEF Local, IInv, AuthorizeTypeOK
  <2>5. /\ accessTokens'[k] = t /\ resp'[k] = n /\ req'[k] = req[k]
        /\ granted'[k] = granted[k]
    BY <2>1, <2>2 DEF IInv, AuthorizeTypeOK
  <2>6. /\ Issued(k, "implicit") = {} /\ Issued(k, "oidc_explicit")' = {"token"}
        /\ ~HasIDSession(k, "implicit") /\ ~HasIDSession(k, "oidc_explicit")'
    BY <1>7, <2>5 DEF Issued, HasIDSession
  <2>7. WorkOK(k, "oidc_explicit")'
    <3>1. /\ granted[k] \subseteq req[k].scopes
          /\ n.params = {"token"} /\ n.handled = {"token"}
          /\ codes[k] = None /\ pkceSessions[k] = None /\ k \notin idSessions
      BY <1>3, <2>3, <2>6 DEF WorkOK
    <3> QED  BY <1>4, <2>1, <2>3, <2>5, <2>6, <3>1 DEF WorkOK
  <2> QED  BY <1>2, <2>1, <2>4, <2>7, Passing
<1> QED  BY <1>1, <1>5, <1>6, <1>7 DEF Implicit

\* A session for a code that is already there.
LEMMA OIDCExplicitInv ==
    ASSUME IInv, NEW k \in Calls, OIDCExplicit(k)
    PROVE  IInv'
<1> DEFINE fits == OpenIDGranted(k) /\ req[k].response = {"code"}
           n == [params |-> resp[k].params \union {},
                 handled |-> resp[k].handled \union {}, default |-> resp[k].default]
<1>1. stage[k] = "oidc_explicit" /\ UNCHANGED Unread
  BY DEF OIDCExplicit
<1>2. stage[k] \in Handlers /\ "oidc_implicit" \in Handlers
  BY <1>1 DEF Handlers
<1>3. WorkOK(k, "oidc_explicit") /\ resp[k] \in Response
  BY <1>1, <1>2, AtWork DEF CallOK
<1>4. ASSUME ~fits, Skip(k, "oidc_implicit")
      PROVE  IInv'
  <2>1. /\ Issued(k, "oidc_implicit") = Issued(k, "oidc_explicit")
        /\ HasIDSession(k, "oidc_implicit") <=> HasIDSession(k, "oidc_explicit")
    BY <1>4 DEF Issued, HasIDSession
  <2> QED  BY <1>1, <1>2, <1>4, <2>1, Skipping
<1>5. ASSUME Fail(k), UNCHANGED stores
      PROVE  IInv'
  BY <1>1, <1>2, <1>5, FailingClean
<1>6. ASSUME fits, idSessions' = idSessions \union {k},
             Pass(k, "oidc_implicit", {}, {}, resp[k].default),
             UNCHANGED <<codes, accessTokens, pkceSessions>>
      PROVE  IInv'
  <2>1. /\ UNCHANGED <<enforce, parSessions, asked, req, granted, outcome,
                       codes, accessTokens, pkceSessions, pushed, raced>>
        /\ Goto(k, "oidc_implicit")
    BY <1>1, <1>6 DEF Unread, Pass, history
  <2>2. resp' = [resp EXCEPT ![k] = n]
    BY <1>6 DEF Pass
  <2>3. /\ n \in Response /\ n.params = resp[k].params
        /\ n.handled = resp[k].handled /\ n.default = resp[k].default
    BY <1>3 DEF Response
  <2> HIDE DEF n
  <2>4. Local(k)
    BY <1>6, <2>1, <2>2, <2>3 DEF Local, IInv, AuthorizeTypeOK
  <2>5. /\ resp'[k] = n /\ req'[k] = req[k] /\ granted'[k] = granted[k]
        /\ k \in idSessions'
    BY <1>6, <2>1, <2>2 DEF IInv, AuthorizeTypeOK
  <2>6. /\ Issued(k, "oidc_explicit") = {"code"} /\ Issued(k, "oidc_implicit")' = {"code"}
        /\ HasIDSession(k, "oidc_implicit")'
    BY <1>6, <2>5 DEF Issued, HasIDSession, OpenIDGranted
  <2>7. WorkOK(k, "oidc_implicit")'
    BY <1>3, <2>1, <2>3, <2>5, <2>6 DEF WorkOK
  <2> QED  BY <1>2, <2>1, <2>4, <2>7, Passing
<1> QED  BY <1>1, <1>4, <1>5, <1>6 DEF OIDCExplicit

\* An ID token, with an access token that is stored before the ID token is made.
LEMMA OIDCImplicitInv ==
    ASSUME IInv, NEW k \in Calls, OIDCImplicit(k)
    PROVE  IInv'
<1> DEFINE response == req[k].response
           fits == OpenIDGranted(k) /\ "id_token" \in response /\ "code" \notin response
           n == [params |-> resp[k].params \union response,
                 handled |-> resp[k].handled \union response, default |-> "fragment"]
           t == [client |-> req[k].client, scopes |-> granted[k]]
<1>1. stage[k] = "oidc_implicit" /\ UNCHANGED Unread
  BY DEF OIDCImplicit
<1>2. stage[k] \in Handlers /\ "hybrid" \in Handlers
  BY <1>1 DEF Handlers
<1>3. /\ WorkOK(k, "oidc_implicit") /\ resp[k] \in Response /\ t \in Token
      /\ response \in SUBSET Parts /\ response # {}
  BY <1>1, <1>2, AtWork DEF CallOK, Token
<1>4. t # None
  BY <1>3, AuthorizeAssumption
<1>5. ASSUME ~fits, Skip(k, "hybrid")
      PROVE  IInv'
  <2>1. response # {"code"} /\ response # {"token"} /\ "code" \notin response
        => "id_token" \in response
    BY <1>3 DEF Parts
  <2>2. /\ Issued(k, "hybrid") = Issued(k, "oidc_implicit")
        /\ HasIDSession(k, "hybrid") <=> HasIDSession(k, "oidc_implicit")
    BY <1>5, <2>1 DEF Issued, HasIDSession
  <2> QED  BY <1>1, <1>2, <1>5, <2>2, Skipping
<1>6. ASSUME Fail(k), UNCHANGED stores
      PROVE  IInv'
  BY <1>1, <1>2, <1>6, FailingClean
<1>7. ASSUME fits, IF "token" \in response THEN StoreToken(k) ELSE UNCHANGED accessTokens,
             Fail(k) \/ Pass(k, "hybrid", response, response, "fragment"),
             UNCHANGED <<codes, idSessions, pkceSessions>>
      PROVE  IInv'
  <2>1. /\ UNCHANGED <<enforce, parSessions, asked, req, granted,
                       codes, idSessions, pkceSessions, pushed, raced>>
        /\ accessTokens' = IF "token" \in response THEN [accessTokens EXCEPT ![k] = t]
                           ELSE accessTokens
    BY <1>1, <1>7 DEF Unread, history, StoreToken
  <2>2. /\ n \in Response /\ n.params = resp[k].params \union response
        /\ n.handled = resp[k].handled \union response /\ n.default = "fragment"
    BY <1>3 DEF Response, Defaults
  <2>3. CASE Fail(k)
    <3>1. Local(k)
      BY <1>3, <2>1, <2>3 DEF Fail, Local, IInv, AuthorizeTypeOK
    <3> QED  BY <1>2, <2>3, <3>1, Failing DEF Fail
  <2>4. CASE Pass(k, "hybrid", response, response, "fragment")
    <3>1. resp' = [resp EXCEPT ![k] = n] /\ outcome' = outcome /\ Goto(k, "hybrid")
      BY <2>4 DEF Pass
    <3> HIDE DEF n, t
    <3>2. Local(k)
      BY <1>3, <2>1, <2>2, <3>1 DEF Local, IInv, AuthorizeTypeOK
    <3>3. /\ resp'[k] = n /\ req'[k] = req[k] /\ granted'[k] = granted[k]
          /\ accessTokens'[k] = IF "token" \in response THEN t ELSE accessTokens[k]
      BY <2>1, <3>1 DEF IInv, AuthorizeTypeOK
    <3>4. /\ Issued(k, "oidc_implicit") = {} /\ Issued(k, "hybrid")' = response
          /\ ~HasIDSession(k, "oidc_implicit") /\ ~HasIDSession(k, "hybrid")'
      BY <1>7, <3>3 DEF Issued, HasIDSession, OpenIDGranted
    <3>5. WorkOK(k, "hybrid")'
      <4>1. /\ granted[k] \subseteq req[k].scopes
            /\ n.params = response /\ n.handled = response /\ accessTokens[k] = None
            /\ codes[k] = None /\ pkceSessions[k] = None /\ k \notin idSessions
        BY <1>3, <2>2, <3>4 DEF WorkOK
      <4> QED  BY <1>4, <1>7, <2>1, <2>2, <3>3, <3>4, <4>1 DEF WorkOK
    <3> QED  BY <1>2, <3>1, <3>2, <3>5, Passing
  <2> QED  BY <1>7, <2>3, <2>4
<1> QED  BY <1>1, <1>5, <1>6, <1>7 DEF OIDCImplicit

\* A code with other things: the one handler that stores all there is to store.
LEMMA HybridInv ==
    ASSUME IInv, NEW k \in Calls, Hybrid(k)
    PROVE  IInv'
<1> DEFINE response == req[k].response
           fits == "code" \in response /\ response # {"code"}
           token == "token" \in response
           stored == token /\ MayUse(k, "implicit")
           idToken == "id_token" \in response /\ OpenIDGranted(k)
           issued == {"code"} \union (response \intersect {"token"})
                     \union (IF idToken THEN {"id_token"} ELSE {})
           n == [params |-> resp[k].params \union issued,
                 handled |-> resp[k].handled \union (issued \union {"id_token"}),
                 default |-> "fragment"]
           c == [client |-> req[k].client, scopes |-> granted[k],
                 redirect |-> req[k].form.redirect]
           t == [client |-> req[k].client, scopes |-> granted[k]]
<1>1. stage[k] = "hybrid" /\ UNCHANGED Unread
  BY DEF Hybrid
<1>2. stage[k] \in Handlers /\ "pkce" \in Handlers
  BY <1>1 DEF Handlers
<1>3. /\ WorkOK(k, "hybrid") /\ resp[k] \in Response /\ t \in Token
      /\ c \in Code /\ c.redirect = req[k].form.redirect
      /\ response \in SUBSET Parts /\ response # {}
  BY <1>1, <1>2, AtWork DEF CallOK, Token, Code
<1>4. t # None /\ c # None
  BY <1>3, AuthorizeAssumption
<1>5. ASSUME ~fits, Skip(k, "pkce")
      PROVE  IInv'
  <2>1. /\ Issued(k, "pkce") = Issued(k, "hybrid")
        /\ HasIDSession(k, "pkce") <=> HasIDSession(k, "hybrid")
    BY <1>5 DEF Issued, HasIDSession
  <2> QED  BY <1>1, <1>2, <1>5, <2>1, Skipping
<1>6. ASSUME Fail(k), UNCHANGED stores
      PROVE  IInv'
  BY <1>1, <1>2, <1>6, FailingClean
<1>7. ASSUME fits, StoreCode(k), idSessions' = HybridSessions(k),
             IF stored THEN StoreToken(k) ELSE UNCHANGED accessTokens,
             \/ Fail(k)
             \/ /\ token => MayUse(k, "implicit")
                /\ Pass(k, "pkce", issued, issued \union {"id_token"}, "fragment"),
             UNCHANGED pkceSessions
      PROVE  IInv'
  <2>1. /\ UNCHANGED <<enforce, parSessions, asked, req, granted, pkceSessions,
                       pushed, raced>>
        /\ codes' = [codes EXCEPT ![k] = c]
        /\ idSessions' = IF OpenIDGranted(k) THEN idSessions \union {k} ELSE idSessions
        /\ accessTokens' = IF stored THEN [accessTokens EXCEPT ![k] = t] ELSE accessTokens
    BY <1>1, <1>7 DEF Unread, history, StoreToken, StoreCode, HybridSessions
  <2>2. issued \in SUBSET Parts /\ "id_token" \in Parts
    BY <1>3 DEF Parts
  <2>3. /\ n \in Response /\ n.params = resp[k].params \union issued
        /\ n.handled = resp[k].handled \union issued \union {"id_token"}
        /\ n.default = "fragment"
    BY <1>3, <2>2 DEF Response, Defaults
  <2>4. CASE Fail(k)
    <3> HIDE DEF n, c, t
    <3>1. Local(k)
      BY <1>3, <2>1, <2>4 DEF Fail, Local, IInv, AuthorizeTypeOK
    <3> QED  BY <1>2, <2>4, <3>1, Failing DEF Fail
  <2>5. ASSUME token => MayUse(k, "implicit"),
               Pass(k, "pkce", issued, issued \union {"id_token"}, "fragment")
        PROVE  IInv'
    <3>1. resp' = [resp EXCEPT ![k] = n] /\ outcome' = outcome /\ Goto(k, "pkce")
      BY <2>5 DEF Pass
    <3>2. /\ "token" \in issued <=> stored
          /\ "code" \in issued
          /\ issued = {p \in response : p = "id_token" => OpenIDGranted(k)}
      BY <1>3, <1>7, <2>5 DEF Parts
    <3> HIDE DEF n, t, c, issued, stored
    <3>3. Local(k)
      BY <1>3, <2>1, <2>3, <3>1 DEF Local, IInv, AuthorizeTypeOK
    <3>4. /\ resp'[k] = n /\ req'[k] = req[k] /\ granted'[k] = granted[k]
          /\ codes'[k] = c /\ accessTokens'[k] = IF stored THEN t ELSE accessTokens[k]
      BY <2>1, <3>1 DEF IInv, AuthorizeTypeOK
    <3>5. /\ Issued(k, "hybrid") = {} /\ Issued(k, "pkce")' = issued
          /\ ~HasIDSession(k, "hybrid")
          /\ HasIDSession(k, "pkce")' <=> OpenIDGranted(k)
      BY <1>7, <3>2, <3>4 DEF Issued, HasIDSession, OpenIDGranted
    <3>6. WorkOK(k, "pkce")'
      <4>1. /\ granted[k] \subseteq req[k].scopes
            /\ n.params = issued /\ n.handled = issued \union {"id_token"}
            /\ accessTokens[k] = None /\ pkceSessions[k] = None /\ k \notin idSessions
        BY <1>3, <2>3, <3>5 DEF WorkOK
      <4>2. k \in idSessions' <=> HasIDSession(k, "pkce")'
        BY <2>1, <3>5, <4>1
      <4>3. /\ codes'[k] # None /\ codes'[k].redirect = req'[k].form.redirect
            /\ accessTokens'[k] # None <=> "token" \in issued
        BY <1>3, <1>4, <3>2, <3>4, <4>1
      <4> QED  BY <1>7, <2>1, <2>3, <3>2, <3>4, <3>5, <4>1, <4>2, <4>3 DEF WorkOK
    <3> QED  BY <1>2, <3>1, <3>3, <3>6, Passing
  <2> QED  BY <1>7, <2>4, <2>5
<1> QED  BY <1>1, <1>5, <1>6, <1>7 DEF Hybrid

\* The last handler adds the proof that the code demands, or fails.
LEMMA PKCEInv ==
    ASSUME IInv, NEW k \in Calls, PKCE(k)
    PROVE  IInv'
<1> DEFINE form == req[k].form
           fits == "code" \in req[k].response
           proof == [challenge |-> form.challenge, method |-> form.method]
           none == form.challenge = None /\ form.method = None
           n == [params |-> resp[k].params \union {},
                 handled |-> resp[k].handled \union {}, default |-> resp[k].default]
<1>1. stage[k] = "pkce" /\ UNCHANGED Unread
  BY DEF PKCE
<1>2. stage[k] \in Handlers /\ "finish" \in Handlers
  BY <1>1 DEF Handlers
<1>3. WorkOK(k, "pkce") /\ resp[k] \in Response /\ proof \in Proof
  BY <1>1, <1>2, AtWork DEF CallOK, Proof, Form
<1>4. ASSUME ~fits, Skip(k, "finish")
      PROVE  IInv'
  <2>1. /\ Issued(k, "finish") = Issued(k, "pkce")
        /\ HasIDSession(k, "finish") <=> HasIDSession(k, "pkce")
    BY DEF Issued, HasIDSession
  <2> QED  BY <1>1, <1>2, <1>4, <2>1, Skipping
<1>5. ASSUME Fail(k), UNCHANGED stores
      PROVE  IInv'
  BY <1>1, <1>2, <1>5, FailingClean
<1>6. ASSUME fits, Validate(form, req[k].client),
             pkceSessions' = IF proof = [challenge |-> None, method |-> None]
                             THEN pkceSessions
                             ELSE [pkceSessions EXCEPT ![k] = proof],
             Pass(k, "finish", {}, {}, resp[k].default),
             UNCHANGED <<codes, accessTokens, idSessions>>
      PROVE  IInv'
  <2>1. /\ UNCHANGED <<enforce, parSessions, asked, req, granted, outcome,
                       codes, accessTokens, idSessions, pushed, raced>>
        /\ Goto(k, "finish") /\ resp' = [resp EXCEPT ![k] = n]
    BY <1>1, <1>6 DEF Unread, Pass, history
  <2>2. pkceSessions' = IF none THEN pkceSessions ELSE [pkceSessions EXCEPT ![k] = proof]
    BY <1>6
  <2>3. /\ n \in Response /\ n.params = resp[k].params
        /\ n.handled = resp[k].handled /\ n.default = resp[k].default
    BY <1>3 DEF Response
  <2> HIDE DEF n, none
  <2>4. Local(k)
    BY <1>3, <2>1, <2>2, <2>3 DEF Local, IInv, AuthorizeTypeOK
  <2>5. /\ resp'[k] = n /\ req'[k] = req[k] /\ granted'[k] = granted[k]
        /\ pkceSessions'[k] = IF none THEN pkceSessions[k] ELSE proof
    BY <2>1, <2>2 DEF IInv, AuthorizeTypeOK
  <2>6. /\ Issued(k, "finish")' = Issued(k, "pkce")
        /\ HasIDSession(k, "finish")' <=> HasIDSession(k, "pkce")
    BY <2>5 DEF Issued, HasIDSession, OpenIDGranted
  <2>7. pkceSessions[k] = None
    BY <1>3 DEF WorkOK
  <2>8. /\ Validate(req[k].form, req[k].client)'
        /\ pkceSessions'[k] =
              IF req'[k].form.challenge = None /\ req'[k].form.method = None THEN None
              ELSE [challenge |-> req'[k].form.challenge, method |-> req'[k].form.method]
    BY <1>6, <2>5, <2>7 DEF Validate, ValidateNoPKCE, none
  <2>9. WorkOK(k, "finish")'
    BY <1>3, <1>6, <2>1, <2>3, <2>5, <2>6, <2>8 DEF WorkOK
  <2> QED  BY <1>2, <2>1, <2>4, <2>9, Passing
<1> QED  BY <1>1, <1>4, <1>5, <1>6 DEF PKCE

\* The answer is written, if it is complete and its mode fit for it.
LEMMA FinishInv ==
    ASSUME IInv, NEW k \in Calls, Finish(k)
    PROVE  IInv'
<1> DEFINE complete == req[k].response \subseteq resp[k].handled
           exposed == resp[k].default = "fragment" /\ req[k].mode = "query"
           o == [error |-> FALSE, params |-> resp[k].params,
                 mode |-> req[k].mode, redirect |-> req[k].redirect]
<1>1. stage[k] = "finish" /\ UNCHANGED Unread /\ UNCHANGED stores
  BY DEF Finish
<1>2. stage[k] \in Handlers
  BY <1>1 DEF Handlers
<1>3. /\ LinkOK(k) /\ CallOK(k) /\ req[k] # None /\ req[k] \in Request
      /\ resp[k] \in Response /\ req[k].redirect \in Redirects
      /\ req[k].redirect \in RedirectURIs[req[k].client]
  BY <1>2, AtWork
<1>4. ASSUME Fail(k)
      PROVE  IInv'
  BY <1>1, <1>2, <1>4, FailingClean
<1>5. ASSUME complete, ~exposed, outcome' = [outcome EXCEPT ![k] = o],
             Goto(k, "done"), resp' = resp
      PROVE  IInv'
  <2>1. /\ UNCHANGED <<enforce, parSessions, asked, req, granted, resp, codes,
                       accessTokens, idSessions, pkceSessions, pushed, raced>>
        /\ stage' = [stage EXCEPT ![k] = "done"]
    BY <1>1, <1>5 DEF Unread, stores, history, Goto
  <2>2. req[k].mode \in Modes /\ resp[k].params \in SUBSET Parts
    BY <1>3 DEF Request, Response
  <2>3. /\ o \in Outcome
        /\ o.error = FALSE /\ o.params = resp[k].params /\ o.mode = req[k].mode
        /\ o.redirect = req[k].redirect
    BY <1>3, <2>2 DEF Outcome
  <2>4. o # None
    BY <2>3, AuthorizeAssumption
  <2>5. WorkOK(k, "finish")'
    <3>1. WorkOK(k, "finish")
      BY <1>1, <1>3 DEF CallOK, Handlers
    <3> QED  BY <2>1, <3>1
         DEF WorkOK, Issued, HasIDSession, OpenIDGranted, Validate, ValidateNoPKCE
  <2>6. AuthorizeTypeOK'
    <3> HIDE DEF o
    <3> QED  BY <1>5, <2>1, <2>3 DEF IInv, AuthorizeTypeOK, Stages
  <2>7. outcome'[k] = o /\ stage'[k] = "done"
    BY <1>5, <2>1 DEF IInv, AuthorizeTypeOK
  <2>8. LinkOK(k)'
    <3> HIDE DEF o
    <3> QED  BY <1>1, <1>3, <2>1, <2>3, <2>7 DEF LinkOK, Answered, Handlers
  <2>9. CallOK(k)'
    <3>1. /\ req'[k] # None /\ req'[k].response \subseteq resp'[k].handled
          /\ ~(resp'[k].default = "fragment" /\ req'[k].mode = "query")
          /\ o = [error |-> FALSE, params |-> resp'[k].params,
                  mode |-> req'[k].mode, redirect |-> req'[k].redirect]
          /\ o.redirect \in RedirectURIs[req'[k].client]
      BY <1>3, <1>5, <2>1, <2>3
    <3> HIDE DEF o
    <3> QED  BY <2>3, <2>5, <2>7, <3>1 DEF CallOK, Handlers
  <2>10. ASSUME NEW j \in Calls, j # k
         PROVE  LinkOK(j)' /\ CallOK(j)'
    <3> HIDE DEF o
    <3> QED  BY <1>5, <2>1, <2>10, Frame DEF IInv, AuthorizeTypeOK
  <2>11. TableOK' /\ PushedUsedOnce'
    BY <2>1 DEF IInv, TableOK, PushedUsedOnce, Presented
  <2> QED  BY <2>6, <2>8, <2>9, <2>10, <2>11 DEF IInv
<1> QED  BY <1>4, <1>5 DEF Finish

\* Every step of the endpoint keeps the inductive invariant.
LEMMA StepInv == IInv /\ [Next]_vars => IInv'
<1> SUFFICES ASSUME IInv, [Next]_vars PROVE IInv'
  OBVIOUS
<1>1. ASSUME NEW u \in RequestURIs, NEW f \in PushedForms, Push(u, f)
      PROVE  IInv'
  BY <1>1, PushInv
<1>2. ASSUME NEW k \in Calls, NEW f \in Forms, Direct(k, f) \/ GetPAR(k, f)
      PROVE  IInv'
  BY <1>2, DirectInv, GetPARInv
<1>3. ASSUME NEW k \in Calls, DeletePAR(k) \/ Consent(k)
      PROVE  IInv'
  BY <1>3, DeletePARInv, ConsentInv
<1>4. ASSUME NEW k \in Calls, Respond(k)
      PROVE  IInv'
  BY <1>4, ExplicitInv, ImplicitInv, OIDCExplicitInv, OIDCImplicitInv, HybridInv,
     PKCEInv, FinishInv DEF Respond
<1>5. CASE UNCHANGED vars
  <2>1. UNCHANGED <<enforce, parSessions, stage, asked, req, granted, resp, outcome,
                    codes, accessTokens, idSessions, pkceSessions, pushed, raced>>
    BY <1>5 DEF vars, stores, answers, history
  <2>2. \A j \in Calls : LinkOK(j)' /\ CallOK(j)'
    BY <2>1, Frame DEF IInv
  <2> QED  BY <2>1, <2>2
           DEF IInv, AuthorizeTypeOK, TableOK, PushedUsedOnce, Presented
<1> QED  BY <1>1, <1>2, <1>3, <1>4, <1>5 DEF Next

\* The inductive invariant holds in every reachable state.
THEOREM Invariant == Spec => []IInv
BY InitInv, StepInv, PTL DEF Spec

-----------------------------------------------------------------------------
(* The properties.                                                         *)

\* The stores, the requests and the outcomes keep their types.
THEOREM TypesKept == Spec => []AuthorizeTypeOK
<1>1. IInv => AuthorizeTypeOK
  BY DEF IInv
<1> QED  BY <1>1, Invariant, PTL

\* authorizeRequestFromPAR: two calls have worked on one pushed request only if
\* the second read it before the first had deleted it.
THEOREM UsedOnce == Spec => []PushedUsedOnce
<1>1. IInv => PushedUsedOnce
  BY DEF IInv
<1> QED  BY <1>1, Invariant, PTL

\* What an answer is, in terms of the request and of what is stored.
LEMMA AnswerIs ==
    ASSUME IInv, NEW k \in Calls, Answered(k)
    PROVE  /\ LinkOK(k) /\ WorkOK(k, "finish") /\ asked[k] \in Form
           /\ req[k] # None /\ req[k] \in Request /\ req[k].response \in SUBSET Parts
           /\ req[k].response # {} /\ resp[k].params \in SUBSET Parts
           /\ req[k].response \subseteq resp[k].handled
           /\ ~(resp[k].default = "fragment" /\ req[k].mode = "query")
           /\ outcome[k].params = resp[k].params /\ outcome[k].mode = req[k].mode
           /\ outcome[k].redirect = req[k].redirect
<1>1. /\ LinkOK(k) /\ CallOK(k) /\ outcome[k] # None /\ ~outcome[k].error
  BY DEF IInv, Answered
<1>2. /\ stage[k] = "done" /\ req[k] # None /\ WorkOK(k, "finish")
      /\ req[k].response \subseteq resp[k].handled
      /\ ~(resp[k].default = "fragment" /\ req[k].mode = "query")
      /\ outcome[k] = [error |-> FALSE, params |-> resp[k].params,
                       mode |-> req[k].mode, redirect |-> req[k].redirect]
  BY <1>1 DEF CallOK
<1>3. /\ req[k] \in Request /\ resp[k] \in Response /\ asked[k] \in Form
      /\ req[k].response # {}
  BY <1>1, <1>2, AuthorizeAssumption DEF IInv, AuthorizeTypeOK, LinkOK
<1> QED  BY <1>1, <1>2, <1>3 DEF Request, Response

\* An answer has the parts that Issued names: all that the request asked for,
\* but an ID token only if openid was granted.
LEMMA AnswerIssued ==
    ASSUME IInv, NEW k \in Calls, Answered(k)
    PROVE  /\ outcome[k].params = Issued(k, "finish")
           /\ Issued(k, "finish") =
                {p \in req[k].response : p = "id_token" => OpenIDGranted(k)}
           /\ "code" \in Issued(k, "finish") <=> "code" \in req[k].response
<1> DEFINE response == req[k].response
<1>1. /\ WorkOK(k, "finish") /\ response \in SUBSET Parts /\ response # {}
      /\ response \subseteq resp[k].handled /\ outcome[k].params = resp[k].params
  BY AnswerIs
<1>2. /\ resp[k].params = Issued(k, "finish")
      /\ resp[k].handled = Issued(k, "finish") \union
            (IF "code" \in Issued(k, "finish") /\ response # {"code"} THEN {"id_token"} ELSE {})
  BY <1>1 DEF WorkOK
<1>3. CASE response = {"code"}
  BY <1>1, <1>2, <1>3 DEF Issued
<1>4. CASE response = {"token"}
  BY <1>1, <1>2, <1>4 DEF Issued
<1>5. CASE response # {"code"} /\ response # {"token"} /\ "code" \notin response
  <2>1. Issued(k, "finish") = IF OpenIDGranted(k) THEN response ELSE {}
    BY <1>5 DEF Issued
  <2>2. OpenIDGranted(k)
    BY <1>1, <1>2, <2>1
  <2> QED  BY <1>1, <1>2, <1>5, <2>1, <2>2
<1>6. CASE response # {"code"} /\ response # {"token"} /\ "code" \in response
  <2>1. Issued(k, "finish") = {p \in response : p = "id_token" => OpenIDGranted(k)}
    BY <1>6 DEF Issued
  <2> QED  BY <1>1, <1>2, <1>6, <2>1
<1> QED  BY <1>3, <1>4, <1>5, <1>6

\* The parameters of a pushed request are not overruled by the browser's.
THEOREM Governs == Spec => []PushedGoverns
<1>1. ASSUME IInv, NEW k \in Calls, Answered(k)
      PROVE  /\ enforce => asked[k].uri # None
             /\ asked[k].uri # None =>
                   LET p == pushed[asked[k].uri] IN
                   /\ p # None
                   /\ asked[k].client = p.client /\ req[k].client = p.client
                   /\ outcome[k].redirect = p.redirect /\ outcome[k].mode = p.mode
                   /\ outcome[k].params \subseteq p.response
                   /\ granted[k] \subseteq p.scopes
  <2>1. /\ LinkOK(k) /\ WorkOK(k, "finish") /\ asked[k] \in Form /\ req[k] # None
        /\ outcome[k].mode = req[k].mode /\ outcome[k].redirect = req[k].redirect
    BY <1>1, AnswerIs
  <2>2. enforce => asked[k].uri # None
    BY <1>1, <2>1 DEF LinkOK
  <2>3. ASSUME asked[k].uri # None
        PROVE  LET p == pushed[asked[k].uri] IN
               /\ p # None
               /\ asked[k].client = p.client /\ req[k].client = p.client
               /\ outcome[k].redirect = p.redirect /\ outcome[k].mode = p.mode
               /\ outcome[k].params \subseteq p.response
               /\ granted[k] \subseteq p.scopes
    <3> DEFINE p == pushed[asked[k].uri]
    <3>1. asked[k].uri \in RequestURIs
      BY <2>1, <2>3 DEF Form
    <3>2. p # None /\ req[k] = Merge(asked[k], p) /\ asked[k].client = p.client
      BY <1>1, <2>1, <2>3 DEF LinkOK
    <3>3. p \in Request
      BY <1>1, <3>1, <3>2 DEF IInv, AuthorizeTypeOK
    <3> HIDE DEF p
    <3>4. /\ req[k].client = p.client /\ req[k].response = p.response
          /\ req[k].mode = p.mode /\ req[k].redirect = p.redirect
          /\ req[k].scopes = p.scopes
      BY <2>1, <3>2, <3>3, MergedRequest
    <3>5. outcome[k].params \subseteq req[k].response
      BY <1>1, AnswerIssued
    <3>6. granted[k] \subseteq req[k].scopes
      BY <2>1 DEF WorkOK
    <3> QED  BY <2>1, <3>2, <3>4, <3>5, <3>6 DEF p
  <2> QED  BY <2>2, <2>3
<1>2. IInv => PushedGoverns
  BY <1>1 DEF PushedGoverns
<1> QED  BY <1>2, Invariant, PTL

\* An answer that goes out is whole, and so is what it leaves in the stores.
THEOREM Complete == Spec => []AnswerComplete
<1>1. ASSUME IInv, NEW k \in Calls, Answered(k)
      PROVE  LET ps == outcome[k].params
                 form == req[k].form
             IN
             /\ ps = {p \in req[k].response : p = "id_token" => openid \in granted[k]}
             /\ "code" \in ps <=> codes[k] # None
             /\ "token" \in ps <=> accessTokens[k] # None
             /\ k \in idSessions <=> "code" \in ps /\ openid \in granted[k]
             /\ "code" \in ps =>
                   pkceSessions[k] =
                      IF form.challenge = None /\ form.method = None THEN None
                      ELSE [challenge |-> form.challenge, method |-> form.method]
  <2>1. WorkOK(k, "finish")
    BY <1>1, AnswerIs
  <2>2. /\ outcome[k].params = Issued(k, "finish")
        /\ Issued(k, "finish") =
              {p \in req[k].response : p = "id_token" => openid \in granted[k]}
        /\ "code" \in Issued(k, "finish") <=> "code" \in req[k].response
    BY <1>1, AnswerIssued DEF OpenIDGranted
  <2>3. /\ codes[k] # None <=> "code" \in Issued(k, "finish")
        /\ accessTokens[k] # None <=> "token" \in Issued(k, "finish")
        /\ k \in idSessions <=> "code" \in req[k].response /\ openid \in granted[k]
    BY <2>1 DEF WorkOK, HasIDSession, OpenIDGranted
  <2>4. "code" \in req[k].response =>
           pkceSessions[k] =
              IF req[k].form.challenge = None /\ req[k].form.method = None THEN None
              ELSE [challenge |-> req[k].form.challenge, method |-> req[k].form.method]
    BY <2>1 DEF WorkOK
  <2> QED  BY <2>2, <2>3, <2>4
<1>2. IInv => AnswerComplete
  BY <1>1 DEF AnswerComplete
<1> QED  BY <1>2, Invariant, PTL

\* Enforced PKCE holds for every code that goes out, by whichever handler.
THEOREM Proofs == Spec => []CodeDemandsProof
<1>1. ASSUME IInv, NEW k \in Calls, Answered(k), "code" \in outcome[k].params
      PROVE  IF pkceSessions[k] = None \/ pkceSessions[k].challenge = None
             THEN ValidateNoPKCE(req[k].client)
             ELSE pkceSessions[k].method \in
                     {"S256"} \union
                     (IF EnablePKCEPlainChallengeMethod THEN {None, "plain"} ELSE {})
  <2> DEFINE form == req[k].form
             proof == [challenge |-> form.challenge, method |-> form.method]
  <2>1. "code" \in req[k].response
    BY <1>1, AnswerIssued
  <2>2. /\ Validate(form, req[k].client)
        /\ pkceSessions[k] = IF form.challenge = None /\ form.method = None THEN None
                             ELSE proof
        /\ form \in Form
    BY <1>1, <2>1, AnswerIs DEF WorkOK, Request
  <2>3. proof \in Proof /\ proof.challenge = form.challenge /\ proof.method = form.method
    BY <2>2 DEF Proof, Form
  <2>4. proof # None
    BY <2>3, AuthorizeAssumption
  <2>5. CASE form.challenge = None
    BY <2>2, <2>3, <2>5 DEF Validate
  <2>6. CASE form.challenge # None
    BY <2>2, <2>3, <2>4, <2>6 DEF Validate
  <2> QED  BY <2>5, <2>6
<1>2. IInv => CodeDemandsProof
  BY <1>1 DEF CodeDemandsProof
<1> QED  BY <1>2, Invariant, PTL

\* Nothing is sent to a URI that the client has not registered.
THEOREM Reaches == Spec => []AnswerReachesClient
<1>1. ASSUME IInv, NEW k \in Calls, outcome[k] # None, outcome[k].redirect # None
      PROVE  /\ outcome[k].redirect \in
                   RedirectURIs[IF req[k] = None THEN asked[k].client ELSE req[k].client]
             /\ outcome[k].mode = "query" => outcome[k].params = {"code"}
             /\ Answered(k) /\ codes[k] # None =>
                   \/ codes[k].redirect \in {None, outcome[k].redirect}
                   \/ asked[k].uri # None /\ pushed[asked[k].uri].form.redirect = None
  <2>1. /\ outcome[k].redirect \in
              RedirectURIs[IF req[k] = None THEN asked[k].client ELSE req[k].client]
        /\ outcome[k].error => outcome[k].mode = None
    BY <1>1 DEF IInv, CallOK
  <2>2. ASSUME Answered(k), outcome[k].mode = "query"
        PROVE  outcome[k].params = {"code"}
    <3>1. /\ WorkOK(k, "finish") /\ resp[k].default # "fragment"
          /\ outcome[k].params = resp[k].params
          /\ req[k].response \in SUBSET Parts /\ req[k].response # {}
          /\ req[k].response \subseteq resp[k].handled
      BY <1>1, <2>2, AnswerIs
    <3>2. resp[k].params \in {{}, {"code"}}
      BY <3>1 DEF WorkOK
    <3>3. resp[k].params # {}
      <4>1. resp[k].handled # {}
        BY <3>1
      <4> QED  BY <3>1, <4>1 DEF WorkOK
    <3> QED  BY <3>1, <3>2, <3>3
  <2>3. ASSUME Answered(k), codes[k] # None
        PROVE  \/ codes[k].redirect \in {None, outcome[k].redirect}
               \/ asked[k].uri # None /\ pushed[asked[k].uri].form.redirect = None
    <3>1. /\ LinkOK(k) /\ WorkOK(k, "finish") /\ asked[k] \in Form /\ req[k] # None
          /\ outcome[k].redirect = req[k].redirect
      BY <1>1, <2>3, AnswerIs
    <3>2. codes[k].redirect = req[k].form.redirect
      BY <2>3, <3>1 DEF WorkOK
    <3>3. CASE asked[k].uri = None
      BY <3>1, <3>2, <3>3 DEF LinkOK
    <3>4. CASE asked[k].uri # None
      <4> DEFINE p == pushed[asked[k].uri]
      <4>1. asked[k].uri \in RequestURIs
        BY <3>1, <3>4 DEF Form
      <4>2. p # None /\ req[k] = Merge(asked[k], p)
        BY <3>1, <3>4 DEF LinkOK
      <4>3. p \in Request /\ p.form.redirect \in {None, p.redirect}
        BY <1>1, <4>1, <4>2 DEF IInv, AuthorizeTypeOK, TableOK
      <4> HIDE DEF p
      <4>4. req[k].redirect = p.redirect
            /\ req[k].form.redirect = Or(p.form.redirect, asked[k].redirect)
        BY <3>1, <4>2, <4>3, MergedRequest
      <4> QED  BY <3>1, <3>2, <3>4, <4>3, <4>4 DEF Or, p
    <3> QED  BY <3>3, <3>4
  <2>4. outcome[k].mode = "query" => Answered(k)
    BY <1>1, <2>1, AuthorizeAssumption DEF Answered, Modes
  <2> QED  BY <2>1, <2>2, <2>3, <2>4
<1>2. IInv => AnswerReachesClient
  BY <1>1 DEF AnswerReachesClient
<1> QED  BY <1>2, Invariant, PTL
=============================================================================
