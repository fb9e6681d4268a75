---------------------------- MODULE ErrorValues ----------------------------
(***************************************************************************)
(* The error values of the library (errors.go).  An error is the chain of  *)
(* what it wraps, outermost first, and nil is the empty chain.  A link is  *)
(* named by the variable it is a copy of: hints, debug texts and           *)
(* translations change the wording of a copy, never its field or its code. *)
(***************************************************************************)
EXTENDS Naturals, Sequences

nil == << >>

\* ErrorField and CodeField of every RFC6749Error: those that a client can run
\* into at the token endpoint, then those of tokens and of authorize requests.
RequestErrors == [
    ErrSerializationFailure     |-> <<"error", 409>>,
    ErrUnknownRequest           |-> <<"error", 400>>,
    ErrRequestForbidden         |-> <<"request_forbidden", 403>>,
    ErrInvalidRequest           |-> <<"invalid_request", 400>>,
    ErrUnauthorizedClient       |-> <<"unauthorized_client", 400>>,
    ErrAccessDenied             |-> <<"access_denied", 403>>,
    ErrUnsupportedResponseType  |-> <<"unsupported_response_type", 400>>,
    ErrUnsupportedResponseMode  |-> <<"unsupported_response_mode", 400>>,
    ErrInvalidScope             |-> <<"invalid_scope", 400>>,
    ErrInvalidTarget            |-> <<"invalid_target", 400>>,
    ErrServerError              |-> <<"server_error", 500>>,
    ErrTemporarilyUnavailable   |-> <<"temporarily_unavailable", 503>>,
    ErrUnsupportedGrantType     |-> <<"unsupported_grant_type", 400>>,
    ErrInvalidGrant             |-> <<"invalid_grant", 400>>,
    ErrInvalidClient            |-> <<"invalid_client", 401>>,
    ErrInvalidState             |-> <<"invalid_state", 400>>,
    ErrMisconfiguration         |-> <<"misconfiguration", 500>>,
    ErrInsufficientEntropy      |-> <<"insufficient_entropy", 400>>,
    ErrNotFound                 |-> <<"not_found", 404>> ]

TokenErrors == [
    ErrRequestUnauthorized      |-> <<"request_unauthorized", 401>>,
    ErrTokenSignatureMismatch   |-> <<"token_signature_mismatch", 400>>,
    ErrInvalidTokenFormat       |-> <<"invalid_token", 400>>,
    ErrTokenExpired             |-> <<"invalid_token", 401>>,
    ErrScopeNotGranted          |-> <<"scope_not_granted", 403>>,
    ErrTokenClaim               |-> <<"token_claim", 401>>,
    ErrInactiveToken            |-> <<"token_inactive", 401>>,
    ErrLoginRequired            |-> <<"login_required", 400>>,
    ErrInteractionRequired      |-> <<"interaction_required", 400>>,
    ErrConsentRequired          |-> <<"consent_required", 400>>,
    ErrRequestNotSupported      |-> <<"request_not_supported", 400>>,
    ErrRequestURINotSupported   |-> <<"request_uri_not_supported", 400>>,
    ErrRegistrationNotSupported |-> <<"registration_not_supported", 400>>,
    ErrInvalidRequestURI        |-> <<"invalid_request_uri", 400>>,
    ErrInvalidRequestObject     |-> <<"invalid_request_object", 400>>,
    ErrJTIKnown                 |-> <<"jti_known", 400>>,
    ErrAuthorizationPending     |-> <<"authorization_pending", 400>>,
    ErrSlowDown                 |-> <<"slow_down", 400>>,
    ErrDeviceExpiredToken       |-> <<"expired_token", 400>> ]

RFC6749Error ==
    [link \in DOMAIN RequestErrors \union DOMAIN TokenErrors |->
        IF link \in DOMAIN RequestErrors THEN RequestErrors[link] ELSE TokenErrors[link]]

\* Any other Go error, as of bcrypt or of a database.
Foreign == {"errMismatchedHashAndPassword", "errStorage"}

Link == DOMAIN RFC6749Error \union Foreign
Error == Seq(Link)

FieldAndCode(link) ==
    IF link \in Foreign THEN <<link, 500>> ELSE RFC6749Error[link]

\* err.WithWrap(cause)
WithWrap(link, cause) == <<link>> \o cause

\* errors.Is: some link has the field and the code of the target.
Is(err, target) ==
    \E i \in DOMAIN err : FieldAndCode(err[i]) = FieldAndCode(target)

\* errors.As finds the outermost RFC6749Error; without one it is 500.
ErrorToRFC6749Error(err) ==
    LET known == {i \in DOMAIN err : err[i] \notin Foreign} IN
    IF known = {} THEN <<"error", 500>>
    ELSE FieldAndCode(err[CHOOSE i \in known : \A j \in known : i <= j])

\* The status writeJsonError answers with.
StatusCode(err) == ErrorToRFC6749Error(err)[2]
=============================================================================
