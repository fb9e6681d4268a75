CONSTANTS
    Calls = {k1, k2}
    c1 = c1
    c2 = c2
    r1 = r1
    r2 = r2
    u1 = u1
    openid = openid
    email = email
    None = None
    RequestURIs = {u1}
    Clients = {c1, c2}
    Redirects = {r1, r2}
    Scopes = {openid, email}
    SecureRedirects = {r1}
    PublicClients = {c1}
    IgnoreUnknownScopes = FALSE
    EnforcePKCE = FALSE
    EnforcePKCEForPublicClients = TRUE
    EnablePKCEPlainChallengeMethod = FALSE
    Forms <- MCForms
    PushedForms <- MCPushedForms
    ClientScopes <- MCClientScopes
    RedirectURIs <- MCRedirectURIs
    ResponseTypes <- MCResponseTypes
    ResponseModes <- MCResponseModes
    GrantTypes <- MCGrantTypes
SYMMETRY Symmetry
SPECIFICATION Spec
INVARIANTS
    PushedUsedOnce
    AnswerComplete
    CodeDemandsProof
    AnswerReachesClient
CHECK_DEADLOCK FALSE
