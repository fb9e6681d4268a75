CONSTANTS
    AuthReqs = {a1}
    Calls = {k1, k2}
    c1 = c1
    openid = openid
    None = None
    Clients = {c1}
    Scopes = {openid}
    RefreshTokenScopes = {}
    Verifiers = {v1, v2}
    Malformed = {}
    PublicClients = {}
    EnforcePKCE = FALSE
    EnforcePKCEForPublicClients = TRUE
    EnablePKCEPlainChallengeMethod = FALSE
    ClientScopes <- MCClientScopes
    ClientGrantTypes <- MCExchangeOnly
SPECIFICATION ExSpec
SYMMETRY Symmetry
INVARIANTS
    ChallengeIsVerified
CHECK_DEADLOCK FALSE
