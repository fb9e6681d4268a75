CONSTANTS
    AuthReqs = {a1}
    Calls = {k1, k2, k3}
    c1 = c1
    openid = openid
    None = None
    Clients = {c1}
    Scopes = {openid}
    RefreshTokenScopes = {}
    Verifiers = {v1, v2}
    Malformed = {v2}
    PublicClients = {c1}
    EnforcePKCE = FALSE
    EnforcePKCEForPublicClients = TRUE
    EnablePKCEPlainChallengeMethod = FALSE
    ClientScopes <- MCClientScopes
    ClientGrantTypes <- MCExchangeAndRefresh
SPECIFICATION ExFairSpec
INVARIANTS
    VerifierProven
    RefusedNeverRedeemed
    IDTokenBound
PROPERTIES
    DetectionEndsGrant
CHECK_DEADLOCK FALSE
