CONSTANTS
    a1 = a1
    k1 = k1
    k2 = k2
    k3 = k3
    p1 = p1
    p2 = p2
    None = None
    AuthReqs <- MCAuthReqs
    Calls <- MCCalls
    MaxTime = 3
    KeyPairs <- MCKeyPairs
    IDTokenLifespan <- MCIDTokenLifespan
    DefaultExpiryTime = 3
    AccessTokenLifespan = 1
    Leeway = 0
    AllowedPrompts = {"login", "none", "consent", "select_account"}
    Forms <- MCForms
    Subject = "peter"
    ClientID = "client"
    Issuer = "issuer"
    GrantedScopes <- MCGrantedScopes
    GrantedAudience <- MCGrantedAudience
    ScopeField = "both"
SPECIFICATION IdSpec
SYMMETRY CallSymmetry
CHECK_DEADLOCK FALSE
INVARIANTS
    IdTypeOK
    IdTokenMatchesResponse
    SameAuthentication
    IdTokenValidWhenIssued
    CodeLostOnlyFor
    AcceptedWasSigned
    ReadBackAsGranted
