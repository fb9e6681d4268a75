CONSTANTS
    AuthReqs = {a1}
    Calls = {k1, k2}
    Inspections = {i1}
    Secrets = {s1, s2}
    StartTime = 3
    MaxTime = 6
    Second = 2
    c1 = c1
    offline = offline
    None = None
    Clients <- MCClients
    Scopes <- MCScopes
    RefreshTokenScopes <- MCScopes
    ClientScopes <- MCClientScopes
    ClientGrantTypes <- MCClientGrantTypes
    ConfigLifespan <- MCConfigLifespan
    DefaultLifespan <- MCDefaultLifespan
    ClientLifespans <- MCClientLifespans
    DisableRefreshTokenValidation = FALSE
SPECIFICATION ValiditySpec
SYMMETRY Symmetry
INVARIANTS
    ValidityTypeOK
    ActiveWasValid
    InactiveWasInvalid
    IssuedNotExtended
PROPERTIES
    ExpiresWithinLifespan
CHECK_DEADLOCK FALSE
