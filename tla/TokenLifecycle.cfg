CONSTANTS
    AuthReqs = {a1, a2}
    Calls = {k1, k2, k3}
    c1 = c1
    c2 = c2
    offline = offline
    None = None
    Clients <- MCClients
    Scopes <- MCScopes
    RefreshTokenScopes <- MCScopes
    ClientScopes <- MCClientScopes
    ClientGrantTypes <- MCHybridGrantTypes
SPECIFICATION Spec
SYMMETRY Symmetry
INVARIANTS
    TokensBoundToGrant
    TokensConsumeCode
    CodeRedeemedOnce
    RotationReplaces
    PresentedTokenDead
    EndedGrantStaysDead
PROPERTIES
    TokensOnlyAge
CHECK_DEADLOCK FALSE
