CONSTANTS
    AuthReqs = {d1}
    Calls = {k1, k2}
    openid = openid
    None = None
    Clients = {c1}
    Scopes = {openid}
    RefreshTokenScopes = {}
    UserCodes = {u1}
    ContractStore = TRUE
    ClientScopes <- MCClientScopes
    ClientGrantTypes <- MCDeviceGrant
SPECIFICATION DeviceSpec
SYMMETRY Symmetry
INVARIANTS
    DeviceReplayRevokesTokens
CHECK_DEADLOCK FALSE
