CONSTANTS
    AuthReqs = {d1, d2}
    Calls = {k1, k2}
    openid = openid
    None = None
    Clients = {c1}
    Scopes = {openid}
    RefreshTokenScopes = {}
    UserCodes = {u1, u2}
    ContractStore = TRUE
    ClientScopes <- MCClientScopes
    ClientGrantTypes <- MCAllGrants
SPECIFICATION DeviceSpec
SYMMETRY Symmetry
INVARIANTS
    DeviceTokensApproved
    DeviceCodeRedeemedOnce
CHECK_DEADLOCK FALSE
