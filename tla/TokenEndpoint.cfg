CONSTANTS
    k1 = k1
    k2 = k2
    k3 = k3
    None = None
    Anonymous = Anonymous
    ClientIDs = {"c1", "c2"}
    Secrets = {"s1", "s2"}
    Scopes <- MCScopes
    Calls <- MCCalls
    Configs <- MCConfigs
    Factories <- MCFactories
    Registrations <- MCRegistrations
    TokenForms <- MCTokenForms
    RevokeCredentials <- MCRevokeCredentials
    RefreshTokenScopes = {}
    Passwords <- MCPasswords
    KeyScopes <- MCKeyScopes
    JTIs = {"j1"}
    MaxFaults = 1
SPECIFICATION Spec
SYMMETRY CallSymmetry
CHECK_DEADLOCK FALSE
INVARIANTS
    ClientProvedItself
    WithinRegistration
    IssuedOnce
    RefusedIssuesNothing
    RevokedByItsClient
