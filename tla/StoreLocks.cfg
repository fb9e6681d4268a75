CONSTANTS
    a1 = a1
    c1 = c1
    c2 = c2
    c3 = c3
    client = client
    None = None
    AuthReqs <- MCAuthReqs
    Calls <- MCCalls
    Clients <- MCClients
    Scopes = {}
    UsedMethods <- MCUsedMethods
SPECIFICATION LocksSpec
INVARIANTS
    NoConcurrentMapAccess
PROPERTIES
    StoreIsAtomic
    EveryCallReturns
