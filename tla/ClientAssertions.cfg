CONSTANTS
    Calls = {k1, k2}
    c1 = c1
    c2 = c2
    s1 = s1
    s2 = s2
    i1 = i1
    i2 = i2
    j1 = j1
    Clients = {c1, c2}
    Keys = {s1, s2}
    KeyIDs = {i1, i2}
    KeySets <- MCKeySets
    JTIs = {j1}
    Assertions <- MCAssertions
    IDOptional = TRUE
    LastSecond = 2
    LastTick = 4
    None = None
SPECIFICATION Spec
SYMMETRY Symmetry
INVARIANTS
    UsedUntilExpiry
    PublishedKeyFound
CHECK_DEADLOCK FALSE
