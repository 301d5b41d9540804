SPECIFICATION FairSpec
CONSTANTS
    r1 = r1
    r2 = r2
    b1 = b1
    b2 = b2
    g1 = g1
    z1 = z1
    z2 = z2
    Requesters = {r1}
    Broadcasters = {b1}
    Grouped = {b1}
    Growers = {g1}
    Closers = {z1}
    Nobody = Nobody
    Capacity = 3
    Initial = 1
    Reduction = TRUE
    MaxCrashes = 1
INVARIANTS
    GrowthIsConsistent
PROPERTIES
    EveryoneReturns
