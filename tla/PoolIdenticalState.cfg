SPECIFICATION Spec
CONSTANTS
    r1 = r1
    r2 = r2
    b1 = b1
    b2 = b2
    g1 = g1
    z1 = z1
    z2 = z2
    Requesters = {r1}
    Broadcasters = {b1}
    Grouped = {b1}
    Growers = {}
    Closers = {}
    Nobody = Nobody
    Capacity = 2
    Initial = 2
    Reduction = FALSE
    MaxCrashes = 1
INVARIANTS
    IdenticalState
