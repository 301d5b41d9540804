SPECIFICATION FairSpec
CONSTANTS
    c1 = c1
    c2 = c2
    s1 = s1
    s2 = s2
    Calls = {c1}
    Handled = {c1}
    Stoppers = {s1, s2}
    Reader = Reader
    Nobody = Nobody
    PipeCapacity = 4
    ChildFrames = 1
INVARIANTS
    TypeOK
PROPERTIES
    CallsReturn
    ShutdownReturns
