SPECIFICATION FairSpec
CONSTANTS
    c1 = c1
    c2 = c2
    s1 = s1
    s2 = s2
    Calls = {c1}
    Handled = {}
    Stoppers = {s1}
    Reader = Reader
    Nobody = Nobody
    PipeCapacity = 1
    ChildFrames = 0
PROPERTIES
    CallsReturn
