SPECIFICATION Spec
CONSTANTS
    c1 = c1
    c2 = c2
    s1 = s1
    s2 = s2
    Calls = {c1, c2}
    Handled = {c1}
    Stoppers = {s1}
    Reader = Reader
    Nobody = Nobody
    PipeCapacity = 1
    ChildFrames = 1
INVARIANTS
    NoOrphanedCall
    AnswersOwnRequest
    ErrorsRetireWorker
    NoStaleEntry
    OneOutcome
    NothingLeftRunning
