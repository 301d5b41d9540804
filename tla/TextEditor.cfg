SPECIFICATION Spec
CONSTANTS
    Source <- MCSource
    Edits <- MCEdits
    Threshold = "PotentiallyUnsafe"
    MaxBatch = 2
    MaxEdits = 3
INVARIANTS
    TypeOK
    SinglyNonOverlapping
    WritesWhatIsMeant
    CheckedIsWritten
    OverlapsAreReal
PROPERTIES
    AllOrNothing
    SharedOnce
CHECK_DEADLOCK FALSE
