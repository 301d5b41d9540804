SPECIFICATION Spec
CONSTANTS
    Source <- MCSource
    Edits <- MCEdits
    Threshold = "PotentiallyUnsafe"
    MaxBatch = 2
    MaxEdits = 3
INVARIANTS
    NonOverlapping
CHECK_DEADLOCK FALSE
