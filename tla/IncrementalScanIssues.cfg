SPECIFICATION Spec
CONSTANTS
    Absent = Absent
    Files <- MCFiles
    FileType <- MCFileType
    SpanOrder <- MCSpanOrder
    Versions <- MCFlawedVersions
    Initial <- MCFlawedInitial
    EntryPoints <- MCEntryPoints
    ExpenseLimit = 6
    PluginsFail = FALSE
    MaxBatch = 1
INVARIANT
    MatchesFull
