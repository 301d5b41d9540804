SPECIFICATION Spec
CONSTANTS
    Absent = Absent
    Files <- MCFiles
    FileType <- MCFileType
    SpanOrder <- MCSpanOrder
    Versions <- MCShadowVersions
    Initial <- MCShadowInitial
    EntryPoints <- MCEntryPoints
    ExpenseLimit = 9
    PluginsFail = FALSE
    MaxBatch = 1
INVARIANT
    MatchesFull
