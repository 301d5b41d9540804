SPECIFICATION Spec
CONSTANTS
    Absent = Absent
    Files <- MCFiles
    FileType <- MCFileType
    SpanOrder <- MCSpanOrder
    Versions <- MCInheritedVersions
    Initial <- MCInheritedInitial
    EntryPoints <- MCEntryPoints
    ExpenseLimit = 6
    PluginsFail = FALSE
    MaxBatch = 1
INVARIANT
    MatchesFull
