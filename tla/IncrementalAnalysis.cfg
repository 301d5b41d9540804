SPECIFICATION Spec
CONSTANTS
    Absent = Absent
    Files <- MCFiles
    FileType <- MCFileType
    SpanOrder <- MCSpanOrder
    Versions <- MCVersions
    Initial <- MCInitial
    EntryPoints <- MCEntryPoints
    ExpenseLimit = 6
    PluginsFail = TRUE
    MaxBatch = 2
INVARIANTS
    TypeOK
    ReadingsMatchFull
    CodebaseMatchesFull
    ReferencesAreComplete
    EditorDataIsComplete
