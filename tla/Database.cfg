SPECIFICATION Spec
CONSTANTS
    app = app
    lib = lib
    c1 = c1
    c2 = c2
    c3 = c3
    c4 = c4
    old = old
    new = new
    Names = {app, lib}
    Contents = {old, new}
    Missing = Missing
    Readers = {1}
    Ids <- MCIds
    FileId <- MCFileId
    OnDisk = {app}
    Cells = {c1, c2, c3, c4}
    NoCell = NoCell
    NoName = NoName
    Torn = Torn
    Recorders = {1}
    MaxChanges = 2
SYMMETRY Symmetry
INVARIANTS
    TypeOK
    IndexesAgree
    LastChangeWins
    DiskFollowsDatabase
PROPERTIES
    IsFileStore
