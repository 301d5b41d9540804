SPECIFICATION FairSpec
CONSTANTS
    app = app
    lib = lib
    flawed = flawed
    clean = clean
    Files = {app, lib}
    Contents = {flawed, clean}
    Missing = Missing
    Nothing = Nothing
    Service = Service
    Unreadable = {app}
    Fix <- MCFix
    InvalidConfigs = {1}
    MaxEdits = 3
    MaxConfigs = 2
    MaxChanges = 4
INVARIANTS
    TypeOK
    NothingForgotten
    AnalysisIsCurrent
PROPERTIES
    Converges
CHECK_DEADLOCK FALSE
