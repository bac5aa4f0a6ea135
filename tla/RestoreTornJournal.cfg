SPECIFICATION FairSpec
CONSTANTS
    v0 = v0
    v1 = v1
    v2 = v2
    Versions <- MCVersions
    Bare <- MCBare
    Blank = v0
    NoOne = NoOne
    Nothing = Nothing
    Absent = Absent
    Torn = Torn
    NoWork = NoWork
    NoJournal = NoJournal
    Unparsable = Unparsable
    MaxUsers = 1
    MaxOps = 1
    MaxCrashes = 1
    TornJournal = TRUE
    RollbackMayFail = FALSE
    CleanupMayFail = {}
PROPERTIES
    ComesUp
