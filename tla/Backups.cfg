SPECIFICATION BackupsSpec
CONSTANTS
    a = a
    old = old
    Accounts <- MCAccounts
    Nameless <- MCNameless
    Db = Db
    Never = Never
    Retention = 2
    LastTime = 4
    MaxFailures = 1
    MaxStops = 1
    v0 = v0
    v1 = v1
    v2 = v2
    Versions <- MCVersions
    Bare <- MCBare
    Blank = v0
    NoOne = NoOne
    Nothing = Nothing
    Absent = Absent
    Torn = Torn
    NoWork = NoWork
    NoJournal = NoJournal
    Unparsable = Unparsable
    MaxUsers = 2
    MaxOps = 2
    MaxCrashes = 2
    TornJournal = TRUE
    RollbackMayFail = TRUE
    CleanupMayFail = {"committed"}
INVARIANTS
    LastSuccessIsTrue
    ServedAccountIsWhole
PROPERTIES
    GoodCopiesStay
    CatchesUp
    ImplementsAtomicRestore
    ComesUpUnlessStuck
