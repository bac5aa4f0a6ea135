SPECIFICATION SessionSpec
CONSTANTS
    a = a
    b = b
    k1 = k1
    k2 = k2
    Ids <- MCIds
    Texts <- MCTexts
    Derived <- MCDerived
    Keys <- MCKeys
    NoKey = NoKey
    NoRow = NoRow
    NoReceipt = NoReceipt
    Legacy <- MCLegacy
    MaxSeq = 2
    New = New
    Empty = Empty
    None = None
    Worlds <- MCWorlds
INVARIANTS
    DuplicatesOnlyAfterRefusal
    NoLostUpdate
