SPECIFICATION Spec
CONSTANTS
    a = a
    b = b
    k1 = k1
    Ids <- MCIds
    Texts <- MCTexts
    Derived <- MCDerived
    Keys <- MCKeys
    NoKey = NoKey
    NoRow = NoRow
    NoReceipt = NoReceipt
    Legacy <- MCLegacy
    MaxSeq = 3
INVARIANTS
    RevisionNamesOneContent
    ExecutedAtMostOnce
    RetriesAgree
