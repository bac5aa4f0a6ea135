SPECIFICATION Spec
CONSTANTS
    kis = kis
    kisName = kisName
    c1 = c1
    c2 = c2
    n1 = n1
    n2 = n2
    A = A
    B = B
    NoCode = NoCode
    NoBroker = NoBroker
    NoPnl = NoPnl
    NoSource = NoSource
    NoKey = NoKey
    OldKey = OldKey
    NoPreview = NoPreview
    Everywhere = Everywhere
    AnyClass = AnyClass
    NoDay = NoDay
    Today = 3
    Ids <- MCIds
    Worlds <- MCWorlds
INVARIANTS
    ProfitIsCurrent
    ReportedProfitStays
    ScreensAgree
    LotsAreHoldings
    RecoveryIsReal
PROPERTIES
    EarlierProfitsStay
    PreviewIsWhatHappens
