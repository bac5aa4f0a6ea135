SPECIFICATION FairSpec
CONSTANTS
    p1 = p1
    p2 = p2
    Workers <- MCWorkers
    Days <- TwoDays
    Sessions <- MCSessions
    Recent <- MCRecent
    NoJob = NoJob
    NoClose = NoClose
    NoPrice = NoPrice
    NoAsset = NoAsset
    MAX_ATTEMPTS = 2
    MaxPlans = 2
    Mishaps <- MCMishaps
INVARIANTS
    NobodyWorksInVain
    ClosesFitSplits
PROPERTIES
    VerifiedClosesStay
    JobsEnd
