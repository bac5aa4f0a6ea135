SPECIFICATION AnswersSpec
CONSTANTS
    r1 = r1
    r2 = r2
    w1 = w1
    w2 = w2
    Readers <- MCReaders
    Writers <- MCWriters
    NoModel = NoModel
    MaxCommits = 2
    MaxBoots = 2
    q1 = q1
    q2 = q2
    Requests <- MCRequests
    Capacity = 2
    Unchecked = Unchecked
    NoOne = NoOne
    NoQuote = NoQuote
    PRICE_MEM_TTL = 2
    LastMoment = 4
    Phase <- MCPhase
    b1 = b1
    b2 = b2
    NoBot = NoBot
    NoRow = NoRow
    NoPage = NoPage
    Bots <- MCBots
    Reported <- MCReported
    MaxCommands = 2
    Offline = 1
    TTL = 1
    Limit = 1
    Executions <- MCExecutions
    OwnerOf <- MCOwnerOf
    RowIds <- MCRowIds
INVARIANTS
    NotModifiedIsCurrent
    ReadsSeeAnsweredChanges
    DoneMeansDone
    NothingSlipsThrough
    ListingIsComplete
PROPERTIES
    PagesAreCurrent
    QuotesNeverGoBack
    AnswersAreCurrent
    CloseStands
    CommandsRunOnce
    RevivedOnlyIfAsked
