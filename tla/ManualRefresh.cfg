SPECIFICATION QuotesSpec
CONSTANTS
    q1 = q1
    q2 = q2
    Requests <- MCRequests
    Capacity = 2
    Unchecked = Unchecked
    NoOne = NoOne
    NoQuote = NoQuote
    PRICE_MEM_TTL = 2
    LastMoment = 4
    Phase <- MCPhase
PROPERTY
    ManualIsLive
