SPECIFICATION FairSpec
CONSTANTS
    Msg <- TwoMsgs
    Standing <- OnlyM2
    Account <- OneAccount
    Slot <- OneSlot
    HostTask <- OneHost
    AccountOf <- OneAccountOf
    HomeOf <- OneHomeOf
    GroupOf <- OneGroupOf
    Kind <- AttachmentM2
    QuoteOf <- NoQuote
    NULL = NULL
    Backoff <- MCBackoff
    RateDelay = 1
    Window = 3
    MaxAttempts = 2
    MaxQueued = 1
    ClaimBatch = 1
    ProbeBatch = 1
    ProbeRounds = 2
    Tolerance = 1
    MaxTime = 2
    MaxLandings = 2
    MaxCrashes = 1
    MaxDeletes = 1
INVARIANTS
    FailedIsDefinitive
    OneDispatcher
    AtMostOnce
PROPERTIES
    DispatchEnds
    DueIsServed
    SettledStays
CHECK_DEADLOCK FALSE
