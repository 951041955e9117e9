SPECIFICATION FairSpec
CONSTANTS
    None = None
    known = known
    Listings <- MCListings
    Rows <- MCRows
    Pooled = TRUE
    Base = 1
    Cap = 2
    Window = 3
    Interval = 1
    Steps = 2
    AttemptLimit = 2
    MaxEvents = 1
PROPERTIES RestartsArePaced  FaultIsRepaired
CHECK_DEADLOCK FALSE
