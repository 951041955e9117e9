SPECIFICATION MCSpec
CONSTANTS
    a1 = a1
    a2 = a2
    stray = stray
    Row = {a1, a2}
    Stray = {stray}
    parked = parked
    None = None
    MaxFaults = 3
    Id <- MCId
    Conv = {"number", "aci"}
    Shell = "number"
    Canon = "aci"
    Incoming <- MCIncoming
    Mention = {"m1"}
    Timed <- MCIncoming
    Once = {"m2"}
    AtOf <- MCAtOf
    MaxAt = 2
    Named <- MCNamed
    Timer = 1
    Retention = 1
    Safety = 0
    Keep = 1
    Batch = 1
    SweepCap = 1
    MaxTime = 2
    MaxLandings = 2
    OnceAtt = {"photo"}
    PlainAtt = {}
    StoryAtt = {"story"}
    LegacyAtt = {"photo"}
    Handle = {"h1", "h2"}
    Chunks = 1
    MaxHandles = 1
    HandleTTL = 1
    MediaTTL = 0
    Quota = 1
    Budget = 1
    MaxNow = 1
    Version = {"v1", "v2", "v3"}
    MaxDamage = 2
INVARIANTS
    ServedWhole
    BadgeBacked
    
    WayBack
PROPERTIES
    StoresStay
    TotalHeals
    DueRowLeaves
CHECK_DEADLOCK FALSE
