SPECIFICATION LiveSpec
CONSTANTS
    None = None
    Reaper = Reaper
    a = a
    b = b
    t1 = t1
    t2 = t2
    n = n
    m = m
    Id = {a, b}
    Number = {n}
    Task = {t1, t2}
    MaxEngines = 1
    MaxResident = 1
    LinkTtl = 2
    AbandonTtl = 2
    DemoteIdle = 1
    MaxEbb = 2
    OpSets <- Lanes
  
PROPERTIES AbandonedIsReclaimed
CHECK_DEADLOCK FALSE
