SPECIFICATION Spec
CONSTANTS
    None = None
    Reaper = Reaper
    a = a
    b = b
    t1 = t1
    t2 = t2
    n = n
    m = m
    Id = {a, b}
    Number = {n}
    Task = {t1, t2}
    MaxEngines = 2
    MaxResident = 1
    LinkTtl = 1
    AbandonTtl = 1
    DemoteIdle = 1
    MaxEbb = 1
    OpSets <- Commits
INVARIANTS  OneSlotPerNumber
SYMMETRY Symmetry
CHECK_DEADLOCK FALSE
