SPECIFICATION FairSpec
CONSTANTS
    None = None
    s = s
    again = again
    d = d
    l = l
    c = c
    r = r
    fin1 = fin1
    fin2 = fin2
    a = a
    Frame <- MCFrame
    Scenes <- MCScenes
    Id <- MCId
    Kind <- MCKind
    Account <- MCAccount
    RecentIds = 1
    MaxPending = 3
    MaxPerAccount = 2
    LaneCapacity <- One
    GlobalCapacity <- One
    QueueCapacity = 1
    MaxEvents = 1
INVARIANTS BudgetIsExact AnsweredOnce
PROPERTIES SendSeesItsAccount AdmittedIsAnswered
CHECK_DEADLOCK FALSE
