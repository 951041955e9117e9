SPECIFICATION FairSpec
CONSTANTS
    Call = {a, b}
    Mutating = {a}
    CmdCap = 1
    WriteCap = 1
    LineCap = 1
    MaxPending = 1
    MaxNotices = 1
INVARIANTS ToldTheTruth  StoppedChild
PROPERTIES ShutdownReturns 
CHECK_DEADLOCK FALSE
