SPECIFICATION MCSpec
CONSTANTS
    None = None
    a1 = a1
    a2 = a2
    t1 = t1
    t2 = t2
    parked = parked
    Acct = {a1, a2}
    Worker = {t1, t2}
    Lines = 2
    BatchLines = 2
    MaxAttempts = 1
    MaxCalls = 3
    MaxFaults = 1
INVARIANTS ConvergedRow  
    CompletedIsWhole RunningIsOwned SlotIsOwned
 
SYMMETRY Alike
CHECK_DEADLOCK FALSE
