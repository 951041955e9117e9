SPECIFICATION FairSpec
CONSTANTS
    None = None
    e1 = e1
    again = again
    e2 = e2
    e3 = e3
    e4 = e4
    huge = huge
    a = a
    b = b
    Envelope = {e1, again, e2, e3, e4, huge}
    Account <- MCAccount
    Message <- MCMessage
    Weight <- MCWeight
    AccountSlots = 2
    AccountBytes = 2
    QueueSlots = 1
    QueueBytes = 3
    ReceiptSlots = 1
    MaxLives = 1
INVARIANT LandsOnce
PROPERTIES MailboxSpec ActorReturns
CHECK_DEADLOCK FALSE
