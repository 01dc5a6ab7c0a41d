SPECIFICATION FairSpec
CONSTANTS
    c1 = c1
    c2 = c2
    None = None
    Calls <- FirstCall
    TimedCalls <- NoCalls
    MaxDials = 2
    ConcurrentCallbacks = FALSE
PROPERTY PendingAnswered
CHECK_DEADLOCK FALSE
