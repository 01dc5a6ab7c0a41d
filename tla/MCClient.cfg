SPECIFICATION FairSpec
CONSTANTS
    c1 = c1
    c2 = c2
    None = None
    Calls <- FirstCall
    TimedCalls <- FirstCall
    MaxDials = 2
    ConcurrentCallbacks = FALSE
INVARIANT NoDeafReader
PROPERTY ImplementsMethodCall
PROPERTY RedialsBroken
PROPERTY CallbacksFinish
 
CHECK_DEADLOCK FALSE
