SPECIFICATION FairSpec
CONSTANTS
    u1 = u1
    u2 = u2
    None = None
    URLs <- TwoURLs
    MaxSessions = 3
    MaxFailures = 1
INVARIANT NeverForgotten
PROPERTY Reregisters
PROPERTY ChannelDrains
CHECK_DEADLOCK FALSE
