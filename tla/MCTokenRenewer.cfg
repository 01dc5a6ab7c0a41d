SPECIFICATION FairSpec
CONSTANTS
    MaxDials = 2
    Requests = {r1}
INVARIANTS LoopServes ContextFollowsSession
PROPERTIES TokenRenewed
CHECK_DEADLOCK FALSE
