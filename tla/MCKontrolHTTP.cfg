SPECIFICATION Spec
CONSTANTS
    u1 = u1
    u2 = u2
    h1 = h1
    h2 = h2
    h3 = h3
    None = None
    NoRecord = NoRecord
    URLs <- TwoURLs
    Records <- ThreeRecords
    Timeout = 3
    UpdateInterval = 6
    KeyTTL = 9
    Insert = TRUE
    MaxFailures = 1
    MaxRestarts = 1
INVARIANT UpdateNeverBlocks
INVARIANT KnownIsListed
INVARIANT SilentIsUnlisted
INVARIANT UpdatersEnd
SYMMETRY Symmetry
CHECK_DEADLOCK FALSE
