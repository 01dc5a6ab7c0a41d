SPECIFICATION Spec
CONSTANTS
    u1 = u1
    u2 = u2
    r1 = r1
    r2 = r2
    g1 = g1
    g2 = g2
    None = None
    NoRecord = NoRecord
    URLs <- TwoURLs
    Records <- TwoRecords
    Updaters <- TwoUpdaters
    Gap = 1
    Timeout = 2
    UpdateInterval = 4
    KeyTTL = 6
    MaxFailures = 1
    MaxRestarts = 1
INVARIANT ActiveIsListed
INVARIANT SilentIsUnlisted
INVARIANT URLSettles
CHECK_DEADLOCK FALSE
SYMMETRY Symmetry
