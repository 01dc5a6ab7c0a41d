SPECIFICATION FairSpec
CONSTANTS
    Conns = {c1, c2, c3}
    None = None
INVARIANTS NoneOutlivesClose ContextOfSession
 
CHECK_DEADLOCK FALSE
