SPECIFICATION ProxyFairSpec
CONSTANTS
    Clients = {s1, s2}
    NoClient = NoClient
    MaxConns = 2
INVARIANT RightTunnel
 
CHECK_DEADLOCK FALSE
