SPECIFICATION KeysFairSpec
CONSTANTS
    Pairs = {p1, p2}
    Kites = {k1}
    None = None
    Self = p2
    Retired = {p1}
    MachineKeyPicker = p1
    TTL = 2
    Leeway = 1
    MaxAdds = 2
    MaxRestarts = 1
PROPERTIES  TokenLives ClientRecovers
CHECK_DEADLOCK FALSE
