SPECIFICATION FairSpec
CONSTANTS
    Requests = {r1, r2}
    k1 = k1
    k2 = k2
    Keys = {k1, k2}
    None = None
    NoOptions = NoOptions
    KontrolUser = "kontrol"
    Auths <- MCAuths
    FirstKey = k1
    Settings <- MCSettings
    Me <- MCMe
    MethodPre <- MCMethodPre
    KitePre <- MCKitePre
    MethodPost <- MCMethodPost
    KitePost <- MCKitePost
    Finals <- MCFinals
    Capacity = 1
    MaxFills = 1
    MaxRotations = 1
INVARIANTS ServedIsAuthentic ClientIdentity AnswerIsPromised
PROPERTY Answered
CHECK_DEADLOCK FALSE
