SPECIFICATION Spec
CONSTANTS
    lan = lan
    wan = wan
    w1 = w1
    w2 = w2
    Clients = {lan, wan}
    Scopes = {"internal", "public"}
    StartPolicy <- LanView
    Policies <- NewViews
    Workers = {w1, w2}
    Configs <- Modes
    Names = {"q", "x", "y"}
    QName = "q"
    QType = "A"
    TTLs = {1}
    MaxEvents = 2
    MaxEpoch = 1
    MaxQueries = 3
SYMMETRY WorkersAlike
INVARIANT
    TypeOK
    ScopeKept
    NothingOutlives
    OneRefresh
    FlagHeld
    GoodAnswerKept
    ChainFollowed
    KindsHonest
CHECK_DEADLOCK FALSE
