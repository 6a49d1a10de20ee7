SPECIFICATION Spec
CONSTANTS
    lan = lan
    wan = wan
    w1 = w1
    w2 = w2
    Clients = {lan, wan}
    Scopes = {"internal", "public"}
    StartPolicy <- LanView
    Policies <- NewViews
    Workers = {w1}
    Configs <- PlainMode
    Names = {"q", "x"}
    QName = "q"
    QType = "A"
    TTLs = {1}
    MaxEvents = 1
    MaxEpoch = 1
    MaxQueries = 2
INVARIANT
    EpochOutdates
CHECK_DEADLOCK FALSE
