SPECIFICATION FairSpec
CONSTANTS
    Prim = a
    Joiner = b
    None = None
    Nodes = {a, b}
    Tokens = {k1}
    Joins <- OneJoins
    StartRole <- AllPrimary
    StartGen <- FreshGen
    MaxEvents = 3
INVARIANT
    TypeOK
    TokenOnce
    ViewsPromise
PROPERTY
    CatchesUp
    ReplicaSpec
CHECK_DEADLOCK FALSE
