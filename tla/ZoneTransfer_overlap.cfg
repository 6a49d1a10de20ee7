SPECIFICATION TransferSpec
CONSTANTS
    Half = 8
    apex = apex
    www = www
    n1 = n1
    d1 = d1
    d2 = d2
    none = none
    Apex = apex
    Names <- MCNames
    Outside = {}
    Data <- MCData
    NoData = none
    TTLs = {0, 300, 3600}
    Mutable <- MCTypes
    Seed <- MCSeed
    WireRequests <- MCToggle
    HttpRequests <- MCNone
    WithJournal = TRUE
    JournalMayFail = FALSE
    History = 2
    MaxCommits = 3
    Workers = {"loop", "force"}
INVARIANTS
    TransfersExact
    SecondaryNeverAhead
PROPERTIES
    Converges
