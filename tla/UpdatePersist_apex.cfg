SPECIFICATION Spec
CONSTANTS
    Half = 8
    apex = apex
    www = www
    elsewhere = elsewhere
    n1 = n1
    n2 = n2
    d1 = d1
    none = none
    Apex = apex
    Names <- MCNames
    Outside = {elsewhere}
    Data <- MCData
    NoData = none
    TTLs = {0, 300, 3600}
    Mutable <- MCTypes
    Seed <- MCSeed
    WireRequests <- MCApexAndChecked
    HttpRequests <- MCHttp
    History = 2
    WithJournal = TRUE
    JournalMayFail = FALSE
    MaxCommits = 3
INVARIANTS
    ApexSurvives
    HttpReplacesNS
    AcknowledgedIsDurable
