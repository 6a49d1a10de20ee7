SPECIFICATION Spec
CONSTANTS
    Half = 8
    Transfers = {t1, t2}
    Writers = {w1, w2}
    Offered <- MCTwoSerials
    MaxOwners = 2
    SavesMayFail = TRUE
    Clustered = TRUE
SYMMETRY Goroutines
VIEW Relevant
INVARIANTS
    QueueTypeOK
    PendingHasWriter
PROPERTIES
    ClosedIsQuiet
