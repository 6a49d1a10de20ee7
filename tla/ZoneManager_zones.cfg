SPECIFICATION Spec
CONSTANTS
    ACLNames = {"a", "b"}
    Workers = {1, 2}
    Configs <- MCSound
    MaxRequests = 4
    MaxCrashes = 1
INVARIANTS TypeOK AnswersAsAcked ViewHasZone EditsPersist
CHECK_DEADLOCK FALSE
