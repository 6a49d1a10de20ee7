SPECIFICATION Spec
CONSTANTS
    ACLNames = {"a"}
    Workers = {1}
    Configs <- MCViewFirst
    MaxRequests = 1
    MaxCrashes = 0
INVARIANT AnswersAsAcked
CHECK_DEADLOCK FALSE
