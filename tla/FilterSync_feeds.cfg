SPECIFICATION FairSpec
CONSTANTS
    Feeds = {1, 2}
    Stored = {1}
    Workers = {"w1"}
    Lists <- MCLists
    Entries <- MCEntries
    Names <- MCNames
    MaxRequests = 2
    MaxFaults = 1
INVARIANT
    TypeOK
    OneSyncPerFeed
    EtagBehind
    AllowWins
PROPERTY
    FeedCatchesUp
CHECK_DEADLOCK FALSE
