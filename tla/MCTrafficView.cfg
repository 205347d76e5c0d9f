CONSTANTS
    Capacity = 1
    Limit = 1
    MaxIds = 3
    MaxRestarts = 1
SPECIFICATION FairSpec
INVARIANTS
    ViewIsConsistent
PROPERTIES
    NothingTakenBack
    FollowsDaemon
