\* One proxy connection and two clients share a store with room for two records,
\* under the fairness of the scheduler.
SPECIFICATION FairSpec
CONSTANTS
    p1 = p1
    c1 = c1
    c2 = c2
    Connections <- OneProxy
    Clients <- TwoClients
    Requests <- MCRequests
    Capacity = 2
    MaxCommands = 1
INVARIANTS
    CountTracksIds
    MissingOnlyByEviction
    PendingExplained
    ReplayedBodyWasWhole
    ResultIsOwnAndComplete
PROPERTIES
    SettledIsFinal
    ImplementsCaptureLog
    CommandsAnswered
    RecordsSettle
