\* Two clients, two commands each, one crash at any point, under the scheduler's fairness.
SPECIFICATION FairStoreSpec
CONSTANTS
    c1 = c1
    c2 = c2
    r1 = r1
    bad = bad
    large = large
    none = none
    Clients <- TwoClients
    Sets <- AllSets
    Valid <- ValidSets
    Fits <- SmallSets
    NoRules <- none
    Absent = Absent
    Unreadable = Unreadable
    MaxSubmits = 2
    MaxCrashes = 1
INVARIANTS
    ActiveIsPersisted
    ActiveIsValid
    AcknowledgedIsDurable
PROPERTIES
    FileReplacedWhole
    ReplacementAnswered
