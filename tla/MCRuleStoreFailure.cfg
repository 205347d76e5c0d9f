\* The error event of a failed save against what is in the file.
SPECIFICATION StoreSpec
CONSTANTS
    c1 = c1
    c2 = c2
    r1 = r1
    bad = bad
    large = large
    none = none
    Clients <- TwoClients
    Sets <- AllSets
    Valid <- ValidSets
    Fits <- SmallSets
    NoRules <- none
    Absent = Absent
    Unreadable = Unreadable
    MaxSubmits = 1
    MaxCrashes = 0
SYMMETRY ClientSymmetry
PROPERTIES
    FailureMeansNotPersisted
