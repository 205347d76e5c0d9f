\* One daemon, started four times, with failures and kills at every step, and
\* intercepted connections while it runs.
SPECIFICATION InterceptionSpec
CONSTANTS
    d1 = d1
    k1 = k1
    k2 = k2
    k3 = k3
    k4 = k4
    t1 = t1
    t2 = t2
    Daemons <- OneDaemon
    Keys <- FourKeys
    Absent = Absent
    Torn = Torn
    MaxStarts = 4
    Tasks <- TwoTasks
    Hosts = {"a", "b"}
    MaxCalls = 2
SYMMETRY KeysAndTasks
INVARIANTS
    PairIsConsistent
    LeafIsReused
PROPERTIES
    RestartKeepsAuthority
