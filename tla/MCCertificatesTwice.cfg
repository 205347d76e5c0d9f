\* Two daemons that may be started at the same time, two starts in all.
SPECIFICATION Spec
CONSTANTS
    d1 = d1
    d2 = d2
    k1 = k1
    k2 = k2
    k3 = k3
    k4 = k4
    Daemons <- TwoDaemons
    Keys <- FourKeys
    Absent = Absent
    Torn = Torn
    MaxStarts = 2
SYMMETRY KeySymmetry
INVARIANTS
    FilesKeepAuthority
