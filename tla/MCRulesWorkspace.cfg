CONSTANTS
    MaxId = 3
    MaxEdits = 3
    Calls = {c1, c2}
    Foreign <- Sets
SYMMETRY Symmetry
SPECIFICATION Spec
INVARIANTS
    KnowsWhatIsStored
    SelectionIsFaithful
PROPERTY SaveKeepsEdits
