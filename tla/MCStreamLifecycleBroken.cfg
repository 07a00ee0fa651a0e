SPECIFICATION Spec
CONSTANTS
    Sessions = {s1, s2}
    Names = {1, 2}
    Ids <- MCIds
    IdOf <- MCIdOf
    MaxStarts = 2
    FreshNames = TRUE
    Faults = TRUE
    None = None
INVARIANTS
    StopEndsWatcher
SYMMETRY MCSymmetry
