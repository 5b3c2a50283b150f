CONSTANTS
    w1 = w1
    w2 = w2
    m1 = m1
    m2 = m2
    Writers = {w1, w2}
    Users = {"root", "dev"}
    Models = {m1, m2}
    Unset = Unset
    MaxSets = 2
    MaxFaults = 1
    MaxBoots = 1
SPECIFICATION Spec
INVARIANTS
    TypeOK
    SavedIsKept
    RestartApplies
SYMMETRY Symmetry
CHECK_DEADLOCK FALSE
