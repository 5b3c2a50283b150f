CONSTANTS
    w1 = w1
    w2 = w2
    m1 = m1
    m2 = m2
    Writers = {w1}
    Users = {"dev"}
    Models = {m1, m2}
    Unset = Unset
    MaxSets = 2
    MaxFaults = 0
    MaxBoots = 1
SPECIFICATION Spec
INVARIANT
    SwitchesPersist
CHECK_DEADLOCK FALSE
