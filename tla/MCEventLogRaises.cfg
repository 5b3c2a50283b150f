CONSTANTS
    MaxEvents = 5
    MaxBoots = 1
    MaxFaults = 0
    MaxLines = 2
    Widths <- TwoBytes
SPECIFICATION Spec
INVARIANTS
    PublishNeverRaises
CHECK_DEADLOCK FALSE
