CONSTANTS
    MaxEvents = 4
    MaxBoots = 1
    MaxFaults = 0
    MaxLines = 2
    Widths <- OneOrTwoBytes
SPECIFICATION Spec
INVARIANTS
    NoEventIsReplayed
CHECK_DEADLOCK FALSE
