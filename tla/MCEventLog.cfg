CONSTANTS
    MaxEvents = 4
    MaxBoots = 2
    MaxFaults = 2
    MaxLines = 2
    Widths <- TwoBytes
SPECIFICATION FairSpec
INVARIANTS
    TypeOK
    LogIsOrdered
    DaemonLinesSurvive
    LogIsBounded
    NothingIsSkippedBelowTheCap
    PolledInOrderBelowTheCap
PROPERTIES
    TurnsShowUp
CHECK_DEADLOCK FALSE
