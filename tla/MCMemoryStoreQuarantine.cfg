CONSTANTS
    daemon = daemon
    cloud = cloud
    Proc <- Processes
    MaxRows = 1
    TopK = 1
    MaxClock = 5
    MaxFiles = 3
SYMMETRY Symmetry
SPECIFICATION Spec
INVARIANTS
    OnlyCorruptIsQuarantined
CHECK_DEADLOCK FALSE
