CONSTANTS
    pilot = pilot
    daemon = daemon
    Client <- Clients
    Pilot <- Pilots
    MaxRequests = 2
    MaxBoots = 2
    None = None
SPECIFICATION FairSpec
INVARIANTS
    TypeOK
    OneInferenceAtATime
    LoadsAreOwed
PROPERTIES
    CallsEnd
CHECK_DEADLOCK FALSE
