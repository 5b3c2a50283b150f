CONSTANTS
    MaxFrames = 4
    MaxFired = 2
    AudioMax = 2
    MaxWait = 2
    SilenceTail = 2
    MaxUtterance = 3
SPECIFICATION FairSpec
INVARIANTS
    TypeOK
    ActivationsAreKept
    FramesAreInOrder
    NothingStaleIsHeard
    UtteranceIsBounded
PROPERTIES
    OneSessionAtATime
    EveryWakeIsServed
CHECK_DEADLOCK FALSE
