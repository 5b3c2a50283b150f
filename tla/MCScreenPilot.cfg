CONSTANTS
    here = here
    there = there
    Place <- Places
    Nowhere = Nowhere
    MaxSteps = 2
SPECIFICATION FairSpec
INVARIANTS
    TypeOK
    ClicksHitTheTarget
    NarrationIsTrue
    GuideCleansUp
PROPERTIES
    AutoGuideEnds
CHECK_DEADLOCK FALSE
