CONSTANTS
    Voice = voice
    Clis = {}
    Configs <- GateOnly
    Prompts <- DeepWork
    MaxTurns = 2
    GeneralK = 1
    TrendTail = 3
SPECIFICATION Spec
INVARIANTS
    DeclinedStaysOnDevice
CHECK_DEADLOCK FALSE
