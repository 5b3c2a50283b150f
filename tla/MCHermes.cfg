CONSTANTS
    Voice = voice
    Clis = {cli}
    Configs <- MCConfigs
    Prompts <- MCPrompts
    MaxTurns = 2
    GeneralK = 1
    TrendTail = 3
SPECIFICATION FairSpec
INVARIANTS
    TypeOK
    SendIsGranted
    SendAtMostOnce
    ReplyIsHonest
    MemoryIsAnswered
PROPERTIES
    OnlyRoutedIsSent
    VoiceTurnEnds
    ImplementsConsent
CHECK_DEADLOCK FALSE
