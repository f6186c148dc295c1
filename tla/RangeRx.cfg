SPECIFICATION FairSpec
CONSTANTS
    EarlyReturn = TRUE
    TsMod = 14
    LoMod = 14
    Granule = 2
    TxAntDelay = 1
    RespDelay = 3
    RxDelay = 3
    RxTimeout = 4
    SleepTime = 7
    SetupTime = 7
    Preamble = 1
    TimeOfFlight = 1
    MaxLag = 4
    MaxResets = 0
    Phases <- OnePhase
PROPERTIES PollIsSent
