SPECIFICATION FairSpec
CONSTANTS
    EarlyReturn = FALSE
    TsMod = 24
    LoMod = 12
    Granule = 2
    TxAntDelay = 1
    RespDelay = 2
    RxDelay = 3
    RxTimeout = 3
    SleepTime = 6
    SetupTime = 6
    Preamble = 1
    TimeOfFlight = 1
    MaxLag = 3
    MaxResets = 1
    Phases <- OnePhase
INVARIANTS TypeOK AnswerFindsReceiverOn
PROPERTIES ImplementsRanging PollIsSent WaitEnds ListensAgain
