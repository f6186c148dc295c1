SPECIFICATION FairSpec
CONSTANTS
    BUFFER_SIZE = 3
    FifoSize = 4
    messageTimeout = 3
    InMessage = 2
    Between = 6
    MillisMod = 8
    BytesPerTick = 2
    MaxLag = 1
    PrintLag = 2
INVARIANTS TypeOK MessageIsWhole
PROPERTIES SilenceShowsAll
