SPECIFICATION FairSpec
CONSTANTS
    ServoCount = 2
    SERVOS_PER_TIMER = 2
    Pins <- TwoPins
    Widths <- TwoWidths
    REFRESH = 7
    Margin = 2
    TcntMod = 12
    MaxWork = 1
    MaxLag = 1
INVARIANTS TypeOK FrameInTime
PROPERTIES PulseIsAsWritten RefreshNotTooSoon KeepsPulsing
