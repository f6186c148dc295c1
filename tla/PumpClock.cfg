SPECIFICATION TimedSpec
CONSTANTS
    NumChannels = 1
    Wired <- KillPins
    MaxChanging = 1
    MaxResets = 1
    MillisMod = 32
    MaxLag = 1
    BlinkInterval = 10
    DisplayInterval = 8
INVARIANT LedShowsPumps
PROPERTIES Heartbeat KeepsReporting
