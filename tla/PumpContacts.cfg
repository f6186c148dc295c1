\* Both channels, contacts free to change at every moment, clock stopped.
SPECIFICATION FairSpec
CONSTANTS
    NumChannels = 2
    Wired <- FivePins
    MaxChanging = 3
    MaxResets = 1
    MillisMod = 2
    MaxLag = 0
    BlinkInterval = 10
    DisplayInterval = 8
INVARIANTS TypeOK HeldStops
PROPERTIES StartsOnFreshReadings StopsOnlyForCause DryTankIsFilled
