\* Durations wrap in an entry, gaps do not: GapTicks + 1 < EntryMod < TickMax.
SPECIFICATION FairSpec
CONSTANTS
    GapTicks = 1
    BufLen = 4
    EntryMod = 3
    TickMax = 4
INVARIANTS TypeOK NoOverrun DecodedIsHeard StartsAfterGap
PROPERTIES NeverStuckStopped SettlesWhenQuiet ImplementsMailbox
