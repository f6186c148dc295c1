SPECIFICATION Spec
CONSTANTS
    GapTicks = 2
    BufLen = 4
    EntryMod = 4
    TickMax = 5
INVARIANT EntriesAreDurations
