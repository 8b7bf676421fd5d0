\* Two faults in an unchanging vault: an unmeasurable identity, then a crash.
CONSTANTS
    Paths = 2
    RateLimit = 1
    MaxBadTicks = 2
    MaxChanges = 0
    MaxFaults = 2
    NoRow = NoRow
    Kept = Kept
SPECIFICATION Spec
PROPERTIES PrunedIsGone
