\* Two notes, one delivery a minute.
CONSTANTS
    Paths = 2
    RateLimit = 1
    MaxBadTicks = 2
    MaxChanges = 1
    MaxFaults = 1
    NoRow = NoRow
    Kept = Kept
SPECIFICATION Spec
INVARIANTS TypeOK AcceptedWasDelivered
PROPERTIES PrunedIsGone CatchesUp
