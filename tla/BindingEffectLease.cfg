\* Two processes, crashes, a failing registry write.
CONSTANTS
    Proc = {p1, p2}
    Holder = {1, 2, 3}
    None = None
    Timeouts = TRUE
    MaxCrashes = 2
    MaxFaults = 1
SPECIFICATION Spec
INVARIANTS TypeOK Recoverable HolderListed
PROPERTIES ImplementsWindow WaitersEnter
