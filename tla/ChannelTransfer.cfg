\* A service and a worker started by hand, two stopped windows of two controllers.
SPECIFICATION Spec
CONSTANTS
    Controller = {c1, c2}
    Consumer = {watcher, cli}
    Watcher = watcher
    Command = {cli}
    WatcherEnabled = TRUE
    Row = {r1}
    None = None
    MaxWindows = 2
    MaxCrashes = 1
SYMMETRY TransferSymmetry
INVARIANTS TypeOK OneWriter DrainedBeforeMove RegistriesFollow ServicesStayDown Resumable
PROPERTY LiveClaimKept
CHECK_DEADLOCK FALSE
