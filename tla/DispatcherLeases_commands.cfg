\* One agent using every command, racing the sweep and a pull; a reclamation may fail.
CONSTANTS
    a1 = a1 a2 = a2 t1 = t1
    Task = {t1}
    Agent = {a1}
    Puller = {"p1"}
    RowCommands = {"release", "block", "unblock", "link_pr", "update", "move"}
    MoveTargets = {"completed"}
    Ttl = 1
    GuardTtl = 1
    NoAgent = NoAgent
    NoGuard = NoGuard
    MaxTime = 3
    MaxLeases = 2
    MaxGuards = 0
    MaxFaults = 1
SPECIFICATION Spec
INVARIANTS Exclusion
PROPERTIES ExpiredLeaseCleared
