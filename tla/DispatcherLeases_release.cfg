\* release, whose reads and writes are separate transactions, against takeovers.
CONSTANTS
    a1 = a1 a2 = a2 t1 = t1
    Task = {t1}
    Agent = {a1, a2}
    Puller = {}
    RowCommands = {"release"}
    MoveTargets = {}
    Ttl = 1
    GuardTtl = 1
    NoAgent = NoAgent
    NoGuard = NoGuard
    MaxTime = 4
    MaxLeases = 3
    MaxGuards = 0
    MaxFaults = 0
SPECIFICATION Spec
INVARIANTS Exclusion
SYMMETRY Symmetry
