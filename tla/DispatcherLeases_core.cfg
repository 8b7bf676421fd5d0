\* Two agents, the sweep, one pull at a time and cleanup guards, whose commands
\* may be cut off; every command is one transaction.
CONSTANTS
    a1 = a1 a2 = a2 t1 = t1
    Task = {t1}
    Agent = {a1, a2}
    Puller = {"p1"}
    RowCommands = {}
    MoveTargets = {}
    Ttl = 1
    GuardTtl = 2
    NoAgent = NoAgent
    NoGuard = NoGuard
    MaxTime = 4
    MaxLeases = 3
    MaxGuards = 2
    MaxFaults = 1
SPECIFICATION Spec
INVARIANTS TypeOK Exclusion LiveLeaseKept ActiveLeaseOrNull EvidenceFresh CleanupExclusion
SYMMETRY Symmetry
