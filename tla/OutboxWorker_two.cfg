\* The daemon and a transfer drain on the same rows at the same time, on the
\* canonical connection, with a dedup set that overflows.
CONSTANTS
    m1 = m1 m2 = m2 e1 = e1
    daemon = daemon drain = drain
    Daemon = {daemon}
    Drain = {drain}
    Msg = {m1, m2}
    Event = {e1}
    EventOf <- MCEventOf
    Stamp <- MCOneStamp
    MaxDispatchAttempts = 2
    SeenCap = 1
    SeenKeep = 1
    Degraded = FALSE
    MaxFaults = 3
SYMMETRY TwinSymmetry
SPECIFICATION Spec
INVARIANTS TypeOK NoSilentLoss PoisonBudget NoStrandedAudit
PROPERTIES RowsOnlyAdvance ImplementsAtLeastOnce
