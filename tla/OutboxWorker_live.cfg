\* The supervised daemon, with the canonical connection failing at will and
\* rows created in either order: the queue drains once outages stop.
CONSTANTS
    m1 = m1 m2 = m2 e1 = e1
    daemon = daemon drain = drain
    Daemon = {daemon}
    Drain = {}
    Msg = {m1, m2}
    Event = {e1}
    EventOf <- MCEventOf
    Stamp <- MCTwoStamps
    MaxDispatchAttempts = 2
    SeenCap = 4
    SeenKeep = 2
    Degraded = TRUE
    MaxFaults = 1
SPECIFICATION Spec
PROPERTIES EveryRowSettles
