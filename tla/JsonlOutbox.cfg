\* Two writers on a machine that can lose power; records that agree or conflict on their event id, and one that has none.
CONSTANTS
    w1 = w1 w2 = w2
    Writer = {w1, w2}
    EventId = {"e1", "e2"}
    NoEventId = NoEventId
    Event = {"event"}
    Entry = {"entry"}
    Nobody = Nobody
    MaxFaults = 4
    MaxLines = 4
SYMMETRY WriterSymmetry
SPECIFICATION Spec
INVARIANTS TypeOK ReturnedIsRecorded UniqueEventIds TornOnlyAtTail
PROPERTIES DurablePrefixKept
