\* A transfer drain alone, two observations of one note.
CONSTANTS
    e1 = e1 e2 = e2 note = note daemon = daemon drain = drain
    Daemon = {}
    Drain = {drain}
    Event = {e1, e2}
    Note = {note}
    NoteOf <- MCNoteOf
    Reason = {"missing_or_unstable_note"}
    NoId = NoId
    MaxTransientRetryAttempts = 3
    MaxFaults = 0
SPECIFICATION Spec
INVARIANTS NoObservationLost
