\* The daemon alone, two observations of one note, two reasons to defer.
CONSTANTS
    e1 = e1 e2 = e2 note = note daemon = daemon drain = drain
    Daemon = {daemon}
    Drain = {}
    Event = {e1, e2}
    Note = {note}
    NoteOf <- MCNoteOf
    Reason = {"missing_uuid", "file_unstable"}
    NoId = NoId
    MaxTransientRetryAttempts = 2
    MaxFaults = 2
SPECIFICATION Spec
INVARIANTS TypeOK NoObservationLost ExhaustedAfterBudget
PROPERTIES EveryObservationConcludes
