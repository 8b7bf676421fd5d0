----------------------------- MODULE JsonlOutbox -----------------------------
(***************************************************************************)
(* The JSONL audit outbox of app/services/outbox.py: several processes     *)
(* append records to one file under a sidecar lock.  A write may be short, *)
(* a process may die and the machine may lose power between any two system *)
(* calls; what fsync has not returned for may be lost or torn.             *)
(***************************************************************************)
EXTENDS Naturals, Sequences, FiniteSets

CONSTANTS
    Writer,
    EventId,
    NoEventId,          \* the event_id of a record is missing or blank
    Event,              \* contents appended with require_event_id
    Entry,              \* contents appended without: index entries, pipe results
    Nobody,             \* the lock is free
    MaxFaults,          \* bound on short writes, errors, crashes and power losses
    MaxLines            \* length of the file up to which keyless records are appended

ASSUME NobodyAssumption == Nobody \notin Writer
ASSUME BoundsAssumption == MaxFaults \in Nat /\ MaxLines \in Nat
ASSUME NoEventIdAssumption == NoEventId \notin EventId
ASSUME GarbledAssumption ==    \* the mark of an unreadable line
    "garbled" \notin EventId \cup {NoEventId}

\* What append_jsonl_record is called with, and what it accepts.
Call == [event_id : EventId \cup {NoEventId}, content : Event \cup Entry]
Record == {r \in Call : r.content \in Event => r.event_id # NoEventId}

HasId(r) == r.event_id \in EventId

\* A line that json.loads refuses: a fragment, or two records run together.
Garbled == [event_id |-> "garbled", content |-> "garbled"]

\* A line of the file: what it parses to, and whether its LF is there.
Line == [rec : Record \cup {Garbled}, ended : BOOLEAN]

VARIABLES
    file,      \* the lines
    durable,   \* how many of them a returned fsync covers
    lock,      \* holder of the sidecar flock
    pc, rec,   \* each writer's step, and the record it appends
    records,   \* what each writer read from the file
    returned,  \* history: records whose append returned True since the last power loss
    synced,    \* history: how many appends of each record returned True after their fsync
    faults

vars == <<file, durable, lock, pc, rec, records, returned, synced, faults>>

Init ==
    /\ file = <<>>
    /\ durable = 0
    /\ lock = Nobody
    /\ pc = [w \in Writer |-> "idle"]
    /\ rec = [w \in Writer |-> Garbled]
    /\ records = [w \in Writer |-> <<>>]
    /\ returned = {}
    /\ synced = [r \in Record |-> 0]
    /\ faults = 0
-----------------------------------------------------------------------------
LastEnded(f) == f = <<>> \/ f[Len(f)].ended

\* O_APPEND puts the bytes right behind the last byte: behind a line without
\* its LF they become part of that line.
AppendBytes(f, line) ==
    IF LastEnded(f)
    THEN Append(f, line)
    ELSE [f EXCEPT ![Len(f)] = [rec |-> Garbled, ended |-> line.ended]]

Malformed(f) == \E i \in 1 .. Len(f) : f[i].rec = Garbled

Fault ==
    /\ faults < MaxFaults
    /\ faults' = faults + 1

\* The with block is left: the lock is released and the record forgotten.
Leave(w) ==
    /\ lock' = Nobody
    /\ pc' = [pc EXCEPT ![w] = "idle"]
    /\ rec' = [rec EXCEPT ![w] = Garbled]
    /\ records' = [records EXCEPT ![w] = <<>>]

\* Variant of Lock: require_event_id is not enforced.
LockUnvalidated(w, r) ==
    /\ pc[w] = "idle"
    /\ HasId(r) \/ Len(file) < MaxLines
    /\ lock = Nobody
    /\ lock' = w
    /\ rec' = [rec EXCEPT ![w] = r]
    /\ pc' = [pc EXCEPT ![w] = "read"]
    /\ UNCHANGED <<file, durable, records, returned, synced, faults>>

\* Variant of Lock: the lock is shared.
LockShared(w, r) ==
    /\ pc[w] = "idle"
    /\ r \in Record
    /\ HasId(r) \/ Len(file) < MaxLines
    /\ lock' = w
    /\ rec' = [rec EXCEPT ![w] = r]
    /\ pc' = [pc EXCEPT ![w] = "read"]
    /\ UNCHANGED <<file, durable, records, returned, synced, faults>>

\* append_jsonl_record: a call that requires an event id and has none raises;
\* otherwise jsonl_outbox_append_lock, flock(LOCK_EX) on the sidecar file.
Lock(w, r) ==
    /\ pc[w] = "idle"
    /\ r \in Record
    /\ HasId(r) \/ Len(file) < MaxLines
    /\ lock = Nobody
    /\ lock' = w
    /\ rec' = [rec EXCEPT ![w] = r]
    /\ pc' = [pc EXCEPT ![w] = "read"]
    /\ UNCHANGED <<file, durable, records, returned, synced, faults>>

\* _read_jsonl_records_unlocked: any malformed line refuses the append.
ReadCorrupt(w) ==
    /\ pc[w] = "read"
    /\ Malformed(file)
    /\ Leave(w)
    /\ UNCHANGED <<file, durable, returned, synced, faults>>

\* Variant of Read: malformed lines are skipped.
ReadSkippingMalformed(w) ==
    /\ pc[w] = "read"
    /\ IF LastEnded(file)
       THEN UNCHANGED <<file, durable>>
       ELSE /\ file' = [file EXCEPT ![Len(file)].ended = TRUE]
            /\ durable' = Len(file)
    /\ records' = [records EXCEPT ![w] = file']
    /\ pc' = [pc EXCEPT ![w] = "check"]
    /\ UNCHANGED <<lock, rec, returned, synced, faults>>

\* Otherwise a complete last record without its LF is given one, and synced.
Repair ==
    IF LastEnded(file)
    THEN UNCHANGED <<file, durable>>
    ELSE /\ file' = [file EXCEPT ![Len(file)].ended = TRUE]
         /\ durable' = Len(file)

Read(w) ==
    /\ pc[w] = "read"
    /\ ~Malformed(file)
    /\ Repair
    /\ records' = [records EXCEPT ![w] = file']
    /\ pc' = [pc EXCEPT ![w] = "check"]
    /\ UNCHANGED <<lock, rec, returned, synced, faults>>

\* read_jsonl_outbox_records: a reader takes the lock and repairs in the same way.
ReadRecords ==
    /\ lock = Nobody
    /\ ~LastEnded(file) /\ ~Malformed(file)
    /\ Repair
    /\ UNCHANGED <<lock, pc, rec, records, returned, synced, faults>>

\* The lines with the event id of w's record; a record without one is compared
\* with none.
SameId(w) ==
    {i \in 1 .. Len(records[w]) :
        HasId(rec[w]) /\ records[w][i].rec.event_id = rec[w].event_id}

\* The same record is there already: a retry is a no-op that succeeds.
CheckDuplicate(w) ==
    /\ pc[w] = "check"
    /\ SameId(w) # {}
    /\ \A i \in SameId(w) : records[w][i].rec = rec[w]
    /\ returned' = returned \cup {rec[w]}
    /\ Leave(w)
    /\ UNCHANGED <<file, durable, synced, faults>>

\* The event id maps to different content: JsonlOutboxEventIdConflictError.
CheckConflict(w) ==
    /\ pc[w] = "check"
    /\ \E i \in SameId(w) : records[w][i].rec # rec[w]
    /\ Leave(w)
    /\ UNCHANGED <<file, durable, returned, synced, faults>>

\* Variant of Write: the file is opened without O_APPEND, at its start.
WriteAtStart(w) ==
    /\ pc[w] = "check"
    /\ SameId(w) = {}
    /\ file' = IF file = <<>> THEN <<[rec |-> rec[w], ended |-> TRUE]>>
               ELSE [file EXCEPT ![1] = [rec |-> rec[w], ended |-> TRUE]]
    /\ pc' = [pc EXCEPT ![w] = "sync"]
    /\ UNCHANGED <<durable, lock, rec, records, returned, synced, faults>>

\* _append_jsonl_outbox_event_unlocked: one os.write of the whole line.
Write(w) ==
    /\ pc[w] = "check"
    /\ SameId(w) = {}
    /\ file' = AppendBytes(file, [rec |-> rec[w], ended |-> TRUE])
    /\ pc' = [pc EXCEPT ![w] = "sync"]
    /\ UNCHANGED <<durable, lock, rec, records, returned, synced, faults>>

\* The write is short (a fragment, or all but the LF): OSError.
WriteShort(w) ==
    /\ pc[w] = "check"
    /\ SameId(w) = {}
    /\ Fault
    /\ \E part \in {Garbled, rec[w]} :
          file' = AppendBytes(file, [rec |-> part, ended |-> FALSE])
    /\ Leave(w)
    /\ UNCHANGED <<durable, returned, synced>>

\* Variant of Sync: the append returns without an fsync.
ReturnWithoutSync(w) ==
    /\ pc[w] = "sync"
    /\ returned' = returned \cup {rec[w]}
    /\ synced' = [synced EXCEPT ![rec[w]] = @ + 1]
    /\ Leave(w)
    /\ UNCHANGED <<file, durable, faults>>

\* os.fsync returns, and so does append_jsonl_record.
Sync(w) ==
    /\ pc[w] = "sync"
    /\ durable' = Len(file)
    /\ returned' = returned \cup {rec[w]}
    /\ synced' = [synced EXCEPT ![rec[w]] = @ + 1]
    /\ Leave(w)
    /\ UNCHANGED <<file, faults>>

\* The process dies, or a system call raises: the kernel drops the flock, and
\* the file keeps what was written.
Die(w) ==
    /\ pc[w] # "idle"
    /\ Fault
    /\ Leave(w)
    /\ UNCHANGED <<file, durable, returned, synced>>

\* The machine stops: of the lines no fsync covers, a prefix survives, and the
\* first one lost may leave a fragment or miss its LF.
PowerLoss ==
    /\ Fault
    /\ \E n \in durable .. Len(file) :
          \/ file' = SubSeq(file, 1, n)
          \/ /\ n < Len(file)
             /\ \E part \in {Garbled, file[n + 1].rec} :
                   file' = Append(SubSeq(file, 1, n), [rec |-> part, ended |-> FALSE])
    /\ lock' = Nobody
    /\ pc' = [w \in Writer |-> "idle"]
    /\ rec' = [w \in Writer |-> Garbled]
    /\ records' = [w \in Writer |-> <<>>]
    /\ durable' = Len(file')
    /\ returned' = {}
    /\ UNCHANGED synced

Next ==
    \/ \E w \in Writer :
          \/ \E r \in Call : Lock(w, r)
          \/ ReadCorrupt(w) \/ Read(w) \/ CheckDuplicate(w) \/ CheckConflict(w)
          \/ Write(w) \/ WriteShort(w) \/ Sync(w) \/ Die(w)
    \/ ReadRecords
    \/ PowerLoss

Spec == Init /\ [][Next]_vars
-----------------------------------------------------------------------------
\* Well-typed state: at most the last line is unended, and no line has an event
\* that requires an id and lacks it.
TypeOK ==
    /\ file \in Seq(Line)
    /\ \A i \in 1 .. Len(file) - 1 : file[i].ended
    /\ durable \in 0 .. Len(file)
    /\ lock \in Writer \cup {Nobody}
    /\ pc \in [Writer -> {"idle", "read", "check", "sync"}]
    /\ rec \in [Writer -> Record \cup {Garbled}]
    /\ records \in [Writer -> Seq(Line)]
    /\ returned \subseteq Record /\ synced \in [Record -> Nat]
    /\ faults \in 0 .. MaxFaults

Copies(r) == Cardinality({i \in 1 .. Len(file) : file[i].rec = r})

\* What append_jsonl_record vouched for stays in the file, whatever short write,
\* dying process, retry or later append follows.  Every append that returned
\* True after its fsync has a line of its own, and so a record without an
\* event id is there at least as often as its appends returned (one that died
\* after its write is there once more).  A record with an event id is there
\* exactly once.  A power loss takes only answers "already there" given
\* without an fsync of the line they rest on.
ReturnedIsRecorded ==
    \A r \in Record :
        /\ Copies(r) >= synced[r]
        /\ HasId(r) /\ (r \in returned \/ synced[r] > 0) => Copies(r) = 1

\* The audit history never holds two records of one event id, although the
\* check and the append are separate steps of several processes, and records
\* without an id are appended among them.
UniqueEventIds ==
    \A i, j \in 1 .. Len(file) :
        (HasId(file[i].rec) /\ file[i].rec.event_id = file[j].rec.event_id) => i = j

\* A torn write stays where an operator can cut it off: nothing is ever
\* appended behind it, so every line but the last parses.
TornOnlyAtTail ==
    \A i \in 1 .. Len(file) : file[i].rec = Garbled => i = Len(file) /\ ~file[i].ended

\* What no step may do to the part of history an fsync covers: drop or change
\* a record of it.
DurablePrefixKept ==
    [][\A i \in 1 .. durable : i <= Len(file') /\ file'[i].rec = file[i].rec]_vars
=============================================================================
