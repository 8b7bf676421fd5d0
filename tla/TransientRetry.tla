--------------------------- MODULE TransientRetry ---------------------------
(***************************************************************************)
(* The retry chain of app/workers/outbox_worker.py.  A handler that finds  *)
(* its note unstable, missing or without a uuid re-emits the payload as a  *)
(* NEW row, whose key is scoped to an attempt of the original event, and   *)
(* the source row is acked; the chain ends in a dead letter.  The payload  *)
(* names the original event only when the daemon injected it: the drain's  *)
(* run_once does not, and the key falls back to the note's path.           *)
(***************************************************************************)
EXTENDS OutboxTable, FiniteSets

CONSTANTS
    Daemon, Drain,        \* consumers running run() and run_once()
    Event,                \* observations of notes, named by their event id
    Note, NoteOf,         \* the note each event is about
    Reason,               \* why a handler defers: missing_or_unstable_note, ...
    NoId,                 \* an absent payload.event_id
    MaxTransientRetryAttempts,
    MaxFaults             \* bound on crashes and failing writes

ASSUME NoteOfAssumption == NoteOf \in [Event -> Note]
ASSUME RetryAssumption == MaxTransientRetryAttempts \in Nat /\ MaxFaults \in Nat
ASSUME NoIdAssumption == NoId \notin Event

Consumer == Daemon \cup Drain

VARIABLES
    outbox,     \* the table
    payload,    \* the payload of each of its rows
    pc, msg,    \* each consumer's place in its tick, and the row it polled
    held,       \* the payload it dispatches
    covered,    \* history: observations that a successful handler run came after
    exhausted,  \* history: observations whose chain ended in a dead letter
    tries,      \* history: deferrals of each observation
    faults

vars == <<outbox, payload, pc, msg, held, covered, exhausted, tries, faults>>

NoRow == <<>>
\* obs stands for the observation the payload describes (path, mtime, hash).
NoPayload == [obs |-> NoId, event_id |-> NoId, retries |-> 0]

\* The row the watcher writes for an observation, and the n-th retry row of
\* a source: the original event id or, without one, the note's path.
ObservedRow(e) == derive_idempotency_key("scan", e, <<0, "observed">>)
RetryRow(source, n, reason) == derive_idempotency_key("scan", source, <<n, reason>>)

\* The event id in a row's envelope: a retry row is a new event.
event_id_from_message(id) == IF id[3][1] = 0 THEN id[2] ELSE id

Init ==
    /\ outbox = EmptyTable
    /\ payload = [id \in {} |-> NoPayload]
    /\ pc = [c \in Consumer |-> "idle"]
    /\ msg = [c \in Consumer |-> NoRow]
    /\ held = [c \in Consumer |-> NoPayload]
    /\ covered = {}
    /\ exhausted = {}
    /\ tries = [e \in Event |-> 0]
    /\ faults = 0
-----------------------------------------------------------------------------
Observed == {e \in Event : ObservedRow(e) \in Rows(outbox)}

\* write_outbox_event with its payload: both are dropped when the id exists.
Write(id, body) ==
    /\ outbox' = write_outbox_event(outbox, id, 0)
    /\ payload' = [i \in Rows(outbox) \cup {id} |->
                     IF i \in Rows(outbox) THEN payload[i] ELSE body]

Fault ==
    /\ faults < MaxFaults
    /\ faults' = faults + 1

NextTick(c) ==
    /\ pc' = [pc EXCEPT ![c] = "idle"]
    /\ msg' = [msg EXCEPT ![c] = NoRow]
    /\ held' = [held EXCEPT ![c] = NoPayload]

\* A payload of the watcher carries no event_id of its own.  Emitting the same
\* observation again changes nothing.
Observe(e) ==
    /\ Write(ObservedRow(e), [obs |-> e, event_id |-> NoId, retries |-> 0])
    /\ UNCHANGED <<pc, msg, held, covered, exhausted, tries, faults>>

\* run_once dispatches the payload as it is stored.
run_once_payload(id) == payload[id]

\* run() puts the envelope's event id into a payload that has none.
run_payload(id) ==
    IF payload[id].event_id = NoId
    THEN [payload[id] EXCEPT !.event_id = event_id_from_message(id)]
    ELSE payload[id]

Poll(c) ==
    /\ pc[c] = "idle"
    /\ \E id \in poll_outbox_one(outbox) :
          /\ msg' = [msg EXCEPT ![c] = id]
          /\ held' = [held EXCEPT ![c] =
                        IF c \in Daemon THEN run_payload(id) ELSE run_once_payload(id)]
    /\ pc' = [pc EXCEPT ![c] = "dispatch"]
    /\ UNCHANGED <<outbox, payload, covered, exhausted, tries, faults>>

\* The note is stable and has a uuid.  The handler reads the note as it is
\* now, so it covers every observation of the note made so far.
Handle(c) ==
    /\ pc[c] = "dispatch"
    /\ covered' = covered \cup {e \in Observed : NoteOf[e] = NoteOf[held[c].obs]}
    /\ pc' = [pc EXCEPT ![c] = "ack"]
    /\ UNCHANGED <<outbox, payload, msg, held, exhausted, tries, faults>>

\* Variant of retry_source_id: the key always names the note.
retry_source_id_note(body) == NoteOf[body.obs]

\* _original_event_id(payload) or str(note_path)
retry_source_id(body) ==
    IF body.event_id # NoId THEN body.event_id ELSE NoteOf[body.obs]

\* Variant of retry_exhausted: the budget is one short.
retry_exhausted_early(body) == body.retries + 1 >= MaxTransientRetryAttempts

retry_exhausted(body) == body.retries >= MaxTransientRetryAttempts

\* Variant of QueueTransientRetry: the retry keeps the count it was read with.
QueueTransientRetryUncounted(c) ==
    /\ pc[c] = "dispatch"
    /\ ~retry_exhausted(held[c])
    /\ \E reason \in Reason :
          Write(RetryRow(retry_source_id(held[c]), held[c].retries + 1, reason), held[c])
    /\ tries' = [tries EXCEPT ![held[c].obs] = @ + 1]
    /\ pc' = [pc EXCEPT ![c] = "ack"]
    /\ UNCHANGED <<msg, held, covered, exhausted, faults>>

\* Variant of QueueTransientRetry: the chain is not checked for exhaustion.
QueueTransientRetryUnbounded(c) ==
    /\ pc[c] = "dispatch"
    /\ \E reason \in Reason :
          Write(RetryRow(retry_source_id(held[c]), held[c].retries + 1, reason),
                [held[c] EXCEPT !.retries = @ + 1])
    /\ tries' = [tries EXCEPT ![held[c].obs] = @ + 1]
    /\ pc' = [pc EXCEPT ![c] = "ack"]
    /\ UNCHANGED <<msg, held, covered, exhausted, faults>>

\* _queue_transient_retry writes the next attempt's row.  It returns True
\* whether the row was inserted or swallowed as a duplicate, so the source
\* row will be acked.
QueueTransientRetry(c) ==
    /\ pc[c] = "dispatch"
    /\ ~retry_exhausted(held[c])
    /\ \E reason \in Reason :
          Write(RetryRow(retry_source_id(held[c]), held[c].retries + 1, reason),
                [held[c] EXCEPT !.retries = @ + 1])
    /\ tries' = [tries EXCEPT ![held[c].obs] = @ + 1]
    /\ pc' = [pc EXCEPT ![c] = "ack"]
    /\ UNCHANGED <<msg, held, covered, exhausted, faults>>

\* _queue_transient_retry on a spent chain: the dead letter is emitted (or its
\* failure logged), and the handler returns as if it had handled the event.
RetryExhausted(c) ==
    /\ pc[c] = "dispatch"
    /\ retry_exhausted(held[c])
    /\ exhausted' = exhausted \cup {held[c].obs}
    /\ tries' = [tries EXCEPT ![held[c].obs] = @ + 1]
    /\ pc' = [pc EXCEPT ![c] = "ack"]
    /\ UNCHANGED <<outbox, payload, msg, held, covered, faults>>

Ack(c) ==
    /\ pc[c] = "ack"
    /\ outbox' = ack_outbox(outbox, msg[c])
    /\ NextTick(c)
    /\ UNCHANGED <<payload, covered, exhausted, tries, faults>>

\* The process ends anywhere in its tick; a retry that cannot be written
\* (TransientRetryEnqueueError) ends it too, with the row pending.
Crash(c) ==
    /\ pc[c] # "idle"
    /\ Fault
    /\ NextTick(c)
    /\ UNCHANGED <<outbox, payload, covered, exhausted, tries>>

Tick(c) ==
    \/ Poll(c) \/ Handle(c) \/ QueueTransientRetry(c) \/ RetryExhausted(c) \/ Ack(c)

Next ==
    \/ \E e \in Event : Observe(e)
    \/ \E c \in Consumer : Tick(c) \/ Crash(c)

Spec == Init /\ [][Next]_vars /\ \A c \in Daemon : WF_vars(Tick(c))
-----------------------------------------------------------------------------
\* Well-typed state, and one payload for each row.
TypeOK ==
    /\ DOMAIN payload = Rows(outbox)
    /\ \A id \in Rows(outbox) : /\ payload[id].obs \in Event
                                /\ payload[id].retries \in 0 .. MaxTransientRetryAttempts
    /\ pc \in [Consumer -> {"idle", "dispatch", "ack"}]
    /\ \A c \in Consumer : pc[c] # "idle" => msg[c] \in Rows(outbox) /\ held[c].obs \in Event
    /\ covered \subseteq Event /\ exhausted \subseteq Event
    /\ tries \in [Event -> Nat]
    /\ faults \in 0 .. MaxFaults

\* "genuine re-emissions are NOT swallowed" (derive_idempotency_key): the row
\* of an observation is acked only when a handler ran for its note afterwards,
\* its chain was dead-lettered, or a row for its note is still to be dispatched.
NoObservationLost ==
    \A e \in Event :
        Delivered(outbox, ObservedRow(e)) =>
            \/ e \in covered \cup exhausted
            \/ \E id \in Rows(outbox) :
                  Pending(outbox, id) /\ NoteOf[payload[id].obs] = NoteOf[e]

\* A chain is dead-lettered as exhausted only after the handler deferred the
\* observation once for the original row and once for each retry it is owed,
\* whatever was redelivered in between.
ExhaustedAfterBudget ==
    \A e \in exhausted : tries[e] > MaxTransientRetryAttempts

\* Every observation is eventually handled or dead-lettered: the chain is
\* finite although each of its rows is acked by queueing another.
EveryObservationConcludes ==
    \A e \in Event : e \in Observed ~> e \in covered \cup exhausted
=============================================================================
