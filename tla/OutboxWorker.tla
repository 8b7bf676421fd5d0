---------------------------- MODULE OutboxWorker ----------------------------
(***************************************************************************)
(* The outbox consumers of app/workers/outbox_worker.py over the shared    *)
(* table: the supervised daemon (run) and the transfer drain (run_once in  *)
(* drain_binding_outbox), which run at the same time during the first      *)
(* drain of a channel transfer.  A consumer is interrupted between any two *)
(* statements that touch the database, the JSONL audit file or its own     *)
(* in-memory dedup set; a crash loses the memory and rolls an open         *)
(* transaction back, and supervision starts the consumer again.            *)
(***************************************************************************)
EXTENDS OutboxTable, FiniteSets

CONSTANTS
    Daemon,          \* processes running run()
    Drain,           \* processes running run_once() in a drain loop
    Msg,             \* the work rows producers write, named by their source
    Event,           \* event ids
    EventOf,         \* the event id each work row carries: two rows may share one
    Stamp,           \* values of created_at
    MaxDispatchAttempts,
    SeenCap,         \* _EventDedup holds at most this many ids ...
    SeenKeep,        \* ... and keeps this many when it overflows
    Degraded,        \* may open_outbox_txn_conn fail and return None?
    MaxFaults        \* bound on crashes, outages and failing statements

ASSUME ConsumersAssumption == Daemon \cap Drain = {}
ASSUME EventOfAssumption == EventOf \in [Msg -> Event]
ASSUME StampAssumption == Stamp \subseteq Nat
ASSUME AttemptsAssumption == MaxDispatchAttempts \in Nat \ {0}
ASSUME SeenAssumption == SeenCap \in Nat /\ SeenKeep \in Nat
ASSUME FaultsAssumption == Degraded \in BOOLEAN /\ MaxFaults \in Nat

Consumer == Daemon \cup Drain

\* Variant of AuditRow: the key's source id and fingerprint are swapped.
AuditRowSwapped(m, attempts) ==
    derive_idempotency_key("outbox.event.dead_lettered", attempts, m)

\* Row ids: a work row, and the dead-letter audit row of a work row, whose
\* fingerprint is the attempt count ("poison:<attempts>").
WorkRow(m) == derive_idempotency_key("work", m, 0)
AuditRow(m, attempts) == derive_idempotency_key("outbox.event.dead_lettered", m, attempts)

RowId == ({"work"} \X Msg \X {0}) \cup ({"outbox.event.dead_lettered"} \X Msg \X Nat)

IsWork(id) == id[1] = "work"

\* Event ids are uuids of their producers, none of which is a row's key.
ASSUME EventIdAssumption == \A e \in Event : e \notin RowId

\* make_outbox_event gives every audit event an id of its own: its row's.
event_id_from_message(id) == IF IsWork(id) THEN EventOf[id[2]] ELSE id

VARIABLES
    outbox,     \* the table
    seen,       \* _EVENT_DEDUP of each daemon: in memory
    pc,         \* where each consumer is in its tick
    msg,        \* the row each consumer polled
    txn,        \* the poison bookkeeping each consumer has open
    handled,    \* history: the events some handler has applied
    jsonl,      \* the dead-letter records in the JSONL audit file
    unaudited,  \* history: work rows whose dead-letter audit failed and was logged
    faults      \* faults so far

vars == <<outbox, seen, pc, msg, txn, handled, jsonl, unaudited, faults>>

NoRow == <<>>

\* canonical: one manual-commit connection (FALSE: per-call autocommit);
\* attempts: what bump_outbox_attempts returned, 0 for an invalid row;
\* recorded: the JSONL append succeeded, so the DB audit row is attempted.
Txn == [canonical : BOOLEAN, attempts : Nat, recorded : BOOLEAN]
NoTxn == [canonical |-> FALSE, attempts |-> 0, recorded |-> FALSE]

PC == {"idle", "duplicate", "dispatch", "failed", "audit", "settle", "ack"}

TypeOK ==
    /\ Rows(outbox) \subseteq RowId
    /\ outbox \in [Rows(outbox) -> [created : Nat, delivered : BOOLEAN, attempts : Nat]]
    /\ seen \in [Daemon -> SUBSET (Event \cup RowId)]
    /\ pc \in [Consumer -> PC]
    /\ msg \in [Consumer -> RowId \cup {NoRow}]
    /\ txn \in [Consumer -> Txn]
    /\ handled \subseteq Event \cup RowId
    /\ jsonl \subseteq Msg \X Nat
    /\ unaudited \subseteq Msg
    /\ faults \in 0 .. MaxFaults

Init ==
    /\ outbox = EmptyTable
    /\ seen = [d \in Daemon |-> {}]
    /\ pc = [c \in Consumer |-> "idle"]
    /\ msg = [c \in Consumer |-> NoRow]
    /\ txn = [c \in Consumer |-> NoTxn]
    /\ handled = {}
    /\ jsonl = {}
    /\ unaudited = {}
    /\ faults = 0
-----------------------------------------------------------------------------
\* The bump of an open canonical transaction holds the row's lock until it ends.
LockedByOther(c, id) ==
    \E d \in Consumer \ {c} : /\ pc[d] \in {"audit", "settle"}
                              /\ txn[d].canonical
                              /\ txn[d].attempts > 0
                              /\ msg[d] = id

\* One more fault, within the bound.
Fault ==
    /\ faults < MaxFaults
    /\ faults' = faults + 1

\* The tick is over and the loop goes on: memory is kept.
NextTick(c) ==
    /\ pc' = [pc EXCEPT ![c] = "idle"]
    /\ msg' = [msg EXCEPT ![c] = NoRow]
    /\ txn' = [txn EXCEPT ![c] = NoTxn]

\* Variant of Die: the loop logs the exception and goes on with its memory.
DieKeepsSeen(c) ==
    /\ NextTick(c)
    /\ seen' = seen

\* The exception leaves run() (or the drain): the process ends, an open
\* transaction is rolled back, and the restarted one has an empty dedup set.
Die(c) ==
    /\ NextTick(c)
    /\ seen' = [d \in Daemon |-> IF d = c THEN {} ELSE seen[d]]

\* _EventDedup.seen on an id it does not hold: the sets it may be left with.
SeenAdd(ids, e) ==
    LET all == ids \cup {e}
    IN  IF Cardinality(all) > SeenCap
        THEN {kept \in SUBSET all : Cardinality(kept) = SeenKeep}
        ELSE {all}

\* A producer writes its row; writing it again changes nothing.
Produce(m) ==
    /\ \E at \in Stamp : outbox' = write_outbox_event(outbox, WorkRow(m), at)
    /\ UNCHANGED <<seen, pc, msg, txn, handled, jsonl, unaudited, faults>>

\* The daemon polls and asks its dedup set, which marks the id before dispatch.
PollDaemon(c) ==
    /\ c \in Daemon
    /\ pc[c] = "idle"
    /\ \E id \in poll_outbox_one(outbox) :
          /\ msg' = [msg EXCEPT ![c] = id]
          /\ LET e == event_id_from_message(id)
             IN  \/ /\ e \in seen[c]
                    /\ pc' = [pc EXCEPT ![c] = "duplicate"]
                    /\ seen' = seen
                 \/ /\ e \notin seen[c]
                    /\ pc' = [pc EXCEPT ![c] = "dispatch"]
                    /\ \E kept \in SeenAdd(seen[c], e) : seen' = [seen EXCEPT ![c] = kept]
    /\ UNCHANGED <<outbox, txn, handled, jsonl, unaudited, faults>>

\* run_once polls and dispatches without a dedup set.
PollDrain(c) ==
    /\ c \in Drain
    /\ pc[c] = "idle"
    /\ \E id \in poll_outbox_one(outbox) : msg' = [msg EXCEPT ![c] = id]
    /\ pc' = [pc EXCEPT ![c] = "dispatch"]
    /\ UNCHANGED <<outbox, seen, txn, handled, jsonl, unaudited, faults>>

\* Variant of Ack: a known duplicate is skipped without an ack.
AckSkipsDuplicate(c) ==
    /\ pc[c] \in {"ack", "duplicate"}
    /\ ~LockedByOther(c, msg[c])
    /\ outbox' = IF pc[c] = "ack" THEN ack_outbox(outbox, msg[c]) ELSE outbox
    /\ NextTick(c)
    /\ UNCHANGED <<seen, handled, jsonl, unaudited, faults>>

\* ack_outbox on an autocommit connection: it waits for a lock on the row.
\* Ends a handled tick, the tick of a known duplicate, and a degraded dead-letter.
Ack(c) ==
    /\ pc[c] \in {"ack", "duplicate"}
    /\ ~LockedByOther(c, msg[c])
    /\ outbox' = ack_outbox(outbox, msg[c])
    /\ NextTick(c)
    /\ UNCHANGED <<seen, handled, jsonl, unaudited, faults>>

\* _dispatch_topic returns: the handler applied the event.  The topic of an
\* audit row has no handler: its dispatch is a skip, which also returns.
DispatchOk(c) ==
    /\ pc[c] = "dispatch"
    /\ handled' = handled \cup {event_id_from_message(msg[c])}
    /\ pc' = [pc EXCEPT ![c] = "ack"]
    /\ UNCHANGED <<outbox, seen, msg, txn, jsonl, unaudited, faults>>

\* SchemaViolationDispatchError or InvalidPanelNoteUUIDDispatchError: both
\* consumers call _dead_letter_and_ack with attempts = 0.
DispatchInvalid(c) ==
    /\ pc[c] = "dispatch"
    /\ IsWork(msg[c])
    /\ \E canonical \in (IF Degraded THEN BOOLEAN ELSE {TRUE}) :
          txn' = [txn EXCEPT ![c] = [NoTxn EXCEPT !.canonical = canonical]]
    /\ pc' = [pc EXCEPT ![c] = "audit"]
    /\ UNCHANGED <<outbox, seen, msg, handled, jsonl, unaudited, faults>>

\* An outage (or a deferred binding): the row stays pending, no budget is spent.
DispatchTransient(c) ==
    /\ pc[c] = "dispatch"
    /\ Fault
    /\ Die(c)
    /\ UNCHANGED <<outbox, handled, jsonl, unaudited>>

\* Any other exception of a handler: the daemon goes on to
\* _record_failed_dispatch, the drain lets it propagate.
DispatchFail(c) ==
    /\ pc[c] = "dispatch"
    /\ IsWork(msg[c])
    /\ \/ /\ c \in Daemon
          /\ pc' = [pc EXCEPT ![c] = "failed"]
          /\ UNCHANGED <<seen, msg, txn>>
       \/ /\ c \in Drain
          /\ Die(c)
    /\ UNCHANGED <<outbox, handled, jsonl, unaudited, faults>>
-----------------------------------------------------------------------------
\* _record_failed_dispatch when the row is already delivered: the bump
\* returns 0 and the dispatch error is raised again.
BumpNothing(c) ==
    /\ pc[c] = "failed"
    /\ ~LockedByOther(c, msg[c])
    /\ ~Pending(outbox, msg[c])
    /\ Die(c)
    /\ UNCHANGED <<outbox, handled, jsonl, unaudited, faults>>

\* Variant of BumpBelowCap: the cap is off by one.
BumpToCap(c) ==
    /\ pc[c] = "failed"
    /\ ~LockedByOther(c, msg[c])
    /\ Pending(outbox, msg[c])
    /\ outbox[msg[c]].attempts + 1 <= MaxDispatchAttempts
    /\ outbox' = bump_outbox_attempts(outbox, msg[c])
    /\ Die(c)
    /\ UNCHANGED <<handled, jsonl, unaudited, faults>>

\* Below the cap the bump commits alone (at once, in either mode) and the
\* error is raised again.
BumpBelowCap(c) ==
    /\ pc[c] = "failed"
    /\ ~LockedByOther(c, msg[c])
    /\ Pending(outbox, msg[c])
    /\ outbox[msg[c]].attempts + 1 < MaxDispatchAttempts
    /\ outbox' = bump_outbox_attempts(outbox, msg[c])
    /\ Die(c)
    /\ UNCHANGED <<handled, jsonl, unaudited, faults>>

\* At the cap: on the canonical connection the bump stays in the transaction
\* and holds the row's lock; the degraded bump commits by itself.
BumpAtCap(c) ==
    /\ pc[c] = "failed"
    /\ ~LockedByOther(c, msg[c])
    /\ Pending(outbox, msg[c])
    /\ outbox[msg[c]].attempts + 1 >= MaxDispatchAttempts
    /\ LET attempts == outbox[msg[c]].attempts + 1
       IN  \/ /\ txn' = [txn EXCEPT ![c] = [NoTxn EXCEPT !.canonical = TRUE, !.attempts = attempts]]
              /\ outbox' = outbox
           \/ /\ Degraded
              /\ txn' = [txn EXCEPT ![c] = [NoTxn EXCEPT !.attempts = attempts]]
              /\ outbox' = bump_outbox_attempts(outbox, msg[c])
    /\ pc' = [pc EXCEPT ![c] = "audit"]
    /\ UNCHANGED <<seen, msg, handled, jsonl, unaudited, faults>>

\* The bump, or the commit of a bump below the cap, fails: logged, nothing
\* durable, and the dispatch error is raised again.
BumpError(c) ==
    /\ pc[c] = "failed"
    /\ Fault
    /\ Die(c)
    /\ UNCHANGED <<outbox, handled, jsonl, unaudited>>

\* _dead_letter_outbox_message appends the record to the JSONL audit file,
\* which no transaction covers.
AppendAudit(c) ==
    /\ pc[c] = "audit"
    /\ jsonl' = jsonl \cup {<<msg[c][2], txn[c].attempts>>}
    /\ txn' = [txn EXCEPT ![c].recorded = TRUE]
    /\ pc' = [pc EXCEPT ![c] = "settle"]
    /\ UNCHANGED <<outbox, seen, msg, handled, unaudited, faults>>

\* The append fails: the exception is logged and swallowed, and the DB audit
\* row is not attempted.
AppendAuditError(c) ==
    /\ pc[c] = "audit"
    /\ Fault
    /\ unaudited' = unaudited \cup {msg[c][2]}
    /\ pc' = [pc EXCEPT ![c] = "settle"]
    /\ UNCHANGED <<outbox, seen, msg, txn, handled, jsonl>>

\* The table with the audit row of c's dead letter, when it is attempted.
AuditWritten(c, tbl, at) ==
    IF txn[c].recorded
    THEN write_outbox_event(tbl, AuditRow(msg[c][2], txn[c].attempts), at)
    ELSE tbl

\* The table after c's deferred bump: none for an invalid row.
BumpWritten(c) ==
    IF txn[c].attempts > 0 THEN bump_outbox_attempts(outbox, msg[c]) ELSE outbox

\* Variant of SettleCanonical: the audit's savepoint is the outermost block,
\* so it commits before the ack.
SettleTwoCommits(c) ==
    /\ pc[c] = "settle"
    /\ txn[c].canonical
    /\ ~LockedByOther(c, msg[c])
    /\ \E at \in Stamp : outbox' = AuditWritten(c, BumpWritten(c), at)
    /\ pc' = [pc EXCEPT ![c] = "ack"]
    /\ UNCHANGED <<seen, msg, txn, handled, jsonl, unaudited, faults>>

\* The canonical transaction commits: bump, audit row and ack together.
SettleCanonical(c) ==
    /\ pc[c] = "settle"
    /\ txn[c].canonical
    /\ ~LockedByOther(c, msg[c])
    /\ \E at \in Stamp :
          outbox' = ack_outbox(AuditWritten(c, BumpWritten(c), at), msg[c])
    /\ NextTick(c)
    /\ UNCHANGED <<seen, handled, jsonl, unaudited, faults>>

\* As before, but the audit insert fails: its savepoint rolls back alone.
SettleWithoutAuditRow(c) ==
    /\ pc[c] = "settle"
    /\ txn[c].canonical
    /\ txn[c].recorded
    /\ ~LockedByOther(c, msg[c])
    /\ Fault
    /\ outbox' = ack_outbox(BumpWritten(c), msg[c])
    /\ NextTick(c)
    /\ UNCHANGED <<seen, handled, jsonl, unaudited>>

\* The degraded sequence: the audit row commits by itself (or its failure is
\* swallowed), and the ack is a statement of its own.
SettleDegraded(c) ==
    /\ pc[c] = "settle"
    /\ ~txn[c].canonical
    /\ \/ /\ \E at \in Stamp : outbox' = AuditWritten(c, outbox, at)
          /\ UNCHANGED faults
       \/ /\ Fault
          /\ UNCHANGED outbox
    /\ pc' = [pc EXCEPT ![c] = "ack"]
    /\ UNCHANGED <<seen, msg, txn, handled, jsonl, unaudited>>

\* The process ends, or a statement it does not guard raises, anywhere in the
\* tick: a commit of the transaction included.
Crash(c) ==
    /\ pc[c] # "idle"
    /\ Fault
    /\ Die(c)
    /\ UNCHANGED <<outbox, handled, jsonl, unaudited>>

Tick(c) ==
    \/ PollDaemon(c) \/ PollDrain(c) \/ Ack(c)
    \/ DispatchOk(c) \/ DispatchInvalid(c) \/ DispatchFail(c)
    \/ BumpNothing(c) \/ BumpBelowCap(c) \/ BumpAtCap(c)
    \/ AppendAudit(c) \/ SettleCanonical(c) \/ SettleDegraded(c)

Disturb(c) ==
    \/ DispatchTransient(c) \/ BumpError(c) \/ AppendAuditError(c)
    \/ SettleWithoutAuditRow(c) \/ Crash(c)

Next ==
    \/ \E m \in Msg : Produce(m)
    \/ \E c \in Consumer : Tick(c) \/ Disturb(c)

\* The daemon is supervised (restart: unless-stopped) and ticks for ever;
\* nothing makes an operator start or finish a drain.
Spec == Init /\ [][Next]_vars /\ \A c \in Daemon : WF_vars(Tick(c))
-----------------------------------------------------------------------------
\* An event is concluded when a handler applied it, or when one of its rows
\* was dead-lettered: recorded in the audit file, or logged as unrecordable.
Concluded(e) ==
    \/ e \in handled
    \/ \E m \in Msg : /\ EventOf[m] = e
                      /\ m \in unaudited \/ \E rec \in jsonl : rec[1] = m

\* At-least-once: no work row is acked unless its event was applied or
\* dead-lettered.  The daemon marks an id as seen BEFORE it dispatches, and
\* acks seen rows unhandled: this holds only because every way a dispatch can
\* fail ends the process, and the set with it.
NoSilentLoss ==
    \A m \in Msg : Delivered(outbox, WorkRow(m)) => Concluded(EventOf[m])

\* "a crash between the statements rolls the whole cycle back instead of
\* stranding partial state (a row durably attempts == max yet undelivered ...)"
\* (_record_failed_dispatch): a pending row always has budget left, whatever
\* the consumers and crashes, as long as the canonical connection opens.
PoisonBudget ==
    \A id \in Rows(outbox) :
        Pending(outbox, id) => outbox[id].attempts < MaxDispatchAttempts

\* "a crash between them cannot strand an audited-but-unacked row"
\* (_dead_letter_and_ack): a dead-letter row is only ever visible together
\* with the ack of the row it is about.
NoStrandedAudit ==
    \A m \in Msg, n \in 0 .. MaxDispatchAttempts :
        AuditRow(m, n) \in Rows(outbox) => Delivered(outbox, WorkRow(m))

\* What no step of any actor may do to a row: remove it, undo its delivery,
\* take attempts back, or spend attempts after delivery.
RowsOnlyAdvance ==
    [][\A id \in Rows(outbox) :
         /\ id \in Rows(outbox')
         /\ outbox'[id].created = outbox[id].created
         /\ outbox'[id].attempts >= outbox[id].attempts
         /\ outbox[id].delivered => outbox'[id] = outbox[id]]_vars

\* The head of the queue cannot stall (the processed_total=0 stall): once
\* outages stop, every row, poison ones and known duplicates included, is
\* delivered, and so are the dead-letter rows the worker itself adds.
EveryRowSettles ==
    \A m \in Msg :
        /\ WorkRow(m) \in Rows(outbox) ~> Delivered(outbox, WorkRow(m))
        /\ \A n \in 0 .. MaxDispatchAttempts + MaxFaults :
              AuditRow(m, n) \in Rows(outbox) ~> Delivered(outbox, AuditRow(m, n))

\* The consumers implement the at-least-once queue: a row settles after its
\* event is concluded, and neither is ever taken back.
Queue == INSTANCE AtLeastOnce WITH
            published <- {m \in Msg : WorkRow(m) \in Rows(outbox)},
            settled   <- {m \in Msg : Delivered(outbox, WorkRow(m))},
            concluded <- {e \in Event : Concluded(e)}

ImplementsAtLeastOnce == Queue!Spec
=============================================================================
