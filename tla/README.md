# A TLA+ development for agentic-pkm-mvp

The program keeps a personal knowledge base as a vault of Markdown notes. A
watcher polls the vault and emits an event for every change; events go through a
transactional outbox in PostgreSQL, with a JSONL file beside it as the audit
history; workers consume them. An instance runtime decides which deployment channel owns a
vault and moves it from one to another. Next to this runtime the repository holds the
coordination of the agents that build it: a dispatcher that leases tasks out of a
local SQLite store and synchronises them with GitHub.

This directory models the parts of it that are concurrent or survive crashes,
checks them with TLC on small instances, and proves their safety properties and two
refinements for every instance with TLAPS. Line numbers refer to the files named.
`PROJECT.json` maps every definition to its lines.

## 1. Inventory

### 1.1 The event path (modelled)

| component | code | state | operations |
|---|---|---|---|
| outbox table | `app/services/outbox.py` | rows with created_at, delivered_at, attempts, a unique idempotency key | insert (on conflict do nothing), poll oldest pending, bump attempts, ack |
| worker | `app/workers/outbox_worker.py` | an in-memory dedup set of event ids; one open transaction | `run` (daemon), `run_once` (looped over by `drain_binding_outbox`), dispatch, poison bookkeeping, dead letters |
| retry chain | same file | retry count and original event id in the payload | `_queue_transient_retry`, exhaustion |
| JSONL outbox | `app/services/outbox.py` | an append-only file, a sidecar lock file | `append_jsonl_record` |
| registry watcher | `app/watcher/registry.py`, `state.py` | checkpoint file (cursor, generation, identities, throttles), SQLite sidecar (observations) | a tick: scan, deliver, guardrails, reconcile, save; restart |

The watcher calls `insert_object_and_outbox` and `append_jsonl_outbox_event`; the
worker polls the table, calls handlers, and writes dead letters to both the file
and the table. During a channel transfer the drain consumes the same rows while
the daemon still runs. Nothing locks a polled row. What is hard here: the worker
marks an event as seen *before* it dispatches it; the poison bookkeeping is three
statements in two stores; retries re-emit rows under derived keys; an append may
be torn; the watcher saves two files one after the other and must roll back half
a tick when a sink fails.

What makes it correct: nothing acked unhandled, nothing recorded twice or torn,
no observation accepted before it was delivered, every row and every change
eventually dealt with.

### 1.2 The dispatcher (modelled)

`app/dispatcher`: `leases.py` (claim, takeover of stale leases, heartbeat,
release, expiry sweep, cleanup guards), `queue.py` and `services.py` (block,
unblock, complete, update, move, review hand-off, link_pr), `store.py` (the
SQLite tables and upserts), `sync_github.py` (the pull and its reconciliation).
Its state is a task table, a lease table and cleanup guards kept in a meta table
and mirrored to sidecar files. Some commands are one `BEGIN IMMEDIATE`
transaction; others read a row, change the copy, and upsert the *whole* row in a
later transaction. Sweeps and pulls act on what they read earlier. What makes it
correct: one live lease per task, no live lease lost, no cleanup of a task that
is being worked on, no stale "ready" evidence, no expired lease left for ever.

### 1.3 The instance runtime (modelled)

| component | code | state | operations |
|---|---|---|---|
| binding effect lease | `app/instance/binding_effect_lease.py` | a lease state (holders, queue of waiting changes) in the registry and in a local file, a journal, an activity file per holder, a gate and a state lock (flocks) | shared effect, exclusive change, observe, release |
| stopped window | `app/instance/runtime.py`, `instance_state.py` | four files: root block, public lease, restart fence, quiescence proof | begin, prove, bind, finish, release; a service's preflight |
| channel transfer | `_ChannelTransferCoordinator` in `runtime.py`, `channel_transfer.py` | a journal of twelve phases; the registries, the ownership ledger, the rows of the outbox | transfer, recover |

The coordinator asks a deployment controller for a stopped window, drains the
outbox through the worker's `run_once`, takes the source binding's effect lease
exclusively, and moves ownership. The workers of the source take the same lease
for each row. All of it is files written one at a time by processes that may die
between two of them; the next process has to recognise what it finds. What makes
it correct: one writer per root at any time, services that stay stopped, no row
left to a binding nobody dispatches, registries and ledger that agree, and no
interruption that leaves the host blocked.

### 1.4 Parts that are not modelled

The settings rebind, the multi-writer vault writes, knowledge acquisition and
BuilderOps are stateful and planned (section 8). Agents, retrieval and model routing, the HTTP API,
release scripts, operations and secrets are request handlers, host I/O or calls
to external services whose results are not a state machine worth checking.
`PROJECT.json` lists each with its reason.

## 2. Modules

| module | models | composed of |
|---|---|---|
| `OutboxTable` | the statements on the table, as operators on a function from row ids to rows | |
| `AtLeastOnce` | the abstract promise: publish, conclude, settle | |
| `OutboxWorker` | daemon and drain over the table | `OutboxTable`; refines `AtLeastOnce` |
| `TransientRetry` | the retry chain over the same table | `OutboxTable` |
| `JsonlOutbox` | concurrent appends to the audit file | |
| `RegistryWatcher` | one watcher spec with its two files | |
| `DispatcherRows` | the row transformers of the dispatcher's commands and `upsert_synced_task` | |
| `DispatcherLeases` | agents, sweep, pulls, guards | `DispatcherRows` |
| `EffectWindow` | the abstract promise of an effect lease: enter shared, enter alone, leave, withdraw ownership | |
| `BindingEffectLease` | queue, flocks, journal and recovery of one binding's lease | refines `EffectWindow` |
| `StoppedWindow` | controllers and services over the four files of a window | |
| `ChannelTransfer` | the coordinator's phases, rows and effects | extends `StoppedWindow`, uses `EffectWindow` |
| `OutboxWorkerProofs`, `TransientRetryProofs`, `JsonlOutboxProofs`, `RegistryWatcherProofs`, `DispatcherLeasesProofs`, `BindingEffectLeaseProofs`, `ChannelTransferProofs` | theorems about the module of the same name | |
| `StoppedWindowProofs` | theorems about the window in the transfer that uses it | extends `ChannelTransferProofs` |
| `MC*` | constants and symmetry of the runs | |

Definitions named "Variant of ..." are the plausible bugs that show each property
can fail; no specification uses them.

### OutboxWorker

A row id is its idempotency key, so an insert of an existing key is a no-op as in
the SQL. `pc[c]` is the place of a consumer in its tick: `idle`, `duplicate` (the
dedup set knows the id), `dispatch`, `failed`, `audit`, `settle`, `ack`. Each step
between two of them is one durable or visible effect. A canonical transaction
(bump, audit row, ack on one connection) takes effect when it commits
(`SettleCanonical`); until then its bump only locks the row (`LockedByOther`), and
the autocommit statements of other consumers wait. With `Degraded` the connection
cannot be opened and each statement commits by itself (`SettleDegraded`). The
JSONL append inside is outside any transaction. `Die` is how the code fails: the
exception leaves `run`, the process ends, the transaction is rolled back, and the
dedup set is lost. `handled` and `unaudited` are history variables. What handlers
do is one outcome: applied, invalid, transient outage, any other failure. Left
out: binding filters and the effect window, heartbeats, spans, metrics.

### TransientRetry

A handler that finds its note unstable, missing or without uuid acks its row and
writes another one keyed by original event and attempt. `run` puts the envelope's
event id into the payload, `run_once` does not; `retry_source_id` is the fallback
chain of the key. `covered` holds the observations a successful handler run came
after (a handler reads the note as it is now, so it covers earlier observations of
the same note).

### JsonlOutbox

The file is a sequence of lines, each parsed or garbled, ended or not; `durable`
is how much of it a returned fsync covers. An append takes the lock, reads the
file, refuses any malformed line, looks for its event id, writes (possibly
short), syncs. `PowerLoss` keeps any prefix from `durable` on and may tear the last
line; `Die` drops the lock. `ReadRecords` is a reader that repairs the last LF under
the lock; the read-only readers change nothing and are left out.

A record need not have an event id. `append_jsonl_record` demands one only with
`require_event_id`, as the watchers, the settings receipts and the promotion consumer
call it (`Event`). The index entries (`app/index/outbox.py:35`) and the results of the
command line (`app/cli.py:85`) are appended without that flag (`Entry`), mostly without
an id: for such a record the duplicate check is skipped (`SameId` is empty) and every
call adds a line, a retry too. `ReturnedIsRecorded` therefore promises exactly one line
only for a record with an event id; for one without it, at least as many lines as
appends of it returned.

### RegistryWatcher

`mem` is `WatcherState`, `pend` the uncommitted observations, `tick` the locals of
`_run_spec_tick`, `store` the sidecar and `ckpt` the checkpoint. A tick starts with
the stop file, backoff and identity checks, lists the vault once, visits notes in
order behind the cursor, is cut off anywhere by a budget (`Pause`), measures the
identity again, delivers the changed notes one by one (database, then file, then
acceptance), and on a failing sink takes back everything except the notes already
dealt with. `Finish` is the guardrail and the reconciliation; the save is two steps,
`SaveSidecar` and `SaveCheckpoint`, with a possible crash between them. Edits,
deletions, a replaced vault, a lost or damaged checkpoint and an operator removing
the stop file happen at any time. Abstractions: one root, one spec, required
database delivery; a content and its mtime change together; every replaced vault
has a new identity; debounce and rate window are over or not; generation
numbers, only ever compared for equality, are renamed at each save so that the
state space stays finite. Left out: settings and panel branches, uuid healing,
rebind and observation-only modes, changed watcher settings, a missing vault.

### DispatcherLeases

A transaction is one step. The commands that read and upsert later are one step
per transaction: `RowRead`, then `ReleaseUpsertLease` (release only), then
`UpsertTask`; an agent runs one command at a time and may be `Interrupted`.
`observed` holds the pairs that running sweeps, any number of them, have yet to
reclaim. A pull reads its start time, writes ready or blocker snapshots through
`upsert_synced_task`, and reconciles rows it listed. GitHub's answers are
arbitrary. A guard command writes the database and then the file and may be cut off
between (`cut`). Abstractions: the clock only advances; an expired guard counts as
absent; blocked_reason is set or not; `select_next`'s order, the event log, the
mirrored lease_expires_at column and the guard mode without database are left out.

### BindingEffectLease

`pc[p]` is where a process is in `_acquire`, `cs` where the holder of the state lock
is in its critical section: recover the journal, load and reconcile, body, and the
writes of a commit, one step each (journal, file, registry, unlink, activity
files). `reg` and `file` are the two copies of the lease state. A flock is held by a
living process only: `Crash` drops the process's locks and leaves its files.
`Reconciled` is what the next process concludes from them. A registry commit may
fail without effect, or fail with an outcome that cannot be read (`RegistryFails`,
`RegistryUnreadable`). `Withdraw` is the transfer's `begin_transfer`, kept out of a
fenced section by the ledger's lock. `Only` filters the queue, as a recursive function so
that it can be proved about. Tickets and generation numbers, which only order
and compare, are dropped; a holder id that is in use nowhere may be issued again.
A process counts as inside from the moment its grant is committed.

### StoppedWindow

A command decides under the admission lock what it will write (`Admit`) and
`WriteNext` writes one file per step; `Interrupt` ends the command between two
writes, `Die` the controller with it. `Begin` has a disjunct for each state the code
tells apart: nothing there, only the root block, a claim of its own or of a dead
controller, a cleanup that was cut off (begin completes it and starts again), a
claim it refuses. `Lags` and `LagsAdoption` are the differences between the block and
the lease that the readers accept. `Cleanup` is the order of the removals. Prove and
release identify the controller by what the lease records and do not ask whether it
lives, so an operator may run them for a dead one, as the scripts suggest
(`scripts/lib/instance_state_deployment.sh:1045`): `ProveAgain`, on the inventory whose
digest the proved lease holds, and `Release`. Left out: an operator's first proof of a
dead controller's claim, version 2 leases, scalar receipts, the TEST native context,
other channels, permissions and schema checks.

### ChannelTransfer

`phase` is the journal, `at` the coordinator's place: every phase is an effect and
then `Save`, and `Crash` may come between. `Start` is both `transfer` and `recover`.
`valid` says that this run has seen the stopped proof, which the code reads before the
final drain and again once the producers are recorded as stopped. Effects that find
themselves done (a reservation, a tombstone, a half-finished cleanup) are the
actions' own conditions. `Command` are workers started by hand (`python -m
app.workers.outbox_worker`, `Makefile:350`), which run no preflight; a row they write
is marked `followup`. The handling of a row is one step here and in detail in
`OutboxWorker`. The destination's consumers, the contents of registrations and lineage
and the stages of the watcher's acknowledgement are left out.

## 3. Runs

| run | asks | result |
|---|---|---|
| `outbox_daemon_and_drain` | daemon and drain on two rows of one event, three faults, a dedup set of one | `NoSilentLoss`, `PoisonBudget`, `NoStrandedAudit`, `RowsOnlyAdvance`, refinement of `AtLeastOnce` hold; 0.7 M states |
| `outbox_liveness` | the daemon with the canonical connection failing at will | every row settles |
| `retry_daemon` | retry chains of two observations of one note | none lost, none exhausted early, all end |
| `retry_drain` | the same under `run_once` | **violated**, finding 1 |
| `jsonl_appends` | two writers, four faults, two ids with two contents, a record without an id, a reader that repairs | one line per event id, every returned append keeps a line, history stays whole and durable; 0.6 M states |
| `watcher_delivery` | two notes, one delivery a minute, one change of the vault, one failure anywhere | accepted contents were delivered, only gone notes are pruned, the watcher catches up; 1.2 M states |
| `watcher_prune` | an unchanging vault, two failures | **violated**, finding 3 |
| `dispatcher_transactions` | two agents, sweep, pull, guards; single-transaction commands | all six properties hold; 1.6 M states |
| `dispatcher_commands` | one agent with every command, sweep with failing reclamations, pull | exclusion holds, expired leases are cleared |
| `dispatcher_release_race` | two agents with `release` | **violated**, finding 2 |
| `effect_lease` | two processes, two crashes, one failing commit, timeouts | valid and recoverable, living holders listed, refinement of `EffectWindow`, waiters get in; 0.4 M states |
| `channel_transfer` | a service and a worker started by hand, two windows of two controllers, an operator who proves or releases for a dead one, one crash of the coordinator | one writer, services stay down, their rows are drained, registries follow, windows can be taken up again, no living controller loses its claim; 3.2 M states |

The properties are stated, with the behaviour each is about, at the end of the
module they belong to.

### Bounds

* Two rows of one event are the smallest case in which the dedup set matters; two
  consumers are the ones the code runs together. Attempts are capped at 2 so that a
  bump below and one at the cap both happen. Three faults allow a crash in the middle of
  the recovery from another one. A dedup capacity of 1 forces evictions.
* Two observations of one note are the smallest case with colliding retry keys.
* Two writers and two ids with two contents reach duplicate, conflict and a second
  append behind a torn one, with a record without an id before, between and after them,
  appended again and again (`MaxLines` = 4 lines; only appends without an id are bounded
  by it); four faults allow a fault in each of several appends.
* Two notes with a rate of one delivery are the smallest case where one waits
  behind another. One change and one fault are combined in all orders; with two
  faults `TypeOK` and `AcceptedWasDelivered` were also checked (7.9 M states, no error;
  too long to keep as a run) and `PrunedIsGone` is what finding 3 refutes.
* Three leases are a claim, a takeover, and a claim after that; a clock of 4 with ttl
  1 lets each expire; guards outlive leases (ttl 2) and the second guard follows
  the first one's expiry.

* Two processes of the effect lease with two crashes and three ids: a dead holder or
  waiter, or one of each, beside two living processes. The safety properties were also
  checked with three processes and four ids (9.0 M states up to symmetry, no error;
  too long to keep as a run).
* Two controllers are one that dies or fails and its successor; two windows let the
  transfer meet a window that is not its own. One crash is repeated at every step;
  two crashes were checked with one controller and one window. One slot for
  a pending row is filled and emptied any number of times, by the service or by the
  hand-started worker, which may be handling any other row.

### Fairness

* The daemon ticks for ever: its loop has no exit but an exception, and its
  container restarts unless stopped (`docker-compose.yaml:449`). Nothing is assumed
  of a drain, which an operator starts. Faults are bounded: "once outages stop".
* The watcher likewise (`docker-compose.yaml:528`). Time (`DebounceOver`,
  `MinuteOver`) passes in the sleep at the end of each tick, which recurs but does not
  last: strong fairness. `CatchesUp` allows for the stop file: a guardrail that
  tripped is waiting for an operator.
* `ExpiredLeaseCleared` assumes that agents go on calling `next`, which sweeps, and
  that a sweep finishes what it observed.

* `WaitersEnter` assumes that a process that runs goes on, that effects end, and that a
  contended flock is granted to everyone who keeps asking for it (strong fairness of
  `Lock`: `_acquire` polls). Crashes and failing commits are bounded; a waiter that
  times out has left the queue.

Deadlock is checked in every run but `channel_transfer`, in which a transfer ends
and each controller serves one deployment.

## 4. Proofs

Each theorem holds for every value of the constants that the named assumptions
allow: any number of processes, rows, notes, tasks, holders or writers, and any bound
on faults, crashes or time. The lemmas below a theorem have one case per action; the
inductive invariants were also checked with TLC on the instances of the runs (all but
the dispatcher's `TypeInv`, whose sets TLC cannot enumerate).

### What is assumed

The assumptions on constants are those of the modules and TLC evaluates them in the
runs. They are of three kinds: sizes (caps and ttls are positive, bounds are
naturals), parties that are different (daemons and drains, the coordinator and the
controllers, an agent and "no agent"), and marks that are not values (`None` is no
process, claim or lease state, an event id is no row id, `"garbled"` and `NoEventId` are no event ids,
`NoRow` and `Kept` are no rows, `NoGuard` is no guard). The last kind says only that the model's null
values can be told apart, as the program's can.

Some theorems carry a hypothesis, because without it the property is false of the
code:

* `~Degraded` (`BudgetNeverStranded`, `AuditNeverStranded`): without the canonical
  connection bump, audit row and ack commit one by one.
* `RowCommands = {}`, or a single agent (`\A a, b \in Agent : a = b`), for the dispatcher's
  safety theorems: the commands that read a row and upsert all of it later overwrite what
  another agent did in between (finding 2). `LeaseExcludes`, `LiveLeasesAreKept`,
  `LeaseIdsAreActive` and `EvidenceIsFresh` take the first, `LoneAgentExcludes` and
  `LoneAgentKeepsLeases` the second, `CleanupExcludes` either.
* one puller (`EvidenceIsFresh`): see the overlapping pulls in section 5.
* `Drain = {}` (`DaemonsLoseNothing`): a drain's retries are keyed by the note
  (finding 1).

### The outbox (`OutboxWorkerProofs`)

* `TypeCorrect`: `Spec => []TypeOK`. `TypeOK` is not inductive: the dead-letter
  step writes the message of the row it holds, which is only a message if the row is a
  work row. `Attached` adds that a consumer inside a tick holds a row of the table,
  and a work row in the poison bookkeeping; `TypeInv == TypeOK /\ Attached` is.
* `TableOnlyAdvances`: `Spec => RowsOnlyAdvance`. One lemma per statement
  (`WriteAdvances`, `BumpAdvances`, `AckAdvances`), transitivity for the
  transaction that combines three, and `TableStep` with one case per action.
* `NothingLostSilently`: `Spec => []NoSilentLoss`. The property speaks of acked
  rows only, while an ack may come from a consumer that never dispatched the row
  (a duplicate). `LossInv` therefore carries three facts: what is delivered is
  concluded (`DeliveredSound`), who may ack holds a concluded event (`AckSound`), and
  an id in a dedup set is concluded *or still in the hands of the daemon that
  noted it* (`SeenSound`). The last one is where the design shows: it survives
  because every failing dispatch ends the process and its set; the variant
  `DieKeepsSeen`, in which the loop goes on, breaks it.
* `BudgetNeverStranded`, `AuditNeverStranded` (`PoisonBudget`, `NoStrandedAudit`):
  `BudgetInv` says that every dead letter under way has its transaction. `SettledSound`
  is the transaction as a whole: the tables between its statements break both
  properties, the one that becomes visible does not.
* `ConsumersImplementQueue`: `Spec => ImplementsAtLeastOnce`, the refinement. `LossInv`
  is what makes an ack a `Settle` of the abstract queue, which asks for a concluded
  event.

### The retry chain (`TransientRetryProofs`)

* `RetryTypeCorrect`, and `BudgetIsPaid` (`ExhaustedAfterBudget`): the exhaustion reads
  the count in a payload, the property counts the deferrals that happened. `RetriesPaid`
  connects them: a row that is the n-th retry was written by an n-th deferral. Both
  hold with drains.
* `DaemonsLoseNothing` (`NoObservationLost`): a row is acked because its retry was queued,
  the retry may have been there already, and may have been acked in turn. `ChainInv` says
  that the key of a row names its observation and attempt (`KeyedByEvent`, which needs
  `Injected`), and that behind every acked row some *later* row of its chain is pending or
  the observation is concluded (`DoneSound`); the budget bounds how much later.

### The JSONL file (`JsonlOutboxProofs`)

`JsonlTypeCorrect`, `EventIdsUnique`, `OnlyTailTorn`, `ReturnedAreRecorded` and the action
property `DurableHistoryKept` (`DurablePrefixKept`). The invariant: the file is well
formed (`IsFile`: one line per id, only the last line garbled or unended), who is inside
holds the lock (`LockInv`), still sees the file it read, or has its record in it
(`StepInv`), and what was answered is in the file, and in its durable part as often as it
was synced (`AnswerInv`). For a record without an id the last part is a statement about
numbers of lines: `CountKept` and `CountMore` say that a step which keeps the durable
lines keeps their count, and that the fsync of one more line raises it. `AppendFile`, `CutFile` and `TornFile` are what an append, a prefix
and a torn line make of a well-formed file.

### The watcher (`RegistryWatcherProofs`)

`WatcherTypeCorrect`, and `NothingKnownUndelivered` (`AcceptedWasDelivered`). The
property speaks of the rows that a running or restarted watcher would load; what it rests
on is which *vault* a row belongs to. `SafeInv`: rows under this vault's name, in the
sidecar, uncommitted, or kept to fall back on, were delivered for it
(`DeliveredInv`); rows shown without a name belong to no vault (`NamelessInv`); a
checkpoint that names an identity is accompanied by a sidecar that has one, since the
sidecar is saved first (`NamedInv`); what a tick has yet to deliver was read in the
vault that it is bound to (`ChangedHere`); nothing is uncommitted between ticks
(`NothingPending`). It holds for any number of faults, unlike `PrunedIsGone`.

### The dispatcher (`DispatcherLeasesProofs`)

* `DispatcherTypeCorrect`, with every command.
* `LeaseExcludes`, `LiveLeasesAreKept`, `LeaseIdsAreActive` (`Exclusion`,
  `LiveLeaseKept`, `ActiveLeaseOrNull`): `LeaseInv` makes tasks and leases refer to each other:
  an unreleased lease is its task's, with the same owner, a task's lease is
  unreleased and of this task, and the rows that a pull has listed had no lease.
* `LoneAgentExcludes`, `LoneAgentKeepsLeases` (`Exclusion`, `LiveLeaseKept` again): one agent
  with every command, beside the sweep and the pulls. Half of `LeaseInv` is false here, since
  a row written back may name a lease that the sweep has released. `AloneInv` keeps the
  other half and adds `CommandToLease`: the row that a command will write back names the
  lease its task has. The only agent grants none while it is in a command, the sweep only
  releases, and a pull keeps a leased row.
* `CleanupExcludes` (`CleanupExclusion`): a guard that is relied upon is the one in the file,
  with the same expiry, and every lease its task ever had is released (`GuardInv`), wherever
  the guard commands were cut off between database and file. That the *task's* lease id is
  empty would be stronger and is not needed, so the theorem holds also for one agent with
  every command.
* `EvidenceIsFresh` (`EvidenceFresh`): between a reclamation and the next pull the task
  carries the invalidation; a pull that finds none began after the last reclamation
  (`PullSince`), and so did the rows its reconciliation holds (`ListedSince`).

### The effect lease (`BindingEffectLeaseProofs`)

* `LeaseTypeCorrect`, `AlwaysRecoverable` (`Recoverable`), `HoldersStayListed`
  (`HolderListed`). `CopiesInv` says for each stage of the critical section where the
  registry, the local file and the journal are, so that a crash leaves a pair the next
  process accepts. `ValidInv` needs to know that the id which joins the queue is not
  in the state yet (`FreshInv`), also while another process's commit is under way
  (`NextInv`). `InsideInv` is the core: whoever is inside has both flocks and is listed
  in the registry *and in the state being committed*, so that neither outcome of a failing
  commit drops it; a reconciliation keeps it because its activity file is locked.
* `LeaseImplementsWindow`: `Spec => ImplementsWindow`, the refinement. Exclusion
  comes from the gate (`GateInv`) and not from the lease state; that nobody enters without
  ownership comes from the fence around the section (`SectionInv`).
* Reconciliation filters the queue with a recursive function (`Only`). What it returns is
  proved for queues of any length (`OnlyFacts`): the library's induction
  theorems cannot be instantiated, but its theorem that a set of naturals has a least
  member can (`Least`), and the least length at which the claim fails is an induction.

### The transfer (`ChannelTransferProofs`)

`TransferTypeCorrect`, `NeverTwoWriters` (`OneWriter`), `NoRowLeftBehind`
(`DrainedBeforeMove`), `OneRegisteredOwner` (`RegistriesFollow`), `ServicesAreDown`
(`ServicesStayDown`). The invariant has one part per file and one per relation of the
journal to an effect: `WindowInv` (as long as a file says that the window is proved, or a
command under way will write so, no service is up), `JournalInv` (where the coordinator
can be in each phase), `MoveInv` (an effect is done before its phase is saved and not before
the preceding phase was), `LeaseInv` (ownership is withdrawn by who is alone inside),
`QuietInv` (from the final drain on no service is up and none of their rows is
pending).

`TransferKeepsToWindow`: `Spec => SourceWindow!Spec`. The transfer uses the source's effect
lease only as `EffectWindow` allows, whatever crashes, while `LeaseImplementsWindow` says
that the lease of `BindingEffectLease` gives no more than that: the two meet in the
abstract module.

### The stopped window (`StoppedWindowProofs`)

`WindowsAreResumable` (`Resumable`) and `LiveClaimsAreKept` (`LiveClaimKept`). Neither is
inductive: they speak of the four files as they are, while a command decides on its writes
once and then makes them one by one, and its controller may die after any of them.
`RecoveryInv` says that the files are `Sound` now, and that the list of writes under way is
`Safe`: the files are sound after each prefix of it, and no write takes or drops the claim
of another controller that lives. `Sound` is what all cut-off points have in common:
fence, proof and block carry the nonce of the lease, and the block is the lease or an
earlier state of it that a writer left behind (`BlockFollows`: behind a proved lease it
is one that prove reconciles, so a proved window whose proof was never written, or
whose block lags, can be proved again). The proof has one lemma for
each list that the code builds (`ClaimSafe`, `ProofSafe`, `CleanupSafe`, ...), one for each
command, which puts its lists together, and `SoundFewer` and `SafeFewer`: a death only
makes more states sound, so a list decided while a controller lived stays safe when it
dies. The theorems are about `ChannelTransfer!Spec`, where the coordinator is one of those
who use the window.

### Only model-checked

* Liveness under fairness, which is out of the prover's reach: `EveryRowSettles`,
  `EveryObservationConcludes`, `CatchesUp`, `ExpiredLeaseCleared`, `WaitersEnter`.
* `PrunedIsGone` of the watcher: true with one fault, refuted with two (finding 3); the
  bound is not one the code gives. No simple condition takes its place: leaving out the
  identity error of finding 3 is not enough (see there).

## 5. Findings

1. **Retry keys collide under `run_once`** (`outbox_worker.py:1603`, run
   `retry_drain`). Without an injected event id the key falls back to the note's path;
   the second observation's retry is dropped as a duplicate, reported as queued, and
   its row acked.
2. **`release` overwrites a takeover** (`leases.py:587`, run
   `dispatcher_release_race`). An expired holder's release, interleaved with another
   agent's claim, writes back the row it read: the task is ready while the new
   lease is live, and is claimed a second time.
3. **Present notes are pruned** (`state.py:736`, run `watcher_prune`). An identity
   error in mid-generation starts generation g+1, a crash between the two saves
   leaves its rows in the sidecar under the checkpoint of generation g, and the
   resumed generation counts them as unseen. The notes are then delivered again.
   With `MaxChanges = 1` and `RateLimit = 2` there is a second way, without an identity
   error: the vault is replaced in mid-generation, a tick begins generation g+1 for the new
   one and crashes between the two saves; the next tick begins g+1 again, a delivery
   fails, and the failure restores generation g but keeps the binding to the new vault,
   under which the sidecar's rows of g+1 are visible.

Two more disagreements were seen while modelling and are not kept as runs, being of
the same kind as finding 2: `block` and the other whole-row upserts (`queue.py:104`)
can write back a lease id that a sweep released in between, leaving a task that
`claim`, `heartbeat` and the sweep all refuse (`ActiveLeaseOrNull` with
`RowCommands = {"block"}`); and two overlapping pulls, of which the later one clears
the invalidation, let the earlier one restore evidence from before a release
(`store.py:916`, `EvidenceFresh` with two pullers).

The instance runtime has four more, found with the modules above:

* The release of a window that is still only claimed replaces the lease by its cleanup
  phase and then the block. Interrupted between the two it leaves the pair (claimed,
  cleanup), which is not among the lags that the readers accept (`runtime.py:2719`):
  begin, release and finish all raise, although `runtime.py:4575` promises to "complete
  the durable cleanup phase". It is the first exception in `Resumable`; without it the
  invariant is violated.
* A successor that adopts a dead controller's claim and dies between replacing the
  lease and the fence leaves a claim that every later begin refuses
  (`runtime.py:3034`); the block is reconciled for exactly this crash
  (`runtime.py:2660`), the fence is not. A `deployment-release` to which an operator
  gives the dead successor's identity still takes the state; the scripts only release
  their own claim (`scripts/lib/instance_state_deployment.sh:16`). The second exception in `Resumable`.
* The stopped proof is read once per run (`runtime.py:1412`): a window that its
  controller ends after that leaves ownership changing hands without a restart
  fence, which the comment there excludes. No service comes up all the same, because
  the preflight also reads the transfer's journal (`ServicesStayDown`), and no effect
  overlaps, because of the effect lease (`OneWriter`).
* A worker started by hand inside the window shares a row with the final drain and may
  write a follow-up row after the drain found nothing; the row keeps the source's
  binding id when ownership moves. The comment at `runtime.py:1181` says that the fence
  covers CLI invocations. `DrainedBeforeMove` excepts such rows; without the exception
  it is violated.

## 6. Hazards

`PROJECT.json` lists them at their lines with the properties that cover them. Not
covered yet: a release cut off between its two upserts (`leases.py:566`), the
reconciliation's comparison of status alone (`sync_github.py:1169`), the watcher's
other roots behind an unreadable one (`registry.py:1587`), the restart loop of a
stopped watcher without a checkpoint (`state.py:467`), and a transfer that waits for
the acknowledgement of a watcher which may no longer be started on this root
(`settings_rebind.py:927`).

## 7. How to check

`tlc -config X.cfg M` for each run of `PROJECT.json`; `tlapm M.tla` for each of the eight
modules named `*Proofs`.

## 8. Plan

1. Compose: watcher deliveries as the producers of `OutboxWorker`, the JSONL file as
   the audit of its dead letters, so that "a change of a note is handled or
   dead-lettered" is one property from the vault to the handler.
2. `SettingsRebind`: the stages of the watcher's acknowledgement (`settings_rebind.py` of
   the instance and of the watcher), which `ChannelTransfer` takes as one step; then
   the progress of a transfer can be stated.
3. `VaultWrites`: compare-and-swap writes of `knowledge/write_ops.py` and
   `multiwriter.py`; then acquisition requests and the BuilderOps store.
4. Proofs: a condition on the faults, natural for the code, under which `PrunedIsGone`
   holds for any number of them; theorems of the modules above as they are written.
