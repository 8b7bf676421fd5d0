--------------------------- MODULE RegistryWatcher ---------------------------
(***************************************************************************)
(* One watcher spec of app/watcher/registry.py, with the state it keeps in *)
(* a checkpoint file and a SQLite sidecar (app/watcher/state.py).  A tick  *)
(* scans part of the vault behind a durable cursor, emits an event for     *)
(* every changed note, accepts the note's new content as its observation,  *)
(* and saves; while it runs the user edits notes or replaces the vault,    *)
(* reads and sinks fail, and the process may die between any two steps.    *)
(***************************************************************************)
EXTENDS Naturals, Sequences, FiniteSetsExt

CONSTANTS
    Paths,          \* notes are 1 .. Paths, in the order the scan meets them
    RateLimit,      \* rate_limit_per_min
    MaxBadTicks,    \* max_bad_ticks: this many in a row trip the stop file
    MaxChanges,     \* bound on edits, deletions and replacements of the vault
    MaxFaults,      \* bound on failures and crashes
    NoRow, Kept

ASSUME SizeAssumption ==
    /\ Paths \in Nat /\ RateLimit \in Nat \ {0} /\ MaxBadTicks \in Nat \ {0}
    /\ MaxChanges \in Nat /\ MaxFaults \in Nat

Path == 1 .. Paths
NoPath == 0
Absent == 0
Content == 1 .. MaxChanges + 1
Vault == 1 .. MaxChanges + 1
NoId == 0
BadId == MaxChanges + 2      \* an identity measured while the vault's paths raised errors

\* An accepted observation: the content, the scan generation that last met the
\* note, and whether debounce_ms has not passed since.
Row == [hash : Content, gen : 0 .. 2, fresh : BOOLEAN]

ASSUME NoRowAssumption == NoRow \notin Row /\ Kept \notin Row \cup {NoRow}

VARIABLES
    vault, disk, changes,   \* the vault's identity; each note's content, or Absent
    db, jsonl,              \* the two sinks: <<vault, note, content>> delivered
    stopped,                \* the stop file exists
    pc, mem, pend, tick,    \* the process: step, WatcherState, uncommitted rows, tick locals
    store,                  \* the sidecar: its identity and rows
    ckptFile, ckpt,         \* the checkpoint: is it there and readable, and what it says
    faults

world == <<vault, disk, changes>>
sinks == <<db, jsonl>>
durable == <<store, ckptFile, ckpt>>
vars == <<world, sinks, stopped, pc, mem, pend, tick, durable, faults>>

\* WatcherState() without a checkpoint.
Fresh ==
    [scanning |-> FALSE, gen |-> 1, scanId |-> NoId, obsId |-> NoId, cursor |-> 0,
     hadError |-> FALSE, invalid |-> FALSE, priority |-> NoPath, prioGen |-> 0,
     loadError |-> FALSE, backoff |-> FALSE, window |-> 0, bad |-> 0]

NoPend == [p \in Path |-> Kept]

NoTick ==
    [start |-> Fresh, listing |-> {}, changed |-> <<>>, committed |-> NoPend,
     errs |-> FALSE, progress |-> FALSE, completed |-> FALSE, failed |-> FALSE]

Init ==
    /\ vault = 1 /\ disk = [p \in Path |-> 1] /\ changes = 0
    /\ db = {} /\ jsonl = {}
    /\ stopped = FALSE
    /\ pc = "idle" /\ mem = Fresh /\ pend = NoPend /\ tick = NoTick
    /\ store = [id |-> NoId, rows |-> [p \in Path |-> NoRow]]
    /\ ckptFile = "missing" /\ ckpt = Fresh
    /\ faults = 0

Fault ==
    /\ faults < MaxFaults
    /\ faults' = faults + 1
-----------------------------------------------------------------------------
(* WatcherState. *)

\* The sidecar's rows count only under the identity the state was bound to.
Visible == ~mem.invalid /\ (mem.obsId = NoId \/ store.id = mem.obsId)

file_entry(p) ==
    IF pend[p] # Kept THEN pend[p]
    ELSE IF Visible THEN store.rows[p] ELSE NoRow

\* mark_scan_generation_seen on an observed note, and update_file_state with
\* what the row already says.
Seen(p) == IF file_entry(p) = NoRow THEN pend[p] ELSE [file_entry(p) EXCEPT !.gen = mem.gen]

paths_unseen_in_generation ==
    IF ~Visible THEN {}
    ELSE {p \in Path : file_entry(p) # NoRow /\ file_entry(p).gen # mem.gen}

clear_throttle_priority(s) == [s EXCEPT !.priority = NoPath, !.prioGen = 0]

record_scan_error(s) == [s EXCEPT !.hadError = TRUE]
-----------------------------------------------------------------------------
(* A tick: the scan. *)

\* The stop file is there, or the backoff is not over: the tick only saves.
PausedTick ==
    /\ pc = "idle"
    /\ stopped \/ mem.backoff
    /\ pc' = "sidecar"
    /\ UNCHANGED <<world, sinks, stopped, mem, pend, tick, durable, faults>>

\* The scan of the same vault goes on behind its cursor.  Otherwise a new
\* generation begins; a vault known to be another one hides all observations,
\* one whose identity could not be measured keeps the last trusted identity.
begin_or_resume_scan(uncertain) ==
    LET replaced == ~uncertain /\ mem.scanId \notin {NoId, vault}
        base == IF replaced THEN clear_throttle_priority(mem) ELSE mem
    IN  IF mem.scanning /\ mem.scanId = vault /\ ~uncertain THEN mem
        ELSE [base EXCEPT !.invalid = @ \/ replaced,
                          !.gen = @ + 1,
                          !.scanId = IF ~uncertain THEN vault ELSE IF @ # NoId THEN @ ELSE BadId,
                          !.obsId = IF uncertain THEN @ ELSE vault,
                          !.cursor = 0, !.hadError = uncertain, !.scanning = TRUE]

TickBegins(uncertain) ==
    /\ pc = "idle"
    /\ ~stopped /\ ~mem.backoff
    /\ IF uncertain THEN Fault ELSE UNCHANGED faults
    /\ tick' = [NoTick EXCEPT !.start = mem, !.errs = uncertain]
    /\ UNCHANGED <<world, sinks, stopped, pend, durable>>

StartTick(uncertain) ==
    /\ TickBegins(uncertain)
    /\ mem' = begin_or_resume_scan(uncertain)
    /\ pc' = "list"

\* A root that cannot be resolved is dropped: nothing is left to walk.
RootsDropped ==
    /\ TickBegins(TRUE)
    /\ mem' = [begin_or_resume_scan(TRUE) EXCEPT !.scanning = FALSE]
    /\ pc' = "recheck"

\* iterdir, once a tick.
List ==
    /\ pc = "list"
    /\ tick' = [tick EXCEPT !.listing = {p \in Path : disk[p] # Absent}]
    /\ pc' = "scan"
    /\ UNCHANGED <<world, sinks, stopped, mem, pend, durable, faults>>

\* The vault's root cannot be resolved or listed: its frame is popped and pushed
\* again without the cursor, so that the scan starts over.
RootFails ==
    /\ pc \in {"list", "scan"}
    /\ Fault
    /\ mem' = [record_scan_error(mem) EXCEPT !.cursor = 0]
    /\ tick' = [tick EXCEPT !.errs = TRUE]
    /\ UNCHANGED <<world, sinks, stopped, pc, pend, durable>>

\* The vault's path cannot be resolved: the generation ends with the error.
VaultFails ==
    /\ pc \in {"list", "scan"}
    /\ Fault
    /\ mem' = [record_scan_error(mem) EXCEPT !.scanning = FALSE, !.cursor = 0]
    /\ tick' = [tick EXCEPT !.errs = TRUE]
    /\ pc' = "recheck"
    /\ UNCHANGED <<world, sinks, stopped, pend, durable>>

Ahead == {p \in tick.listing : p > mem.cursor}

\* The cursor moves on to note p, the next one of the listing.
Advance(p) ==
    /\ pc = "scan"
    /\ Ahead # {}
    /\ p = Min(Ahead)
    /\ UNCHANGED <<world, sinks, stopped, pc, durable>>

\* The rate-deferred note is met by this generation.
Met(s, p) == IF s.priority = p THEN [s EXCEPT !.prioGen = s.gen] ELSE s

\* The content is the observed one, as its mtime or its hash tells.
Known(p) == LET row == file_entry(p) IN row # NoRow /\ row.hash = disk[p]

\* Only the generation is noted.
ScanUnchanged(p) ==
    /\ Advance(p)
    /\ disk[p] # Absent
    /\ Known(p)
    /\ mem' = [(IF mem.priority = p THEN clear_throttle_priority(mem) ELSE mem)
                  EXCEPT !.cursor = p]
    /\ pend' = [pend EXCEPT ![p] = Seen(p)]
    /\ tick' = [tick EXCEPT !.progress = TRUE]
    /\ UNCHANGED faults

ScanChanged(p) ==
    /\ Advance(p)
    /\ disk[p] # Absent
    /\ ~Known(p)
    /\ mem' = [Met(mem, p) EXCEPT !.cursor = p]
    /\ tick' = [tick EXCEPT !.progress = TRUE,
                            !.changed = Append(@, [path |-> p, hash |-> disk[p], of |-> vault])]
    /\ UNCHANGED <<pend, faults>>

\* The note is gone since the listing, or its stat fails.
ScanStatFails(p) ==
    /\ Advance(p)
    /\ IF disk[p] = Absent THEN UNCHANGED faults ELSE Fault
    /\ mem' = [record_scan_error(mem) EXCEPT !.cursor = p]
    /\ tick' = [tick EXCEPT !.progress = TRUE, !.errs = TRUE]
    /\ UNCHANGED pend

\* The note cannot be read: presence is kept, the content is not.
ScanHashFails(p) ==
    /\ Advance(p)
    /\ Fault
    /\ disk[p] # Absent
    /\ ~Known(p)
    /\ mem' = [record_scan_error(IF mem.priority = p THEN clear_throttle_priority(mem) ELSE mem)
                  EXCEPT !.cursor = p]
    /\ pend' = [pend EXCEPT ![p] = Seen(p)]
    /\ tick' = [tick EXCEPT !.progress = TRUE, !.errs = TRUE]

\* A file, byte or time budget is used up: the generation goes on next tick.
Pause ==
    /\ pc \in {"list", "scan"}
    /\ pc' = "recheck"
    /\ UNCHANGED <<world, sinks, stopped, mem, pend, tick, durable, faults>>

Exhausted ==
    /\ pc = "scan"
    /\ Ahead = {}
    /\ mem' = [mem EXCEPT !.scanning = FALSE, !.cursor = 0]
    /\ pc' = "recheck"
    /\ UNCHANGED <<world, sinks, stopped, pend, tick, durable, faults>>

\* After the scan the identity is measured again.  A failed full scan that did
\* not meet the rate-deferred note gives up its priority.
Recheck(uncertain) ==
    /\ pc = "recheck"
    /\ IF uncertain THEN Fault ELSE UNCHANGED faults
    /\ LET hidden == mem.hadError /\ ~mem.scanning /\ mem.prioGen # mem.gen
           kept == IF hidden THEN clear_throttle_priority(mem) ELSE mem
           moved == uncertain \/ mem.scanId # vault
       IN  /\ mem' = IF moved THEN record_scan_error(kept) ELSE kept
           /\ tick' = [tick EXCEPT !.errs = @ \/ moved, !.completed = ~mem.scanning,
                                   !.listing = {}]
    /\ pc' = "emit"
    /\ UNCHANGED <<world, sinks, stopped, pend, durable>>
-----------------------------------------------------------------------------
(* A tick: the delivery of the changed notes. *)

Changed == Head(tick.changed)

\* Another note waits for the next free slot of the rate window.
Yields == mem.priority \notin {NoPath, Changed.path}

Debounced == LET row == file_entry(Changed.path) IN row # NoRow /\ row.fresh

\* Variant of RateLimited: one too many.
RateLimitedLate == mem.window > RateLimit

RateLimited == mem.window >= RateLimit

\* The head of the list is dealt with: what the state now says of it is what a
\* failure of a later one falls back to.
Committed(row) ==
    tick' = [tick EXCEPT !.changed = Tail(@), !.committed[Changed.path] = row]

\* Variant of Skip: a deferred note is accepted all the same.
SkipAccepts ==
    LET p == Changed.path
        row == [hash |-> Changed.hash, gen |-> mem.gen, fresh |-> FALSE]
    IN  /\ pc = "emit" /\ tick.changed # <<>>
        /\ Yields \/ Debounced \/ RateLimited
        /\ pend' = [pend EXCEPT ![p] = row]
        /\ Committed(row)
        /\ UNCHANGED <<world, sinks, stopped, pc, mem, durable, faults>>

\* The note is deferred: its observation stays behind, so that a later scan
\* meets the change again.  The first rate-limited note gets priority.
Skip ==
    LET p == Changed.path
        row == Seen(p)
        limited == ~Yields /\ ~Debounced
    IN  /\ pc = "emit" /\ tick.changed # <<>>
        /\ Yields \/ Debounced \/ RateLimited
        /\ pend' = [pend EXCEPT ![p] = row]
        /\ mem' = IF limited THEN [mem EXCEPT !.priority = p, !.prioGen = mem.gen] ELSE mem
        /\ Committed(IF row = Kept THEN NoRow ELSE row)
        /\ UNCHANGED <<world, sinks, stopped, pc, durable, faults>>

Delivers == /\ tick.changed # <<>>
            /\ ~Yields /\ ~Debounced /\ ~RateLimited

Event == <<Changed.of, Changed.path, Changed.hash>>

\* insert_object_and_outbox commits.
DbWrite ==
    /\ pc = "emit" /\ Delivers
    /\ db' = db \cup {Event}
    /\ pc' = "append"
    /\ UNCHANGED <<world, jsonl, stopped, mem, pend, tick, durable, faults>>

\* append_jsonl_outbox_event returns, and the observation is accepted.
Accept ==
    LET p == Changed.path
        row == [hash |-> Changed.hash, gen |-> mem.gen, fresh |-> TRUE]
    IN  /\ pc = "append"
        /\ jsonl' = jsonl \cup {Event}
        /\ pend' = [pend EXCEPT ![p] = row]
        /\ mem' = [(IF mem.priority = p THEN clear_throttle_priority(mem) ELSE mem)
                      EXCEPT !.window = @ + 1]
        /\ Committed(row)
        /\ pc' = "emit"
        /\ UNCHANGED <<world, db, stopped, durable, faults>>

\* The scan and its observations are taken back to where the tick began, but
\* not the notes the tick had dealt with; one of those binds the state to the
\* vault the tick found.
delivery_failed ==
    LET bound == \E p \in Path : tick.committed[p] # Kept
        s == tick.start
    IN  /\ mem' = [mem EXCEPT !.scanning = s.scanning, !.gen = s.gen, !.cursor = s.cursor,
                              !.hadError = s.hadError, !.invalid = s.invalid,
                              !.scanId = IF bound THEN mem.obsId ELSE s.scanId,
                              !.obsId = IF bound THEN mem.obsId ELSE s.obsId,
                              !.backoff = TRUE]
        /\ pend' = [p \in Path |-> IF tick.committed[p] \in {Kept, NoRow} THEN tick.committed[p]
                                   ELSE [tick.committed[p] EXCEPT !.gen = s.gen]]
        /\ tick' = [tick EXCEPT !.changed = <<>>, !.errs = TRUE, !.failed = TRUE]

\* Either sink raises; the event may be in the first one.
DeliveryFails ==
    /\ pc = "append" \/ (pc = "emit" /\ Delivers)
    /\ Fault
    /\ delivery_failed
    /\ pc' = "emit"
    /\ UNCHANGED <<world, sinks, stopped, durable>>
-----------------------------------------------------------------------------
(* A tick: guardrails, reconciliation of absent notes, and the save. *)

Clean == ~tick.errs /\ ~mem.hadError

\* Variant of Reconciles: an unfinished generation reconciles too.
ReconcilesPartial == Clean /\ ~mem.loadError /\ ~tick.failed

\* Only a complete clean generation may drop observations.
Reconciles == tick.completed /\ Clean /\ ~mem.loadError /\ ~tick.failed

Finish(uncertain) ==
    /\ pc = "emit" /\ tick.changed = <<>>
    /\ uncertain => Reconciles
    /\ IF uncertain THEN Fault ELSE UNCHANGED faults
    /\ LET bad == IF tick.errs \/ (mem.scanning /\ ~tick.progress)
                  THEN Min({mem.bad + 1, MaxBadTicks}) ELSE 0
           recovered == tick.completed /\ Clean /\ ~tick.failed
           moved == uncertain \/ mem.scanId # vault
           s == [mem EXCEPT !.bad = bad, !.loadError = @ /\ ~recovered]
       IN  /\ stopped' = (stopped \/ bad = MaxBadTicks)
           /\ IF Reconciles /\ ~moved
              THEN /\ mem' = IF s.prioGen # s.gen THEN clear_throttle_priority(s) ELSE s
                   /\ pend' = [p \in Path |-> IF p \in paths_unseen_in_generation
                                              THEN NoRow ELSE pend[p]]
              ELSE /\ mem' = IF Reconciles THEN record_scan_error(s) ELSE s
                   /\ UNCHANGED pend
    /\ pc' = "sidecar"
    /\ UNCHANGED <<world, sinks, tick, durable>>

Down ==
    /\ pc' = "down"
    /\ mem' = Fresh /\ pend' = NoPend /\ tick' = NoTick

SaveId == IF mem.obsId # NoId THEN mem.obsId ELSE mem.scanId

\* Variant of SaveSidecar: rows of another identity are relabelled.
SaveSidecarRelabels ==
    /\ pc = "sidecar"
    /\ ~(mem.invalid /\ SaveId = NoId)
    /\ store' = [id |-> IF SaveId # NoId THEN SaveId ELSE store.id,
                 rows |-> [p \in Path |-> IF pend[p] # Kept THEN pend[p] ELSE store.rows[p]]]
    /\ mem' = [mem EXCEPT !.invalid = FALSE]
    /\ pend' = NoPend
    /\ pc' = "checkpoint"
    /\ UNCHANGED <<world, sinks, stopped, tick, ckptFile, ckpt, faults>>

\* One sidecar transaction; rows of another identity make place.
SaveSidecar ==
    LET replace == mem.invalid \/ SaveId \notin {NoId, store.id}
    IN  /\ pc = "sidecar"
        /\ ~(mem.invalid /\ SaveId = NoId)
        /\ store' = [id |-> IF replace THEN SaveId ELSE store.id,
                     rows |-> [p \in Path |-> IF pend[p] # Kept THEN pend[p]
                                              ELSE IF replace THEN NoRow ELSE store.rows[p]]]
        /\ mem' = [mem EXCEPT !.invalid = FALSE]
        /\ pend' = NoPend
        /\ pc' = "checkpoint"
        /\ UNCHANGED <<world, sinks, stopped, tick, ckptFile, ckpt, faults>>

\* "cannot invalidate observations without an identity": the process ends.
SaveRaises ==
    /\ pc = "sidecar"
    /\ mem.invalid /\ SaveId = NoId
    /\ Down
    /\ UNCHANGED <<world, sinks, stopped, durable, faults>>

\* os.replace of the checkpoint.  Generation numbers are only compared for
\* equality, so they are renamed here: 1 is the current one and 2 the next.
SaveCheckpoint ==
    LET renamed(n) == IF n = mem.gen THEN 1 ELSE IF n = mem.gen + 1 THEN 2 ELSE 0
    IN  /\ pc = "checkpoint"
        /\ mem' = [mem EXCEPT !.gen = 1, !.prioGen = renamed(mem.prioGen)]
        /\ store' = [store EXCEPT !.rows = [p \in Path |->
                        LET row == store.rows[p]
                        IN  IF row = NoRow THEN NoRow ELSE [row EXCEPT !.gen = renamed(row.gen)]]]
        /\ ckptFile' = "ok"
        /\ ckpt' = mem'
        /\ pc' = "idle"
        /\ tick' = NoTick
        /\ UNCHANGED <<world, sinks, stopped, pend, faults>>

Crash ==
    /\ pc # "down"
    /\ Fault
    /\ Down
    /\ UNCHANGED <<world, sinks, stopped, durable>>

\* load_registry: without a checkpoint that names an identity, the sidecar's
\* rows are hidden.
Restart ==
    LET loaded == [ckpt EXCEPT !.obsId = IF @ # NoId THEN @ ELSE ckpt.scanId]
        state == CASE ckptFile = "ok" -> loaded
                   [] ckptFile = "missing" -> Fresh
                   [] ckptFile = "malformed" -> [Fresh EXCEPT !.loadError = TRUE, !.hadError = TRUE]
    IN  /\ pc = "down"
        /\ mem' = [state EXCEPT !.invalid = @ \/ (state.obsId = NoId /\ store.id # NoId)]
        /\ store' = [store EXCEPT !.id = IF @ = NoId THEN state.obsId ELSE @]
        /\ pc' = "idle"
        /\ UNCHANGED <<world, sinks, stopped, pend, tick, ckptFile, ckpt, faults>>
-----------------------------------------------------------------------------
(* The surroundings: time between ticks, the user, and the operator. *)

Asleep == pc \in {"idle", "down"}

DebounceOver ==
    /\ Asleep
    /\ \E p \in Path : store.rows[p] # NoRow /\ store.rows[p].fresh
    /\ store' = [store EXCEPT !.rows = [p \in Path |->
                    IF @[p] = NoRow THEN NoRow ELSE [@[p] EXCEPT !.fresh = FALSE]]]
    /\ UNCHANGED <<world, sinks, stopped, pc, mem, pend, tick, ckptFile, ckpt, faults>>

\* The rate window empties, and the backoff ends.
MinuteOver ==
    LET rested(s) == [s EXCEPT !.window = 0, !.backoff = FALSE]
    IN  /\ Asleep
        /\ rested(ckpt) # ckpt
        /\ ckpt' = rested(ckpt)
        /\ mem' = rested(mem)
        /\ UNCHANGED <<world, sinks, stopped, pc, pend, tick, store, ckptFile, faults>>

\* Something happens to the vault; a new content is one no note had before.
Change ==
    /\ changes < MaxChanges
    /\ changes' = changes + 1
    /\ UNCHANGED <<sinks, stopped, pc, mem, pend, tick, durable, faults>>

Edit(p) ==
    /\ Change
    /\ disk' = [disk EXCEPT ![p] = changes + 2]
    /\ UNCHANGED vault

Delete(p) ==
    /\ Change
    /\ disk[p] # Absent
    /\ disk' = [disk EXCEPT ![p] = Absent]
    /\ UNCHANGED vault

\* Another vault takes the path; its notes may have the contents of old ones.
ReplaceVault(notes) ==
    /\ Change
    /\ vault' = vault + 1
    /\ disk' = notes

\* The process ends, and its checkpoint is removed or damaged meanwhile.
LoseCheckpoint ==
    /\ pc # "down"
    /\ ckptFile = "ok"
    /\ Fault
    /\ Down
    /\ ckptFile' \in {"missing", "malformed"}
    /\ ckpt' = Fresh
    /\ UNCHANGED <<world, sinks, stopped, store>>

RemoveStopFile ==
    /\ stopped
    /\ stopped' = FALSE
    /\ UNCHANGED <<world, sinks, pc, mem, pend, tick, durable, faults>>
-----------------------------------------------------------------------------
\* What the process does by itself.
Watcher ==
    \/ Restart \/ PausedTick \/ StartTick(FALSE) \/ List
    \/ \E p \in Path : ScanUnchanged(p) \/ ScanChanged(p)
    \/ \E p \in Path : disk[p] = Absent /\ ScanStatFails(p)
    \/ Pause \/ Exhausted \/ Recheck(FALSE) \/ Skip \/ DbWrite \/ Accept
    \/ Finish(FALSE) \/ SaveSidecar \/ SaveRaises \/ SaveCheckpoint

Failure ==
    \/ Crash \/ LoseCheckpoint \/ StartTick(TRUE) \/ RootsDropped \/ RootFails
    \/ VaultFails \/ Recheck(TRUE)
    \/ \E p \in Path : ScanHashFails(p) \/ (disk[p] # Absent /\ ScanStatFails(p))
    \/ DeliveryFails \/ Finish(TRUE)

User ==
    \/ \E p \in Path : Edit(p) \/ Delete(p)
    \/ \E notes \in [Path -> 0 .. changes + 1] : ReplaceVault(notes)
    \/ RemoveStopFile

Next == Watcher \/ Failure \/ User \/ DebounceOver \/ MinuteOver

\* The watcher's container is restarted unless stopped, its loop has no other
\* way out, and every tick ends with a sleep in which time passes.
Spec ==
    /\ Init /\ [][Next]_vars
    /\ WF_vars(Watcher)
    /\ SF_vars(DebounceOver) /\ SF_vars(MinuteOver)
-----------------------------------------------------------------------------
TypeOK ==
    LET State == [scanning : BOOLEAN, gen : 1 .. 2, scanId : 0 .. BadId, obsId : 0 .. BadId,
                  cursor : 0 .. Paths, hadError : BOOLEAN, invalid : BOOLEAN,
                  priority : 0 .. Paths, prioGen : 0 .. 2, loadError : BOOLEAN,
                  backoff : BOOLEAN, window : 0 .. RateLimit, bad : 0 .. MaxBadTicks]
        Rows == [Path -> Row \cup {NoRow}]
        Pend == [Path -> Row \cup {NoRow, Kept}]
    IN  /\ vault \in Vault /\ changes \in 0 .. MaxChanges
        /\ disk \in [Path -> Content \cup {Absent}]
        /\ db \subseteq Vault \X Path \X Content /\ jsonl \subseteq db
        /\ stopped \in BOOLEAN
        /\ pc \in {"down", "idle", "list", "scan", "recheck", "emit", "append", "sidecar",
                   "checkpoint"}
        /\ mem \in State /\ ckpt \in State /\ tick.start \in State
        /\ pend \in Pend /\ tick.committed \in Pend
        /\ store.id \in 0 .. BadId /\ store.rows \in Rows
        /\ ckptFile \in {"ok", "missing", "malformed"}
        /\ faults \in 0 .. MaxFaults

Delivered(v, p, c) == <<v, p, c>> \in db /\ <<v, p, c>> \in jsonl

\* "Delivery and its durable observation cursor are one state transition": a
\* content the watcher takes as known, in memory or in the sidecar, was
\* delivered to both sinks as a content of this vault.  So no failure, crash,
\* lost checkpoint or replaced vault makes an undelivered change look old.
AcceptedWasDelivered ==
    \A p \in Path :
        /\ (pc # "down" /\ mem.obsId = vault /\ file_entry(p) # NoRow) =>
               Delivered(vault, p, file_entry(p).hash)
        /\ (store.id = vault /\ store.rows[p] # NoRow) =>
               Delivered(vault, p, store.rows[p].hash)

\* What reconciliation may never do: drop the observation of a note that still
\* has the content observed.
PrunedIsGone ==
    [][(pc = "emit" /\ pc' = "sidecar") =>
          \A p \in Path :
              (file_entry(p) # NoRow /\ pend'[p] = NoRow) => disk[p] # file_entry(p).hash]_vars

\* Every content that stays is delivered, however the rate limit, the debounce
\* interval, the scan budgets and a bounded number of failures delay it: when
\* the changes of the vault are over the watcher catches up, unless the
\* guardrail stops it.
CatchesUp ==
    []<>(stopped \/ \A p \in Path : disk[p] = Absent \/ Delivered(vault, p, disk[p]))
=============================================================================
