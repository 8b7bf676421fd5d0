----------------------- MODULE RegistryWatcherProofs -----------------------
(***************************************************************************)
(* Proofs about the registry watcher, for any number of notes, any rate    *)
(* limit and guardrail, and any number of changes of the vault and of      *)
(* failures.                                                               *)
(***************************************************************************)
EXTENDS RegistryWatcher, TLAPS

State == [scanning : BOOLEAN, gen : 1 .. 2, scanId : 0 .. BadId, obsId : 0 .. BadId,
          cursor : 0 .. Paths, hadError : BOOLEAN, invalid : BOOLEAN,
          priority : 0 .. Paths, prioGen : 0 .. 2, loadError : BOOLEAN,
          backoff : BOOLEAN, window : 0 .. RateLimit, bad : 0 .. MaxBadTicks]

Pend == [Path -> Row \cup {NoRow, Kept}]

Note == [path : Path, hash : Content, of : Vault]

Tick == [start : State, listing : SUBSET Path, changed : Seq(Note), committed : Pend,
         errs : BOOLEAN, progress : BOOLEAN, completed : BOOLEAN, failed : BOOLEAN]

Store == [id : 0 .. BadId, rows : [Path -> Row \cup {NoRow}]]

InTick == pc \in {"list", "scan", "recheck", "emit", "append"}
-----------------------------------------------------------------------------
(* The invariants. *)

WorldType ==
    /\ vault \in Nat /\ changes \in 0 .. MaxChanges
    /\ 1 <= vault /\ vault <= changes + 1
    /\ disk \in [Path -> Content \cup {Absent}]

SinkType == db \subseteq Vault \X Path \X Content /\ jsonl \subseteq db

ProcType ==
    /\ stopped \in BOOLEAN
    /\ pc \in {"down", "idle", "list", "scan", "recheck", "emit", "append", "sidecar",
               "checkpoint"}
    /\ faults \in 0 .. MaxFaults
    /\ ckptFile \in {"ok", "missing", "malformed"}

\* Generation numbers are renamed at each save: between ticks the current one is 1.
StateType ==
    /\ mem \in State /\ (pc = "idle" => mem.gen = 1)
    /\ ckpt \in State /\ ckpt.gen = 1

TickType == tick \in Tick /\ tick.start.gen = 1

RowType == pend \in Pend /\ store \in Store

\* Between the two sinks the event is in the first one, and the rate window has room.
HalfDelivered ==
    pc = "append" => /\ tick.changed # <<>>
                     /\ Event \in db
                     /\ mem.window < RateLimit

TypeInv ==
    WorldType /\ SinkType /\ ProcType /\ StateType /\ TickType /\ RowType /\ HalfDelivered

\* Only identities met so far are written down, apart from the unmeasurable one.
Id == 0 .. vault \cup {BadId}

\* A scan is bound to a vault only together with the observations.
IdsKnown(s) ==
    /\ s.scanId \in Id /\ s.obsId \in Id
    /\ s.obsId = NoId => s.scanId \in {NoId, BadId}

AllIdsKnown ==
    /\ IdsKnown(mem) /\ IdsKnown(ckpt) /\ IdsKnown(tick.start)
    /\ store.id \in Id

\* Rows that are shown without an identity are not some vault's.
Nameless(s) == (s.obsId = NoId /\ ~s.invalid) => store.id \in {NoId, BadId}

NamelessInv ==
    /\ pc # "down" => Nameless(mem)
    /\ InTick => Nameless(tick.start) /\ (mem.obsId = NoId => tick.start.obsId = NoId)

\* A checkpoint that names an identity is younger than a sidecar that has one.
Unnamed(s) == s.obsId = NoId /\ s.scanId = NoId

NamedInv ==
    store.id = NoId => Unnamed(ckpt) /\ (pc = "checkpoint" => Unnamed(mem))

\* Nothing is uncommitted between ticks.
NothingPending == pc \in {"down", "idle", "checkpoint"} => pend = NoPend

RowsDelivered(rows) ==
    \A p \in Path : rows[p] \notin {NoRow, Kept} => Delivered(vault, p, rows[p].hash)

\* Rows under the name of this vault, saved, uncommitted, or to be fallen back
\* to, were delivered for it.
DeliveredInv ==
    /\ store.id = vault => RowsDelivered(store.rows)
    /\ mem.obsId = vault => RowsDelivered(pend)
    /\ (InTick /\ mem.obsId = vault) => RowsDelivered(tick.committed)

\* What a tick has yet to deliver was read in the vault the tick is bound to,
\* unless that vault is gone.
ChangedHere ==
    (InTick /\ mem.obsId = vault) =>
        \A i \in DOMAIN tick.changed : tick.changed[i].of = vault

SafeInv ==
    AllIdsKnown /\ NamelessInv /\ NamedInv /\ NothingPending /\ DeliveredInv /\ ChangedHere

IInv == TypeInv /\ SafeInv
-----------------------------------------------------------------------------
(* The operators on states and rows. *)

\* The bounds as numbers.
LEMMA Numbers ==
    /\ Paths \in Nat /\ RateLimit \in Nat /\ MaxBadTicks \in Nat
    /\ MaxChanges \in Nat /\ MaxFaults \in Nat /\ BadId \in Nat
    /\ BadId > MaxChanges + 1 /\ MaxBadTicks >= 1
  BY SizeAssumption DEF BadId

\* Two states bound to the same vault, with the same view of the sidecar.
SameBinding(s, t) == s.scanId = t.scanId /\ s.obsId = t.obsId /\ s.invalid = t.invalid

\* A new state is well typed and bound to nothing.
LEMMA FreshFacts ==
    /\ Fresh \in State /\ Fresh.gen = 1
    /\ Fresh.obsId = NoId /\ Fresh.scanId = NoId /\ ~Fresh.invalid /\ NoPend \in Pend
    /\ NoTick \in Tick /\ NoTick.start = Fresh
<1>1. /\ Fresh \in State /\ Fresh.gen = 1
      /\ Fresh.obsId = NoId /\ Fresh.scanId = NoId /\ ~Fresh.invalid
  BY Numbers DEF Fresh, State, NoId, NoPath
<1>2. NoPend \in Pend
  BY DEF NoPend, Pend
<1>3. <<>> \in Seq(Note)
  OBVIOUS
<1> QED
  BY <1>1, <1>2, <1>3 DEF NoTick, Tick

\* What the small updates of a state leave alone.
LEMMA ClearFacts ==
    ASSUME NEW s \in State
    PROVE  LET t == clear_throttle_priority(s)
           IN  t \in State /\ SameBinding(t, s) /\ t.gen = s.gen /\ t.window = s.window
<1>1. 0 \in 0 .. Paths /\ 0 \in 0 .. 2
  BY Numbers
<1>2. [s EXCEPT !.priority = 0] \in State /\ [s EXCEPT !.prioGen = 0] \in State
  BY <1>1 DEF State
<1>3. [s EXCEPT !.priority = 0, !.prioGen = 0] \in State
  BY <1>1 DEF State
<1>4. SameBinding(clear_throttle_priority(s), s) /\ clear_throttle_priority(s).gen = s.gen
      /\ clear_throttle_priority(s).window = s.window
  BY DEF State, SameBinding, clear_throttle_priority
<1> QED
  BY <1>3, <1>4 DEF clear_throttle_priority, NoPath

LEMMA ErrorFacts ==
    ASSUME NEW s \in State
    PROVE  LET t == record_scan_error(s)
           IN  t \in State /\ SameBinding(t, s) /\ t.gen = s.gen /\ t.window = s.window
  BY DEF State, record_scan_error, SameBinding

LEMMA MetFacts ==
    ASSUME NEW s \in State, NEW p
    PROVE  LET t == Met(s, p)
           IN  t \in State /\ SameBinding(t, s) /\ t.gen = s.gen /\ t.window = s.window
<1>1. s.gen \in 0 .. 2
  BY DEF State
<1> QED
  BY <1>1 DEF State, Met, SameBinding

\* The cursor is no part of the binding.
LEMMA CursorFacts ==
    ASSUME NEW s \in State, NEW n \in 0 .. Paths
    PROVE  LET t == [s EXCEPT !.cursor = n]
               u == [s EXCEPT !.scanning = FALSE, !.cursor = n]
           IN  /\ t \in State /\ SameBinding(t, s) /\ t.gen = s.gen /\ t.window = s.window
               /\ u \in State /\ SameBinding(u, s) /\ u.gen = s.gen /\ u.window = s.window
  BY DEF State, SameBinding

\* Nor is the flag of a running scan.
LEMMA StopScanFacts ==
    ASSUME NEW s \in State
    PROVE  LET t == [s EXCEPT !.scanning = FALSE]
           IN  t \in State /\ SameBinding(t, s) /\ t.gen = s.gen
  BY DEF State, SameBinding

\* The rows that a state shows are rows.
LEMMA EntryFacts ==
    ASSUME TypeInv, NEW p \in Path
    PROVE  /\ file_entry(p) \in Row \cup {NoRow}
           /\ Seen(p) \in Row \cup {NoRow, Kept}
           /\ Seen(p) \in Row => Seen(p).hash = file_entry(p).hash /\ file_entry(p) \in Row
<1>1. /\ pend[p] \in Row \cup {NoRow, Kept} /\ store.rows[p] \in Row \cup {NoRow}
      /\ mem.gen \in 0 .. 2
  BY DEF TypeInv, RowType, StateType, Pend, Store, State
<1>2. file_entry(p) \in Row \cup {NoRow}
  BY <1>1 DEF file_entry
<1>3. ASSUME file_entry(p) = NoRow
      PROVE  Seen(p) \in {NoRow, Kept}
  BY <1>1, <1>3, NoRowAssumption DEF file_entry, Seen
<1>4. ASSUME NEW r \in Row
      PROVE  [r EXCEPT !.gen = mem.gen] \in Row /\ [r EXCEPT !.gen = mem.gen].hash = r.hash
  BY <1>1 DEF Row
<1>5. ASSUME file_entry(p) \in Row
      PROVE  Seen(p) \in Row /\ Seen(p).hash = file_entry(p).hash
  BY <1>4, <1>5, NoRowAssumption DEF Seen
<1> QED
  BY <1>2, <1>3, <1>5, NoRowAssumption

\* The state with which a tick begins.
LEMMA BeginFacts ==
    ASSUME TypeInv, mem.gen = 1, NEW uncertain \in BOOLEAN
    PROVE  LET t == begin_or_resume_scan(uncertain)
           IN  /\ t \in State
               /\ uncertain => /\ t.obsId = mem.obsId /\ t.invalid = mem.invalid
                               /\ t.scanId = IF mem.scanId # NoId THEN mem.scanId ELSE BadId
               /\ ~uncertain => \/ SameBinding(t, mem) /\ mem.scanId = vault
                                \/ t.obsId = vault /\ t.scanId = vault
<1> DEFINE replaced == ~uncertain /\ mem.scanId \notin {NoId, vault}
           base == IF replaced THEN clear_throttle_priority(mem) ELSE mem
           scan == IF ~uncertain THEN vault ELSE IF mem.scanId # NoId THEN mem.scanId ELSE BadId
           obs == IF uncertain THEN mem.obsId ELSE vault
           new == [base EXCEPT !.invalid = @ \/ replaced, !.gen = @ + 1, !.scanId = scan,
                               !.obsId = obs, !.cursor = 0, !.hadError = uncertain,
                               !.scanning = TRUE]
<1>1. mem \in State /\ vault \in 0 .. BadId /\ mem.scanId \in 0 .. BadId /\ mem.obsId \in 0 .. BadId
  BY Numbers DEF TypeInv, StateType, WorldType, State
<1>2. base \in State /\ base.gen = 1 /\ SameBinding(base, mem)
  <2>1. CASE replaced
    BY <1>1, <2>1, ClearFacts
  <2>2. CASE ~replaced
    BY <1>1, <2>2 DEF SameBinding
  <2> QED
    BY <2>1, <2>2
<1>3. scan \in 0 .. BadId /\ obs \in 0 .. BadId /\ replaced \in BOOLEAN /\ 0 \in 0 .. Paths
  BY <1>1, Numbers
<1>4. begin_or_resume_scan(uncertain) =
          IF mem.scanning /\ mem.scanId = vault /\ ~uncertain THEN mem ELSE new
  BY <1>2 DEF begin_or_resume_scan, SameBinding
<1>5. new \in State /\ new.obsId = obs /\ new.scanId = scan /\ new.invalid = (base.invalid \/ replaced)
  <2> DEFINE i == base.invalid \/ replaced
             g == base.gen + 1
  <2>1. i \in BOOLEAN /\ g \in 1 .. 2 /\ TRUE \in BOOLEAN
    BY <1>2
  <2> HIDE DEF base, scan, obs, replaced, i, g
  <2>2. [base EXCEPT !.invalid = i, !.gen = g, !.scanId = scan] \in State
    BY <1>2, <1>3, <2>1 DEF State
  <2>3. ASSUME NEW b \in State
        PROVE  [b EXCEPT !.obsId = obs, !.cursor = 0, !.hadError = uncertain] \in State
    BY <1>3 DEF State
  <2>4. ASSUME NEW b \in State
        PROVE  [b EXCEPT !.scanning = TRUE] \in State
    BY DEF State
  <2>5. new = [base EXCEPT !.invalid = i, !.gen = g, !.scanId = scan, !.obsId = obs, !.cursor = 0,
                           !.hadError = uncertain, !.scanning = TRUE]
    BY DEF i, g
  <2> DEFINE b1 == [base EXCEPT !.invalid = i, !.gen = g, !.scanId = scan]
             b2 == [b1 EXCEPT !.obsId = obs, !.cursor = 0, !.hadError = uncertain]
  <2>6. b2 \in State
    <3> HIDE DEF b1
    <3> QED
      BY <2>2, <2>3 DEF b1
  <2>7. new = [b2 EXCEPT !.scanning = TRUE]
    BY <2>5
  <2>8. new \in State
    <3> HIDE DEF b2, new
    <3> QED
      BY <2>4, <2>6, <2>7
  <2>9. new.obsId = obs /\ new.scanId = scan /\ new.invalid = i
    BY <1>2, <2>5 DEF State
  <2> QED
    BY <2>8, <2>9 DEF i
<1> HIDE DEF new
<1> QED
  BY <1>1, <1>2, <1>4, <1>5 DEF SameBinding, State

\* Nothing is there at first.
LEMMA InitInv == Init => IInv
<1> SUFFICES ASSUME Init PROVE IInv
  OBVIOUS
<1>1. WorldType /\ SinkType /\ ProcType
  <2>1. 1 \in Content /\ 0 \in 0 .. MaxChanges /\ 0 \in 0 .. MaxFaults
    BY Numbers DEF Content
  <2>2. WorldType
    BY <2>1 DEF Init, WorldType
  <2>3. SinkType
    BY DEF Init, SinkType
  <2>4. ProcType
    BY <2>1 DEF Init, ProcType
  <2> QED
    BY <2>2, <2>3, <2>4
<1>2. StateType /\ TickType /\ HalfDelivered
  BY FreshFacts DEF Init, StateType, TickType, HalfDelivered
<1>3. RowType /\ NothingPending
  BY FreshFacts, Numbers DEF Init, RowType, Store, NoId, NothingPending
<1>4. AllIdsKnown /\ NamelessInv /\ NamedInv
  BY FreshFacts
  DEF Init, AllIdsKnown, IdsKnown, Id, NamelessInv, Nameless, NamedInv, Unnamed, NoId, InTick
<1>5. DeliveredInv /\ ChangedHere
  BY FreshFacts, NoRowAssumption
  DEF Init, DeliveredInv, RowsDelivered, ChangedHere, NoId, NoPend, InTick
<1> QED
  BY <1>1, <1>2, <1>3, <1>4, <1>5 DEF IInv, TypeInv, SafeInv
-----------------------------------------------------------------------------
(* Steps inside a tick. *)

\* What a state bound to this vault shows was delivered for it.
LEMMA EntryDelivered ==
    ASSUME IInv, mem.obsId = vault, NEW p \in Path, file_entry(p) # NoRow
    PROVE  Delivered(vault, p, file_entry(p).hash)
<1>1. /\ RowsDelivered(pend)
      /\ store.id = vault => RowsDelivered(store.rows)
  BY DEF IInv, SafeInv, DeliveredInv
<1>2. vault # NoId
  BY DEF IInv, TypeInv, WorldType, NoId
<1>3. CASE pend[p] # Kept
  BY <1>1, <1>3 DEF file_entry, RowsDelivered
<1>4. CASE pend[p] = Kept
  <2>1. store.id = vault /\ file_entry(p) = store.rows[p]
    BY <1>2, <1>4 DEF file_entry, Visible
  <2>2. store.rows[p] # Kept
    BY NoRowAssumption DEF IInv, TypeInv, RowType, Store
  <2> QED
    BY <1>1, <2>1, <2>2 DEF RowsDelivered
<1> QED
  BY <1>3, <1>4

\* The new rows say what the old ones, or the state, said.
KeepsRows(new, old) ==
    \A p \in Path : \/ new[p] \in {Kept, NoRow}
                    \/ new[p] = old[p]
                    \/ file_entry(p) # NoRow /\ new[p].hash = file_entry(p).hash

\* Every note to deliver was one before, or was read just now.
KeepsChanged(new, old) ==
    \A i \in DOMAIN new : new[i].of = vault \/ \E j \in DOMAIN old : new[i] = old[j]

LEMMA KeptRowsDelivered ==
    ASSUME IInv, mem.obsId = vault, NEW new, NEW old, RowsDelivered(old), KeepsRows(new, old)
    PROVE  RowsDelivered(new)
<1> SUFFICES ASSUME NEW p \in Path, new[p] \notin {NoRow, Kept}
             PROVE  Delivered(vault, p, new[p].hash)
  BY DEF RowsDelivered
<1> QED
  BY EntryDelivered DEF RowsDelivered, KeepsRows

\* A step of the tick that binds the state to nothing else, delivers nothing
\* and invents no observation.
LEMMA TickStep ==
    ASSUME IInv, InTick,
           UNCHANGED <<world, sinks, durable>>,
           pc' \in {"list", "scan", "recheck", "emit", "sidecar"},
           stopped' \in BOOLEAN, faults' \in 0 .. MaxFaults,
           mem' \in State, SameBinding(mem', mem),
           tick' \in Tick, tick'.start = tick.start,
           pend' \in Pend,
           KeepsRows(pend', pend), KeepsRows(tick'.committed, tick.committed),
           KeepsChanged(tick'.changed, tick.changed)
    PROVE  IInv'
<1>1. TypeInv /\ SafeInv
  BY DEF IInv
<1>2. /\ vault' = vault /\ changes' = changes /\ disk' = disk /\ db' = db /\ jsonl' = jsonl
      /\ store' = store /\ ckptFile' = ckptFile /\ ckpt' = ckpt
  BY DEF world, sinks, durable
<1>3. TypeInv'
  BY <1>1, <1>2
  DEF TypeInv, WorldType, SinkType, ProcType, StateType, TickType, RowType, HalfDelivered
<1>4. mem'.scanId = mem.scanId /\ mem'.obsId = mem.obsId /\ mem'.invalid = mem.invalid
  BY DEF SameBinding
<1>5. AllIdsKnown'
  BY <1>1, <1>2, <1>4 DEF SafeInv, AllIdsKnown, IdsKnown, Id
<1>6. NamelessInv' /\ NamedInv' /\ NothingPending'
  BY <1>1, <1>2, <1>4
  DEF SafeInv, NamelessInv, Nameless, NamedInv, Unnamed, NothingPending, InTick
<1>7. DeliveredInv'
  <2>1. (store.id = vault => RowsDelivered(store.rows))'
    BY <1>1, <1>2 DEF SafeInv, DeliveredInv, RowsDelivered, Delivered
  <2>2. ASSUME mem.obsId = vault
        PROVE  RowsDelivered(pend') /\ RowsDelivered(tick'.committed)
    BY <1>1, <2>2, KeptRowsDelivered DEF SafeInv, DeliveredInv
  <2>3. (mem.obsId = vault => RowsDelivered(pend) /\ RowsDelivered(tick.committed))'
    BY <1>2, <1>4, <2>2 DEF RowsDelivered, Delivered
  <2> QED
    BY <2>1, <2>3 DEF DeliveredInv
<1>8. ChangedHere'
  BY <1>1, <1>2, <1>4 DEF SafeInv, ChangedHere, KeepsChanged
<1> QED
  BY <1>3, <1>5, <1>6, <1>7, <1>8 DEF IInv, SafeInv

\* Notes to deliver are added behind and taken from the front.
LEMMA ChangedFacts ==
    ASSUME NEW s \in Seq(Note), NEW n \in Note
    PROVE  /\ Append(s, n) \in Seq(Note)
           /\ n.of = vault => KeepsChanged(Append(s, n), s)
           /\ s # <<>> => /\ Head(s) \in Note /\ Head(s) = s[1]
                          /\ 1 \in DOMAIN s
                          /\ Tail(s) \in Seq(Note) /\ KeepsChanged(Tail(s), s)
<1>1. Append(s, n) \in Seq(Note)
  OBVIOUS
<1>2. ASSUME n.of = vault
      PROVE  KeepsChanged(Append(s, n), s)
  BY <1>2 DEF KeepsChanged
<1>3. ASSUME s # <<>>
      PROVE  /\ Head(s) \in Note /\ Head(s) = s[1] /\ 1 \in DOMAIN s
             /\ Tail(s) \in Seq(Note)
  BY <1>3
<1>4. ASSUME s # <<>>
      PROVE  KeepsChanged(Tail(s), s)
  <2> SUFFICES ASSUME NEW i \in DOMAIN Tail(s)
               PROVE  i + 1 \in DOMAIN s /\ Tail(s)[i] = s[i + 1]
    BY DEF KeepsChanged
  <2> QED
    BY <1>4
<1> QED
  BY <1>1, <1>2, <1>3, <1>4

\* Nothing added, nothing taken.
LEMMA KeepsAll ==
    ASSUME NEW rows, NEW s
    PROVE  KeepsRows(rows, rows) /\ KeepsChanged(s, s)
  BY DEF KeepsRows, KeepsChanged

\* A fault is counted.
LEMMA FaultFacts ==
    ASSUME TypeInv, Fault \/ UNCHANGED faults
    PROVE  faults' \in 0 .. MaxFaults
  BY Numbers DEF TypeInv, ProcType, Fault

\* The locals of a tick after an update of its flags and lists.
OnlyFlags(u, t) ==
    u \in Tick /\ u.start = t.start /\ u.committed = t.committed /\ u.changed = t.changed

LEMMA FlagFacts ==
    ASSUME NEW t \in Tick, NEW b \in BOOLEAN
    PROVE  /\ OnlyFlags([t EXCEPT !.errs = b], t)
           /\ OnlyFlags([t EXCEPT !.progress = b], t)
           /\ OnlyFlags([t EXCEPT !.progress = b, !.errs = b], t)
  BY DEF Tick, OnlyFlags

LEMMA ListingFacts ==
    ASSUME NEW t \in Tick, NEW l \in SUBSET Path, NEW b \in BOOLEAN, NEW c \in BOOLEAN
    PROVE  /\ OnlyFlags([t EXCEPT !.listing = l], t)
           /\ OnlyFlags([t EXCEPT !.errs = b, !.completed = c, !.listing = l], t)
  BY DEF Tick, OnlyFlags

LEMMA NewNoteFacts ==
    ASSUME NEW t \in Tick, NEW s \in Seq(Note)
    PROVE  LET u == [t EXCEPT !.progress = TRUE, !.changed = s]
           IN  u \in Tick /\ u.start = t.start /\ u.committed = t.committed /\ u.changed = s
  BY DEF Tick
-----------------------------------------------------------------------------
(* The scan. *)

\* What every action of a tick starts from.
LEMMA TickContext ==
    ASSUME IInv
    PROVE  /\ TypeInv /\ mem \in State /\ tick \in Tick /\ pend \in Pend
           /\ stopped \in BOOLEAN /\ faults \in 0 .. MaxFaults
           /\ tick.changed \in Seq(Note) /\ tick.listing \in SUBSET Path
           /\ disk \in [Path -> Content \cup {Absent}] /\ vault \in Vault
  BY Numbers DEF IInv, TypeInv, StateType, TickType, RowType, ProcType, WorldType, Tick, Vault

\* An update of one uncommitted row to what the state says of the note.
LEMMA SeenFacts ==
    ASSUME IInv, NEW p \in Path
    PROVE  LET new == [pend EXCEPT ![p] = Seen(p)]
           IN  new \in Pend /\ KeepsRows(new, pend)
<1>1. pend \in Pend /\ Seen(p) \in Row \cup {NoRow, Kept}
      /\ (Seen(p) \in Row => Seen(p).hash = file_entry(p).hash /\ file_entry(p) \in Row)
  BY TickContext, EntryFacts
<1>2. [pend EXCEPT ![p] = Seen(p)] \in Pend
  BY <1>1 DEF Pend
<1>3. KeepsRows([pend EXCEPT ![p] = Seen(p)], pend)
  BY <1>1, NoRowAssumption DEF KeepsRows, Pend
<1> QED
  BY <1>2, <1>3

LEMMA ListInv ==
    ASSUME IInv, List
    PROVE  IInv'
<1>1. {p \in Path : disk[p] # Absent} \in SUBSET Path
  OBVIOUS
<1>2. OnlyFlags(tick', tick)
  BY <1>1, TickContext, ListingFacts DEF List
<1>3. UNCHANGED <<world, sinks, durable>> /\ mem' = mem /\ pend' = pend
      /\ stopped' = stopped /\ faults' = faults /\ pc' = "scan" /\ InTick
  BY DEF List, InTick
<1> QED
  BY <1>2, <1>3, TickContext, TickStep, KeepsAll DEF SameBinding, OnlyFlags

LEMMA RootFailsInv ==
    ASSUME IInv, RootFails \/ VaultFails
    PROVE  IInv'
<1>1. 0 \in 0 .. Paths
  BY Numbers
<1>2. OnlyFlags(tick', tick)
  <2>1. tick' = [tick EXCEPT !.errs = TRUE]
    BY DEF RootFails, VaultFails
  <2> QED
    BY <2>1, TickContext, FlagFacts
<1>3. UNCHANGED <<world, sinks, durable>> /\ pend' = pend /\ stopped' = stopped
      /\ pc' \in {"list", "scan", "recheck"} /\ InTick /\ faults' \in 0 .. MaxFaults
  BY TickContext, FaultFacts DEF RootFails, VaultFails, InTick
<1>4. mem' \in State /\ SameBinding(mem', mem)
  <2>1. record_scan_error(mem) \in State /\ SameBinding(record_scan_error(mem), mem)
    BY TickContext, ErrorFacts
  <2> DEFINE s == record_scan_error(mem)
  <2>2. mem' = [s EXCEPT !.cursor = 0] \/ mem' = [s EXCEPT !.scanning = FALSE, !.cursor = 0]
    BY DEF RootFails, VaultFails
  <2> HIDE DEF s
  <2>3. mem' \in State /\ SameBinding(mem', s)
    BY <1>1, <2>1, <2>2, CursorFacts DEF s
  <2> QED
    BY <2>1, <2>3 DEF SameBinding, s
<1> QED
  BY <1>2, <1>3, <1>4, TickContext, TickStep, KeepsAll DEF OnlyFlags

\* The state and the row of a note that the scan leaves behind it.
LEMMA AdvanceFacts ==
    ASSUME IInv, NEW p \in Path, Advance(p)
    PROVE  /\ UNCHANGED <<world, sinks, durable>> /\ stopped' = stopped
           /\ pc' \in {"list", "scan", "recheck"} /\ InTick
           /\ p \in 0 .. Paths
  BY Numbers DEF Advance, InTick, Path

LEMMA ScanUnchangedInv ==
    ASSUME IInv, NEW p \in Path, ScanUnchanged(p)
    PROVE  IInv'
<1> DEFINE s == IF mem.priority = p THEN clear_throttle_priority(mem) ELSE mem
<1>1. Advance(p) /\ faults' = faults /\ pend' = [pend EXCEPT ![p] = Seen(p)]
      /\ mem' = [s EXCEPT !.cursor = p] /\ tick' = [tick EXCEPT !.progress = TRUE]
  BY DEF ScanUnchanged
<1>3. OnlyFlags(tick', tick)
  BY <1>1, TickContext, FlagFacts
<1>4. s \in State /\ SameBinding(s, mem)
  BY TickContext, ClearFacts DEF SameBinding
<1>5. mem' \in State /\ SameBinding(mem', mem)
  <2> HIDE DEF s
  <2> QED
    BY <1>1, <1>4, AdvanceFacts, CursorFacts DEF SameBinding
<1> QED
  BY <1>1, <1>3, <1>5, AdvanceFacts, TickContext, SeenFacts, TickStep, KeepsAll DEF OnlyFlags

LEMMA ScanChangedInv ==
    ASSUME IInv, NEW p \in Path, ScanChanged(p)
    PROVE  IInv'
<1> DEFINE n == [path |-> p, hash |-> disk[p], of |-> vault]
<1>1. Advance(p) /\ faults' = faults /\ pend' = pend
      /\ mem' = [Met(mem, p) EXCEPT !.cursor = p]
      /\ tick' = [tick EXCEPT !.progress = TRUE, !.changed = Append(tick.changed, n)]
      /\ disk[p] # Absent
  BY DEF ScanChanged
<1>2. n \in Note /\ n.of = vault
  BY <1>1, TickContext DEF Note
<1> HIDE DEF n
<1>3. Append(tick.changed, n) \in Seq(Note) /\ KeepsChanged(Append(tick.changed, n), tick.changed)
  BY <1>2, TickContext, ChangedFacts
<1>5. /\ tick' \in Tick /\ tick'.start = tick.start /\ tick'.committed = tick.committed
      /\ tick'.changed = Append(tick.changed, n)
  BY <1>1, <1>3, TickContext, NewNoteFacts
<1>6. mem' \in State /\ SameBinding(mem', mem)
  <2>1. Met(mem, p) \in State /\ SameBinding(Met(mem, p), mem)
    BY TickContext, MetFacts
  <2> QED
    BY <1>1, <2>1, AdvanceFacts, CursorFacts DEF SameBinding
<1> QED
  BY <1>1, <1>3, <1>5, <1>6, AdvanceFacts, TickContext, TickStep, KeepsAll

LEMMA ScanFailsInv ==
    ASSUME IInv, NEW p \in Path, ScanStatFails(p) \/ ScanHashFails(p)
    PROVE  IInv'
<1> DEFINE s == IF mem.priority = p THEN clear_throttle_priority(mem) ELSE mem
<1>1. Advance(p) /\ (pend' = pend \/ pend' = [pend EXCEPT ![p] = Seen(p)])
      /\ (\/ mem' = [record_scan_error(mem) EXCEPT !.cursor = p]
          \/ mem' = [record_scan_error(s) EXCEPT !.cursor = p])
      /\ tick' = [tick EXCEPT !.progress = TRUE, !.errs = TRUE]
  BY DEF ScanStatFails, ScanHashFails
<1>3. OnlyFlags(tick', tick)
  BY <1>1, TickContext, FlagFacts
<1>4. s \in State /\ SameBinding(s, mem)
  BY TickContext, ClearFacts DEF SameBinding
<1>5. mem' \in State /\ SameBinding(mem', mem)
  <2> HIDE DEF s
  <2>1. ASSUME NEW t \in State, SameBinding(t, mem)
        PROVE  LET u == [record_scan_error(t) EXCEPT !.cursor = p]
               IN  u \in State /\ SameBinding(u, mem)
    <3>1. record_scan_error(t) \in State /\ SameBinding(record_scan_error(t), mem)
      BY <2>1, ErrorFacts DEF SameBinding
    <3> QED
      BY <1>1, <3>1, AdvanceFacts, CursorFacts DEF SameBinding
  <2>2. mem \in State /\ SameBinding(mem, mem)
    BY TickContext DEF SameBinding
  <2> QED
    BY <1>1, <1>4, <2>1, <2>2
<1>6. faults' \in 0 .. MaxFaults
  BY TickContext, FaultFacts DEF ScanStatFails, ScanHashFails
<1>7. pend' \in Pend /\ KeepsRows(pend', pend)
  BY <1>1, SeenFacts, TickContext, KeepsAll
<1> QED
  BY <1>1, <1>3, <1>5, <1>6, <1>7, AdvanceFacts, TickContext, TickStep, KeepsAll DEF OnlyFlags

LEMMA ScanEndsInv ==
    ASSUME IInv, Pause \/ Exhausted
    PROVE  IInv'
<1>1. UNCHANGED <<world, sinks, durable>> /\ pend' = pend /\ tick' = tick /\ faults' = faults
      /\ stopped' = stopped /\ pc' = "recheck" /\ InTick
  BY DEF Pause, Exhausted, InTick
<1>2. mem' \in State /\ SameBinding(mem', mem)
  <2>1. mem' = mem \/ mem' = [mem EXCEPT !.scanning = FALSE, !.cursor = 0]
    BY DEF Pause, Exhausted
  <2>2. 0 \in 0 .. Paths
    BY Numbers
  <2>3. CASE mem' = mem
    BY <2>3, TickContext DEF SameBinding
  <2>4. CASE mem' = [mem EXCEPT !.scanning = FALSE, !.cursor = 0]
    BY <2>2, <2>4, TickContext, CursorFacts
  <2> QED
    BY <2>1, <2>3, <2>4
<1> QED
  BY <1>1, <1>2, TickContext, TickStep, KeepsAll

LEMMA RecheckInv ==
    ASSUME IInv, NEW uncertain \in BOOLEAN, Recheck(uncertain)
    PROVE  IInv'
<1> DEFINE hidden == mem.hadError /\ ~mem.scanning /\ mem.prioGen # mem.gen
           kept == IF hidden THEN clear_throttle_priority(mem) ELSE mem
           moved == uncertain \/ mem.scanId # vault
           errs == tick.errs \/ moved
           completed == ~mem.scanning
<1>1. UNCHANGED <<world, sinks, durable>> /\ pend' = pend /\ stopped' = stopped /\ pc' = "emit"
      /\ InTick /\ faults' \in 0 .. MaxFaults
  BY TickContext, FaultFacts DEF Recheck, InTick
<1>2. /\ mem' = (IF moved THEN record_scan_error(kept) ELSE kept)
      /\ tick' = [tick EXCEPT !.errs = errs, !.completed = completed, !.listing = {}]
  BY DEF Recheck
<1>3. kept \in State /\ SameBinding(kept, mem)
  BY TickContext, ClearFacts DEF SameBinding
<1>4. errs \in BOOLEAN /\ completed \in BOOLEAN /\ {} \in SUBSET Path
  BY TickContext DEF Tick
<1> HIDE DEF hidden, kept, moved, errs, completed
<1>5. mem' \in State /\ SameBinding(mem', mem)
  BY <1>2, <1>3, ErrorFacts DEF SameBinding
<1>6. OnlyFlags(tick', tick)
  BY <1>2, <1>4, TickContext, ListingFacts
<1> QED
  BY <1>1, <1>5, <1>6, TickContext, TickStep, KeepsAll DEF OnlyFlags
-----------------------------------------------------------------------------
(* The delivery. *)

\* The note at the head of the list.
LEMMA ChangedHead ==
    ASSUME IInv, tick.changed # <<>>
    PROVE  /\ Changed \in Note /\ Changed.path \in Path /\ Changed.hash \in Content
           /\ Changed.of \in Vault
           /\ Tail(tick.changed) \in Seq(Note) /\ KeepsChanged(Tail(tick.changed), tick.changed)
           /\ (InTick /\ mem.obsId = vault) => Changed.of = vault
<1>1. /\ Changed \in Note /\ Changed = tick.changed[1] /\ 1 \in DOMAIN tick.changed
      /\ Tail(tick.changed) \in Seq(Note) /\ KeepsChanged(Tail(tick.changed), tick.changed)
  BY TickContext, ChangedFacts DEF Changed
<1>2. Changed.path \in Path /\ Changed.hash \in Content /\ Changed.of \in Vault
  BY <1>1 DEF Note
<1>3. (InTick /\ mem.obsId = vault) => Changed.of = vault
  BY <1>1 DEF IInv, SafeInv, ChangedHere
<1> QED
  BY <1>1, <1>2, <1>3

\* The locals after a note was dealt with.
LEMMA CommittedFacts ==
    ASSUME IInv, tick.changed # <<>>, NEW row \in Row \cup {NoRow}, Committed(row)
    PROVE  /\ tick' \in Tick /\ tick'.start = tick.start
           /\ tick'.changed = Tail(tick.changed)
           /\ tick'.committed = [tick.committed EXCEPT ![Changed.path] = row]
<1> DEFINE c == [tick.committed EXCEPT ![Changed.path] = row]
           rest == Tail(tick.changed)
<1>1. rest \in Seq(Note) /\ Changed.path \in Path /\ tick \in Tick
  BY TickContext, ChangedHead
<1>2. c \in Pend
  BY <1>1 DEF Tick, Pend
<1>3. tick' = [tick EXCEPT !.changed = rest, !.committed = c]
  BY <1>1 DEF Committed, Tick
<1> HIDE DEF c, rest
<1>4. /\ tick' \in Tick /\ tick'.start = tick.start /\ tick'.changed = rest
      /\ tick'.committed = c
  BY <1>1, <1>2, <1>3 DEF Tick
<1> QED
  BY <1>4 DEF c, rest

LEMMA SkipInv ==
    ASSUME IInv, Skip
    PROVE  IInv'
<1> DEFINE p == Changed.path
           limited == ~Yields /\ ~Debounced
           row == IF Seen(p) = Kept THEN NoRow ELSE Seen(p)
<1>1. /\ InTick /\ tick.changed # <<>> /\ pend' = [pend EXCEPT ![p] = Seen(p)]
      /\ mem' = (IF limited THEN [mem EXCEPT !.priority = p, !.prioGen = mem.gen] ELSE mem)
      /\ Committed(row)
      /\ UNCHANGED <<world, sinks, stopped, pc, durable, faults>> /\ pc = "emit"
  BY DEF Skip, InTick
<1>2. p \in Path /\ p \in 0 .. Paths
  BY <1>1, ChangedHead, Numbers DEF Path
<1>3. /\ Seen(p) \in Row \cup {NoRow, Kept}
      /\ Seen(p) \in Row => Seen(p).hash = file_entry(p).hash /\ file_entry(p) \in Row
  BY <1>2, TickContext, EntryFacts
<1>4. /\ row \in Row \cup {NoRow}
      /\ row = NoRow \/ (file_entry(p) # NoRow /\ row.hash = file_entry(p).hash)
  BY <1>3, NoRowAssumption
<1> HIDE DEF p, row, limited
<1>5. mem' \in State /\ SameBinding(mem', mem)
  <2>1. mem \in State /\ mem.gen \in 0 .. 2
    BY TickContext DEF State
  <2>2. LET t == [mem EXCEPT !.priority = p, !.prioGen = mem.gen]
        IN  t \in State /\ SameBinding(t, mem)
    BY <1>2, <2>1 DEF State, SameBinding
  <2> QED
    BY <1>1, <2>1, <2>2 DEF SameBinding
<1>6. /\ tick' \in Tick /\ tick'.start = tick.start /\ tick'.changed = Tail(tick.changed)
      /\ tick'.committed = [tick.committed EXCEPT ![p] = row]
  BY <1>1, <1>4, CommittedFacts DEF p
<1>7. pend' \in Pend /\ KeepsRows(pend', pend)
  BY <1>1, <1>2, SeenFacts
<1>8. KeepsRows(tick'.committed, tick.committed)
  <2>1. tick.committed \in [Path -> Row \cup {NoRow, Kept}]
    BY TickContext DEF Tick, Pend
  <2> QED
    BY <1>2, <1>4, <1>6, <2>1 DEF KeepsRows
<1>9. KeepsChanged(tick'.changed, tick.changed)
  BY <1>1, <1>6, ChangedHead
<1> QED
  BY <1>1, <1>5, <1>6, <1>7, <1>8, <1>9, TickContext, TickStep DEF world, sinks, durable

\* The database has the event, and the tick goes on to the file.
LEMMA DbWriteInv ==
    ASSUME IInv, DbWrite
    PROVE  IInv'
<1>1. /\ pc = "emit" /\ pc' = "append" /\ Delivers /\ tick.changed # <<>> /\ ~RateLimited
      /\ db' = db \cup {Event} /\ jsonl' = jsonl /\ mem' = mem /\ pend' = pend /\ tick' = tick
      /\ stopped' = stopped /\ faults' = faults
      /\ vault' = vault /\ disk' = disk /\ changes' = changes
      /\ store' = store /\ ckptFile' = ckptFile /\ ckpt' = ckpt
  BY DEF DbWrite, Delivers, world, durable
<1>2. Event \in Vault \X Path \X Content /\ Event' = Event
  BY <1>1, ChangedHead DEF Event, Changed
<1>3. mem.window < RateLimit
  BY <1>1, TickContext, Numbers DEF RateLimited, State
<1>4. TypeInv'
  <2>1. WorldType' /\ StateType' /\ TickType' /\ RowType'
    BY <1>1 DEF IInv, TypeInv, WorldType, StateType, TickType, RowType
  <2>2. SinkType' /\ ProcType' /\ HalfDelivered'
    BY <1>1, <1>2, <1>3 DEF IInv, TypeInv, SinkType, ProcType, HalfDelivered
  <2> QED
    BY <2>1, <2>2 DEF TypeInv
<1>5. AllIdsKnown' /\ NamelessInv' /\ NamedInv' /\ NothingPending'
  BY <1>1
  DEF IInv, SafeInv, AllIdsKnown, IdsKnown, Id, NamelessInv, Nameless, NamedInv, Unnamed,
      NothingPending, InTick
<1>6. DeliveredInv' /\ ChangedHere'
  BY <1>1 DEF IInv, SafeInv, DeliveredInv, ChangedHere, RowsDelivered, Delivered, InTick
<1> QED
  BY <1>4, <1>5, <1>6 DEF IInv, SafeInv

\* Both sinks have the event, and the observation is accepted.
LEMMA AcceptInv ==
    ASSUME IInv, Accept
    PROVE  IInv'
<1> DEFINE p == Changed.path
           row == [hash |-> Changed.hash, gen |-> mem.gen, fresh |-> TRUE]
           s == IF mem.priority = p THEN clear_throttle_priority(mem) ELSE mem
<1>1. /\ pc = "append" /\ pc' = "emit" /\ InTick /\ InTick'
      /\ jsonl' = jsonl \cup {Event} /\ db' = db
      /\ pend' = [pend EXCEPT ![p] = row] /\ mem' = [s EXCEPT !.window = s.window + 1]
      /\ Committed(row) /\ stopped' = stopped /\ faults' = faults
      /\ vault' = vault /\ disk' = disk /\ changes' = changes
      /\ store' = store /\ ckptFile' = ckptFile /\ ckpt' = ckpt
  BY DEF Accept, world, durable, InTick
<1>2. tick.changed # <<>> /\ Event \in db /\ mem.window < RateLimit
  BY <1>1 DEF IInv, TypeInv, HalfDelivered
<1>3. p \in Path /\ Changed.hash \in Content /\ mem \in State /\ mem.gen \in 0 .. 2
  BY <1>2, ChangedHead, TickContext DEF State
<1>4. row \in Row /\ row \in Row \cup {NoRow} /\ row.hash = Changed.hash
  BY <1>3 DEF Row
<1>5. s \in State /\ SameBinding(s, mem) /\ s.window = mem.window
  BY <1>3, ClearFacts DEF SameBinding
<1>6. mem' \in State /\ SameBinding(mem', mem)
  <2> HIDE DEF s
  <2>1. s.window + 1 \in 0 .. RateLimit
    BY <1>2, <1>3, <1>5, Numbers DEF State
  <2>2. mem' \in State /\ SameBinding(mem', s)
    BY <1>1, <1>5, <2>1 DEF State, SameBinding
  <2> QED
    BY <1>5, <2>2 DEF SameBinding
<1> HIDE DEF s, row, p
<1>7. /\ tick' \in Tick /\ tick'.start = tick.start /\ tick'.changed = Tail(tick.changed)
      /\ tick'.committed = [tick.committed EXCEPT ![p] = row]
  BY <1>1, <1>2, <1>4, CommittedFacts DEF p
<1>8. pend' \in Pend
  BY <1>1, <1>3, <1>4, TickContext DEF Pend
<1>9. TypeInv'
  <2>1. WorldType' /\ StateType' /\ TickType' /\ RowType'
    BY <1>1, <1>6, <1>7, <1>8 DEF IInv, TypeInv, WorldType, StateType, TickType, RowType
  <2>2. SinkType' /\ ProcType' /\ HalfDelivered'
    BY <1>1, <1>2 DEF IInv, TypeInv, SinkType, ProcType, HalfDelivered
  <2> QED
    BY <2>1, <2>2 DEF TypeInv
<1>10. mem'.scanId = mem.scanId /\ mem'.obsId = mem.obsId /\ mem'.invalid = mem.invalid
  BY <1>6 DEF SameBinding
<1>11. AllIdsKnown' /\ NamelessInv' /\ NamedInv' /\ NothingPending'
  BY <1>1, <1>7, <1>10
  DEF IInv, SafeInv, AllIdsKnown, IdsKnown, Id, NamelessInv, Nameless, NamedInv, Unnamed,
      NothingPending
<1>12. DeliveredInv'
  <2>1. (store.id = vault => RowsDelivered(store.rows))'
    BY <1>1 DEF IInv, SafeInv, DeliveredInv, RowsDelivered, Delivered
  <2>2. ASSUME mem.obsId = vault
        PROVE  <<vault', p, row.hash>> \in db' /\ <<vault', p, row.hash>> \in jsonl'
    <3>1. Event = <<vault, p, row.hash>>
      BY <1>1, <1>2, <1>4, <2>2, ChangedHead DEF Event, p
    <3>2. Event \in db' /\ Event \in jsonl'
      BY <1>1, <1>2
    <3> QED
      BY <1>1, <3>1, <3>2
  <2>3. ASSUME mem.obsId = vault
        PROVE  RowsDelivered(pend)' /\ RowsDelivered(tick.committed)'
    <3>1. pend \in [Path -> Row \cup {NoRow, Kept}]
          /\ tick.committed \in [Path -> Row \cup {NoRow, Kept}]
      BY TickContext DEF Tick, Pend
    <3>2. RowsDelivered(pend) /\ RowsDelivered(tick.committed)
      BY <1>1, <2>3 DEF IInv, SafeInv, DeliveredInv
    <3> QED
      BY <1>1, <1>7, <2>2, <2>3, <3>1, <3>2 DEF RowsDelivered, Delivered
  <2> QED
    BY <1>1, <1>10, <2>1, <2>3 DEF DeliveredInv
<1>13. ChangedHere'
  BY <1>1, <1>2, <1>7, <1>10, ChangedHead DEF IInv, SafeInv, ChangedHere, KeepsChanged
<1> QED
  BY <1>9, <1>11, <1>12, <1>13 DEF IInv, SafeInv

\* A sink raises: the tick is taken back, except for the notes it dealt with.
LEMMA DeliveryFailsInv ==
    ASSUME IInv, DeliveryFails
    PROVE  IInv'
<1> DEFINE s == tick.start
           bound == \E p \in Path : tick.committed[p] # Kept
           scan == IF bound THEN mem.obsId ELSE s.scanId
           obs == IF bound THEN mem.obsId ELSE s.obsId
           back == [mem EXCEPT !.scanning = s.scanning, !.gen = s.gen, !.cursor = s.cursor,
                               !.hadError = s.hadError]
<1>1. /\ pc \in {"append", "emit"} /\ pc' = "emit" /\ InTick /\ InTick' /\ delivery_failed
      /\ faults' \in 0 .. MaxFaults /\ stopped' = stopped
      /\ vault' = vault /\ disk' = disk /\ changes' = changes /\ db' = db /\ jsonl' = jsonl
      /\ store' = store /\ ckptFile' = ckptFile /\ ckpt' = ckpt
  BY TickContext, FaultFacts DEF DeliveryFails, world, sinks, durable, InTick
<1>2. mem \in State /\ s \in State /\ s.gen = 1 /\ tick \in Tick /\ tick.committed \in Pend
  BY TickContext DEF Tick, IInv, TypeInv, TickType
<1>3. /\ mem' = [back EXCEPT !.invalid = s.invalid, !.scanId = scan, !.obsId = obs,
                             !.backoff = TRUE]
      /\ tick' = [tick EXCEPT !.changed = <<>>, !.errs = TRUE, !.failed = TRUE]
      /\ pend' = [p \in Path |-> IF tick.committed[p] \in {Kept, NoRow} THEN tick.committed[p]
                                 ELSE [tick.committed[p] EXCEPT !.gen = s.gen]]
  BY <1>1 DEF delivery_failed
<1>4. mem' \in State /\ mem'.invalid = s.invalid /\ mem'.scanId = scan /\ mem'.obsId = obs
  <2>1. back \in State
    BY <1>2 DEF State
  <2>2. scan \in 0 .. BadId /\ obs \in 0 .. BadId /\ s.invalid \in BOOLEAN
    BY <1>2 DEF State
  <2> HIDE DEF back, scan, obs
  <2> QED
    BY <1>3, <2>1, <2>2 DEF State
<1>5. /\ tick' \in Tick /\ tick'.start = s /\ tick'.committed = tick.committed
      /\ tick'.changed = <<>>
  <2>1. <<>> \in Seq(Note)
    OBVIOUS
  <2> QED
    BY <1>2, <1>3, <2>1 DEF Tick
<1>6. \A p \in Path : \/ tick.committed[p] \in {Kept, NoRow} /\ pend'[p] = tick.committed[p]
                      \/ /\ tick.committed[p] \in Row /\ pend'[p] \in Row
                         /\ pend'[p].hash = tick.committed[p].hash
  <2>1. ASSUME NEW r \in Row
        PROVE  [r EXCEPT !.gen = s.gen] \in Row /\ [r EXCEPT !.gen = s.gen].hash = r.hash
    BY <1>2 DEF Row
  <2> QED
    BY <1>2, <1>3, <2>1 DEF Pend
<1>7. pend' \in Pend
  <2>1. DOMAIN pend' = Path /\ \A p \in Path : pend'[p] \in Row \cup {NoRow, Kept}
    BY <1>3, <1>6
  <2>2. pend' = [p \in Path |-> pend'[p]]
    BY <1>3
  <2> QED
    BY <2>1, <2>2 DEF Pend
<1>8. TypeInv'
  <2>1. WorldType' /\ SinkType' /\ ProcType'
    BY <1>1 DEF IInv, TypeInv, WorldType, SinkType, ProcType
  <2>2. StateType' /\ TickType' /\ RowType' /\ HalfDelivered'
    BY <1>1, <1>2, <1>4, <1>5, <1>7
    DEF IInv, TypeInv, StateType, TickType, RowType, HalfDelivered
  <2> QED
    BY <2>1, <2>2 DEF TypeInv
<1>9. AllIdsKnown'
  <2>1. AllIdsKnown
    BY DEF IInv, SafeInv
  <2>2. IdsKnown(mem)'
    BY <1>1, <1>4, <2>1 DEF AllIdsKnown, IdsKnown, Id, NoId
  <2> QED
    BY <1>1, <1>5, <2>1, <2>2 DEF AllIdsKnown, IdsKnown, Id
<1>10. NamelessInv'
  <2>1. Nameless(s) /\ (mem.obsId = NoId => s.obsId = NoId)
    BY <1>1 DEF IInv, SafeInv, NamelessInv
  <2>2. obs = NoId => s.obsId = NoId
    BY <2>1
  <2> HIDE DEF s, obs
  <2> QED
    BY <1>1, <1>4, <1>5, <2>1, <2>2 DEF NamelessInv, Nameless
<1>11. NamedInv' /\ NothingPending' /\ ChangedHere'
  BY <1>1, <1>5 DEF IInv, SafeInv, NamedInv, Unnamed, NothingPending, ChangedHere
<1>12. DeliveredInv'
  <2>1. (store.id = vault => RowsDelivered(store.rows))'
    BY <1>1 DEF IInv, SafeInv, DeliveredInv, RowsDelivered, Delivered
  <2>2. CASE bound
    <3>1. mem'.obsId = mem.obsId
      BY <1>4, <2>2
    <3>2. mem.obsId = vault => RowsDelivered(tick.committed)
      BY <1>1 DEF IInv, SafeInv, DeliveredInv
    <3>3. ASSUME mem.obsId = vault
          PROVE  RowsDelivered(tick.committed)' /\ RowsDelivered(pend)'
      BY <1>1, <1>5, <1>6, <3>2, <3>3, NoRowAssumption DEF RowsDelivered, Delivered
    <3> QED
      BY <1>1, <2>1, <3>1, <3>3 DEF DeliveredInv
  <2>3. CASE ~bound
    <3>1. \A p \in Path : tick'.committed[p] = Kept /\ pend'[p] = Kept
      BY <1>5, <1>6, <2>3, NoRowAssumption
    <3> QED
      BY <2>1, <3>1 DEF DeliveredInv, RowsDelivered
  <2> QED
    BY <2>2, <2>3
<1> QED
  BY <1>8, <1>9, <1>10, <1>11, <1>12 DEF IInv, SafeInv
-----------------------------------------------------------------------------
(* The end of a tick, the save and the restart. *)

LEMMA MinFacts ==
    ASSUME NEW a \in Nat, NEW b \in Nat
    PROVE  Min({a, b}) \in 0 .. b
<1> DEFINE S == {a, b}
           m == IF a <= b THEN a ELSE b
<1>1. m \in S /\ \A y \in S : m =< y
  OBVIOUS
<1>2. Min(S) \in S /\ \A y \in S : Min(S) =< y
  <2> HIDE DEF m, S
  <2> QED
    BY <1>1 DEF Min
<1>3. Min(S) =< b /\ Min(S) \in Nat
  BY <1>2
<1> QED
  BY <1>3

LEMMA FinishInv ==
    ASSUME IInv, NEW uncertain \in BOOLEAN, Finish(uncertain)
    PROVE  IInv'
<1> DEFINE bad == IF tick.errs \/ (mem.scanning /\ ~tick.progress)
                  THEN Min({mem.bad + 1, MaxBadTicks}) ELSE 0
           recovered == tick.completed /\ Clean /\ ~tick.failed
           moved == uncertain \/ mem.scanId # vault
           error == mem.loadError /\ ~recovered
           s == [mem EXCEPT !.bad = bad, !.loadError = error]
           t == IF Reconciles /\ ~moved
                THEN IF s.prioGen # s.gen THEN clear_throttle_priority(s) ELSE s
                ELSE IF Reconciles THEN record_scan_error(s) ELSE s
           rows == [p \in Path |-> IF p \in paths_unseen_in_generation THEN NoRow ELSE pend[p]]
<1>1. /\ InTick /\ pc' = "sidecar" /\ faults' \in 0 .. MaxFaults
      /\ UNCHANGED <<world, sinks, durable>> /\ tick' = tick
      /\ stopped' = (stopped \/ bad = MaxBadTicks)
  BY TickContext, FaultFacts DEF Finish, InTick, world, sinks, durable
<1>2. mem' = t /\ (pend' = rows \/ pend' = pend)
  BY DEF Finish
<1>3. bad \in 0 .. MaxBadTicks /\ error \in BOOLEAN
  <2>1. mem.bad + 1 \in Nat /\ mem.loadError \in BOOLEAN
    BY TickContext DEF State
  <2>2. Min({mem.bad + 1, MaxBadTicks}) \in 0 .. MaxBadTicks /\ 0 \in 0 .. MaxBadTicks
    BY <2>1, MinFacts, Numbers
  <2> QED
    BY <2>1, <2>2
<1>4. s \in State /\ SameBinding(s, mem)
  <2> HIDE DEF bad, error
  <2> QED
    BY <1>3, TickContext DEF State, SameBinding
<1> HIDE DEF s, bad, error, moved, recovered
<1>5. t \in State /\ SameBinding(t, mem)
  BY <1>4, ClearFacts, ErrorFacts DEF SameBinding
<1>6. pend' \in Pend /\ KeepsRows(pend', pend)
  BY <1>2, TickContext, KeepsAll DEF Pend, KeepsRows
<1> HIDE DEF t, rows
<1>7. stopped' \in BOOLEAN
  BY <1>1, TickContext
<1> QED
  BY <1>1, <1>2, <1>5, <1>6, <1>7, TickContext, TickStep, KeepsAll

\* A tick begins with nothing uncommitted, and binds the state to the vault
\* unless its identity cannot be measured.
LEMMA TickBeginsInv ==
    ASSUME IInv, NEW uncertain \in BOOLEAN, TickBegins(uncertain),
           pc' \in {"list", "recheck"},
           \/ mem' = begin_or_resume_scan(uncertain)
           \/ uncertain /\ mem' = [begin_or_resume_scan(uncertain) EXCEPT !.scanning = FALSE]
    PROVE  IInv'
<1> DEFINE t == begin_or_resume_scan(uncertain)
<1>1. /\ pc = "idle" /\ faults' \in 0 .. MaxFaults /\ pend' = pend /\ stopped' = stopped
      /\ tick' = [NoTick EXCEPT !.start = mem, !.errs = uncertain]
      /\ vault' = vault /\ disk' = disk /\ changes' = changes /\ db' = db /\ jsonl' = jsonl
      /\ store' = store /\ ckptFile' = ckptFile /\ ckpt' = ckpt
  BY TickContext, FaultFacts DEF TickBegins, world, sinks, durable
<1>2. mem \in State /\ mem.gen = 1 /\ TypeInv /\ SafeInv /\ pend = NoPend
  BY <1>1 DEF IInv, TypeInv, StateType, SafeInv, NothingPending
<1>3. /\ tick' \in Tick /\ tick'.start = mem /\ tick'.changed = <<>> /\ tick'.committed = NoPend
  <2>1. NoTick \in Tick /\ NoTick.changed = <<>> /\ NoTick.committed = NoPend
    BY FreshFacts DEF NoTick
  <2> QED
    BY <1>1, <1>2, <2>1 DEF Tick
<1>4. /\ t \in State
      /\ uncertain => /\ t.obsId = mem.obsId /\ t.invalid = mem.invalid
                      /\ t.scanId = IF mem.scanId # NoId THEN mem.scanId ELSE BadId
      /\ ~uncertain => \/ SameBinding(t, mem) /\ mem.scanId = vault
                       \/ t.obsId = vault /\ t.scanId = vault
  BY <1>2, BeginFacts
<1>5. mem' \in State /\ SameBinding(mem', t)
  <2> HIDE DEF t
  <2>1. mem' = t \/ mem' = [t EXCEPT !.scanning = FALSE]
    BY DEF t
  <2>2. CASE mem' = t
    BY <1>4, <2>2 DEF SameBinding
  <2>3. CASE mem' = [t EXCEPT !.scanning = FALSE]
    BY <1>4, <2>3, StopScanFacts
  <2> QED
    BY <2>1, <2>2, <2>3
<1> HIDE DEF t
<1>6. TypeInv'
  <2>1. WorldType' /\ SinkType' /\ ProcType'
    BY <1>1, <1>2 DEF TypeInv, WorldType, SinkType, ProcType
  <2>2. StateType' /\ TickType' /\ RowType' /\ HalfDelivered'
    BY <1>1, <1>2, <1>3, <1>5 DEF TypeInv, StateType, TickType, RowType, HalfDelivered
  <2> QED
    BY <2>1, <2>2 DEF TypeInv
<1>7. vault \in Id /\ vault # NoId /\ BadId \in Id /\ vault # BadId
  BY <1>2, Numbers DEF TypeInv, WorldType, Id, NoId
<1>8. /\ mem'.scanId \in Id /\ mem'.obsId \in Id
      /\ mem'.obsId = NoId => mem.obsId = NoId /\ mem'.scanId \in {NoId, BadId}
      /\ mem'.obsId # vault => SameBinding(mem', t) /\ t.obsId = mem.obsId /\ t.invalid = mem.invalid
  <2>1. IdsKnown(mem)
    BY <1>2 DEF SafeInv, AllIdsKnown
  <2> QED
    BY <1>4, <1>5, <1>7, <2>1 DEF IdsKnown, SameBinding
<1>9. AllIdsKnown'
  BY <1>1, <1>2, <1>3, <1>8 DEF SafeInv, AllIdsKnown, IdsKnown, Id
<1>10. NamelessInv'
  <2>1. Nameless(mem)
    BY <1>1, <1>2 DEF SafeInv, NamelessInv
  <2> QED
    BY <1>1, <1>3, <1>7, <1>8, <2>1 DEF NamelessInv, Nameless, SameBinding
<1>11. NamedInv' /\ NothingPending' /\ ChangedHere'
  BY <1>1, <1>2, <1>3 DEF SafeInv, NamedInv, Unnamed, NothingPending, ChangedHere
<1>12. DeliveredInv'
  BY <1>1, <1>2, <1>3 DEF SafeInv, DeliveredInv, RowsDelivered, Delivered, NoPend
<1> QED
  BY <1>6, <1>9, <1>10, <1>11, <1>12 DEF IInv, SafeInv

LEMMA StartTickInv ==
    ASSUME IInv, NEW uncertain \in BOOLEAN, StartTick(uncertain)
    PROVE  IInv'
  BY TickBeginsInv DEF StartTick

LEMMA RootsDroppedInv ==
    ASSUME IInv, RootsDropped
    PROVE  IInv'
  BY TickBeginsInv DEF RootsDropped

LEMMA PausedTickInv ==
    ASSUME IInv, PausedTick
    PROVE  IInv'
<1>1. /\ pc = "idle" /\ pc' = "sidecar" /\ mem' = mem /\ pend' = pend /\ tick' = tick
      /\ faults' = faults /\ stopped' = stopped
      /\ vault' = vault /\ disk' = disk /\ changes' = changes /\ db' = db /\ jsonl' = jsonl
      /\ store' = store /\ ckptFile' = ckptFile /\ ckpt' = ckpt
  BY DEF PausedTick, world, sinks, durable
<1>2. TypeInv'
  BY <1>1
  DEF IInv, TypeInv, WorldType, SinkType, ProcType, StateType, TickType, RowType, HalfDelivered
<1>3. AllIdsKnown' /\ NamelessInv' /\ NamedInv' /\ NothingPending'
  BY <1>1
  DEF IInv, SafeInv, AllIdsKnown, IdsKnown, Id, NamelessInv, Nameless, NamedInv, Unnamed,
      NothingPending, InTick
<1>4. DeliveredInv' /\ ChangedHere'
  BY <1>1 DEF IInv, SafeInv, DeliveredInv, ChangedHere, RowsDelivered, Delivered, InTick
<1> QED
  BY <1>2, <1>3, <1>4 DEF IInv, SafeInv

\* The name of a save is the vault's only if the observations are bound to it.
LEMMA SaveIdFacts ==
    ASSUME IInv
    PROVE  /\ SaveId \in Id /\ SaveId \in 0 .. BadId
           /\ SaveId = vault => mem.obsId = vault
           /\ SaveId = NoId => Unnamed(mem)
           /\ mem.obsId = NoId => SaveId \in {NoId, BadId}
<1>1. /\ mem.obsId \in Id /\ mem.scanId \in Id
      /\ mem.obsId = NoId => mem.scanId \in {NoId, BadId}
  BY DEF IInv, SafeInv, AllIdsKnown, IdsKnown
<1>2. vault # NoId /\ vault # BadId
  BY Numbers DEF IInv, TypeInv, WorldType, NoId
<1>3. mem.obsId \in 0 .. BadId /\ mem.scanId \in 0 .. BadId
  BY TickContext DEF State
<1> QED
  BY <1>1, <1>2, <1>3 DEF SaveId, Unnamed

LEMMA SaveSidecarInv ==
    ASSUME IInv, SaveSidecar
    PROVE  IInv'
<1> DEFINE replace == mem.invalid \/ SaveId \notin {NoId, store.id}
           id == IF replace THEN SaveId ELSE store.id
           rows == [p \in Path |-> IF pend[p] # Kept THEN pend[p]
                                   ELSE IF replace THEN NoRow ELSE store.rows[p]]
<1>1. /\ pc = "sidecar" /\ pc' = "checkpoint" /\ ~(mem.invalid /\ SaveId = NoId)
      /\ store' = [id |-> id, rows |-> rows]
      /\ mem' = [mem EXCEPT !.invalid = FALSE] /\ pend' = NoPend /\ tick' = tick
      /\ faults' = faults /\ stopped' = stopped
      /\ vault' = vault /\ disk' = disk /\ changes' = changes /\ db' = db /\ jsonl' = jsonl
      /\ ckptFile' = ckptFile /\ ckpt' = ckpt
  BY DEF SaveSidecar, world, sinks
<1>2. TypeInv /\ SafeInv /\ mem \in State /\ store \in Store /\ pend \in Pend
  BY DEF IInv, TypeInv, StateType, RowType
<1>3. store.id \in 0 .. BadId /\ store.rows \in [Path -> Row \cup {NoRow}]
      /\ pend \in [Path -> Row \cup {NoRow, Kept}] /\ store.id \in Id
  BY <1>2 DEF Store, Pend, SafeInv, AllIdsKnown
<1>4. id \in 0 .. BadId /\ id \in Id /\ rows \in [Path -> Row \cup {NoRow}]
  BY <1>3, SaveIdFacts
<1>5. store'.id = id /\ store'.rows = rows /\ store' \in Store
  BY <1>1, <1>4 DEF Store
<1>6. /\ mem' \in State /\ mem'.obsId = mem.obsId /\ mem'.scanId = mem.scanId
      /\ mem'.window = mem.window /\ mem'.gen = mem.gen
  BY <1>1, <1>2 DEF State
<1>8. id = NoId => SaveId = NoId /\ store.id = NoId
  BY <1>1
<1>9. id = vault => /\ mem.obsId = vault \/ (\A p \in Path : rows[p] = NoRow)
                    /\ replace \/ store.id = vault
  <2>1. vault # NoId /\ vault # BadId
    BY <1>2, Numbers DEF TypeInv, WorldType, NoId
  <2>2. CASE replace
    BY <2>2, SaveIdFacts
  <2>3. CASE ~replace
    <3>1. SaveId = NoId => store.id # vault
      <4>1. Nameless(mem)
        BY <1>1, <1>2 DEF SafeInv, NamelessInv
      <4> QED
        BY <2>1, <2>3, <4>1, SaveIdFacts DEF Nameless, Unnamed
    <3> QED
      BY <2>3, <3>1, SaveIdFacts
  <2> QED
    BY <2>2, <2>3
<1>10. TypeInv'
  <2>1. WorldType' /\ SinkType' /\ ProcType'
    BY <1>1, <1>2 DEF TypeInv, WorldType, SinkType, ProcType
  <2>2. StateType' /\ TickType' /\ RowType' /\ HalfDelivered'
    BY <1>1, <1>2, <1>5, <1>6, FreshFacts
    DEF TypeInv, StateType, TickType, RowType, HalfDelivered
  <2> QED
    BY <2>1, <2>2 DEF TypeInv
<1>11. AllIdsKnown'
  BY <1>1, <1>2, <1>4, <1>5, <1>6 DEF SafeInv, AllIdsKnown, IdsKnown, Id
<1>12. NamelessInv'
  <2>1. mem.obsId = NoId => id \in {NoId, BadId}
    <3>1. Nameless(mem)
      BY <1>1, <1>2 DEF SafeInv, NamelessInv
    <3> QED
      BY <3>1, SaveIdFacts DEF Nameless
  <2> QED
    BY <1>1, <1>5, <1>6, <2>1 DEF NamelessInv, Nameless, InTick
<1>13. NamedInv' /\ NothingPending' /\ ChangedHere'
  BY <1>1, <1>2, <1>5, <1>6, <1>8, SaveIdFacts
  DEF SafeInv, NamedInv, Unnamed, NothingPending, ChangedHere, InTick
<1>14. DeliveredInv'
  <2>1. RowsDelivered(NoPend) /\ ~InTick'
    BY <1>1 DEF RowsDelivered, NoPend, InTick
  <2>2. ASSUME id = vault
        PROVE  RowsDelivered(rows)
    <3>1. mem.obsId = vault => RowsDelivered(pend)
      BY <1>2 DEF SafeInv, DeliveredInv
    <3>2. store.id = vault => RowsDelivered(store.rows)
      BY <1>2 DEF SafeInv, DeliveredInv
    <3> SUFFICES ASSUME NEW p \in Path, rows[p] \notin {NoRow, Kept}, mem.obsId = vault
                 PROVE  Delivered(vault, p, rows[p].hash)
      BY <1>9, <2>2 DEF RowsDelivered
    <3> QED
      BY <1>3, <1>9, <2>2, <3>1, <3>2, NoRowAssumption DEF RowsDelivered
  <2> HIDE DEF rows, id
  <2>3. (store.id = vault => RowsDelivered(store.rows))'
    BY <1>1, <1>5, <2>2 DEF RowsDelivered, Delivered
  <2>4. RowsDelivered(pend)'
    BY <1>1, <2>1 DEF RowsDelivered, Delivered, NoPend
  <2> QED
    BY <2>1, <2>3, <2>4 DEF DeliveredInv
<1> QED
  BY <1>10, <1>11, <1>12, <1>13, <1>14 DEF IInv, SafeInv

LEMMA SaveCheckpointInv ==
    ASSUME IInv, SaveCheckpoint
    PROVE  IInv'
<1> DEFINE renamed(n) == IF n = mem.gen THEN 1 ELSE IF n = mem.gen + 1 THEN 2 ELSE 0
           rows == [p \in Path |-> IF store.rows[p] = NoRow THEN NoRow
                                   ELSE [store.rows[p] EXCEPT !.gen = renamed(store.rows[p].gen)]]
<1>1. /\ pc = "checkpoint" /\ pc' = "idle"
      /\ mem' = [mem EXCEPT !.gen = 1, !.prioGen = renamed(mem.prioGen)]
      /\ store' = [store EXCEPT !.rows = rows] /\ ckpt' = mem' /\ ckptFile' = "ok"
      /\ tick' = NoTick /\ pend' = pend /\ faults' = faults /\ stopped' = stopped
      /\ vault' = vault /\ disk' = disk /\ changes' = changes /\ db' = db /\ jsonl' = jsonl
  BY DEF SaveCheckpoint, world, sinks
<1>2. TypeInv /\ SafeInv /\ mem \in State /\ store \in Store /\ pend = NoPend
  BY <1>1 DEF IInv, TypeInv, StateType, RowType, SafeInv, NothingPending
<1>3. \A n : renamed(n) \in 0 .. 2
  OBVIOUS
<1> HIDE DEF renamed
<1>4. /\ mem' \in State /\ mem'.gen = 1 /\ SameBinding(mem', mem)
  <2>1. ASSUME NEW g \in 0 .. 2
        PROVE  LET t == [mem EXCEPT !.gen = 1, !.prioGen = g]
               IN  t \in State /\ t.gen = 1 /\ SameBinding(t, mem)
    <3>1. 1 \in 1 .. 2
      OBVIOUS
    <3>2. [mem EXCEPT !.gen = 1, !.prioGen = g] \in State
      BY <1>2, <3>1 DEF State
    <3>3. LET t == [mem EXCEPT !.gen = 1, !.prioGen = g]
          IN  t.gen = 1 /\ SameBinding(t, mem)
      BY <1>2 DEF State, SameBinding
    <3> QED
      BY <3>2, <3>3
  <2> DEFINE g == renamed(mem.prioGen)
  <2>2. g \in 0 .. 2 /\ mem' = [mem EXCEPT !.gen = 1, !.prioGen = g]
    BY <1>1, <1>3
  <2> HIDE DEF g
  <2> QED
    BY <2>1, <2>2
<1>5. \A p \in Path : \/ store.rows[p] = NoRow /\ rows[p] = NoRow
                      \/ /\ store.rows[p] \in Row /\ rows[p] \in Row
                         /\ rows[p].hash = store.rows[p].hash
  <2>1. ASSUME NEW r \in Row, NEW g \in 0 .. 2
        PROVE  [r EXCEPT !.gen = g] \in Row /\ [r EXCEPT !.gen = g].hash = r.hash
    BY DEF Row
  <2>2. \A p \in Path : store.rows[p] \in Row \cup {NoRow}
    BY <1>2 DEF Store
  <2> QED
    BY <1>3, <2>1, <2>2, NoRowAssumption
<1>6. rows \in [Path -> Row \cup {NoRow}]
  BY <1>5
<1> HIDE DEF rows
<1>7. store' \in Store /\ store'.id = store.id /\ store'.rows = rows
  BY <1>1, <1>2, <1>6 DEF Store
<1>8. TypeInv'
  <2>1. WorldType' /\ SinkType' /\ ProcType'
    BY <1>1, <1>2 DEF TypeInv, WorldType, SinkType, ProcType
  <2>2. StateType' /\ TickType' /\ RowType' /\ HalfDelivered'
    BY <1>1, <1>2, <1>4, <1>7, FreshFacts
    DEF TypeInv, StateType, TickType, RowType, HalfDelivered
  <2> QED
    BY <2>1, <2>2 DEF TypeInv
<1>9. mem'.scanId = mem.scanId /\ mem'.obsId = mem.obsId /\ mem'.invalid = mem.invalid
  BY <1>4 DEF SameBinding
<1>10. AllIdsKnown'
  <2>1. IdsKnown(Fresh)'
    BY <1>1, <1>2, FreshFacts DEF IdsKnown, Id, NoId, TypeInv, WorldType
  <2> QED
    BY <1>1, <1>2, <1>7, <1>9, <2>1, FreshFacts DEF SafeInv, AllIdsKnown, IdsKnown, Id
<1>11. NamelessInv' /\ NamedInv' /\ NothingPending' /\ ChangedHere'
  BY <1>1, <1>2, <1>7, <1>9
  DEF SafeInv, NamelessInv, Nameless, NamedInv, Unnamed, NothingPending, ChangedHere, InTick
<1>12. DeliveredInv'
  <2>1. (store.id = vault => RowsDelivered(store.rows))'
    BY <1>1, <1>2, <1>5, <1>7, NoRowAssumption DEF SafeInv, DeliveredInv, RowsDelivered, Delivered
  <2>2. RowsDelivered(pend)' /\ ~InTick'
    BY <1>1, <1>2 DEF RowsDelivered, NoPend, InTick
  <2> QED
    BY <2>1, <2>2 DEF DeliveredInv
<1> QED
  BY <1>8, <1>10, <1>11, <1>12 DEF IInv, SafeInv

\* The process is gone, and the checkpoint perhaps too.
LEMMA DownInv ==
    ASSUME IInv, Down, UNCHANGED <<world, sinks, stopped, store>>, faults' \in 0 .. MaxFaults,
           \/ ckpt' = ckpt /\ ckptFile' = ckptFile
           \/ ckpt' = Fresh /\ ckptFile' \in {"missing", "malformed"}
    PROVE  IInv'
<1>1. /\ pc' = "down" /\ mem' = Fresh /\ pend' = NoPend /\ tick' = NoTick
      /\ store' = store /\ stopped' = stopped
      /\ vault' = vault /\ disk' = disk /\ changes' = changes /\ db' = db /\ jsonl' = jsonl
  BY DEF Down, world, sinks
<1>2. TypeInv /\ SafeInv
  BY DEF IInv
<1>3. TypeInv'
  <2>1. WorldType' /\ SinkType' /\ ProcType'
    BY <1>1, <1>2 DEF TypeInv, WorldType, SinkType, ProcType
  <2>2. StateType' /\ TickType' /\ RowType' /\ HalfDelivered'
    BY <1>1, <1>2, FreshFacts DEF TypeInv, StateType, TickType, RowType, HalfDelivered
  <2> QED
    BY <2>1, <2>2 DEF TypeInv
<1>4. IdsKnown(Fresh)'
  BY <1>1, <1>2, FreshFacts DEF IdsKnown, Id, NoId, TypeInv, WorldType
<1>5. AllIdsKnown'
  BY <1>1, <1>2, <1>4, FreshFacts DEF SafeInv, AllIdsKnown, IdsKnown, Id
<1>6. NamelessInv' /\ NamedInv' /\ NothingPending' /\ ChangedHere'
  BY <1>1, <1>2, FreshFacts
  DEF SafeInv, NamelessInv, NamedInv, Unnamed, NothingPending, ChangedHere, InTick
<1>7. DeliveredInv'
  BY <1>1, <1>2 DEF SafeInv, DeliveredInv, RowsDelivered, Delivered, NoPend, InTick
<1> QED
  BY <1>3, <1>5, <1>6, <1>7 DEF IInv, SafeInv

LEMMA ProcessEndsInv ==
    ASSUME IInv, SaveRaises \/ Crash \/ LoseCheckpoint
    PROVE  IInv'
<1>1. Down /\ UNCHANGED <<world, sinks, stopped, store>>
  BY DEF SaveRaises, Crash, LoseCheckpoint, durable
<1>2. faults' \in 0 .. MaxFaults
  BY TickContext, FaultFacts DEF SaveRaises, Crash, LoseCheckpoint
<1>3. \/ ckpt' = ckpt /\ ckptFile' = ckptFile
      \/ ckpt' = Fresh /\ ckptFile' \in {"missing", "malformed"}
  BY DEF SaveRaises, Crash, LoseCheckpoint, durable
<1> QED
  BY <1>1, <1>2, <1>3, DownInv

\* A sidecar without a name is met by a checkpoint without one, so the restart
\* names nothing.
LEMMA RestartInv ==
    ASSUME IInv, Restart
    PROVE  IInv'
<1> DEFINE obs == IF ckpt.obsId # NoId THEN ckpt.obsId ELSE ckpt.scanId
           loaded == [ckpt EXCEPT !.obsId = obs]
           broken == [Fresh EXCEPT !.loadError = TRUE, !.hadError = TRUE]
           state == CASE ckptFile = "ok" -> loaded
                      [] ckptFile = "missing" -> Fresh
                      [] ckptFile = "malformed" -> broken
           hide == state.invalid \/ (state.obsId = NoId /\ store.id # NoId)
<1>1. /\ pc = "down" /\ pc' = "idle" /\ mem' = [state EXCEPT !.invalid = hide]
      /\ store' = [store EXCEPT !.id = IF store.id = NoId THEN state.obsId ELSE store.id]
      /\ pend' = pend /\ tick' = tick /\ ckptFile' = ckptFile /\ ckpt' = ckpt
      /\ faults' = faults /\ stopped' = stopped
      /\ vault' = vault /\ disk' = disk /\ changes' = changes /\ db' = db /\ jsonl' = jsonl
  BY DEF Restart, world, sinks
<1>2. /\ TypeInv /\ SafeInv /\ ckpt \in State /\ ckpt.gen = 1 /\ store \in Store /\ pend = NoPend
      /\ ckptFile \in {"ok", "missing", "malformed"}
  BY <1>1 DEF IInv, TypeInv, StateType, RowType, ProcType, SafeInv, NothingPending
<1>3. /\ ckpt.obsId \in Id /\ ckpt.scanId \in Id /\ obs \in 0 .. BadId
      /\ ckpt.obsId = NoId => ckpt.scanId \in {NoId, BadId}
      /\ store.id = NoId => ckpt.obsId = NoId /\ ckpt.scanId = NoId
  BY <1>2 DEF SafeInv, AllIdsKnown, IdsKnown, NamedInv, Unnamed, State
<1>4. NoId \in Id
  BY <1>2 DEF TypeInv, WorldType, Id, NoId
<1>5. /\ state \in State /\ state.gen = 1 /\ state.obsId \in Id /\ state.scanId \in Id
      /\ state.obsId = NoId => state.scanId = NoId
      /\ store.id = NoId => state.obsId = NoId
  <2>1. CASE ckptFile = "ok"
    <3>1. loaded \in State /\ loaded.gen = 1 /\ loaded.obsId = obs /\ loaded.scanId = ckpt.scanId
      <4> HIDE DEF obs
      <4> QED
        BY <1>2, <1>3 DEF State
    <3>2. state = loaded
      BY <2>1
    <3>3. /\ obs \in Id /\ (obs = NoId => ckpt.scanId = NoId)
          /\ (store.id = NoId => obs = NoId)
      BY <1>3
    <3> HIDE DEF loaded, state, obs
    <3> QED
      BY <1>3, <3>1, <3>2, <3>3
  <2>2. CASE ckptFile = "missing"
    BY <1>4, <2>2, FreshFacts
  <2>3. CASE ckptFile = "malformed"
    <3>1. /\ broken \in State /\ broken.gen = 1 /\ broken.obsId = NoId /\ broken.scanId = NoId
      BY FreshFacts DEF State
    <3> QED
      BY <1>4, <2>3, <3>1
  <2> QED
    BY <1>2, <2>1, <2>2, <2>3
<1>6. store.id \in Id
  BY <1>2 DEF SafeInv, AllIdsKnown
<1> HIDE DEF state
<1>7. /\ mem' \in State /\ mem'.gen = 1 /\ mem'.obsId = state.obsId /\ mem'.scanId = state.scanId
      /\ mem'.invalid = hide
  <2>1. hide \in BOOLEAN
    BY <1>5 DEF State
  <2> HIDE DEF hide
  <2> QED
    BY <1>1, <1>5, <2>1 DEF State
<1>8. store' = store
  BY <1>1, <1>2, <1>5 DEF Store
<1>9. TypeInv'
  <2>1. WorldType' /\ SinkType' /\ ProcType'
    BY <1>1, <1>2 DEF TypeInv, WorldType, SinkType, ProcType
  <2>2. StateType' /\ TickType' /\ RowType' /\ HalfDelivered'
    BY <1>1, <1>2, <1>7, <1>8 DEF TypeInv, StateType, TickType, RowType, HalfDelivered
  <2> QED
    BY <2>1, <2>2 DEF TypeInv
<1>10. AllIdsKnown'
  BY <1>1, <1>2, <1>5, <1>7, <1>8 DEF SafeInv, AllIdsKnown, IdsKnown, Id
<1>11. NamelessInv' /\ NamedInv' /\ NothingPending' /\ ChangedHere'
  BY <1>1, <1>2, <1>7, <1>8
  DEF SafeInv, NamelessInv, Nameless, NamedInv, Unnamed, NothingPending, ChangedHere, InTick
<1>12. DeliveredInv'
  BY <1>1, <1>2, <1>8 DEF SafeInv, DeliveredInv, RowsDelivered, Delivered, NoPend, InTick
<1> QED
  BY <1>9, <1>10, <1>11, <1>12 DEF IInv, SafeInv
-----------------------------------------------------------------------------
(* The surroundings. *)

\* Time passes: a debounce interval ends.
LEMMA DebounceOverInv ==
    ASSUME IInv, DebounceOver
    PROVE  IInv'
<1> DEFINE rows == [p \in Path |-> IF store.rows[p] = NoRow THEN NoRow
                                   ELSE [store.rows[p] EXCEPT !.fresh = FALSE]]
<1>1. /\ pc \in {"idle", "down"} /\ pc' = pc /\ store' = [store EXCEPT !.rows = rows]
      /\ mem' = mem /\ pend' = pend /\ tick' = tick /\ ckptFile' = ckptFile /\ ckpt' = ckpt
      /\ faults' = faults /\ stopped' = stopped
      /\ vault' = vault /\ disk' = disk /\ changes' = changes /\ db' = db /\ jsonl' = jsonl
  BY DEF DebounceOver, Asleep, world, sinks
<1>2. TypeInv /\ SafeInv /\ store \in Store
  BY DEF IInv, TypeInv, RowType
<1>3. \A p \in Path : \/ store.rows[p] = NoRow /\ rows[p] = NoRow
                      \/ /\ store.rows[p] \in Row /\ rows[p] \in Row
                         /\ rows[p].hash = store.rows[p].hash
  <2>1. ASSUME NEW r \in Row
        PROVE  [r EXCEPT !.fresh = FALSE] \in Row /\ [r EXCEPT !.fresh = FALSE].hash = r.hash
    BY DEF Row
  <2>2. \A p \in Path : store.rows[p] \in Row \cup {NoRow}
    BY <1>2 DEF Store
  <2> QED
    BY <2>1, <2>2, NoRowAssumption
<1>4. rows \in [Path -> Row \cup {NoRow}]
  BY <1>3
<1> HIDE DEF rows
<1>5. store' \in Store /\ store'.id = store.id /\ store'.rows = rows
  BY <1>1, <1>2, <1>4 DEF Store
<1>6. TypeInv'
  BY <1>1, <1>2, <1>5
  DEF TypeInv, WorldType, SinkType, ProcType, StateType, TickType, RowType, HalfDelivered
<1>7. AllIdsKnown' /\ NamelessInv' /\ NamedInv' /\ NothingPending' /\ ChangedHere'
  BY <1>1, <1>2, <1>5
  DEF SafeInv, AllIdsKnown, IdsKnown, Id, NamelessInv, Nameless, NamedInv, Unnamed,
      NothingPending, ChangedHere, InTick
<1>8. DeliveredInv'
  BY <1>1, <1>2, <1>3, <1>5, NoRowAssumption
  DEF SafeInv, DeliveredInv, RowsDelivered, Delivered, InTick
<1> QED
  BY <1>6, <1>7, <1>8 DEF IInv, SafeInv

\* Time passes: the rate window empties and the backoff ends.
LEMMA MinuteOverInv ==
    ASSUME IInv, MinuteOver
    PROVE  IInv'
<1> DEFINE rested(s) == [s EXCEPT !.window = 0, !.backoff = FALSE]
<1>1. /\ pc \in {"idle", "down"} /\ pc' = pc /\ store' = store
      /\ mem' = rested(mem) /\ ckpt' = rested(ckpt)
      /\ pend' = pend /\ tick' = tick /\ ckptFile' = ckptFile
      /\ faults' = faults /\ stopped' = stopped
      /\ vault' = vault /\ disk' = disk /\ changes' = changes /\ db' = db /\ jsonl' = jsonl
  BY DEF MinuteOver, Asleep, world, sinks
<1>2. TypeInv /\ SafeInv /\ mem \in State /\ ckpt \in State
  BY DEF IInv, TypeInv, StateType
<1>3. ASSUME NEW s \in State
      PROVE  rested(s) \in State /\ SameBinding(rested(s), s) /\ rested(s).gen = s.gen
  <2>1. 0 \in 0 .. RateLimit
    BY Numbers
  <2>2. rested(s) \in State
    BY <2>1 DEF State
  <2>3. SameBinding(rested(s), s) /\ rested(s).gen = s.gen
    BY DEF State, SameBinding
  <2> QED
    BY <2>2, <2>3
<1> HIDE DEF rested
<1>4. /\ mem' \in State /\ ckpt' \in State /\ mem'.gen = mem.gen /\ ckpt'.gen = ckpt.gen
      /\ mem'.scanId = mem.scanId /\ mem'.obsId = mem.obsId /\ mem'.invalid = mem.invalid
      /\ ckpt'.scanId = ckpt.scanId /\ ckpt'.obsId = ckpt.obsId
  BY <1>1, <1>2, <1>3 DEF SameBinding
<1>5. TypeInv'
  BY <1>1, <1>2, <1>4
  DEF TypeInv, WorldType, SinkType, ProcType, StateType, TickType, RowType, HalfDelivered
<1>6. AllIdsKnown' /\ NamelessInv' /\ NamedInv' /\ NothingPending' /\ ChangedHere'
  BY <1>1, <1>2, <1>4
  DEF SafeInv, AllIdsKnown, IdsKnown, Id, NamelessInv, Nameless, NamedInv, Unnamed,
      NothingPending, ChangedHere, InTick
<1>7. DeliveredInv'
  BY <1>1, <1>2, <1>4 DEF SafeInv, DeliveredInv, RowsDelivered, Delivered, InTick
<1> QED
  BY <1>5, <1>6, <1>7 DEF IInv, SafeInv

\* A change of the notes, or another vault, whose identity nothing knows yet.
LEMMA ChangeInv ==
    ASSUME IInv, Change, disk' \in [Path -> Content \cup {Absent}],
           vault' = vault \/ vault' = vault + 1
    PROVE  IInv'
<1>1. /\ pc' = pc /\ mem' = mem /\ pend' = pend /\ tick' = tick
      /\ store' = store /\ ckptFile' = ckptFile /\ ckpt' = ckpt
      /\ faults' = faults /\ stopped' = stopped /\ db' = db /\ jsonl' = jsonl
      /\ changes' = changes + 1 /\ changes < MaxChanges
  BY DEF Change, sinks, durable
<1>2. TypeInv /\ SafeInv
  BY DEF IInv
<1>3. /\ vault \in Nat /\ 1 <= vault /\ vault <= changes + 1 /\ changes \in 0 .. MaxChanges
      /\ Id = 0 .. vault \cup {BadId}
  BY <1>2 DEF TypeInv, WorldType, Id
<1>4. /\ vault' \in Nat /\ 1 <= vault' /\ vault' <= changes' + 1 /\ changes' \in 0 .. MaxChanges
      /\ \A id \in Id : id \in Id' /\ (vault' # vault => id # vault')
  BY <1>1, <1>3, Numbers DEF Id
<1>5. TypeInv'
  <2>1. WorldType'
    BY <1>4 DEF WorldType
  <2>2. SinkType' /\ ProcType' /\ StateType' /\ TickType' /\ RowType'
    BY <1>1, <1>2 DEF TypeInv, SinkType, ProcType, StateType, TickType, RowType
  <2>3. HalfDelivered'
    BY <1>1, <1>2 DEF TypeInv, HalfDelivered, Event, Changed
  <2> QED
    BY <2>1, <2>2, <2>3 DEF TypeInv
<1>6. mem.obsId \in Id /\ store.id \in Id
  BY <1>2 DEF SafeInv, AllIdsKnown, IdsKnown
<1>7. AllIdsKnown'
  BY <1>1, <1>2, <1>4 DEF SafeInv, AllIdsKnown, IdsKnown
<1>8. NamelessInv' /\ NamedInv' /\ NothingPending'
  BY <1>1, <1>2
  DEF SafeInv, NamelessInv, Nameless, NamedInv, Unnamed, NothingPending, InTick
<1>9. DeliveredInv' /\ ChangedHere'
  <2>1. CASE vault' = vault
    BY <1>1, <1>2, <2>1 DEF SafeInv, DeliveredInv, ChangedHere, RowsDelivered, Delivered, InTick
  <2>2. CASE vault' # vault
    BY <1>1, <1>4, <1>6, <2>2 DEF DeliveredInv, ChangedHere
  <2> QED
    BY <2>1, <2>2
<1> QED
  BY <1>5, <1>7, <1>8, <1>9 DEF IInv, SafeInv

LEMMA UserInv ==
    ASSUME IInv, User
    PROVE  IInv'
<1>1. /\ changes \in 0 .. MaxChanges /\ disk \in [Path -> Content \cup {Absent}]
      /\ Absent \in Content \cup {Absent}
  BY DEF IInv, TypeInv, WorldType
<1>2. ASSUME Change
      PROVE  \A n \in 0 .. changes + 1 : n \in Content \cup {Absent}
  BY <1>1, <1>2, Numbers DEF Change, Content, Absent
<1>3. ASSUME Change
      PROVE  changes + 2 \in Content \cup {Absent}
  BY <1>1, <1>3, Numbers DEF Change, Content
<1>4. ASSUME NEW p \in Path, Edit(p) \/ Delete(p)
      PROVE  IInv'
  <2>1. Change /\ vault' = vault
    BY <1>4 DEF Edit, Delete
  <2>2. disk' = [disk EXCEPT ![p] = changes + 2] \/ disk' = [disk EXCEPT ![p] = Absent]
    BY <1>4 DEF Edit, Delete
  <2>3. disk' \in [Path -> Content \cup {Absent}]
    BY <1>1, <1>3, <2>1, <2>2
  <2> QED
    BY <2>1, <2>3, ChangeInv
<1>5. ASSUME NEW notes \in [Path -> 0 .. changes + 1], ReplaceVault(notes)
      PROVE  IInv'
  <2>1. Change /\ vault' = vault + 1 /\ disk' = notes
    BY <1>5 DEF ReplaceVault
  <2>2. disk' \in [Path -> Content \cup {Absent}]
    BY <1>2, <2>1
  <2> QED
    BY <2>1, <2>2, ChangeInv
<1>6. ASSUME RemoveStopFile
      PROVE  IInv'
  <2>1. /\ pc' = pc /\ mem' = mem /\ pend' = pend /\ tick' = tick /\ ~stopped'
        /\ stopped' \in BOOLEAN
        /\ store' = store /\ ckptFile' = ckptFile /\ ckpt' = ckpt /\ faults' = faults
        /\ vault' = vault /\ disk' = disk /\ changes' = changes /\ db' = db /\ jsonl' = jsonl
    BY <1>6 DEF RemoveStopFile, world, sinks, durable
  <2>2. TypeInv'
    BY <2>1
    DEF IInv, TypeInv, WorldType, SinkType, ProcType, StateType, TickType, RowType, HalfDelivered,
        Event, Changed
  <2>3. SafeInv'
    BY <2>1
    DEF IInv, SafeInv, AllIdsKnown, IdsKnown, Id, NamelessInv, Nameless, NamedInv, Unnamed,
        NothingPending, DeliveredInv, ChangedHere, RowsDelivered, Delivered, InTick
  <2> QED
    BY <2>2, <2>3 DEF IInv
<1> QED
  BY <1>4, <1>5, <1>6 DEF User

\* Nothing changes.
LEMMA StutterInv ==
    ASSUME IInv, UNCHANGED vars
    PROVE  IInv'
<1>1. /\ pc' = pc /\ mem' = mem /\ pend' = pend /\ tick' = tick /\ stopped' = stopped
      /\ store' = store /\ ckptFile' = ckptFile /\ ckpt' = ckpt /\ faults' = faults
      /\ vault' = vault /\ disk' = disk /\ changes' = changes /\ db' = db /\ jsonl' = jsonl
  BY DEF vars, world, sinks, durable
<1>2. TypeInv'
  BY <1>1
  DEF IInv, TypeInv, WorldType, SinkType, ProcType, StateType, TickType, RowType, HalfDelivered,
      Event, Changed
<1>3. SafeInv'
  BY <1>1
  DEF IInv, SafeInv, AllIdsKnown, IdsKnown, Id, NamelessInv, Nameless, NamedInv, Unnamed,
      NothingPending, DeliveredInv, ChangedHere, RowsDelivered, Delivered, InTick
<1> QED
  BY <1>2, <1>3 DEF IInv
-----------------------------------------------------------------------------
(* The theorems. *)

LEMMA Invariance == Spec => []IInv
<1>1. ASSUME IInv, [Next]_vars
      PROVE  IInv'
  <2>1. FALSE \in BOOLEAN /\ TRUE \in BOOLEAN
    OBVIOUS
  <2>2. CASE Watcher
    <3>1. CASE Restart \/ PausedTick \/ StartTick(FALSE) \/ List
      BY <1>1, <2>1, <3>1, RestartInv, PausedTickInv, StartTickInv, ListInv
    <3>2. CASE \E p \in Path : ScanUnchanged(p) \/ ScanChanged(p)
      BY <1>1, <3>2, ScanUnchangedInv, ScanChangedInv
    <3>3. CASE \E p \in Path : disk[p] = Absent /\ ScanStatFails(p)
      BY <1>1, <3>3, ScanFailsInv
    <3>4. CASE Pause \/ Exhausted \/ Recheck(FALSE) \/ Skip \/ DbWrite \/ Accept
      BY <1>1, <2>1, <3>4, ScanEndsInv, RecheckInv, SkipInv, DbWriteInv, AcceptInv
    <3>5. CASE Finish(FALSE) \/ SaveSidecar \/ SaveRaises \/ SaveCheckpoint
      BY <1>1, <2>1, <3>5, FinishInv, SaveSidecarInv, ProcessEndsInv, SaveCheckpointInv
    <3> QED
      BY <2>2, <3>1, <3>2, <3>3, <3>4, <3>5 DEF Watcher
  <2>3. CASE Failure
    <3>1. CASE Crash \/ LoseCheckpoint \/ StartTick(TRUE) \/ RootsDropped \/ RootFails
      BY <1>1, <2>1, <3>1, ProcessEndsInv, StartTickInv, RootsDroppedInv, RootFailsInv
    <3>2. CASE VaultFails \/ Recheck(TRUE) \/ DeliveryFails \/ Finish(TRUE)
      BY <1>1, <2>1, <3>2, RootFailsInv, RecheckInv, DeliveryFailsInv, FinishInv
    <3>3. CASE \E p \in Path : ScanHashFails(p) \/ (disk[p] # Absent /\ ScanStatFails(p))
      BY <1>1, <3>3, ScanFailsInv
    <3> QED
      BY <2>3, <3>1, <3>2, <3>3 DEF Failure
  <2>4. CASE User \/ DebounceOver \/ MinuteOver \/ UNCHANGED vars
    BY <1>1, <2>4, UserInv, DebounceOverInv, MinuteOverInv, StutterInv
  <2> QED
    BY <1>1, <2>2, <2>3, <2>4 DEF Next
<1> QED
  BY InitInv, <1>1, PTL DEF Spec

\* The checkpoint, the sidecar, the state in memory and the locals of a tick are
\* well typed, whatever the user, the sinks and crashes do.
THEOREM WatcherTypeCorrect == Spec => []TypeOK
<1>1. IInv => TypeOK
  <2> SUFFICES ASSUME IInv PROVE TypeOK
    OBVIOUS
  <2>1. vault \in Vault /\ changes \in 0 .. MaxChanges /\ disk \in [Path -> Content \cup {Absent}]
    BY TickContext DEF IInv, TypeInv, WorldType
  <2>2. mem \in State /\ ckpt \in State /\ tick.start \in State /\ pend \in Pend
        /\ tick.committed \in Pend /\ store.id \in 0 .. BadId
        /\ store.rows \in [Path -> Row \cup {NoRow}]
    BY DEF IInv, TypeInv, StateType, TickType, RowType, Tick, Store
  <2>3. SinkType /\ ProcType
    BY DEF IInv, TypeInv
  <2> QED
    BY <2>1, <2>2, <2>3 DEF TypeOK, State, Pend, SinkType, ProcType
<1> QED
  BY Invariance, <1>1, PTL

\* "Delivery and its durable observation cursor are one state transition": what
\* the watcher takes as known of this vault was delivered to both sinks, through
\* any number of failing sinks, crashes between the two saves, lost checkpoints
\* and replaced vaults.
THEOREM NothingKnownUndelivered == Spec => []AcceptedWasDelivered
<1>1. IInv => AcceptedWasDelivered
  <2> SUFFICES ASSUME IInv, NEW p \in Path
               PROVE  /\ (pc # "down" /\ mem.obsId = vault /\ file_entry(p) # NoRow) =>
                             Delivered(vault, p, file_entry(p).hash)
                      /\ (store.id = vault /\ store.rows[p] # NoRow) =>
                             Delivered(vault, p, store.rows[p].hash)
    BY DEF AcceptedWasDelivered
  <2>1. store.rows[p] # Kept
    BY NoRowAssumption DEF IInv, TypeInv, RowType, Store
  <2>2. store.id = vault => RowsDelivered(store.rows)
    BY DEF IInv, SafeInv, DeliveredInv
  <2> QED
    BY <2>1, <2>2, EntryDelivered DEF RowsDelivered
<1> QED
  BY Invariance, <1>1, PTL
=============================================================================
