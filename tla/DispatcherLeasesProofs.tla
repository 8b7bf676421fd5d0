----------------------- MODULE DispatcherLeasesProofs -----------------------
(***************************************************************************)
(* Proofs about DispatcherLeases, for any set of tasks, agents and pulls,  *)
(* any time to live and any number of leases, guards and faults.  Types    *)
(* are proved for every choice of row commands; the safety properties for  *)
(* the commands that are one transaction (RowCommands = {}), or for one    *)
(* agent with all commands: the violation of the release race shows that   *)
(* two agents with them do not have these properties.                      *)
(***************************************************************************)
EXTENDS DispatcherLeases, SequenceTheorems, TLAPS

-----------------------------------------------------------------------------
(* Rows *)

\* A row as it can be written at time "at" when there are n leases.
Fits(row, n, at) ==
    row \in Row /\ row.lease <= n /\ row.pull <= at /\ row.invalid <= at /\ row.fence <= at

\* What the commands make of a row stays a row, and what they do to its lease.
LEMMA RowFacts ==
    ASSUME NEW n \in Nat, NEW at \in Nat, NEW row, Fits(row, n, at)
    PROVE  /\ \A l \in 0 .. n, a \in Agent : Fits(Claimed(row, l, a), n, at)
           /\ Fits(Completed(row), n, at) /\ Fits(InReview(row), n, at)
           /\ \A d \in 0 .. at : Fits(Released(row, d), n, at) /\ Fits(Reclaimed(row, d), n, at)
           /\ Fits(Blocked(row), n, at) /\ Fits(Unblocked(row), n, at)
           /\ \A s \in Status : Fits(Moved(row, s), n, at)
           /\ \A m \in Nat, d \in Nat : m >= n /\ d >= at => Fits(row, m, d)
  <1> DEFINE free == Unleased(row)
  <1>0. /\ row \in Row /\ row.status \in Status /\ row.lease \in Nat /\ row.blocked \in BOOLEAN
        /\ row.pull \in Nat /\ row.invalid \in Nat /\ row.fence \in Nat
        /\ row.lease <= n /\ row.pull <= at /\ row.invalid <= at /\ row.fence <= at
    BY DEF Fits, Row
  <1>1. /\ free \in Row /\ free.lease = 0
        /\ free.pull = row.pull /\ free.invalid = row.invalid /\ free.fence = row.fence
        /\ free.status = row.status
    BY <1>0 DEF Unleased, Row, NoLease
  <1>2. ASSUME NEW l \in 0 .. n, NEW a \in Agent PROVE Fits(Claimed(row, l, a), n, at)
    <2>0. l \in Nat /\ l <= n
      OBVIOUS
    <2> DEFINE r == Claimed(row, l, a)
    <2>1. /\ r \in Row /\ r.lease = l
          /\ r.pull = row.pull /\ r.invalid = row.invalid /\ r.fence = row.fence
      BY <1>0, <2>0 DEF Claimed, Row, Status
    <2> HIDE DEF r
    <2>2. Fits(r, n, at)
      BY <1>0, <2>0, <2>1 DEF Fits
    <2> QED
      BY <2>2 DEF r
  <1> HIDE DEF free
  <1>3. Fits(Completed(row), n, at)
    <2> DEFINE r == [free EXCEPT !.status = "completed"]
    <2>1. /\ r \in Row /\ r.lease = 0
          /\ r.pull = row.pull /\ r.invalid = row.invalid /\ r.fence = row.fence
      BY <1>1 DEF Row, Status
    <2>2. Completed(row) = r
      BY DEF Completed, free
    <2> HIDE DEF r
    <2> QED
      BY <1>0, <2>1, <2>2 DEF Fits
  <1>4. Fits(InReview(row), n, at)
    <2> DEFINE r == [free EXCEPT !.status = "review", !.blocked = FALSE]
    <2>1. /\ r \in Row /\ r.lease = 0
          /\ r.pull = row.pull /\ r.invalid = row.invalid /\ r.fence = row.fence
      BY <1>1 DEF Row, Status
    <2>2. InReview(row) = r
      BY DEF InReview, free
    <2> HIDE DEF r
    <2> QED
      BY <1>0, <2>1, <2>2 DEF Fits
  <1>5. ASSUME NEW d \in 0 .. at PROVE Fits(Released(row, d), n, at)
    <2>0. d \in Nat /\ d <= at
      OBVIOUS
    <2> DEFINE r == [free EXCEPT !.status = UnleasedStatus(row), !.pull = 0, !.invalid = d]
    <2>1. UnleasedStatus(row) \in Status
      BY DEF UnleasedStatus, Status
    <2>2. r \in Row /\ r.lease = 0 /\ r.pull = 0 /\ r.invalid = d /\ r.fence = row.fence
      BY <1>1, <2>0, <2>1 DEF Row
    <2>3. Released(row, d) = r
      BY DEF Released, free
    <2> HIDE DEF r
    <2> QED
      BY <1>0, <2>0, <2>2, <2>3 DEF Fits
  <1>6. ASSUME NEW d \in 0 .. at PROVE Fits(Reclaimed(row, d), n, at)
    <2>0. d \in Nat /\ d <= at
      OBVIOUS
    <2> DEFINE r == [free EXCEPT !.pull = 0, !.invalid = d, !.fence = d]
    <2>1. r \in Row /\ r.lease = 0 /\ r.pull = 0 /\ r.invalid = d /\ r.fence = d
      BY <1>1, <2>0 DEF Row
    <2>2. Reclaimed(row, d) \in {r, Released(row, d)}
      BY DEF Reclaimed, free
    <2> HIDE DEF r
    <2>3. Fits(r, n, at)
      BY <1>0, <2>0, <2>1 DEF Fits
    <2> QED
      BY <1>5, <2>2, <2>3
  <1>7. Fits(Blocked(row), n, at) /\ Fits(Unblocked(row), n, at)
    <2> DEFINE r == Blocked(row)
               q == Unblocked(row)
    <2>1. /\ r \in Row /\ r.lease = row.lease
          /\ r.pull = row.pull /\ r.invalid = row.invalid /\ r.fence = row.fence
      BY <1>0 DEF Blocked, Row, Status
    <2>2. /\ q \in Row /\ q.lease = row.lease
          /\ q.pull = row.pull /\ q.invalid = row.invalid /\ q.fence = row.fence
      BY <1>0 DEF Unblocked, Row, Status
    <2> HIDE DEF r, q
    <2>3. Fits(r, n, at) /\ Fits(q, n, at)
      BY <1>0, <2>1, <2>2 DEF Fits
    <2> QED
      BY <2>3 DEF r, q
  <1>8. ASSUME NEW s \in Status PROVE Fits(Moved(row, s), n, at)
    <2> DEFINE r == Moved(row, s)
    <2>1. /\ r \in Row /\ r.lease = row.lease
          /\ r.pull = row.pull /\ r.invalid = row.invalid /\ r.fence = row.fence
      BY <1>0 DEF Moved, Row
    <2> HIDE DEF r
    <2>2. Fits(r, n, at)
      BY <1>0, <2>1 DEF Fits
    <2> QED
      BY <2>2 DEF r
  <1>9. \A m \in Nat, d \in Nat : m >= n /\ d >= at => Fits(row, m, d)
    BY <1>0 DEF Fits
  <1> QED
    BY <1>2, <1>3, <1>4, <1>5, <1>6, <1>7, <1>8, <1>9

LEMMA TaskRowFits ==
    ASSUME NEW n \in Nat, NEW at \in Nat, NEW s \in Status, NEW b \in BOOLEAN, NEW d \in 0 .. at
    PROVE  Fits(TaskRow(s, b, d), n, at)
  BY DEF Fits, Row, TaskRow, NoLease

\* The fields a pull leaves, written out.
LEMMA UpsertFacts ==
    ASSUME NEW n \in Nat, NEW at \in Nat, NEW old, NEW new, Fits(old, n, at), Fits(new, n, at),
           NEW observedReady \in BOOLEAN, NEW expected
    PROVE  LET row == upsert_synced_task(old, new, observedReady, expected)
               fresh == observedReady /\ new.pull > old.invalid
           IN  /\ Fits(row, n, at)
               /\ \/ row.lease = old.lease /\ row.owner = old.owner /\ row.status = old.status
                  \/ old.lease = NoLease /\ row.lease = new.lease
               /\ row.pull \in {0, new.pull}
               /\ old.invalid # 0 /\ ~fresh => row.pull = 0 /\ row.invalid = old.invalid
               /\ old.invalid # 0 /\ fresh => row.invalid = 0
               /\ old.invalid = 0 => row.invalid = new.invalid
  <1> DEFINE fresh == observedReady /\ new.pull > old.invalid
             pull1 == IF old.invalid # 0 /\ ~fresh THEN 0 ELSE new.pull
             invalid == IF old.invalid = 0 THEN new.invalid ELSE IF fresh THEN 0 ELSE old.invalid
             reopen == observedReady /\ pull1 > old.fence
             pull2 == IF old.fence # 0 /\ ~reopen THEN 0 ELSE pull1
             fence == IF old.fence = 0 THEN new.fence ELSE IF reopen THEN 0 ELSE old.fence
             preserve == \/ expected # <<old.status, old.blocked>>
                         \/ old.fence # 0 /\ ~reopen
                         \/ old.status \in {"claimed", "in_progress"}
                         \/ old.lease # NoLease
             base == IF preserve THEN old ELSE new
             row == [base EXCEPT !.pull = pull2, !.invalid = invalid, !.fence = fence]
  <1>1. upsert_synced_task(old, new, observedReady, expected) = row
    BY DEF upsert_synced_task
  <1>2. pull2 \in {0, new.pull} /\ (old.invalid # 0 /\ ~fresh => pull2 = 0)
    OBVIOUS
  <1>3. invalid \in {0, new.invalid, old.invalid} /\ fence \in {0, new.fence, old.fence}
    OBVIOUS
  <1>4. /\ pull2 \in Nat /\ invalid \in Nat /\ fence \in Nat
        /\ pull2 <= at /\ invalid <= at /\ fence <= at
    BY <1>2, <1>3 DEF Fits, Row
  <1>5. /\ old.invalid # 0 /\ ~fresh => invalid = old.invalid
        /\ old.invalid # 0 /\ fresh => invalid = 0
        /\ old.invalid = 0 => invalid = new.invalid
    OBVIOUS
  <1>6. base = old \/ (base = new /\ old.lease = NoLease)
    OBVIOUS
  <1> HIDE DEF pull1, pull2, invalid, fence, base, fresh
  <1>7. Fits(base, n, at)
    BY <1>6
  <1>8. /\ row \in Row /\ row.pull = pull2 /\ row.invalid = invalid /\ row.fence = fence
        /\ row.lease = base.lease /\ row.owner = base.owner /\ row.status = base.status
    BY <1>4, <1>7 DEF Fits, Row
  <1> HIDE DEF row
  <1>9. Fits(row, n, at)
    BY <1>4, <1>7, <1>8 DEF Fits
  <1>10. \/ row.lease = old.lease /\ row.owner = old.owner /\ row.status = old.status
         \/ old.lease = NoLease /\ row.lease = new.lease
    BY <1>6, <1>8
  <1>11. /\ row.pull \in {0, new.pull}
         /\ old.invalid # 0 /\ ~fresh => row.pull = 0 /\ row.invalid = old.invalid
         /\ old.invalid # 0 /\ fresh => row.invalid = 0
         /\ old.invalid = 0 => row.invalid = new.invalid
    BY <1>2, <1>5, <1>8
  <1> QED
    BY <1>1, <1>9, <1>10, <1>11 DEF fresh
-----------------------------------------------------------------------------
(* The type invariant: each variable's domain, and that stored times and lease
   ids do not run ahead of the clock and of the leases granted *)

Rows == UNION {[S -> Row] : S \in SUBSET Task}
PullRecord == [at : Nat, ready : SUBSET Task, rows : Rows]
Held == [task : Task, token : Nat, until : Nat]

ClockType == now \in 1 .. MaxTime /\ faults \in 0 .. MaxFaults

LeaseType ==
    /\ leases \in Seq(Lease) /\ Len(leases) <= MaxLeases
    /\ \A l \in 1 .. Len(leases) : leases[l].expires <= now + Ttl

RowType == tasks \in [Task -> Row] /\ \A t \in Task : Fits(tasks[t], Len(leases), now)

SweepType == observed \subseteq Task \X (1 .. MaxLeases) /\ ended \in [Task -> 0 .. now]

CommandType ==
    /\ command \in [Agent -> Command \cup {NoCommand}]
    /\ \A a \in Agent : command[a] # NoCommand =>
          /\ Fits(command[a].row, Len(leases), now)
          /\ command[a].at <= now
          /\ command[a].step = "lease" => command[a].row.lease # NoLease

PullType ==
    /\ pull \in [Puller -> PullRecord \cup {NoPull}]
    /\ \A p \in Puller : pull[p] # NoPull =>
          /\ pull[p].at \in 1 .. now
          /\ \A t \in DOMAIN pull[p].rows : Fits(pull[p].rows[t], Len(leases), now)

GuardType ==
    /\ dbGuard \in [Task -> Guard \cup {NoGuard}] /\ fileGuard \in [Task -> Guard \cup {NoGuard}]
    /\ \A t \in Task : /\ dbGuard[t] # NoGuard => dbGuard[t].until <= now + GuardTtl
                       /\ fileGuard[t] # NoGuard => fileGuard[t].until <= now + GuardTtl
    /\ held \in [Agent -> Held \cup {NoGuard}]
    /\ guards \in 0 .. MaxGuards

TypeInv ==
    ClockType /\ LeaseType /\ RowType /\ SweepType /\ CommandType /\ PullType /\ GuardType

LEMMA RowsFacts ==
    ASSUME NEW f \in Rows
    PROVE  DOMAIN f \subseteq Task /\ \A t \in DOMAIN f : f[t] \in Row
  BY DEF Rows

LEMMA RestrictRows ==
    ASSUME NEW f, NEW S \in SUBSET Task, \A t \in S : f[t] \in Row
    PROVE  /\ Restrict(f, S) \in Rows /\ DOMAIN Restrict(f, S) = S
           /\ \A t \in S : Restrict(f, S)[t] = f[t]
  <1>1. Restrict(f, S) \in [S -> Row]
    BY DEF Restrict
  <1> QED
    BY <1>1 DEF Rows, Restrict

\* Time and the number of leases as numbers.
LEMMA Numbers ==
    ASSUME TypeInv
    PROVE  /\ now \in Nat /\ now >= 1 /\ Len(leases) \in Nat /\ Ttl \in Nat /\ GuardTtl \in Nat
           /\ \A t \in Task : /\ tasks[t] \in Row /\ tasks[t].lease \in Nat /\ tasks[t].lease <= Len(leases)
                              /\ tasks[t].lease # NoLease => tasks[t].lease \in 1 .. Len(leases)
           /\ \A l \in 1 .. Len(leases) : leases[l] \in Lease
  <1>1. now \in Nat /\ now >= 1 /\ Ttl \in Nat /\ GuardTtl \in Nat
    BY TtlAssumption, BoundsAssumption DEF TypeInv, ClockType
  <1>2. Len(leases) \in Nat /\ \A l \in 1 .. Len(leases) : leases[l] \in Lease
    BY LenProperties, ElementOfSeq DEF TypeInv, LeaseType
  <1>3. \A t \in Task : tasks[t] \in Row /\ tasks[t].lease \in Nat /\ tasks[t].lease <= Len(leases)
    BY DEF TypeInv, RowType, Fits, Row
  <1> QED
    BY <1>1, <1>2, <1>3 DEF NoLease

\* What is stored stays in bounds when the clock and the leases only grow.
LEMMA Frame ==
    ASSUME TypeInv, Len(leases') \in Nat, Len(leases') >= Len(leases), now' \in Nat, now' >= now
    PROVE  /\ UNCHANGED tasks => RowType'
           /\ \A t \in Task : \A r : tasks' = [tasks EXCEPT ![t] = r] /\ Fits(r, Len(leases'), now') => RowType'
           /\ UNCHANGED command => CommandType'
           /\ UNCHANGED pull => PullType'
           /\ UNCHANGED guardVars => GuardType'
           /\ UNCHANGED <<observed, ended>> => SweepType'
  <1> USE Numbers
  <1>1. \A row : Fits(row, Len(leases), now) => Fits(row, Len(leases'), now')
    BY RowFacts
  <1>2. UNCHANGED tasks => RowType'
    BY <1>1 DEF TypeInv, RowType
  <1>3. \A t \in Task : \A r : tasks' = [tasks EXCEPT ![t] = r] /\ Fits(r, Len(leases'), now') => RowType'
    BY <1>1 DEF TypeInv, RowType, Fits
  <1>4. UNCHANGED command => CommandType'
    <2>1. \A a \in Agent : command[a] # NoCommand => command[a].at \in Nat
      BY DEF TypeInv, CommandType, Command
    <2> QED
      BY <1>1, <2>1 DEF TypeInv, CommandType
  <1>5. UNCHANGED pull => PullType'
    BY <1>1 DEF TypeInv, PullType
  <1>6. UNCHANGED guardVars => GuardType'
    <2>1. \A g \in Guard : g.until \in Nat
      BY DEF Guard
    <2> QED
      BY <2>1 DEF guardVars, TypeInv, GuardType
  <1>7. UNCHANGED <<observed, ended>> => SweepType'
    BY DEF TypeInv, SweepType
  <1> QED
    BY <1>2, <1>3, <1>4, <1>5, <1>6, <1>7

\* Releasing a lease changes nothing else of it.
LEMMA ReleaseFacts ==
    ASSUME TypeInv, NEW l \in 1 .. Len(leases)
    PROVE  LET new == ReleaseLease(l)
           IN  /\ new \in Seq(Lease) /\ Len(new) = Len(leases)
               /\ \A m \in 1 .. Len(leases) :
                     /\ new[m].task = leases[m].task /\ new[m].holder = leases[m].holder
                     /\ new[m].expires = leases[m].expires
                     /\ new[m].released = (leases[m].released \/ m = l)
  <1> DEFINE e == [leases[l] EXCEPT !.released = TRUE]
             new == [leases EXCEPT ![l] = e]
  <1>1. leases \in Seq(Lease) /\ leases[l] \in Lease /\ \A m \in 1 .. Len(leases) : leases[m] \in Lease
    BY Numbers DEF TypeInv, LeaseType
  <1>2. /\ e \in Lease /\ e.released = TRUE /\ e.task = leases[l].task /\ e.holder = leases[l].holder
        /\ e.expires = leases[l].expires
    BY <1>1 DEF Lease
  <1>3. ReleaseLease(l) = new
    BY DEF ReleaseLease
  <1> HIDE DEF e
  <1>4. /\ new \in Seq(Lease) /\ Len(new) = Len(leases)
        /\ \A m \in 1 .. Len(leases) : new[m] = IF m = l THEN e ELSE leases[m]
    BY <1>1, <1>2, ExceptSeq
  <1> HIDE DEF new
  <1>5. \A m \in 1 .. Len(leases) : leases[m].released \in BOOLEAN
    BY <1>1 DEF Lease
  <1> QED
    BY <1>2, <1>3, <1>4, <1>5

LEMMA GrantFacts ==
    ASSUME TypeInv, NEW t \in Task, NEW a \in Agent
    PROVE  /\ Granted(t, a) \in Lease
           /\ Granted(t, a).task = t /\ Granted(t, a).holder = a
           /\ ~Granted(t, a).released /\ Granted(t, a).expires = now + Ttl
  BY Numbers DEF Granted, Lease
\* A step is typed when the parts it changes are.
LEMMA Assemble ==
    ASSUME TypeInv, ClockType', LeaseType', Len(leases') >= Len(leases), now' >= now,
           UNCHANGED tasks \/ RowType', UNCHANGED <<observed, ended>> \/ SweepType',
           UNCHANGED command \/ CommandType', UNCHANGED pull \/ PullType',
           UNCHANGED guardVars \/ GuardType'
    PROVE  TypeInv'
  <1>1. now' \in Nat
    BY BoundsAssumption DEF ClockType
  <1>2. leases' \in Seq(Lease)
    BY DEF LeaseType
  <1>3. Len(leases') \in Nat
    BY <1>2, LenProperties
  <1>4. RowType'
    BY <1>1, <1>3, Frame
  <1>5. SweepType'
    BY <1>1, <1>3, Frame
  <1>6. CommandType'
    BY <1>1, <1>3, Frame
  <1>7. PullType'
    BY <1>1, <1>3, Frame
  <1>8. GuardType'
    BY <1>1, <1>3, Frame
  <1> QED
    BY <1>4, <1>5, <1>6, <1>7, <1>8 DEF TypeInv

\* A step that leaves the clock and the leases alone.
LEMMA Still ==
    ASSUME TypeInv, UNCHANGED <<now, leases>>
    PROVE  /\ LeaseType' /\ Len(leases') >= Len(leases) /\ now' >= now
           /\ UNCHANGED faults => ClockType'
  <1>1. Len(leases) \in Nat /\ now \in Nat
    BY Numbers
  <1>2. LeaseType' /\ (UNCHANGED faults => ClockType')
    BY DEF TypeInv, LeaseType, ClockType
  <1> QED
    BY <1>1, <1>2
-----------------------------------------------------------------------------
(* Every step keeps the types *)

LEMMA InitTypeInv == Init => TypeInv
  <1> SUFFICES ASSUME Init PROVE TypeInv
    OBVIOUS
  <1>0. leases \in Seq(Lease) /\ Len(leases) = 0
    BY EmptySeq DEF Init
  <1>1. Fits(TaskRow("ready", FALSE, 1), 0, 1)
    <2>1. "ready" \in Status /\ 0 \in Nat /\ 1 \in Nat /\ 1 \in 0 .. 1 /\ FALSE \in BOOLEAN
      BY DEF Status
    <2> QED
      BY <2>1, TaskRowFits
  <1>2. ClockType /\ LeaseType
    BY <1>0, BoundsAssumption DEF Init, ClockType, LeaseType
  <1>3. RowType
    <2>1. TaskRow("ready", FALSE, 1) \in Row
      BY <1>1 DEF Fits
    <2> QED
      BY <1>0, <1>1, <2>1 DEF Init, RowType
  <1>4. SweepType /\ CommandType /\ PullType
    BY DEF Init, SweepType, CommandType, PullType
  <1>5. GuardType
    BY BoundsAssumption DEF Init, GuardType
  <1> QED
    BY <1>2, <1>3, <1>4, <1>5 DEF TypeInv

\* A step that writes one row, which fits.
LEMMA OneRowType ==
    ASSUME TypeInv, NEW t \in Task, NEW r, LeaseType', ClockType',
           Len(leases') >= Len(leases), now' >= now, Fits(r, Len(leases'), now'),
           tasks' = [tasks EXCEPT ![t] = r]
    PROVE  RowType'
  <1>1. now' \in Nat
    BY BoundsAssumption DEF ClockType
  <1>2. leases' \in Seq(Lease)
    BY DEF LeaseType
  <1>3. Len(leases') \in Nat
    BY <1>2, LenProperties
  <1> QED
    BY <1>1, <1>3, Frame

\* The leases after a release: the same in number and in expiry.
LEMMA ReleaseType ==
    ASSUME TypeInv, NEW l \in 1 .. Len(leases), leases' = ReleaseLease(l), UNCHANGED now
    PROVE  LeaseType' /\ Len(leases') = Len(leases) /\ Len(leases') >= Len(leases)
  <1>1. /\ leases' \in Seq(Lease) /\ Len(leases') = Len(leases)
        /\ \A m \in 1 .. Len(leases) : leases'[m].expires = leases[m].expires
    BY ReleaseFacts
  <1>2. Len(leases) \in Nat
    BY Numbers
  <1>3. Len(leases) <= MaxLeases /\ \A m \in 1 .. Len(leases) : leases[m].expires <= now + Ttl
    BY DEF TypeInv, LeaseType
  <1>4. LeaseType'
    BY <1>1, <1>3 DEF LeaseType
  <1> QED
    BY <1>1, <1>2, <1>4

\* The leases after a grant that follows ls: one more.
LEMMA GrantType ==
    ASSUME TypeInv, NEW a \in Agent, NEW t \in Task, NEW ls \in Seq(Lease), Len(ls) = Len(leases),
           \A m \in 1 .. Len(leases) : ls[m].expires = leases[m].expires,
           Len(leases) < MaxLeases, leases' = Append(ls, Granted(t, a)), UNCHANGED now
    PROVE  /\ LeaseType' /\ Len(leases') = Len(leases) + 1 /\ Len(leases') >= Len(leases)
           /\ Fits(Claimed(tasks[t], Len(leases) + 1, a), Len(leases'), now')
  <1>1. Len(leases) \in Nat /\ now \in Nat
    BY Numbers
  <1>2. /\ leases' \in Seq(Lease) /\ Len(leases') = Len(leases) + 1
        /\ \A m \in 1 .. Len(leases) : leases'[m] = ls[m]
        /\ leases'[Len(leases) + 1].expires = now + Ttl
    <2>1. Granted(t, a) \in Lease /\ Granted(t, a).expires = now + Ttl
      BY GrantFacts
    <2> QED
      BY <1>1, <2>1, AppendProperties
  <1>3. \A m \in 1 .. Len(leases) : leases'[m].expires <= now + Ttl
    BY <1>2 DEF TypeInv, LeaseType
  <1>4. \A m \in 1 .. Len(leases') : m \in 1 .. Len(leases) \/ m = Len(leases) + 1
    BY <1>1, <1>2
  <1>5. now + Ttl \in Nat
    BY <1>1, TtlAssumption
  <1>6. \A m \in 1 .. Len(leases') : leases'[m].expires <= now + Ttl
    BY <1>2, <1>3, <1>4, <1>5
  <1>7. Len(leases') <= MaxLeases /\ Len(leases') >= Len(leases)
    BY <1>1, <1>2, BoundsAssumption
  <1>8. LeaseType'
    BY <1>2, <1>6, <1>7 DEF LeaseType
  <1>9. Fits(tasks[t], Len(leases) + 1, now)
    <2>1. Fits(tasks[t], Len(leases), now)
      BY DEF TypeInv, RowType
    <2>2. Len(leases) + 1 \in Nat /\ Len(leases) + 1 >= Len(leases) /\ now >= now
      BY <1>1
    <2> QED
      BY <1>1, <2>1, <2>2, RowFacts
  <1>10. Len(leases) + 1 \in Nat /\ Len(leases) + 1 \in 0 .. Len(leases) + 1
    BY <1>1
  <1>11. Fits(Claimed(tasks[t], Len(leases) + 1, a), Len(leases) + 1, now)
    BY <1>1, <1>9, <1>10, RowFacts
  <1> QED
    BY <1>2, <1>7, <1>8, <1>11

LEMMA ClaimReadyType ==
    ASSUME TypeInv, NEW a \in Agent, NEW t \in Task, ClaimReady(a, t)
    PROVE  TypeInv'
  <1>0. /\ UNCHANGED <<now, observed, command, pull, guardVars, ended, faults>>
        /\ Len(leases) < MaxLeases /\ leases' = Append(leases, Granted(t, a))
        /\ tasks' = [tasks EXCEPT ![t] = Claimed(tasks[t], Len(leases) + 1, a)]
    BY DEF ClaimReady
  <1>1. leases \in Seq(Lease)
    BY DEF TypeInv, LeaseType
  <1>2. /\ LeaseType' /\ Len(leases') = Len(leases) + 1 /\ Len(leases') >= Len(leases)
        /\ Fits(Claimed(tasks[t], Len(leases) + 1, a), Len(leases'), now')
    BY <1>0, <1>1, GrantType
  <1>3. ClockType' /\ now' >= now
    BY <1>0, Numbers DEF TypeInv, ClockType
  <1>4. RowType'
    BY <1>0, <1>2, <1>3, OneRowType
  <1> QED
    BY <1>0, <1>2, <1>3, <1>4, Assemble

LEMMA ClaimStaleType ==
    ASSUME TypeInv, NEW a \in Agent, NEW t \in Task, ClaimStale(a, t)
    PROVE  TypeInv'
  <1> DEFINE old == tasks[t].lease
             ls == ReleaseLease(old)
  <1>0. /\ UNCHANGED <<now, observed, command, pull, guardVars, ended, faults>>
        /\ Len(leases) < MaxLeases /\ leases' = Append(ls, Granted(t, a)) /\ old # NoLease
        /\ tasks' = [tasks EXCEPT ![t] = Claimed(tasks[t], Len(leases) + 1, a)]
    BY DEF ClaimStale
  <1>1. old \in 1 .. Len(leases)
    BY <1>0, Numbers
  <1>2. /\ ls \in Seq(Lease) /\ Len(ls) = Len(leases)
        /\ \A m \in 1 .. Len(leases) : ls[m].expires = leases[m].expires
    BY <1>1, ReleaseFacts
  <1> HIDE DEF ls
  <1>3. /\ LeaseType' /\ Len(leases') = Len(leases) + 1 /\ Len(leases') >= Len(leases)
        /\ Fits(Claimed(tasks[t], Len(leases) + 1, a), Len(leases'), now')
    BY <1>0, <1>2, GrantType
  <1>4. ClockType' /\ now' >= now
    BY <1>0, Numbers DEF TypeInv, ClockType
  <1>5. RowType'
    BY <1>0, <1>3, <1>4, OneRowType
  <1> QED
    BY <1>0, <1>3, <1>4, <1>5, Assemble

LEMMA HeartbeatFacts ==
    ASSUME TypeInv, NEW a \in Agent, NEW t \in Task, Heartbeat(a, t)
    PROVE  LET l == tasks[t].lease
           IN  /\ l \in 1 .. Len(leases) /\ leases' \in Seq(Lease) /\ Len(leases') = Len(leases)
               /\ \A m \in 1 .. Len(leases) :
                     /\ leases'[m].task = leases[m].task /\ leases'[m].holder = leases[m].holder
                     /\ leases'[m].released = leases[m].released
                     /\ leases'[m].expires = IF m = l THEN now + Ttl ELSE leases[m].expires
  <1> DEFINE l == tasks[t].lease
             e == [leases[l] EXCEPT !.expires = now + Ttl]
  <1>0. now + Ttl \in Nat /\ l # NoLease /\ leases' = [leases EXCEPT ![l] = e]
    BY Numbers DEF Heartbeat
  <1>1. l \in 1 .. Len(leases) /\ leases[l] \in Lease /\ leases \in Seq(Lease)
    BY <1>0, Numbers DEF TypeInv, LeaseType
  <1>2. /\ e \in Lease /\ e.expires = now + Ttl /\ e.task = leases[l].task
        /\ e.holder = leases[l].holder /\ e.released = leases[l].released
    BY <1>0, <1>1 DEF Lease
  <1> HIDE DEF l, e
  <1>4. /\ leases' \in Seq(Lease) /\ Len(leases') = Len(leases)
        /\ \A m \in 1 .. Len(leases) : leases'[m] = IF m = l THEN e ELSE leases[m]
    BY <1>0, <1>1, <1>2, ExceptSeq
  <1>5. \A m \in 1 .. Len(leases) :
            /\ leases'[m].task = leases[m].task /\ leases'[m].holder = leases[m].holder
            /\ leases'[m].released = leases[m].released
            /\ leases'[m].expires = IF m = l THEN now + Ttl ELSE leases[m].expires
    BY <1>2, <1>4
  <1> QED
    BY <1>1, <1>4, <1>5 DEF l

LEMMA HeartbeatType ==
    ASSUME TypeInv, NEW a \in Agent, NEW t \in Task, Heartbeat(a, t)
    PROVE  TypeInv'
  <1>0. UNCHANGED <<now, tasks, observed, command, pull, guardVars, ended, faults>>
    BY DEF Heartbeat
  <1>1. /\ leases' \in Seq(Lease) /\ Len(leases') = Len(leases)
        /\ \A m \in 1 .. Len(leases) : leases'[m].expires \in {now + Ttl, leases[m].expires}
    BY HeartbeatFacts
  <1>2. now + Ttl \in Nat /\ Len(leases) \in Nat /\ now \in Nat
    BY Numbers
  <1>3. LeaseType'
    <2>1. \A m \in 1 .. Len(leases) : leases[m].expires <= now + Ttl
      BY DEF TypeInv, LeaseType
    <2>2. \A m \in 1 .. Len(leases) : leases'[m].expires <= now + Ttl
      BY <1>1, <1>2, <2>1
    <2> QED
      BY <1>0, <1>1, <2>2 DEF TypeInv, LeaseType
  <1>4. ClockType' /\ now' >= now /\ Len(leases') >= Len(leases)
    BY <1>0, <1>1, <1>2 DEF TypeInv, ClockType
  <1> QED
    BY <1>0, <1>3, <1>4, Assemble

\* A step that releases a lease and writes its task's row.
LEMMA HandBackType ==
    ASSUME TypeInv, NEW t \in Task, NEW l \in 1 .. Len(leases), NEW r, Fits(r, Len(leases), now),
           leases' = ReleaseLease(l), tasks' = [tasks EXCEPT ![t] = r],
           UNCHANGED <<observed, ended>> \/ SweepType',
           UNCHANGED <<now, command, pull, guardVars, faults>>
    PROVE  TypeInv'
  <1>1. LeaseType' /\ Len(leases') = Len(leases) /\ Len(leases') >= Len(leases)
    BY ReleaseType
  <1>2. ClockType' /\ now' >= now
    BY Numbers DEF TypeInv, ClockType
  <1>3. Fits(r, Len(leases'), now')
    BY <1>1
  <1>4. RowType'
    BY <1>1, <1>2, <1>3, OneRowType
  <1> QED
    BY <1>1, <1>2, <1>4, Assemble

LEMMA CompleteType ==
    ASSUME TypeInv, NEW a \in Agent, NEW t \in Task, Complete(a, t) \/ ReviewHandoff(a, t)
    PROVE  TypeInv'
  <1>1. /\ tasks[t].lease # NoLease /\ leases' = ReleaseLease(tasks[t].lease)
        /\ UNCHANGED <<now, observed, command, pull, guardVars, ended, faults>>
    BY DEF Complete, ReviewHandoff
  <1>2. tasks[t].lease \in 1 .. Len(leases)
    BY <1>1, Numbers
  <1>3. PICK r \in {Completed(tasks[t]), InReview(tasks[t])} : tasks' = [tasks EXCEPT ![t] = r]
    BY DEF Complete, ReviewHandoff
  <1>4. Fits(r, Len(leases), now)
    <2>1. Fits(tasks[t], Len(leases), now) /\ Len(leases) \in Nat /\ now \in Nat
      BY Numbers DEF TypeInv, RowType
    <2> QED
      BY <1>3, <2>1, RowFacts
  <1> QED
    BY <1>1, <1>2, <1>3, <1>4, HandBackType

LEMMA ReviewUnclaimedType ==
    ASSUME TypeInv, NEW t \in Task, ReviewUnclaimed(t)
    PROVE  TypeInv'
  <1>0. /\ UNCHANGED <<now, leases, observed, command, pull, guardVars, ended, faults>>
        /\ tasks' = [tasks EXCEPT ![t] = InReview(tasks[t])]
    BY DEF ReviewUnclaimed
  <1>1. Fits(InReview(tasks[t]), Len(leases), now)
    <2>1. Fits(tasks[t], Len(leases), now) /\ Len(leases) \in Nat /\ now \in Nat
      BY Numbers DEF TypeInv, RowType
    <2> QED
      BY <2>1, RowFacts
  <1>2. LeaseType' /\ Len(leases') >= Len(leases) /\ now' >= now /\ ClockType'
    BY <1>0, Still
  <1>3. Fits(InReview(tasks[t]), Len(leases'), now')
    BY <1>0, <1>1
  <1>4. RowType'
    BY <1>0, <1>2, <1>3, OneRowType
  <1> QED
    BY <1>0, <1>2, <1>4, Assemble

LEMMA ObserveExpiredType ==
    ASSUME TypeInv, ObserveExpired
    PROVE  TypeInv'
  <1>0. UNCHANGED <<now, tasks, leases, command, pull, guardVars, ended, faults>>
    BY DEF ObserveExpired
  <1>1. \A t \in Task : tasks[t].lease # NoLease => tasks[t].lease \in 1 .. MaxLeases
    <2>1. Len(leases) \in Nat /\ Len(leases) <= MaxLeases
      BY Numbers DEF TypeInv, LeaseType
    <2>2. \A t \in Task : tasks[t].lease # NoLease => tasks[t].lease \in 1 .. Len(leases)
      BY Numbers
    <2> QED
      BY <2>1, <2>2, BoundsAssumption
  <1>2. observed' \subseteq Task \X (1 .. MaxLeases)
    BY <1>1 DEF ObserveExpired, TypeInv, SweepType
  <1>3. SweepType'
    BY <1>0, <1>2 DEF TypeInv, SweepType
  <1>4. LeaseType' /\ Len(leases') >= Len(leases) /\ now' >= now /\ ClockType'
    BY <1>0, Still
  <1> QED
    BY <1>0, <1>3, <1>4, Assemble

LEMMA ReclaimOneType ==
    ASSUME TypeInv, NEW t \in Task, NEW l \in 1 .. MaxLeases, ReclaimOne(t, l)
    PROVE  TypeInv'
  <1>0. UNCHANGED <<now, command, pull, guardVars, faults>> /\ observed' \subseteq observed
    BY DEF ReclaimOne
  <1>1. CASE tasks[t].lease = l /\ ~leases[l].released /\ leases[l].expires < now
    <2>0. /\ leases' = ReleaseLease(l) /\ tasks' = [tasks EXCEPT ![t] = Reclaimed(tasks[t], now)]
          /\ ended' = [ended EXCEPT ![t] = now]
      BY <1>1 DEF ReclaimOne
    <2>1. l \in 1 .. Len(leases)
      BY <1>1, Numbers, BoundsAssumption DEF NoLease
    <2>2. Fits(Reclaimed(tasks[t], now), Len(leases), now)
      <3>1. Fits(tasks[t], Len(leases), now) /\ Len(leases) \in Nat /\ now \in Nat
        BY Numbers DEF TypeInv, RowType
      <3>2. now \in 0 .. now
        BY <3>1
      <3> QED
        BY <3>1, <3>2, RowFacts
    <2>3. SweepType'
      <3>1. now \in 0 .. now
        BY Numbers
      <3> QED
        BY <1>0, <2>0, <3>1 DEF TypeInv, SweepType
    <2> QED
      BY <1>0, <2>0, <2>1, <2>2, <2>3, HandBackType
  <1>2. CASE ~(tasks[t].lease = l /\ ~leases[l].released /\ leases[l].expires < now)
    <2>1. UNCHANGED <<leases, tasks, ended>>
      BY <1>2 DEF ReclaimOne
    <2>2. SweepType'
      BY <1>0, <2>1 DEF TypeInv, SweepType
    <2>3. LeaseType' /\ Len(leases') >= Len(leases) /\ now' >= now /\ ClockType'
      BY <1>0, <2>1, Still
    <2> QED
      BY <1>0, <2>1, <2>2, <2>3, Assemble
  <1> QED
    BY <1>1, <1>2

LEMMA ReclaimErrorType ==
    ASSUME TypeInv, NEW t \in Task, NEW l \in 1 .. MaxLeases, ReclaimError(t, l)
    PROVE  TypeInv'
  <1>0. UNCHANGED <<now, tasks, leases, command, pull, guardVars, ended>> /\ observed' \subseteq observed
    BY DEF ReclaimError
  <1>1. SweepType'
    BY <1>0 DEF TypeInv, SweepType
  <1>2. ClockType'
    BY <1>0, BoundsAssumption DEF ReclaimError, Fault, TypeInv, ClockType
  <1>3. LeaseType' /\ Len(leases') >= Len(leases) /\ now' >= now
    BY <1>0, Still
  <1> QED
    BY <1>0, <1>1, <1>2, <1>3, Assemble

LEMMA RowReadType ==
    ASSUME TypeInv, NEW a \in Agent, NEW t \in Task, RowRead(a, t)
    PROVE  TypeInv'
  <1>0. UNCHANGED <<now, tasks, leases, observed, pull, guardVars, ended, faults>>
    BY DEF RowRead
  <1>1. PICK op \in RowCommands, to \in Status :
           /\ MayStart(op, a, tasks[t], to)
           /\ command' = [command EXCEPT ![a] =
                 [op |-> op, step |-> IF op = "release" THEN "lease" ELSE "row",
                  task |-> t, row |-> tasks[t], to |-> to, at |-> now]]
    <2>1. tasks[t].status \in Status
      BY DEF TypeInv, RowType, Row
    <2> QED
      BY <2>1, RowCommandsAssumption DEF RowRead
  <1> DEFINE c == [op |-> op, step |-> IF op = "release" THEN "lease" ELSE "row",
                   task |-> t, row |-> tasks[t], to |-> to, at |-> now]
  <1>2. /\ c \in Command /\ c.row = tasks[t] /\ c.at = now
        /\ c.step = "lease" => tasks[t].lease # NoLease
    BY <1>1, Numbers DEF Command, MayStart
  <1>3. Fits(tasks[t], Len(leases), now) /\ now <= now
    BY Numbers DEF TypeInv, RowType
  <1>4. command' = [command EXCEPT ![a] = c]
    BY <1>1
  <1> HIDE DEF c
  <1>5. CommandType'
    BY <1>0, <1>2, <1>3, <1>4 DEF TypeInv, CommandType
  <1>6. LeaseType' /\ Len(leases') >= Len(leases) /\ now' >= now /\ ClockType'
    BY <1>0, Still
  <1> QED
    BY <1>0, <1>5, <1>6, Assemble

LEMMA ReleaseUpsertLeaseType ==
    ASSUME TypeInv, NEW a \in Agent, ReleaseUpsertLease(a)
    PROVE  TypeInv'
  <1> DEFINE l == command[a].row.lease
             c == [command[a] EXCEPT !.step = "row", !.at = now]
  <1>0. /\ UNCHANGED <<now, tasks, observed, pull, guardVars, ended, faults>>
        /\ leases' = ReleaseLease(l) /\ command[a] # NoCommand /\ command[a].step = "lease"
        /\ command' = [command EXCEPT ![a] = c]
    BY DEF ReleaseUpsertLease
  <1>1. /\ command[a] \in Command /\ Fits(command[a].row, Len(leases), now) /\ l # NoLease
        /\ command \in [Agent -> Command \cup {NoCommand}]
    BY <1>0 DEF TypeInv, CommandType
  <1>2. now \in Nat /\ Len(leases) \in Nat
    BY Numbers
  <1>3. l \in 1 .. Len(leases)
    BY <1>1, <1>2 DEF Fits, Row, NoLease
  <1>4. c \in Command /\ c.row = command[a].row /\ c.at = now /\ c.step = "row"
    BY <1>1, <1>2 DEF Command
  <1>5. LeaseType' /\ Len(leases') = Len(leases) /\ Len(leases') >= Len(leases)
    BY <1>0, <1>3, ReleaseType
  <1> HIDE DEF c, l
  <1>6. CommandType'
    <2>1. ASSUME NEW b \in Agent, command'[b] # NoCommand
          PROVE  /\ Fits(command'[b].row, Len(leases), now) /\ command'[b].at <= now
                 /\ command'[b].step = "lease" => command'[b].row.lease # NoLease
      <3>1. CASE b = a
        BY <1>0, <1>1, <1>2, <1>4, <3>1
      <3>2. CASE b # a
        BY <1>0, <1>1, <2>1, <3>2 DEF TypeInv, CommandType
      <3> QED
        BY <3>1, <3>2
    <2>2. command' \in [Agent -> Command \cup {NoCommand}]
      BY <1>0, <1>1, <1>4
    <2> QED
      BY <1>0, <1>5, <2>1, <2>2 DEF CommandType
  <1>7. ClockType' /\ now' >= now
    BY <1>0, <1>2 DEF TypeInv, ClockType
  <1> QED
    BY <1>0, <1>5, <1>6, <1>7, Assemble

\* What a command writes fits: it is made of a row that fits.
LEMMA WrittenFits ==
    ASSUME TypeInv, NEW a \in Agent, command[a] # NoCommand
    PROVE  /\ command[a] \in Command /\ command[a].task \in Task /\ command[a].at \in 0 .. now
           /\ Fits(Written(command[a]), Len(leases), now)
  <1> DEFINE c == command[a]
  <1>1. c \in Command /\ Fits(c.row, Len(leases), now) /\ c.at <= now
    BY DEF TypeInv, CommandType
  <1>2. now \in Nat /\ Len(leases) \in Nat
    BY Numbers
  <1>3. c.task \in Task /\ c.at \in 0 .. now /\ c.to \in Status /\ c.op \in RowCommands
    BY <1>1, <1>2 DEF Command
  <1>4. Written(c) \in {Released(c.row, c.at), Blocked(c.row), Unblocked(c.row), c.row,
                        Moved(c.row, c.to)}
    BY DEF Written
  <1> HIDE DEF c
  <1>5. Fits(Written(c), Len(leases), now)
    BY <1>1, <1>2, <1>3, <1>4, RowFacts
  <1> QED
    BY <1>1, <1>3, <1>5 DEF c

LEMMA UpsertTaskType ==
    ASSUME TypeInv, NEW a \in Agent, UpsertTask(a)
    PROVE  TypeInv'
  <1> DEFINE t == command[a].task
             r == Written(command[a])
  <1>0. /\ UNCHANGED <<now, leases, observed, pull, guardVars, faults>>
        /\ command[a] # NoCommand /\ tasks' = [tasks EXCEPT ![t] = r]
        /\ command' = [command EXCEPT ![a] = NoCommand]
        /\ ended' \in {ended, [ended EXCEPT ![t] = command[a].at]}
    BY DEF UpsertTask
  <1>1. t \in Task /\ command[a].at \in 0 .. now /\ Fits(r, Len(leases), now)
    BY <1>0, WrittenFits
  <1> HIDE DEF t, r
  <1>2. SweepType'
    BY <1>0, <1>1 DEF TypeInv, SweepType
  <1>3. CommandType'
    BY <1>0 DEF TypeInv, CommandType
  <1>4. LeaseType' /\ Len(leases') >= Len(leases) /\ now' >= now /\ ClockType'
    BY <1>0, Still
  <1>5. Fits(r, Len(leases'), now')
    BY <1>0, <1>1
  <1>6. RowType'
    BY <1>0, <1>1, <1>4, <1>5, OneRowType
  <1> QED
    BY <1>0, <1>2, <1>3, <1>4, <1>6, Assemble

LEMMA InterruptedType ==
    ASSUME TypeInv, NEW a \in Agent, Interrupted(a)
    PROVE  TypeInv'
  <1>0. /\ UNCHANGED <<now, tasks, leases, observed, pull, guardVars, ended, faults>>
        /\ command' = [command EXCEPT ![a] = NoCommand]
    BY DEF Interrupted
  <1>1. CommandType'
    BY <1>0 DEF TypeInv, CommandType
  <1>2. LeaseType' /\ Len(leases') >= Len(leases) /\ now' >= now /\ ClockType'
    BY <1>0, Still
  <1> QED
    BY <1>0, <1>1, <1>2, Assemble

\* The pull p is in the middle of, and what a step makes of it.
LEMMA PullFacts ==
    ASSUME TypeInv, NEW p \in Puller, pull[p] # NoPull
    PROVE  /\ pull[p] \in PullRecord /\ pull[p].at \in 1 .. now /\ pull[p].at \in 0 .. now
           /\ pull[p].at # 0
           /\ DOMAIN pull[p].rows \subseteq Task
           /\ \A t \in DOMAIN pull[p].rows : Fits(pull[p].rows[t], Len(leases), now)
  <1>1. /\ pull[p] \in PullRecord /\ pull[p].at \in 1 .. now
        /\ \A t \in DOMAIN pull[p].rows : Fits(pull[p].rows[t], Len(leases), now)
    BY DEF TypeInv, PullType
  <1>2. pull[p].rows \in Rows
    BY <1>1 DEF PullRecord
  <1>3. DOMAIN pull[p].rows \subseteq Task
    BY <1>2, RowsFacts
  <1>4. pull[p].at \in 0 .. now /\ pull[p].at # 0
    BY <1>1, Numbers
  <1> QED
    BY <1>1, <1>3, <1>4

LEMMA OnePullType ==
    ASSUME TypeInv, NEW p \in Puller, NEW r, pull' = [pull EXCEPT ![p] = r],
           r = NoPull \/ (/\ r \in PullRecord /\ r.at \in 1 .. now
                          /\ \A t \in DOMAIN r.rows : Fits(r.rows[t], Len(leases), now)),
           UNCHANGED <<now, leases>>
    PROVE  PullType'
  <1>1. pull' \in [Puller -> PullRecord \cup {NoPull}]
    BY DEF TypeInv, PullType
  <1>2. ASSUME NEW q \in Puller, pull'[q] # NoPull
        PROVE  /\ pull'[q].at \in 1 .. now
               /\ \A t \in DOMAIN pull'[q].rows : Fits(pull'[q].rows[t], Len(leases), now)
    <2>1. CASE q = p
      <3>1. pull'[q] = r
        BY <2>1 DEF TypeInv, PullType
      <3> QED
        BY <1>2, <3>1
    <2>2. CASE q # p
      <3>1. pull'[q] = pull[q]
        BY <2>2 DEF TypeInv, PullType
      <3> QED
        BY <1>2, <3>1 DEF TypeInv, PullType
    <2> QED
      BY <2>1, <2>2
  <1> QED
    BY <1>1, <1>2 DEF PullType

LEMMA PullStartType ==
    ASSUME TypeInv, NEW p \in Puller, PullStart(p)
    PROVE  TypeInv'
  <1> DEFINE r == [at |-> now, ready |-> {}, rows |-> Restrict(tasks, {})]
  <1>0. /\ UNCHANGED <<now, tasks, leases, observed, command, guardVars, ended, faults>>
        /\ pull' = [pull EXCEPT ![p] = r]
    BY DEF PullStart
  <1>1. Restrict(tasks, {}) \in Rows /\ DOMAIN Restrict(tasks, {}) = {}
    BY RestrictRows
  <1>2. r \in PullRecord /\ r.at = now /\ DOMAIN r.rows = {}
    BY <1>1, Numbers DEF PullRecord
  <1>3. now \in 1 .. now
    BY Numbers
  <1> HIDE DEF r
  <1>4. PullType'
    BY <1>0, <1>2, <1>3, OnePullType
  <1>5. LeaseType' /\ Len(leases') >= Len(leases) /\ now' >= now /\ ClockType'
    BY <1>0, Still
  <1> QED
    BY <1>0, <1>4, <1>5, Assemble

LEMMA PullEndType ==
    ASSUME TypeInv, NEW p \in Puller, PullEnd(p)
    PROVE  TypeInv'
  <1>0. /\ UNCHANGED <<now, tasks, leases, observed, command, guardVars, ended, faults>>
        /\ pull' = [pull EXCEPT ![p] = NoPull]
    BY DEF PullEnd
  <1>1. PullType'
    BY <1>0, OnePullType
  <1>2. LeaseType' /\ Len(leases') >= Len(leases) /\ now' >= now /\ ClockType'
    BY <1>0, Still
  <1> QED
    BY <1>0, <1>1, <1>2, Assemble

\* A pull writes an issue's row: what upsert_synced_task returns fits.
LEMMA SnapshotFits ==
    ASSUME TypeInv, NEW t \in Task, NEW new, Fits(new, Len(leases), now),
           NEW seen \in BOOLEAN, NEW expected
    PROVE  Fits(upsert_synced_task(tasks[t], new, seen, expected), Len(leases), now)
  <1>1. Fits(tasks[t], Len(leases), now) /\ Len(leases) \in Nat /\ now \in Nat
    BY Numbers DEF TypeInv, RowType
  <1> QED
    BY <1>1, UpsertFacts

LEMMA PullReadyType ==
    ASSUME TypeInv, NEW p \in Puller, NEW t \in Task, PullReady(p, t)
    PROVE  TypeInv'
  <1> DEFINE new == TaskRow("ready", FALSE, pull[p].at)
             r == upsert_synced_task(tasks[t], new, TRUE, StateOf(tasks[t]))
             q == [pull[p] EXCEPT !.ready = @ \cup {t}]
  <1>0. /\ UNCHANGED <<now, leases, observed, command, guardVars, ended, faults>>
        /\ pull[p] # NoPull /\ tasks' = [tasks EXCEPT ![t] = r] /\ pull' = [pull EXCEPT ![p] = q]
    BY DEF PullReady
  <1>1. /\ pull[p] \in PullRecord /\ pull[p].at \in 1 .. now /\ pull[p].at \in 0 .. now
        /\ \A u \in DOMAIN pull[p].rows : Fits(pull[p].rows[u], Len(leases), now)
    BY <1>0, PullFacts
  <1>2. Fits(new, Len(leases), now)
    <2>1. "ready" \in Status /\ FALSE \in BOOLEAN
      BY DEF Status
    <2> QED
      BY <1>1, <2>1, Numbers, TaskRowFits
  <1> HIDE DEF new
  <1>3. Fits(r, Len(leases), now)
    BY <1>2, SnapshotFits
  <1>4. q \in PullRecord /\ q.at = pull[p].at /\ q.rows = pull[p].rows
    BY <1>1 DEF PullRecord
  <1> HIDE DEF r, q
  <1>5. PullType'
    BY <1>0, <1>1, <1>4, OnePullType
  <1>6. LeaseType' /\ Len(leases') >= Len(leases) /\ now' >= now /\ ClockType'
    BY <1>0, Still
  <1>7. Fits(r, Len(leases'), now')
    BY <1>0, <1>3
  <1>8. RowType'
    BY <1>0, <1>6, <1>7, OneRowType
  <1> QED
    BY <1>0, <1>5, <1>6, <1>8, Assemble

LEMMA PullBlockerType ==
    ASSUME TypeInv, NEW p \in Puller, NEW t \in Task, PullBlocker(p, t)
    PROVE  TypeInv'
  <1> DEFINE new == TaskRow("blocked", FALSE, pull[p].at)
             r == upsert_synced_task(tasks[t], new, FALSE, StateOf(tasks[t]))
  <1>0. /\ UNCHANGED <<now, leases, observed, command, pull, guardVars, ended, faults>>
        /\ pull[p] # NoPull /\ tasks' = [tasks EXCEPT ![t] = r]
    BY DEF PullBlocker
  <1>1. pull[p].at \in 0 .. now
    BY <1>0, PullFacts
  <1>2. Fits(new, Len(leases), now)
    <2>1. "blocked" \in Status /\ FALSE \in BOOLEAN
      BY DEF Status
    <2> QED
      BY <1>1, <2>1, Numbers, TaskRowFits
  <1> HIDE DEF new
  <1>3. Fits(r, Len(leases), now)
    BY <1>2, SnapshotFits
  <1> HIDE DEF r
  <1>4. LeaseType' /\ Len(leases') >= Len(leases) /\ now' >= now /\ ClockType'
    BY <1>0, Still
  <1>5. Fits(r, Len(leases'), now')
    BY <1>0, <1>3
  <1>6. RowType'
    BY <1>0, <1>4, <1>5, OneRowType
  <1> QED
    BY <1>0, <1>4, <1>6, Assemble

LEMMA ReconcileReadType ==
    ASSUME TypeInv, NEW p \in Puller, ReconcileRead(p)
    PROVE  TypeInv'
  <1> DEFINE listed == {t \in Task : tasks[t].status \in {"ready", "blocked"}}
             q == [pull[p] EXCEPT !.rows = Restrict(tasks, listed)]
  <1>0. /\ UNCHANGED <<now, tasks, leases, observed, command, guardVars, ended, faults>>
        /\ pull[p] # NoPull /\ pull' = [pull EXCEPT ![p] = q]
    BY DEF ReconcileRead
  <1>1. pull[p] \in PullRecord /\ pull[p].at \in 1 .. now
    BY <1>0, PullFacts
  <1>2. /\ Restrict(tasks, listed) \in Rows /\ DOMAIN Restrict(tasks, listed) = listed
        /\ \A t \in listed : Restrict(tasks, listed)[t] = tasks[t]
    <2>1. \A t \in listed : tasks[t] \in Row
      BY Numbers
    <2>2. listed \in SUBSET Task
      OBVIOUS
    <2> HIDE DEF listed
    <2> QED
      BY <2>1, <2>2, RestrictRows
  <1>3. q \in PullRecord /\ q.at = pull[p].at /\ q.rows = Restrict(tasks, listed)
    BY <1>1, <1>2 DEF PullRecord
  <1>4. \A t \in listed : Fits(tasks[t], Len(leases), now)
    BY DEF TypeInv, RowType
  <1> HIDE DEF q, listed
  <1>5. PullType'
    BY <1>0, <1>1, <1>2, <1>3, <1>4, OnePullType
  <1>6. LeaseType' /\ Len(leases') >= Len(leases) /\ now' >= now /\ ClockType'
    BY <1>0, Still
  <1> QED
    BY <1>0, <1>5, <1>6, Assemble

\* What a reconciliation makes of a row it listed.
LEMMA ReconciledFacts ==
    ASSUME TypeInv, NEW p \in Puller, pull[p] # NoPull, NEW t \in DOMAIN pull[p].rows,
           NEW row \in Reconciled(p, t)
    PROVE  /\ Fits(row, Len(leases), now)
           /\ row.lease = pull[p].rows[t].lease /\ row.pull = pull[p].rows[t].pull
           /\ row.invalid = pull[p].rows[t].invalid
  <1> DEFINE old == pull[p].rows[t]
  <1>1. Fits(old, Len(leases), now)
    BY PullFacts
  <1>2. row \in {[old EXCEPT !.status = "ready", !.blocked = FALSE],
                 [old EXCEPT !.status = "blocked", !.blocked = TRUE],
                 [old EXCEPT !.status = "blocked"],
                 [old EXCEPT !.status = "completed", !.blocked = FALSE]}
    BY DEF Reconciled
  <1> HIDE DEF old
  <1>3. old \in Row
    BY <1>1 DEF Fits
  <1>4. /\ row \in Row /\ row.lease = old.lease /\ row.pull = old.pull
        /\ row.invalid = old.invalid /\ row.fence = old.fence
    BY <1>2, <1>3 DEF Row, Status
  <1> QED
    BY <1>1, <1>4 DEF Fits, old

LEMMA ReconcileWriteType ==
    ASSUME TypeInv, NEW p \in Puller, NEW t \in Task, ReconcileWrite(p, t)
    PROVE  TypeInv'
  <1> DEFINE rest == DOMAIN pull[p].rows \ {t}
             q == [pull[p] EXCEPT !.rows = Restrict(@, rest)]
  <1>0. /\ UNCHANGED <<now, leases, observed, command, guardVars, ended, faults>>
        /\ pull[p] # NoPull /\ t \in DOMAIN pull[p].rows
        /\ pull' = [pull EXCEPT ![p] = IF rest = {} THEN NoPull ELSE q]
    <2>1. /\ UNCHANGED <<now, leases, observed, command, guardVars, ended, faults>>
          /\ pull[p] # NoPull /\ t \in DOMAIN pull[p].rows
      BY DEF ReconcileWrite
    <2>2. pull' = [pull EXCEPT ![p] = IF rest = {} THEN NoPull ELSE q]
      BY DEF ReconcileWrite
    <2> QED
      BY <2>1, <2>2
  <1>1. PICK row \in Reconciled(p, t) :
           tasks' = [tasks EXCEPT ![t] =
              IF t \in pull[p].ready /\ pull[p].rows[t].status = "ready" THEN tasks[t]
              ELSE upsert_synced_task(tasks[t], row, FALSE, StateOf(pull[p].rows[t]))]
    BY DEF ReconcileWrite
  <1> DEFINE r == IF t \in pull[p].ready /\ pull[p].rows[t].status = "ready" THEN tasks[t]
                  ELSE upsert_synced_task(tasks[t], row, FALSE, StateOf(pull[p].rows[t]))
  <1>2. Fits(r, Len(leases), now)
    <2>1. Fits(row, Len(leases), now)
      BY <1>0, ReconciledFacts
    <2>2. Fits(upsert_synced_task(tasks[t], row, FALSE, StateOf(pull[p].rows[t])), Len(leases), now)
      BY <2>1, SnapshotFits
    <2>3. Fits(tasks[t], Len(leases), now)
      BY DEF TypeInv, RowType
    <2> QED
      BY <2>2, <2>3
  <1>3. tasks' = [tasks EXCEPT ![t] = r]
    BY <1>1
  <1> HIDE DEF r
  <1>4. /\ pull[p] \in PullRecord /\ pull[p].at \in 1 .. now
        /\ DOMAIN pull[p].rows \subseteq Task
        /\ \A u \in DOMAIN pull[p].rows : Fits(pull[p].rows[u], Len(leases), now)
    BY <1>0, PullFacts
  <1>5. /\ Restrict(pull[p].rows, rest) \in Rows /\ DOMAIN Restrict(pull[p].rows, rest) = rest
        /\ \A u \in rest : Restrict(pull[p].rows, rest)[u] = pull[p].rows[u]
    <2>1. \A u \in rest : pull[p].rows[u] \in Row
      BY <1>4 DEF Fits
    <2>2. rest \in SUBSET Task
      BY <1>4
    <2> HIDE DEF rest
    <2> QED
      BY <2>1, <2>2, RestrictRows
  <1>6. q \in PullRecord /\ q.at = pull[p].at /\ q.rows = Restrict(pull[p].rows, rest)
    BY <1>4, <1>5 DEF PullRecord
  <1>7. \A u \in rest : Fits(pull[p].rows[u], Len(leases), now)
    BY <1>4
  <1> HIDE DEF q, rest
  <1>8. \A u \in DOMAIN q.rows : Fits(q.rows[u], Len(leases), now)
    BY <1>5, <1>6, <1>7
  <1>9. PullType'
    <2>1. CASE rest = {}
      BY <1>0, <2>1, OnePullType
    <2>2. CASE rest # {}
      BY <1>0, <1>4, <1>6, <1>8, <2>2, OnePullType
    <2> QED
      BY <2>1, <2>2
  <1>10. LeaseType' /\ Len(leases') >= Len(leases) /\ now' >= now /\ ClockType'
    BY <1>0, Still
  <1>11. Fits(r, Len(leases'), now')
    BY <1>0, <1>2
  <1>12. RowType'
    BY <1>0, <1>3, <1>10, <1>11, OneRowType
  <1>13. UNCHANGED <<observed, ended>> /\ UNCHANGED command /\ UNCHANGED guardVars
    BY <1>0
  <1> QED
    BY <1>9, <1>10, <1>12, <1>13, Assemble

\* The guards after a step that writes those of one task, and what an agent holds.
LEMMA OneGuardType ==
    ASSUME TypeInv, UNCHANGED now, NEW t \in Task, NEW a \in Agent, NEW g, NEW h,
           NEW db, NEW file,
           (g \in Guard /\ g.until <= now + GuardTtl) \/ g = NoGuard, h \in Held \cup {NoGuard},
           dbGuard' = dbGuard \/ dbGuard' = [dbGuard EXCEPT ![t] = g],
           fileGuard' = fileGuard \/ fileGuard' = [fileGuard EXCEPT ![t] = g],
           held' = held \/ held' = [held EXCEPT ![a] = h], guards' \in 0 .. MaxGuards
    PROVE  GuardType'
  <1>0. /\ dbGuard \in [Task -> Guard \cup {NoGuard}] /\ fileGuard \in [Task -> Guard \cup {NoGuard}]
        /\ \A u \in Task : /\ dbGuard[u] # NoGuard => dbGuard[u].until <= now + GuardTtl
                           /\ fileGuard[u] # NoGuard => fileGuard[u].until <= now + GuardTtl
        /\ held \in [Agent -> Held \cup {NoGuard}]
    BY DEF TypeInv, GuardType
  <1>1. /\ dbGuard' \in [Task -> Guard \cup {NoGuard}]
        /\ \A u \in Task : dbGuard'[u] # NoGuard => dbGuard'[u].until <= now + GuardTtl
    BY <1>0
  <1>2. /\ fileGuard' \in [Task -> Guard \cup {NoGuard}]
        /\ \A u \in Task : fileGuard'[u] # NoGuard => fileGuard'[u].until <= now + GuardTtl
    BY <1>0
  <1>3. held' \in [Agent -> Held \cup {NoGuard}]
    BY <1>0
  <1> QED
    BY <1>1, <1>2, <1>3 DEF GuardType

\* A guard command that is cut off is a fault.
LEMMA CutType ==
    ASSUME TypeInv, NEW cut \in BOOLEAN, IF cut THEN Fault ELSE UNCHANGED faults,
           UNCHANGED <<now, leases>>
    PROVE  LeaseType' /\ Len(leases') >= Len(leases) /\ now' >= now /\ ClockType'
  <1>1. LeaseType' /\ Len(leases') >= Len(leases) /\ now' >= now
    BY Still
  <1>2. faults' \in 0 .. MaxFaults
    BY BoundsAssumption DEF TypeInv, ClockType, Fault
  <1> QED
    BY <1>1, <1>2 DEF TypeInv, ClockType

LEMMA AcquireGuardType ==
    ASSUME TypeInv, NEW a \in Agent, NEW t \in Task, NEW cut \in BOOLEAN, AcquireGuard(a, t, cut)
    PROVE  TypeInv'
  <1> DEFINE g == [owner |-> a, token |-> guards + 1, until |-> now + GuardTtl]
             h == [task |-> t, token |-> g.token, until |-> g.until]
  <1>0. /\ UNCHANGED <<now, tasks, leases, observed, command, pull, ended>>
        /\ guards < MaxGuards /\ guards' = guards + 1
        /\ dbGuard' = [dbGuard EXCEPT ![t] = g]
        /\ fileGuard' = IF cut THEN fileGuard ELSE [fileGuard EXCEPT ![t] = g]
        /\ held' = IF cut THEN held ELSE [held EXCEPT ![a] = h]
        /\ IF cut THEN Fault ELSE UNCHANGED faults
    BY DEF AcquireGuard
  <1>1. guards \in 0 .. MaxGuards /\ now \in Nat /\ GuardTtl \in Nat /\ MaxGuards \in Nat
    BY Numbers, BoundsAssumption DEF TypeInv, GuardType
  <1>2. guards + 1 \in Nat /\ guards + 1 \in 0 .. MaxGuards /\ now + GuardTtl \in Nat
        /\ now + GuardTtl <= now + GuardTtl
    BY <1>0, <1>1
  <1>3. g \in Guard /\ g.until = now + GuardTtl /\ h \in Held
    BY <1>2 DEF Guard, Held
  <1> HIDE DEF g, h
  <1>4. GuardType'
    BY <1>0, <1>2, <1>3, OneGuardType
  <1>5. LeaseType' /\ Len(leases') >= Len(leases) /\ now' >= now /\ ClockType'
    BY <1>0, CutType
  <1>6. UNCHANGED <<observed, ended>> /\ UNCHANGED command /\ UNCHANGED pull /\ UNCHANGED tasks
    BY <1>0
  <1> QED
    BY <1>4, <1>5, <1>6, Assemble

LEMMA RefreshGuardType ==
    ASSUME TypeInv, NEW a \in Agent, NEW cut \in BOOLEAN, RefreshGuard(a, cut)
    PROVE  TypeInv'
  <1> DEFINE t == held[a].task
             g == [fileGuard[t] EXCEPT !.until = now + GuardTtl]
             h == [held[a] EXCEPT !.until = now + GuardTtl]
  <1>0. /\ UNCHANGED <<now, tasks, leases, observed, command, pull, guards, ended>>
        /\ held[a] # NoGuard /\ ActiveGuard(fileGuard[t])
        /\ dbGuard' = IF ActiveGuard(dbGuard[t]) THEN [dbGuard EXCEPT ![t] = g] ELSE dbGuard
        /\ fileGuard' = IF cut THEN fileGuard ELSE [fileGuard EXCEPT ![t] = g]
        /\ held' = IF cut THEN held ELSE [held EXCEPT ![a] = h]
        /\ IF cut THEN Fault ELSE UNCHANGED faults
    BY DEF RefreshGuard
  <1>1. held[a] \in Held /\ t \in Task /\ fileGuard[t] \in Guard
    <2>1. held[a] \in Held
      BY <1>0 DEF TypeInv, GuardType
    <2>2. t \in Task
      BY <2>1 DEF Held
    <2> QED
      BY <1>0, <2>1, <2>2 DEF TypeInv, GuardType, ActiveGuard
  <1>2. now + GuardTtl \in Nat /\ now + GuardTtl <= now + GuardTtl
    BY Numbers
  <1>3. g \in Guard /\ g.until = now + GuardTtl /\ h \in Held
    BY <1>1, <1>2 DEF Guard, Held
  <1>4. guards' \in 0 .. MaxGuards
    BY <1>0 DEF TypeInv, GuardType
  <1> HIDE DEF g, h, t
  <1>5. GuardType'
    BY <1>0, <1>1, <1>2, <1>3, <1>4, OneGuardType
  <1>6. LeaseType' /\ Len(leases') >= Len(leases) /\ now' >= now /\ ClockType'
    BY <1>0, CutType
  <1>7. UNCHANGED <<observed, ended>> /\ UNCHANGED command /\ UNCHANGED pull /\ UNCHANGED tasks
    BY <1>0
  <1> QED
    BY <1>5, <1>6, <1>7, Assemble

LEMMA ReleaseGuardType ==
    ASSUME TypeInv, NEW a \in Agent, NEW cut \in BOOLEAN, ReleaseGuard(a, cut)
    PROVE  TypeInv'
  <1> DEFINE t == held[a].task
  <1>0. /\ UNCHANGED <<now, tasks, leases, observed, command, pull, guards, ended>>
        /\ held[a] # NoGuard
        /\ dbGuard' = [dbGuard EXCEPT ![t] = NoGuard]
        /\ fileGuard' = IF cut THEN fileGuard ELSE [fileGuard EXCEPT ![t] = NoGuard]
        /\ held' = IF cut THEN held ELSE [held EXCEPT ![a] = NoGuard]
        /\ IF cut THEN Fault ELSE UNCHANGED faults
    BY DEF ReleaseGuard
  <1>1. t \in Task
    <2>1. held[a] \in Held
      BY <1>0 DEF TypeInv, GuardType
    <2> QED
      BY <2>1 DEF Held
  <1>2. guards' \in 0 .. MaxGuards
    BY <1>0 DEF TypeInv, GuardType
  <1> HIDE DEF t
  <1>3. GuardType'
    BY <1>0, <1>1, <1>2, OneGuardType
  <1>4. LeaseType' /\ Len(leases') >= Len(leases) /\ now' >= now /\ ClockType'
    BY <1>0, CutType
  <1>5. UNCHANGED <<observed, ended>> /\ UNCHANGED command /\ UNCHANGED pull /\ UNCHANGED tasks
    BY <1>0
  <1> QED
    BY <1>3, <1>4, <1>5, Assemble

LEMMA ForgetGuardType ==
    ASSUME TypeInv, NEW a \in Agent, ForgetGuard(a)
    PROVE  TypeInv'
  <1>0. /\ UNCHANGED <<now, tasks, leases, observed, command, pull, dbGuard, fileGuard,
                       guards, ended, faults>>
        /\ held' = [held EXCEPT ![a] = NoGuard]
    BY DEF ForgetGuard
  <1>1. GuardType'
    BY <1>0 DEF TypeInv, GuardType
  <1>2. LeaseType' /\ Len(leases') >= Len(leases) /\ now' >= now /\ ClockType'
    BY <1>0, Still
  <1> QED
    BY <1>0, <1>1, <1>2, Assemble

LEMMA TickType ==
    ASSUME TypeInv, Tick
    PROVE  TypeInv'
  <1>0. /\ UNCHANGED <<tasks, leases, observed, command, pull, guardVars, ended, faults>>
        /\ now < MaxTime /\ now' = now + 1
    BY DEF Tick
  <1>1. now \in Nat /\ now >= 1 /\ Len(leases) \in Nat /\ Ttl \in Nat
    BY Numbers
  <1>2. ClockType' /\ now' >= now /\ Len(leases') >= Len(leases)
    BY <1>0, <1>1, BoundsAssumption DEF TypeInv, ClockType
  <1>3. LeaseType'
    <2>1. \A l \in 1 .. Len(leases) : leases[l].expires \in Nat
      BY Numbers DEF Lease
    <2>2. \A l \in 1 .. Len(leases) : leases[l].expires <= now + Ttl
      BY DEF TypeInv, LeaseType
    <2>3. \A l \in 1 .. Len(leases) : leases[l].expires <= now' + Ttl
      BY <1>0, <1>1, <2>1, <2>2
    <2> QED
      BY <1>0, <2>3 DEF TypeInv, LeaseType
  <1> QED
    BY <1>0, <1>2, <1>3, Assemble

LEMMA NextTypeInv == TypeInv /\ [Next]_vars => TypeInv'
  <1> SUFFICES ASSUME TypeInv, [Next]_vars PROVE TypeInv'
    OBVIOUS
  <1>1. CASE UNCHANGED vars
    <2>1. LeaseType' /\ Len(leases') >= Len(leases) /\ now' >= now /\ ClockType'
      BY <1>1, Still DEF vars
    <2> QED
      BY <1>1, <2>1, Assemble DEF vars, guardVars
  <1>2. CASE Tick \/ Sweep
    BY <1>2, TickType, ObserveExpiredType, ReclaimOneType DEF Sweep
  <1>3. CASE \E t \in Task, l \in 1 .. MaxLeases : ReclaimError(t, l)
    BY <1>3, ReclaimErrorType
  <1>4. CASE \E t \in Task : ReviewUnclaimed(t)
    BY <1>4, ReviewUnclaimedType
  <1>5. ASSUME NEW a \in Agent, NEW t \in Task,
               \/ ClaimReady(a, t) \/ ClaimStale(a, t) \/ Heartbeat(a, t)
               \/ Complete(a, t) \/ ReviewHandoff(a, t) \/ RowRead(a, t)
               \/ \E cut \in BOOLEAN : AcquireGuard(a, t, cut)
        PROVE  TypeInv'
    BY <1>5, ClaimReadyType, ClaimStaleType, HeartbeatType, CompleteType, RowReadType,
       AcquireGuardType
  <1>6. ASSUME NEW a \in Agent,
               \/ ReleaseUpsertLease(a) \/ UpsertTask(a) \/ Interrupted(a) \/ ForgetGuard(a)
               \/ \E cut \in BOOLEAN : RefreshGuard(a, cut) \/ ReleaseGuard(a, cut)
        PROVE  TypeInv'
    BY <1>6, ReleaseUpsertLeaseType, UpsertTaskType, InterruptedType, ForgetGuardType,
       RefreshGuardType, ReleaseGuardType
  <1>7. ASSUME NEW p \in Puller,
               \/ PullStart(p) \/ ReconcileRead(p) \/ PullEnd(p)
               \/ \E t \in Task : PullReady(p, t) \/ PullBlocker(p, t) \/ ReconcileWrite(p, t)
        PROVE  TypeInv'
    BY <1>7, PullStartType, ReconcileReadType, PullEndType, PullReadyType, PullBlockerType,
       ReconcileWriteType
  <1> QED
    BY <1>1, <1>2, <1>3, <1>4, <1>5, <1>6, <1>7 DEF Next

\* Every behaviour is typed, whatever commands the agents use.
LEMMA TypeInvariance == Spec => []TypeInv
  BY InitTypeInv, NextTypeInv, PTL DEF Spec

LEMMA TypeInvTypeOK == TypeInv => TypeOK
  <1> SUFFICES ASSUME TypeInv PROVE TypeOK
    OBVIOUS
  <1>0. now \in Nat /\ Len(leases) \in Nat
    BY Numbers
  <1>1. /\ now \in 1 .. MaxTime /\ faults \in 0 .. MaxFaults /\ tasks \in [Task -> Row]
        /\ Len(leases) <= MaxLeases /\ observed \subseteq Task \X (1 .. MaxLeases)
        /\ guards \in 0 .. MaxGuards /\ ended \in [Task -> 0 .. now]
    BY DEF TypeInv, ClockType, LeaseType, RowType, SweepType, GuardType
  <1>2. \A l \in 1 .. Len(leases) : leases[l] \in Lease /\ leases[l].expires <= now + Ttl
    BY Numbers DEF TypeInv, LeaseType
  <1>3. \A t \in Task : /\ tasks[t].lease \in 0 .. Len(leases)
                        /\ {tasks[t].pull, tasks[t].invalid, tasks[t].fence} \subseteq 0 .. now
    <2>1. \A t \in Task : Fits(tasks[t], Len(leases), now)
      BY DEF TypeInv, RowType
    <2> QED
      BY <1>0, <2>1 DEF Fits, Row
  <1>4. \A a \in Agent : command[a] \in Command \cup {NoCommand}
    BY DEF TypeInv, CommandType
  <1>5. \A p \in Puller : pull[p] = NoPull \/ IsPull(pull[p])
    <2> SUFFICES ASSUME NEW p \in Puller, pull[p] # NoPull PROVE IsPull(pull[p])
      OBVIOUS
    <2>1. /\ pull[p] \in PullRecord /\ pull[p].at \in 1 .. now
          /\ DOMAIN pull[p].rows \subseteq Task
          /\ \A t \in DOMAIN pull[p].rows : pull[p].rows[t] \in Row
      BY PullFacts DEF Fits
    <2>2. pull[p].ready \subseteq Task
      BY <2>1 DEF PullRecord
    <2> QED
      BY <2>1, <2>2 DEF IsPull
  <1>6. /\ \A t \in Task : {dbGuard[t], fileGuard[t]} \subseteq Guard \cup {NoGuard}
        /\ \A t \in Task : \A g \in {dbGuard[t], fileGuard[t]} \ {NoGuard} : g.until <= now + GuardTtl
    BY DEF TypeInv, GuardType
  <1> QED
    BY <1>1, <1>2, <1>3, <1>4, <1>5, <1>6 DEF TypeOK

\* TypeOK of every behaviour: stored leases, stamps and guard expiries are never
\* ahead of the leases granted and of the clock plus one TTL, whatever the
\* commands, sweeps, pulls and guards interleave.
THEOREM DispatcherTypeCorrect == Spec => []TypeOK
  BY TypeInvariance, TypeInvTypeOK, PTL
-----------------------------------------------------------------------------
(* Leases and tasks refer to each other, when every command is one transaction.
   Exclusion is not inductive: that a new grant finds no other live lease needs
   the task's lease id, and that a pull does not take one away needs the rows
   that the pull holds. *)

NoneStarted == \A a \in Agent : command[a] = NoCommand

LeaseToTask ==
    \A l \in 1 .. Len(leases) : ~leases[l].released =>
        /\ tasks[leases[l].task].lease = l
        /\ tasks[leases[l].task].owner = leases[l].holder

TaskToLease ==
    \A t \in Task : tasks[t].lease # NoLease =>
        /\ leases[tasks[t].lease].task = t /\ ~leases[tasks[t].lease].released
        /\ tasks[t].status = "claimed"

ListedUnleased ==
    \A p \in Puller : pull[p] # NoPull =>
        \A t \in DOMAIN pull[p].rows : pull[p].rows[t].lease = NoLease

LeaseInv == NoneStarted /\ LeaseToTask /\ TaskToLease /\ ListedUnleased

\* The fields that each writer gives the row.
LEMMA RowFields ==
    ASSUME NEW row \in Row
    PROVE  /\ \A l, a : /\ Claimed(row, l, a).lease = l /\ Claimed(row, l, a).owner = a
                        /\ Claimed(row, l, a).status = "claimed"
                        /\ Claimed(row, l, a).pull = row.pull
                        /\ Claimed(row, l, a).invalid = row.invalid
           /\ Completed(row).lease = NoLease /\ Completed(row).pull = row.pull
           /\ Completed(row).invalid = row.invalid
           /\ InReview(row).lease = NoLease /\ InReview(row).pull = row.pull
           /\ InReview(row).invalid = row.invalid
           /\ \A d : /\ Reclaimed(row, d).lease = NoLease /\ Reclaimed(row, d).pull = 0
                     /\ Reclaimed(row, d).invalid = d
  <1>1. \A l, a : /\ Claimed(row, l, a).lease = l /\ Claimed(row, l, a).owner = a
                  /\ Claimed(row, l, a).status = "claimed"
                  /\ Claimed(row, l, a).pull = row.pull
                  /\ Claimed(row, l, a).invalid = row.invalid
    BY DEF Claimed, Row
  <1>2. /\ Completed(row).lease = NoLease /\ Completed(row).pull = row.pull
        /\ Completed(row).invalid = row.invalid
    BY DEF Completed, Unleased, Row
  <1>3. /\ InReview(row).lease = NoLease /\ InReview(row).pull = row.pull
        /\ InReview(row).invalid = row.invalid
    BY DEF InReview, Unleased, Row
  <1>4. ASSUME NEW d
        PROVE  /\ Reclaimed(row, d).lease = NoLease /\ Reclaimed(row, d).pull = 0
               /\ Reclaimed(row, d).invalid = d
    BY DEF Reclaimed, Released, Unleased, Row
  <1> QED
    BY <1>1, <1>2, <1>3, <1>4

\* A step that moves no lease from or to a task.
LEMMA LeasesStay ==
    ASSUME TypeInv, TypeInv', LeaseInv, UNCHANGED command, Len(leases') = Len(leases),
           \A l \in 1 .. Len(leases) :
               /\ leases'[l].task = leases[l].task /\ leases'[l].holder = leases[l].holder
               /\ leases'[l].released = leases[l].released,
           \A t \in Task : /\ tasks'[t].lease = tasks[t].lease
                           /\ tasks[t].lease # NoLease => /\ tasks'[t].owner = tasks[t].owner
                                                          /\ tasks'[t].status = tasks[t].status,
           ListedUnleased'
    PROVE  LeaseInv'
  <1>1. \A l \in 1 .. Len(leases) : leases[l].task \in Task /\ l # NoLease
    BY Numbers DEF Lease, NoLease
  <1>2. \A t \in Task : tasks[t].lease # NoLease => tasks[t].lease \in 1 .. Len(leases)
    BY Numbers
  <1>3. NoneStarted'
    BY DEF LeaseInv, NoneStarted
  <1>4. LeaseToTask'
    BY <1>1 DEF LeaseInv, LeaseToTask
  <1>5. TaskToLease'
    BY <1>2 DEF LeaseInv, TaskToLease
  <1> QED
    BY <1>3, <1>4, <1>5 DEF LeaseInv

\* A step that releases the lease of a task and clears the task's row.
LEMMA LeaseHandedBack ==
    ASSUME TypeInv, TypeInv', LeaseInv, NEW t \in Task, NEW r, tasks[t].lease # NoLease,
           leases' = ReleaseLease(tasks[t].lease), tasks' = [tasks EXCEPT ![t] = r],
           r.lease = NoLease, UNCHANGED <<command, pull>>
    PROVE  LeaseInv'
  <1> DEFINE l == tasks[t].lease
  <1>1. l \in 1 .. Len(leases) /\ tasks \in [Task -> Row]
    BY Numbers DEF TypeInv, RowType
  <1>2. /\ Len(leases') = Len(leases)
        /\ \A m \in 1 .. Len(leases) :
              /\ leases'[m].task = leases[m].task /\ leases'[m].holder = leases[m].holder
              /\ leases'[m].released = (leases[m].released \/ m = l)
    BY <1>1, ReleaseFacts
  <1>3. \A m \in 1 .. Len(leases) : leases[m].task \in Task
    BY Numbers DEF Lease
  <1>4. \A u \in Task : tasks[u].lease # NoLease => tasks[u].lease \in 1 .. Len(leases)
    BY Numbers
  <1>5. \A u \in Task : tasks'[u] = IF u = t THEN r ELSE tasks[u]
    BY <1>1
  <1>6. leases[l].task = t
    BY DEF LeaseInv, TaskToLease
  <1> HIDE DEF l
  <1>7. NoneStarted' /\ ListedUnleased'
    BY DEF LeaseInv, NoneStarted, ListedUnleased
  <1>8. LeaseToTask'
    <2> SUFFICES ASSUME NEW m \in 1 .. Len(leases), ~leases'[m].released
                 PROVE  /\ tasks'[leases'[m].task].lease = m
                        /\ tasks'[leases'[m].task].owner = leases'[m].holder
      BY <1>2 DEF LeaseToTask
    <2>1. ~leases[m].released /\ m # l
      BY <1>2
    <2>2. tasks[leases[m].task].lease = m /\ tasks[leases[m].task].owner = leases[m].holder
      BY <2>1 DEF LeaseInv, LeaseToTask
    <2>3. leases[m].task # t
      BY <2>1, <2>2 DEF l
    <2> QED
      BY <1>2, <1>3, <1>5, <2>2, <2>3
  <1>9. TaskToLease'
    <2> SUFFICES ASSUME NEW u \in Task, tasks'[u].lease # NoLease
                 PROVE  /\ leases'[tasks'[u].lease].task = u /\ ~leases'[tasks'[u].lease].released
                        /\ tasks'[u].status = "claimed"
      BY DEF TaskToLease
    <2>1. u # t /\ tasks'[u] = tasks[u]
      BY <1>5
    <2>2. /\ leases[tasks[u].lease].task = u /\ ~leases[tasks[u].lease].released
          /\ tasks[u].status = "claimed" /\ tasks[u].lease \in 1 .. Len(leases)
      BY <1>4, <2>1 DEF LeaseInv, TaskToLease
    <2>3. tasks[u].lease # l
      BY <1>6, <2>1, <2>2
    <2> QED
      BY <1>2, <2>1, <2>2, <2>3
  <1> QED
    BY <1>7, <1>8, <1>9 DEF LeaseInv

\* A grant to an agent: the new lease is the task's, and the one it replaces is
\* released.
LEMMA GrantLeaseToTask ==
    ASSUME TypeInv, LeaseToTask, NEW a \in Agent, NEW t \in Task, NEW ls \in Seq(Lease),
           Len(ls) = Len(leases), leases' = Append(ls, Granted(t, a)),
           \A m \in 1 .. Len(leases) :
               /\ ls[m].task = leases[m].task /\ ls[m].holder = leases[m].holder
               /\ ls[m].released = (leases[m].released \/ m = tasks[t].lease),
           tasks' = [tasks EXCEPT ![t] = Claimed(tasks[t], Len(leases) + 1, a)]
    PROVE  LeaseToTask'
  <1>0. /\ Granted(t, a) \in Lease /\ Granted(t, a).task = t /\ Granted(t, a).holder = a
        /\ ~Granted(t, a).released
    BY GrantFacts
  <1> DEFINE n == Len(leases) + 1
             r == Claimed(tasks[t], n, a)
             g == Granted(t, a)
  <1>1. Len(leases) \in Nat /\ tasks \in [Task -> Row] /\ tasks[t] \in Row
    BY Numbers DEF TypeInv, RowType
  <1>2. g \in Lease /\ g.task = t /\ g.holder = a /\ ~g.released
    BY <1>0
  <1>3. r.lease = n /\ r.owner = a /\ r.status = "claimed"
    BY <1>1, RowFields
  <1>4. leases' = Append(ls, g) /\ tasks' = [tasks EXCEPT ![t] = r]
    OBVIOUS
  <1> HIDE DEF g, r
  <1>5. /\ Len(leases') = n /\ leases'[n] = g
        /\ \A m \in 1 .. Len(leases) : leases'[m] = ls[m]
    BY <1>1, <1>2, <1>4, AppendProperties
  <1>6. \A u \in Task : tasks'[u] = IF u = t THEN r ELSE tasks[u]
    BY <1>1, <1>4
  <1>7. \A m \in 1 .. Len(leases) : leases[m].task \in Task
    BY Numbers DEF Lease
  <1>8. \A m \in 1 .. n : m \in 1 .. Len(leases) \/ m = n
    BY <1>1
  <1> HIDE DEF n
  <1>9. SUFFICES ASSUME NEW m \in 1 .. n, ~leases'[m].released
                PROVE  /\ tasks'[leases'[m].task].lease = m
                       /\ tasks'[leases'[m].task].owner = leases'[m].holder
    BY <1>5 DEF LeaseToTask
  <1>10. CASE m = n
    BY <1>2, <1>3, <1>5, <1>6, <1>9, <1>10
  <1>11. CASE m \in 1 .. Len(leases)
    <2>1. ~leases[m].released /\ m # tasks[t].lease
      BY <1>5, <1>9, <1>11
    <2>2. tasks[leases[m].task].lease = m /\ tasks[leases[m].task].owner = leases[m].holder
      BY <1>11, <2>1 DEF LeaseToTask
    <2>3. leases[m].task # t
      BY <2>1, <2>2
    <2> QED
      BY <1>5, <1>6, <1>7, <1>11, <2>2, <2>3
  <1> QED
    BY <1>8, <1>10, <1>11

\* A step that grants a task to an agent, of which no lease is left unreleased.
LEMMA LeaseGranted ==
    ASSUME TypeInv, TypeInv', LeaseInv, NEW a \in Agent, NEW t \in Task, NEW ls \in Seq(Lease),
           Len(ls) = Len(leases), leases' = Append(ls, Granted(t, a)),
           \A m \in 1 .. Len(leases) :
               /\ ls[m].task = leases[m].task /\ ls[m].holder = leases[m].holder
               /\ ls[m].released = (leases[m].released \/ m = tasks[t].lease),
           tasks' = [tasks EXCEPT ![t] = Claimed(tasks[t], Len(leases) + 1, a)],
           UNCHANGED <<command, pull>>
    PROVE  LeaseInv'
  <1>0. /\ Granted(t, a) \in Lease /\ Granted(t, a).task = t /\ Granted(t, a).holder = a
        /\ ~Granted(t, a).released
    BY GrantFacts
  <1> DEFINE n == Len(leases) + 1
             r == Claimed(tasks[t], n, a)
             g == Granted(t, a)
  <1>1. Len(leases) \in Nat /\ tasks \in [Task -> Row] /\ tasks[t] \in Row
    BY Numbers DEF TypeInv, RowType
  <1>2. g \in Lease /\ g.task = t /\ g.holder = a /\ ~g.released
    BY <1>0
  <1>3. r.lease = n /\ r.owner = a /\ r.status = "claimed"
    BY <1>1, RowFields
  <1>4. leases' = Append(ls, g) /\ tasks' = [tasks EXCEPT ![t] = r]
    OBVIOUS
  <1> HIDE DEF g, r
  <1>5. /\ Len(leases') = n /\ leases'[n] = g
        /\ \A m \in 1 .. Len(leases) : leases'[m] = ls[m]
    BY <1>1, <1>2, <1>4, AppendProperties
  <1>6. \A u \in Task : tasks'[u] = IF u = t THEN r ELSE tasks[u]
    BY <1>1, <1>4
  <1>8. \A u \in Task : tasks[u].lease # NoLease => tasks[u].lease \in 1 .. Len(leases)
    BY Numbers
  <1>10. NoneStarted' /\ ListedUnleased'
    BY DEF LeaseInv, NoneStarted, ListedUnleased
  <1> HIDE DEF n
  <1>11. LeaseToTask'
    BY GrantLeaseToTask DEF LeaseInv
  <1>12. TaskToLease'
    <2> SUFFICES ASSUME NEW u \in Task, tasks'[u].lease # NoLease
                 PROVE  /\ leases'[tasks'[u].lease].task = u /\ ~leases'[tasks'[u].lease].released
                        /\ tasks'[u].status = "claimed"
      BY DEF TaskToLease
    <2>1. CASE u = t
      BY <1>2, <1>3, <1>5, <1>6, <2>1
    <2>2. CASE u # t
      <3>1. tasks'[u] = tasks[u]
        BY <1>6, <2>2
      <3>2. /\ leases[tasks[u].lease].task = u /\ ~leases[tasks[u].lease].released
            /\ tasks[u].status = "claimed" /\ tasks[u].lease \in 1 .. Len(leases)
        BY <1>8, <3>1 DEF LeaseInv, TaskToLease
      <3>3. tasks[u].lease # tasks[t].lease
        <4>1. SUFFICES ASSUME tasks[u].lease = tasks[t].lease PROVE FALSE
          OBVIOUS
        <4>2. leases[tasks[t].lease].task = t
          BY <3>1, <4>1 DEF LeaseInv, TaskToLease
        <4> QED
          BY <2>2, <3>2, <4>1, <4>2
      <3>4. leases'[tasks[u].lease] = ls[tasks[u].lease]
        BY <1>5, <3>2
      <3>5. ls[tasks[u].lease].task = u /\ ~ls[tasks[u].lease].released
        BY <3>2, <3>3
      <3> QED
        BY <3>1, <3>2, <3>4, <3>5
    <2> QED
      BY <2>1, <2>2
  <1> QED
    BY <1>10, <1>11, <1>12 DEF LeaseInv

\* What a pull leaves of a task: the lease, and the evidence unless it is newer
\* than the invalidation.
LEMMA SnapshotRow ==
    ASSUME TypeInv, NEW t \in Task, NEW new, Fits(new, Len(leases), now), new.lease = NoLease,
           NEW seen \in BOOLEAN, NEW expected, NEW row,
           row = upsert_synced_task(tasks[t], new, seen, expected)
    PROVE  /\ row.lease = tasks[t].lease
           /\ tasks[t].lease # NoLease => /\ row.owner = tasks[t].owner
                                          /\ row.status = tasks[t].status
           /\ row.pull \in {0, new.pull}
           /\ tasks[t].invalid # 0 /\ ~(seen /\ new.pull > tasks[t].invalid) =>
                 row.pull = 0 /\ row.invalid = tasks[t].invalid
           /\ tasks[t].invalid # 0 /\ seen /\ new.pull > tasks[t].invalid => row.invalid = 0
           /\ tasks[t].invalid = 0 => row.invalid = new.invalid
  <1> DEFINE old == tasks[t]
             fresh == seen /\ new.pull > old.invalid
  <1>1. Fits(old, Len(leases), now) /\ Len(leases) \in Nat /\ now \in Nat
    BY Numbers DEF TypeInv, RowType
  <1>2. row = upsert_synced_task(old, new, seen, expected)
    OBVIOUS
  <1> HIDE DEF old
  <1>3. /\ \/ row.lease = old.lease /\ row.owner = old.owner /\ row.status = old.status
           \/ old.lease = NoLease /\ row.lease = new.lease
        /\ row.pull \in {0, new.pull}
        /\ old.invalid # 0 /\ ~fresh => row.pull = 0 /\ row.invalid = old.invalid
        /\ old.invalid # 0 /\ fresh => row.invalid = 0
        /\ old.invalid = 0 => row.invalid = new.invalid
    BY <1>1, <1>2, UpsertFacts
  <1> QED
    BY <1>3 DEF old

\* The two entries a pull writes from GitHub's answers fit, and carry no lease.
LEMMA EntryFacts ==
    ASSUME TypeInv, NEW p \in Puller, pull[p] # NoPull, NEW s \in {"ready", "blocked"}
    PROVE  /\ Fits(TaskRow(s, FALSE, pull[p].at), Len(leases), now)
           /\ TaskRow(s, FALSE, pull[p].at).lease = NoLease
           /\ TaskRow(s, FALSE, pull[p].at).pull = pull[p].at
           /\ TaskRow(s, FALSE, pull[p].at).invalid = 0
  <1>1. pull[p].at \in 0 .. now
    BY PullFacts
  <1>2. s \in Status /\ FALSE \in BOOLEAN
    BY DEF Status
  <1>3. Len(leases) \in Nat /\ now \in Nat
    BY Numbers
  <1>4. Fits(TaskRow(s, FALSE, pull[p].at), Len(leases), now)
    BY <1>1, <1>2, <1>3, TaskRowFits
  <1>5. /\ TaskRow(s, FALSE, pull[p].at).lease = NoLease
        /\ TaskRow(s, FALSE, pull[p].at).pull = pull[p].at
        /\ TaskRow(s, FALSE, pull[p].at).invalid = 0
    BY DEF TaskRow
  <1> QED
    BY <1>4, <1>5

\* One write of a pull, whichever: the row it leaves in place of task t's.
PullWrites(p, t, new, seen, row) ==
    /\ pull[p] # NoPull /\ Fits(new, Len(leases), now)
    /\ UNCHANGED <<now, leases, observed, command, guardVars, ended, faults>>
    /\ tasks' = [tasks EXCEPT ![t] = row]
    /\ row = tasks[t] \/ \E e : row = upsert_synced_task(tasks[t], new, seen, e)

LEMMA PullReadyWrites ==
    ASSUME TypeInv, NEW p \in Puller, NEW t \in Task, PullReady(p, t)
    PROVE  \E row : PullWrites(p, t, TaskRow("ready", FALSE, pull[p].at), TRUE, row)
  <1> DEFINE new == TaskRow("ready", FALSE, pull[p].at)
             row == upsert_synced_task(tasks[t], new, TRUE, StateOf(tasks[t]))
  <1>1. /\ UNCHANGED <<now, leases, observed, command, guardVars, ended, faults>>
        /\ pull[p] # NoPull /\ tasks' = [tasks EXCEPT ![t] = row]
    BY DEF PullReady
  <1>2. Fits(new, Len(leases), now)
    BY <1>1, EntryFacts
  <1>3. \E e : row = upsert_synced_task(tasks[t], new, TRUE, e)
    OBVIOUS
  <1> HIDE DEF new, row
  <1>4. PullWrites(p, t, new, TRUE, row)
    BY <1>1, <1>2, <1>3 DEF PullWrites
  <1> QED
    BY <1>4 DEF new

LEMMA PullBlockerWrites ==
    ASSUME TypeInv, NEW p \in Puller, NEW t \in Task, PullBlocker(p, t)
    PROVE  \E row : PullWrites(p, t, TaskRow("blocked", FALSE, pull[p].at), FALSE, row)
  <1> DEFINE new == TaskRow("blocked", FALSE, pull[p].at)
             row == upsert_synced_task(tasks[t], new, FALSE, StateOf(tasks[t]))
  <1>1. /\ UNCHANGED <<now, leases, observed, command, guardVars, ended, faults>>
        /\ pull[p] # NoPull /\ tasks' = [tasks EXCEPT ![t] = row]
    BY DEF PullBlocker
  <1>2. Fits(new, Len(leases), now)
    BY <1>1, EntryFacts
  <1>3. \E e : row = upsert_synced_task(tasks[t], new, FALSE, e)
    OBVIOUS
  <1> HIDE DEF new, row
  <1>4. PullWrites(p, t, new, FALSE, row)
    BY <1>1, <1>2, <1>3 DEF PullWrites
  <1> QED
    BY <1>4 DEF new

LEMMA ReconcileWrites ==
    ASSUME TypeInv, NEW p \in Puller, NEW t \in Task, ReconcileWrite(p, t)
    PROVE  /\ t \in DOMAIN pull[p].rows
           /\ \E new \in Reconciled(p, t) : \E row : PullWrites(p, t, new, FALSE, row)
  <1>1. /\ UNCHANGED <<now, leases, observed, command, guardVars, ended, faults>>
        /\ pull[p] # NoPull /\ t \in DOMAIN pull[p].rows
    BY DEF ReconcileWrite
  <1>2. PICK new \in Reconciled(p, t) :
           tasks' = [tasks EXCEPT ![t] =
              IF t \in pull[p].ready /\ pull[p].rows[t].status = "ready" THEN tasks[t]
              ELSE upsert_synced_task(tasks[t], new, FALSE, StateOf(pull[p].rows[t]))]
    BY DEF ReconcileWrite
  <1> DEFINE row == IF t \in pull[p].ready /\ pull[p].rows[t].status = "ready" THEN tasks[t]
                    ELSE upsert_synced_task(tasks[t], new, FALSE, StateOf(pull[p].rows[t]))
  <1>3. tasks' = [tasks EXCEPT ![t] = row]
    BY <1>2
  <1>4. row = tasks[t] \/ \E e : row = upsert_synced_task(tasks[t], new, FALSE, e)
    OBVIOUS
  <1>5. Fits(new, Len(leases), now)
    BY <1>1, <1>2, ReconciledFacts
  <1> HIDE DEF row
  <1>6. PullWrites(p, t, new, FALSE, row)
    BY <1>1, <1>3, <1>4, <1>5 DEF PullWrites
  <1> QED
    BY <1>1, <1>2, <1>6

\* The rows a reconciliation still holds after writing one: the others.
LEMMA ReconcileLeaves ==
    ASSUME TypeInv, NEW p \in Puller, NEW t \in Task, ReconcileWrite(p, t)
    PROVE  \/ pull' = [pull EXCEPT ![p] = NoPull]
           \/ \E q : /\ pull' = [pull EXCEPT ![p] = q] /\ q.at = pull[p].at
                     /\ DOMAIN q.rows \subseteq DOMAIN pull[p].rows
                     /\ \A u \in DOMAIN q.rows : q.rows[u] = pull[p].rows[u]
  <1> DEFINE rest == DOMAIN pull[p].rows \ {t}
             q == [pull[p] EXCEPT !.rows = Restrict(@, rest)]
  <1>1. pull' = [pull EXCEPT ![p] = IF rest = {} THEN NoPull ELSE q] /\ pull[p] # NoPull
    BY DEF ReconcileWrite
  <1>2. pull[p] \in PullRecord
    BY <1>1, PullFacts
  <1>3. q.at = pull[p].at /\ q.rows = Restrict(pull[p].rows, rest)
    BY <1>2 DEF PullRecord
  <1>4. /\ DOMAIN Restrict(pull[p].rows, rest) = rest
        /\ \A u \in rest : Restrict(pull[p].rows, rest)[u] = pull[p].rows[u]
    BY DEF Restrict
  <1> HIDE DEF q
  <1>5. /\ q.at = pull[p].at /\ DOMAIN q.rows \subseteq DOMAIN pull[p].rows
        /\ \A u \in DOMAIN q.rows : q.rows[u] = pull[p].rows[u]
    BY <1>3, <1>4
  <1> HIDE DEF rest
  <1> QED
    BY <1>1, <1>5

\* Pulls leave leases where they are.
LEMMA PullWritesRows ==
    ASSUME TypeInv, NEW p \in Puller, NEW t \in Task, NEW new, NEW seen \in BOOLEAN,
           NEW row, PullWrites(p, t, new, seen, row), new.lease = NoLease
    PROVE  \A u \in Task : /\ tasks'[u].lease = tasks[u].lease
                           /\ tasks[u].lease # NoLease => /\ tasks'[u].owner = tasks[u].owner
                                                          /\ tasks'[u].status = tasks[u].status
  <1>1. /\ Fits(new, Len(leases), now) /\ tasks' = [tasks EXCEPT ![t] = row]
        /\ row = tasks[t] \/ \E e : row = upsert_synced_task(tasks[t], new, seen, e)
    BY DEF PullWrites
  <1>2. /\ row.lease = tasks[t].lease
        /\ tasks[t].lease # NoLease => row.owner = tasks[t].owner /\ row.status = tasks[t].status
    BY <1>1, SnapshotRow
  <1>3. \A u \in Task : tasks'[u] = IF u = t THEN row ELSE tasks[u]
    BY <1>1 DEF TypeInv, RowType
  <1> QED
    BY <1>2, <1>3

LEMMA PullWritesLease ==
    ASSUME TypeInv, TypeInv', LeaseInv, NEW p \in Puller, NEW t \in Task, NEW new, NEW seen \in BOOLEAN,
           NEW row, PullWrites(p, t, new, seen, row), new.lease = NoLease, ListedUnleased'
    PROVE  LeaseInv'
  <1>1. UNCHANGED <<leases, command>>
    BY DEF PullWrites
  <1>2. \A u \in Task : /\ tasks'[u].lease = tasks[u].lease
                        /\ tasks[u].lease # NoLease => /\ tasks'[u].owner = tasks[u].owner
                                                       /\ tasks'[u].status = tasks[u].status
    BY PullWritesRows
  <1> QED
    BY <1>1, <1>2, LeasesStay

\* The rows a pull holds carry no lease.
LEMMA OnePullListed ==
    ASSUME TypeInv, ListedUnleased, NEW p \in Puller, NEW q, pull' = [pull EXCEPT ![p] = q],
           q = NoPull \/ \A u \in DOMAIN q.rows : q.rows[u].lease = NoLease
    PROVE  ListedUnleased'
  <1>1. \A o \in Puller : pull'[o] = IF o = p THEN q ELSE pull[o]
    BY DEF TypeInv, PullType
  <1> QED
    BY <1>1 DEF ListedUnleased

LEMMA PullStepLease ==
    ASSUME TypeInv, TypeInv', LeaseInv, NEW p \in Puller,
           \/ PullStart(p) \/ ReconcileRead(p) \/ PullEnd(p)
           \/ \E t \in Task : PullReady(p, t) \/ PullBlocker(p, t) \/ ReconcileWrite(p, t)
    PROVE  LeaseInv'
  <1>0. ListedUnleased
    BY DEF LeaseInv
  <1>1. CASE PullStart(p) \/ ReconcileRead(p) \/ PullEnd(p)
    <2>1. UNCHANGED <<tasks, leases, command>>
      BY <1>1 DEF PullStart, ReconcileRead, PullEnd
    <2>2. ListedUnleased'
      <3>1. CASE PullStart(p)
        <4> DEFINE q == [at |-> now, ready |-> {}, rows |-> Restrict(tasks, {})]
        <4>1. pull' = [pull EXCEPT ![p] = q]
          BY <3>1 DEF PullStart
        <4>2. DOMAIN q.rows = {}
          BY DEF Restrict
        <4> HIDE DEF q
        <4> QED
          BY <1>0, <4>1, <4>2, OnePullListed
      <3>2. CASE ReconcileRead(p)
        <4> DEFINE listed == {t \in Task : tasks[t].status \in {"ready", "blocked"}}
                   q == [pull[p] EXCEPT !.rows = Restrict(tasks, listed)]
        <4>1. pull[p] # NoPull /\ pull' = [pull EXCEPT ![p] = q]
          BY <3>2 DEF ReconcileRead
        <4>2. pull[p] \in PullRecord
          BY <4>1, PullFacts
        <4>3. q.rows = Restrict(tasks, listed)
          BY <4>2 DEF PullRecord
        <4>4. \A t \in listed : tasks[t].lease = NoLease
          BY DEF LeaseInv, TaskToLease
        <4>5. \A u \in DOMAIN q.rows : q.rows[u].lease = NoLease
          BY <4>3, <4>4 DEF Restrict
        <4> HIDE DEF q
        <4> QED
          BY <1>0, <4>1, <4>5, OnePullListed
      <3>3. CASE PullEnd(p)
        BY <1>0, <3>3, OnePullListed DEF PullEnd
      <3> QED
        BY <1>1, <3>1, <3>2, <3>3
    <2> QED
      BY <2>1, <2>2, LeasesStay
  <1>2. ASSUME NEW t \in Task, PullReady(p, t) PROVE LeaseInv'
    <2> DEFINE q == [pull[p] EXCEPT !.ready = @ \cup {t}]
               new == TaskRow("ready", FALSE, pull[p].at)
    <2>1. pull[p] # NoPull /\ pull' = [pull EXCEPT ![p] = q]
      BY <1>2 DEF PullReady
    <2>2. pull[p] \in PullRecord /\ new.lease = NoLease
      BY <2>1, PullFacts, EntryFacts
    <2>3. q.rows = pull[p].rows
      BY <2>2 DEF PullRecord
    <2>4. PICK row : PullWrites(p, t, new, TRUE, row)
      BY <1>2, PullReadyWrites
    <2> HIDE DEF q, new
    <2>5. ListedUnleased'
      <3>1. \A u \in DOMAIN q.rows : q.rows[u].lease = NoLease
        BY <1>0, <2>1, <2>3 DEF ListedUnleased
      <3> QED
        BY <1>0, <2>1, <3>1, OnePullListed
    <2>6. TRUE \in BOOLEAN
      OBVIOUS
    <2> QED
      BY <2>2, <2>4, <2>5, <2>6, PullWritesLease
  <1>3. ASSUME NEW t \in Task, PullBlocker(p, t) PROVE LeaseInv'
    <2> DEFINE new == TaskRow("blocked", FALSE, pull[p].at)
    <2>1. pull[p] # NoPull /\ UNCHANGED pull
      BY <1>3 DEF PullBlocker
    <2>2. new.lease = NoLease
      BY <2>1, EntryFacts
    <2>3. PICK row : PullWrites(p, t, new, FALSE, row)
      BY <1>3, PullBlockerWrites
    <2> HIDE DEF new
    <2>4. ListedUnleased' /\ FALSE \in BOOLEAN
      BY <1>0, <2>1 DEF ListedUnleased
    <2> QED
      BY <2>2, <2>3, <2>4, PullWritesLease
  <1>4. ASSUME NEW t \in Task, ReconcileWrite(p, t) PROVE LeaseInv'
    <2>1. t \in DOMAIN pull[p].rows /\ pull[p] # NoPull
      BY <1>4 DEF ReconcileWrite
    <2>2. PICK new \in Reconciled(p, t) : \E row : PullWrites(p, t, new, FALSE, row)
      BY <1>4, ReconcileWrites
    <2>3. PICK row : PullWrites(p, t, new, FALSE, row)
      BY <2>2
    <2>4. new.lease = NoLease
      BY <1>0, <2>1, <2>2, ReconciledFacts DEF ListedUnleased
    <2>5. ListedUnleased'
      <3>1. CASE pull' = [pull EXCEPT ![p] = NoPull]
        BY <1>0, <3>1, OnePullListed
      <3>2. CASE \E q : /\ pull' = [pull EXCEPT ![p] = q] /\ q.at = pull[p].at
                        /\ DOMAIN q.rows \subseteq DOMAIN pull[p].rows
                        /\ \A u \in DOMAIN q.rows : q.rows[u] = pull[p].rows[u]
        <4>1. PICK q : /\ pull' = [pull EXCEPT ![p] = q] /\ q.at = pull[p].at
                       /\ DOMAIN q.rows \subseteq DOMAIN pull[p].rows
                       /\ \A u \in DOMAIN q.rows : q.rows[u] = pull[p].rows[u]
          BY <3>2
        <4>2. \A u \in DOMAIN q.rows : q.rows[u].lease = NoLease
          BY <1>0, <2>1, <4>1 DEF ListedUnleased
        <4> QED
          BY <1>0, <4>1, <4>2, OnePullListed
      <3> QED
        BY <1>4, <3>1, <3>2, ReconcileLeaves
    <2>6. FALSE \in BOOLEAN
      OBVIOUS
    <2> QED
      BY <2>3, <2>4, <2>5, <2>6, PullWritesLease
  <1> QED
    BY <1>1, <1>2, <1>3, <1>4

LEMMA ClaimReadyLease ==
    ASSUME TypeInv, TypeInv', LeaseInv, NEW a \in Agent, NEW t \in Task, ClaimReady(a, t)
    PROVE  LeaseInv'
  <1>1. /\ leases' = Append(leases, Granted(t, a)) /\ UNCHANGED <<command, pull>>
        /\ tasks' = [tasks EXCEPT ![t] = Claimed(tasks[t], Len(leases) + 1, a)]
        /\ tasks[t].lease = NoLease
    BY DEF ClaimReady
  <1>2. leases \in Seq(Lease)
    BY DEF TypeInv, LeaseType
  <1>3. \A m \in 1 .. Len(leases) : leases[m].released = (leases[m].released \/ m = tasks[t].lease)
    <2>1. \A m \in 1 .. Len(leases) : leases[m].released \in BOOLEAN
      BY Numbers DEF Lease
    <2>2. \A m \in 1 .. Len(leases) : m # tasks[t].lease
      BY <1>1 DEF NoLease
    <2> QED
      BY <2>1, <2>2
  <1> QED
    BY <1>1, <1>2, <1>3, LeaseGranted

LEMMA ClaimStaleLease ==
    ASSUME TypeInv, TypeInv', LeaseInv, NEW a \in Agent, NEW t \in Task, ClaimStale(a, t)
    PROVE  LeaseInv'
  <1> DEFINE ls == ReleaseLease(tasks[t].lease)
  <1>1. /\ leases' = Append(ls, Granted(t, a)) /\ UNCHANGED <<command, pull>>
        /\ tasks' = [tasks EXCEPT ![t] = Claimed(tasks[t], Len(leases) + 1, a)]
        /\ tasks[t].lease # NoLease
    BY DEF ClaimStale
  <1>2. tasks[t].lease \in 1 .. Len(leases)
    BY <1>1, Numbers
  <1>3. /\ ls \in Seq(Lease) /\ Len(ls) = Len(leases)
        /\ \A m \in 1 .. Len(leases) :
              /\ ls[m].task = leases[m].task /\ ls[m].holder = leases[m].holder
              /\ ls[m].released = (leases[m].released \/ m = tasks[t].lease)
    BY <1>2, ReleaseFacts
  <1> HIDE DEF ls
  <1> QED
    BY <1>1, <1>3, LeaseGranted

LEMMA HeartbeatLease ==
    ASSUME TypeInv, TypeInv', LeaseInv, NEW a \in Agent, NEW t \in Task, Heartbeat(a, t)
    PROVE  LeaseInv'
  <1>1. UNCHANGED <<tasks, command, pull>>
    BY DEF Heartbeat
  <1>2. /\ Len(leases') = Len(leases)
        /\ \A m \in 1 .. Len(leases) :
              /\ leases'[m].task = leases[m].task /\ leases'[m].holder = leases[m].holder
              /\ leases'[m].released = leases[m].released
    BY HeartbeatFacts
  <1>3. ListedUnleased'
    BY <1>1 DEF LeaseInv, ListedUnleased
  <1> QED
    BY <1>1, <1>2, <1>3, LeasesStay

LEMMA HandBackLease ==
    ASSUME TypeInv, TypeInv', LeaseInv, NEW a \in Agent, NEW t \in Task,
           Complete(a, t) \/ ReviewHandoff(a, t)
    PROVE  LeaseInv'
  <1>1. /\ tasks[t].lease # NoLease /\ leases' = ReleaseLease(tasks[t].lease)
        /\ UNCHANGED <<command, pull>>
    BY DEF Complete, ReviewHandoff
  <1>2. PICK r \in {Completed(tasks[t]), InReview(tasks[t])} : tasks' = [tasks EXCEPT ![t] = r]
    BY DEF Complete, ReviewHandoff
  <1>3. r.lease = NoLease
    <2>1. tasks[t] \in Row
      BY Numbers
    <2> QED
      BY <1>2, <2>1, RowFields
  <1> QED
    BY <1>1, <1>2, <1>3, LeaseHandedBack

LEMMA ReclaimOneLease ==
    ASSUME TypeInv, TypeInv', LeaseInv, NEW t \in Task, NEW l \in 1 .. MaxLeases, ReclaimOne(t, l)
    PROVE  LeaseInv'
  <1>0. UNCHANGED <<command, pull>>
    BY DEF ReclaimOne
  <1>1. CASE tasks[t].lease = l /\ ~leases[l].released /\ leases[l].expires < now
    <2>1. leases' = ReleaseLease(tasks[t].lease) /\ tasks' = [tasks EXCEPT ![t] = Reclaimed(tasks[t], now)]
      BY <1>1 DEF ReclaimOne
    <2>2. tasks[t].lease # NoLease
      BY <1>1, BoundsAssumption DEF NoLease
    <2>3. Reclaimed(tasks[t], now).lease = NoLease
      <3>1. tasks[t] \in Row
        BY Numbers
      <3> QED
        BY <3>1, RowFields
    <2> QED
      BY <1>0, <2>1, <2>2, <2>3, LeaseHandedBack
  <1>2. CASE ~(tasks[t].lease = l /\ ~leases[l].released /\ leases[l].expires < now)
    <2>1. UNCHANGED <<leases, tasks>>
      BY <1>2 DEF ReclaimOne
    <2>2. ListedUnleased'
      BY <1>0 DEF LeaseInv, ListedUnleased
    <2> QED
      BY <1>0, <2>1, <2>2, LeasesStay
  <1> QED
    BY <1>1, <1>2

LEMMA ReviewUnclaimedLease ==
    ASSUME TypeInv, TypeInv', LeaseInv, NEW t \in Task, ReviewUnclaimed(t)
    PROVE  LeaseInv'
  <1>1. /\ UNCHANGED <<leases, command, pull>> /\ tasks[t].lease = NoLease
        /\ tasks' = [tasks EXCEPT ![t] = InReview(tasks[t])]
    BY DEF ReviewUnclaimed
  <1>2. InReview(tasks[t]).lease = NoLease
    <2>1. tasks[t] \in Row
      BY Numbers
    <2> QED
      BY <2>1, RowFields
  <1>3. \A u \in Task : tasks'[u] = IF u = t THEN InReview(tasks[t]) ELSE tasks[u]
    BY <1>1 DEF TypeInv, RowType
  <1>4. \A u \in Task : /\ tasks'[u].lease = tasks[u].lease
                        /\ tasks[u].lease # NoLease => /\ tasks'[u].owner = tasks[u].owner
                                                       /\ tasks'[u].status = tasks[u].status
    BY <1>1, <1>2, <1>3
  <1>5. ListedUnleased'
    BY <1>1 DEF LeaseInv, ListedUnleased
  <1> QED
    BY <1>1, <1>4, <1>5, LeasesStay

\* Without row commands no agent is ever between two transactions.
LEMMA NoRowSteps ==
    ASSUME RowCommands = {}, NoneStarted, NEW a \in Agent
    PROVE  /\ ~ReleaseUpsertLease(a) /\ ~UpsertTask(a) /\ ~Interrupted(a)
           /\ \A t \in Task : ~RowRead(a, t)
  BY DEF NoneStarted, ReleaseUpsertLease, UpsertTask, Interrupted, RowRead

LEMMA LeaseStep ==
    ASSUME RowCommands = {}
    PROVE  TypeInv /\ TypeInv' /\ LeaseInv /\ [Next]_vars => LeaseInv'
  <1> SUFFICES ASSUME TypeInv, TypeInv', LeaseInv, [Next]_vars PROVE LeaseInv'
    OBVIOUS
  <1>0. NoneStarted
    BY DEF LeaseInv
  <1>1. ASSUME UNCHANGED <<tasks, leases, command, pull>> PROVE LeaseInv'
    <2>1. ListedUnleased'
      BY <1>1 DEF LeaseInv, ListedUnleased
    <2> QED
      BY <1>1, <2>1, LeasesStay
  <1>2. CASE UNCHANGED vars
    BY <1>1, <1>2 DEF vars
  <1>3. CASE Tick \/ Sweep
    BY <1>1, <1>3, ReclaimOneLease DEF Tick, Sweep, ObserveExpired
  <1>4. CASE \E t \in Task, l \in 1 .. MaxLeases : ReclaimError(t, l)
    BY <1>1, <1>4 DEF ReclaimError
  <1>5. CASE \E t \in Task : ReviewUnclaimed(t)
    BY <1>5, ReviewUnclaimedLease
  <1>6. ASSUME NEW a \in Agent, NEW t \in Task,
               \/ ClaimReady(a, t) \/ ClaimStale(a, t) \/ Heartbeat(a, t)
               \/ Complete(a, t) \/ ReviewHandoff(a, t) \/ RowRead(a, t)
               \/ \E cut \in BOOLEAN : AcquireGuard(a, t, cut)
        PROVE  LeaseInv'
    <2>1. ASSUME NEW cut \in BOOLEAN, AcquireGuard(a, t, cut) PROVE LeaseInv'
      BY <1>1, <2>1 DEF AcquireGuard
    <2> QED
      BY <1>0, <1>6, <2>1, NoRowSteps, ClaimReadyLease, ClaimStaleLease, HeartbeatLease, HandBackLease
  <1>7. ASSUME NEW a \in Agent,
               \/ ReleaseUpsertLease(a) \/ UpsertTask(a) \/ Interrupted(a) \/ ForgetGuard(a)
               \/ \E cut \in BOOLEAN : RefreshGuard(a, cut) \/ ReleaseGuard(a, cut)
        PROVE  LeaseInv'
    <2>1. ASSUME NEW cut \in BOOLEAN, RefreshGuard(a, cut) \/ ReleaseGuard(a, cut) PROVE LeaseInv'
      BY <1>1, <2>1 DEF RefreshGuard, ReleaseGuard
    <2>2. CASE ForgetGuard(a)
      BY <1>1, <2>2 DEF ForgetGuard
    <2> QED
      BY <1>0, <1>7, <2>1, <2>2, NoRowSteps
  <1>8. ASSUME NEW p \in Puller,
               \/ PullStart(p) \/ ReconcileRead(p) \/ PullEnd(p)
               \/ \E t \in Task : PullReady(p, t) \/ PullBlocker(p, t) \/ ReconcileWrite(p, t)
        PROVE  LeaseInv'
    BY <1>8, PullStepLease
  <1> QED
    BY <1>2, <1>3, <1>4, <1>5, <1>6, <1>7, <1>8 DEF Next

LEMMA InitLeaseInv == Init => LeaseInv
  <1> SUFFICES ASSUME Init PROVE LeaseInv
    OBVIOUS
  <1>1. Len(leases) = 0
    BY EmptySeq DEF Init
  <1>2. NoneStarted /\ ListedUnleased
    BY DEF Init, NoneStarted, ListedUnleased
  <1>3. LeaseToTask
    BY <1>1 DEF LeaseToTask
  <1>4. TaskToLease
    BY DEF Init, TaskToLease, TaskRow
  <1> QED
    BY <1>2, <1>3, <1>4 DEF LeaseInv

\* Leases and tasks refer to each other, in every behaviour in which each
\* command is one transaction.
LEMMA LeaseInvariance ==
    ASSUME RowCommands = {}
    PROVE  Spec => [](TypeInv /\ LeaseInv)
  <1>1. Init => TypeInv /\ LeaseInv
    BY InitTypeInv, InitLeaseInv
  <1>2. TypeInv /\ LeaseInv /\ [Next]_vars => (TypeInv /\ LeaseInv)'
    BY NextTypeInv, LeaseStep
  <1> QED
    BY <1>1, <1>2, PTL DEF Spec

LEMMA LeaseInvSafe == TypeInv /\ LeaseInv => Exclusion /\ LiveLeaseKept /\ ActiveLeaseOrNull
  <1> SUFFICES ASSUME TypeInv, LeaseInv PROVE Exclusion /\ LiveLeaseKept /\ ActiveLeaseOrNull
    OBVIOUS
  <1>1. LiveLeaseKept
    BY DEF LeaseInv, LeaseToTask, LiveLeaseKept, Live
  <1>2. Exclusion
    BY DEF LeaseInv, LeaseToTask, Exclusion, Live
  <1>3. ActiveLeaseOrNull
    BY DEF LeaseInv, TaskToLease, ActiveLeaseOrNull
  <1> QED
    BY <1>1, <1>2, <1>3

\* No task ever has two live leases, for any number of agents, tasks, leases,
\* sweeps and overlapping pulls, as long as each command is one transaction.
THEOREM LeaseExcludes ==
    ASSUME RowCommands = {}
    PROVE  Spec => []Exclusion
  BY LeaseInvariance, LeaseInvSafe, PTL

\* No sweep, takeover or snapshot takes a live lease away from its task.
THEOREM LiveLeasesAreKept ==
    ASSUME RowCommands = {}
    PROVE  Spec => []LiveLeaseKept
  BY LeaseInvariance, LeaseInvSafe, PTL

\* The lease id of a task is that of an unreleased lease, or null.
THEOREM LeaseIdsAreActive ==
    ASSUME RowCommands = {}
    PROVE  Spec => []ActiveLeaseOrNull
  BY LeaseInvariance, LeaseInvSafe, PTL
-----------------------------------------------------------------------------
(* One agent, whatever commands it uses.  It grants all leases, and none while it
   is in the middle of a command, so the row that a command will write back still
   names the lease that its task has, if there is one: in between the sweep can
   only have released it, and the pulls keep a leased row. *)

CommandToLease ==
    \A a \in Agent : command[a] # NoCommand =>
        \A l \in 1 .. Len(leases) : ~leases[l].released /\ leases[l].task = command[a].task =>
            /\ command[a].row.lease = l /\ command[a].row.owner = leases[l].holder
            /\ ~(command[a].op = "release" /\ command[a].step = "row")

AloneInv == LeaseToTask /\ CommandToLease

\* A step that grants nothing and starts no command, and after which every task
\* still has the lease it had, unless that is released.
LEMMA AloneStays ==
    ASSUME TypeInv, AloneInv, Len(leases') = Len(leases),
           \A l \in 1 .. Len(leases) :
               /\ leases'[l].task = leases[l].task /\ leases'[l].holder = leases[l].holder
               /\ leases[l].released => leases'[l].released,
           \A l \in 1 .. Len(leases) : ~leases'[l].released =>
               /\ tasks'[leases[l].task].lease = l
               /\ tasks'[leases[l].task].owner = leases[l].holder,
           \A a \in Agent : command'[a] = NoCommand \/ command'[a] = command[a]
    PROVE  AloneInv'
  <1>1. LeaseToTask'
    BY DEF LeaseToTask
  <1>2. CommandToLease'
    <2> SUFFICES ASSUME NEW a \in Agent, command'[a] # NoCommand,
                        NEW l \in 1 .. Len(leases), ~leases'[l].released,
                        leases'[l].task = command'[a].task
                 PROVE  /\ command'[a].row.lease = l /\ command'[a].row.owner = leases'[l].holder
                        /\ ~(command'[a].op = "release" /\ command'[a].step = "row")
      BY DEF CommandToLease
    <2>1. command'[a] = command[a] /\ command[a] # NoCommand
      OBVIOUS
    <2>2. ~leases[l].released /\ leases[l].task = command[a].task
      BY <2>1
    <2> QED
      BY <2>1, <2>2 DEF AloneInv, CommandToLease
  <1> QED
    BY <1>1, <1>2 DEF AloneInv

\* A step that leaves the leases and the rows of the leased tasks alone.
LEMMA AloneIdle ==
    ASSUME TypeInv, AloneInv, UNCHANGED leases,
           \A u \in Task : tasks[u].lease # NoLease =>
               tasks'[u].lease = tasks[u].lease /\ tasks'[u].owner = tasks[u].owner,
           \A a \in Agent : command'[a] = NoCommand \/ command'[a] = command[a]
    PROVE  AloneInv'
  <1>1. \A l \in 1 .. Len(leases) : leases[l].task \in Task /\ l # NoLease
    BY Numbers DEF Lease, NoLease
  <1>2. \A l \in 1 .. Len(leases) : ~leases'[l].released =>
            /\ tasks'[leases[l].task].lease = l
            /\ tasks'[leases[l].task].owner = leases[l].holder
    BY <1>1 DEF AloneInv, LeaseToTask
  <1> QED
    BY <1>2, AloneStays

\* A step that releases a lease and rewrites the row of the task that has it.
LEMMA AloneHandedBack ==
    ASSUME TypeInv, AloneInv, NEW t \in Task, NEW r, tasks[t].lease # NoLease,
           leases' = ReleaseLease(tasks[t].lease), tasks' = [tasks EXCEPT ![t] = r],
           UNCHANGED command
    PROVE  AloneInv'
  <1>1. tasks[t].lease \in 1 .. Len(leases) /\ tasks \in [Task -> Row]
    BY Numbers DEF TypeInv, RowType
  <1>2. /\ Len(leases') = Len(leases)
        /\ \A m \in 1 .. Len(leases) :
              /\ leases'[m].task = leases[m].task /\ leases'[m].holder = leases[m].holder
              /\ leases'[m].released = (leases[m].released \/ m = tasks[t].lease)
    BY <1>1, ReleaseFacts
  <1>3. \A m \in 1 .. Len(leases) : leases[m].task \in Task
    BY Numbers DEF Lease
  <1>4. ASSUME NEW m \in 1 .. Len(leases), ~leases'[m].released
        PROVE  /\ tasks'[leases[m].task].lease = m
               /\ tasks'[leases[m].task].owner = leases[m].holder
    <2>1. ~leases[m].released /\ m # tasks[t].lease
      BY <1>2, <1>4
    <2>2. tasks[leases[m].task].lease = m /\ tasks[leases[m].task].owner = leases[m].holder
      BY <2>1 DEF AloneInv, LeaseToTask
    <2>3. leases[m].task # t
      BY <2>1, <2>2
    <2>4. tasks'[leases[m].task] = tasks[leases[m].task]
      BY <1>1, <1>3, <2>3
    <2> QED
      BY <2>2, <2>4
  <1>5. \A a \in Agent : command'[a] = command[a]
    OBVIOUS
  <1>6. \A m \in 1 .. Len(leases) : leases[m].released => leases'[m].released
    BY <1>2
  <1> QED
    BY <1>2, <1>4, <1>5, <1>6, AloneStays

\* A claim finds the only agent, and so every agent, without a command.
LEMMA AloneClaim ==
    ASSUME TypeInv, AloneInv, \A a, b \in Agent : a = b, NEW a \in Agent, NEW t \in Task,
           ClaimReady(a, t) \/ ClaimStale(a, t)
    PROVE  AloneInv'
  <1>1. command[a] = NoCommand /\ UNCHANGED command
    BY DEF ClaimReady, ClaimStale
  <1>2. CommandToLease'
    BY <1>1 DEF CommandToLease
  <1>3. tasks' = [tasks EXCEPT ![t] = Claimed(tasks[t], Len(leases) + 1, a)]
    BY DEF ClaimReady, ClaimStale
  <1>4. LeaseToTask
    BY DEF AloneInv
  <1>5. CASE ClaimReady(a, t)
    <2>1. leases' = Append(leases, Granted(t, a)) /\ tasks[t].lease = NoLease
      BY <1>5 DEF ClaimReady
    <2>2. leases \in Seq(Lease)
      BY DEF TypeInv, LeaseType
    <2>3. \A m \in 1 .. Len(leases) : leases[m].released \in BOOLEAN /\ m # tasks[t].lease
      BY <2>1, Numbers DEF Lease, NoLease
    <2>4. \A m \in 1 .. Len(leases) : leases[m].released = (leases[m].released \/ m = tasks[t].lease)
      BY <2>3
    <2>5. LeaseToTask'
      BY <1>3, <1>4, <2>1, <2>2, <2>4, GrantLeaseToTask
    <2> QED
      BY <1>2, <2>5 DEF AloneInv
  <1>6. CASE ClaimStale(a, t)
    <2> DEFINE ls == ReleaseLease(tasks[t].lease)
    <2>1. leases' = Append(ls, Granted(t, a)) /\ tasks[t].lease # NoLease
      BY <1>6 DEF ClaimStale
    <2>2. tasks[t].lease \in 1 .. Len(leases)
      BY <2>1, Numbers
    <2>3. /\ ls \in Seq(Lease) /\ Len(ls) = Len(leases)
          /\ \A m \in 1 .. Len(leases) :
                /\ ls[m].task = leases[m].task /\ ls[m].holder = leases[m].holder
                /\ ls[m].released = (leases[m].released \/ m = tasks[t].lease)
      BY <2>2, ReleaseFacts
    <2> HIDE DEF ls
    <2>4. LeaseToTask'
      BY <1>3, <1>4, <2>1, <2>3, GrantLeaseToTask
    <2> QED
      BY <1>2, <2>4 DEF AloneInv
  <1> QED
    BY <1>5, <1>6

\* A command keeps the row it read: what the task's lease is, if it has one.
LEMMA AloneRead ==
    ASSUME TypeInv, AloneInv, NEW a \in Agent, NEW t \in Task, RowRead(a, t)
    PROVE  AloneInv'
  <1>0. UNCHANGED <<tasks, leases>>
    BY DEF RowRead
  <1>1. PICK op, to : command' = [command EXCEPT ![a] =
                 [op |-> op, step |-> IF op = "release" THEN "lease" ELSE "row",
                  task |-> t, row |-> tasks[t], to |-> to, at |-> now]]
    BY DEF RowRead
  <1> DEFINE c == [op |-> op, step |-> IF op = "release" THEN "lease" ELSE "row",
                   task |-> t, row |-> tasks[t], to |-> to, at |-> now]
  <1>2. /\ c.task = t /\ c.row = tasks[t] /\ c.op = op
        /\ c.step = IF op = "release" THEN "lease" ELSE "row"
    OBVIOUS
  <1>3. command' = [command EXCEPT ![a] = c] /\ command \in [Agent -> Command \cup {NoCommand}]
    BY <1>1 DEF TypeInv, CommandType
  <1>4. ~(c.op = "release" /\ c.step = "row")
    BY <1>2
  <1> HIDE DEF c
  <1>5. LeaseToTask'
    BY <1>0 DEF AloneInv, LeaseToTask
  <1>6. CommandToLease'
    <2> SUFFICES ASSUME NEW b \in Agent, command'[b] # NoCommand,
                        NEW l \in 1 .. Len(leases), ~leases[l].released,
                        leases[l].task = command'[b].task
                 PROVE  /\ command'[b].row.lease = l /\ command'[b].row.owner = leases[l].holder
                        /\ ~(command'[b].op = "release" /\ command'[b].step = "row")
      BY <1>0 DEF CommandToLease
    <2>1. CASE b = a
      <3>1. command'[b] = c
        BY <1>3, <2>1
      <3>2. tasks[t].lease = l /\ tasks[t].owner = leases[l].holder
        BY <1>2, <3>1 DEF AloneInv, LeaseToTask
      <3> QED
        BY <1>2, <1>4, <3>1, <3>2
    <2>2. CASE b # a
      <3>1. command'[b] = command[b]
        BY <1>3, <2>2
      <3> QED
        BY <3>1 DEF AloneInv, CommandToLease
    <2> QED
      BY <2>1, <2>2
  <1> QED
    BY <1>5, <1>6 DEF AloneInv

\* The first write of release: no lease of the task is left.
LEMMA AloneReleased ==
    ASSUME TypeInv, AloneInv, \A a, b \in Agent : a = b, NEW a \in Agent, ReleaseUpsertLease(a)
    PROVE  AloneInv'
  <1> DEFINE l == command[a].row.lease
             c == [command[a] EXCEPT !.step = "row", !.at = now]
  <1>0. /\ UNCHANGED tasks /\ leases' = ReleaseLease(l) /\ command[a] # NoCommand
        /\ command[a].step = "lease" /\ command' = [command EXCEPT ![a] = c]
    BY DEF ReleaseUpsertLease
  <1>1. /\ command[a] \in Command /\ Fits(command[a].row, Len(leases), now) /\ l # NoLease
        /\ command \in [Agent -> Command \cup {NoCommand}]
    BY <1>0 DEF TypeInv, CommandType
  <1>2. l \in 1 .. Len(leases)
    BY <1>1, Numbers DEF Fits, Row, NoLease
  <1>3. c.task = command[a].task
    BY <1>1 DEF Command
  <1>4. /\ Len(leases') = Len(leases)
        /\ \A m \in 1 .. Len(leases) :
              /\ leases'[m].task = leases[m].task /\ leases'[m].holder = leases[m].holder
              /\ leases'[m].released = (leases[m].released \/ m = l)
    BY <1>0, <1>2, ReleaseFacts
  <1>5. \A m \in 1 .. Len(leases) :
            ~leases[m].released /\ leases[m].task = command[a].task => m = l
    BY <1>0 DEF AloneInv, CommandToLease
  <1>6. \A b \in Agent : command'[b] = c
    BY <1>0, <1>1
  <1> HIDE DEF l, c
  <1>7. LeaseToTask'
    <2> SUFFICES ASSUME NEW m \in 1 .. Len(leases), ~leases'[m].released
                 PROVE  /\ tasks'[leases'[m].task].lease = m
                        /\ tasks'[leases'[m].task].owner = leases'[m].holder
      BY <1>4 DEF LeaseToTask
    <2>1. ~leases[m].released
      BY <1>4
    <2>2. tasks[leases[m].task].lease = m /\ tasks[leases[m].task].owner = leases[m].holder
      BY <2>1 DEF AloneInv, LeaseToTask
    <2> QED
      BY <1>0, <1>4, <2>2
  <1>8. ASSUME NEW b \in Agent, NEW m \in 1 .. Len(leases), ~leases'[m].released,
               leases'[m].task = command'[b].task
        PROVE  FALSE
    <2>1. ~leases[m].released /\ m # l
      BY <1>4, <1>8
    <2>2. leases[m].task = command[a].task
      BY <1>3, <1>4, <1>6, <1>8
    <2> QED
      BY <1>5, <2>1, <2>2
  <1>9. CommandToLease'
    BY <1>4, <1>8 DEF CommandToLease
  <1> QED
    BY <1>7, <1>9 DEF AloneInv

\* What the commands other than release write keeps the lease columns.
LEMMA WrittenLease ==
    ASSUME TypeInv, NEW a \in Agent, command[a] # NoCommand, command[a].op # "release"
    PROVE  /\ Written(command[a]).lease = command[a].row.lease
           /\ Written(command[a]).owner = command[a].row.owner
  <1> DEFINE c == command[a]
  <1>1. c \in Command
    BY DEF TypeInv, CommandType
  <1>2. c.row \in Row
    BY <1>1 DEF Command
  <1>3. Written(c) \in {Blocked(c.row), Unblocked(c.row), c.row, Moved(c.row, c.to)}
    BY DEF Written
  <1> HIDE DEF c
  <1>4. /\ Blocked(c.row).lease = c.row.lease /\ Blocked(c.row).owner = c.row.owner
        /\ Unblocked(c.row).lease = c.row.lease /\ Unblocked(c.row).owner = c.row.owner
        /\ Moved(c.row, c.to).lease = c.row.lease /\ Moved(c.row, c.to).owner = c.row.owner
    BY <1>2 DEF Blocked, Unblocked, Moved, Row
  <1>5. Written(c).lease = c.row.lease /\ Written(c).owner = c.row.owner
    BY <1>3, <1>4
  <1> QED
    BY <1>5 DEF c

\* The write of the whole row.
LEMMA AloneUpsert ==
    ASSUME TypeInv, AloneInv, NEW a \in Agent, UpsertTask(a)
    PROVE  AloneInv'
  <1> DEFINE t == command[a].task
             r == Written(command[a])
  <1>0. /\ UNCHANGED leases /\ tasks' = [tasks EXCEPT ![t] = r]
        /\ command[a] # NoCommand /\ command[a].step = "row"
        /\ command' = [command EXCEPT ![a] = NoCommand]
    BY DEF UpsertTask
  <1>1. t \in Task
    BY <1>0, WrittenFits
  <1>2. tasks \in [Task -> Row] /\ command \in [Agent -> Command \cup {NoCommand}]
    BY DEF TypeInv, RowType, CommandType
  <1>3. \A l \in 1 .. Len(leases) : ~leases[l].released /\ leases[l].task = t =>
            r.lease = l /\ r.owner = leases[l].holder
    <2> SUFFICES ASSUME NEW l \in 1 .. Len(leases), ~leases[l].released, leases[l].task = t
                 PROVE  r.lease = l /\ r.owner = leases[l].holder
      OBVIOUS
    <2>1. /\ command[a].row.lease = l /\ command[a].row.owner = leases[l].holder
          /\ command[a].op # "release"
      BY <1>0 DEF AloneInv, CommandToLease
    <2> QED
      BY <1>0, <2>1, WrittenLease
  <1> HIDE DEF t, r
  <1>4. \A l \in 1 .. Len(leases) : leases[l].task \in Task
    BY Numbers DEF Lease
  <1>5. ASSUME NEW l \in 1 .. Len(leases), ~leases[l].released
        PROVE  /\ tasks'[leases[l].task].lease = l
               /\ tasks'[leases[l].task].owner = leases[l].holder
    <2>1. CASE leases[l].task = t
      BY <1>0, <1>1, <1>2, <1>3, <1>5, <2>1
    <2>2. CASE leases[l].task # t
      <3>1. tasks'[leases[l].task] = tasks[leases[l].task]
        BY <1>0, <1>2, <1>4, <2>2
      <3> QED
        BY <1>5, <3>1 DEF AloneInv, LeaseToTask
    <2> QED
      BY <2>1, <2>2
  <1>6. \A b \in Agent : command'[b] = NoCommand \/ command'[b] = command[b]
    BY <1>0, <1>2
  <1> QED
    BY <1>0, <1>5, <1>6, AloneStays

\* Pulls leave the lease and the owner of a leased task.
LEMMA AlonePull ==
    ASSUME TypeInv, AloneInv, NEW p \in Puller,
           \/ PullStart(p) \/ ReconcileRead(p) \/ PullEnd(p)
           \/ \E t \in Task : PullReady(p, t) \/ PullBlocker(p, t) \/ ReconcileWrite(p, t)
    PROVE  AloneInv'
  <1>1. ASSUME NEW t \in Task, NEW new, NEW seen \in BOOLEAN, NEW row, PullWrites(p, t, new, seen, row)
        PROVE  AloneInv'
    <2>1. /\ Fits(new, Len(leases), now) /\ tasks' = [tasks EXCEPT ![t] = row]
          /\ row = tasks[t] \/ \E e : row = upsert_synced_task(tasks[t], new, seen, e)
          /\ UNCHANGED <<leases, command>>
      BY <1>1 DEF PullWrites
    <2>2. Len(leases) \in Nat /\ now \in Nat /\ Fits(tasks[t], Len(leases), now)
      BY Numbers DEF TypeInv, RowType
    <2>3. tasks[t].lease # NoLease => row.lease = tasks[t].lease /\ row.owner = tasks[t].owner
      <3>1. CASE row = tasks[t]
        BY <3>1
      <3>2. ASSUME NEW e, row = upsert_synced_task(tasks[t], new, seen, e)
            PROVE  tasks[t].lease # NoLease => row.lease = tasks[t].lease /\ row.owner = tasks[t].owner
        <4> DEFINE old == tasks[t]
        <4>1. Fits(old, Len(leases), now) /\ row = upsert_synced_task(old, new, seen, e)
          BY <2>2, <3>2
        <4> HIDE DEF old
        <4>2. \/ row.lease = old.lease /\ row.owner = old.owner /\ row.status = old.status
              \/ old.lease = NoLease /\ row.lease = new.lease
          BY <2>1, <2>2, <4>1, UpsertFacts
        <4> QED
          BY <4>2 DEF old
      <3> QED
        BY <2>1, <3>1, <3>2
    <2>4. \A u \in Task : tasks[u].lease # NoLease =>
              tasks'[u].lease = tasks[u].lease /\ tasks'[u].owner = tasks[u].owner
      BY <2>1, <2>3 DEF TypeInv, RowType
    <2> QED
      BY <2>1, <2>4, AloneIdle
  <1>2. CASE PullStart(p) \/ ReconcileRead(p) \/ PullEnd(p)
    <2>1. UNCHANGED <<tasks, leases, command>>
      BY <1>2 DEF PullStart, ReconcileRead, PullEnd
    <2> QED
      BY <2>1, AloneIdle
  <1>3. ASSUME NEW t \in Task, PullReady(p, t) PROVE AloneInv'
    <2>1. PICK row : PullWrites(p, t, TaskRow("ready", FALSE, pull[p].at), TRUE, row)
      BY <1>3, PullReadyWrites
    <2> QED
      BY <1>1, <2>1
  <1>4. ASSUME NEW t \in Task, PullBlocker(p, t) PROVE AloneInv'
    <2>1. PICK row : PullWrites(p, t, TaskRow("blocked", FALSE, pull[p].at), FALSE, row)
      BY <1>4, PullBlockerWrites
    <2> QED
      BY <1>1, <2>1
  <1>5. ASSUME NEW t \in Task, ReconcileWrite(p, t) PROVE AloneInv'
    <2>1. PICK new \in Reconciled(p, t) : \E row : PullWrites(p, t, new, FALSE, row)
      BY <1>5, ReconcileWrites
    <2>2. PICK row : PullWrites(p, t, new, FALSE, row)
      BY <2>1
    <2> QED
      BY <1>1, <2>2
  <1> QED
    BY <1>2, <1>3, <1>4, <1>5

LEMMA AloneStep ==
    ASSUME \A a, b \in Agent : a = b
    PROVE  TypeInv /\ AloneInv /\ [Next]_vars => AloneInv'
  <1> SUFFICES ASSUME TypeInv, AloneInv, [Next]_vars PROVE AloneInv'
    OBVIOUS
  <1>1. ASSUME UNCHANGED <<tasks, leases, command>> PROVE AloneInv'
    BY <1>1, AloneIdle
  <1>2. CASE UNCHANGED vars
    BY <1>1, <1>2 DEF vars
  <1>3. CASE Tick \/ ObserveExpired \/ \E t \in Task, l \in 1 .. MaxLeases : ReclaimError(t, l)
    BY <1>1, <1>3 DEF Tick, ObserveExpired, ReclaimError
  <1>4. ASSUME NEW t \in Task, NEW l \in 1 .. MaxLeases, ReclaimOne(t, l) PROVE AloneInv'
    <2>1. CASE tasks[t].lease = l /\ ~leases[l].released /\ leases[l].expires < now
      <3>1. /\ leases' = ReleaseLease(tasks[t].lease) /\ UNCHANGED command
            /\ tasks' = [tasks EXCEPT ![t] = Reclaimed(tasks[t], now)]
        BY <1>4, <2>1 DEF ReclaimOne
      <3>2. tasks[t].lease # NoLease
        BY <2>1, BoundsAssumption DEF NoLease
      <3> QED
        BY <3>1, <3>2, AloneHandedBack
    <2>2. CASE ~(tasks[t].lease = l /\ ~leases[l].released /\ leases[l].expires < now)
      BY <1>1, <1>4, <2>2 DEF ReclaimOne
    <2> QED
      BY <2>1, <2>2
  <1>5. ASSUME NEW t \in Task, ReviewUnclaimed(t) PROVE AloneInv'
    <2>1. /\ UNCHANGED <<leases, command>> /\ tasks[t].lease = NoLease
          /\ tasks' = [tasks EXCEPT ![t] = InReview(tasks[t])]
      BY <1>5 DEF ReviewUnclaimed
    <2>2. \A u \in Task : tasks[u].lease # NoLease => tasks'[u] = tasks[u]
      BY <2>1 DEF TypeInv, RowType
    <2> QED
      BY <2>1, <2>2, AloneIdle
  <1>6. ASSUME NEW a \in Agent, NEW t \in Task, Heartbeat(a, t) PROVE AloneInv'
    <2>1. UNCHANGED <<tasks, command>>
      BY <1>6 DEF Heartbeat
    <2>2. /\ Len(leases') = Len(leases)
          /\ \A m \in 1 .. Len(leases) :
                /\ leases'[m].task = leases[m].task /\ leases'[m].holder = leases[m].holder
                /\ leases'[m].released = leases[m].released
      BY <1>6, HeartbeatFacts
    <2>3. \A m \in 1 .. Len(leases) : ~leases'[m].released =>
              tasks'[leases[m].task].lease = m /\ tasks'[leases[m].task].owner = leases[m].holder
      BY <2>1, <2>2 DEF AloneInv, LeaseToTask
    <2> QED
      BY <2>1, <2>2, <2>3, AloneStays
  <1>7. ASSUME NEW a \in Agent, NEW t \in Task, Complete(a, t) \/ ReviewHandoff(a, t) PROVE AloneInv'
    <2>1. /\ tasks[t].lease # NoLease /\ leases' = ReleaseLease(tasks[t].lease)
          /\ UNCHANGED command
      BY <1>7 DEF Complete, ReviewHandoff
    <2>2. PICK r : tasks' = [tasks EXCEPT ![t] = r]
      BY <1>7 DEF Complete, ReviewHandoff
    <2> QED
      BY <2>1, <2>2, AloneHandedBack
  <1>8. ASSUME NEW a \in Agent, Interrupted(a) PROVE AloneInv'
    <2>1. /\ UNCHANGED <<tasks, leases>> /\ command' = [command EXCEPT ![a] = NoCommand]
          /\ command \in [Agent -> Command \cup {NoCommand}]
      BY <1>8 DEF Interrupted, TypeInv, CommandType
    <2> QED
      BY <2>1, AloneIdle
  <1>9. ASSUME NEW a \in Agent, NEW cut \in BOOLEAN,
               \/ RefreshGuard(a, cut) \/ ReleaseGuard(a, cut) \/ ForgetGuard(a)
               \/ \E t \in Task : AcquireGuard(a, t, cut)
        PROVE  AloneInv'
    <2>1. UNCHANGED <<tasks, leases, command>>
      BY <1>9 DEF RefreshGuard, ReleaseGuard, ForgetGuard, AcquireGuard
    <2> QED
      BY <1>1, <2>1
  <1> QED
    BY <1>2, <1>3, <1>4, <1>5, <1>6, <1>7, <1>8, <1>9,
       AloneClaim, AloneRead, AloneReleased, AloneUpsert, AlonePull DEF Next, Sweep

LEMMA AloneInvariance ==
    ASSUME \A a, b \in Agent : a = b
    PROVE  Spec => [](TypeInv /\ AloneInv)
  <1>1. Init => AloneInv
    <2> SUFFICES ASSUME Init PROVE AloneInv
      OBVIOUS
    <2>1. Len(leases) = 0 /\ \A a \in Agent : command[a] = NoCommand
      BY EmptySeq DEF Init
    <2> QED
      BY <2>1 DEF AloneInv, LeaseToTask, CommandToLease
  <1>2. Init => TypeInv /\ AloneInv
    BY <1>1, InitTypeInv
  <1>3. TypeInv /\ AloneInv /\ [Next]_vars => (TypeInv /\ AloneInv)'
    BY NextTypeInv, AloneStep
  <1> QED
    BY <1>2, <1>3, PTL DEF Spec

\* With a single agent no task ever has two live leases, although release,
\* block, unblock, update, move and link_pr write back a whole row that sweeps
\* and pulls may have changed since, and although each may be interrupted.
THEOREM LoneAgentExcludes ==
    ASSUME \A a, b \in Agent : a = b
    PROVE  Spec => []Exclusion
  <1>1. AloneInv => Exclusion
    BY DEF AloneInv, LeaseToTask, Exclusion, Live
  <1> QED
    BY <1>1, AloneInvariance, PTL

\* With a single agent, whatever commands it uses, a live lease is the one that
\* its task refers to: nothing is written back that takes it away.
THEOREM LoneAgentKeepsLeases ==
    ASSUME \A a, b \in Agent : a = b
    PROVE  Spec => []LiveLeaseKept
  <1>1. AloneInv => LiveLeaseKept
    BY DEF AloneInv, LeaseToTask, LiveLeaseKept, Live
  <1> QED
    BY <1>1, AloneInvariance, PTL
-----------------------------------------------------------------------------
(* Cleanup guards.  A guard that an agent may still rely on is the one in the
   sidecar file, with the same expiry, whichever of its commands were cut off;
   so it keeps the other agents out of both kinds of command. *)

Holding(a) == held[a] # NoGuard /\ held[a].until > now

OnFile(a) == fileGuard[held[a].task] # NoGuard /\ Mine(a, fileGuard[held[a].task])

HoldIsOnFile == \A a \in Agent : Holding(a) => OnFile(a)

SameExpiry ==
    \A a \in Agent : held[a] # NoGuard /\ OnFile(a) =>
        fileGuard[held[a].task].until = held[a].until

\* The task has been given back by everyone who ever claimed it.
GivenBack(t) == \A l \in 1 .. Len(leases) : leases[l].task = t => leases[l].released

HoldIsGivenBack == \A a \in Agent : Holding(a) => GivenBack(held[a].task)

GuardInv == HoldIsOnFile /\ SameExpiry /\ HoldIsGivenBack

LEMMA HeldFacts ==
    ASSUME TypeInv, NEW a \in Agent, held[a] # NoGuard
    PROVE  held[a] \in Held /\ held[a].task \in Task /\ held[a].token \in Nat /\ held[a].until \in Nat
  <1>1. held[a] \in Held
    BY DEF TypeInv, GuardType
  <1> QED
    BY <1>1 DEF Held

\* Whoever holds a guard keeps claims and other guards away.
LEMMA HoldGuards ==
    ASSUME TypeInv, GuardInv, NEW a \in Agent, Holding(a)
    PROVE  /\ ActiveGuard(fileGuard[held[a].task]) /\ Guarded(held[a].task)
           /\ fileGuard[held[a].task].owner = a /\ GivenBack(held[a].task)
  BY DEF GuardInv, HoldIsOnFile, SameExpiry, HoldIsGivenBack, OnFile, Mine, Holding, ActiveGuard, Guarded

\* A lease appears only on a task without a guard.
LeaseNeedsNoGuard == \A t \in Task : GivenBack(t) /\ Guarded(t) => GivenBack(t)'

\* Granting is the only way to end that: leases are never unreleased.
LEMMA ReleasingNeedsNoGuard ==
    ASSUME \/ UNCHANGED leases
           \/ /\ Len(leases') = Len(leases)
              /\ \A l \in 1 .. Len(leases) : /\ leases'[l].task = leases[l].task
                                             /\ leases[l].released => leases'[l].released
    PROVE  LeaseNeedsNoGuard
  BY DEF LeaseNeedsNoGuard, GivenBack

\* A step that leaves the guards alone.
LEMMA GuardsStay ==
    ASSUME TypeInv, TypeInv', GuardInv, UNCHANGED <<fileGuard, held>>, now' >= now, LeaseNeedsNoGuard
    PROVE  GuardInv'
  <1>1. now \in Nat /\ now' \in Nat
    BY Numbers, BoundsAssumption DEF TypeInv, ClockType
  <1>2. \A a \in Agent : Holding(a)' => Holding(a) /\ held[a].task \in Task
    BY <1>1, HeldFacts DEF Holding
  <1>3. HoldIsOnFile' /\ SameExpiry'
    BY <1>2 DEF GuardInv, HoldIsOnFile, SameExpiry, OnFile, Mine
  <1>4. HoldIsGivenBack'
    <2> SUFFICES ASSUME NEW a \in Agent, Holding(a)' PROVE GivenBack(held[a].task)'
      BY DEF HoldIsGivenBack
    <2>1. Guarded(held[a].task) /\ GivenBack(held[a].task)
      BY <1>2, HoldGuards
    <2> QED
      BY <1>2, <2>1 DEF LeaseNeedsNoGuard
  <1> QED
    BY <1>3, <1>4 DEF GuardInv

\* A step that writes agent a's guard of task t to the file and hands it to a,
\* while no other agent holds one.
LEMMA GuardWritten ==
    ASSUME TypeInv, TypeInv', GuardInv, NEW a \in Agent, NEW t \in Task, NEW g \in Guard, NEW h,
           UNCHANGED <<now, leases>>, GivenBack(t),
           \A b \in Agent : b # a /\ Holding(b) => held[b].task # t,
           fileGuard' = [fileGuard EXCEPT ![t] = g], held' = [held EXCEPT ![a] = h],
           g.owner = a, g.token = h.token, g.until = h.until, h.task = t
    PROVE  GuardInv'
  <1>1. fileGuard'[t] = g /\ \A u \in Task : u # t => fileGuard'[u] = fileGuard[u]
    BY DEF TypeInv, GuardType
  <1>2. held'[a] = h /\ \A b \in Agent : b # a => held'[b] = held[b]
    BY DEF TypeInv, GuardType
  <1>3. g # NoGuard
    BY NoGuardAssumption
  <1>4. OnFile(a)' /\ fileGuard'[held'[a].task].until = held'[a].until
    BY <1>1, <1>2, <1>3 DEF OnFile, Mine
  <1>5. \A b \in Agent : b # a /\ held[b] # NoGuard => held[b].task \in Task
    BY HeldFacts
  <1>6. ASSUME NEW b \in Agent, b # a, held[b] # NoGuard, held[b].task # t
        PROVE  /\ OnFile(b)' = OnFile(b)
               /\ fileGuard'[held'[b].task].until = fileGuard[held[b].task].until
    BY <1>1, <1>2, <1>5, <1>6 DEF OnFile, Mine
  <1>7. ASSUME NEW b \in Agent, b # a, held[b] # NoGuard, held[b].task = t
        PROVE  ~OnFile(b)'
    BY <1>1, <1>2, <1>7 DEF OnFile, Mine
  <1>8. \A b \in Agent : b # a => Holding(b)' = Holding(b)
    BY <1>2 DEF Holding
  <1>9. HoldIsOnFile'
    <2> SUFFICES ASSUME NEW b \in Agent, Holding(b)' PROVE OnFile(b)'
      BY DEF HoldIsOnFile
    <2>1. CASE b = a
      BY <1>4, <2>1
    <2>2. CASE b # a
      <3>1. Holding(b) /\ held[b] # NoGuard /\ held[b].task # t
        BY <1>8, <2>2 DEF Holding
      <3>2. OnFile(b)
        BY <3>1 DEF GuardInv, HoldIsOnFile
      <3> QED
        BY <1>6, <2>2, <3>1, <3>2
    <2> QED
      BY <2>1, <2>2
  <1>10. SameExpiry'
    <2> SUFFICES ASSUME NEW b \in Agent, held'[b] # NoGuard, OnFile(b)'
                 PROVE  fileGuard'[held'[b].task].until = held'[b].until
      BY DEF SameExpiry
    <2>1. CASE b = a
      BY <1>4, <2>1
    <2>2. CASE b # a
      <3>1. held'[b] = held[b] /\ held[b] # NoGuard /\ held[b].task # t
        BY <1>2, <1>7, <2>2
      <3> QED
        BY <1>6, <2>2, <3>1 DEF GuardInv, SameExpiry
    <2> QED
      BY <2>1, <2>2
  <1>11. HoldIsGivenBack'
    BY <1>2, <1>8 DEF GuardInv, HoldIsGivenBack, GivenBack
  <1> QED
    BY <1>9, <1>10, <1>11 DEF GuardInv

\* A step that takes agent a's guard away from it, and may clear the file's.
LEMMA GuardDropped ==
    ASSUME TypeInv, TypeInv', GuardInv, NEW a \in Agent, NEW t \in Task,
           UNCHANGED <<now, leases>>, held' = [held EXCEPT ![a] = NoGuard],
           \/ fileGuard' = fileGuard
           \/ /\ fileGuard' = [fileGuard EXCEPT ![t] = NoGuard]
              /\ \A b \in Agent : b # a /\ Holding(b) => held[b].task # t
    PROVE  GuardInv'
  <1>1. held'[a] = NoGuard /\ \A b \in Agent : b # a => held'[b] = held[b]
    BY DEF TypeInv, GuardType
  <1>2. \A u \in Task : fileGuard'[u] \in {fileGuard[u], NoGuard}
    BY DEF TypeInv, GuardType
  <1>3. \A b \in Agent : held[b] # NoGuard => held[b].task \in Task
    BY HeldFacts
  <1>4. \A b \in Agent : Holding(b)' => Holding(b) /\ b # a /\ held[b] # NoGuard
    BY <1>1 DEF Holding
  <1>5. HoldIsOnFile'
    <2> SUFFICES ASSUME NEW b \in Agent, Holding(b)' PROVE OnFile(b)'
      BY DEF HoldIsOnFile
    <2>1. Holding(b) /\ b # a /\ held[b].task \in Task /\ held'[b] = held[b] /\ OnFile(b)
      BY <1>1, <1>3, <1>4 DEF GuardInv, HoldIsOnFile
    <2>2. fileGuard'[held[b].task] = fileGuard[held[b].task]
      BY <2>1 DEF TypeInv, GuardType
    <2> QED
      BY <2>1, <2>2 DEF OnFile, Mine
  <1>6. SameExpiry'
    <2> SUFFICES ASSUME NEW b \in Agent, held'[b] # NoGuard, OnFile(b)'
                 PROVE  fileGuard'[held'[b].task].until = held'[b].until
      BY DEF SameExpiry
    <2>1. held'[b] = held[b] /\ held[b] # NoGuard /\ held[b].task \in Task
      BY <1>1, <1>3
    <2>2. fileGuard'[held[b].task] = fileGuard[held[b].task]
      BY <1>2, <2>1 DEF OnFile
    <2> QED
      BY <2>1, <2>2 DEF OnFile, Mine, GuardInv, SameExpiry
  <1>7. HoldIsGivenBack'
    BY <1>1, <1>4 DEF GuardInv, HoldIsGivenBack, GivenBack
  <1> QED
    BY <1>5, <1>6, <1>7 DEF GuardInv

LEMMA AcquireGuardHold ==
    ASSUME TypeInv, TypeInv', LeaseToTask, GuardInv, NEW a \in Agent, NEW t \in Task,
           NEW cut \in BOOLEAN, AcquireGuard(a, t, cut)
    PROVE  GuardInv'
  <1> DEFINE g == [owner |-> a, token |-> guards + 1, until |-> now + GuardTtl]
             h == [task |-> t, token |-> g.token, until |-> g.until]
  <1>1. /\ UNCHANGED <<now, leases>> /\ ~Guarded(t) /\ tasks[t].lease = NoLease
        /\ fileGuard' = IF cut THEN fileGuard ELSE [fileGuard EXCEPT ![t] = g]
        /\ held' = IF cut THEN held ELSE [held EXCEPT ![a] = h]
    BY DEF AcquireGuard
  <1>2. CASE cut
    <2>1. now' >= now /\ LeaseNeedsNoGuard
      BY <1>1, Numbers, ReleasingNeedsNoGuard
    <2> QED
      BY <1>1, <1>2, <2>1, GuardsStay
  <1>3. CASE ~cut
    <2>1. g.owner = a /\ g.token = h.token /\ g.until = h.until /\ h.task = t
      OBVIOUS
    <2>2. g \in Guard
      <3>1. guards + 1 \in Nat /\ now + GuardTtl \in Nat
        BY Numbers DEF TypeInv, GuardType
      <3> QED
        BY <3>1 DEF Guard
    <2>3. \A b \in Agent : b # a /\ Holding(b) => held[b].task # t
      BY <1>1, HoldGuards
    <2>4. GivenBack(t)
      BY <1>1 DEF LeaseToTask, GivenBack, NoLease
    <2> HIDE DEF g, h
    <2> QED
      BY <1>1, <1>3, <2>1, <2>2, <2>3, <2>4, GuardWritten
  <1> QED
    BY <1>2, <1>3

LEMMA RefreshGuardHold ==
    ASSUME TypeInv, TypeInv', GuardInv, NEW a \in Agent, NEW cut \in BOOLEAN, RefreshGuard(a, cut)
    PROVE  GuardInv'
  <1> DEFINE t == held[a].task
             g == [fileGuard[t] EXCEPT !.until = now + GuardTtl]
             h == [held[a] EXCEPT !.until = now + GuardTtl]
  <1>1. /\ UNCHANGED <<now, leases>> /\ held[a] # NoGuard
        /\ ActiveGuard(fileGuard[t]) /\ Mine(a, fileGuard[t])
        /\ fileGuard' = IF cut THEN fileGuard ELSE [fileGuard EXCEPT ![t] = g]
        /\ held' = IF cut THEN held ELSE [held EXCEPT ![a] = h]
    BY DEF RefreshGuard
  <1>2. CASE cut
    <2>1. now' >= now /\ LeaseNeedsNoGuard
      BY <1>1, Numbers, ReleasingNeedsNoGuard
    <2> QED
      BY <1>1, <1>2, <2>1, GuardsStay
  <1>3. CASE ~cut
    <2>1. held[a] \in Held /\ t \in Task
      BY <1>1, HeldFacts
    <2>2. fileGuard[t] \in Guard /\ fileGuard[t].owner = a /\ fileGuard[t].token = held[a].token
      BY <1>1, <2>1 DEF TypeInv, GuardType, ActiveGuard, Mine
    <2>3. /\ g \in Guard /\ g.owner = a /\ g.token = h.token /\ g.until = h.until /\ h.task = t
      <3>1. now + GuardTtl \in Nat
        BY Numbers
      <3>2. h.task = t /\ h.token = held[a].token /\ h.until = now + GuardTtl
        BY <2>1 DEF Held
      <3>3. /\ g \in Guard /\ g.owner = fileGuard[t].owner /\ g.token = fileGuard[t].token
            /\ g.until = now + GuardTtl
        BY <2>2, <3>1 DEF Guard
      <3> QED
        BY <2>2, <3>2, <3>3
    <2>4. Holding(a)
      <3>1. OnFile(a)
        BY <1>1 DEF OnFile, ActiveGuard
      <3>2. fileGuard[t].until = held[a].until
        BY <1>1, <3>1 DEF GuardInv, SameExpiry
      <3> QED
        BY <1>1, <3>2 DEF Holding, ActiveGuard
    <2>5. GivenBack(t)
      BY <2>4, HoldGuards
    <2>6. \A b \in Agent : b # a /\ Holding(b) => held[b].task # t
      BY <2>2, HoldGuards
    <2> HIDE DEF g, h, t
    <2> QED
      BY <1>1, <1>3, <2>1, <2>3, <2>5, <2>6, GuardWritten
  <1> QED
    BY <1>2, <1>3

LEMMA ReleaseGuardHold ==
    ASSUME TypeInv, TypeInv', GuardInv, NEW a \in Agent, NEW cut \in BOOLEAN, ReleaseGuard(a, cut)
    PROVE  GuardInv'
  <1> DEFINE t == held[a].task
  <1>1. /\ UNCHANGED <<now, leases>> /\ held[a] # NoGuard
        /\ Mine(a, IF ActiveGuard(fileGuard[t]) THEN fileGuard[t] ELSE dbGuard[t])
        /\ fileGuard' = IF cut THEN fileGuard ELSE [fileGuard EXCEPT ![t] = NoGuard]
        /\ held' = IF cut THEN held ELSE [held EXCEPT ![a] = NoGuard]
    BY DEF ReleaseGuard
  <1>2. CASE cut
    <2>1. now' >= now /\ LeaseNeedsNoGuard
      BY <1>1, Numbers, ReleasingNeedsNoGuard
    <2> QED
      BY <1>1, <1>2, <2>1, GuardsStay
  <1>3. CASE ~cut
    <2>1. t \in Task
      BY <1>1, HeldFacts
    <2>2. ASSUME NEW b \in Agent, b # a, Holding(b), held[b].task = t PROVE FALSE
      <3>1. ActiveGuard(fileGuard[t]) /\ fileGuard[t].owner = b
        BY <2>2, HoldGuards
      <3> QED
        BY <1>1, <2>2, <3>1 DEF Mine
    <2> HIDE DEF t
    <2> QED
      BY <1>1, <1>3, <2>1, <2>2, GuardDropped
  <1> QED
    BY <1>2, <1>3

LEMMA ForgetGuardHold ==
    ASSUME TypeInv, TypeInv', GuardInv, NEW a \in Agent, ForgetGuard(a)
    PROVE  GuardInv'
  <1>1. /\ UNCHANGED <<now, leases>> /\ held' = [held EXCEPT ![a] = NoGuard]
        /\ fileGuard' = fileGuard /\ held[a] # NoGuard
    BY DEF ForgetGuard
  <1>2. held[a].task \in Task
    BY <1>1, HeldFacts
  <1> QED
    BY <1>1, <1>2, GuardDropped

LEMMA ClaimNeedsNoGuard ==
    ASSUME TypeInv, NEW a \in Agent, NEW t \in Task, ClaimReady(a, t) \/ ClaimStale(a, t)
    PROVE  LeaseNeedsNoGuard
  <1>1. PICK ls \in Seq(Lease) :
           /\ Len(ls) = Len(leases) /\ leases' = Append(ls, Granted(t, a))
           /\ \A m \in 1 .. Len(leases) : /\ ls[m].task = leases[m].task
                                          /\ leases[m].released => ls[m].released
    <2>1. CASE ClaimReady(a, t)
      BY <2>1 DEF ClaimReady, TypeInv, LeaseType
    <2>2. CASE ClaimStale(a, t)
      <3> DEFINE ls == ReleaseLease(tasks[t].lease)
      <3>1. leases' = Append(ls, Granted(t, a)) /\ tasks[t].lease \in 1 .. Len(leases)
        BY <2>2, Numbers DEF ClaimStale
      <3>2. /\ ls \in Seq(Lease) /\ Len(ls) = Len(leases)
            /\ \A m \in 1 .. Len(leases) :
                  /\ ls[m].task = leases[m].task
                  /\ ls[m].released = (leases[m].released \/ m = tasks[t].lease)
        BY <3>1, ReleaseFacts
      <3> HIDE DEF ls
      <3>3. \A m \in 1 .. Len(leases) : leases[m].released => ls[m].released
        BY <3>2
      <3> QED
        BY <3>1, <3>2, <3>3
    <2> QED
      BY <2>1, <2>2
  <1> DEFINE g == Granted(t, a)
             n == Len(leases) + 1
  <1>2. g \in Lease /\ g.task = t /\ ~Guarded(t) /\ Len(leases) \in Nat
    BY GrantFacts, Numbers DEF ClaimReady, ClaimStale
  <1>3. leases' = Append(ls, g)
    BY <1>1
  <1> HIDE DEF g
  <1>4. /\ Len(leases') = n /\ leases'[n] = g
        /\ \A m \in 1 .. Len(leases) : leases'[m] = ls[m]
    BY <1>1, <1>2, <1>3, AppendProperties
  <1>5. \A m \in 1 .. n : m \in 1 .. Len(leases) \/ m = n
    BY <1>2
  <1> HIDE DEF n
  <1>6. SUFFICES ASSUME NEW u \in Task, GivenBack(u), Guarded(u),
                        NEW m \in 1 .. n, leases'[m].task = u
                 PROVE  leases'[m].released
    BY <1>4 DEF LeaseNeedsNoGuard, GivenBack
  <1>7. m \in 1 .. Len(leases)
    BY <1>2, <1>4, <1>5, <1>6
  <1> QED
    BY <1>1, <1>4, <1>6, <1>7 DEF GivenBack

\* The steps that release a lease.
LEMMA ReleaseNeedsNoGuard ==
    ASSUME TypeInv, NEW l \in 1 .. Len(leases), leases' = ReleaseLease(l)
    PROVE  LeaseNeedsNoGuard
  <1>1. /\ Len(leases') = Len(leases)
        /\ \A m \in 1 .. Len(leases) :
              /\ leases'[m].task = leases[m].task
              /\ leases'[m].released = (leases[m].released \/ m = l)
    BY ReleaseFacts
  <1>2. \A m \in 1 .. Len(leases) : leases[m].released => leases'[m].released
    BY <1>1
  <1> QED
    BY <1>1, <1>2, ReleasingNeedsNoGuard

LEMMA AgentNeedsNoGuard ==
    ASSUME TypeInv, NEW a \in Agent,
           \/ ReleaseUpsertLease(a) \/ UpsertTask(a) \/ Interrupted(a)
           \/ \E t \in Task : \/ ClaimReady(a, t) \/ ClaimStale(a, t) \/ Heartbeat(a, t)
                               \/ Complete(a, t) \/ ReviewHandoff(a, t) \/ RowRead(a, t)
    PROVE  LeaseNeedsNoGuard
  <1>1. ASSUME NEW t \in Task, ClaimReady(a, t) \/ ClaimStale(a, t) PROVE LeaseNeedsNoGuard
    BY <1>1, ClaimNeedsNoGuard
  <1>2. ASSUME NEW t \in Task, Heartbeat(a, t) PROVE LeaseNeedsNoGuard
    <2>1. /\ Len(leases') = Len(leases)
          /\ \A m \in 1 .. Len(leases) : /\ leases'[m].task = leases[m].task
                                         /\ leases'[m].released = leases[m].released
      BY <1>2, HeartbeatFacts
    <2> QED
      BY <2>1, ReleasingNeedsNoGuard
  <1>3. ASSUME NEW t \in Task, Complete(a, t) \/ ReviewHandoff(a, t) PROVE LeaseNeedsNoGuard
    <2>1. tasks[t].lease # NoLease /\ leases' = ReleaseLease(tasks[t].lease)
      BY <1>3 DEF Complete, ReviewHandoff
    <2>2. tasks[t].lease \in 1 .. Len(leases)
      BY <2>1, Numbers
    <2> QED
      BY <2>1, <2>2, ReleaseNeedsNoGuard
  <1>4. CASE ReleaseUpsertLease(a)
    <2>1. /\ leases' = ReleaseLease(command[a].row.lease) /\ command[a] # NoCommand
          /\ command[a].step = "lease"
      BY <1>4 DEF ReleaseUpsertLease
    <2>2. Fits(command[a].row, Len(leases), now) /\ command[a].row.lease # NoLease
      BY <2>1 DEF TypeInv, CommandType
    <2>3. command[a].row.lease \in 1 .. Len(leases)
      BY <2>2, Numbers DEF Fits, Row, NoLease
    <2> QED
      BY <2>1, <2>3, ReleaseNeedsNoGuard
  <1>5. CASE UpsertTask(a) \/ Interrupted(a) \/ \E t \in Task : RowRead(a, t)
    <2>1. UNCHANGED leases
      BY <1>5 DEF UpsertTask, Interrupted, RowRead
    <2> QED
      BY <2>1, ReleasingNeedsNoGuard
  <1> QED
    BY <1>1, <1>2, <1>3, <1>4, <1>5

LEMMA ReclaimNeedsNoGuard ==
    ASSUME TypeInv, NEW t \in Task, NEW l \in 1 .. MaxLeases, ReclaimOne(t, l)
    PROVE  LeaseNeedsNoGuard
  <1>1. CASE tasks[t].lease = l /\ ~leases[l].released /\ leases[l].expires < now
    <2>1. leases' = ReleaseLease(l)
      BY <1>1 DEF ReclaimOne
    <2>2. l # NoLease
      BY BoundsAssumption DEF NoLease
    <2>3. l \in 1 .. Len(leases)
      BY <1>1, <2>2, Numbers
    <2> QED
      BY <2>1, <2>3, ReleaseNeedsNoGuard
  <1>2. CASE ~(tasks[t].lease = l /\ ~leases[l].released /\ leases[l].expires < now)
    <2>1. UNCHANGED leases
      BY <1>2 DEF ReclaimOne
    <2> QED
      BY <2>1, ReleasingNeedsNoGuard
  <1> QED
    BY <1>1, <1>2

LEMMA GuardStep == TypeInv /\ TypeInv' /\ LeaseToTask /\ GuardInv /\ [Next]_vars => GuardInv'
  <1> SUFFICES ASSUME TypeInv, TypeInv', LeaseToTask, GuardInv, [Next]_vars PROVE GuardInv'
    OBVIOUS
  <1>0. now \in Nat
    BY Numbers
  <1>1. ASSUME UNCHANGED <<leases, guardVars>>, now' >= now PROVE GuardInv'
    BY <1>1, GuardsStay, ReleasingNeedsNoGuard DEF guardVars
  <1>2. ASSUME UNCHANGED <<now, guardVars>>, LeaseNeedsNoGuard PROVE GuardInv'
    BY <1>0, <1>2, GuardsStay DEF guardVars
  <1>3. CASE UNCHANGED vars
    BY <1>0, <1>1, <1>3 DEF vars, guardVars
  <1>4. CASE \/ Tick \/ ObserveExpired
             \/ \E t \in Task, l \in 1 .. MaxLeases : ReclaimError(t, l)
             \/ \E t \in Task : ReviewUnclaimed(t)
    <2>1. UNCHANGED <<leases, guardVars>> /\ now' \in {now, now + 1}
      BY <1>4 DEF Tick, ObserveExpired, ReclaimError, ReviewUnclaimed
    <2>2. now' >= now
      BY <1>0, <2>1
    <2> QED
      BY <1>1, <2>1, <2>2
  <1>5. ASSUME NEW t \in Task, NEW l \in 1 .. MaxLeases, ReclaimOne(t, l) PROVE GuardInv'
    BY <1>2, <1>5, ReclaimNeedsNoGuard DEF ReclaimOne
  <1>6. ASSUME NEW a \in Agent,
               \/ ReleaseUpsertLease(a) \/ UpsertTask(a) \/ Interrupted(a)
               \/ \E t \in Task : \/ ClaimReady(a, t) \/ ClaimStale(a, t) \/ Heartbeat(a, t)
                                   \/ Complete(a, t) \/ ReviewHandoff(a, t) \/ RowRead(a, t)
        PROVE  GuardInv'
    <2>1. UNCHANGED <<now, guardVars>>
      BY <1>6 DEF ReleaseUpsertLease, UpsertTask, Interrupted, ClaimReady, ClaimStale, Heartbeat,
                  Complete, ReviewHandoff, RowRead
    <2> QED
      BY <1>2, <1>6, <2>1, AgentNeedsNoGuard
  <1>7. ASSUME NEW p \in Puller,
               \/ PullStart(p) \/ ReconcileRead(p) \/ PullEnd(p)
               \/ \E t \in Task : PullReady(p, t) \/ PullBlocker(p, t) \/ ReconcileWrite(p, t)
        PROVE  GuardInv'
    <2>1. UNCHANGED <<leases, guardVars>> /\ now' = now
      BY <1>7 DEF PullStart, ReconcileRead, PullEnd, PullReady, PullBlocker, ReconcileWrite
    <2> QED
      BY <1>0, <1>1, <2>1
  <1> QED
    BY <1>3, <1>4, <1>5, <1>6, <1>7, AcquireGuardHold, RefreshGuardHold, ReleaseGuardHold,
       ForgetGuardHold DEF Next, Sweep

LEMMA GuardInvSafe == TypeInv /\ GuardInv => CleanupExclusion
  <1> SUFFICES ASSUME TypeInv, GuardInv, NEW a \in Agent, Holding(a)
               PROVE  /\ \A l \in 1 .. Len(leases) : leases[l].task = held[a].task => ~Live(l)
                      /\ \A b \in Agent \ {a} :
                            held[b] # NoGuard /\ held[b].task = held[a].task => held[b].until <= now
    BY DEF CleanupExclusion, Holding
  <1>1. \A l \in 1 .. Len(leases) : leases[l].task = held[a].task => ~Live(l)
    BY HoldGuards DEF GivenBack, Live
  <1>2. ASSUME NEW b \in Agent, b # a, held[b] # NoGuard, held[b].task = held[a].task
        PROVE  held[b].until <= now
    <2>1. ~Holding(b)
      <3>1. fileGuard[held[a].task].owner = a
        BY HoldGuards
      <3> QED
        BY <1>2, <3>1, HoldGuards
    <2>2. held[b].until \in Nat /\ now \in Nat
      BY <1>2, HeldFacts, Numbers
    <2> QED
      BY <1>2, <2>1, <2>2 DEF Holding
  <1> QED
    BY <1>1, <1>2

\* While an agent's cleanup guard runs, no lease on the task is live and no other
\* agent's guard runs, wherever guard commands were cut off between the database
\* and the file: among any number of agents when each row command is one
\* transaction, and for a single agent with all of its commands.
THEOREM CleanupExcludes ==
    ASSUME RowCommands = {} \/ \A a, b \in Agent : a = b
    PROVE  Spec => []CleanupExclusion
  <1>1. Init => GuardInv
    BY DEF Init, GuardInv, HoldIsOnFile, SameExpiry, HoldIsGivenBack, Holding
  <1>2. Spec => [](TypeInv /\ LeaseToTask)
    <2>1. CASE RowCommands = {}
      <3>1. TypeInv /\ LeaseInv => TypeInv /\ LeaseToTask
        BY DEF LeaseInv
      <3>2. Spec => [](TypeInv /\ LeaseInv)
        BY <2>1, LeaseInvariance
      <3> QED
        BY <3>1, <3>2, PTL
    <2>2. CASE \A a, b \in Agent : a = b
      <3>1. TypeInv /\ AloneInv => TypeInv /\ LeaseToTask
        BY DEF AloneInv
      <3>2. Spec => [](TypeInv /\ AloneInv)
        BY <2>2, AloneInvariance
      <3> QED
        BY <3>1, <3>2, PTL
    <2> QED
      BY <2>1, <2>2
  <1>3. TypeInv /\ LeaseToTask /\ (TypeInv /\ LeaseToTask)' /\ GuardInv /\ [Next]_vars => GuardInv'
    BY GuardStep
  <1> QED
    BY <1>1, <1>2, <1>3, GuardInvSafe, PTL DEF Spec
-----------------------------------------------------------------------------
(* Ready evidence, with one pull at a time.  Between a reclamation and the next
   pull the task carries the invalidation; a pull that finds none began after
   the last reclamation, and so did the rows that its reconciliation holds. *)

InvalidatedSince == \A t \in Task : tasks[t].invalid # 0 => tasks[t].invalid >= ended[t]

PullSince ==
    \A p \in Puller : pull[p] # NoPull =>
        \A t \in Task : tasks[t].invalid = 0 => pull[p].at >= ended[t]

ListedSince ==
    \A p \in Puller : pull[p] # NoPull =>
        \A t \in DOMAIN pull[p].rows : tasks[t].invalid = 0 =>
            /\ pull[p].rows[t].invalid = 0
            /\ pull[p].rows[t].pull # 0 => pull[p].rows[t].pull >= ended[t]

EvidenceInv == EvidenceFresh /\ InvalidatedSince /\ PullSince /\ ListedSince

LEMMA EvidenceNumbers ==
    ASSUME TypeInv
    PROVE  \A t \in Task : /\ tasks[t].pull \in Nat /\ tasks[t].invalid \in Nat
                           /\ ended[t] \in Nat /\ ended[t] <= now
  <1>1. \A t \in Task : tasks[t].pull \in Nat /\ tasks[t].invalid \in Nat
    BY Numbers DEF Row
  <1>2. \A t \in Task : ended[t] \in 0 .. now /\ now \in Nat
    BY Numbers DEF TypeInv, SweepType
  <1> QED
    BY <1>1, <1>2

\* A step that leaves the evidence, and what the pulls know of it, alone.
LEMMA EvidenceStays ==
    ASSUME TypeInv, EvidenceInv, UNCHANGED <<ended, pull>>,
           \A t \in Task : tasks'[t].pull = tasks[t].pull /\ tasks'[t].invalid = tasks[t].invalid
    PROVE  EvidenceInv'
  <1>1. EvidenceFresh' /\ InvalidatedSince' /\ PullSince'
    BY DEF EvidenceInv, EvidenceFresh, InvalidatedSince, PullSince
  <1>2. \A p \in Puller : pull[p] # NoPull => DOMAIN pull[p].rows \subseteq Task
    BY PullFacts
  <1>3. ListedSince'
    BY <1>2 DEF EvidenceInv, ListedSince
  <1> QED
    BY <1>1, <1>3 DEF EvidenceInv

\* A step that writes task t's row and keeps its evidence.
LEMMA RowKeepsEvidence ==
    ASSUME TypeInv, EvidenceInv, UNCHANGED <<ended, pull>>, NEW t \in Task, NEW r,
           tasks' = [tasks EXCEPT ![t] = r], r.pull = tasks[t].pull, r.invalid = tasks[t].invalid
    PROVE  EvidenceInv'
  <1>1. \A u \in Task : tasks'[u] = IF u = t THEN r ELSE tasks[u]
    BY DEF TypeInv, RowType
  <1>2. \A u \in Task : tasks'[u].pull = tasks[u].pull /\ tasks'[u].invalid = tasks[u].invalid
    BY <1>1
  <1> QED
    BY <1>2, EvidenceStays

LEMMA ClaimsKeepEvidence ==
    ASSUME TypeInv, EvidenceInv, NEW a \in Agent, NEW t \in Task,
           ClaimReady(a, t) \/ ClaimStale(a, t) \/ Heartbeat(a, t) \/ Complete(a, t) \/ ReviewHandoff(a, t)
    PROVE  EvidenceInv'
  <1>0. UNCHANGED <<ended, pull>> /\ tasks[t] \in Row
    BY Numbers DEF ClaimReady, ClaimStale, Heartbeat, Complete, ReviewHandoff
  <1>1. CASE Heartbeat(a, t)
    BY <1>0, <1>1, EvidenceStays DEF Heartbeat
  <1>2. CASE ClaimReady(a, t) \/ ClaimStale(a, t) \/ Complete(a, t) \/ ReviewHandoff(a, t)
    <2>1. PICK r \in {Claimed(tasks[t], Len(leases) + 1, a), Completed(tasks[t]), InReview(tasks[t])} :
             tasks' = [tasks EXCEPT ![t] = r]
      BY <1>2 DEF ClaimReady, ClaimStale, Complete, ReviewHandoff
    <2>2. r.pull = tasks[t].pull /\ r.invalid = tasks[t].invalid
      BY <1>0, <2>1, RowFields
    <2> QED
      BY <1>0, <2>1, <2>2, RowKeepsEvidence
  <1> QED
    BY <1>1, <1>2

LEMMA ReclaimDropsEvidence ==
    ASSUME TypeInv, TypeInv', EvidenceInv, NEW t \in Task, NEW l \in 1 .. MaxLeases, ReclaimOne(t, l)
    PROVE  EvidenceInv'
  <1>0. UNCHANGED pull
    BY DEF ReclaimOne
  <1>1. CASE tasks[t].lease = l /\ ~leases[l].released /\ leases[l].expires < now
    <2> DEFINE r == Reclaimed(tasks[t], now)
    <2>1. tasks' = [tasks EXCEPT ![t] = r] /\ ended' = [ended EXCEPT ![t] = now] /\ tasks[t] \in Row
      BY <1>1, Numbers DEF ReclaimOne
    <2>2. r.pull = 0 /\ r.invalid = now
      BY <2>1, RowFields
    <2>3. now \in Nat /\ now # 0 /\ now >= now
      BY Numbers
    <2> HIDE DEF r
    <2>4. \A u \in Task : /\ tasks'[u] = IF u = t THEN r ELSE tasks[u]
                          /\ ended'[u] = IF u = t THEN now ELSE ended[u]
      BY <2>1 DEF TypeInv, RowType, SweepType
    <2>5. EvidenceFresh' /\ InvalidatedSince' /\ PullSince'
      BY <1>0, <2>2, <2>3, <2>4 DEF EvidenceInv, EvidenceFresh, InvalidatedSince, PullSince
    <2>6. \A p \in Puller : pull[p] # NoPull => DOMAIN pull[p].rows \subseteq Task
      BY PullFacts
    <2>7. ListedSince'
      BY <1>0, <2>2, <2>3, <2>4, <2>6 DEF EvidenceInv, ListedSince
    <2> QED
      BY <2>5, <2>7 DEF EvidenceInv
  <1>2. CASE ~(tasks[t].lease = l /\ ~leases[l].released /\ leases[l].expires < now)
    BY <1>0, <1>2, EvidenceStays DEF ReclaimOne
  <1> QED
    BY <1>1, <1>2

\* The only pull, when it starts, lists or ends.
LEMMA PullKeepsEvidence ==
    ASSUME TypeInv, TypeInv', EvidenceInv, NEW p \in Puller, PullStart(p) \/ ReconcileRead(p) \/ PullEnd(p)
    PROVE  EvidenceInv'
  <1>0. UNCHANGED <<tasks, ended>>
    BY DEF PullStart, ReconcileRead, PullEnd
  <1>1. EvidenceFresh' /\ InvalidatedSince'
    BY <1>0 DEF EvidenceInv, EvidenceFresh, InvalidatedSince
  <1>2. CASE PullStart(p)
    <2> DEFINE q == [at |-> now, ready |-> {}, rows |-> Restrict(tasks, {})]
    <2>1. pull' = [pull EXCEPT ![p] = q]
      BY <1>2 DEF PullStart
    <2>2. DOMAIN q.rows = {} /\ q.at = now
      BY DEF Restrict
    <2> HIDE DEF q
    <2>3. \A o \in Puller : pull'[o] = IF o = p THEN q ELSE pull[o]
      BY <2>1 DEF TypeInv, PullType
    <2>4. PullSince'
      BY <1>0, <2>2, <2>3, EvidenceNumbers, Numbers DEF EvidenceInv, PullSince
    <2>5. ListedSince'
      BY <1>0, <2>2, <2>3 DEF EvidenceInv, ListedSince
    <2> QED
      BY <1>1, <2>4, <2>5 DEF EvidenceInv
  <1>3. CASE ReconcileRead(p)
    <2> DEFINE listed == {t \in Task : tasks[t].status \in {"ready", "blocked"}}
               q == [pull[p] EXCEPT !.rows = Restrict(tasks, listed)]
    <2>1. pull[p] # NoPull /\ pull' = [pull EXCEPT ![p] = q]
      BY <1>3 DEF ReconcileRead
    <2>2. pull[p] \in PullRecord
      BY <2>1, PullFacts
    <2>3. q.at = pull[p].at /\ q.rows = Restrict(tasks, listed)
      BY <2>2 DEF PullRecord
    <2>4. DOMAIN q.rows \subseteq Task /\ \A t \in DOMAIN q.rows : q.rows[t] = tasks[t]
      BY <2>3 DEF Restrict
    <2> HIDE DEF q, listed
    <2>5. \A o \in Puller : pull'[o] = IF o = p THEN q ELSE pull[o]
      BY <2>1 DEF TypeInv, PullType
    <2>6. PullSince'
      BY <1>0, <2>1, <2>3, <2>5 DEF EvidenceInv, PullSince
    <2>7. ListedSince'
      BY <1>0, <2>4, <2>5 DEF EvidenceInv, ListedSince, EvidenceFresh
    <2> QED
      BY <1>1, <2>6, <2>7 DEF EvidenceInv
  <1>4. CASE PullEnd(p)
    <2>1. \A o \in Puller : pull'[o] = IF o = p THEN NoPull ELSE pull[o]
      BY <1>4 DEF PullEnd, TypeInv, PullType
    <2>2. PullSince' /\ ListedSince'
      BY <1>0, <2>1 DEF EvidenceInv, PullSince, ListedSince
    <2> QED
      BY <1>1, <2>2 DEF EvidenceInv
  <1> QED
    BY <1>2, <1>3, <1>4

\* A write of the only pull: what it restores is no older than the last
\* reclamation, and an invalidation goes only against a newer ready entry, when
\* no rows are listed.
LEMMA PullWritesEvidence ==
    ASSUME TypeInv, TypeInv', EvidenceInv, NEW p \in Puller, \A o \in Puller : o = p,
           NEW t \in Task, NEW new, NEW seen \in BOOLEAN, NEW row, PullWrites(p, t, new, seen, row),
           new.lease = NoLease, new.pull \in Nat,
           tasks[t].invalid = 0 => new.invalid = 0 /\ (new.pull # 0 => new.pull >= ended[t]),
           seen => new.pull = pull[p].at /\ DOMAIN pull[p].rows = {},
           NEW q, pull' = [pull EXCEPT ![p] = q],
           \/ q = NoPull
           \/ /\ q.at = pull[p].at /\ DOMAIN q.rows \subseteq DOMAIN pull[p].rows
              /\ \A u \in DOMAIN q.rows : q.rows[u] = pull[p].rows[u]
    PROVE  EvidenceInv'
  <1>0. /\ pull[p] # NoPull /\ Fits(new, Len(leases), now) /\ UNCHANGED ended
        /\ tasks' = [tasks EXCEPT ![t] = row]
        /\ row = tasks[t] \/ \E e : row = upsert_synced_task(tasks[t], new, seen, e)
    BY DEF PullWrites
  <1> DEFINE fresh == seen /\ new.pull > tasks[t].invalid
  <1>1. \/ row = tasks[t]
        \/ /\ row.pull \in {0, new.pull}
           /\ tasks[t].invalid # 0 /\ ~fresh => row.pull = 0 /\ row.invalid = tasks[t].invalid
           /\ tasks[t].invalid # 0 /\ fresh => row.invalid = 0
           /\ tasks[t].invalid = 0 => row.invalid = new.invalid
    <2>1. CASE row = tasks[t]
      BY <2>1
    <2>2. CASE \E e : row = upsert_synced_task(tasks[t], new, seen, e)
      <3>1. PICK e : row = upsert_synced_task(tasks[t], new, seen, e)
        BY <2>2
      <3>2. /\ row.pull \in {0, new.pull}
            /\ tasks[t].invalid # 0 /\ ~(seen /\ new.pull > tasks[t].invalid) =>
                  row.pull = 0 /\ row.invalid = tasks[t].invalid
            /\ tasks[t].invalid # 0 /\ seen /\ new.pull > tasks[t].invalid => row.invalid = 0
            /\ tasks[t].invalid = 0 => row.invalid = new.invalid
        BY <3>1, <1>0, SnapshotRow, SMTT(30)
      <3> QED
        BY <3>2
    <2> QED
      BY <2>1, <2>2, <1>0
  <1>2. \A u \in Task : /\ tasks[u].pull \in Nat /\ tasks[u].invalid \in Nat /\ ended[u] \in Nat
                        /\ tasks'[u] = IF u = t THEN row ELSE tasks[u]
    BY <1>0, EvidenceNumbers DEF TypeInv, RowType
  <1>3. /\ tasks[t].pull # 0 => tasks[t].pull >= ended[t]
        /\ tasks[t].invalid # 0 => tasks[t].invalid >= ended[t]
        /\ tasks[t].invalid = 0 => pull[p].at >= ended[t]
    BY <1>0 DEF EvidenceInv, EvidenceFresh, InvalidatedSince, PullSince
  <1>4. pull[p].at \in Nat
    BY <1>0, PullFacts DEF PullRecord
  <1>5. fresh => pull[p].at >= ended[t] /\ new.pull >= ended[t]
    BY <1>2, <1>3, <1>4
  <1>6. row.pull # 0 => row.pull >= ended[t]
    <2>1. CASE row = tasks[t]
      BY <1>3, <2>1
    <2>2. CASE row # tasks[t] /\ row.pull = new.pull /\ tasks[t].invalid = 0
      BY <2>2
    <2>3. CASE row # tasks[t] /\ row.pull = new.pull /\ tasks[t].invalid # 0
      BY <1>1, <1>5, <2>3
    <2> QED
      BY <1>1, <2>1, <2>2, <2>3
  <1>7. row.invalid = tasks[t].invalid \/ (fresh /\ row.invalid = 0)
    BY <1>1
  <1> HIDE DEF fresh
  <1>8. EvidenceFresh'
    BY <1>0, <1>2, <1>6 DEF EvidenceInv, EvidenceFresh
  <1>9. InvalidatedSince'
    BY <1>0, <1>2, <1>3, <1>7 DEF EvidenceInv, InvalidatedSince
  <1>10. pull'[p] = q
    BY DEF TypeInv, PullType
  <1>11. PullSince'
    <2> SUFFICES ASSUME q # NoPull, NEW u \in Task, tasks'[u].invalid = 0 PROVE q.at >= ended[u]
      BY <1>0, <1>10 DEF PullSince
    <2>1. q.at = pull[p].at
      OBVIOUS
    <2>2. CASE u = t /\ fresh
      BY <1>5, <2>1, <2>2
    <2>3. CASE ~(u = t /\ fresh)
      <3>1. tasks[u].invalid = 0
        BY <1>2, <1>7, <2>3
      <3> QED
        BY <1>0, <2>1, <3>1 DEF EvidenceInv, PullSince
    <2> QED
      BY <2>2, <2>3
  <1>12. ListedSince'
    <2> SUFFICES ASSUME q # NoPull, NEW u \in DOMAIN q.rows, tasks'[u].invalid = 0
                 PROVE  q.rows[u].invalid = 0 /\ (q.rows[u].pull # 0 => q.rows[u].pull >= ended[u])
      BY <1>0, <1>10 DEF ListedSince
    <2>1. u \in DOMAIN pull[p].rows /\ q.rows[u] = pull[p].rows[u]
      OBVIOUS
    <2>2. ~seen /\ u \in Task
      BY <1>0, <2>1, PullFacts
    <2>3. tasks[u].invalid = 0
      BY <1>2, <1>7, <2>2 DEF fresh
    <2> QED
      BY <1>0, <2>1, <2>3 DEF EvidenceInv, ListedSince
  <1> QED
    BY <1>8, <1>9, <1>11, <1>12 DEF EvidenceInv

LEMMA PullStepEvidence ==
    ASSUME TypeInv, TypeInv', LeaseInv, EvidenceInv, NEW p \in Puller, \A o \in Puller : o = p,
           NEW t \in Task, PullReady(p, t) \/ PullBlocker(p, t) \/ ReconcileWrite(p, t)
    PROVE  EvidenceInv'
  <1>0. pull[p] # NoPull
    BY DEF PullReady, PullBlocker, ReconcileWrite
  <1>1. pull[p].at \in Nat /\ pull[p] \in PullRecord
    BY <1>0, PullFacts DEF PullRecord
  <1>2. tasks[t].invalid = 0 => pull[p].at >= ended[t]
    BY <1>0 DEF EvidenceInv, PullSince
  <1>3. CASE PullReady(p, t)
    <2> DEFINE new == TaskRow("ready", FALSE, pull[p].at)
               q == [pull[p] EXCEPT !.ready = @ \cup {t}]
    <2>1. new.lease = NoLease /\ new.pull = pull[p].at /\ new.invalid = 0 /\ TRUE \in BOOLEAN
      BY <1>0, EntryFacts
    <2>2. PICK row : PullWrites(p, t, new, TRUE, row)
      BY <1>3, PullReadyWrites
    <2>3. pull' = [pull EXCEPT ![p] = q] /\ DOMAIN pull[p].rows = {}
      BY <1>3 DEF PullReady
    <2>4. q.at = pull[p].at /\ q.rows = pull[p].rows
      BY <1>1 DEF PullRecord
    <2> HIDE DEF new, q
    <2>5. TRUE => new.pull = pull[p].at /\ DOMAIN pull[p].rows = {}
      BY <2>1, <2>3
    <2>6. /\ DOMAIN q.rows \subseteq DOMAIN pull[p].rows
          /\ \A u \in DOMAIN q.rows : q.rows[u] = pull[p].rows[u]
      BY <2>4
    <2> QED
      BY <1>1, <1>2, <2>1, <2>2, <2>3, <2>4, <2>5, <2>6, PullWritesEvidence
  <1>4. CASE PullBlocker(p, t)
    <2> DEFINE new == TaskRow("blocked", FALSE, pull[p].at)
    <2>1. new.lease = NoLease /\ new.pull = pull[p].at /\ new.invalid = 0 /\ FALSE \in BOOLEAN
      BY <1>0, EntryFacts
    <2>2. PICK row : PullWrites(p, t, new, FALSE, row)
      BY <1>4, PullBlockerWrites
    <2>3. pull' = [pull EXCEPT ![p] = pull[p]]
      BY <1>4 DEF PullBlocker, TypeInv, PullType
    <2> HIDE DEF new
    <2> QED
      BY <1>1, <1>2, <2>1, <2>2, <2>3, PullWritesEvidence
  <1>5. CASE ReconcileWrite(p, t)
    <2>1. t \in DOMAIN pull[p].rows /\ FALSE \in BOOLEAN
      BY <1>5, ReconcileWrites
    <2>2. PICK new \in Reconciled(p, t) : \E row : PullWrites(p, t, new, FALSE, row)
      BY <1>5, ReconcileWrites
    <2>3. PICK row : PullWrites(p, t, new, FALSE, row)
      BY <2>2
    <2>4. /\ new.lease = NoLease /\ new.pull = pull[p].rows[t].pull
          /\ new.invalid = pull[p].rows[t].invalid
      BY <1>0, <2>1, <2>2, ReconciledFacts DEF LeaseInv, ListedUnleased
    <2>5. new.pull \in Nat
      BY <1>0, <2>1, <2>2, ReconciledFacts DEF Fits, Row
    <2>6. tasks[t].invalid = 0 => new.invalid = 0 /\ (new.pull # 0 => new.pull >= ended[t])
      BY <1>0, <2>1, <2>4 DEF EvidenceInv, ListedSince
    <2>7. CASE pull' = [pull EXCEPT ![p] = NoPull]
      BY <2>1, <2>3, <2>4, <2>5, <2>6, <2>7, PullWritesEvidence
    <2>8. CASE \E q : /\ pull' = [pull EXCEPT ![p] = q] /\ q.at = pull[p].at
                      /\ DOMAIN q.rows \subseteq DOMAIN pull[p].rows
                      /\ \A u \in DOMAIN q.rows : q.rows[u] = pull[p].rows[u]
      <3>1. PICK q : /\ pull' = [pull EXCEPT ![p] = q] /\ q.at = pull[p].at
                     /\ DOMAIN q.rows \subseteq DOMAIN pull[p].rows
                     /\ \A u \in DOMAIN q.rows : q.rows[u] = pull[p].rows[u]
        BY <2>8
      <3> QED
        BY <2>1, <2>3, <2>4, <2>5, <2>6, <3>1, PullWritesEvidence
    <2> QED
      BY <1>5, <2>7, <2>8, ReconcileLeaves
  <1> QED
    BY <1>3, <1>4, <1>5

LEMMA EvidenceStep ==
    ASSUME RowCommands = {}, \A p, q \in Puller : p = q
    PROVE  TypeInv /\ TypeInv' /\ LeaseInv /\ EvidenceInv /\ [Next]_vars => EvidenceInv'
  <1> SUFFICES ASSUME TypeInv, TypeInv', LeaseInv, EvidenceInv, [Next]_vars PROVE EvidenceInv'
    OBVIOUS
  <1>0. NoneStarted
    BY DEF LeaseInv
  <1>1. ASSUME UNCHANGED <<tasks, ended, pull>> PROVE EvidenceInv'
    BY <1>1, EvidenceStays
  <1>2. CASE UNCHANGED vars
    BY <1>1, <1>2 DEF vars
  <1>3. CASE Tick \/ Sweep
    BY <1>1, <1>3, ReclaimDropsEvidence DEF Tick, Sweep, ObserveExpired
  <1>4. CASE \E t \in Task, l \in 1 .. MaxLeases : ReclaimError(t, l)
    BY <1>1, <1>4 DEF ReclaimError
  <1>5. ASSUME NEW t \in Task, ReviewUnclaimed(t) PROVE EvidenceInv'
    <2>1. /\ UNCHANGED <<ended, pull>> /\ tasks[t] \in Row
          /\ tasks' = [tasks EXCEPT ![t] = InReview(tasks[t])]
      BY <1>5, Numbers DEF ReviewUnclaimed
    <2>2. InReview(tasks[t]).pull = tasks[t].pull /\ InReview(tasks[t]).invalid = tasks[t].invalid
      BY <2>1, RowFields
    <2> QED
      BY <2>1, <2>2, RowKeepsEvidence
  <1>6. ASSUME NEW a \in Agent, NEW t \in Task,
               \/ ClaimReady(a, t) \/ ClaimStale(a, t) \/ Heartbeat(a, t)
               \/ Complete(a, t) \/ ReviewHandoff(a, t) \/ RowRead(a, t)
               \/ \E cut \in BOOLEAN : AcquireGuard(a, t, cut)
        PROVE  EvidenceInv'
    <2>1. ASSUME NEW cut \in BOOLEAN, AcquireGuard(a, t, cut) PROVE EvidenceInv'
      BY <1>1, <2>1 DEF AcquireGuard
    <2> QED
      BY <1>0, <1>6, <2>1, NoRowSteps, ClaimsKeepEvidence
  <1>7. ASSUME NEW a \in Agent,
               \/ ReleaseUpsertLease(a) \/ UpsertTask(a) \/ Interrupted(a) \/ ForgetGuard(a)
               \/ \E cut \in BOOLEAN : RefreshGuard(a, cut) \/ ReleaseGuard(a, cut)
        PROVE  EvidenceInv'
    <2>1. ASSUME NEW cut \in BOOLEAN, RefreshGuard(a, cut) \/ ReleaseGuard(a, cut) PROVE EvidenceInv'
      BY <1>1, <2>1 DEF RefreshGuard, ReleaseGuard
    <2>2. CASE ForgetGuard(a)
      BY <1>1, <2>2 DEF ForgetGuard
    <2> QED
      BY <1>0, <1>7, <2>1, <2>2, NoRowSteps
  <1>8. ASSUME NEW p \in Puller,
               \/ PullStart(p) \/ ReconcileRead(p) \/ PullEnd(p)
               \/ \E t \in Task : PullReady(p, t) \/ PullBlocker(p, t) \/ ReconcileWrite(p, t)
        PROVE  EvidenceInv'
    BY <1>8, PullKeepsEvidence, PullStepEvidence
  <1> QED
    BY <1>2, <1>3, <1>4, <1>5, <1>6, <1>7, <1>8 DEF Next

\* Ready evidence is never older than the last reclamation of its task, when one
\* pull runs at a time: a pull that began before a reclamation restores nothing,
\* neither from GitHub's answers nor from the rows it listed.
THEOREM EvidenceIsFresh ==
    ASSUME RowCommands = {}, \A p, q \in Puller : p = q
    PROVE  Spec => []EvidenceFresh
  <1>1. Init => EvidenceInv
    <2> SUFFICES ASSUME Init PROVE EvidenceInv
      OBVIOUS
    <2>1. \A t \in Task : tasks[t].invalid = 0 /\ tasks[t].pull = 1 /\ ended[t] = 0
      BY DEF Init, TaskRow
    <2>2. \A p \in Puller : pull[p] = NoPull
      BY DEF Init
    <2> QED
      BY <2>1, <2>2 DEF EvidenceInv, EvidenceFresh, InvalidatedSince, PullSince, ListedSince
  <1>2. TypeInv /\ LeaseInv /\ (TypeInv /\ LeaseInv)' /\ EvidenceInv /\ [Next]_vars => EvidenceInv'
    BY EvidenceStep
  <1>3. EvidenceInv => EvidenceFresh
    BY DEF EvidenceInv
  <1> QED
    BY <1>1, <1>2, <1>3, LeaseInvariance, PTL DEF Spec
=============================================================================
