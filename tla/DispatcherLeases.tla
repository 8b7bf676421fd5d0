-------------------------- MODULE DispatcherLeases --------------------------
(***************************************************************************)
(* The agent dispatcher (app/dispatcher: leases.py, queue.py, services.py, *)
(* the SQLite store and the pull of sync_github.py): agents claim tasks    *)
(* under leases that expire, an expiry sweep runs inside every "next",     *)
(* GitHub pulls write snapshots, and cleanup guards keep claims away while *)
(* an agent removes a task's resources.                                    *)
(*                                                                         *)
(* A BEGIN IMMEDIATE transaction is one step.  The commands that read a    *)
(* row, change the copy and upsert the WHOLE row (release, block, unblock, *)
(* update, move, link_pr) are a step per transaction, and so are the sweep *)
(* and the reconciliation of a pull, which act on what they read before.   *)
(***************************************************************************)
EXTENDS DispatcherRows, Sequences, Functions

CONSTANTS
    Task, Agent,
    Puller,          \* concurrent GitHub pulls
    RowCommands,     \* the read-then-upsert commands the agents use
    MoveTargets,     \* the statuses they update and move to
    Ttl,             \* of a lease
    GuardTtl,        \* of a cleanup guard
    NoGuard,
    MaxTime,         \* bound on the clock
    MaxLeases,       \* bound on claims
    MaxGuards,       \* bound on cleanup guards
    MaxFaults        \* bound on failing reclamations and cut-off guard commands

ASSUME TtlAssumption == Ttl \in Nat \ {0} /\ GuardTtl \in Nat \ {0}
ASSUME RowCommandsAssumption ==
    /\ RowCommands \subseteq {"release", "block", "unblock", "link_pr", "update", "move"}
    /\ MoveTargets \subseteq Status
ASSUME BoundsAssumption ==
    MaxTime \in Nat \ {0} /\ MaxLeases \in Nat /\ MaxGuards \in Nat /\ MaxFaults \in Nat
ASSUME NoAgentAssumption == NoAgent \notin Agent

VARIABLES
    now,        \* the clock
    tasks,      \* dispatcher_tasks
    leases,     \* dispatcher_leases, in the order of the grants
    observed,   \* the (task, lease) pairs the running sweeps have yet to reclaim
    command,    \* the row command each agent is in the middle of
    pull,       \* the pull each puller is in the middle of
    dbGuard,    \* cleanup guards in dispatcher_meta
    fileGuard,  \* cleanup guards in the sidecar files
    held,       \* the task, token and expiry of the guard each agent was handed
    guards,     \* guards handed out so far: the token of the last one
    ended,      \* history: the time stamped on each task's last release or reclamation
    faults

vars == <<now, tasks, leases, observed, command, pull, dbGuard, fileGuard,
          held, guards, ended, faults>>
guardVars == <<dbGuard, fileGuard, held, guards>>

Lease == [task : Task, holder : Agent, expires : Nat, released : BOOLEAN]
Row == [status : Status, lease : Nat, owner : Agent \cup {NoAgent}, blocked : BOOLEAN,
        pull : Nat, invalid : Nat, fence : Nat]
Guard == [owner : Agent, token : Nat, until : Nat]
ASSUME NoGuardAssumption == NoGuard \notin Guard

\* step: the transaction that comes next.  at: the "now" of a release.
Command == [op : RowCommands, step : {"lease", "row"}, task : Task, row : Row,
            to : Status, at : Nat]
NoCommand == [op |-> "none"]

\* at: pull_at.  ready: the validated ready issues written so far.
\* rows: the rows the reconciliation read and has yet to write.
NoPull == [at |-> 0]
IsPull(r) ==
    /\ r.at \in 1 .. now
    /\ r.ready \subseteq Task
    /\ DOMAIN r.rows \subseteq Task
    /\ \A t \in DOMAIN r.rows : r.rows[t] \in Row

\* What the clock bounds: no expiry lies further ahead than a fresh TTL, and
\* no stamp lies in the future.
TypeOK ==
    /\ now \in 1 .. MaxTime
    /\ tasks \in [Task -> Row]
    /\ \A t \in Task :
          /\ tasks[t].lease \in 0 .. Len(leases)
          /\ {tasks[t].pull, tasks[t].invalid, tasks[t].fence} \subseteq 0 .. now
    /\ Len(leases) <= MaxLeases
    /\ \A l \in 1 .. Len(leases) : leases[l] \in Lease /\ leases[l].expires <= now + Ttl
    /\ observed \subseteq Task \X (1 .. MaxLeases)
    /\ \A a \in Agent : command[a] \in Command \cup {NoCommand}
    /\ \A p \in Puller : pull[p] = NoPull \/ IsPull(pull[p])
    /\ \A t \in Task : {dbGuard[t], fileGuard[t]} \subseteq Guard \cup {NoGuard}
    /\ \A t \in Task : \A g \in {dbGuard[t], fileGuard[t]} \ {NoGuard} : g.until <= now + GuardTtl
    /\ guards \in 0 .. MaxGuards
    /\ ended \in [Task -> 0 .. now]
    /\ faults \in 0 .. MaxFaults

\* Every task was inserted by a pull that saw it ready.
Init ==
    /\ now = 1
    /\ tasks = [t \in Task |-> TaskRow("ready", FALSE, 1)]
    /\ leases = <<>>
    /\ observed = {}
    /\ command = [a \in Agent |-> NoCommand]
    /\ pull = [p \in Puller |-> NoPull]
    /\ dbGuard = [t \in Task |-> NoGuard]
    /\ fileGuard = [t \in Task |-> NoGuard]
    /\ held = [a \in Agent |-> NoGuard]
    /\ guards = 0
    /\ ended = [t \in Task |-> 0]
    /\ faults = 0

Fault ==
    /\ faults < MaxFaults
    /\ faults' = faults + 1
-----------------------------------------------------------------------------
\* Claims.  Claim and guard commands run one at a time, under the guard's file
\* lock; an agent runs one command at a time.

Expired(l) == leases[l].expires <= now

Live(l) == ~leases[l].released /\ ~Expired(l)

\* An expired guard is deleted by whoever reads it: as good as absent.
ActiveGuard(g) == g # NoGuard /\ g.until > now

Granted(t, a) == [task |-> t, holder |-> a, expires |-> now + Ttl, released |-> FALSE]

ReleaseLease(l) == [leases EXCEPT ![l].released = TRUE]

\* Variant of Guarded: the sidecar record is not consulted.
GuardedInDb(t) == ActiveGuard(dbGuard[t])

Guarded(t) == ActiveGuard(dbGuard[t]) \/ ActiveGuard(fileGuard[t])

\* claim of a ready, unleased task.
ClaimReady(a, t) ==
    /\ command[a] = NoCommand
    /\ Len(leases) < MaxLeases
    /\ ~Guarded(t)
    /\ tasks[t].lease = NoLease
    /\ tasks[t].status = "ready"
    /\ leases' = Append(leases, Granted(t, a))
    /\ tasks' = [tasks EXCEPT ![t] = Claimed(@, Len(leases) + 1, a)]
    /\ UNCHANGED <<now, observed, command, pull, guardVars, ended, faults>>

\* claim --takeover-stale of an expired, unreleased lease: the old lease is
\* released in the same transaction.  --expected-lease-id only narrows it.
ClaimStale(a, t) ==
    /\ command[a] = NoCommand
    /\ Len(leases) < MaxLeases
    /\ ~Guarded(t)
    /\ LET old == tasks[t].lease
       IN  /\ old # NoLease
           /\ ~leases[old].released
           /\ Expired(old)
           /\ leases' = Append(ReleaseLease(old), Granted(t, a))
    /\ tasks[t].status \in {"claimed", "ready"}
    /\ tasks' = [tasks EXCEPT ![t] = Claimed(@, Len(leases) + 1, a)]
    /\ UNCHANGED <<now, observed, command, pull, guardVars, ended, faults>>

\* Variant of Heartbeat: the TTL is added to the old expiry.
HeartbeatExtends(a, t) ==
    /\ command[a] = NoCommand
    /\ tasks[t].lease # NoLease
    /\ leases[tasks[t].lease].holder = a
    /\ Live(tasks[t].lease)
    /\ tasks[t].owner = a
    /\ leases' = [leases EXCEPT ![tasks[t].lease].expires = @ + Ttl]
    /\ UNCHANGED <<now, tasks, observed, command, pull, guardVars, ended, faults>>

\* The current holder renews a live lease for its TTL, from now.
Heartbeat(a, t) ==
    /\ command[a] = NoCommand
    /\ tasks[t].lease # NoLease
    /\ leases[tasks[t].lease].holder = a
    /\ Live(tasks[t].lease)
    /\ tasks[t].owner = a
    /\ leases' = [leases EXCEPT ![tasks[t].lease].expires = now + Ttl]
    /\ UNCHANGED <<now, tasks, observed, command, pull, guardVars, ended, faults>>

\* complete: the holder's, whether or not the lease has expired.
Complete(a, t) ==
    /\ command[a] = NoCommand
    /\ LET l == tasks[t].lease
       IN  /\ l # NoLease
           /\ leases[l].holder = a
           /\ ~leases[l].released
           /\ tasks[t].owner = a
           /\ leases' = ReleaseLease(l)
    /\ tasks' = [tasks EXCEPT ![t] = Completed(@)]
    /\ UNCHANGED <<now, observed, command, pull, guardVars, ended, faults>>

\* Variant of ReviewHandoff: the row keeps its lease id.
ReviewHandoffKeepsLease(a, t) ==
    /\ command[a] = NoCommand
    /\ tasks[t].lease # NoLease
    /\ ~leases[tasks[t].lease].released
    /\ leases[tasks[t].lease].holder = a
    /\ leases' = ReleaseLease(tasks[t].lease)
    /\ tasks' = [tasks EXCEPT ![t].status = "review"]
    /\ UNCHANGED <<now, observed, command, pull, guardVars, ended, faults>>

\* move to review by the holder: hands the lease back.
ReviewHandoff(a, t) ==
    /\ command[a] = NoCommand
    /\ tasks[t].lease # NoLease
    /\ ~leases[tasks[t].lease].released
    /\ leases[tasks[t].lease].holder = a
    /\ leases' = ReleaseLease(tasks[t].lease)
    /\ tasks' = [tasks EXCEPT ![t] = InReview(@)]
    /\ UNCHANGED <<now, observed, command, pull, guardVars, ended, faults>>

\* move to review of an unclaimed task, by anyone.
ReviewUnclaimed(t) ==
    /\ tasks[t].lease = NoLease
    /\ tasks' = [tasks EXCEPT ![t] = InReview(@)]
    /\ UNCHANGED <<now, leases, observed, command, pull, guardVars, ended, faults>>
-----------------------------------------------------------------------------
\* The expiry sweep of select_next.  "observed" is what any number of sweeps
\* still hold: a pair may be stale when its turn comes.

\* _observe_expired_leases
ObserveExpired ==
    /\ observed' = observed \cup
          {<<t, tasks[t].lease>> : t \in {u \in Task :
              /\ tasks[u].lease # NoLease
              /\ ~leases[tasks[u].lease].released
              /\ leases[tasks[u].lease].expires < now}}
    /\ UNCHANGED <<now, tasks, leases, command, pull, guardVars, ended, faults>>

\* Variant of ReclaimOne: the task's lease id is not rechecked (#3617).
ReclaimOneUnfenced(t, l) ==
    /\ <<t, l>> \in observed
    /\ observed' = observed \ {<<t, l>>}
    /\ leases' = ReleaseLease(l)
    /\ tasks' = [tasks EXCEPT ![t] = Reclaimed(@, now)]
    /\ ended' = [ended EXCEPT ![t] = now]
    /\ UNCHANGED <<now, command, pull, guardVars, faults>>

\* Variant of ReclaimOne: only claimed tasks are reclaimed.
ReclaimOneClaimedOnly(t, l) ==
    /\ <<t, l>> \in observed
    /\ observed' = observed \ {<<t, l>>}
    /\ IF tasks[t].lease = l /\ tasks[t].status = "claimed" /\ leases[l].expires < now
       THEN /\ leases' = ReleaseLease(l)
            /\ tasks' = [tasks EXCEPT ![t] = Reclaimed(@, now)]
            /\ ended' = [ended EXCEPT ![t] = now]
       ELSE UNCHANGED <<leases, tasks, ended>>
    /\ UNCHANGED <<now, command, pull, guardVars, faults>>

\* _reclaim_one: rechecked under the write lock, fenced on the observed lease.
ReclaimOne(t, l) ==
    /\ <<t, l>> \in observed
    /\ observed' = observed \ {<<t, l>>}
    /\ IF tasks[t].lease = l /\ ~leases[l].released /\ leases[l].expires < now
       THEN /\ leases' = ReleaseLease(l)
            /\ tasks' = [tasks EXCEPT ![t] = Reclaimed(@, now)]
            /\ ended' = [ended EXCEPT ![t] = now]
       ELSE UNCHANGED <<leases, tasks, ended>>
    /\ UNCHANGED <<now, command, pull, guardVars, faults>>

\* One reclamation raises: the sweep goes on without it.
ReclaimError(t, l) ==
    /\ <<t, l>> \in observed
    /\ Fault
    /\ observed' = observed \ {<<t, l>>}
    /\ UNCHANGED <<now, tasks, leases, command, pull, guardVars, ended>>
-----------------------------------------------------------------------------
\* The commands that read a row and upsert all of it later.

\* What they check on the row they read.  A lease's holder never changes, so
\* the separate read of the lease in release is part of this step.
MayStart(op, a, row, to) ==
    /\ op = "release" => row.lease # NoLease /\ leases[row.lease].holder = a
    /\ op = "move" => to # "review" /\ ~(to = "completed" /\ row.lease # NoLease)

\* What they write, from the row they read.
Written(c) ==
    CASE c.op = "release" -> Released(c.row, c.at)
      [] c.op = "block"   -> Blocked(c.row)
      [] c.op = "unblock" -> Unblocked(c.row)
      [] c.op = "link_pr" -> c.row
      [] OTHER            -> Moved(c.row, c.to)

\* store.get_task
RowRead(a, t) ==
    /\ command[a] = NoCommand
    /\ \E op \in RowCommands :
          \E to \in (IF op \in {"update", "move"} THEN MoveTargets ELSE {tasks[t].status}) :
             /\ MayStart(op, a, tasks[t], to)
             /\ command' = [command EXCEPT ![a] =
                   [op |-> op, step |-> IF op = "release" THEN "lease" ELSE "row",
                    task |-> t, row |-> tasks[t], to |-> to, at |-> now]]
    /\ UNCHANGED <<now, tasks, leases, observed, pull, guardVars, ended, faults>>

\* Variant of ReleaseUpsertLease: the lease row is left as it is.
ReleaseSkipsLease(a) ==
    /\ command[a] # NoCommand
    /\ command[a].step = "lease"
    /\ command' = [command EXCEPT ![a].step = "row", ![a].at = now]
    /\ UNCHANGED <<now, tasks, leases, observed, pull, guardVars, ended, faults>>

\* release: store.upsert_lease.
ReleaseUpsertLease(a) ==
    /\ command[a] # NoCommand
    /\ command[a].step = "lease"
    /\ leases' = ReleaseLease(command[a].row.lease)
    /\ command' = [command EXCEPT ![a].step = "row", ![a].at = now]
    /\ UNCHANGED <<now, tasks, observed, pull, guardVars, ended, faults>>

\* store.upsert_task: every column, the lease columns included.
UpsertTask(a) ==
    /\ command[a] # NoCommand
    /\ command[a].step = "row"
    /\ tasks' = [tasks EXCEPT ![command[a].task] = Written(command[a])]
    /\ command' = [command EXCEPT ![a] = NoCommand]
    /\ ended' = IF command[a].op = "release"
                THEN [ended EXCEPT ![command[a].task] = command[a].at] ELSE ended
    /\ UNCHANGED <<now, leases, observed, pull, guardVars, faults>>

\* The process running the command ends between two transactions.
Interrupted(a) ==
    /\ command[a] # NoCommand
    /\ command' = [command EXCEPT ![a] = NoCommand]
    /\ UNCHANGED <<now, tasks, leases, observed, pull, guardVars, ended, faults>>
-----------------------------------------------------------------------------
\* Pulls.  What GitHub answers is arbitrary; pull_at is taken before it is asked.

PullStart(p) ==
    /\ pull[p] = NoPull
    /\ pull' = [pull EXCEPT ![p] =
          [at |-> now, ready |-> {}, rows |-> Restrict(tasks, {})]]
    /\ UNCHANGED <<now, tasks, leases, observed, command, guardVars, ended, faults>>

\* The (status, blocked_reason) a caller without expectations is held to.
StateOf(row) == <<row.status, row.blocked>>

\* A validated entry of the ready list.
PullReady(p, t) ==
    /\ pull[p] # NoPull
    /\ DOMAIN pull[p].rows = {}
    /\ t \notin pull[p].ready
    /\ tasks' = [tasks EXCEPT ![t] =
          upsert_synced_task(@, TaskRow("ready", FALSE, pull[p].at), TRUE, StateOf(@))]
    /\ pull' = [pull EXCEPT ![p].ready = @ \cup {t}]
    /\ UNCHANGED <<now, leases, observed, command, guardVars, ended, faults>>

\* An open issue labelled blocked or needs-human: no blocked_reason.  The
\* status was looked at before, outside the transaction.
PullBlocker(p, t) ==
    /\ pull[p] # NoPull
    /\ DOMAIN pull[p].rows = {}
    /\ t \notin pull[p].ready
    /\ tasks' = [tasks EXCEPT ![t] =
          upsert_synced_task(@, TaskRow("blocked", FALSE, pull[p].at), FALSE, StateOf(@))]
    /\ UNCHANGED <<now, leases, observed, command, pull, guardVars, ended, faults>>

\* _reconcile_stale_ready lists the ready and the blocked tasks (two reads,
\* taken here as one) ...
ReconcileRead(p) ==
    /\ pull[p] # NoPull
    /\ DOMAIN pull[p].rows = {}
    /\ LET listed == {t \in Task : tasks[t].status \in {"ready", "blocked"}}
       IN  /\ listed # {}
           /\ pull' = [pull EXCEPT ![p].rows = Restrict(tasks, listed)]
    /\ UNCHANGED <<now, tasks, leases, observed, command, guardVars, ended, faults>>

\* ... what it may make of a row: the issue is in the ready list; fails
\* validation; lost its label; or is closed.
Reconciled(p, t) ==
    LET row == pull[p].rows[t]
    IN  IF t \in pull[p].ready
        THEN {[row EXCEPT !.status = "ready", !.blocked = FALSE]}
        ELSE {[row EXCEPT !.status = "blocked", !.blocked = TRUE],
              [row EXCEPT !.status = "blocked"],
              [row EXCEPT !.status = "completed", !.blocked = FALSE]}

\* ... and upserts the listed rows, each against the state it was listed with.
ReconcileWrite(p, t) ==
    /\ pull[p] # NoPull
    /\ t \in DOMAIN pull[p].rows
    /\ \E row \in Reconciled(p, t) :
          tasks' = [tasks EXCEPT ![t] =
             IF t \in pull[p].ready /\ pull[p].rows[t].status = "ready" THEN @
             ELSE upsert_synced_task(@, row, FALSE, StateOf(pull[p].rows[t]))]
    /\ LET rest == DOMAIN pull[p].rows \ {t}
           left == [pull[p] EXCEPT !.rows = Restrict(@, rest)]
       IN  pull' = [pull EXCEPT ![p] = IF rest = {} THEN NoPull ELSE left]
    /\ UNCHANGED <<now, leases, observed, command, guardVars, ended, faults>>

\* The pull ends, having written some of what it read.
PullEnd(p) ==
    /\ pull[p] # NoPull
    /\ pull' = [pull EXCEPT ![p] = NoPull]
    /\ UNCHANGED <<now, tasks, leases, observed, command, guardVars, ended, faults>>
-----------------------------------------------------------------------------
\* Cleanup guards: the database commits first, the sidecar record follows, and
\* the command can be cut off between the two ("cut").

AcquireGuard(a, t, cut) ==
    /\ command[a] = NoCommand
    /\ held[a] = NoGuard
    /\ guards < MaxGuards
    /\ ~Guarded(t)
    /\ tasks[t].status # "claimed"
    /\ tasks[t].lease = NoLease
    /\ LET g == [owner |-> a, token |-> guards + 1, until |-> now + GuardTtl]
       IN  /\ dbGuard' = [dbGuard EXCEPT ![t] = g]
           /\ fileGuard' = IF cut THEN fileGuard ELSE [fileGuard EXCEPT ![t] = g]
           /\ held' = IF cut THEN held
                       ELSE [held EXCEPT ![a] = [task |-> t, token |-> g.token, until |-> g.until]]
    /\ guards' = guards + 1
    /\ IF cut THEN Fault ELSE UNCHANGED faults
    /\ UNCHANGED <<now, tasks, leases, observed, command, pull, ended>>

\* The agent's exact invocation holds guard g of its task.
Mine(a, g) == g.owner = a /\ g.token = held[a].token

RefreshGuard(a, cut) ==
    /\ command[a] = NoCommand
    /\ held[a] # NoGuard
    /\ LET t == held[a].task
           fresh == [fileGuard[t] EXCEPT !.until = now + GuardTtl]
       IN  /\ ActiveGuard(fileGuard[t]) /\ Mine(a, fileGuard[t])
           /\ ActiveGuard(dbGuard[t]) => Mine(a, dbGuard[t])
           /\ dbGuard' = IF ActiveGuard(dbGuard[t]) THEN [dbGuard EXCEPT ![t] = fresh] ELSE dbGuard
           /\ fileGuard' = IF cut THEN fileGuard ELSE [fileGuard EXCEPT ![t] = fresh]
    /\ held' = IF cut THEN held ELSE [held EXCEPT ![a].until = now + GuardTtl]
    /\ IF cut THEN Fault ELSE UNCHANGED faults
    /\ UNCHANGED <<now, tasks, leases, observed, command, pull, guards, ended>>

ReleaseGuard(a, cut) ==
    /\ command[a] = NoCommand
    /\ held[a] # NoGuard
    /\ LET t == held[a].task
       IN  /\ Guarded(t)
           /\ Mine(a, IF ActiveGuard(fileGuard[t]) THEN fileGuard[t] ELSE dbGuard[t])
           /\ dbGuard' = [dbGuard EXCEPT ![t] = NoGuard]
           /\ fileGuard' = IF cut THEN fileGuard ELSE [fileGuard EXCEPT ![t] = NoGuard]
    /\ held' = IF cut THEN held ELSE [held EXCEPT ![a] = NoGuard]
    /\ IF cut THEN Fault ELSE UNCHANGED faults
    /\ UNCHANGED <<now, tasks, leases, observed, command, pull, guards, ended>>

\* The agent lets a guard go that has run out.
ForgetGuard(a) ==
    /\ held[a] # NoGuard
    /\ held[a].until <= now
    /\ held' = [held EXCEPT ![a] = NoGuard]
    /\ UNCHANGED <<now, tasks, leases, observed, command, pull, dbGuard, fileGuard,
                   guards, ended, faults>>

Tick ==
    /\ now < MaxTime
    /\ now' = now + 1
    /\ UNCHANGED <<tasks, leases, observed, command, pull, guardVars, ended, faults>>
-----------------------------------------------------------------------------
Sweep == ObserveExpired \/ \E t \in Task, l \in 1 .. MaxLeases : ReclaimOne(t, l)

Next ==
    \/ Tick \/ Sweep
    \/ \E t \in Task, l \in 1 .. MaxLeases : ReclaimError(t, l)
    \/ \E t \in Task : ReviewUnclaimed(t)
    \/ \E a \in Agent, t \in Task :
          \/ ClaimReady(a, t) \/ ClaimStale(a, t) \/ Heartbeat(a, t)
          \/ Complete(a, t) \/ ReviewHandoff(a, t) \/ RowRead(a, t)
          \/ \E cut \in BOOLEAN : AcquireGuard(a, t, cut)
    \/ \E a \in Agent :
          \/ ReleaseUpsertLease(a) \/ UpsertTask(a) \/ Interrupted(a) \/ ForgetGuard(a)
          \/ \E cut \in BOOLEAN : RefreshGuard(a, cut) \/ ReleaseGuard(a, cut)
    \/ \E p \in Puller :
          \/ PullStart(p) \/ ReconcileRead(p) \/ PullEnd(p)
          \/ \E t \in Task : PullReady(p, t) \/ PullBlocker(p, t) \/ ReconcileWrite(p, t)

\* Agents keep asking for work: "every next queue-selection call invokes
\* reclaim_expired_leases" (docs/AGENT_ISSUE_DISPATCHER.md), and a sweep
\* finishes what it observed.
Spec ==
    /\ Init /\ [][Next]_vars
    /\ WF_vars(ObserveExpired)
    /\ \A t \in Task, l \in 1 .. MaxLeases : WF_vars(ReclaimOne(t, l))
-----------------------------------------------------------------------------
\* "Lease is the concurrency primitive": a task never has two live leases,
\* granted to whomever, whatever sweeps, takeovers and pulls are under way.
Exclusion ==
    \A l, m \in 1 .. Len(leases) :
        (l # m /\ leases[l].task = leases[m].task) => ~(Live(l) /\ Live(m))

\* A live lease is the one its task refers to: no sweep, takeover or snapshot
\* takes a claim away from an agent that may still be working under it.
LiveLeaseKept ==
    \A l \in 1 .. Len(leases) :
        Live(l) => /\ tasks[leases[l].task].lease = l
                   /\ tasks[leases[l].task].owner = leases[l].holder

\* "lease_id: active lease identifier or null" (docs/AGENT_ISSUE_DISPATCHER.md):
\* a released lease is referred to only while its release is between its two
\* writes.  claim, heartbeat, complete and the sweep all refuse such a task.
ActiveLeaseOrNull ==
    \A t \in Task :
        \/ tasks[t].lease = NoLease
        \/ ~leases[tasks[t].lease].released
        \/ \E a \in Agent : /\ command[a] # NoCommand
                            /\ command[a].op = "release"
                            /\ command[a].task = t

\* "A pull that started before release cannot restore old evidence when it
\* finishes later" (docs/AGENT_ISSUE_DISPATCHER.md): ready evidence is no older
\* than the task's last release or reclamation.
EvidenceFresh ==
    \A t \in Task : tasks[t].pull # 0 => tasks[t].pull >= ended[t]

\* "Reserve a task resource so dispatcher claims cannot race cleanup": while an
\* agent's guard runs, no lease on the task is live and no other agent's guard
\* runs, wherever guard commands were cut off.
CleanupExclusion ==
    \A a \in Agent : held[a] # NoGuard /\ held[a].until > now =>
        /\ \A l \in 1 .. Len(leases) : leases[l].task = held[a].task => ~Live(l)
        /\ \A b \in Agent \ {a} :
              held[b] # NoGuard /\ held[b].task = held[a].task => held[b].until <= now

\* "Expired lease must clear ownership": an expired lease does not stay on its
\* task unreclaimed, also when single reclamations fail and commands write back
\* rows they read before.
ExpiredLeaseCleared ==
    \A t \in Task, l \in 1 .. MaxLeases :
        (tasks[t].lease = l /\ leases[l].expires < now /\ ~leases[l].released)
            ~> (tasks[t].lease # l \/ leases[l].released)
=============================================================================
