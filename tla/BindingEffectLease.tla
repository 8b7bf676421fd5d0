------------------------- MODULE BindingEffectLease -------------------------
(***************************************************************************)
(* The effect lease of one vault binding (app/instance/                    *)
(* binding_effect_lease.py).  Processes share the effect window or have it *)
(* alone.  Two flocks decide: the gate (shared or exclusive) and one       *)
(* activity file per holder, which shows that the holder is alive.  A      *)
(* lease state kept in the registry and in a local file queues the         *)
(* exclusive waiters; it is changed under a state lock, through a journal, *)
(* and a process may die between any two writes.                           *)
(***************************************************************************)
EXTENDS Naturals, Sequences, SequencesExt, FiniteSets

CONSTANTS
    Proc,
    Holder,      \* holder ids; an id that is in use nowhere may be issued again
    None,
    Timeouts,    \* TRUE: a waiter may give up (timeout is not None)
    MaxCrashes, MaxFaults

ASSUME NoneAssumption == None \notin Proc \cup Holder
ASSUME TimeoutsAssumption == Timeouts \in BOOLEAN
ASSUME BoundsAssumption == MaxCrashes \in Nat /\ MaxFaults \in Nat

VARIABLES
    reg,       \* the lease state in the registry's extensions
    file,      \* the local lease state, None before the first commit
    journal,   \* None, or the previous and next state of a commit
    activity,  \* the holder ids with an activity file
    lock,      \* holder of the state lock
    cs,        \* where the holder of the state lock is in its critical section
    pc, mode, hid,   \* each process: step, requested mode, holder id
    active,    \* the processes whose activity file is open and flocked
    gate,      \* each process's flock on the effect gate
    owned,     \* the ownership ledger's lease is active
    crashes, faults

state == <<reg, file, journal, activity>>
local == <<pc, mode, hid, active, gate>>
vars == <<state, lock, cs, local, owned, crashes, faults>>

LeaseState == [shared : SUBSET Holder, pending : Seq(Holder), exclusive : Holder \cup {None}]

ASSUME NoStateAssumption == None \notin LeaseState \cup [prev : LeaseState, next : LeaseState]

EmptyState == [shared |-> {}, pending |-> <<>>, exclusive |-> None]

NoSection == [stage |-> "none", prev |-> EmptyState, next |-> EmptyState, then |-> "none"]

Init ==
    /\ reg = EmptyState /\ file = None /\ journal = None /\ activity = {}
    /\ lock = None /\ cs = NoSection
    /\ pc = [p \in Proc |-> "idle"]
    /\ mode = [p \in Proc |-> "shared"]
    /\ hid = [p \in Proc |-> None]
    /\ active = {}
    /\ gate = [p \in Proc |-> "none"]
    /\ owned = TRUE
    /\ crashes = 0 /\ faults = 0
-----------------------------------------------------------------------------
\* The ids of the queue that are in S, in their order.
Only(queue, S) ==
    LET keep[i \in 0 .. Len(queue)] ==
            IF i = 0 THEN <<>>
            ELSE IF queue[i] \in S THEN Append(keep[i - 1], queue[i]) ELSE keep[i - 1]
    IN  keep[Len(queue)]

Referenced(s) == s.shared \cup ToSet(s.pending) \cup ({s.exclusive} \ {None})

\* The holder ids whose activity file is locked by a living process.
Alive == {hid[p] : p \in active}

InUse ==
    activity \cup {hid[p] : p \in Proc} \cup Referenced(reg)
        \cup (IF file = None THEN {} ELSE Referenced(file))

GateFree == \A q \in Proc : gate[q] = "none"

\* Variant of Start: the holder id is still empty when the queue is joined.
StartAnonymous(p, m) ==
    /\ pc[p] = "idle"
    /\ mode' = [mode EXCEPT ![p] = m]
    /\ pc' = [pc EXCEPT ![p] = IF m = "exclusive" THEN "enqueue" ELSE "poll"]
    /\ UNCHANGED <<state, lock, cs, hid, active, gate, owned, crashes, faults>>

\* _acquire: a fresh holder id; which one makes no difference.
Start(p, m) ==
    /\ pc[p] = "idle"
    /\ Holder \ InUse # {}
    /\ hid' = [hid EXCEPT ![p] = CHOOSE h \in Holder : h \notin InUse]
    /\ mode' = [mode EXCEPT ![p] = m]
    /\ pc' = [pc EXCEPT ![p] = IF m = "exclusive" THEN "enqueue" ELSE "poll"]
    /\ UNCHANGED <<state, lock, cs, active, gate, owned, crashes, faults>>

\* active_binding_fence refuses: a waiter leaves the queue, the others just end.
Fenced(p) ==
    /\ pc[p] \in {"enqueue", "poll"} /\ lock # p
    /\ ~owned
    /\ pc' = [pc EXCEPT ![p] = IF mode[p] = "exclusive" /\ p \in active THEN "discard" ELSE "closing"]
    /\ UNCHANGED <<state, lock, cs, mode, hid, active, gate, owned, crashes, faults>>

\* Variant of Lock: polls do not look at the ownership ledger.
LockUnfenced(p) ==
    /\ pc[p] \in {"enqueue", "poll", "observe", "release", "discard"}
    /\ lock = None
    /\ lock' = p
    /\ cs' = [NoSection EXCEPT !.stage = IF journal = None THEN "load" ELSE "recover"]
    /\ UNCHANGED <<state, local, owned, crashes, faults>>

\* _state_locked, inside the ownership fence except for releases.
Lock(p) ==
    /\ pc[p] \in {"enqueue", "poll", "observe", "release", "discard"}
    /\ lock = None
    /\ pc[p] \in {"enqueue", "poll"} => owned
    /\ lock' = p
    /\ cs' = [NoSection EXCEPT !.stage = IF journal = None THEN "load" ELSE "recover"]
    /\ UNCHANGED <<state, local, owned, crashes, faults>>

\* The critical section ends and the process goes on at step to.
Unlock(p, to) ==
    /\ lock' = None
    /\ cs' = NoSection
    /\ pc' = [pc EXCEPT ![p] = to]

\* An exception leaves the critical section: the finally clause releases what
\* is held, or gives up the place in the queue, or only closes the descriptors.
Raise(p) ==
    Unlock(p, IF pc[p] = "observe" THEN "release"
              ELSE IF mode[p] = "exclusive" /\ p \in active /\ pc[p] \in {"enqueue", "poll"}
                   THEN "discard" ELSE "closing")

\* Variant of Recovered: the journal is always rolled forward.
RecoveredForward == journal.next

\* Which end of the journal the registry is at.
Recovered == IF reg = journal.next THEN journal.next ELSE journal.prev

\* _recover_journal_locked: the local file follows the registry.
RecoverJournal(p) ==
    /\ lock = p /\ cs.stage = "recover"
    /\ IF reg \in {journal.prev, journal.next}
       THEN /\ file' = Recovered
            /\ cs' = [cs EXCEPT !.stage = "unlink", !.then = "load"]
            /\ UNCHANGED <<pc, lock>>
       ELSE Raise(p) /\ UNCHANGED file
    /\ UNCHANGED <<reg, journal, activity, mode, hid, active, gate, owned, crashes, faults>>

\* Variant of Reconciled: holders are cleared without looking at the gate.
ReconciledBlindly(s) ==
    [shared    |-> {},
     pending   |-> Only(s.pending, Alive),
     exclusive |-> None]

\* Variant of Reconciled: dead waiters stay in the queue.
ReconciledKeepingDead(s) ==
    [shared    |-> IF GateFree THEN {} ELSE s.shared \cap Alive,
     pending   |-> s.pending,
     exclusive |-> IF GateFree \/ s.exclusive \notin Alive THEN None ELSE s.exclusive]

\* _load_reconciled_locked: waiters and holders without a locked activity file
\* are dead; if the gate can be locked nobody is inside at all.
Reconciled(s) ==
    [shared    |-> IF GateFree THEN {} ELSE s.shared \cap Alive,
     pending   |-> Only(s.pending, Alive),
     exclusive |-> IF GateFree \/ s.exclusive \notin Alive THEN None ELSE s.exclusive]

\* _scavenge_holder_activity_locked: unreferenced files nobody has locked go.
Scavenged(s) == activity \cap (Referenced(s) \cup Alive)

\* _load_state_locked and the reconciliation, committed if it changed anything.
Load(p) ==
    /\ lock = p /\ cs.stage = "load"
    /\ IF file \notin {None, reg}
       THEN Raise(p) /\ UNCHANGED activity
       ELSE /\ activity' = Scavenged(reg)
            /\ cs' = IF Reconciled(reg) = reg
                     THEN [cs EXCEPT !.stage = "body"]
                     ELSE [stage |-> "journal", prev |-> reg, next |-> Reconciled(reg), then |-> "body"]
            /\ UNCHANGED <<pc, lock>>
    /\ UNCHANGED <<reg, file, journal, mode, hid, active, gate, owned, crashes, faults>>
-----------------------------------------------------------------------------
(* _commit_locked: journal, local file, registry, and the journal goes.    *)

WriteJournal(p) ==
    /\ lock = p /\ cs.stage = "journal"
    /\ journal' = [prev |-> cs.prev, next |-> cs.next]
    /\ cs' = [cs EXCEPT !.stage = "file"]
    /\ UNCHANGED <<reg, file, activity, lock, local, owned, crashes, faults>>

WriteFile(p) ==
    /\ lock = p /\ cs.stage = "file"
    /\ file' = cs.next
    /\ cs' = [cs EXCEPT !.stage = "registry"]
    /\ UNCHANGED <<reg, journal, activity, lock, local, owned, crashes, faults>>

\* set_binding_effect_lease_state succeeds, or raises after it took effect.
WriteRegistry(p) ==
    /\ lock = p /\ cs.stage = "registry"
    /\ reg' = cs.next
    /\ cs' = [cs EXCEPT !.stage = "unlink"]
    /\ UNCHANGED <<file, journal, activity, lock, local, owned, crashes, faults>>

\* It raises without effect: the local file goes back to the previous state.
RegistryFails(p) ==
    /\ lock = p /\ cs.stage = "registry"
    /\ faults < MaxFaults
    /\ faults' = faults + 1
    /\ file' = cs.prev
    /\ cs' = [cs EXCEPT !.stage = "unlink", !.then = "raise"]
    /\ UNCHANGED <<reg, journal, activity, lock, local, owned, crashes>>

\* It raises and the registry cannot be read back: the journal stays.
RegistryUnreadable(p) ==
    /\ lock = p /\ cs.stage = "registry"
    /\ faults < MaxFaults
    /\ faults' = faults + 1
    /\ reg' \in {cs.prev, cs.next}
    /\ Raise(p)
    /\ UNCHANGED <<file, journal, activity, mode, hid, active, gate, owned, crashes>>

UnlinkJournal(p) ==
    /\ lock = p /\ cs.stage = "unlink"
    /\ journal' = None
    /\ IF cs.then = "raise"
       THEN Raise(p)
       ELSE cs' = [cs EXCEPT !.stage = IF cs.then = "load" THEN "load" ELSE "tidy"]
            /\ UNCHANGED <<pc, lock>>
    /\ UNCHANGED <<reg, file, activity, mode, hid, active, gate, owned, crashes, faults>>

\* The activity files of those who left are unlinked behind the commit.
Tidy(p) ==
    /\ lock = p /\ cs.stage = "tidy"
    /\ activity' = IF cs.then = "body" THEN Scavenged(reg)
                   ELSE IF cs.then = "closing" THEN activity \ {hid[p]}
                   ELSE activity
    /\ IF cs.then = "body"
       THEN cs' = [cs EXCEPT !.stage = "body"] /\ UNCHANGED <<pc, lock>>
       ELSE Unlock(p, cs.then)
    /\ UNCHANGED <<reg, file, journal, mode, hid, active, gate, owned, crashes, faults>>

\* Commits next, and goes on at step then.
Commit(next, then) == cs' = [stage |-> "journal", prev |-> reg, next |-> next, then |-> then]
-----------------------------------------------------------------------------
(* What the critical section is for.                                       *)

\* _acquire, exclusive: lock an activity file and join the end of the queue.
Enqueue(p) ==
    /\ lock = p /\ cs.stage = "body" /\ pc[p] = "enqueue"
    /\ activity' = activity \cup {hid[p]}
    /\ active' = active \cup {p}
    /\ Commit([reg EXCEPT !.pending = Append(@, hid[p])], "poll")
    /\ UNCHANGED <<reg, file, journal, lock, pc, mode, hid, gate, owned, crashes, faults>>

\* Whether the lease state lets p in: an effect waits behind every change, a
\* change for its turn and for everyone inside.
Available(p) ==
    IF mode[p] = "shared"
    THEN reg.pending = <<>> /\ reg.exclusive = None
    ELSE reg.pending # <<>> /\ Head(reg.pending) = hid[p] /\ reg.shared = {} /\ reg.exclusive = None

\* flock(descriptor, LOCK_SH or LOCK_EX, LOCK_NB)
GateLockable(p) ==
    \A q \in Proc : gate[q] = "none" \/ (mode[p] = "shared" /\ gate[q] = "shared")

\* The lease state with p inside.
Granted(p) ==
    IF mode[p] = "shared"
    THEN [reg EXCEPT !.shared = @ \cup {hid[p]}]
    ELSE [reg EXCEPT !.pending = Tail(@), !.exclusive = hid[p]]

Grant(p) ==
    /\ lock = p /\ cs.stage = "body" /\ pc[p] = "poll"
    /\ Available(p) /\ GateLockable(p)
    /\ gate' = [gate EXCEPT ![p] = mode[p]]
    /\ activity' = activity \cup {hid[p]}
    /\ active' = active \cup {p}
    /\ Commit(Granted(p), "observe")
    /\ UNCHANGED <<reg, file, journal, lock, pc, mode, hid, owned, crashes, faults>>

\* Not yet: sleep and poll again, or give up.
Wait(p) ==
    /\ lock = p /\ cs.stage = "body" /\ pc[p] = "poll"
    /\ ~(Available(p) /\ GateLockable(p))
    /\ \/ Unlock(p, "poll")
       \/ Timeouts /\ Raise(p)
    /\ UNCHANGED <<state, mode, hid, active, gate, owned, crashes, faults>>

\* shared_effect and exclusive_change observe the lease state, which reconciles
\* it once more, before the caller's with block begins.
Observe(p) ==
    /\ lock = p /\ cs.stage = "body" /\ pc[p] = "observe"
    /\ Unlock(p, "held")
    /\ UNCHANGED <<state, mode, hid, active, gate, owned, crashes, faults>>

\* The with block of the caller ends.
Finish(p) ==
    /\ pc[p] = "held"
    /\ pc' = [pc EXCEPT ![p] = "release"]
    /\ UNCHANGED <<state, lock, cs, mode, hid, active, gate, owned, crashes, faults>>

Without(s, h) ==
    [shared    |-> s.shared \ {h},
     pending   |-> s.pending,
     exclusive |-> IF s.exclusive = h THEN None ELSE s.exclusive]

\* _release: it is an error if the lease state does not list the holder.
Release(p) ==
    /\ lock = p /\ cs.stage = "body" /\ pc[p] = "release"
    /\ IF Without(reg, hid[p]) = reg
       THEN Raise(p)
       ELSE Commit(Without(reg, hid[p]), "closing") /\ UNCHANGED <<pc, lock>>
    /\ UNCHANGED <<state, mode, hid, active, gate, owned, crashes, faults>>

\* _discard_pending
Discard(p) ==
    /\ lock = p /\ cs.stage = "body" /\ pc[p] = "discard"
    /\ IF hid[p] \notin ToSet(reg.pending)
       THEN Unlock(p, "closing")
       ELSE /\ Commit([reg EXCEPT !.pending = Only(@, Holder \ {hid[p]})], "closing")
            /\ UNCHANGED <<pc, lock>>
    /\ UNCHANGED <<state, mode, hid, active, gate, owned, crashes, faults>>

\* The finally clause closes the activity file, then the gate.
CloseActivity(p) ==
    /\ pc[p] = "closing"
    /\ active' = active \ {p}
    /\ pc' = [pc EXCEPT ![p] = "ungate"]
    /\ UNCHANGED <<state, lock, cs, mode, hid, gate, owned, crashes, faults>>

CloseGate(p) ==
    /\ pc[p] = "ungate"
    /\ gate' = [gate EXCEPT ![p] = "none"]
    /\ pc' = [pc EXCEPT ![p] = "idle"]
    /\ hid' = [hid EXCEPT ![p] = None]
    /\ mode' = [mode EXCEPT ![p] = "shared"]
    /\ UNCHANGED <<state, lock, cs, active, owned, crashes, faults>>

\* The process dies: the kernel drops its flocks, its files stay as they are.
Crash(p) ==
    /\ pc[p] # "idle"
    /\ crashes < MaxCrashes
    /\ crashes' = crashes + 1
    /\ pc' = [pc EXCEPT ![p] = "idle"]
    /\ hid' = [hid EXCEPT ![p] = None]
    /\ active' = active \ {p}
    /\ gate' = [gate EXCEPT ![p] = "none"]
    /\ mode' = [mode EXCEPT ![p] = "shared"]
    /\ IF lock = p THEN lock' = None /\ cs' = NoSection ELSE UNCHANGED <<lock, cs>>
    /\ UNCHANGED <<state, owned, faults>>

\* begin_transfer of the channel transfer: the ledger's lock keeps it out of a
\* fenced critical section.
Withdraw(p) ==
    /\ pc[p] = "held" /\ mode[p] = "exclusive" /\ owned
    /\ lock # None => pc[lock] \notin {"enqueue", "poll"}
    /\ owned' = FALSE
    /\ UNCHANGED <<state, lock, cs, local, crashes, faults>>
-----------------------------------------------------------------------------
Section(p) ==
    \/ RecoverJournal(p) \/ Load(p)
    \/ WriteJournal(p) \/ WriteFile(p) \/ WriteRegistry(p) \/ UnlinkJournal(p) \/ Tidy(p)
    \/ RegistryFails(p) \/ RegistryUnreadable(p)
    \/ Enqueue(p) \/ Grant(p) \/ Wait(p) \/ Observe(p) \/ Release(p) \/ Discard(p)

Progress(p) == Section(p) \/ Fenced(p) \/ Finish(p) \/ CloseActivity(p) \/ CloseGate(p)

Next ==
    \E p \in Proc :
        \/ \E m \in {"shared", "exclusive"} : Start(p, m)
        \/ Lock(p) \/ Progress(p) \/ Withdraw(p) \/ Crash(p)

\* A process that runs goes on, effects end, and a flock that is contended is
\* granted to everyone who keeps asking for it.
Fairness == \A p \in Proc : WF_vars(Progress(p)) /\ SF_vars(Lock(p))

Spec == Init /\ [][Next]_vars /\ Fairness
-----------------------------------------------------------------------------
\* Well-typed state; the holders of the critical section and of the locks are
\* where the code lets them be.
TypeOK ==
    /\ reg \in LeaseState /\ file \in LeaseState \cup {None}
    /\ journal = None \/ journal \in [prev : LeaseState, next : LeaseState]
    /\ activity \subseteq Holder /\ active \subseteq Proc
    /\ lock \in Proc \cup {None} /\ (lock = None <=> cs = NoSection)
    /\ hid \in [Proc -> Holder \cup {None}]
    /\ mode \in [Proc -> {"shared", "exclusive"}]
    /\ gate \in [Proc -> {"none", "shared", "exclusive"}]
    /\ owned \in BOOLEAN

Window == INSTANCE EffectWindow
              WITH inside <- [p \in Proc |-> IF pc[p] \in {"observe", "held"} THEN mode[p] ELSE "out"]

\* The two flocks, the queue and the journal together are an effect window:
\* changes are alone, and nobody is let in after ownership was withdrawn,
\* whatever crashes and whatever commit fails.
ImplementsWindow == Window!Spec

\* _validate_state: what every commit and every load insists on.  A state that
\* broke it would refuse all later access to the binding.
Valid(s) ==
    /\ s.exclusive # None => s.shared = {}
    /\ \A i, j \in 1 .. Len(s.pending) : s.pending[i] = s.pending[j] => i = j
    /\ s.exclusive \notin s.shared \cup ToSet(s.pending)
    /\ s.shared \cap ToSet(s.pending) = {}

\* Every state that is written is valid, and whenever the state lock is free the
\* next process can recover and load: the registry is at an end of the journal,
\* or agrees with the local file.
Recoverable ==
    /\ Valid(reg) /\ Valid(cs.next)
    /\ file # None => Valid(file)
    /\ journal # None => Valid(journal.prev) /\ Valid(journal.next)
    /\ lock = None => IF journal # None
                      THEN reg \in {journal.prev, journal.next}
                      ELSE file \in {None, reg}

\* A living holder is never reconciled away by others: its entry is there when
\* it comes to release it.
HolderListed ==
    \A p \in Proc : pc[p] \in {"observe", "held"} =>
        IF mode[p] = "shared" THEN hid[p] \in reg.shared ELSE hid[p] = reg.exclusive

\* A change that waits gets in, however many effects keep arriving and whoever
\* died inside or ahead of it (or it loses ownership, fails or dies); an effect
\* gets in unless changes are waiting: the dead do not hold the window.
WaitersEnter ==
    \A p \in Proc :
        /\ (pc[p] = "poll" /\ mode[p] = "exclusive") ~> pc[p] # "poll"
        /\ (pc[p] = "poll" /\ mode[p] = "shared")
               ~> (pc[p] # "poll" \/ \E q \in Proc : mode[q] = "exclusive" /\ pc[q] # "idle")
=============================================================================
