-------------------------- MODULE ChannelTransfer --------------------------
(***************************************************************************)
(* Moving a vault binding from one channel to another (app/instance/       *)
(* runtime.py, _ChannelTransferCoordinator).  A journal of phases is kept  *)
(* in the source's channel-transfer.json; every phase has an effect on the *)
(* registries, the ownership ledger, the outbox or the stopped window and  *)
(* is then saved, and the coordinator may die between the two.  It works   *)
(* inside a StoppedWindow that controllers open and may also end, and      *)
(* takes the source binding's effect lease, of which EffectWindow is the   *)
(* promise.                                                                *)
(***************************************************************************)
EXTENDS StoppedWindow, SequencesExt, FiniteSets

CONSTANTS
    Watcher,         \* the watcher
    Command,         \* workers started by hand on the host
    WatcherEnabled,  \* WATCHER_ENABLE and WATCHER_VAULT_PATH are set
    Row,             \* slots for pending outbox rows with the source's binding id
    MaxCrashes

ASSUME CommandAssumption ==
    /\ Command \subseteq Consumer
    /\ Watcher \in Consumer \ Command
ASSUME CoordinatorAssumption == Coordinator \notin Controller \cup Consumer
ASSUME FlagAssumption == WatcherEnabled \in BOOLEAN
ASSUME CrashAssumption == MaxCrashes \in Nat

VARIABLES
    phase,      \* the phase in channel-transfer.json, "none" without the file
    nonce,      \* the nonce of the window in the intent's inventory
    at,         \* where the coordinator is: off, run, held, releasing or save
    valid,      \* this run has seen the stopped proof
    ingress,    \* the source registry carries the channelTransfer extension
    rebind,     \* the compatibility candidate: source or cleared
    floors,     \* the registries with the foreground ownership floor
    src, dst,   \* the binding in the source and in the destination registry
    ledger,     \* who owns the root: source, reserved or destination
    rows,       \* each slot: none, a pending row, or followup: a pending row that a Command wrote
    inside,     \* who is inside an effect window, and how
    crashes

registries == <<ingress, rebind, floors, src, dst, ledger>>
transfer == <<phase, nonce, at, valid, registries, rows, inside, crashes>>
vars == <<window, transfer>>

\* Variant of PHASES: the destination is registered before the source retires.
PhasesSwapped ==
    <<"intent", "ingress_closed", "rows_drained", "compatibility_repaired",
      "producers_stopped", "floor_advanced", "ownership_reserved", "destination_registered",
      "source_retired", "ownership_activated", "control_released", "complete">>

PHASES ==
    <<"intent", "ingress_closed", "rows_drained", "compatibility_repaired",
      "producers_stopped", "floor_advanced", "ownership_reserved", "source_retired",
      "destination_registered", "ownership_activated", "control_released", "complete">>

Party == Consumer \cup {Coordinator}

\* The effect lease of the source binding.
SourceWindow ==
    INSTANCE EffectWindow WITH
        Proc <- Party, owned <- (ledger = "source")

Init ==
    /\ WindowInit
    /\ phase = "none" /\ nonce = 0 /\ at = "off" /\ valid = FALSE
    /\ ingress = FALSE /\ rebind = "source" /\ floors = {}
    /\ src = "registered" /\ dst = "absent" /\ ledger = "source"
    /\ rows = [r \in Row |-> "none"]
    /\ inside = [p \in Party |-> "out"]
    /\ crashes = 0
-----------------------------------------------------------------------------
Index(p) == IF p = "none" THEN 0 ELSE CHOOSE i \in DOMAIN PHASES : PHASES[i] = p

Before(p) == Index(phase) < Index(p)

Pending == {r \in Row : rows[r] \in {"pending", "followup"}}

\* transfer: the intent is saved, or an earlier one is loaded; recover loads it.
Start ==
    /\ at = "off"
    /\ phase # "complete"
    /\ phase' = IF phase = "none" THEN "intent" ELSE phase
    /\ at' = "run" /\ valid' = FALSE
    /\ UNCHANGED <<window, nonce, registries, rows, inside, crashes>>

\* _save: the journal advances to the phase whose effect was done.  The proof
\* is read again once the producers are recorded as stopped.
Save ==
    /\ at = "save"
    /\ phase' = PHASES[Index(phase) + 1]
    /\ at' = IF phase' = "complete" THEN "off" ELSE "run"
    /\ valid' = (valid /\ phase' # "producers_stopped")
    /\ UNCHANGED <<window, nonce, registries, rows, inside, crashes>>

\* The coordinator is about to do the effect of the phase after p.
After(p) == at = "run" /\ phase = p

CloseIngress ==
    /\ After("intent")
    /\ ingress' = TRUE
    /\ at' = "save"
    /\ UNCHANGED <<window, phase, nonce, valid, rebind, floors, src, dst, ledger, rows, inside, crashes>>

\* drain_binding_outbox settles one row through the worker's run_once.
DrainRow(r) ==
    /\ After("ingress_closed") \/ (After("compatibility_repaired") /\ valid)
    /\ r \in Pending
    /\ rows' = [rows EXCEPT ![r] = "none"]
    /\ UNCHANGED <<window, phase, nonce, at, valid, registries, inside, crashes>>

\* pending_transfer_rows is empty.
Drained ==
    /\ After("ingress_closed") \/ (After("compatibility_repaired") /\ valid)
    /\ Pending = {}
    /\ at' = "save"
    /\ UNCHANGED <<window, phase, nonce, valid, registries, rows, inside, crashes>>

\* retire_for_transfer: the watcher acknowledges that the candidate is cleared.
RepairCompatibility ==
    /\ After("rows_drained")
    /\ WatcherEnabled /\ rebind = "source" => cons[Watcher] = "up"
    /\ rebind' = "cleared"
    /\ at' = "save"
    /\ UNCHANGED <<window, phase, nonce, valid, ingress, floors, src, dst, ledger, rows, inside, crashes>>

\* Variant of Quiesce: the final drain starts without the stopped proof.
QuiesceLater ==
    /\ After("compatibility_repaired") /\ ~valid
    /\ valid' = TRUE
    /\ UNCHANGED <<window, phase, nonce, at, registries, rows, inside, crashes>>

\* quiesce: the proof of the window that the port opened; then the final drain.
Quiesce ==
    /\ After("compatibility_repaired") /\ ~valid
    /\ Canonical
    /\ nonce' = files.lease.nonce
    /\ valid' = TRUE
    /\ UNCHANGED <<window, phase, at, registries, rows, inside, crashes>>

\* The stopped proof is read again by every run before ownership is activated.
Revalidate ==
    /\ at = "run" /\ ~valid
    /\ ~Before("producers_stopped") /\ Before("ownership_activated")
    /\ Canonical
    /\ valid' = TRUE
    /\ UNCHANGED <<window, phase, nonce, at, registries, rows, inside, crashes>>

\* advance_foreground_ownership_floor, the source's registry first.
AdvanceFloor ==
    /\ After("producers_stopped") /\ valid
    /\ floors' = floors \cup IF "source" \in floors THEN {"destination"} ELSE {"source"}
    /\ at' = IF "source" \in floors THEN "save" ELSE "run"
    /\ UNCHANGED <<window, phase, nonce, valid, ingress, rebind, src, dst, ledger, rows, inside, crashes>>

\* The reservation of an interrupted run is found in the ledger.
FindReservation ==
    /\ After("floor_advanced") /\ valid
    /\ ledger = "reserved"
    /\ at' = "save"
    /\ UNCHANGED <<window, phase, nonce, valid, registries, rows, inside, crashes>>

\* Variant of EnterChange: ownership is withdrawn without the effect lease.
ChangeUnleased ==
    /\ After("floor_advanced") /\ valid
    /\ ledger = "source" /\ src = "registered"
    /\ at' = "held"
    /\ UNCHANGED <<window, phase, nonce, valid, registries, rows, inside, crashes>>

\* exclusive_change on the source binding's effect lease
EnterChange ==
    /\ After("floor_advanced") /\ valid
    /\ ledger = "source" /\ src = "registered"
    /\ inside' = [inside EXCEPT ![Coordinator] = "exclusive"]
    /\ at' = "held"
    /\ UNCHANGED <<window, phase, nonce, valid, registries, rows, crashes>>
    /\ SourceWindow!EnterExclusive(Coordinator)

\* begin_transfer: the source's lease is replaced by the reservation.
BeginTransfer ==
    /\ at = "held" /\ ledger = "source"
    /\ ledger' = "reserved"
    /\ UNCHANGED <<window, phase, nonce, at, valid, ingress, rebind, floors, src, dst, rows, inside, crashes>>

LeaveChange ==
    /\ at = "held" /\ ledger = "reserved"
    /\ inside' = [inside EXCEPT ![Coordinator] = "out"]
    /\ at' = "save"
    /\ UNCHANGED <<window, phase, nonce, valid, registries, rows, crashes>>

\* Variant of RetireSource: the registration goes without a tombstone.
RetireSourceUntraced ==
    /\ After("ownership_reserved") /\ valid
    /\ src' = "absent"
    /\ at' = "save"
    /\ UNCHANGED <<window, phase, nonce, valid, ingress, rebind, floors, dst, ledger, rows, inside, crashes>>

\* remove_registration with its tombstone and lineage, once.
RetireSource ==
    /\ After("ownership_reserved") /\ valid
    /\ src = "registered" => "source" \in floors
    /\ src' = "retired"
    /\ at' = "save"
    /\ UNCHANGED <<window, phase, nonce, valid, ingress, rebind, floors, dst, ledger, rows, inside, crashes>>

RegisterDestination ==
    /\ After("source_retired") /\ valid
    /\ dst' = "registered"
    /\ at' = "save"
    /\ UNCHANGED <<window, phase, nonce, valid, ingress, rebind, floors, src, ledger, rows, inside, crashes>>

\* activate_transfer, unless the destination already owns the root.
ActivateOwnership ==
    /\ After("destination_registered") /\ valid
    /\ ledger' = "destination"
    /\ at' = "save"
    /\ UNCHANGED <<window, phase, nonce, valid, ingress, rebind, floors, src, dst, rows, inside, crashes>>

\* release, the window is already gone.
NothingToRelease ==
    /\ After("ownership_activated")
    /\ NoDeployment /\ job = None
    /\ at' = "save"
    /\ UNCHANGED <<window, phase, nonce, valid, registries, rows, inside, crashes>>

\* release, only the window of this transfer: ended now, or its cleanup completed.
ReleaseWindow ==
    LET own == IF files.lease # None THEN files.lease ELSE files.block
    IN  /\ After("ownership_activated")
        /\ own # None /\ own.nonce = nonce
        /\ IF own.phase # "cleanup"
           THEN Canonical /\ Admit(Coordinator, End(files.lease, "transfer"), "done")
           ELSE /\ own.result = "transfer" /\ CleanupAllowed
                /\ Admit(Coordinator, CleanupWrites, "done")
        /\ at' = "releasing"
        /\ UNCHANGED <<files, pc, alive, issued, cons, phase, nonce, valid, registries,
                       rows, inside, crashes>>

Released ==
    /\ at = "releasing" /\ ~(job # None /\ job.by = Coordinator)
    /\ at' = "save"
    /\ UNCHANGED <<window, phase, nonce, valid, registries, rows, inside, crashes>>

Complete ==
    /\ After("control_released")
    /\ at' = "save"
    /\ UNCHANGED <<window, phase, nonce, valid, registries, rows, inside, crashes>>

\* The coordinator dies or an error ends its run; flocks go with the process.
Crash ==
    /\ at # "off" /\ crashes < MaxCrashes
    /\ at' = "off" /\ valid' = FALSE
    /\ inside' = [inside EXCEPT ![Coordinator] = "out"]
    /\ job' = IF job # None /\ job.by = Coordinator THEN None ELSE job
    /\ crashes' = crashes + 1
    /\ UNCHANGED <<files, pc, alive, issued, cons, phase, nonce, registries, rows>>

Coordinate ==
    \/ Start \/ Save \/ CloseIngress \/ Drained \/ RepairCompatibility
    \/ Quiesce \/ Revalidate \/ AdvanceFloor
    \/ FindReservation \/ EnterChange \/ BeginTransfer \/ LeaveChange
    \/ RetireSource \/ RegisterDestination \/ ActivateOwnership
    \/ NothingToRelease \/ ReleaseWindow \/ Released \/ Complete
    \/ \E r \in Row : DrainRow(r)
-----------------------------------------------------------------------------
(* Consumers *)

\* write_outbox_event by a running consumer of the source: the binding is
\* registered and owned.  Neither the watcher nor an effect that writes
\* follow-up rows looks at the ingress; a worker only writes in an effect.
Produce(x, r) ==
    /\ cons[x] = "up" /\ rows[r] = "none"
    /\ ingress => x = Watcher \/ inside[x] = "shared"
    /\ x \in Command => inside[x] = "shared"
    /\ src = "registered" /\ ledger = "source"
    /\ rows' = [rows EXCEPT ![r] = IF x \in Command THEN "followup" ELSE "pending"]
    /\ UNCHANGED <<window, phase, nonce, at, valid, registries, inside, crashes>>

\* The shared effect lease of the source binding; a worker takes it for a row,
\* one of Row or another one.
EnterSource(x) ==
    /\ cons[x] = "up" /\ src = "registered"
    /\ inside' = [inside EXCEPT ![x] = "shared"]
    /\ UNCHANGED <<window, phase, nonce, at, valid, registries, rows, crashes>>
    /\ SourceWindow!EnterShared(x)

Leave(x) ==
    /\ inside[x] = "shared"
    /\ inside' = [inside EXCEPT ![x] = "out"]
    /\ UNCHANGED <<window, phase, nonce, at, valid, registries, rows, crashes>>

\* The worker settles a row, which ends its effect.
Settle(x, r) ==
    /\ inside[x] = "shared" /\ r \in Pending
    /\ rows' = [rows EXCEPT ![r] = "none"]
    /\ inside' = [inside EXCEPT ![x] = "out"]
    /\ UNCHANGED <<window, phase, nonce, at, valid, registries, crashes>>

\* Variant of Admissible: the transfer journal is not looked at.
AdmissibleAlways == TRUE

\* _preflight_runtime: the root that is being transferred is restart-fenced.
Admissible == phase = "none"

StartConsumer(x) ==
    /\ x \notin Command
    /\ Launch(x) \/ Preflight(x, Admissible)
    /\ UNCHANGED transfer

\* python -m app.workers.outbox_worker has no preflight: neither the fence nor the journal keeps it out.
StartCommand(x) ==
    /\ cons[x] = "down"
    /\ cons' = [cons EXCEPT ![x] = "up"]
    /\ UNCHANGED <<files, job, pc, alive, issued, transfer>>

\* A consumer ends, stopped or killed, and with it its effect.
StopConsumer(x) ==
    /\ Stop(x)
    /\ inside' = [inside EXCEPT ![x] = "out"]
    /\ UNCHANGED <<phase, nonce, at, valid, registries, rows, crashes>>

Consume ==
    \/ \E x \in Consumer : Leave(x) \/ StartConsumer(x) \/ StopConsumer(x)
    \/ \E x \in Consumer, r \in Row : Produce(x, r) \/ Settle(x, r)
    \/ \E x \in Consumer : EnterSource(x)
    \/ \E x \in Command : StartCommand(x)

Next == Coordinate \/ Crash \/ Consume \/ (Deployment /\ UNCHANGED transfer)

Spec == Init /\ [][Next]_vars
-----------------------------------------------------------------------------
(* Properties *)

\* Every variable stays in its domain.
TypeOK ==
    /\ WindowTypeOK
    /\ phase \in ToSet(PHASES) \cup {"none"}
    /\ nonce \in 0..MaxWindows
    /\ at \in {"off", "run", "held", "releasing", "save"}
    /\ valid \in BOOLEAN /\ ingress \in BOOLEAN
    /\ rebind \in {"source", "cleared"}
    /\ floors \subseteq {"source", "destination"}
    /\ src \in {"registered", "retired"} /\ dst \in {"absent", "registered"}
    /\ ledger \in {"source", "reserved", "destination"}
    /\ rows \in [Row -> {"none", "pending", "followup"}]
    /\ inside \in [Party -> {"out", "shared", "exclusive"}]
    /\ crashes \in 0..MaxCrashes

\* No effect of the source is under way once ownership is withdrawn, so source
\* and destination never write the same root: not even when the stopped window
\* is aborted in the middle of the transfer, or a worker started by hand, which
\* no fence stops, is in an effect when the coordinator comes to withdraw it.
OneWriter == \A x \in Consumer : inside[x] # "out" => ledger = "source"

\* Ownership does not move while a row that a service wrote for the source
\* binding is unsettled: none is left behind for a binding that nobody
\* dispatches any more.  (A follow-up row of a worker started by hand may be.)
DrainedBeforeMove == ledger # "source" => \A r \in Row : rows[r] # "pending"

\* The destination owns the root only when it is registered and the source is
\* retired, and a retired source never owns it: whatever run was interrupted,
\* recovery never leaves two owners or an owner without registration.
RegistriesFollow ==
    /\ ledger = "destination" => dst = "registered"
    /\ dst = "registered" => src = "retired"
    /\ src = "retired" => ledger # "source" /\ rebind = "cleared"

\* As long as the proof of quiescence is accepted no service runs: neither one
\* that passed its preflight before the claim nor one launched after the proof.
\* And once the journal says that the producers are stopped none comes back on
\* this root, though the window may be ended at any time.
ServicesStayDown ==
    Canonical \/ ~Before("producers_stopped") => \A x \in Consumer \ Command : cons[x] # "up"
=============================================================================
