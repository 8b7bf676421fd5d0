--------------------------- MODULE StoppedWindow ---------------------------
(***************************************************************************)
(* The stopped window of a deployment (app/instance/runtime.py).  A        *)
(* controller claims the host, fences restarts, stops every consumer,      *)
(* proves that they are stopped and later ends the window.  The authority  *)
(* is four files: a compatibility block, the public lease, the restart     *)
(* fence and the quiescence proof.  They are written one at a time under   *)
(* the admission lock, and a process may die between two writes.           *)
(* One channel; no version 2 lease, scalar receipt or native context.      *)
(***************************************************************************)
EXTENDS Naturals, Sequences

CONSTANTS
    Controller,     \* controller identities (pid and start token), each used once
    Consumer,       \* runtime consumers: api, worker, watcher, ...
    None,
    MaxWindows      \* windows opened in a behaviour

ASSUME NoneAssumption == None \notin Controller \cup Consumer
ASSUME WindowsAssumption == MaxWindows \in Nat

VARIABLES
    files,      \* the four files
    job,        \* the command that holds the admission lock
    pc, alive,  \* each controller: its step, and whether it lives
    issued,     \* nonces used so far
    cons        \* each consumer: down, starting (before its preflight) or up

window == <<files, job, pc, alive, issued, cons>>

File == {"block", "lease", "fence", "proof"}

Coordinator == "coordinator"

Claim == [nonce : 1..MaxWindows, phase : {"claimed", "proved", "cleanup"},
          bound : BOOLEAN, by : Controller,
          result : {"none", "aborted", "finished", "transfer"}]

ASSUME NoClaimAssumption == None \notin Claim

Write(f, v) == [file |-> f, to |-> v]

WindowInit ==
    /\ files = [f \in File |-> None]
    /\ job = None
    /\ pc = [c \in Controller |-> "new"]
    /\ alive = [c \in Controller |-> TRUE]
    /\ issued = 0
    /\ cons = [x \in Consumer |-> "up"]
-----------------------------------------------------------------------------
(* Reading the files *)

SameWindow(a, b) == a.nonce = b.nonce /\ a.by = b.by

\* _require_matching_compatibility_block: the root block equals the public
\* lease, or lags behind it by one phase or by the receipt.
Lags(b, l) ==
    /\ SameWindow(b, l)
    /\ \/ <<b.phase, l.phase>> \in {<<"claimed", "proved">>, <<"proved", "cleanup">>}
       \/ b.phase = l.phase /\ ~b.bound /\ l.bound

\* reconcile_dead_claim_controller: a successor adopted the claim of a dead one.
LagsAdoption(b, l) ==
    /\ b.phase = "claimed" /\ l.phase = "claimed"
    /\ b.nonce = l.nonce /\ b.by # l.by
    /\ ~alive[b.by]

Matches == files.block # None /\ (files.block = files.lease \/ Lags(files.block, files.lease))

MatchesForBegin == Matches \/ (files.block # None /\ LagsAdoption(files.block, files.lease))

Sync == IF files.block = files.lease THEN <<>> ELSE <<Write("block", files.lease)>>

\* require_canonical_authority: a bound proof of the window that is open.
Canonical ==
    /\ \A f \in File : files[f] # None
    /\ \A f \in File : SameWindow(files[f], files.lease)
    /\ files.lease.phase = "proved" /\ files.lease.bound
    /\ files.block.phase = "proved" /\ files.block.bound
    /\ files.proof.bound

\* Variant of Cleanup: the claim goes before the fence.
CleanupClaimFirst ==
    <<Write("lease", None), Write("block", None), Write("fence", None), Write("proof", None)>>

\* _complete_instance_state_deployment_cleanup
Cleanup ==
    <<Write("fence", None), Write("proof", None), Write("lease", None), Write("block", None)>>

InCleanup == (IF files.lease # None THEN files.lease ELSE files.block).phase = "cleanup"

\* Cleanup reads the block, and compares it with the lease while there is one.
CleanupAllowed == files.block # None /\ (files.lease # None => Matches)

CleanupWrites == (IF files.lease # None THEN Sync ELSE <<>>) \o Cleanup

\* The lease and then the block record the cleanup and its receipt.
End(lease, result) ==
    LET ended == [lease EXCEPT !.phase = "cleanup", !.result = result]
    IN  <<Write("lease", ended), Write("block", ended)>> \o Cleanup
-----------------------------------------------------------------------------
(* Commands: each decides under the admission lock what it will write *)

Admit(who, todo, then) ==
    /\ job = None
    /\ job' = [by |-> who, todo |-> todo, then |-> then]

NewClaim(c, n) ==
    [nonce |-> n, phase |-> "claimed", bound |-> FALSE, by |-> c, result |-> "none"]

ClaimWrites(claim) ==
    (IF files.block = None THEN <<Write("block", claim)>> ELSE <<>>)
        \o <<Write("lease", claim), Write("fence", claim), Write("block", claim)>>

\* _begin_instance_state_deployment, nothing of an earlier window is left.
BeginFresh(c) ==
    /\ files.block = None /\ files.lease = None /\ files.fence = None
    /\ issued < MaxWindows
    /\ Admit(c, ClaimWrites(NewClaim(c, issued + 1)), "begun")
    /\ issued' = issued + 1

\* Only the root block of a claim was written: its own, or that of a dead one.
BeginRootOnly(c) ==
    /\ files.lease = None /\ files.block # None /\ files.block.phase = "claimed"
    /\ files.block.by = c \/ ~alive[files.block.by]
    /\ LET claim == NewClaim(c, files.block.nonce)
       IN  Admit(c, (IF files.block.by = c THEN <<>> ELSE <<Write("block", claim)>>)
                        \o ClaimWrites(claim), "begun")
    /\ UNCHANGED issued

\* Variant of MayTakeClaim: the controller's liveness is not looked at.
MayTakeAnyClaim(c) ==
    files.lease.by # c => (files.fence # None => SameWindow(files.fence, files.lease))

\* The claim in the public lease is the caller's, or its controller is dead
\* and the fence, if any, is the one that controller wrote.
MayTakeClaim(c) ==
    files.lease.by # c =>
        /\ ~alive[files.lease.by]
        /\ files.fence # None => SameWindow(files.fence, files.lease)

BeginClaimed(c) ==
    /\ files.lease # None /\ files.lease.phase = "claimed"
    /\ MatchesForBegin
    /\ MayTakeClaim(c)
    /\ LET claim == NewClaim(c, files.lease.nonce)
       IN  Admit(c, IF files.fence # None /\ SameWindow(files.fence, claim)
                        /\ files.lease.by = c
                    THEN Sync \o <<Write("block", files.lease)>>
                    ELSE Sync \o ClaimWrites(claim), "begun")
    /\ UNCHANGED issued

\* The earlier window is only half cleaned up: finish that, then begin again.
BeginCleanup(c) ==
    /\ files.lease # None \/ files.block # None
    /\ InCleanup /\ CleanupAllowed
    /\ Admit(c, CleanupWrites, "new")
    /\ UNCHANGED issued

\* The claim is refused after the root block was brought in line with it.
BeginRefused(c) ==
    /\ files.lease # None /\ files.lease.phase \in {"claimed", "proved"}
    /\ MatchesForBegin /\ Sync # <<>>
    /\ files.lease.phase = "proved" \/ ~MayTakeClaim(c)
    /\ Admit(c, Sync, "new")
    /\ UNCHANGED issued

Begin(c) ==
    /\ alive[c] /\ pc[c] = "new"
    /\ \/ BeginFresh(c) \/ BeginRootOnly(c) \/ BeginClaimed(c)
       \/ BeginCleanup(c) \/ BeginRefused(c)
    /\ UNCHANGED <<files, pc, alive, cons>>

\* The lease, the block and then the proof say that the window is proved.
ProofWrites ==
    LET proved == [files.lease EXCEPT !.phase = "proved"]
    IN  Sync \o <<Write("lease", proved), Write("block", proved),
                  Write("proof", [proved EXCEPT !.bound = FALSE])>>

\* _prove_instance_state_quiescence: both inventories show every consumer stopped.
Prove(c) ==
    /\ alive[c] /\ pc[c] = "begun"
    /\ files.lease # None /\ files.lease.by = c /\ files.lease.phase \in {"claimed", "proved"}
    /\ Matches
    /\ \A x \in Consumer : cons[x] = "down"
    /\ Admit(c, ProofWrites, "proved")
    /\ UNCHANGED <<files, pc, alive, issued, cons>>

\* deployment-prove of an operator, on the inventory that a dead controller's
\* lease was proved with.
ProveAgain(c) ==
    /\ ~alive[c]
    /\ files.lease # None /\ files.lease.by = c /\ files.lease.phase = "proved"
    /\ Matches
    /\ Admit(c, ProofWrites, "done")
    /\ UNCHANGED <<files, pc, alive, issued, cons>>

\* The proof, the fence and the lease are those of one proved window.
Proved ==
    /\ \A f \in File : files[f] # None
    /\ files.lease.phase = "proved" /\ Matches
    /\ SameWindow(files.fence, files.lease) /\ SameWindow(files.proof, files.lease)

BoundLease == [files.lease EXCEPT !.bound = TRUE]

\* _bind_legacy_owner_inventory_to_proof: the receipt of the drained owners.
BindWrites ==
    Sync \o <<Write("lease", BoundLease), Write("block", BoundLease), Write("proof", BoundLease)>>

Bind(c) ==
    /\ alive[c] /\ pc[c] = "proved"
    /\ Proved /\ files.lease.by = c
    /\ Admit(c, BindWrites, "bound")
    /\ UNCHANGED <<files, pc, alive, issued, cons>>

\* _finish_instance_state_deployment: whoever presents the proof may finish;
\* a cleanup that has begun is completed.
Finish(c) ==
    /\ alive[c] /\ pc[c] \in {"new", "proved", "bound"}
    /\ files.lease # None \/ files.block # None
    /\ IF InCleanup THEN CleanupAllowed ELSE Proved
    /\ Admit(c, IF InCleanup THEN CleanupWrites ELSE BindWrites \o End(BoundLease, "finished"),
             IF pc[c] = "new" THEN "new" ELSE "done")
    /\ UNCHANGED <<files, pc, alive, issued, cons>>

\* A step of the deployment fails after its claim was made.
Fail(c) ==
    /\ alive[c] /\ pc[c] \in {"begun", "proved", "bound"}
    /\ job = None
    /\ pc' = [pc EXCEPT ![c] = "failed"]
    /\ UNCHANGED <<files, job, alive, issued, cons>>

\* _release_instance_state_deployment_lease: only its own window.
ReleaseOwn(c) ==
    LET own == IF files.lease # None THEN files.lease ELSE files.block
    IN  /\ own # None /\ own.by = c
        /\ IF own.phase = "cleanup"
           THEN CleanupAllowed
                /\ Admit(c, CleanupWrites, "done")
           ELSE files.lease # None /\ Admit(c, End(files.lease, "aborted"), "done")

\* The failure path of the controller's script; or an operator, who presents the
\* recorded identity of a dead one.
Release(c) ==
    /\ alive[c] => pc[c] = "failed"
    /\ ReleaseOwn(c)
    /\ UNCHANGED <<files, pc, alive, issued, cons>>
-----------------------------------------------------------------------------
(* The running command, crashes and consumers *)

\* The command that holds the admission lock writes its next file.
WriteNext ==
    /\ job # None
    /\ IF job.todo = <<>>
       THEN /\ job' = None
            /\ pc' = IF job.by \in Controller THEN [pc EXCEPT ![job.by] = job.then] ELSE pc
            /\ UNCHANGED files
       ELSE /\ files' = [files EXCEPT ![Head(job.todo).file] = Head(job.todo).to]
            /\ job' = [job EXCEPT !.todo = Tail(@)]
            /\ UNCHANGED pc
    /\ UNCHANGED <<alive, issued, cons>>

\* The command dies between two writes; its controller sees it fail.
Interrupt ==
    /\ job # None /\ job.by \in Controller
    /\ job' = None
    /\ pc' = [pc EXCEPT ![job.by] = IF @ \in {"new", "done"} THEN @ ELSE "failed"]
    /\ UNCHANGED <<files, alive, issued, cons>>

\* A controller dies, and with it the command it is running.  (One that holds
\* neither lock nor file may die unnoticed: it just takes no further step.)
Die(c) ==
    /\ alive[c]
    /\ (job # None /\ job.by = c) \/ \E f \in File : files[f] # None /\ files[f].by = c
    /\ alive' = [alive EXCEPT ![c] = FALSE]
    /\ pc' = [pc EXCEPT ![c] = "done"]
    /\ job' = IF job # None /\ job.by = c THEN None ELSE job
    /\ UNCHANGED <<files, issued, cons>>

Launch(x) ==
    /\ cons[x] = "down"
    /\ cons' = [cons EXCEPT ![x] = "starting"]
    /\ UNCHANGED <<files, job, pc, alive, issued>>

NoDeployment == files.lease = None /\ files.block = None /\ files.fence = None

\* _preflight_runtime in the container's entry point
Preflight(x, admitted) ==
    /\ cons[x] = "starting"
    /\ cons' = [cons EXCEPT ![x] = IF NoDeployment /\ admitted THEN "up" ELSE "down"]
    /\ UNCHANGED <<files, job, pc, alive, issued>>

Stop(x) ==
    /\ cons[x] # "down"
    /\ cons' = [cons EXCEPT ![x] = "down"]
    /\ UNCHANGED <<files, job, pc, alive, issued>>

Deployment ==
    \/ \E c \in Controller :
          \/ Begin(c) \/ Prove(c) \/ ProveAgain(c) \/ Bind(c) \/ Finish(c)
          \/ Fail(c) \/ Release(c) \/ Die(c)
    \/ WriteNext
    \/ Interrupt

WindowNext ==
    \/ Deployment
    \/ \E x \in Consumer : Launch(x) \/ Preflight(x, TRUE) \/ Stop(x)

WindowSpec == WindowInit /\ [][WindowNext]_window
-----------------------------------------------------------------------------
(* Properties *)

\* Every variable stays in its domain.
WindowTypeOK ==
    /\ files \in [File -> Claim \cup {None}]
    /\ job = None \/ (job.by \in Controller \cup {Coordinator} /\ Len(job.todo) \in 0..10)
    /\ pc \in [Controller -> {"new", "begun", "proved", "bound", "failed", "done"}]
    /\ alive \in [Controller -> BOOLEAN]
    /\ issued \in 0..MaxWindows
    /\ cons \in [Consumer -> {"down", "starting", "up"}]

\* Whatever is interrupted, what is left of a window can be taken up again: the
\* files of two windows never mix, a restart fence never outlives the claim that
\* begin and release need to find it by, a cleanup that was begun can be
\* completed, a proved window can be proved again whoever lives, and the claim of a
\* dead controller can be adopted.  Two states are excepted: the cleanup of a
\* window that was only claimed, cut off before it reached the block, which no
\* command accepts, and an adoption cut off before the fence, which every begin
\* refuses and only a release with the dead controller's identity ends.
Resumable ==
    /\ \A f, g \in File : files[f] # None /\ files[g] # None => files[f].nonce = files[g].nonce
    /\ files.fence # None => files.lease # None \/ files.block # None
    /\ job = None /\ files.lease # None /\ files.lease.phase = "cleanup" =>
           CleanupAllowed \/ files.block.phase = "claimed"
    /\ job = None /\ files.lease # None /\ files.lease.phase = "proved" => Matches
    /\ job = None /\ files.lease # None /\ files.lease.phase = "claimed" /\ ~alive[files.lease.by] =>
           /\ MatchesForBegin
           /\ \A c \in Controller : MayTakeClaim(c) \/ (files.fence # None /\ ~alive[files.fence.by])

\* The claim of a living controller is not taken over or dropped by another
\* one: only its own release, a finish with its proof or the transfer that
\* was given the window ends it.
LiveClaimKept ==
    [][LET old == files.lease  new == files'.lease
       IN  old # None /\ old # new /\ alive[old.by] /\ old.phase # "cleanup"
               => /\ new # None /\ SameWindow(old, new)
                  /\ new.phase = "cleanup" =>
                       job.by = old.by \/ new.result \in {"finished", "transfer"}]_window
=============================================================================
