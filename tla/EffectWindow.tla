---------------------------- MODULE EffectWindow ----------------------------
(***************************************************************************)
(* What a binding effect lease promises: effects on a binding share its    *)
(* window, a change of the binding has it alone, and nobody enters once    *)
(* ownership is withdrawn, which only the one who is alone inside may do.  *)
(***************************************************************************)
CONSTANT Proc

VARIABLES inside, owned

vars == <<inside, owned>>

Init == inside = [p \in Proc |-> "out"] /\ owned = TRUE

EnterShared(p) ==
    /\ inside[p] = "out" /\ owned
    /\ \A q \in Proc : inside[q] # "exclusive"
    /\ inside' = [inside EXCEPT ![p] = "shared"]
    /\ UNCHANGED owned

EnterExclusive(p) ==
    /\ owned
    /\ \A q \in Proc : inside[q] = "out"
    /\ inside' = [inside EXCEPT ![p] = "exclusive"]
    /\ UNCHANGED owned

Leave(p) ==
    /\ inside[p] # "out"
    /\ inside' = [inside EXCEPT ![p] = "out"]
    /\ UNCHANGED owned

Withdraw(p) ==
    /\ inside[p] = "exclusive"
    /\ owned' = FALSE
    /\ UNCHANGED inside

Next == \E p \in Proc : EnterShared(p) \/ EnterExclusive(p) \/ Leave(p) \/ Withdraw(p)

Spec == Init /\ [][Next]_vars
=============================================================================
