----------------------------- MODULE AtLeastOnce -----------------------------
(***************************************************************************)
(* What the outbox promises its producers, without consumers, attempts,    *)
(* transactions or crashes: a message is published once, and settled only  *)
(* after its event was concluded, by a handler or by a dead letter.        *)
(***************************************************************************)
CONSTANTS Msg, EventOf

VARIABLES published, settled, concluded

vars == <<published, settled, concluded>>

Init == published = {} /\ settled = {} /\ concluded = {}

Publish(m) ==
    /\ m \notin published
    /\ published' = published \cup {m}
    /\ UNCHANGED <<settled, concluded>>

Conclude(m) ==
    /\ m \in published
    /\ concluded' = concluded \cup {EventOf[m]}
    /\ UNCHANGED <<published, settled>>

Settle(m) ==
    /\ m \in published \ settled
    /\ EventOf[m] \in concluded
    /\ settled' = settled \cup {m}
    /\ UNCHANGED <<published, concluded>>

Next == \E m \in Msg : Publish(m) \/ Conclude(m) \/ Settle(m)

Spec == Init /\ [][Next]_vars
=============================================================================
