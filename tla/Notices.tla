------------------------------ MODULE Notices ------------------------------
(***************************************************************************)
(* What the hooks and the attention requests promise whoever is notified:  *)
(* a notification is owed from the instant its gate is set, one for each   *)
(* time that it is; it is then shown or dropped, and what was dropped is   *)
(* not owed again; and only an acknowledgement takes a gate away.  There   *)
(* is no event here, no process, and nothing that both tests a gate and    *)
(* shows a notification.                                                   *)
(***************************************************************************)
EXTENDS Naturals

CONSTANTS
    Keys,               \* what may be notified
    Acknowledged        \* those of them that somebody acknowledges

VARIABLES
    gate,               \* what is not to be notified again
    owed,               \* how many notifications are still to be shown
    shown,              \* how many were
    dropped,            \* of what a notification failed
    cleared             \* how often it was acknowledged

Init ==
    /\ gate = {} /\ dropped = {}
    /\ owed = [k \in Keys |-> 0]
    /\ shown = [k \in Keys |-> 0]
    /\ cleared = [k \in Keys |-> 0]

(* New conditions have come about. *)
Raise(ks) ==
    /\ gate' = gate \cup ks
    /\ owed' = [k \in Keys |-> IF k \in ks THEN owed[k] + 1 ELSE owed[k]]
    /\ UNCHANGED <<shown, dropped, cleared>>

Show(k) ==
    /\ shown' = [shown EXCEPT ![k] = @ + 1]
    /\ owed[k] > 0
    /\ owed' = [owed EXCEPT ![k] = @ - 1]
    /\ UNCHANGED <<gate, dropped, cleared>>

(* A process ends that had these to show. *)
Drop(ks) ==
    /\ dropped' = dropped \cup ks
    /\ owed' = [k \in Keys |-> IF k \in ks THEN owed[k] - 1 ELSE owed[k]]
    /\ UNCHANGED <<gate, shown, cleared>>

Acknowledge(k) ==
    /\ k \in gate
    /\ gate' = gate \ {k}
    /\ cleared' = [cleared EXCEPT ![k] = @ + 1]
    /\ UNCHANGED <<owed, shown, dropped>>

Next ==
    \/ \E ks \in SUBSET (Keys \ gate) : Raise(ks)
    \/ \E ks \in SUBSET {k \in Keys : owed[k] > 0} : Drop(ks)
    \/ \E k \in Keys : Show(k)
    \/ \E k \in Acknowledged : Acknowledge(k)

Spec == Init /\ [][Next]_<<gate, owed, shown, dropped, cleared>>
=============================================================================
