---------------------------- MODULE MessageQueue ----------------------------
(***************************************************************************)
(* What the outbox of a target promises its senders: a message is kept     *)
(* from the moment its sender is told it is queued until its delivery is   *)
(* verified, unless it is exposed, and only queued messages are delivered  *)
(* by a drain.  There is no order and no bound here, no file and no        *)
(* process.                                                                *)
(***************************************************************************)
CONSTANT Msgs

VARIABLES
    pending,    \* queued and not yet submitted
    submitted,  \* delivered, the delivery verified
    exposed     \* those the promise does not cover: others were mixed up with them

Init == pending \subseteq Msgs /\ submitted = {} /\ exposed = {}

(* The target can take the message now. *)
SendNow(m) ==
    /\ m \notin pending
    /\ submitted' = submitted \cup {m}
    /\ UNCHANGED <<pending, exposed>>

(* The target is busy: the message waits. *)
Put(m) ==
    /\ m \notin submitted
    /\ pending' = pending \cup {m}
    /\ UNCHANGED <<submitted, exposed>>

(* A drain delivers a waiting message. *)
Submit(m) ==
    /\ m \in pending
    /\ pending' = pending \ {m}
    /\ submitted' = submitted \cup {m}
    /\ UNCHANGED exposed

(* Messages are mixed up: from now on they may be lost. *)
Expose ==
    /\ exposed \subseteq exposed'
    /\ UNCHANGED submitted
    /\ pending' \subseteq pending /\ pending \ pending' \subseteq exposed'

Next == Expose \/ \E m \in Msgs : SendNow(m) \/ Put(m) \/ Submit(m)

Spec == Init /\ [][Next]_<<pending, submitted, exposed>>
=============================================================================
