----------------------------- MODULE Mailboxes -----------------------------
(***************************************************************************)
(* What the inboxes of a team promise whoever writes to one: a letter is   *)
(* put into a box in one instant, with all that is in it staying there; no *)
(* letter is put anywhere twice; and only its owner empties a box, of what *)
(* is in it at that instant.  A box that is no list is left as it is.      *)
(* There is no file here, no lock and no copy.                             *)
(*                                                                         *)
(* A letter may be set adrift, but only in the instant it is put in or     *)
(* taken out: nothing is promised of it from then on, and of all others    *)
(* everything.                                                             *)
(***************************************************************************)
CONSTANTS
    Owners,             \* whose boxes they are
    Letters,            \* what may be put into them
    Absent,             \* no box yet
    Malformed           \* no list

VARIABLES
    box,                \* what is in each
    sent,               \* the letters that were put into any
    emptied,            \* what was taken from each
    adrift              \* those that are not promised to stay in it, or to stay away

Init ==
    /\ box \in [Owners -> {Absent, Malformed, {}}]
    /\ sent = {}
    /\ emptied = [o \in Owners |-> {}]
    /\ adrift = [o \in Owners |-> {}]

Opens(o) ==
    /\ box[o] = Absent
    /\ box' = [box EXCEPT ![o] = {}]
    /\ UNCHANGED <<sent, emptied, adrift>>

(* The two agree on what is promised. *)
Same(o, s, t) == s \ adrift'[o] = t \ adrift'[o]

MaySet(o, letters) ==
    \/ UNCHANGED adrift
    \/ adrift' = [adrift EXCEPT ![o] = @ \cup letters]

Puts(o, l) ==
    /\ box[o] \notin {Absent, Malformed}
    /\ l \notin sent /\ sent' = sent \cup {l}
    /\ MaySet(o, {l})
    /\ \E s \in SUBSET Letters : Same(o, s, box[o] \cup {l}) /\ box' = [box EXCEPT ![o] = s]
    /\ UNCHANGED emptied

Empties(o) ==
    /\ box[o] \notin {Absent, Malformed}
    /\ UNCHANGED sent /\ box' = [box EXCEPT ![o] = {}]
    /\ MaySet(o, box[o])
    /\ \E s \in SUBSET Letters : /\ Same(o, s, box[o])
                                 /\ emptied' = [emptied EXCEPT ![o] = @ \cup s]

Next == \E o \in Owners : Opens(o) \/ Empties(o) \/ \E l \in Letters : Puts(o, l)

Spec == Init /\ [][Next]_<<box, sent, emptied, adrift>>
=============================================================================
