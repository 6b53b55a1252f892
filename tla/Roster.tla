------------------------------- MODULE Roster -------------------------------
(***************************************************************************)
(* What the board of a run promises whoever reads it: who is on the run,   *)
(* how far each has come and where each is.  A run is founded once and     *)
(* ends for good.  A worker is entered once, starts at most once, and is   *)
(* over for good; it is given a home that nobody else has, and keeps one.  *)
(* Each entry is a change of its own; only ends may come several at once.  *)
(***************************************************************************)
CONSTANTS
    Names,      \* the workers there may be
    Homes,      \* where they may be
    Over,       \* what a worker that is over may be called
    None        \* no home

VARIABLES
    run,        \* none, active or ended
    life,       \* absent, pending, running or one of Over
    home        \* where a worker is

Init ==
    /\ run = "none"
    /\ life = [n \in Names |-> "absent"]
    /\ home = [n \in Names |-> None]

Free(h) == \A n \in Names : home[n] # h

Enters(n, h) ==
    /\ life[n] = "absent" /\ Free(h)
    /\ life' = [life EXCEPT ![n] = "pending"]
    /\ home' = [home EXCEPT ![n] = h]

(* A run starts with a team that is yet to be housed, or around one worker. *)
Found(team) ==
    /\ run = "none" /\ run' = "active"
    /\ life' = [n \in Names |-> IF n \in team THEN "pending" ELSE "absent"]
    /\ UNCHANGED home

FoundAround(n, h) == run = "none" /\ run' = "active" /\ Enters(n, h)

(* It may have ended by then. *)
Join(n, h) == run # "none" /\ UNCHANGED run /\ Enters(n, h)

(* Whoever is on the board may be housed, or housed elsewhere. *)
House(n, h) ==
    /\ life[n] # "absent" /\ Free(h)
    /\ home' = [home EXCEPT ![n] = h]
    /\ UNCHANGED <<run, life>>

Start(n) ==
    /\ life[n] = "pending"
    /\ life' = [life EXCEPT ![n] = "running"]
    /\ UNCHANGED <<run, home>>

(* Some are over, for the first time or by another name; the run may be too. *)
Settle ==
    /\ run # "none" /\ run' \in {run, "ended"}
    /\ DOMAIN life' = Names
    /\ \A n \in Names : life'[n] = life[n] \/ (life[n] # "absent" /\ life'[n] \in Over)
    /\ UNCHANGED home

Next ==
    \/ Settle
    \/ \E team \in SUBSET Names : Found(team)
    \/ \E n \in Names, h \in Homes : FoundAround(n, h) \/ Join(n, h) \/ House(n, h)
    \/ \E n \in Names : Start(n)

Spec == Init /\ [][Next]_<<run, life, home>>
=============================================================================
