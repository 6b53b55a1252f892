------------------------------- MODULE MCTeam -------------------------------
(* Small instances of Team for TLC, and the specifications a team starts from. *)
EXTENDS Team, TeamSpec

Interchangeable == UNION {Permutations(S) : S \in {Panes, UserPanes, Adoptable, Spawners, Adopters}}

(***************************************************************************)
(* What no step asks for but to set it: how often a pane was briefed,      *)
(* whether the agent of a user's pane is at work, and how far an adopted   *)
(* worker's launch has come.                                               *)
(***************************************************************************)
WhatStepsRead ==
    <<runLife, life, [w \in Spawned |-> point[w]], paneOf, treeOf,
      [p \in Panes |-> pane[p]], {p \in UserPanes : Open(p)},
      trees, prepared, events, spawnVars, killVars, adoptVars>>

(***************************************************************************)
(* What spawn takes from the user, before it creates anything, is a team   *)
(* it can launch and msg can reach.  The checks have no state: they are    *)
(* evaluated while no command has started.                                 *)
(***************************************************************************)
StartsFromSoundTeams ==
    runLife = "none" /\ (\A s \in Spawners : sphase[s] = "off") => TeamsCanStart
=============================================================================
