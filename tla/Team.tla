-------------------------------- MODULE Team --------------------------------
(***************************************************************************)
(* One team run with every command that changes its board under way at the *)
(* same time: spawn and resume, adopt, kill and the hook.  They share the  *)
(* board and Herdr, and nothing else orders them.                          *)
(***************************************************************************)
EXTENDS Spawn, Kill, Adopt, Reconcile

vars == <<boardVars, spawnVars, killVars, adoptVars>>

TypeOK == BoardTypeOK /\ SpawnTypeOK /\ KillTypeOK /\ AdoptTypeOK

Init == BoardInit /\ SpawnInit /\ KillInit /\ AdoptInit

Next ==
    \/ \E s \in Spawners : SpawnStep(s) /\ UNCHANGED <<killVars, adoptVars>>
    \/ \E k \in Killers : KillStep(k) /\ UNCHANGED <<spawnVars, adoptVars>>
    \/ \E x \in Adopters : AdoptStep(x) /\ UNCHANGED <<spawnVars, killVars>>
    \/ HookStep /\ UNCHANGED <<spawnVars, killVars, adoptVars>>
    \/ HerdrMoves /\ UNCHANGED <<spawnVars, killVars, adoptVars>>

Spec == Init /\ [][Next]_vars

-----------------------------------------------------------------------------
(***************************************************************************)
(* What all commands together make of the board is a roster: each of their *)
(* steps is one entry of it or none.  Above all, no checkpoint or failure, *)
(* written late by a thread that knows nothing of the kill or the exit,    *)
(* brings back a worker that is over, nor does an adoption that selected   *)
(* its run long ago enter a worker twice or in another's pane.             *)
(***************************************************************************)
Promised == INSTANCE Roster
            WITH Names <- Workers, Homes <- Places, Over <- TerminalLives,
                 run <- runLife, home <- paneOf

KeepsRoster == Promised!Spec

(* No two workers of a run are recorded in the same pane. *)
OnePanePerWorker ==
    \A v, w \in Workers : paneOf[v] = paneOf[w] /\ paneOf[v] # None => v = w

(***************************************************************************)
(* A worker is recorded as running only after a brief was submitted in the *)
(* pane it is recorded in.                                                 *)
(***************************************************************************)
RunningBriefed ==
    \A w \in Workers : life[w] = "running" => paneOf[w] # None /\ briefs[paneOf[w]] > 0

(***************************************************************************)
(* "Re-injecting would queue a duplicate brief": no pane that spawn made   *)
(* gets a second brief, whatever crashes and however often it is resumed.  *)
(***************************************************************************)
BriefedOnce == \A p \in Panes : briefs[p] <= 1

(***************************************************************************)
(* "No agent CLI launches until allocation completes for the whole team":  *)
(* once an agent is in a pane of spawn's, each worker of the team has its  *)
(* pane on the board or is terminal.                                       *)
(***************************************************************************)
LaunchAfterAllocation ==
    (\E p \in Panes : pane[p] \in {"idle", "working"}) =>
        \A w \in Spawned : paneOf[w] # None \/ life[w] \in TerminalLives

(***************************************************************************)
(* A kill of the run reports what it could not do: when it has written its *)
(* result, each workspace it set out to close is closed, or its worker is  *)
(* recorded as failed, whatever spawn, resume and hooks did meanwhile.     *)
(***************************************************************************)
KillAccounts ==
    [][\A k \in Killers : PersistRun(k) =>
        \A w \in Spawned : shown[k][w] # None => ~Open(shown[k][w]) \/ life'[w] = "failed"]_vars
=============================================================================
