-------------------------------- MODULE Kill --------------------------------
(***************************************************************************)
(* `kill <run>` and `kill <run> --worker <name>` (src/status_kill.rs),     *)
(* without --remove-worktrees: load the board without the lock, close or   *)
(* release what it shows one worker after the other, and then write the    *)
(* result in one update of the board.                                      *)
(***************************************************************************)
EXTENDS RunBoard

CONSTANTS
    Killers,    \* the kill processes
    Everyone    \* the target of a kill without --worker

ASSUME KillAssumption == Everyone \notin Workers

VARIABLES
    kphase,     \* where the process is
    target,     \* the worker it kills, or Everyone
    shown,      \* the pane_id of each worker as it loaded the board, to be closed
    due,        \* the workers it has still to close or release
    missed      \* the workers it could not close or release

killVars == <<kphase, target, shown, due, missed>>

KillTypeOK ==
    /\ kphase \in [Killers -> {"off", "close"}]
    /\ target \in [Killers -> Workers \cup {Everyone}]
    /\ shown \in [Killers -> [Workers -> Places \cup {None}]]
    /\ due \in [Killers -> SUBSET Workers]
    /\ missed \in [Killers -> SUBSET Workers]

Nothing == [w \in Workers |-> None]

KillInit ==
    /\ kphase = [k \in Killers |-> "off"]
    /\ target = [k \in Killers |-> Everyone]
    /\ shown = [k \in Killers |-> Nothing]
    /\ due = [k \in Killers |-> {}]
    /\ missed = [k \in Killers |-> {}]

OnBoard == {w \in Workers : life[w] # "absent"}

(* What end_worker_lifecycles makes of a worker. *)
EndOf(w) == IF w \in Adoptable THEN "released" ELSE "ended"

Closes(k, whom, panes, workers) ==
    /\ kphase[k] = "off"
    /\ kphase' = [kphase EXCEPT ![k] = "close"]
    /\ target' = [target EXCEPT ![k] = whom]
    /\ shown' = [shown EXCEPT ![k] = panes]
    /\ due' = [due EXCEPT ![k] = workers]
    /\ UNCHANGED <<missed, boardVars>>

KillLeaves(k) ==
    /\ kphase' = [kphase EXCEPT ![k] = "off"]
    /\ target' = [target EXCEPT ![k] = Everyone]
    /\ shown' = [shown EXCEPT ![k] = Nothing]
    /\ due' = [due EXCEPT ![k] = {}]
    /\ missed' = [missed EXCEPT ![k] = {}]

-----------------------------------------------------------------------------
(* Loading. *)

(* The workspaces on the board, closed before or not, and the adopted workers. *)
LoadActiveRun(k) ==
    /\ runLife = "active"
    /\ LET own == {w \in Spawned : paneOf[w] # None}
           adopted == {w \in Adoptable \cap OnBoard : life[w] \notin {"failed", "released"}} IN
       Closes(k, Everyone, paneOf, own \cup adopted)

(* An ended run: only lifecycles are put right, and nothing is closed. *)
LoadEndedRun(k) ==
    /\ runLife = "ended"
    /\ \E w \in OnBoard : life[w] \notin {"failed", EndOf(w)}
    /\ Closes(k, Everyone, Nothing, {})

LoadWorker(k, w) ==
    /\ runLife = "active"
    /\ w \in OnBoard
    /\ life[w] \notin {"ended", "released", "failed"}
    /\ Closes(k, w, paneOf, {w} \cap {v \in Workers : paneOf[v] # None})

-----------------------------------------------------------------------------
(* Closing and releasing. *)

Does(k, w) ==
    /\ kphase[k] = "close"
    /\ w \in due[k]
    /\ w \in Spawned => due[k] \cap Adoptable = {}     \* the adopted come first
    /\ due' = [due EXCEPT ![k] = @ \ {w}]
    /\ UNCHANGED <<kphase, target, shown>>

CloseOwn(k, w) ==
    /\ Does(k, w)
    /\ w \in Spawned
    /\ CloseWorkspace(shown[k][w])
    /\ UNCHANGED <<board, briefs, trees, prepared, missed>>

(* The release notice is a prompt; an adopted pane is never closed. *)
ReleaseAdopted(k, w) ==
    /\ Does(k, w)
    /\ w \in Adoptable
    /\ Open(shown[k][w])
    /\ pane' = [pane EXCEPT ![shown[k][w]] = "working"]
    /\ UNCHANGED <<board, briefs, trees, prepared, events, missed>>

(* A bug the teardown check must catch: what could not be closed is forgotten. *)
CloseMissesSilently(k, w) ==
    /\ Does(k, w)
    /\ UNCHANGED missed
    /\ UNCHANGED boardVars

(* The workspace or the pane is gone, or Herdr fails. *)
CloseMisses(k, w) ==
    /\ Does(k, w)
    /\ missed' = [missed EXCEPT ![k] = @ \cup {w}]
    /\ UNCHANGED boardVars

-----------------------------------------------------------------------------
(* persist_kill_state. *)

PersistRun(k) ==
    /\ kphase[k] = "close"
    /\ due[k] = {}
    /\ target[k] = Everyone
    /\ life' = [w \in Workers |->
                  CASE w \in missed[k] -> "failed"
                    [] w \notin missed[k] /\ life[w] \in {"absent", "failed"} -> life[w]
                    [] OTHER -> EndOf(w)]
    /\ runLife' = "ended"
    /\ KillLeaves(k)
    /\ UNCHANGED <<point, paneOf, treeOf, world, events>>

PersistWorker(k) ==
    /\ kphase[k] = "close"
    /\ due[k] = {}
    /\ target[k] \in Workers
    /\ life' = [life EXCEPT ![target[k]] =
                  IF target[k] \in missed[k] THEN "failed" ELSE EndOf(target[k])]
    /\ runLife' = IF \A w \in OnBoard : life'[w] \in {"ended", "released", "failed"}
                  THEN "ended" ELSE runLife
    /\ KillLeaves(k)
    /\ UNCHANGED <<point, paneOf, treeOf, world, events>>

KillCrashes(k) ==
    /\ "kill" \in Mortal
    /\ kphase[k] # "off"
    /\ KillLeaves(k)
    /\ UNCHANGED boardVars

KillStep(k) ==
    \/ LoadActiveRun(k)
    \/ LoadEndedRun(k)
    \/ \E w \in Workers :
        LoadWorker(k, w) \/ CloseOwn(k, w) \/ ReleaseAdopted(k, w) \/ CloseMisses(k, w)
    \/ PersistRun(k)
    \/ PersistWorker(k)
    \/ KillCrashes(k)
=============================================================================
