------------------------------ MODULE RunBoard ------------------------------
(***************************************************************************)
(* One team run as its commands share it: the board run.toml               *)
(* (src/run.rs, src/types.rs) and, outside the program, the panes Herdr    *)
(* keeps, the agents in them and the working trees.                        *)
(*                                                                         *)
(* Every change of the board is one update_run_with_hook: a fresh load, a  *)
(* mutation and an atomic rename under the file lock, so it is one step    *)
(* here.  What a command loads without the lock it keeps in variables of   *)
(* its own (Spawn, Kill, Adopt), because it may be stale when used.        *)
(*                                                                         *)
(* workspace_create returns a new workspace with one root pane and nothing *)
(* ever splits it, so the workspace goes by the name of its pane.          *)
(*                                                                         *)
(* The constant Faults names what may happen beyond a failed call:         *)
(*   "overlap"  a spawn or resume starts while another is under way;       *)
(*   "idle"     an agent ends its turn before its checkpoint is on the     *)
(*              board;                                                     *)
(*   "prompt"   somebody else starts a turn of an agent not yet briefed;   *)
(*   "exit"     a pane of the team exits on its own;                       *)
(*   "god"      the god's pane closes.                                     *)
(* The commands named in Mortal may die between two of their steps.        *)
(***************************************************************************)
EXTENDS Naturals, FiniteSets

CONSTANTS
    Spawned,    \* the workers of the team's specification
    Trees,      \* those of them with worktree = true
    Adoptable,  \* the names `adopt` may give to a worker
    Panes,      \* the root panes of the workspaces Herdr may create
    UserPanes,  \* the panes of the agents that may be adopted
    Faults,     \* see above
    Mortal,     \* see above
    None        \* no pane

AllFaults == {"overlap", "idle", "prompt", "exit", "god"}

Workers == Spawned \cup Adoptable
Places == Panes \cup UserPanes

ASSUME BoardAssumption ==
    /\ Trees \subseteq Spawned
    /\ Spawned \cap Adoptable = {}
    /\ Panes \cap UserPanes = {}
    /\ None \notin Places
    /\ Faults \subseteq AllFaults
    /\ Mortal \subseteq {"spawn", "adopt", "kill", "hook"}

VARIABLES
    runLife,    \* RunState.lifecycle, or "none" before create_run
    life,       \* WorkerRunState.lifecycle, or "absent"
    point,      \* WorkerRunState.launch_checkpoint
    paneOf,     \* WorkerRunState.pane_id (and workspace_id)
    treeOf,     \* the workers with a worktree_path
    pane,       \* what Herdr has at a place
    briefs,     \* how often a brief was submitted there: none, one or more
    trees,      \* the workers whose working tree exists
    prepared,   \* those for which all setup commands have succeeded in it
    events      \* the events of closed panes that a hook has yet to handle

board == <<runLife, life, point, paneOf, treeOf>>
world == <<pane, briefs, trees, prepared>>
boardVars == <<board, world, events>>

Open(p) == pane[p] \in {"shell", "idle", "working"}

TerminalLives == {"failed", "ended", "released", "orphaned"}
Lives == {"absent", "pending", "running"} \cup TerminalLives

Exited(p) == [kind |-> "exited", place |-> p]
Removed(p) == [kind |-> "removed", place |-> p]
GodClosed == [kind |-> "god", place |-> None]
Events == {Exited(p) : p \in Places} \cup {Removed(p) : p \in Panes} \cup {GodClosed}

BoardTypeOK ==
    /\ runLife \in {"none", "active", "ended"}
    /\ life \in [Workers -> Lives]
    /\ point \in [Workers -> {"pending", "ready", "briefed"}]
    /\ paneOf \in [Workers -> Places \cup {None}]
    /\ treeOf \subseteq Trees
    /\ pane \in [Places -> {"unused", "shell", "idle", "working", "closed"}]
    /\ briefs \in [Places -> 0..2]
    /\ trees \subseteq Trees
    /\ prepared \subseteq Trees
    /\ events \subseteq Events

BoardInit ==
    /\ runLife = "none"
    /\ life = [w \in Workers |-> "absent"]
    /\ point = [w \in Workers |-> "pending"]
    /\ paneOf = [w \in Workers |-> None]
    /\ treeOf = {}
    /\ pane = [p \in Places |-> IF p \in UserPanes THEN "idle" ELSE "unused"]
    /\ briefs = [p \in Places |-> 0]
    /\ trees = {}
    /\ prepared = {}
    /\ events = {}

(***************************************************************************)
(* Herdr calls a hook for every closed pane and workspace.  The hook first *)
(* lists the active runs without the lock.  A run never becomes active     *)
(* again, so an event of an ended run is never handled, and one of an      *)
(* active run may be, by a hook that read the list at once, at any later   *)
(* time.                                                                   *)
(***************************************************************************)
Emit(new) == events' = events \cup {e \in new : runLife = "active"}

(* `herdr workspace close`: the root pane goes with its workspace. *)
CloseWorkspace(p) ==
    /\ Open(p)
    /\ pane' = [pane EXCEPT ![p] = "closed"]
    /\ Emit({Exited(p), Removed(p)})

(* A prompt is submitted to the agent at p, which starts a turn. *)
SubmitBrief(p) ==
    /\ pane[p] \in {"idle", "working"}
    /\ pane' = [pane EXCEPT ![p] = "working"]
    /\ briefs' = [briefs EXCEPT ![p] = IF @ < 2 THEN @ + 1 ELSE @]

(* A pending worker is resolved; any other lifecycle is left alone. *)
ResolvePending(w, to) ==
    life' = [life EXCEPT ![w] = IF @ = "pending" THEN to ELSE @]

-----------------------------------------------------------------------------
(* What happens in Herdr without any command. *)

AgentEndsTurn(p) ==
    /\ pane[p] = "working"
    /\ "idle" \in Faults \/ \E w \in Workers : paneOf[w] = p /\ point[w] = "briefed"
    /\ pane' = [pane EXCEPT ![p] = "idle"]
    /\ UNCHANGED <<board, briefs, trees, prepared, events>>

AgentPrompted(p) ==
    /\ "prompt" \in Faults
    /\ pane[p] = "idle"
    /\ pane' = [pane EXCEPT ![p] = "working"]
    /\ UNCHANGED <<board, briefs, trees, prepared, events>>

PaneExits(p) ==
    /\ "exit" \in Faults
    /\ Open(p)
    /\ pane' = [pane EXCEPT ![p] = "closed"]
    /\ Emit({Exited(p)})
    /\ UNCHANGED <<board, briefs, trees, prepared>>

GodPaneCloses ==
    /\ "god" \in Faults
    /\ runLife = "active"
    /\ Emit({GodClosed})
    /\ UNCHANGED <<board, world>>

HerdrMoves ==
    \/ \E p \in Places : AgentEndsTurn(p) \/ AgentPrompted(p) \/ PaneExits(p)
    \/ GodPaneCloses
=============================================================================
