------------------------------- MODULE Spawn --------------------------------
(***************************************************************************)
(* `spawn` and `spawn --resume` (src/spawn.rs): allocate every worker's    *)
(* working tree and workspace one worker after the other, write the        *)
(* protocols, then launch and brief the workers in one thread each.        *)
(*                                                                         *)
(* The code goes through the workers in the order of the specification,   *)
(* here they are taken in any order.                                       *)
(*                                                                         *)
(* Every call into Herdr may fail.  An update of the board does not: a     *)
(* failed write ends the command as a crash does.                          *)
(***************************************************************************)
EXTENDS RunBoard

CONSTANT Spawners   \* the spawn and resume processes

VARIABLES
    sphase,     \* where the process is
    resuming,   \* it is a resume
    crew,       \* the workers it works on
    todo,       \* those it has still to allocate
    copy,       \* pane_id and worktree_path as it last read the board
    step,       \* what it does next for a worker
    hand        \* the pane it has for a worker

spawnVars == <<sphase, resuming, crew, todo, copy, step, hand>>

Steps == {"rest", "record_tree", "setup", "workspace", "record_pane",
          "start", "look", "launch", "brief", "checkpoint", "failed"}

NoCopy == [pane |-> [w \in Spawned |-> None], tree |-> {}]

SpawnTypeOK ==
    /\ sphase \in [Spawners -> {"off", "allocate", "launch"}]
    /\ resuming \in [Spawners -> BOOLEAN]
    /\ crew \in [Spawners -> SUBSET Spawned]
    /\ todo \in [Spawners -> SUBSET Spawned]
    /\ copy \in [Spawners -> [pane : [Spawned -> Panes \cup {None}], tree : SUBSET Trees]]
    /\ step \in [Spawners -> [Spawned -> Steps]]
    /\ hand \in [Spawners -> [Spawned -> Panes \cup {None}]]
    /\ \A s \in Spawners, w \in Spawned :    \* else the code panics
        step[s][w] \in {"record_pane", "look", "launch", "brief"} => hand[s][w] \in Panes

SpawnInit ==
    /\ sphase = [s \in Spawners |-> "off"]
    /\ resuming = [s \in Spawners |-> FALSE]
    /\ crew = [s \in Spawners |-> {}]
    /\ todo = [s \in Spawners |-> {}]
    /\ copy = [s \in Spawners |-> NoCopy]
    /\ step = [s \in Spawners |-> [w \in Spawned |-> "rest"]]
    /\ hand = [s \in Spawners |-> [w \in Spawned |-> None]]

Rests(s) == \A w \in Spawned : step[s][w] = "rest"
Takes(s, w, to) == step' = [step EXCEPT ![s][w] = to]
Goes(s, w, from, to) == step[s][w] = from /\ Takes(s, w, to)

(* update_worker_state replaces the process's copy by the board it wrote. *)
Refresh(s) ==
    copy' = [copy EXCEPT ![s] = [pane |-> [w \in Spawned |-> paneOf'[w]], tree |-> treeOf']]

(* The process returns or dies, and its threads with it. *)
Leaves(s) ==
    /\ sphase' = [sphase EXCEPT ![s] = "off"]
    /\ resuming' = [resuming EXCEPT ![s] = FALSE]
    /\ crew' = [crew EXCEPT ![s] = {}]
    /\ todo' = [todo EXCEPT ![s] = {}]
    /\ copy' = [copy EXCEPT ![s] = NoCopy]
    /\ step' = [step EXCEPT ![s] = [w \in Spawned |-> "rest"]]
    /\ hand' = [hand EXCEPT ![s] = [w \in Spawned |-> None]]

StartsWith(s, workers) ==
    /\ sphase[s] = "off"
    /\ sphase' = [sphase EXCEPT ![s] = "allocate"]
    /\ crew' = [crew EXCEPT ![s] = workers]
    /\ todo' = [todo EXCEPT ![s] = workers]
    /\ Refresh(s)
    /\ UNCHANGED <<step, hand>>

-----------------------------------------------------------------------------
(* Starting. *)

(* `spawn`: the preflight has passed; create_run writes the first board. *)
CreateRun(s) ==
    /\ runLife = "none"
    /\ runLife' = "active"
    /\ life' = [w \in Workers |-> IF w \in Spawned THEN "pending" ELSE "absent"]
    /\ UNCHANGED <<point, paneOf, treeOf, resuming, world, events>>
    /\ StartsWith(s, Spawned)

(* `spawn --resume` takes up the workers that are pending and not adopted. *)
StartResume(s) ==
    LET pending == {w \in Spawned : life[w] = "pending"} IN
    /\ "overlap" \in Faults \/ \A other \in Spawners : sphase[other] = "off"
    /\ pending # {}
    /\ resuming' = [resuming EXCEPT ![s] = TRUE]
    /\ UNCHANGED boardVars
    /\ StartsWith(s, pending)

-----------------------------------------------------------------------------
(* Allocating: allocate_worker_workspace, ensure_pending_resources. *)

Recorded(s, w) == copy[s].pane[w]
PaneIsLive(s, w) == resuming[s] /\ Recorded(s, w) # None /\ Open(Recorded(s, w))
HasCwd(s, w) == w \in Trees => resuming[s] /\ w \in copy[s].tree

(* The process is about to allocate w, which needs more than it has. *)
Picks(s, w) ==
    /\ sphase[s] = "allocate"
    /\ Rests(s)
    /\ w \in todo[s]
    /\ ~PaneIsLive(s, w)

(* A resume keeps a live recorded pane. *)
KeepPane(s, w) ==
    /\ sphase[s] = "allocate"
    /\ Rests(s)
    /\ w \in todo[s]
    /\ PaneIsLive(s, w)
    /\ point' = [point EXCEPT ![w] = "ready"]
    /\ todo' = [todo EXCEPT ![s] = @ \ {w}]
    /\ UNCHANGED <<runLife, life, paneOf, treeOf, world, events, sphase, resuming, crew, step, hand>>
    /\ Refresh(s)

MakeTree(s, w) ==
    /\ Picks(s, w)
    /\ ~HasCwd(s, w)
    /\ trees' = trees \cup {w}
    /\ Takes(s, w, "record_tree")
    /\ UNCHANGED <<board, pane, briefs, prepared, events, sphase, resuming, crew, todo, copy, hand>>

RecordTree(s, w) ==
    /\ Goes(s, w, "record_tree", "setup")
    /\ treeOf' = treeOf \cup {w}
    /\ UNCHANGED <<runLife, life, point, paneOf, world, events, sphase, resuming, crew, todo, hand>>
    /\ Refresh(s)

RunSetup(s, w) ==
    /\ Goes(s, w, "setup", "workspace")
    /\ prepared' = prepared \cup {w}
    /\ UNCHANGED <<board, pane, briefs, trees, events, sphase, resuming, crew, todo, copy, hand>>

MakeWorkspace(s, w) ==
    /\ step[s][w] = "workspace" \/ (Picks(s, w) /\ HasCwd(s, w))
    /\ \E p \in Panes :
        /\ pane[p] = "unused"
        /\ pane' = [pane EXCEPT ![p] = "shell"]
        /\ hand' = [hand EXCEPT ![s][w] = p]
    /\ Takes(s, w, "record_pane")
    /\ UNCHANGED <<board, briefs, trees, prepared, events, sphase, resuming, crew, todo, copy>>

RecordPane(s, w) ==
    /\ Goes(s, w, "record_pane", "rest")
    /\ paneOf' = [paneOf EXCEPT ![w] = hand[s][w]]
    /\ point' = [point EXCEPT ![w] = "ready"]
    /\ todo' = [todo EXCEPT ![s] = @ \ {w}]
    /\ UNCHANGED <<runLife, life, treeOf, world, events, sphase, resuming, crew, hand>>
    /\ Refresh(s)

(***************************************************************************)
(* The tree, a setup command or the workspace fails.  `spawn` marks the    *)
(* worker failed, whatever it was; `resume` just returns the error.        *)
(***************************************************************************)
AllocateFails(s, w) ==
    /\ Picks(s, w) \/ step[s][w] \in {"setup", "workspace"}
    /\ life' = IF resuming[s] THEN life ELSE [life EXCEPT ![w] = "failed"]
    /\ Leaves(s)
    /\ UNCHANGED <<runLife, point, paneOf, treeOf, world, events>>

-----------------------------------------------------------------------------
(* Launching: write_worker_protocol, then launch_worker in every thread. *)

LaunchThreads(s, workers) ==
    /\ sphase[s] = "allocate"
    /\ Rests(s)
    /\ sphase' = [sphase EXCEPT ![s] = "launch"]
    /\ step' = [step EXCEPT ![s] = [w \in Spawned |-> IF w \in workers THEN "start" ELSE "rest"]]
    /\ UNCHANGED <<boardVars, resuming, crew, todo, copy, hand>>

(* A bug LaunchAfterAllocation must catch: the loop need not be through. *)
WriteProtocolsPartly(s) == crew[s] # todo[s] /\ LaunchThreads(s, crew[s] \ todo[s])

(* The protocols are on disk, and no agent is launched before they all are. *)
WriteProtocols(s) == todo[s] = {} /\ LaunchThreads(s, crew[s])

ProtocolsFail(s) ==
    /\ sphase[s] = "allocate"
    /\ Rests(s)
    /\ todo[s] = {}
    /\ Leaves(s)
    /\ UNCHANGED boardVars

(* Each thread reads its worker's pane from the copy the threads share. *)
ReadPane(s, w) ==
    /\ Goes(s, w, "start", IF resuming[s] THEN "look" ELSE "launch")
    /\ hand' = [hand EXCEPT ![s][w] = copy[s].pane[w]]
    /\ UNCHANGED <<boardVars, sphase, resuming, crew, todo, copy>>

(* Bugs the briefing checks must catch: what the agent does is not asked. *)
AfterLookTrusting ==
    [closed |-> "failed", shell |-> "launch", idle |-> "checkpoint", working |-> "checkpoint"]
AfterLookAgain ==
    [closed |-> "failed", shell |-> "launch", idle |-> "brief", working |-> "brief"]

(***************************************************************************)
(* A resume looks at the pane first.  An agent that is working is taken to *)
(* have its brief: only the checkpoint is missing.                         *)
(***************************************************************************)
AfterLook ==
    [closed |-> "failed", shell |-> "launch", idle |-> "brief", working |-> "checkpoint"]

LookAtPane(s, w) ==
    /\ Goes(s, w, "look", AfterLook[pane[hand[s][w]]])
    /\ UNCHANGED <<boardVars, sphase, resuming, crew, todo, copy, hand>>

(***************************************************************************)
(* The launcher's command is typed; with an agent there already it is a    *)
(* prompt.  The agent is seen to be idle in time or not.                   *)
(***************************************************************************)
LaunchAgent(s, w) ==
    LET p == hand[s][w] IN
    /\ \E next \in {"brief", "failed"} : Goes(s, w, "launch", next)
    /\ Open(p)
    /\ pane' = [pane EXCEPT ![p] = IF @ = "shell" THEN "idle" ELSE "working"]
    /\ UNCHANGED <<board, briefs, trees, prepared, events, sphase, resuming, crew, todo, copy, hand>>

(* The brief is submitted, and the agent is seen to work on it or not. *)
BriefWorker(s, w) ==
    /\ step[s][w] = "brief"
    /\ SubmitBrief(hand[s][w])
    /\ \E next \in {"checkpoint", "failed"} : Takes(s, w, next)
    /\ UNCHANGED <<board, trees, prepared, events, sphase, resuming, crew, todo, copy, hand>>

LaunchFails(s, w) ==
    /\ step[s][w] \in {"look", "launch", "brief"}
    /\ Takes(s, w, "failed")
    /\ UNCHANGED <<boardVars, sphase, resuming, crew, todo, copy, hand>>

(* A bug the lifecycle check must catch: whatever the worker was, it runs now. *)
CheckpointAlways(s, w) ==
    /\ Goes(s, w, "checkpoint", "rest")
    /\ point' = [point EXCEPT ![w] = "briefed"]
    /\ life' = [life EXCEPT ![w] = "running"]
    /\ UNCHANGED <<runLife, paneOf, treeOf, world, events, sphase, resuming, crew, todo, hand>>
    /\ Refresh(s)

Checkpoint(s, w) ==
    /\ Goes(s, w, "checkpoint", "rest")
    /\ point' = [point EXCEPT ![w] = "briefed"]
    /\ ResolvePending(w, "running")
    /\ UNCHANGED <<runLife, paneOf, treeOf, world, events, sphase, resuming, crew, todo, hand>>
    /\ Refresh(s)

RecordFailure(s, w) ==
    /\ Goes(s, w, "failed", "rest")
    /\ ResolvePending(w, "failed")
    /\ UNCHANGED <<runLife, point, paneOf, treeOf, world, events, sphase, resuming, crew, todo, hand>>
    /\ Refresh(s)

(* All threads are joined. *)
FinishLaunch(s) ==
    /\ sphase[s] = "launch"
    /\ Rests(s)
    /\ Leaves(s)
    /\ UNCHANGED boardVars

SpawnCrashes(s) ==
    /\ "spawn" \in Mortal
    /\ sphase[s] # "off"
    /\ Leaves(s)
    /\ UNCHANGED boardVars

-----------------------------------------------------------------------------
Allocate(s, w) ==
    \/ KeepPane(s, w)
    \/ MakeTree(s, w)
    \/ RecordTree(s, w)
    \/ RunSetup(s, w)
    \/ MakeWorkspace(s, w)
    \/ RecordPane(s, w)
    \/ AllocateFails(s, w)

LaunchThread(s, w) ==
    \/ ReadPane(s, w)
    \/ LookAtPane(s, w)
    \/ LaunchAgent(s, w)
    \/ BriefWorker(s, w)
    \/ LaunchFails(s, w)
    \/ Checkpoint(s, w)
    \/ RecordFailure(s, w)

SpawnStep(s) ==
    \/ CreateRun(s)
    \/ StartResume(s)
    \/ \E w \in Spawned : Allocate(s, w) \/ LaunchThread(s, w)
    \/ WriteProtocols(s)
    \/ ProtocolsFail(s)
    \/ FinishLaunch(s)
    \/ SpawnCrashes(s)
=============================================================================
