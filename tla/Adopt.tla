------------------------------- MODULE Adopt --------------------------------
(***************************************************************************)
(* `adopt <pane> --name <name>` (src/adopt.rs): create a run around the    *)
(* worker, or check the run as loaded without the lock, check again and    *)
(* insert the worker (or take up a pending one) in an update of the board; *)
(* then prompt the agent, and record the outcome in another update.        *)
(***************************************************************************)
EXTENDS RunBoard

CONSTANT Adopters   \* the adopt processes

VARIABLES
    aphase,     \* where the process is
    wanted,     \* the name it gives
    place       \* the pane it adopts

adoptVars == <<aphase, wanted, place>>

AdoptTypeOK ==
    /\ aphase \in [Adopters -> {"off", "insert", "recover", "prompt", "complete", "failed"}]
    /\ wanted \in [Adopters -> Adoptable \cup {None}]
    /\ place \in [Adopters -> UserPanes \cup {None}]

AdoptInit ==
    /\ aphase = [x \in Adopters |-> "off"]
    /\ wanted = [x \in Adopters |-> None]
    /\ place = [x \in Adopters |-> None]

AdoptLeaves(x) ==
    /\ aphase' = [aphase EXCEPT ![x] = "off"]
    /\ wanted' = [wanted EXCEPT ![x] = None]
    /\ place' = [place EXCEPT ![x] = None]

AdoptGoes(x, from, to) ==
    /\ aphase[x] = from
    /\ aphase' = [aphase EXCEPT ![x] = to]
    /\ UNCHANGED <<wanted, place>>

InUse(p) == \E w \in Workers : paneOf[w] = p

-----------------------------------------------------------------------------
(* prepare_existing_run, on the board as loaded; its refusals change nothing. *)
Selects(x, a, p, next) ==
    /\ aphase[x] = "off"
    /\ runLife = "active"
    /\ pane[p] \in {"idle", "working"}
    /\ aphase' = [aphase EXCEPT ![x] = next]
    /\ wanted' = [wanted EXCEPT ![x] = a]
    /\ place' = [place EXCEPT ![x] = p]
    /\ UNCHANGED boardVars

(* No run is active: bootstrap_run creates one with the worker in it. *)
Bootstrap(x, a, p) ==
    /\ runLife = "none"
    /\ aphase[x] = "off"
    /\ pane[p] \in {"idle", "working"}
    /\ runLife' = "active"
    /\ life' = [life EXCEPT ![a] = "pending"]
    /\ paneOf' = [paneOf EXCEPT ![a] = p]
    /\ aphase' = [aphase EXCEPT ![x] = "prompt"]
    /\ wanted' = [wanted EXCEPT ![x] = a]
    /\ place' = [place EXCEPT ![x] = p]
    /\ UNCHANGED <<point, treeOf, world, events>>

SelectNew(x, a, p) ==
    /\ life[a] = "absent"
    /\ ~InUse(p)
    /\ Selects(x, a, p, "insert")

SelectPending(x, a, p) ==
    /\ life[a] = "pending"
    /\ paneOf[a] = p
    /\ Selects(x, a, p, "recover")

(* A bug the pane check must catch: the insertion trusts the earlier check. *)
InsertUnchecked(x) ==
    /\ AdoptGoes(x, "insert", "prompt")
    /\ life' = [life EXCEPT ![wanted[x]] = "pending"]
    /\ paneOf' = [paneOf EXCEPT ![wanted[x]] = place[x]]
    /\ UNCHANGED <<runLife, point, treeOf, world, events>>

(* Checked again under the lock are the name and the pane, not the run. *)
Insert(x) ==
    /\ AdoptGoes(x, "insert", "prompt")
    /\ life[wanted[x]] = "absent"
    /\ ~InUse(place[x])
    /\ life' = [life EXCEPT ![wanted[x]] = "pending"]
    /\ paneOf' = [paneOf EXCEPT ![wanted[x]] = place[x]]
    /\ UNCHANGED <<runLife, point, treeOf, world, events>>

InsertRefused(x) ==
    /\ aphase[x] = "insert"
    /\ life[wanted[x]] # "absent" \/ InUse(place[x])
    /\ AdoptLeaves(x)
    /\ UNCHANGED boardVars

(* Still pending: no update leaves a pending worker with its brief submitted. *)
Recover(x) ==
    /\ AdoptGoes(x, "recover", "prompt")
    /\ life[wanted[x]] = "pending"
    /\ UNCHANGED boardVars

RecoverTooLate(x) ==
    /\ aphase[x] = "recover"
    /\ life[wanted[x]] # "pending"
    /\ AdoptLeaves(x)
    /\ UNCHANGED boardVars

(* The protocol is written and the prompt submitted, and seen to be or not. *)
PromptAdopted(x) ==
    /\ \E next \in {"complete", "failed"} : AdoptGoes(x, "prompt", next)
    /\ SubmitBrief(place[x])
    /\ UNCHANGED <<board, trees, prepared, events>>

PromptFails(x) ==
    /\ AdoptGoes(x, "prompt", "failed")
    /\ UNCHANGED boardVars

(* The protocol cannot be written: the worker stays pending. *)
ProtocolRefused(x) ==
    /\ aphase[x] = "prompt"
    /\ AdoptLeaves(x)
    /\ UNCHANGED boardVars

CompleteAdoption(x) ==
    /\ aphase[x] = "complete"
    /\ point' = [point EXCEPT ![wanted[x]] = "briefed"]
    /\ ResolvePending(wanted[x], "running")
    /\ AdoptLeaves(x)
    /\ UNCHANGED <<runLife, paneOf, treeOf, world, events>>

FailAdoption(x) ==
    /\ aphase[x] = "failed"
    /\ ResolvePending(wanted[x], "failed")
    /\ AdoptLeaves(x)
    /\ UNCHANGED <<runLife, point, paneOf, treeOf, world, events>>

AdoptCrashes(x) ==
    /\ "adopt" \in Mortal
    /\ aphase[x] # "off"
    /\ AdoptLeaves(x)
    /\ UNCHANGED boardVars

AdoptStep(x) ==
    \/ \E a \in Adoptable, p \in UserPanes :
        Bootstrap(x, a, p) \/ SelectNew(x, a, p) \/ SelectPending(x, a, p)
    \/ Insert(x)
    \/ InsertRefused(x)
    \/ Recover(x)
    \/ RecoverTooLate(x)
    \/ PromptAdopted(x)
    \/ PromptFails(x)
    \/ ProtocolRefused(x)
    \/ CompleteAdoption(x)
    \/ FailAdoption(x)
    \/ AdoptCrashes(x)
=============================================================================
