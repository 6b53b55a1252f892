----------------------------- MODULE Reconcile ------------------------------
(***************************************************************************)
(* What a hook makes of a closed pane or workspace: the match and the      *)
(* lifecycle part of reconcile_at_with_reports (src/reconcile.rs), in one  *)
(* update of the board.  Statuses and notifications are not modelled here. *)
(***************************************************************************)
EXTENDS RunBoard

TakesEvent(e) ==
    /\ e \in events
    /\ events' = events \ {e}
    /\ UNCHANGED <<point, paneOf, treeOf, world>>

(* target_for_pane, worker_for_workspace: the workers recorded at a place. *)
At(p) == {w \in Workers : paneOf[w] = p}

(* end_run_if_no_live_workers, on the lifecycles as changed. *)
EndIfNoneLives ==
    runLife' = IF \A w \in Workers : life'[w] \in TerminalLives \cup {"absent"}
               THEN "ended" ELSE runLife

(* The worker is marked whatever it was before, and whoever closed its pane. *)
Marks(p, to) ==
    \E w \in At(p) :
        /\ life' = [life EXCEPT ![w] = to]
        /\ EndIfNoneLives

PaneExited(p) ==
    /\ TakesEvent(Exited(p))
    /\ Marks(p, "orphaned")

WorkspaceClosed(p) ==
    /\ TakesEvent(Removed(p))
    /\ Marks(p, "ended")

NotOfTheTeam(p) ==
    /\ TakesEvent(Exited(p)) \/ TakesEvent(Removed(p))
    /\ At(p) = {}
    /\ UNCHANGED <<runLife, life>>

GodGone ==
    /\ TakesEvent(GodClosed)
    /\ runLife' = "ended"
    /\ UNCHANGED life

(* The hook dies or fails before its update, or listed the run as ended. *)
HookMisses(e) ==
    /\ "hook" \in Mortal \/ runLife = "ended"
    /\ TakesEvent(e)
    /\ UNCHANGED <<runLife, life>>

HookStep ==
    \/ \E p \in Places : PaneExited(p) \/ WorkspaceClosed(p) \/ NotOfTheTeam(p)
    \/ GodGone
    \/ \E e \in events : HookMisses(e)
=============================================================================
