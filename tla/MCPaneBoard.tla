---------------------------- MODULE MCPaneBoard ----------------------------
(* Small instances of PaneBoard for TLC. *)
EXTENDS PaneBoard, TLC

Interchangeable == Permutations(Agents) \cup Permutations(Boards)

(* A board that has quit or died takes no step, and no property reads it. *)
Running(b) == pc[b] \notin {"quit", "dead"}
WhatTheBoardsRead ==
    <<team, changes, inbox, lock, client, said, written, pruned, clashed,
      [b \in {c \in Boards : Running(c)} |->
          <<pc[b], rows[b], selected[b], overlay[b], nudge[b], attempt[b], copy[b], shifted[b]>>]>>
=============================================================================
