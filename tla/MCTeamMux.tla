----------------------------- MODULE MCTeamMux ------------------------------
(* Small instances of TeamMux for TLC. *)
EXTENDS TeamMux, TLC

Interchangeable == Permutations(Shims)

(***************************************************************************)
(* What a process still reads: of its call no id or table it has done      *)
(* with, and of the launches nothing once the lead runs.                   *)
(***************************************************************************)
StillRead(c) ==
    [c EXCEPT !.id = IF c.pc = "load" \/ c.kind = "kill" THEN @ ELSE 0,
              !.snap = IF c.kind \in {"split", "list"} /\ c.pc # "list" THEN @ ELSE <<>>]

WhatTheShimsRead ==
    <<table, window, lpc[Own], IF lpc[Own] = "lead" THEN <<>> ELSE launch,
      [p \in Shims |-> StillRead(call[p])], herdr, held, past, calls>>
=============================================================================
