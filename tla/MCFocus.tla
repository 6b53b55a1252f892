------------------------------ MODULE MCFocus ------------------------------
(* Small instances of Focus for TLC. *)
EXTENDS Focus

(* The status line says how the last key went: no step and no property asks for it. *)
WhatThePaneReads ==
    <<now, sources, audit, pc, got, queue, selection, pressed, keys, moved, jump, held>>
=============================================================================
