------------------------------- MODULE MCHook -------------------------------
(* Small instances of Hook for TLC. *)
EXTENDS Hook, TLC

Interchangeable == Permutations(Hooks)
=============================================================================
