------------------------------ MODULE MCGodCli ------------------------------
(* Small instances of GodCli for TLC, and the command lines that start it. *)
EXTENDS GodCli, CommandLine

(* One worker writes its report twice, the others once. *)
TwiceByOne == [w \in Workers |-> IF w = CHOOSE v \in Workers : TRUE THEN 2 ELSE 1]

(***************************************************************************)
(* Before any command runs, its line is read: the scanners of all commands *)
(* take the lines that can be read and take them as they are written.      *)
(* They have no state: this is evaluated while no command has started.     *)
(***************************************************************************)
ReadsCommandLines ==
    /\ \A v \in Waiters : wpc[v] = "start"
    /\ \A r \in Readers : rpc[r] = "off"
    => CommandsReadAsWritten
=============================================================================
