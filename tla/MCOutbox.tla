------------------------------ MODULE MCOutbox ------------------------------
(* Small instances of Outbox for TLC, and the client its deliveries go through. *)
EXTENDS Outbox, HerdrClient, TLC

Interchangeable == Permutations(Msgs) \cup Permutations(Drains)

Mishap(S) == {m \in Msgs : mishaps[m] \cap S # {}}

(***************************************************************************)
(* The history decides no step, so a run need not tell apart states that   *)
(* differ in nothing its properties may still read: of a message that has  *)
(* been submitted nobody asks whether it was lost or passed.               *)
(***************************************************************************)
Program == <<diskVars, sendVars, drainVars, submitted>>

PassedOrLost == Mishap({"shared", "torn", "passed", "late"})

WhatSafetyReads ==
    <<Program, Exposed \ submitted, PassedOrLost \ submitted,
      Mishap({"shared", "swept"}), Mishap({"shared", "swept", "left"}),
      {p \in before : p[1] \notin submitted \cup PassedOrLost}>>

WhatTheQueueReads == <<Program, Exposed>>

(***************************************************************************)
(* What the outbox takes for a delivery is one: the client reports success *)
(* only on an answer to what it asked, and types the text that was sent    *)
(* but for control sequences.  It has no state: this is evaluated while    *)
(* nothing has been sent.                                                  *)
(***************************************************************************)
DeliversFaithfully ==
    (\A m \in Msgs : spc[m] = "start") /\ (\A d \in Drains : dpc[d] = "off") => AnswersAreForUs
=============================================================================
