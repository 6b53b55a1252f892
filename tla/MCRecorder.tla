----------------------------- MODULE MCRecorder -----------------------------
(* Small instances of Recorder for TLC. *)
EXTENDS Recorder, TLC

CONSTANTS t1, t2
TwoTasks == {t1, t2}
SecondWaitsForFirst == t1 :> {} @@ t2 :> {t1}
=============================================================================
