------------------------------ MODULE MCFader ------------------------------
(* Fader with durations of both signs, zero included, and frames shorter   *)
(* and longer than the shortest fade.                                       *)
EXTENDS Fader

MCDurations == -3..5
MCElapsed == 0..3
============================================================================
