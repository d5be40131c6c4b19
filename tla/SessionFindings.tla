--------------------------- MODULE SessionFindings ---------------------------
(***************************************************************************)
(* What the repository says of the program where the program does something *)
(* else.  Each definition is checked by a run of its own, which ends in a   *)
(* counterexample: a sequence of frames and clicks that shows the           *)
(* difference.                                                              *)
(***************************************************************************)
EXTENDS Session

FindingGarbage == {5}

\* "an accuracy rating of %.1f%%" (BaseCommandFrameListener.cpp:777): a rating
\* of more than 100 % is never shown.  ResetGame leaves mBullets alone, so that
\* bullets of the last game score in the next one, where they were not counted.
AccuracyIsAPercentage ==
  guiSheet = "GameOver" /\ info.fires > 0 => info.kills <= info.fires

\* "a simple fade in/out transition between scenes"
\* (BaseCommandFrameListener.cpp:63): a game begins when the screen has been
\* faded out, in the frame in which the opacity passes 1.  fadeInTime is a
\* static that is never set back, so that only the first game is faded to.
FadesOutFirst ==
  [][game' # game => \E dt \in Elapsed : fader.cur + dt > fader.total]_allVars
==============================================================================
