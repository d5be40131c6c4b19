---------------------------- MODULE MCLeaderboard ----------------------------
(* Leaderboard with two players of two games each: both write between any    *)
(* two calls of the other, each connection is lost anywhere, and any call    *)
(* refused.                                                                  *)
EXTENDS Leaderboard
=============================================================================
