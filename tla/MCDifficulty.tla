---------------------------- MODULE MCDifficulty ----------------------------
(* Difficulty with frames of a second and a half and of four and a half:    *)
(* shorter than every interval of a game, and longer than every one, so      *)
(* that a wave is sometimes late and sometimes due in every frame.           *)
EXTENDS Difficulty

MCElapsed == {15, 45}
MCDowned == {0, 4}
=============================================================================
