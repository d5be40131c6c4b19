--------------------------- MODULE MCSoundManager ---------------------------
(* SoundManager with a vector of two instances that grows by one, so that   *)
(* four sounds make it grow more than once, and two channels, so that a     *)
(* third sound takes a channel from another.                                *)
EXTENDS SoundManager, TLC

Symmetry == Permutations(Key) \cup Permutations(Node) \cup Permutations(Caller)
=============================================================================
