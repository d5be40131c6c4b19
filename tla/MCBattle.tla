------------------------------ MODULE MCBattle ------------------------------
(* Battle with waves of one and two planes in place of two and five, and a  *)
(* counter whose first value is larger than the shots of a whole game.      *)
EXTENDS Battle

MCGarbage == {5}
Symmetry == Permutations(Vehicle) \cup Permutations(Missile)
              \cup Permutations(House) \cup Permutations(Bullet)
=============================================================================
