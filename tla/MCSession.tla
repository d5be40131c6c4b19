----------------------------- MODULE MCSession ------------------------------
(* Session with frames shorter than the fades and one longer than both.     *)
EXTENDS Session

MCGarbage == {5}
Symmetry == Permutations(Vehicle) \cup Permutations(House)
              \cup Permutations(Bullet)
=============================================================================
