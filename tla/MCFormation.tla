----------------------------- MODULE MCFormation -----------------------------
(* Formation with seven numbers: a formation of five planes with two         *)
(* missiles, or with the pair of a game after the menu.                      *)
EXTENDS Formation

=============================================================================
