------------------------------- MODULE GameFlow -------------------------------
(***************************************************************************)
(* What the program promises a player who does not press F5: a game is      *)
(* started from the menu and begins after a while with every house          *)
(* standing, loses houses and is lost with the last one; a lost game may be *)
(* put in the table of scores once, before the menu comes back.             *)
(***************************************************************************)
EXTENDS Naturals, Sequences

CONSTANT House

VARIABLES
  phase,     \* what the player is doing
  standing,  \* the houses that stand
  game,      \* how many games have begun
  table      \* the games in the table of scores, in the order they were sent

flowVars == <<phase, standing, game, table>>

FlowInit ==
  /\ phase = "menu" /\ standing = House
  /\ game = 0 /\ table = <<>>

Start ==
  /\ phase = "menu" /\ phase' = "starting"
  /\ UNCHANGED <<standing, game, table>>

Begin ==
  /\ phase = "starting" /\ phase' = "playing"
  /\ standing' = House
  /\ game' = game + 1
  /\ UNCHANGED table

LoseHouses ==
  /\ phase = "playing"
  /\ standing' \in SUBSET standing
  /\ phase' = IF standing' = {} THEN "lost" ELSE "playing"
  /\ UNCHANGED <<game, table>>

Leave ==
  /\ phase = "lost" /\ phase' = "menu"
  /\ table' \in {table, Append(table, game)}
  /\ UNCHANGED <<standing, game>>

FlowNext == Start \/ Begin \/ LoseHouses \/ Leave

FlowSpec == FlowInit /\ [][FlowNext]_flowVars
===============================================================================
