CONSTANTS
  Vehicle = {v1}
  Missile = {m1}
  House = {h1}
  Bullet = {b1}
  NoVehicle = NoVehicle
  PairWave = 1
  FullWave = 1
  MenuCap = 1
  GameCap = 1
  Garbage <- MCGarbage
  DebugKey = TRUE
  MaxShots = 1
  MaxGames = 2
  MaxRows = 1
  FADEIN_TIME = 3
  FADEOUT_TIME = 3
  Rounding = 1
  Elapsed = {2, 5}
SPECIFICATION FairSessionSpec
PROPERTIES
  ImplementsBattle
  StartLeadsToGame
  CoverGoesAway
  QuitStops
\* Rendering stops after quit or ESC.
CHECK_DEADLOCK FALSE
