CONSTANTS
  Vehicle = {v1}
  Missile = {m1}
  House = {h1}
  Bullet = {b1, b2}
  NoVehicle = NoVehicle
  PairWave = 1
  FullWave = 1
  MenuCap = 1
  GameCap = 1
  Garbage <- FindingGarbage
  DebugKey = FALSE
  MaxShots = 2
  MaxGames = 2
  MaxRows = 1
  FADEIN_TIME = 2
  FADEOUT_TIME = 2
  Rounding = 0
  Elapsed = {1}
SPECIFICATION SessionSpec
INVARIANT
  AccuracyIsAPercentage
\* Rendering stops after quit or ESC.
CHECK_DEADLOCK FALSE
