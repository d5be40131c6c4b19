CONSTANTS
  Vehicle = {v1}
  Missile = {m1}
  House = {h1, h2}
  Bullet = {b1, b2}
  NoVehicle = NoVehicle
  PairWave = 1
  FullWave = 1
  MenuCap = 1
  GameCap = 1
  Garbage <- MCGarbage
  DebugKey = FALSE
  MaxShots = 2
  MaxGames = 2
  MaxRows = 3
  FADEIN_TIME = 2
  FADEOUT_TIME = 2
  Rounding = 1
  Elapsed = {0, 1, 3}
SPECIFICATION SessionSpec
SYMMETRY Symmetry
INVARIANTS
  SessionTypeOK
  NeverLeftCovered
  GameHasNoButtons
  GameOverMeansLost
  ScoreCoversText
  OneRowPerGame
PROPERTIES
  ImplementsGameFlow
\* Rendering stops after quit or ESC.
CHECK_DEADLOCK FALSE
