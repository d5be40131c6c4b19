CONSTANTS
  Vehicle = {v1, v2}
  Missile = {m1, m2}
  House = {h1, h2}
  Bullet = {b1, b2}
  NoVehicle = NoVehicle
  PairWave = 1
  FullWave = 2
  MenuCap = 1
  GameCap = 1
  Garbage <- MCGarbage
  DebugKey = TRUE
  MaxShots = 2
  MaxGames = 2
  MaxRows = 1
SPECIFICATION Spec
SYMMETRY Symmetry
INVARIANTS
  TypeOK
  IteratorsValid
  MissileNodesOwned
  BillboardsAligned
  SomeHouseStands
  KillsCovered
