CONSTANTS
  FighterPath = 2
  BomberPath = 1
  NoLeader = NoLeader
  MaxCount = 7
SPECIFICATION Spec
INVARIANTS
  TypeOK
  NamesAccepted
  PointersAreReadable
  LeadersPlacedFirst
\* Rendering stops with the program.
CHECK_DEADLOCK FALSE
