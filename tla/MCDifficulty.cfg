CONSTANTS
  Elapsed <- MCElapsed
  Downed <- MCDowned
SPECIFICATION FairSpec
INVARIANTS
  TypeOK
  WavesPaced
  FleetBounded
PROPERTIES
  PlayerIsAttacked
