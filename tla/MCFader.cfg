CONSTANTS
  Durations <- MCDurations
  Elapsed <- MCElapsed
  DefaultDuration = 4
SPECIFICATION Spec
INVARIANTS
  TypeOK
  OpacityLegal
PROPERTIES
  OnlyFadeInUncovers
