CONSTANTS
  Client = {c1, c2}
  MaxGames = 2
SPECIFICATION FairSpec
INVARIANTS
  TypeOK
  OwnScoresAreTold
  UnsavedIsSaid
  SavedAndShownOnce
PROPERTIES
  HandlersReturn
\* The players may stop clicking, and the games are bounded.
CHECK_DEADLOCK FALSE
