\* A slowed frame takes 1 or 2 units, and death 3: a few frames of any kind.
CONSTANTS
  Scales <- TwoScales
  Deltas = {2, 4}
  DeathTime = 3
  MaxTime = 6
SPECIFICATION FairSpec
INVARIANTS
  TypeOK
  CheatedIffFlown
PROPERTIES
  DeadDoNotWin
  Respawns
  ImplementsSpeedRun
