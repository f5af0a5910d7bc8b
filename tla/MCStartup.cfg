CONSTANTS
  Size = 3
  World = 3
  Fleets <- MCFleets
  MaxTries = 2
  LayerCounts <- MCLayerCounts
  Files = 2
SPECIFICATION StartupFairSpec
CHECK_DEADLOCK FALSE
INVARIANTS
  StartupTypeOK
  RootGoesLast
  StagesTile
  NoStrays
PROPERTIES
  SetUpEnds
