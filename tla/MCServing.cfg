\* Root, stem and leaf, two requests, one reconfiguration, every failure.
CONSTANTS
  N = 3
  R = 2
  Limit <- MCLimit
  Abandons = TRUE
  MaxSessions = 2
  Silent = TRUE
  MaxLate = 1
SPECIFICATION ServingFairSpec
INVARIANTS
  ServingTypeOK
  HealthyTokens
  NoLeftovers
PROPERTIES
  EveryRequestEnds
  StagesComeBack
CHECK_DEADLOCK FALSE
