\* Root, stem and leaf on one set of connections: a client closes its stream.
CONSTANTS
  N = 3
  R = 3
  Limit <- MCLimit
  Abandons = TRUE
  MaxSessions = 1
  Silent = FALSE
  MaxLate = 0
SPECIFICATION ServingSpec
INVARIANT OwnTokens
CHECK_DEADLOCK FALSE
