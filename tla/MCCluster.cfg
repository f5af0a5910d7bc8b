SPECIFICATION MCSpec
CONSTANTS
  Nodes = {1, 2, 3}
  MinNodes = 2
  NoRank = NoRank
  NoConfig = NoConfig
  HeartbeatTimeout = 150
  Failures <- StopsAndPairs
INVARIANTS
  ClusterTypeOK
  RanksFollowIdOrder
  ReadyAreMembers
  SameVersionSameMembers
  ClearBarrierMeansArrived
PROPERTIES
  ImplementsMembership
  EventuallyConverged
CHECK_DEADLOCK FALSE
