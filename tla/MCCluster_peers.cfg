SPECIFICATION ClusterSpec
CONSTANTS
  Nodes = {1, 2}
  MinNodes = 2
  NoRank = NoRank
  NoConfig = NoConfig
  HeartbeatTimeout = 60
  Failures <- OneLoss
INVARIANT PeersKeyedByRank
CHECK_DEADLOCK FALSE
