SPECIFICATION CadenceSpec
CONSTANTS
  HeartbeatTimeout = 60
  MaxLoad = 120
  Tick = 5
PROPERTY EventuallySettled
