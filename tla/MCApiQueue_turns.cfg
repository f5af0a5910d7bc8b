\* A stream and another request.
CONSTANTS
  Requests = {r1, r2}
  Streams = {r1}
  MaxQueue = 2
  Threads = 2
SPECIFICATION ServerFairSpec
PROPERTY TurnsComeUp
