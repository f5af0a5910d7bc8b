\* Two streams: one is dropped, the other begins.
CONSTANTS
  Requests = {r1, r2}
  Streams = {r1, r2}
  MaxQueue = 2
  Threads = 2
SPECIFICATION ServerSpec
INVARIANT OneGeneration
CHECK_DEADLOCK FALSE
