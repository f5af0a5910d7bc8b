\* Three connections, two of them for streams, two slots, two threads.
CONSTANTS
  Requests = {r1, r2, r3}
  Streams = {r1, r2}
  MaxQueue = 2
  Threads = 2
SPECIFICATION ServerFairSpec
INVARIANTS
  ApiTypeOK
  SizeIsExact
  LockHasOneHolder
  StreamFindsThread
PROPERTIES
  ImplementsBoundedQueue
  EveryRequestEnds
