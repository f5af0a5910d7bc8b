\* Two sequences of up to six tokens in blocks of two.
CONSTANTS
  MaxBatch = 2
  MaxSeq = 6
  BlockSize = 2
  MaxRefs = 2
SPECIFICATION KVSpec
INVARIANTS
  KVTypeOK
  BlocksNotShared
  CounterIsExact
  PromptsFit
  PoolSuffices
