SPECIFICATION Spec
CONSTANTS
  NWorkers = 2
  Syncs <- OneSyncTwice
  Evals <- SomeEvals
  MaxLen = 4
  ChunkCap = 1
  Window = 2
  SendDepth = 1
  PrefetchDepth = 1
  ForwardDepth = 2
  MayFail = {"crash"}
  NConns = 6
  MaxFaults = 1
INVARIANT OneTokenPerEval
