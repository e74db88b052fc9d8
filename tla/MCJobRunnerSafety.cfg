CONSTANTS
  root = root
  sub = sub
  j1 = j1
  j2 = j2
  w1 = w1
  w2 = w2
  NoJob = NoJob
  NoWork = NoWork
  Never = Never
  Channel <- MCTree
  Root = root
  Parent <- MCTreeParent
  Capacity <- MCTreeCapacity
  Sequential = {}
  Throttle <- MCTreeThrottle
  Job <- MCJob
  Seq <- MCSeq
  DbOf <- MCDbOf
  Props <- MCTreeProps
  MaxNow = 0
  Worker = {w1, w2}
  Graphs <- MCOneGraph
  Parents <- MCChain
  MaxRetries <- MCRetries
  Outcome = {"ok", "retry", "error", "ignored"}
  Fault = {"crash", "late crash", "restart", "kill", "slow"}
  MaxFaults = 1
  MaxAsks = 1
  MaxRequests = 2
  MaxAttempts = 2
SPECIFICATION RunnerSpec
INVARIANTS
  RunnerInv
  RootCapacity
  MemoryFollows
PROPERTIES
  DoneOnce
CONSTRAINT CrossedAlone
SYMMETRY WorkerSymmetry
CHECK_DEADLOCK FALSE
