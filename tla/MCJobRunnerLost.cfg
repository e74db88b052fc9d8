CONSTANTS
  root = root
  sub = sub
  j1 = j1
  j2 = j2
  w1 = w1
  w2 = w2
  NoJob = NoJob
  NoWork = NoWork
  Never = Never
  Channel <- MCChannel
  Root = root
  Parent <- MCParent
  Capacity <- MCCapacity
  Sequential = {}
  Throttle <- MCThrottle
  Job <- MCJob
  Seq <- MCSeq
  DbOf <- MCDbOf
  Props <- MCProps
  MaxNow = 0
  Worker = {w1}
  Graphs <- MCApart
  Parents <- MCNoParent
  MaxRetries <- MCRetries
  Outcome = {"ok"}
  Fault = {"loss"}
  MaxFaults = 1
  MaxAsks = 0
  MaxRequests = 2
  MaxAttempts = 4
SPECIFICATION FairSpec
PROPERTIES
  EnqueuedEnds
CHECK_DEADLOCK FALSE
