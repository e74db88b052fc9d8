CONSTANTS
  root = root
  seq = seq
  thr = thr
  j1 = j1
  j2 = j2
  j3 = j3
  NoJob = NoJob
  Never = Never
  Channel <- MCChannel
  Root = root
  Parent <- MCParent
  Capacity <- MCCapacity
  Sequential = {seq}
  Throttle <- MCThrottle
  Job <- MCJob
  Seq <- MCSeq
  DbOf <- MCDbOf
  Props <- MCProps
  MaxNow = 3
SPECIFICATION Spec
INVARIANTS
  PlaceInv
PROPERTIES
  WakesInTime
  WakeupAhead
  Throttled
