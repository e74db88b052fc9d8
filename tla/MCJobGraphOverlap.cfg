CONSTANTS
  a = a
  b = b
  c = c
  d = d
  w1 = w1
  w2 = w2
  u1 = u1
  u2 = u2
  NoJob = NoJob
  Job <- MCJob
  Parents <- MCOverlap
  Worker = {w1, w2}
  User = {}
  Asks = {}
  MaxAsks = 0
SPECIFICATION Spec
INVARIANTS
  NoChildForgotten
CHECK_DEADLOCK FALSE
