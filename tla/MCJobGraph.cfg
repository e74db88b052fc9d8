CONSTANTS
  a = a
  b = b
  c = c
  d = d
  w1 = w1
  w2 = w2
  u1 = u1
  u2 = u2
  NoJob = NoJob
  Job <- MCJob
  Parents <- MCGroups
  Worker = {w1, w2}
  User = {u1}
  Asks = {"button_done", "wizard_done", "button_cancelled", "requeue", "edit"}
  MaxAsks = 1
SPECIFICATION Spec
INVARIANTS
  OrderInv
  ForgetInv
  WorkersForgetNone
SYMMETRY MCSymmetry
CHECK_DEADLOCK FALSE
