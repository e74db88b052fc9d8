CONSTANTS
  a = a
  b = b
  c = c
  d = d
  u = u
  v = v
  k = k
  NoKey = NoKey
  None = None
  Delayable = {a, b, c, d}
  Compound = {u, v}
  Given = {a, b, c}
  KeyOf <- MCKeyOf
  Lengths = {0, 2}
  MaxCalls = 4
  MaxDelays = 2
SPECIFICATION Spec
INVARIANTS
  OrderKept
  StoredGraph
  DirectInOrder
SYMMETRY MCSymmetry
CHECK_DEADLOCK FALSE
