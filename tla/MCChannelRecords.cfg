CONSTANTS
  Root = Root
  a = a
  b = b
  r1 = r1
  r2 = r2
  f = f
  j1 = j1
  j2 = j2
  None = None
  NotANumber = NotANumber
  Numeral = {"2"}
  RootRecord = RootRecord
  Segment = {a, b}
  Job = {j1, j2}
  Configurations <- MCConfigurations
  Record = {RootRecord, r1, r2}
  Function = {f}
  Overrides <- MCOverrides
  LongKept = {r1}
  MaxWrites = 3
  MaxRequests = 3
SPECIFICATION Spec
CONSTRAINT FewRequests
INVARIANTS
  AsConfigured
  KeepsItsLimits
  NamesFollow
PROPERTIES
  NeverMoved
  
CHECK_DEADLOCK FALSE
SYMMETRY MCSymmetry
