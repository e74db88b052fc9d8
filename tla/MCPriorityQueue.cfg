CONSTANTS
  o1 = o1
  o2 = o2
  o3 = o3
  o4 = o4
  NoObj = NoObj
  Obj <- MCObj
  Rank <- MCRank
SPECIFICATION FairSpec
INVARIANTS
  IInv
  LengthTellsEmpty
PROPERTIES
  ImplementsQueue
  CallReturns
