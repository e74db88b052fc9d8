CONSTANTS
  r1 = r1
  r2 = r2
  d1 = d1
  d2 = d2
  d3 = d3
  NoRunner = NoRunner
  Runner <- MCRunner
  Db <- MCDb
  Name <- MCName
  Listed <- MCListed
  Installed = {d1, d3}
  MaxFaults = 3
SPECIFICATION FairSpec
INVARIANTS
  MasterInv
PROPERTIES
  SomeoneServes
