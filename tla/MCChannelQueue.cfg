CONSTANTS
  j1 = j1
  j2 = j2
  j3 = j3
  NoJob = NoJob
  Job <- MCJob
  Key <- MCKey
  Etas = {0, 1, 2}
  MaxNow = 3
  MaxAdds = 4
SPECIFICATION FairSpec
INVARIANTS
  IInv
PROPERTIES
  NeverEarly
  DueJobsCompete
  NoStall
  Drains
