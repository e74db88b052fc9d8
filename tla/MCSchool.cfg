CONSTANTS
  s1 = s1
  s2 = s2
  e1 = e1
  e2 = e2
  e3 = e3
  g = g
  t = t
  a1 = a1
  a2 = a2
  i = i
  c1 = c1
  c2 = c2
  NoGroup = NoGroup
  Student = {s1, s2}
  Group = {g}
  Teacher = {t}
  Enrollment = {e1, e2, e3}
  Assignment = {a1, a2}
  Invoice = {i}
  Client = {c1, c2}
  StudentOf <- MCStudentOf
  LevelOf <- MCLevelOf
  Day <- MCDay
  Dates <- MCDates
  MaxLoad <- MCMaxLoad
  MaxOverdue = 1
  Capacity = {0, 1}
  EnrollmentStatus = {"active", "paused", "cancelled"}
  AssignmentStatus = {"active", "done"}
  DueDates = {0, 2}
  MaxRequests = 3
SPECIFICATION Spec
INVARIANTS
  CountsRight
  BlocksOnlyTheLate
  SerialInv
  NeverOverloaded
PROPERTIES
  NeverOverbooked
SYMMETRY MCSymmetry
CHECK_DEADLOCK FALSE
