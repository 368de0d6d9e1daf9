CONSTANTS
  t1 = t1
  t2 = t2
  c1 = c1
  c2 = c2
  None = None
  Absent = Absent
  NoThread = NoThread
  Raw = Raw
  Thread <- MCThread
  Child <- MCChild
  Zoo = {1, 2}
  Contact = {11, 12}
  Families <- MCEmptied
  Apart = TRUE
  MaxId = 3
SPECIFICATION Spec
INVARIANTS ViewAlwaysRight
CHECK_DEADLOCK FALSE
