CONSTANTS
  t1 = t1
  t2 = t2
  n1 = n1
  n2 = n2
  n3 = n3
  n4 = n4
  n5 = n5
  None = None
  New = New
  NoThread = NoThread
  Name <- MCName
  Row = {1}
  Thread <- MCThread
  FileField <- MCTwoFields
  Kinds <- MCKinds
  Overlap = TRUE
SPECIFICATION Spec
SYMMETRY NameSymmetry
INVARIANTS FilesExist
