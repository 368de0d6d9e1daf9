CONSTANTS
  t1 = t1
  t2 = t2
  r1 = r1
  r2 = r2
  r3 = r3
  None = None
  NewInstance = NewInstance
  NoThread = NoThread
  Thread <- MCThread
  Row <- MCRow
  InitialRows <- MCInitialRows
  Value <- MCValue
  Kinds <- MCLockedKinds
  SoftRow <- MCSoftRow
  MaxId = 4
SPECIFICATION Spec
INVARIANTS NewestIsCurrent
PROPERTIES HistoryImplemented DeletedRowsFrozen NoLostUpdate GoneForGood
CHECK_DEADLOCK FALSE
