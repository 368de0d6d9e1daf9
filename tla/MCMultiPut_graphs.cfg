CONSTANTS
  None = None
  Absent = Absent
  NameRank <- MCNameRank
  Parents = 2
  Children = 1
  Made <- MCMade
  Families <- MCFamilies
SPECIFICATION Spec
INVARIANTS HistoryRight IdMapRight KidsStored DeletedKept ReferencesStored KeyErrorOnlyForItself
CHECK_DEADLOCK FALSE
