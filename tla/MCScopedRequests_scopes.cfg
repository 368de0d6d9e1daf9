CONSTANTS
  t1 = t1
  t2 = t2
  NoThread = NoThread
  Absent = Absent
  NoScope = NoScope
  Thread <- MCThread
  Pk = {1, 2, 3}
  InitialRows <- MCInitialRows
  Users <- MCUsers
  Definition <- MCDefinition
  Fact <- MCFact
  Payloads <- MCPayloads
  Families <- MCFamilies
  Tree <- MCTree
  Everything <- AlwaysTrue
  Satisfies <- Holds
  Joined <- SmartOr
SPECIFICATION ScopedSpec
PROPERTIES ChangedInScope ShownInScope RequestsEnd
CHECK_DEADLOCK FALSE
