CONSTANTS
  None = None
  Absent = Absent
  NoGroup = NoGroup
  NullsLow = FALSE
  MetaOrdering <- PkOrder
  Pk = {1, 2, 3, 4}
  Id = {1, 2}
  Annotation = {"p", "q", "r"}
  Target <- MCTarget
  Relations <- MCRelations
  Defaults <- MCDefaults
  Joins <- MCJoins
  MaxChanges = 1
  Families <- MCFamilies
SPECIFICATION Spec
INVARIANTS PagesComplete StatKeepsTotal ListedIncluded AnnotationsRight RelationsComplete MergedExactly
PROPERTIES ListsEnd
CHECK_DEADLOCK FALSE
