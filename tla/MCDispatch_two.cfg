CONSTANTS
  Databases <- MCDatabases
  default = "default"
  MaxSubs = 3
SPECIFICATION Spec
INVARIANTS FailedMultiUndone SuccessKept AllOrNothing UnscopedUndone LoggedTogether CalledAfterCommit
