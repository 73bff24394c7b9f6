SPECIFICATION Spec
CONSTANTS
  Arguments <- SomeArguments
  MaxArgs = 4
INVARIANTS
  ReadAsOneList
  ScanAgrees
  AuthorizationIsUnambiguous
CHECK_DEADLOCK FALSE
