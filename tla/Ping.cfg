SPECIFICATION Spec
CONSTANTS
  Attempts = 2
  MaxStrangers = 1
INVARIANTS
  TypeOK
  VerdictIsExplained
PROPERTIES
  ClosedReadIsContextError
  NothingLeaks
  ImplementsProbe
CHECK_DEADLOCK FALSE
