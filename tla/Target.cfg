SPECIFICATION Spec
CONSTANTS
  MaxTokens = 3
  Ports = {0, 1, 8443, 65535, 65536}
INVARIANTS
  AcceptedTargetsAreUsable
  PlainTargetsAreRequested
CHECK_DEADLOCK FALSE
