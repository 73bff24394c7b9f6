SPECIFICATION Spec
CONSTANTS
  Schemes = {"tcp"}
  Counts = {0}
  Interrupts = FALSE
  Outcomes <- AllOutcomes
INVARIANTS
  ExitZeroMeansPassed
CHECK_DEADLOCK FALSE
