SPECIFICATION Spec
CONSTANTS
  Schemes = {"tcp"}
  Counts = {1, 3, 4}
  Interrupts = FALSE
  Outcomes <- TimedOutcomes
INVARIANTS
  ReportSound
  StatisticsReadAsAttempts
  PercentilesAreRanks
CHECK_DEADLOCK FALSE
