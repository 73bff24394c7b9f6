SPECIFICATION Spec
CONSTANTS
  Schemes = {"https", "http", "tcp"}
  Counts = {0, 2}
  Interrupts = TRUE
  Outcomes <- AllOutcomes
INVARIANTS
  TypeOK
  NothingAboveAFailure
  ExitCodeNamesTheFailure
  NoProbeAfterSignal
  TalliesMatchAttempts
  TableTellsExitCode
  KeysFollowLayerOrder
PROPERTIES
  ImplementsPipeline
  Terminates
CHECK_DEADLOCK FALSE
