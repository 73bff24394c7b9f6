SPECIFICATION Spec
INVARIANTS
  ExitCodeTellsOutput
  SignalLeavesReportWhole
PROPERTY Ends
CHECK_DEADLOCK FALSE
