SPECIFICATION Spec
CONSTANTS
  ThresholdDays = 1
  UnitsPerDay = 2
  Horizon = 3
  Servers <- SomeServers
  Certificates <- SomeCertificates
INVARIANTS
  ScanAlwaysPerformed
CHECK_DEADLOCK FALSE
