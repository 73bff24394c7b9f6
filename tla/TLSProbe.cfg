SPECIFICATION Spec
CONSTANTS
  ThresholdDays = 1
  UnitsPerDay = 2
  Horizon = 3
  Servers <- SomeServers
  Certificates <- SomeCertificates
INVARIANTS
  TypeOK
  NothingUnverifiedPasses
  DaysAgreeWithStatus
  InsecureForgivesCertificates
  ScanLineExplainsStatus
PROPERTIES
  ScanOnlyWarns
  ImplementsProbe
CHECK_DEADLOCK FALSE
