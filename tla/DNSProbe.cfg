SPECIFICATION Spec
CONSTANTS
  Attempts = 2
  Nameservers <- SomeNameservers
  Custom = {"custom", "fe80::1"}
  LinkLocal = {"fe80::1"}
  Domains <- SomeDomains
INVARIANTS
  TypeOK
  ReportedWasEligible
  VerdictIsOfThisAttempt
PROPERTIES
  ImplementsProbe
CHECK_DEADLOCK FALSE
