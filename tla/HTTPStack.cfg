SPECIFICATION StackSpec
CONSTANTS
  HeaderMaps <- SomeHeaders
  Replies <- SomeReplies
  Addresses = {a1, a2}
INVARIANTS
  RedactionIsExact
  FirstResponseReported
  TimeoutsAreNamed
PROPERTY ImplementProbes
CHECK_DEADLOCK FALSE
