SPECIFICATION Spec
CONSTANTS
  Attempts = 2
  MaxStrangers = 0
INVARIANTS
  NoStaleReply
CHECK_DEADLOCK FALSE
