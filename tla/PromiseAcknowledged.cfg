SPECIFICATION Spec
CONSTANTS
  Attempt = {1}
  Tries = 2
  MaxSends <- TwoEach
  MaxBreaks = 1
  Refuses = FALSE
INVARIANTS
  AcknowledgedIsAccepted
CHECK_DEADLOCK FALSE
