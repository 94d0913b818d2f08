SPECIFICATION Spec
CONSTANTS
  Attempt = {1, 2}
  Tries = 2
  MaxSends <- TwoEach
  MaxBreaks = 1
  Refuses = FALSE
INVARIANTS
  OlderEpochIsRejected
CHECK_DEADLOCK FALSE
