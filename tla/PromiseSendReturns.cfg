SPECIFICATION FairSpec
CONSTANTS
  Attempt = {1}
  Tries = 2
  MaxSends <- TwoEach
  MaxBreaks = 1
  Refuses = FALSE
PROPERTIES
  SendReturns
CHECK_DEADLOCK FALSE
