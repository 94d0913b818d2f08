\* Two attempts of one run, two sends each, two broken streams, frames that the
\* server may refuse.  The agents may stop sending, so the system may stop.
SPECIFICATION Spec
CONSTANTS
  Attempt = {1, 2}
  Tries = 2
  MaxSends <- FewThenMore
  MaxBreaks = 2
  Refuses = TRUE
INVARIANTS
  TypeOK
  AcceptedAsIssued
  OutboxInOrder
  NothingForgotten
  CallsAreAccepted
CHECK_DEADLOCK FALSE
