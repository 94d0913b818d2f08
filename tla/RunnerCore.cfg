\* One run, two attempts, a cancel request racing the scheduler, agents that
\* write a message and propose a result, probes that may answer wrongly. The
\* run may simply end, so the system may stop.
SPECIFICATION Spec
CONSTANTS
  r1 = r1
  r2 = r2
  u1 = u1
  Run <- OneRun
  User <- OneUser
  Owner <- OneOwner
  Canceller = {c1}
  GlobalLimit = 1
  UserLimit = 1
  MaxAttempts = 2
  BatchLimit = 10
  Kinds = {"message", "result"}
  MaxCkpt = 0
  MaxCrash = 0
  AckLost = FALSE
  EngineFails = FALSE
  RemovalFails = FALSE
  ProbeFails = TRUE
INVARIANTS
  TypeOK
  LeaseIsNewest
  LeaseMatchesState
  RetriesBounded
  CompletedAnnouncedOnce
PROPERTIES
  TerminalStable
CHECK_DEADLOCK FALSE
