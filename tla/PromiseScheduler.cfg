\* Two runs; a cancel removes a container while it is inspected.
SPECIFICATION FairSpec
CONSTANTS
  r1 = r1
  r2 = r2
  u1 = u1
  Run <- TwoRuns
  User <- OneUser
  Owner <- OneOwner
  Canceller = {c1}
  GlobalLimit = 2
  UserLimit = 2
  MaxAttempts = 1
  BatchLimit = 10
  Kinds = {}
  MaxCkpt = 0
  MaxCrash = 0
  AckLost = FALSE
  EngineFails = FALSE
  RemovalFails = FALSE
  ProbeFails = FALSE
PROPERTIES
  AdmittedRunIsPickedUp
CHECK_DEADLOCK FALSE
