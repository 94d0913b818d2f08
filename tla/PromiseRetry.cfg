\* Visible output races the rows reconciliation has read.
SPECIFICATION Spec
CONSTANTS
  r1 = r1
  r2 = r2
  u1 = u1
  Run <- OneRun
  User <- OneUser
  Owner <- OneOwner
  Canceller = {}
  GlobalLimit = 1
  UserLimit = 1
  MaxAttempts = 2
  BatchLimit = 10
  Kinds = {"message"}
  MaxCkpt = 0
  MaxCrash = 0
  AckLost = FALSE
  EngineFails = FALSE
  RemovalFails = FALSE
  ProbeFails = FALSE
PROPERTIES
  RetryOnlyBeforeOutput
CHECK_DEADLOCK FALSE
