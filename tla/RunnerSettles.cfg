\* Two runs that share one slot, agents that write and then exit, a crash of
\* the Runner: lost attempts are noticed and every run settles.
SPECIFICATION FairSpec
CONSTANTS
  r1 = r1
  r2 = r2
  u1 = u1
  Run <- TwoRuns
  User <- OneUser
  Owner <- OneOwner
  Canceller = {}
  GlobalLimit = 1
  UserLimit = 1
  MaxAttempts = 2
  BatchLimit = 10
  Kinds = {"message"}
  MaxCkpt = 0
  MaxCrash = 1
  AckLost = FALSE
  EngineFails = FALSE
  RemovalFails = FALSE
  ProbeFails = TRUE
PROPERTIES
  EveryRunSettles
