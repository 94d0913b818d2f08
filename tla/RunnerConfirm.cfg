\* One run whose agents commit a checkpoint before they propose,
\* confirmations in any order, containers that podman rm leaves behind: the
\* completion handshake.
SPECIFICATION Spec
CONSTANTS
  r1 = r1
  r2 = r2
  u1 = u1
  Run <- OneRun
  User <- OneUser
  Owner <- OneOwner
  Canceller = {}
  GlobalLimit = 1
  UserLimit = 1
  MaxAttempts = 2
  BatchLimit = 10
  Kinds = {"message", "result"}
  MaxCkpt = 1
  MaxCrash = 0
  AckLost = FALSE
  EngineFails = FALSE
  RemovalFails = TRUE
  ProbeFails = TRUE
INVARIANTS
  CompletedIsConfirmed
