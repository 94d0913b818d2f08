\* One run whose agents suspend, with a crash, lost acknowledgements, Podman
\* commands that fail or time out, and a cancel request; podman rm and podman
\* container exists, whose errors the code cannot see, do not fail here.
SPECIFICATION Spec
CONSTANTS
  r1 = r1
  r2 = r2
  u1 = u1
  Run <- OneRun
  User <- OneUser
  Owner <- OneOwner
  Canceller = {c1}
  GlobalLimit = 1
  UserLimit = 1
  MaxAttempts = 2
  BatchLimit = 10
  Kinds = {"suspension"}
  MaxCkpt = 0
  MaxCrash = 1
  AckLost = TRUE
  EngineFails = TRUE
  RemovalFails = FALSE
  ProbeFails = FALSE
INVARIANTS
  NoContainerWhileWaiting
  OneContainerPerRun
CHECK_DEADLOCK FALSE
