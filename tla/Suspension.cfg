\* A run that asks, with two attempts, and the run its answer starts.
SPECIFICATION Spec
CONSTANTS
  r1 = r1
  r2 = r2
  none = none
  Run <- TwoRuns
  Posted = {r1}
  Cancellable = {r1, r2}
  Urgent = {r2}
  MaxAttempts = 2
  Question <- TwoRuns
  QuestionOf <- OnePerRun
INVARIANTS
  TypeOK
  AskedWithCheckpoint
  WaitingHasAsked
PROPERTIES
  WaitingIsShown
CHECK_DEADLOCK FALSE
