\* The attempt made after a committed suspension: see CommittedEndsRun.
SPECIFICATION Spec
CONSTANTS
  r1 = r1
  r2 = r2
  none = none
  Run <- TwoRuns
  Posted = {r1}
  Cancellable = {r1, r2}
  Urgent = {r2}
  MaxAttempts = 2
  Question <- TwoRuns
  QuestionOf <- OnePerRun
PROPERTY
  CommittedEndsRun
CHECK_DEADLOCK FALSE
