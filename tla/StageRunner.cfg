\* A stage, its retry, a user, one worker per topic as shipped.
SPECIFICATION Spec
CONSTANTS
  s1 = s1
  c1 = c1
  u = u
  StagesEnabled = TRUE
  StatusWorker = {s1}
  CompleteWorker = {c1}
  User = u
  Runner <- MCRunner
  MaxRetries = 1
  Disturbances = {"cancel", "resync", "redelivery", "restart", "timeout", "trigger"}
  MaxDisturbances = 1
  Cancellable = {1}
INVARIANTS
  TypeOK
  RetriesBounded
  RestIsSettled
  DeletedIsRetried
PROPERTIES
  TerminalIsFinal
  FinishedIsNotRetried
CHECK_DEADLOCK FALSE
