\* A message is redelivered while it is processed; the status cron writes in between.
SPECIFICATION Spec
CONSTANTS
  w1 = w1
  w2 = w2
  none = none
  Deployment <- MCDeployment
  Request <- MCDeployment
  Worker <- MCWorker
  NoWorker = none
  NoEntry = none
  AppType = "helm"
  Faults = {"cron"}
  Slow <- MCDeployment
  MaxRestarts = 0
  MaxRedeliveries = 1
SYMMETRY WorkerSymmetry
PROPERTIES
  FinishedIsNotRepeated
CHECK_DEADLOCK FALSE
