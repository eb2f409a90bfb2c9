\* A shutdown in the middle of an Argo CD release.
SPECIFICATION ServerSpec
CONSTANTS
  w1 = w1
  w2 = w2
  none = none
  Deployment <- MCDeployment
  Request <- MCDeployment
  Worker <- MCWorker
  NoWorker = none
  NoEntry = none
  AppType = "argocd"
  Faults = {"shutdown"}
  Slow <- MCDeployment
  MaxRestarts = 1
  MaxRedeliveries = 0
PROPERTIES
  UnfinishedIsResumed
CHECK_DEADLOCK FALSE
