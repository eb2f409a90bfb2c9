\* Liveness of two triggers of one Helm pipeline; the older may outlast its deadline.
SPECIFICATION FairSpec
CONSTANTS
  w1 = w1
  w2 = w2
  none = none
  Deployment <- MCDeployment
  Request <- MCDeployment
  Worker <- MCWorker
  NoWorker = none
  NoEntry = none
  AppType = "helm"
  Faults = {"deadline"}
  Slow = {1}
  MaxRestarts = 0
  MaxRedeliveries = 0
PROPERTIES
  LatestIsServed
CHECK_DEADLOCK FALSE
