\* Two triggers of one Helm pipeline, nothing fails.
SPECIFICATION Spec
CONSTANTS
  w1 = w1
  w2 = w2
  none = none
  Deployment <- MCDeployment
  Request <- MCDeployment
  Worker <- MCWorker
  NoWorker = none
  NoEntry = none
  AppType = "helm"
  Faults = {}
  Slow <- MCDeployment
  MaxRestarts = 0
  MaxRedeliveries = 0
SYMMETRY WorkerSymmetry
INVARIANTS
  SupersededByNewer
CHECK_DEADLOCK FALSE
