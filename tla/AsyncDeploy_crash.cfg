\* The process is killed once, at any point, and restarts.
SPECIFICATION Spec
CONSTANTS
  w1 = w1
  w2 = w2
  none = none
  Deployment <- MCDeployment
  Request <- MCDeployment
  Worker <- MCWorker
  NoWorker = none
  NoEntry = none
  AppType = "helm"
  Faults = {"publish"}
  Slow <- MCDeployment
  MaxRestarts = 1
  MaxRedeliveries = 0
SYMMETRY WorkerSymmetry
INVARIANTS
  LatestSurvivesCrash
CHECK_DEADLOCK FALSE
