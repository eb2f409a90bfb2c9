\* Two triggers of one Argo CD pipeline; everything but the process fails.
SPECIFICATION Spec
CONSTANTS
  w1 = w1
  w2 = w2
  none = none
  Deployment <- MCDeployment
  Request <- MCDeployment
  Worker <- MCWorker
  NoWorker = none
  NoEntry = none
  AppType = "argocd"
  Faults = {"validation", "publish", "release", "deadline"}
  Slow <- MCDeployment
  MaxRestarts = 0
  MaxRedeliveries = 0
SYMMETRY WorkerSymmetry
INVARIANTS
  TypeOK
  FailedHasTimeline
  LatestServedAtRest
CHECK_DEADLOCK FALSE
