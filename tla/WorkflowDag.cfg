\* One build, four pipelines, the faults of MCFaults.
SPECIFICATION Spec
CONSTANTS
  Source = "ci"
  Pipeline <- MCPipeline
  Children <- MCChildren
  PreStage = {"test", "prod"}
  PostStage = {"test"}
  AutoPre = {"test"}
  AutoDeploy = {"test", "qa", "live", "prod"}
  AutoPost = {"test"}
  Copier <- MCCopier
  Manual <- MCManual
  MaxBuilds = 1
  Faults <- MCFaults
  MaxFaults = 3
INVARIANTS
  TypeOK
  TriggersOnce
  DeployedOnce
  EverySuccessIsFollowedUp
  HealthyIsRecorded
PROPERTIES
  ImplementsPromotion
CHECK_DEADLOCK FALSE
