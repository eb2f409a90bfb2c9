--------------------------- MODULE WorkflowStages ---------------------------
(***************************************************************************)
(* The status rows of one pre- or post-deployment stage, and what one      *)
(* update does to them.  The code is WorkflowStageStatusService.go:        *)
(* beside a runner's status and pod status it keeps three rows, the        *)
(* preparation and the execution of the workflow and the execution of the  *)
(* pod, and every update of a runner goes through UpdateWorkflowStages,    *)
(* which answers with the status that is to be stored.                     *)
(*                                                                         *)
(* A pod status reaching this code is one of the five phases of PodPhase:  *)
(* the branches for an unknown one are left out.                           *)
(***************************************************************************)

\* Whether stage rows are kept (ENABLE_WORKFLOW_EXECUTION_STAGE, by default TRUE).
CONSTANT StagesEnabled

ASSUME StagesAssumption == StagesEnabled \in BOOLEAN

PodPhase == {"Pending", "Running", "Succeeded", "Failed", "Error"}
Message  == {"", "exit", "pod deleted", "timeout", "aborted"}

\* WfrTerminalStatusList, the members a stage can have: "Error" is not one.
Terminal == {"Succeeded", "Failed", "TimedOut", "CANCELLED"}
Status   == Terminal \cup PodPhase \cup {"Starting", "WaitingToStart"}

StageStatus == {"NOT_STARTED", "RUNNING", "SUCCEEDED", "FAILED", "ABORTED",
                "TIMEOUT", "UNKNOWN"}
IsTerminal(stage) == stage \in {"SUCCEEDED", "FAILED", "ABORTED", "TIMEOUT"}

\* (Slip: the status takes the place of the pod status.)
StartingRowsSwapped ==
  [status |-> "Pending", podStatus |-> "WaitingToStart",
   prep |-> "RUNNING", exec |-> "NOT_STARTED", pod |-> "NOT_STARTED"]

\* SaveCDWorkflowRunnerWithStage: the rows of a runner that was just created.
StartingRows ==
  [status |-> IF StagesEnabled THEN "WaitingToStart" ELSE "Starting",
   podStatus |-> "Pending",
   prep |-> "RUNNING", exec |-> "NOT_STARTED", pod |-> "NOT_STARTED"]

ConvertStatusToDevtronStatus(wfStatus, message) ==
  CASE wfStatus \in {"Pending", "WaitingToStart"} -> "NOT_STARTED"
    [] wfStatus \in {"Starting", "Running"}       -> "RUNNING"
    [] wfStatus = "Succeeded"                     -> "SUCCEEDED"
    [] wfStatus \in {"Failed", "Error"}           ->
         IF message = "timeout" THEN "TIMEOUT" ELSE "FAILED"
    [] wfStatus = "CANCELLED"                     -> "ABORTED"
    [] OTHER                                      -> "UNKNOWN"

\* (Slip: the last update wins.)
ComputeWorkflowStatusLast(stored, wfStatus, stageStatus) ==
  IF wfStatus \in Terminal THEN wfStatus ELSE stageStatus

\* The status stored before wins once it is terminal.
ComputeWorkflowStatus(stored, wfStatus, stageStatus) ==
  IF stored \in Terminal THEN stored
  ELSE IF wfStatus \in Terminal THEN wfStatus
  ELSE stageStatus

\* The pod's row and pod status (updatePodStages).
UpdatedPodRow(pod, podStatus) ==
  CASE podStatus = "Pending" /\ ~IsTerminal(pod)                   -> "NOT_STARTED"
    [] podStatus = "Running" /\ pod \in {"NOT_STARTED", "UNKNOWN"} -> "RUNNING"
    [] podStatus = "Succeeded" /\ pod \in {"RUNNING", "UNKNOWN"}   -> "SUCCEEDED"
    [] podStatus \in {"Failed", "Error"} /\ ~IsTerminal(pod)       -> "FAILED"
    [] OTHER                                                       -> pod

UpdatedPodStatus(stored, podStatus) ==
  IF stored \in Terminal THEN stored ELSE podStatus

\* A failure that still finds the workflow's rows open names its cause.
Cause(stage, status) ==
  CASE stage = "TIMEOUT" -> "TimedOut"
    [] stage = "ABORTED" -> "CANCELLED"
    [] OTHER             -> status

(***************************************************************************)
(* The workflow's rows and status (updateWorkflowStagesToDevtronStatus):   *)
(* one branch per pod status of the update.                                *)
(***************************************************************************)
UpdatedWorkflowRows(rows, wfStatus, podStatus, message) ==
  LET stage == ConvertStatusToDevtronStatus(wfStatus, message)
      Stored(default) == ComputeWorkflowStatus(rows.status, wfStatus, default)
      execFails == rows.exec = "RUNNING" /\ IsTerminal(stage)
      prepFails == ~IsTerminal(rows.prep) /\ IsTerminal(stage)
  IN CASE podStatus = "Pending" ->
            [rows EXCEPT
               !.status = Stored("WaitingToStart"),
               !.prep   = IF IsTerminal(@) \/ stage = "NOT_STARTED" THEN @ ELSE stage,
               !.pod    = IF wfStatus \in Terminal THEN stage ELSE @]
       [] podStatus = "Running" ->
            [rows EXCEPT
               !.status = Stored("Running"),
               !.prep   = IF @ = "RUNNING" THEN "SUCCEEDED" ELSE @,
               !.exec   = CASE @ = "NOT_STARTED" -> "RUNNING"
                            [] execFails         -> stage
                            [] OTHER             -> @]
       [] podStatus = "Succeeded" ->
            [rows EXCEPT
               !.status = Stored("Succeeded"),
               !.exec   = IF @ = "RUNNING" THEN "SUCCEEDED" ELSE @]
       [] OTHER ->
            [rows EXCEPT
               !.status = IF execFails \/ prepFails THEN Cause(stage, Stored("Failed"))
                          ELSE Stored("Failed"),
               !.exec   = IF execFails THEN stage ELSE @,
               !.prep   = IF prepFails THEN stage ELSE @]

\* What is stored for an update (UpdateWorkflowStages), `rows` being in the database.
UpdateWorkflowStages(rows, wfStatus, podStatus, message) ==
  IF StagesEnabled
  THEN [UpdatedWorkflowRows([rows EXCEPT !.pod = UpdatedPodRow(rows.pod, podStatus)],
                            wfStatus, podStatus, message)
          EXCEPT !.podStatus = UpdatedPodStatus(rows.podStatus, podStatus)]
  ELSE [rows EXCEPT !.status = wfStatus, !.podStatus = podStatus]
=============================================================================
