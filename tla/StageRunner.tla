---------------------------- MODULE StageRunner ----------------------------
(***************************************************************************)
(* A pre- or post-deployment stage: its runner, the runners of its         *)
(* retries, and everything that writes to them.                            *)
(*                                                                         *)
(* A runner's pod is watched by kubewatch, which publishes a status event  *)
(* for each change of it, and the ci-runner inside it reports how the      *)
(* stage went.  The two topics have consumers of their own (status and     *)
(* complete workers, WorkflowEventProcessorService.go) that run            *)
(* concurrently with each other and with a user who cancels the stage.     *)
(* Each of them reads the runner, computes its rows from what is stored at *)
(* that time (WorkflowStages) and writes the runner back.  An event that   *)
(* says the pod was deleted starts the stage again as a new runner         *)
(* (HandleCdStageReTrigger), up to MaxRetries times.                       *)
(***************************************************************************)
EXTENDS Naturals, FiniteSets, SequencesExt, WorkflowStages

CONSTANTS
  Runner,          \* the runners of one stage, 1 .. N; 1 is the original one
  StatusWorker,    \* goroutines that process CD_WORKFLOW_STATUS_UPDATE
  CompleteWorker,  \* goroutines that process CD_STAGE_COMPLETE_TOPIC
  User,            \* the user who cancels the stage
  MaxRetries,      \* MAX_CD_WORKFLOW_RUNNER_RETRIES
  Disturbances,    \* what may come in between: "cancel", "resync", "redelivery",
                   \* "restart", "timeout" (of a pod) and "trigger" (a retry fails)
  MaxDisturbances, \* bound: how many of them happen
  Cancellable      \* bound: the runners that users cancel

Worker == StatusWorker \cup CompleteWorker \cup {User}

ASSUME RunnerAssumption ==
  /\ IsFiniteSet(Runner)
  /\ 1 \in Runner
  /\ Runner = 1 .. Cardinality(Runner)
ASSUME WorkerAssumption ==
  /\ IsFiniteSet(StatusWorker) /\ IsFiniteSet(CompleteWorker)
  /\ StatusWorker # {}
  /\ StatusWorker \cap CompleteWorker = {}
  /\ User \notin StatusWorker \cup CompleteWorker
ASSUME BoundsAssumption == MaxRetries \in Nat /\ MaxDisturbances \in Nat

VARIABLES
  row,        \* the runner in the database, "status" being "none" if there is none
  pod,        \* the pod of the runner, as it is on the cluster
  report,     \* what the ci-runner has reported
  statusQ,    \* CD_WORKFLOW_STATUS_UPDATE: events not yet taken
  completeQ,  \* CD_STAGE_COMPLETE_TOPIC: events not yet taken
  job,        \* what each worker is doing
  announced,  \* runners whose success was handed to the workflow DAG
  torn,       \* runners written by a worker that had not seen an earlier write
  dropped,    \* runners whose retry was given up by a failure or a crash
  disturbed   \* how many disturbances have happened

vars == <<row, pod, report, statusQ, completeQ, job, announced, torn, dropped, disturbed>>

-----------------------------------------------------------------------------
(* Data *)

NoRow == [status |-> "none", podStatus |-> "Pending", prep |-> "NOT_STARTED",
          exec |-> "NOT_STARTED", pod |-> "NOT_STARTED", message |-> "",
          finished |-> FALSE, ref |-> 0]

RunnerRow == [status: Status \cup {"none"}, podStatus: PodPhase, prep: StageStatus,
              exec: StageStatus, pod: StageStatus, message: Message,
              finished: BOOLEAN, ref: Runner \cup {0}]

Pod == {"none", "pending", "running", "succeeded", "exited", "timedout", "deleted"}
Ended == {"succeeded", "exited", "timedout", "deleted"}

StatusEvent == [runner: Runner, phase: PodPhase, podStatus: PodPhase,
                message: Message, finished: BOOLEAN]
CompleteEvent == [runner: Runner, failed: BOOLEAN, again: BOOLEAN]

\* The event of a runner whose pod is in some state.  That a pod is pending says
\* nothing the runner was not created with and is left out; Argo reports a deleted
\* pod as an error or as a failure.
PodEvents(r, state) ==
  LET Event(phase, podStatus, message, finished) ==
        [runner |-> r, phase |-> phase, podStatus |-> podStatus,
         message |-> message, finished |-> finished]
  IN CASE state = "running"   -> {Event("Running", "Running", "", FALSE)}
       [] state = "succeeded" -> {Event("Succeeded", "Succeeded", "", TRUE)}
       [] state = "exited"    -> {Event("Failed", "Failed", "exit", TRUE)}
       [] state = "timedout"  -> {Event("Failed", "Failed", "timeout", TRUE)}
       [] state = "deleted"   -> {Event(p, p, "pod deleted", TRUE) : p \in {"Failed", "Error"}}
       [] OTHER               -> {}

Exists(r) == row[r].status # "none"
\* (Slip: a retry of a retry counts for the retry.)
OriginalSelf(r) == r
Original(r) == IF row[r].ref = 0 THEN r ELSE row[r].ref
Retries(r) == {x \in Runner : Exists(x) /\ row[x].ref = r}
Finished(r) == row[r].status \in {"Succeeded", "CANCELLED"}

Idle == [pc |-> "idle"]

\* What a worker that takes the messages Ev may be doing.
Job(Ev) ==
  {Idle}
  \cup [pc: {"compute"}, runner: Runner, ev: Ev, row: RunnerRow, final: BOOLEAN]
  \cup [pc: {"write"}, runner: Runner, ev: Ev, row: RunnerRow, final: BOOLEAN,
        base: RunnerRow]
  \cup [pc: {"reread", "create", "submit"}, runner: Runner, ev: Ev,
        status: Status, final: BOOLEAN]
  \cup [pc: {"announce"}, runner: Runner, ev: Ev]
  \cup [pc: {"terminate"}, runner: Runner, row: RunnerRow]
Busy(w) == job[w].pc # "idle"

Disturb(what) ==
  /\ what \in Disturbances
  /\ disturbed < MaxDisturbances
  /\ disturbed' = disturbed + 1

-----------------------------------------------------------------------------
(* The cluster: the pod of a runner and the ci-runner in it (external) *)

Publish(r, state) == \E ev \in PodEvents(r, state) : statusQ' = Append(statusQ, ev)

PodStarts(r) ==
  /\ pod[r] = "pending"
  /\ pod' = [pod EXCEPT ![r] = "running"]
  /\ Publish(r, "running")
  /\ UNCHANGED <<row, report, completeQ, job, announced, torn, dropped, disturbed>>

RunnerReports(r) ==
  /\ pod[r] = "running"
  /\ report[r] = "none"
  /\ \E outcome \in {"success", "failure"} :
       /\ report' = [report EXCEPT ![r] = outcome]
       /\ completeQ' = Append(completeQ, [runner |-> r, failed |-> outcome = "failure",
                                          again |-> FALSE])
  /\ UNCHANGED <<row, pod, statusQ, job, announced, torn, dropped, disturbed>>

\* How a pod can end; one that failed may be deleted in a second step.
MayEnd(r, state) ==
  \/ state = "succeeded" /\ pod[r] = "running" /\ report[r] = "success"
  \/ state = "exited" /\ pod[r] = "running" /\ report[r] # "success"
  \/ state = "timedout" /\ pod[r] = "running"
  \/ state = "deleted" /\ pod[r] \in {"pending", "running", "exited"}

PodEnds(r) ==
  /\ \E state \in Ended :
       /\ MayEnd(r, state)
       /\ IF state = "timedout" THEN Disturb("timeout") ELSE UNCHANGED disturbed
       /\ pod' = [pod EXCEPT ![r] = state]
       /\ Publish(r, state)
  /\ UNCHANGED <<row, report, completeQ, job, announced, torn, dropped>>

\* kubewatch publishes the state it sees again.
Resync(r) ==
  /\ Disturb("resync")
  /\ Publish(r, pod[r])
  /\ UNCHANGED <<row, pod, report, completeQ, job, announced, torn, dropped>>

-----------------------------------------------------------------------------
(* One update of a runner: read, compute from what is stored, write *)

\* `saved` is the runner as the worker read and changed it.
StartUpdate(w, saved, r, ev) ==
  job' = [job EXCEPT ![w] = [pc |-> "compute", runner |-> r, ev |-> ev, row |-> saved,
                             final |-> Finished(r)]]

\* UpdateCdWorkflowRunnerWithStage: the rows are computed from those in the database.
ComputeStages(w) ==
  /\ job[w].pc = "compute"
  /\ LET saved == job[w].row
         stored == row[job[w].runner]
     IN job' = [job EXCEPT ![w] =
          [pc |-> "write", runner |-> job[w].runner, ev |-> job[w].ev, base |-> stored,
           row |-> [UpdateWorkflowStages(stored, saved.status, saved.podStatus,
                                         saved.message)
                      EXCEPT !.message = saved.message, !.finished = saved.finished],
           final |-> job[w].final]]
  /\ UNCHANGED <<row, pod, report, statusQ, completeQ, announced, torn, dropped, disturbed>>

\* The whole runner is written, whatever was written to it in between.
WriteRow(w) ==
  LET r == job[w].runner IN
  /\ job[w].pc = "write"
  /\ row' = [row EXCEPT ![r] = job[w].row]
  /\ torn' = IF row[r] = job[w].base THEN torn ELSE torn \cup {r}
  /\ job' = [job EXCEPT ![w] =
         CASE w \in StatusWorker ->
                [pc |-> "reread", runner |-> r, ev |-> job[w].ev,
                 status |-> job[w].row.status, final |-> job[w].final]
           [] w \in CompleteWorker ->
                [pc |-> "announce", runner |-> r, ev |-> job[w].ev]
           [] OTHER -> Idle]
  /\ UNCHANGED <<pod, report, statusQ, completeQ, announced, dropped, disturbed>>

-----------------------------------------------------------------------------
(* Status events: SubscribeCDWorkflowStatusUpdate *)

stateChanged(ev, saved) ==
  \/ saved.status # ev.phase
  \/ saved.podStatus # ev.podStatus
  \/ saved.message # ev.message
  \/ saved.finished # ev.finished

\* What UpdateWorkflow makes of the runner it read.
UpdateWorkflow(ev, saved) ==
  LET podOver == saved.podStatus \in Terminal
      over    == podOver \/ saved.status \in Terminal
  IN [saved EXCEPT
        !.message   = IF podOver THEN @ ELSE ev.message,
        !.finished  = IF over THEN @ ELSE ev.finished,
        !.status    = IF @ = "CANCELLED" THEN @ ELSE ev.phase,
        !.podStatus = ev.podStatus]

\* An event that changes nothing is acknowledged at once.
BeginStatus(w) ==
  /\ ~Busy(w)
  /\ statusQ # <<>>
  /\ statusQ' = Tail(statusQ)
  /\ LET ev == Head(statusQ)
         saved == row[ev.runner]
     IN IF stateChanged(ev, saved)
        THEN StartUpdate(w, UpdateWorkflow(ev, saved), ev.runner, ev)
        ELSE UNCHANGED job
  /\ UNCHANGED <<row, pod, report, completeQ, announced, torn, dropped, disturbed>>

\* (Slips: only a deletion reported as an error is retried; a deletion is enough.)
ReTriggerRequiredError(status, message, now) ==
  /\ status = "Error"
  /\ message = "pod deleted"
  /\ now \notin {"CANCELLED", "Aborted", "Succeeded"}
ReTriggerRequiredDeleted(status, message, now) == message = "pod deleted"

\* CheckIfReTriggerRequired: `status` is the stored one, `now` the one read again.
ReTriggerRequired(status, message, now) ==
  /\ status \in {"Error", "Failed"}
  /\ message = "pod deleted"
  /\ now \notin {"CANCELLED", "Aborted", "Succeeded"}

-----------------------------------------------------------------------------
(* A stage is started again: HandleCdStageReTrigger *)

\* The runner is read again, and how often its original was retried is counted.
CheckReTrigger(w) ==
  LET r == job[w].runner
      ev == job[w].ev
  IN
  /\ job[w].pc = "reread"
  /\ job' = [job EXCEPT ![w] =
       IF /\ ev.phase \in {"Succeeded", "Failed", "Error"}
          /\ ReTriggerRequired(job[w].status, ev.message, row[r].status)
          /\ Cardinality(Retries(Original(r))) < MaxRetries
       THEN [job[w] EXCEPT !.pc = "create"]
       ELSE Idle]
  /\ UNCHANGED <<row, pod, report, statusQ, completeQ, announced, torn, dropped, disturbed>>

\* createStartingWfAndRunner, for the workflow of the original runner.
CreateRetry(w) ==
  /\ job[w].pc = "create"
  /\ \E new \in Runner :
       /\ ~Exists(new)
       /\ \A x \in 1 .. (new - 1) : Exists(x)
       /\ row' = [row EXCEPT ![new] =
            [status |-> StartingRows.status, podStatus |-> StartingRows.podStatus,
             prep |-> StartingRows.prep, exec |-> StartingRows.exec,
             pod |-> StartingRows.pod, message |-> "", finished |-> FALSE,
             ref |-> Original(job[w].runner)]]
       /\ job' = [job EXCEPT ![w] = [pc |-> "submit", runner |-> new, ev |-> job[w].ev,
                                     status |-> job[w].status, final |-> job[w].final]]
  /\ UNCHANGED <<pod, report, statusQ, completeQ, announced, torn, dropped, disturbed>>

\* The stage's environment or its feasibility cannot be established: no retry.
\* An error after the runner was created, also of a post stage's feasibility,
\* leaves that runner as it is: nobody submits or fails it, and it counts as a
\* retry.
RetryFails(w) ==
  /\ job[w].pc \in {"create", "submit"}
  /\ Disturb("trigger")
  /\ dropped' = IF job[w].pc = "create" THEN dropped \cup {job[w].runner} ELSE dropped
  /\ job' = [job EXCEPT ![w] = Idle]
  /\ UNCHANGED <<row, pod, report, statusQ, completeQ, announced, torn>>

SubmitWorkflow(w) ==
  /\ job[w].pc = "submit"
  /\ pod' = [pod EXCEPT ![job[w].runner] = "pending"]
  /\ job' = [job EXCEPT ![w] = Idle]
  /\ UNCHANGED <<row, report, statusQ, completeQ, announced, torn, dropped, disturbed>>

\* The snapshot is missing or the cluster refuses the workflow: the runner fails.
\* Nothing else writes to a runner before its workflow is submitted.
SubmitFails(w) ==
  LET r == job[w].runner IN
  /\ job[w].pc = "submit"
  /\ Disturb("trigger")
  /\ row' = [row EXCEPT ![r] =
       [UpdateWorkflowStages(row[r], "Failed", row[r].podStatus, "exit")
          EXCEPT !.message = "exit", !.finished = TRUE]]
  /\ job' = [job EXCEPT ![w] = Idle]
  /\ UNCHANGED <<pod, report, statusQ, completeQ, announced, torn, dropped>>

-----------------------------------------------------------------------------
(* Reports of the ci-runner: SubscribeCDStageCompleteEvent *)

\* A runner that is terminal keeps its status.
BeginComplete(w) ==
  /\ ~Busy(w)
  /\ completeQ # <<>>
  /\ completeQ' = Tail(completeQ)
  /\ LET ev == Head(completeQ)
         saved == row[ev.runner]
         outcome == IF ev.failed THEN "Failed" ELSE "Succeeded"
     IN IF saved.status \in Terminal
        THEN job' = [job EXCEPT ![w] = [pc |-> "announce", runner |-> ev.runner, ev |-> ev]]
        ELSE StartUpdate(w, [saved EXCEPT !.status = outcome], ev.runner, ev)
  /\ UNCHANGED <<row, pod, report, statusQ, announced, torn, dropped, disturbed>>

\* A message delivered again is dropped if it triggered something the first time.
DropComplete(w) ==
  /\ ~Busy(w)
  /\ completeQ # <<>>
  /\ Head(completeQ).again
  /\ Head(completeQ).runner \in announced
  /\ completeQ' = Tail(completeQ)
  /\ UNCHANGED <<row, pod, report, statusQ, job, announced, torn, dropped, disturbed>>

\* handleCDStageCompleteEvent: a success goes to the DAG, whatever the status is.
Announce(w) ==
  /\ job[w].pc = "announce"
  /\ announced' = IF job[w].ev.failed THEN announced
                  ELSE announced \cup {job[w].runner}
  /\ job' = [job EXCEPT ![w] = Idle]
  /\ UNCHANGED <<row, pod, report, statusQ, completeQ, torn, dropped, disturbed>>

-----------------------------------------------------------------------------
(* A user cancels a stage: CancelStage *)

BeginCancel(r) ==
  /\ ~Busy(User)
  /\ Exists(r) /\ r \in Cancellable
  /\ Disturb("cancel")
  /\ job' = [job EXCEPT ![User] = [pc |-> "terminate", runner |-> r, row |-> row[r]]]
  /\ UNCHANGED <<row, pod, report, statusQ, completeQ, announced, torn, dropped>>

\* The runner CancelStage writes once the workflow was terminated; by force it
\* leaves one that is pending alone.
Cancelled(saved, force) ==
  IF force THEN [saved EXCEPT !.status = "CANCELLED", !.podStatus = "Failed",
                              !.message = "aborted"]
  ELSE [saved EXCEPT !.status = "CANCELLED"]

WriteCancel(force) ==
  LET saved == job[User].row IN
  IF force /\ saved.status = "Pending"
  THEN job' = [job EXCEPT ![User] = Idle]
  ELSE StartUpdate(User, Cancelled(saved, force), job[User].runner, {})

\* The workflow of a stage that ended may still be there to be terminated.
Terminate ==
  LET r == job[User].runner IN
  /\ job[User].pc = "terminate"
  /\ \E force \in BOOLEAN : WriteCancel(force)
  /\ IF pod[r] \in {"pending", "running"}
     THEN /\ pod' = [pod EXCEPT ![r] = "exited"]
          /\ Publish(r, "exited")
     ELSE UNCHANGED <<pod, statusQ>>
  /\ UNCHANGED <<row, report, completeQ, announced, torn, dropped, disturbed>>

\* There is no workflow to terminate: CancelStage gives up unless it is forced.
TerminateFails ==
  /\ job[User].pc = "terminate"
  /\ pod[job[User].runner] \notin {"pending", "running"}
  /\ job' = [job EXCEPT ![User] = Idle]
  /\ UNCHANGED <<row, pod, report, statusQ, completeQ, announced, torn, dropped, disturbed>>

-----------------------------------------------------------------------------
(* Messages that come again, and crashes *)

\* What the workers W have taken and not acknowledged comes before what is queued.
Taken(W) == [w \in {x \in W : Busy(x)} |-> job[w].ev]
Redelivered(taken) == [w \in DOMAIN taken |-> [taken[w] EXCEPT !.again = TRUE]]
Requeued(taken, queue) ==
  LET holders == SetToSeq(DOMAIN taken)
  IN [i \in 1 .. Len(holders) |-> taken[holders[i]]] \o queue

\* A worker takes longer than the acknowledgement may: the message comes again.
Redeliver(w) ==
  /\ Busy(w)
  /\ Disturb("redelivery")
  /\ \/ /\ w \in StatusWorker
        /\ statusQ' = Requeued(Taken({w}), statusQ)
        /\ UNCHANGED completeQ
     \/ /\ w \in CompleteWorker
        /\ completeQ' = Requeued(Redelivered(Taken({w})), completeQ)
        /\ UNCHANGED statusQ
  /\ UNCHANGED <<row, pod, report, job, announced, torn, dropped>>

\* (Slip: messages are acknowledged when they are taken.)
CrashAcknowledged ==
  /\ Disturb("restart")
  /\ job' = [w \in Worker |-> Idle]
  /\ UNCHANGED <<row, pod, report, statusQ, completeQ, announced, torn, dropped>>

\* A crash between an update and the retry it calls for may lose the retry, and
\* leaves a runner that was created and not submitted as it is.
Crash ==
  /\ Disturb("restart")
  /\ statusQ' = Requeued(Taken(StatusWorker), statusQ)
  /\ completeQ' = Requeued(Redelivered(Taken(CompleteWorker)), completeQ)
  /\ dropped' = dropped \cup
       {job[w].runner : w \in {x \in StatusWorker :
                               job[x].pc \in {"reread", "create", "submit"}}}
  /\ job' = [w \in Worker |-> Idle]
  /\ UNCHANGED <<row, pod, report, announced, torn>>

-----------------------------------------------------------------------------
Init ==
  /\ row = [r \in Runner |->
             IF r = 1 THEN [NoRow EXCEPT !.status = StartingRows.status,
                                         !.prep = StartingRows.prep]
             ELSE NoRow]
  /\ pod = [r \in Runner |-> IF r = 1 THEN "pending" ELSE "none"]
  /\ report = [r \in Runner |-> "none"]
  /\ statusQ = <<>> /\ completeQ = <<>>
  /\ job = [w \in Worker |-> Idle]
  /\ announced = {} /\ torn = {} /\ dropped = {}
  /\ disturbed = 0

Cluster(r) == PodStarts(r) \/ RunnerReports(r) \/ PodEnds(r) \/ Resync(r)

StatusStep(w) ==
  \/ BeginStatus(w) \/ CheckReTrigger(w) \/ CreateRetry(w)
  \/ RetryFails(w) \/ SubmitWorkflow(w) \/ SubmitFails(w)

CompleteStep(w) == BeginComplete(w) \/ DropComplete(w) \/ Announce(w)

CancelStage == (\E r \in Runner : BeginCancel(r)) \/ Terminate \/ TerminateFails

Next ==
  \/ \E r \in Runner : Cluster(r)
  \/ \E w \in Worker : ComputeStages(w) \/ WriteRow(w) \/ Redeliver(w)
  \/ \E w \in StatusWorker : StatusStep(w)
  \/ \E w \in CompleteWorker : CompleteStep(w)
  \/ CancelStage
  \/ Crash

Spec == Init /\ [][Next]_vars

-----------------------------------------------------------------------------
(* Properties *)

AtRest == statusQ = <<>> /\ completeQ = <<>> /\ \A w \in Worker : ~Busy(w)

\* The rows, the cluster, the queues and the jobs have the values the code gives them.
TypeOK ==
  /\ row \in [Runner -> RunnerRow]
  /\ pod \in [Runner -> Pod]
  /\ report \in [Runner -> {"none", "success", "failure"}]
  /\ statusQ \in Seq(StatusEvent)
  /\ completeQ \in Seq(CompleteEvent)
  /\ job = [w \in Worker |-> job[w]]
  /\ \A w \in Worker :
       job[w] \in IF w \in StatusWorker THEN Job(StatusEvent)
                 ELSE IF w \in CompleteWorker THEN Job(CompleteEvent) ELSE Job({{}})
  /\ disturbed \in Nat
  /\ announced \subseteq Runner
  /\ torn \subseteq Runner
  /\ dropped \subseteq Runner

\* A stage is started again MaxRetries times at most, however many events say its
\* pod was deleted; status workers that count at the same time may each add one.
\* A retry counts for the original runner, also when a retry itself is retried.
RetriesBounded ==
  \A r \in Runner :
    /\ Cardinality(Retries(r)) < MaxRetries + Cardinality(StatusWorker)
    /\ Retries(r) # {} => row[r].ref = 0

\* Late, repeated and reordered events leave a terminal status alone: only a failure
\* with a cause, over rows still open, makes it TimedOut or CANCELLED.
TerminalIsFinal ==
  [][\A r \in Runner :
       (row[r].status \in Terminal /\ r \notin torn') =>
         row'[r].status \in {row[r].status, "TimedOut", "CANCELLED"}]_vars

\* A stage that had succeeded or was cancelled when its deletion was read is not run again.
FinishedIsNotRetried ==
  [][\A w \in StatusWorker :
       (job[w].pc = "create" /\ job'[w].pc = "submit") =>
         (~job[w].final \/ job[w].runner \in torn)]_vars

\* When nothing is left to be done, a reported success has reached the workflow DAG,
\* a runner whose pod ended is terminal, and unless it was cancelled no row of it says
\* that something still runs, whatever crashed, came twice or was cancelled.
RestIsSettled ==
  AtRest => \A r \in Runner :
    /\ report[r] = "success" => r \in announced
    /\ (pod[r] \in Ended /\ r \notin torn \cup dropped) =>
         /\ row[r].status \in Terminal
         /\ \/ row[r].status = "CANCELLED"
            \/ "RUNNING" \notin {row[r].prep, row[r].exec, row[r].pod}

\* A failed runner whose pod was deleted has been retried, by a runner created after
\* it, or its original has no retry left.
DeletedIsRetried ==
  AtRest => \A r \in Runner \ (torn \cup dropped) :
    (pod[r] = "deleted" /\ row[r].status = "Failed") =>
       \/ Cardinality(Retries(Original(r))) >= MaxRetries
       \/ \E x \in Retries(Original(r)) : x > r
=============================================================================
