----------------------------- MODULE AsyncDeploy -----------------------------
(***************************************************************************)
(* Asynchronous deployment of one CD pipeline, from the trigger to the     *)
(* release.  A trigger saves a runner and a deployment request and         *)
(* publishes a message; a subscriber processes the LATEST request of the   *)
(* pipeline, whichever message it got; the release context map lets a      *)
(* newer request cancel the release in progress; start-up resumes what a   *)
(* restart interrupted.                                                    *)
(*                                                                         *)
(* An action is one database statement (or transaction), one critical      *)
(* section of the map's mutex, or one call to an external system.          *)
(* A read and the write computed from it are two actions, as in the code:  *)
(* rows are updated whole and without a version check.                     *)
(* Two abstractions: a timeline's presence check and its insert are one    *)
(* step, and a call under a cancelled context has no effect on the cluster.*)
(* The database itself does not fail here; releases, publishing, messages, *)
(* contexts and the process do.                                            *)
(***************************************************************************)
EXTENDS Naturals

CONSTANTS
  Deployment,       \* cd_workflow_runner ids, in the order of their inserts
  Request,          \* user_deployment_request ids
  Worker,           \* goroutines of the subscribers and of start-up
  NoWorker,         \* nobody holds the mutex of the map
  NoEntry,          \* the pipeline has no entry in the map
  AppType,          \* deployment_app_type of the pipeline
  Faults,           \* bound: what may go wrong, a subset of FaultKinds
  Slow,             \* bound: the runners whose work may outlast its deadline
  MaxRestarts,      \* bound: process exits, after a shutdown or not
  MaxRedeliveries   \* bound: redeliveries of messages still being processed

ASSUME DeploymentAssumption == Deployment \subseteq Nat \ {0}
ASSUME RequestAssumption    == Request \subseteq Nat \ {0}
ASSUME AppTypeAssumption    == AppType \in {"helm", "argocd"}
FaultKinds == {"validation", "publish", "release", "deadline", "cron", "shutdown"}
ASSUME FaultsAssumption     == Faults \subseteq FaultKinds
ASSUME BoundAssumption      == MaxRestarts \in Nat /\ MaxRedeliveries \in Nat
ASSUME NoWorkerAssumption   == NoWorker \notin Worker
ASSUME NoEntryAssumption    == NoEntry \notin [runner : Deployment \cup Request, owner : Worker]

VARIABLES
  status,     \* status of each cd_workflow_runner row ("none": no row yet)
  timeline,   \* pipeline_status_timeline rows of each runner
  req,        \* id of the request of each runner (0: not saved)
  pending,    \* messages waiting for delivery, named by their runner
  unacked,    \* messages not acknowledged yet
  trigger,    \* per deployment: the request handler that triggers it
  worker,     \* per worker: its program counter and local variables
  entry,      \* devtronAppReleaseContextMap[pipeline]
  cancel,     \* per worker: its release context, "live" or the cancel cause
  lock,       \* devtronAppReleaseContextMapLock held across database calls
  deployed,   \* the deployment released last on the cluster (0: none)
  cron,       \* the runner the status cron has read (0: none)
  boot,       \* start-up has not fetched the incomplete requests yet
  stopping,   \* App.Stop has cancelled the release contexts
  restarts, redeliveries

db    == <<status, timeline, req>>
nats  == <<pending, unacked>>
ctx   == <<entry, cancel, lock>>
proc  == <<boot, stopping, restarts, redeliveries>>
vars  == <<db, nats, ctx, proc, trigger, worker, deployed, cron>>

Terminal         == {"Failed", "Succeeded"}
Status           == Terminal \cup {"none", "Initiating", "Queued", "Starting", "Progressing"}
TerminalTimeline == {"FAILED", "GIT_COMMIT_FAILED", "SUPERSEDED"}
Timeline         == TerminalTimeline \cup {"VALIDATED", "GIT_COMMIT", "TRIGGERED"}
Error            == {"none", "FAILED", "SUPERSEDED", "DEADLINE"}

TriggerPc == {"new", "request", "publish", "queue", "queueWrite",
              "previous", "previousTimeline", "previousFail",
              "mark", "markTimeline", "done"}
ReleasePc == {"begin", "starting", "build", "progress", "progressWrite", "push",
              "sync", "install", "supersede", "supersedeWrite",
              "supersedeTimeline", "triggered", "error"}
WorkerPc  == ReleasePc \cup {"idle", "read", "validate", "mark", "markTimeline",
                             "check", "remove", "ack"}

Entry  == [runner : Deployment, owner : Worker]
Local  == [pc : WorkerPc, run : Deployment \cup {0}, msg : Deployment \cup {0},
           snap : Status, err : Error, previous : SUBSET Deployment,
           todo : SUBSET Deployment]
Idle   == [pc |-> "idle", run |-> 0, msg |-> 0, snap |-> "none", err |-> "none",
           previous |-> {}, todo |-> {}]

TypeOK ==
  /\ status   \in [Deployment -> Status]
  /\ timeline \in [Deployment -> SUBSET Timeline]
  /\ req      \in [Deployment -> Request \cup {0}]
  /\ pending  \subseteq Deployment /\ unacked \subseteq Deployment
  /\ trigger  \in [Deployment -> [pc : TriggerPc, previous : SUBSET Deployment]]
  /\ worker   \in [Worker -> Local]
  /\ entry    \in Entry \cup {NoEntry}
  /\ cancel   \in [Worker -> {"none", "live", "superseded", "nil", "deadline", "shutdown"}]
  /\ lock     \in Worker \cup {NoWorker}
  /\ deployed \in Deployment \cup {0}
  /\ cron     \in Deployment \cup {0}
  /\ boot \in BOOLEAN /\ stopping \in BOOLEAN
  /\ restarts \in 0..MaxRestarts /\ redeliveries \in 0..MaxRedeliveries

Init ==
  /\ status = [d \in Deployment |-> "none"]
  /\ timeline = [d \in Deployment |-> {}]
  /\ req = [d \in Deployment |-> 0]
  /\ pending = {} /\ unacked = {}
  /\ trigger = [d \in Deployment |-> [pc |-> "new", previous |-> {}]]
  /\ worker = [w \in Worker |-> Idle]
  /\ entry = NoEntry
  /\ cancel = [w \in Worker |-> "none"]
  /\ lock = NoWorker
  /\ deployed = 0
  /\ cron = 0
  /\ boot = FALSE /\ stopping = FALSE
  /\ restarts = 0 /\ redeliveries = 0

-----------------------------------------------------------------------------
(* Helpers on the rows. *)

HasTerminal(d) == timeline[d] \cap TerminalTimeline # {}

\* SaveTimelineIfNotAlreadyPresent and MarkPipelineStatusTimeline{Failed,
\* Superseded}: no timeline follows a terminal one.
Stamped(d, t) == IF HasTerminal(d) THEN timeline[d] ELSE timeline[d] \cup {t}
Stamp(d, t)   == timeline' = [timeline EXCEPT ![d] = Stamped(d, t)]

SetStatus(S, s) == status' = [d \in Deployment |-> IF d \in S THEN s ELSE status[d]]

Requested == {d \in Deployment : req[d] # 0}

\* IsLatestForPipelineId, GetLatestIdForPipeline
IsLatest(d) == \A e \in Requested : req[e] <= req[d]

-----------------------------------------------------------------------------
(* The trigger of deployment d: ManualCdTrigger, TriggerAutomaticDeployment. *)

TriggerAt(d, pc) == trigger[d].pc = pc
TriggerGoto(d, pc) == trigger' = [trigger EXCEPT ![d].pc = pc]

\* The runner row is inserted, ids follow the order of the inserts; then
\* validateDeploymentTriggerRequest may find the image vulnerable.
SaveRunner(d) ==
  /\ TriggerAt(d, "new")
  /\ \A e \in Deployment : e < d => ~TriggerAt(e, "new")
  /\ SetStatus({d}, "Initiating")
  /\ \/ TriggerGoto(d, "request")
     \/ "validation" \in Faults /\ TriggerGoto(d, "mark")
  /\ UNCHANGED <<timeline, req, nats, ctx, proc, worker, deployed, cron>>

\* handleCDTriggerRelease: one transaction saves the request and the timeline.
\* The id comes from a sequence, but transactions commit in any order.
SaveRequest(d) ==
  /\ TriggerAt(d, "request")
  /\ \E n \in Request : /\ \A e \in Deployment : req[e] # n
                        /\ req' = [req EXCEPT ![d] = n]
  /\ Stamp(d, "VALIDATED")
  /\ TriggerGoto(d, "publish")
  /\ UNCHANGED <<status, nats, ctx, proc, worker, deployed, cron>>

\* TriggerAsyncRelease: the message goes out BEFORE the runner is Queued.
Publish(d) ==
  /\ TriggerAt(d, "publish")
  /\ \/ /\ pending' = pending \cup {d}
        /\ unacked' = unacked \cup {d}
        /\ TriggerGoto(d, "queue")
     \/ /\ "publish" \in Faults
        /\ TriggerGoto(d, "mark")
        /\ UNCHANGED nats
  /\ UNCHANGED <<db, ctx, proc, worker, deployed, cron>>

\* UpdateNonTerminalStatusInRunner(Queued), its read ...
ReadForQueued(d) ==
  /\ TriggerAt(d, "queue")
  /\ TriggerGoto(d, IF status[d] \in Terminal THEN "previous" ELSE "queueWrite")
  /\ UNCHANGED <<db, nats, ctx, proc, worker, deployed, cron>>

\* ... and its write.
WriteQueued(d) ==
  /\ TriggerAt(d, "queueWrite")
  /\ SetStatus({d}, "Queued")
  /\ TriggerGoto(d, "previous")
  /\ UNCHANGED <<timeline, req, nats, ctx, proc, worker, deployed, cron>>

\* UpdatePreviousQueuedRunnerStatus: GetPreviousQueuedRunners,
ReadPreviousQueued(d) ==
  /\ TriggerAt(d, "previous")
  /\ LET queued == {e \in Deployment : e < d /\ status[e] = "Queued"} IN
       trigger' = [trigger EXCEPT ![d] =
         [pc |-> IF queued = {} THEN "done" ELSE "previousTimeline",
          previous |-> queued]]
  /\ UNCHANGED <<db, nats, ctx, proc, worker, deployed, cron>>

\* a superseded timeline for each,
StampPreviousQueued(d) ==
  /\ TriggerAt(d, "previousTimeline")
  /\ timeline' = [e \in Deployment |->
       IF e \in trigger[d].previous THEN Stamped(e, "SUPERSEDED") ELSE timeline[e]]
  /\ TriggerGoto(d, "previousFail")
  /\ UNCHANGED <<status, req, nats, ctx, proc, worker, deployed, cron>>

\* and UpdateRunnerStatusToFailedForIds, whatever their status is by then.
FailPreviousQueued(d) ==
  /\ TriggerAt(d, "previousFail")
  /\ SetStatus(trigger[d].previous, "Failed")
  /\ trigger' = [trigger EXCEPT ![d] = [pc |-> "done", previous |-> {}]]
  /\ UNCHANGED <<timeline, req, nats, ctx, proc, worker, deployed, cron>>

\* MarkCurrentDeploymentFailed by the trigger, which holds the row as inserted.
FailTrigger(d) ==
  /\ TriggerAt(d, "mark")
  /\ SetStatus({d}, "Failed")
  /\ TriggerGoto(d, "markTimeline")
  /\ UNCHANGED <<timeline, req, nats, ctx, proc, worker, deployed, cron>>

FailTriggerTimeline(d) ==
  /\ TriggerAt(d, "markTimeline")
  /\ Stamp(d, "FAILED")
  /\ TriggerGoto(d, "done")
  /\ UNCHANGED <<status, req, nats, ctx, proc, worker, deployed, cron>>

TriggerStep(d) ==
  \/ SaveRequest(d) \/ Publish(d)
  \/ ReadForQueued(d) \/ WriteQueued(d)
  \/ ReadPreviousQueued(d) \/ StampPreviousQueued(d) \/ FailPreviousQueued(d)
  \/ FailTrigger(d) \/ FailTriggerTimeline(d)

-----------------------------------------------------------------------------
(* A worker: a subscriber's callback, or the start-up goroutine. *)

At(w, pc)   == worker[w].pc = pc
\* (A release that is over forgets what it read and met: no later step uses it.)
Goto(w, pc) == worker' = [worker EXCEPT ![w] =
                 IF pc \in {"check", "ack"}
                 THEN [@ EXCEPT !.pc = pc, !.snap = "none", !.err = "none"]
                 ELSE [@ EXCEPT !.pc = pc]]
Run(w)      == worker[w].run

\* (Slip: arguments swapped.)
RaiseSwapped(w, err) == worker' = [worker EXCEPT ![w].pc = err, ![w].err = "error"]

\* A release that fails: the error, and then handleAsyncTriggerReleaseError.
Raise(w, err) == worker' = [worker EXCEPT ![w].pc = "error", ![w].err = err]

\* What a call returns whose context is cancelled.
ContextError(w) == IF cancel[w] = "deadline" THEN "DEADLINE" ELSE "SUPERSEDED"

\* What a release step may return: its own error, or the context's.
ReleaseError(w) ==
  (IF "release" \in Faults THEN {"FAILED"} ELSE {})
    \cup (IF cancel[w] = "live" THEN {} ELSE {ContextError(w)})

\* SubscribeDevtronAsyncInstallRequest and extractAsyncCdDeployRequestFromEventMsg:
\* the latest request of the pipeline, irrespective of the message.
Deliver(w, d) ==
  /\ At(w, "idle")
  /\ d \in pending
  /\ pending' = pending \ {d}
  /\ \E e \in Requested :
       /\ IsLatest(e)
       /\ worker' = [worker EXCEPT ![w] =
                       [Idle EXCEPT !.pc = "read", !.run = e, !.msg = d]]
  /\ UNCHANGED <<db, unacked, ctx, proc, trigger, deployed, cron>>

\* (Slip: only releases that had started are resumed.)
IncompleteStarted ==
  {d \in Requested : status[d] = "Starting" /\ "TRIGGERED" \notin timeline[d]}

\* (The first start-up found no request and is over in Init.)
\* ProcessIncompleteDeploymentReq: GetAllInCompleteRequests returns the latest
\* request among those neither terminal, Queued nor triggered.
Incomplete ==
  {d \in Requested : /\ status[d] \notin Terminal \cup {"Queued"}
                     /\ "VALIDATED" \in timeline[d]
                     /\ "TRIGGERED" \notin timeline[d]}

ProcessIncompleteDeploymentReq(w) ==
  /\ boot /\ At(w, "idle")
  /\ boot' = FALSE
  /\ \/ Incomplete = {} /\ UNCHANGED worker
     \/ \E d \in Incomplete :
          /\ \A e \in Incomplete : req[e] <= req[d]
          /\ worker' = [worker EXCEPT ![w] = [Idle EXCEPT !.pc = "read", !.run = d]]
  /\ UNCHANGED <<db, nats, ctx, stopping, restarts, redeliveries, trigger, deployed, cron>>

\* ProcessConcurrentAsyncDeploymentReq reads the runner, outside the mutex.
ReadRunner(w) ==
  /\ At(w, "read")
  /\ worker' = [worker EXCEPT ![w].pc = "validate", ![w].snap = status[Run(w)]]
  /\ UNCHANGED <<db, nats, ctx, proc, trigger, deployed, cron>>

\* validateConcurrentOrInvalidRequest, under the mutex: nothing to do for a
\* runner that is in process, terminal or Progressing, as far as the row read says.
NothingToDo(w) ==
  \/ entry # NoEntry /\ entry.runner = Run(w)
  \/ worker[w].snap \in Terminal \cup {"Progressing"}

SkipRequest(w) ==
  /\ At(w, "validate") /\ lock = NoWorker
  /\ NothingToDo(w)
  /\ Goto(w, "ack")
  /\ UNCHANGED <<db, nats, ctx, proc, trigger, deployed, cron>>

\* A request that is not the latest is marked failed with the mutex held.
RejectRequest(w) ==
  /\ At(w, "validate") /\ lock = NoWorker
  /\ ~NothingToDo(w) /\ ~IsLatest(Run(w))
  /\ lock' = w
  /\ worker' = [worker EXCEPT ![w].pc = "mark", ![w].err = "SUPERSEDED"]
  /\ UNCHANGED <<db, nats, entry, cancel, proc, trigger, deployed, cron>>

\* (Slip: the earlier release is not aborted.)
RegisterWithoutAbort(w) ==
  /\ entry' = [runner |-> Run(w), owner |-> w]
  /\ cancel' = [cancel EXCEPT ![w] = "live"]

\* UpdateReleaseContextForPipeline: the release in the map is aborted.
Register(w) ==
  /\ entry' = [runner |-> Run(w), owner |-> w]
  /\ cancel' = [v \in Worker |->
       IF v = w THEN "live"
       ELSE IF entry # NoEntry /\ entry.owner = v /\ cancel[v] = "live"
            THEN "superseded" ELSE cancel[v]]

ClaimRequest(w) ==
  /\ At(w, "validate") /\ lock = NoWorker
  /\ ~NothingToDo(w) /\ IsLatest(Run(w))
  /\ Register(w)
  /\ Goto(w, "begin")
  /\ UNCHANGED <<db, nats, lock, proc, trigger, deployed, cron>>

-----------------------------------------------------------------------------
(* ProcessDevtronAsyncInstallRequest and TriggerRelease, under the context. *)

\* The runner is read again (this copy is used on an error); for Helm
\* UpdateNonTerminalStatusInRunner reads it once more, to write Starting.
BeginRelease(w) ==
  /\ At(w, "begin")
  /\ worker' = [worker EXCEPT
       ![w].pc = IF AppType = "helm" /\ status[Run(w)] \notin Terminal
                 THEN "starting" ELSE "build",
       ![w].snap = status[Run(w)]]
  /\ UNCHANGED <<db, nats, ctx, proc, trigger, deployed, cron>>

WriteStarting(w) ==
  /\ At(w, "starting")
  /\ SetStatus({Run(w)}, "Starting")
  /\ Goto(w, "build")
  /\ UNCHANGED <<timeline, req, nats, ctx, proc, trigger, deployed, cron>>

\* (Slip: served requests are not skipped.)
BuildTriggerEventUnchecked(w) ==
  /\ At(w, "build")
  /\ IF "VALIDATED" \notin timeline[Run(w)] THEN Raise(w, "FAILED")
     ELSE \/ Goto(w, IF AppType = "helm" THEN "install"
                     ELSE IF "GIT_COMMIT" \in timeline[Run(w)] THEN "sync" ELSE "progress")
          \/ "release" \in Faults /\ Raise(w, "FAILED")
  /\ UNCHANGED <<db, nats, ctx, proc, trigger, deployed, cron>>

\* buildTriggerEventForOverrideRequest and BuildManifestForTrigger.
BuildTriggerEvent(w) ==
  LET rows == timeline[Run(w)] IN
  /\ At(w, "build")
  /\ IF "VALIDATED" \notin rows THEN Raise(w, "FAILED")
     ELSE IF HasTerminal(Run(w)) \/ "TRIGGERED" \in rows THEN Goto(w, "check")
     ELSE \/ Goto(w, IF AppType = "helm" THEN "install"
                     ELSE IF "GIT_COMMIT" \in rows THEN "sync" ELSE "progress")
          \/ "release" \in Faults /\ Raise(w, "FAILED")
  /\ UNCHANGED <<db, nats, ctx, proc, trigger, deployed, cron>>

\* UpdateNonTerminalStatusInRunner(Progressing): before the chart push of an
\* ArgoCD application, after the installation of a Helm one.
AfterProgress == IF AppType = "helm" THEN "supersede" ELSE "push"

ReadForProgressing(w) ==
  /\ At(w, "progress")
  /\ Goto(w, IF status[Run(w)] \in Terminal THEN AfterProgress ELSE "progressWrite")
  /\ UNCHANGED <<db, nats, ctx, proc, trigger, deployed, cron>>

WriteProgressing(w) ==
  /\ At(w, "progressWrite")
  /\ SetStatus({Run(w)}, "Progressing")
  /\ Goto(w, AfterProgress)
  /\ UNCHANGED <<timeline, req, nats, ctx, proc, trigger, deployed, cron>>

\* PushChart: its timelines are saved whatever timelines the runner has.  What
\* the commit itself does to the repository, which Argo CD may synchronise by
\* itself and after the commit of a newer release, is not in deployed.
PushChart(w) ==
  /\ At(w, "push")
  /\ \/ /\ timeline' = [timeline EXCEPT ![Run(w)] = @ \cup {"GIT_COMMIT"}]
        /\ Goto(w, "sync")
     \/ /\ timeline' = [timeline EXCEPT ![Run(w)] = @ \cup {"GIT_COMMIT_FAILED"}]
        /\ \E err \in ReleaseError(w) : Raise(w, err)
  /\ UNCHANGED <<status, req, nats, ctx, proc, trigger, deployed, cron>>

\* deployArgoCdApp
DeployArgoCdApp(w) ==
  /\ At(w, "sync")
  /\ \/ /\ cancel[w] = "live"
        /\ deployed' = Run(w)
        /\ Goto(w, "supersede")
     \/ /\ \E err \in ReleaseError(w) : Raise(w, err)
        /\ UNCHANGED deployed
  /\ UNCHANGED <<db, nats, ctx, proc, trigger, cron>>

\* createHelmAppForCdPipeline: the call to kubelink.
InstallHelmApp(w) ==
  /\ At(w, "install")
  /\ \/ /\ cancel[w] = "live"
        /\ deployed' = Run(w)
        /\ Goto(w, "progress")
     \/ /\ \E err \in ReleaseError(w) : Raise(w, err)
        /\ UNCHANGED deployed
  /\ UNCHANGED <<db, nats, ctx, proc, trigger, cron>>

\* SupersedePreviousDeployments: FindPreviousCdWfRunnerByStatus,
ReadPrevious(w) ==
  /\ At(w, "supersede")
  /\ LET previous == {e \in Deployment : e < Run(w) /\ status[e] \notin Terminal \cup {"none"}} IN
       worker' = [worker EXCEPT
         ![w].pc = IF previous = {} THEN "triggered" ELSE "supersedeWrite",
         ![w].previous = previous, ![w].todo = previous]
  /\ UNCHANGED <<db, nats, ctx, proc, trigger, deployed, cron>>

\* UpdateWorkFlowRunners, row by row and outside the transaction,
FailPrevious(w) ==
  /\ At(w, "supersedeWrite")
  /\ \E e \in worker[w].todo :
       /\ \A f \in worker[w].todo : f <= e
       /\ SetStatus({e}, "Failed")
       /\ worker' = [worker EXCEPT
            ![w].pc = IF worker[w].todo = {e} THEN "supersedeTimeline" ELSE @,
            ![w].todo = @ \ {e}]
  /\ UNCHANGED <<timeline, req, nats, ctx, proc, trigger, deployed, cron>>

\* (Slip: the timelines are not saved.)
StampPreviousSkipped(w) ==
  /\ At(w, "supersedeTimeline")
  /\ worker' = [worker EXCEPT ![w].pc = "triggered", ![w].previous = {}]
  /\ UNCHANGED <<db, nats, ctx, proc, trigger, deployed, cron>>

\* and the timelines, whatever timelines the runners have.
StampPrevious(w) ==
  /\ At(w, "supersedeTimeline")
  /\ timeline' = [e \in Deployment |->
       IF e \in worker[w].previous THEN timeline[e] \cup {"SUPERSEDED"} ELSE timeline[e]]
  /\ worker' = [worker EXCEPT ![w].pc = "triggered", ![w].previous = {}]
  /\ UNCHANGED <<status, req, nats, ctx, proc, trigger, deployed, cron>>

\* TriggerRelease ends with the timeline DEPLOYMENT_TRIGGERED.
StampTriggered(w) ==
  /\ At(w, "triggered")
  /\ Stamp(Run(w), "TRIGGERED")
  /\ Goto(w, "check")
  /\ UNCHANGED <<status, req, nats, ctx, proc, trigger, deployed, cron>>
-----------------------------------------------------------------------------
(* handleAsyncTriggerReleaseError, MarkCurrentDeploymentFailed. *)

HelmDeadline(w) == AppType = "helm" /\ worker[w].err = "DEADLINE"

\* (Slip: nothing is recorded when the context was cancelled, for any cause.)
IgnoreErrorAnyCause(w) ==
  /\ At(w, "error")
  /\ \/ cancel[w] # "live"
     \/ ~HelmDeadline(w) /\ worker[w].snap \in Terminal
  /\ Goto(w, "check")
  /\ UNCHANGED <<db, nats, ctx, proc, trigger, deployed, cron>>

\* Nothing is recorded when the server shuts down, nor for a runner that was
\* terminal when the release began.
IgnoreError(w) ==
  /\ At(w, "error")
  /\ \/ cancel[w] = "shutdown"
     \/ ~HelmDeadline(w) /\ worker[w].snap \in Terminal
  /\ Goto(w, "check")
  /\ UNCHANGED <<db, nats, ctx, proc, trigger, deployed, cron>>

\* A Helm release that ran into the deadline gets the status of the release on
\* the cluster; when that is no news, the deployment has failed.
RecordHelmDeadline(w) ==
  /\ At(w, "error") /\ cancel[w] # "shutdown" /\ HelmDeadline(w)
  /\ \E s \in Terminal \cup ({"Progressing"} \ {worker[w].snap}) :
       /\ SetStatus({Run(w)}, s)
       /\ IF s = "Failed"
            THEN \E err \in {"FAILED", "SUPERSEDED"} :
                   worker' = [worker EXCEPT ![w].pc = "markTimeline", ![w].err = err]
            ELSE Goto(w, "check")
  /\ UNCHANGED <<timeline, req, nats, ctx, proc, trigger, deployed, cron>>

RecordError(w) ==
  /\ At(w, "error") /\ cancel[w] # "shutdown" /\ ~HelmDeadline(w)
  /\ worker[w].snap \notin Terminal
  /\ Goto(w, "mark")
  /\ UNCHANGED <<db, nats, ctx, proc, trigger, deployed, cron>>

\* MarkCurrentDeploymentFailed writes the row it was given, and
MarkFailed(w) ==
  /\ At(w, "mark")
  /\ SetStatus({Run(w)}, "Failed")
  /\ Goto(w, "markTimeline")
  /\ UNCHANGED <<timeline, req, nats, ctx, proc, trigger, deployed, cron>>

\* (Slip: the mutex is not unlocked.)
MarkTimelineLocked(w) ==
  /\ At(w, "markTimeline")
  /\ Stamp(Run(w), IF worker[w].err = "SUPERSEDED" THEN "SUPERSEDED" ELSE "FAILED")
  /\ Goto(w, IF lock = w THEN "ack" ELSE "check")
  /\ UNCHANGED <<status, req, nats, ctx, proc, trigger, deployed, cron>>

\* a timeline; a rejected request gives the mutex back here.
MarkTimeline(w) ==
  /\ At(w, "markTimeline")
  /\ Stamp(Run(w), IF worker[w].err = "SUPERSEDED" THEN "SUPERSEDED" ELSE "FAILED")
  /\ Goto(w, IF lock = w THEN "ack" ELSE "check")
  /\ lock' = IF lock = w THEN NoWorker ELSE lock
  /\ UNCHANGED <<status, req, nats, entry, cancel, proc, trigger, deployed, cron>>

-----------------------------------------------------------------------------
(* cleanUpDevtronAppReleaseContextMap, the acknowledgement. *)

CancelEntry(cause) ==
  /\ entry' = NoEntry
  /\ cancel' = [v \in Worker |->
       IF entry # NoEntry /\ entry.owner = v /\ cancel[v] = "live" THEN cause ELSE cancel[v]]

\* (Slip: the entry is taken for one's own, whatever its runner.)
CheckEntryAnyRunner(w) ==
  /\ At(w, "check") /\ lock = NoWorker
  /\ Goto(w, IF entry # NoEntry THEN "remove" ELSE "ack")
  /\ UNCHANGED <<db, nats, ctx, proc, trigger, deployed, cron>>

CheckEntry(w) ==
  /\ At(w, "check") /\ lock = NoWorker
  /\ Goto(w, IF entry # NoEntry /\ entry.runner = Run(w) THEN "remove" ELSE "ack")
  /\ UNCHANGED <<db, nats, ctx, proc, trigger, deployed, cron>>

RemoveEntry(w) ==
  /\ At(w, "remove") /\ lock = NoWorker
  /\ CancelEntry("nil")
  /\ Goto(w, "ack")
  /\ UNCHANGED <<db, nats, lock, proc, trigger, deployed, cron>>

\* The message is acknowledged after the callback, whatever it returned.
Acknowledge(w) ==
  /\ At(w, "ack")
  /\ unacked' = unacked \ {worker[w].msg}
  /\ worker' = [worker EXCEPT ![w] = Idle]
  /\ UNCHANGED <<db, pending, ctx, proc, trigger, deployed, cron>>

\* context.WithTimeout of the release
DeadlineExceeded(w) ==
  /\ "deadline" \in Faults /\ Run(w) \in Slow
  /\ cancel[w] = "live"
  /\ cancel' = [cancel EXCEPT ![w] = "deadline"]
  /\ UNCHANGED <<db, nats, entry, lock, proc, trigger, worker, deployed, cron>>

WorkerStep(w) ==
  \/ ReadRunner(w) \/ SkipRequest(w) \/ RejectRequest(w) \/ ClaimRequest(w)
  \/ BeginRelease(w) \/ WriteStarting(w) \/ BuildTriggerEvent(w)
  \/ ReadForProgressing(w) \/ WriteProgressing(w)
  \/ PushChart(w) \/ DeployArgoCdApp(w) \/ InstallHelmApp(w)
  \/ ReadPrevious(w) \/ FailPrevious(w) \/ StampPrevious(w) \/ StampTriggered(w)
  \/ IgnoreError(w) \/ RecordHelmDeadline(w) \/ RecordError(w)
  \/ MarkFailed(w) \/ MarkTimeline(w)
  \/ CheckEntry(w) \/ RemoveEntry(w) \/ Acknowledge(w)

-----------------------------------------------------------------------------
(* The environment: redelivery, the status cron, shutdown, restart. *)

\* AckWait has passed: the message is delivered again.
Redeliver(d) ==
  /\ redeliveries < MaxRedeliveries
  /\ d \in unacked \ pending
  /\ pending' = pending \cup {d}
  /\ redeliveries' = redeliveries + 1
  /\ UNCHANGED <<db, unacked, ctx, boot, stopping, restarts, trigger, worker, deployed, cron>>

\* CheckHelmAppStatusPeriodicallyAndUpdateInDb: the latest trigger that is not
\* Queued, when it is Progressing ...
CronRead(d) ==
  /\ "cron" \in Faults /\ AppType = "helm" /\ cron = 0
  /\ status[d] = "Progressing"
  /\ \A e \in Deployment : e > d => status[e] \in {"none", "Queued"}
  /\ cron' = d
  /\ UNCHANGED <<db, nats, ctx, proc, trigger, worker, deployed>>

\* ... gets the status of the release on the cluster, or keeps its own.
CronWrite ==
  /\ cron # 0
  /\ \/ \E s \in Terminal : SetStatus({cron}, s)
     \/ UNCHANGED status
  /\ cron' = 0
  /\ UNCHANGED <<timeline, req, nats, ctx, proc, trigger, worker, deployed>>

\* App.Stop: the contexts are cancelled; subscriptions and requests go on until
\* the process exits (PubSubClientServiceImpl.ShutDown does nothing).
ShutDownDevtronAppReleaseContext ==
  /\ "shutdown" \in Faults
  /\ ~stopping /\ restarts < MaxRestarts /\ lock = NoWorker
  /\ stopping' = TRUE
  /\ CancelEntry("shutdown")
  /\ UNCHANGED <<db, nats, lock, boot, restarts, redeliveries, trigger, worker, deployed, cron>>

\* The process exits, shut down or killed, and a new one starts.  Messages that
\* are not acknowledged come back.
Restart ==
  /\ restarts < MaxRestarts
  /\ restarts' = restarts + 1
  /\ boot' = TRUE /\ stopping' = FALSE
  /\ trigger' = [d \in Deployment |->
       IF TriggerAt(d, "new") THEN trigger[d] ELSE [pc |-> "done", previous |-> {}]]
  /\ worker' = [w \in Worker |-> Idle]
  /\ entry' = NoEntry /\ lock' = NoWorker
  /\ cancel' = [w \in Worker |-> "none"]
  /\ pending' = unacked
  /\ cron' = 0
  /\ UNCHANGED <<db, unacked, redeliveries, deployed>>

Next ==
  \/ \E d \in Deployment : SaveRunner(d) \/ TriggerStep(d) \/ Redeliver(d) \/ CronRead(d)
  \/ \E w \in Worker, d \in Deployment : Deliver(w, d)
  \/ \E w \in Worker : \/ ProcessIncompleteDeploymentReq(w) \/ WorkerStep(w)
                       \/ DeadlineExceeded(w)
  \/ CronWrite
  \/ ShutDownDevtronAppReleaseContext
  \/ Restart

Spec == Init /\ [][Next]_vars

\* What started goes on: a trigger runs on, a message waiting for delivery is
\* delivered, a callback and the start-up goroutine run on (calls made with the
\* release context end with it, and it has a deadline).  Nothing makes a user
\* trigger, a deadline expire, a process stop or a message come twice.
Fairness ==
  /\ \A d \in Deployment : WF_vars(TriggerStep(d))
  /\ WF_vars(\E w \in Worker, d \in Deployment : Deliver(w, d))
  /\ WF_vars(\E w \in Worker : ProcessIncompleteDeploymentReq(w))
  /\ \A w \in Worker : WF_vars(WorkerStep(w))
  /\ WF_vars(CronWrite)

FairSpec == Spec /\ Fairness

\* A server that shuts down exits, and is started again.
ServerSpec == FairSpec /\ WF_vars(stopping /\ Restart)

-----------------------------------------------------------------------------
(* What the pipeline promises. *)

Served(d) == HasTerminal(d) \/ "TRIGGERED" \in timeline[d]

\* From ClaimRequest to the clean-up.
InRelease(w) ==
  lock # w /\ ~\E pc \in {"idle", "read", "validate", "check", "remove", "ack"} : At(w, pc)

\* ReleaseContext, seen from here: one pipeline, runners named by their request.
ContextPhase(w) ==
  IF InRelease(w) THEN "release"
  ELSE IF At(w, "check") \/ At(w, "remove") THEN worker[w].pc
  ELSE "idle"

RC == INSTANCE ReleaseContext WITH
  Pipeline <- {"pipeline"},
  Runner <- Request,
  PipelineOf <- [n \in Request |-> "pipeline"],
  NoRunner <- 0,
  saved <- {req[d] : d \in Requested},
  ctxMap <- [p \in {"pipeline"} |->
               IF entry = NoEntry THEN NoEntry
               ELSE [runner |-> req[entry.runner], owner |-> entry.owner]],
  phase <- [w \in Worker |-> ContextPhase(w)],
  run <- [w \in Worker |-> IF ContextPhase(w) = "idle" THEN 0 ELSE req[worker[w].run]]

\* The workers use the map as ReleaseContext says, whatever database reads and
\* writes of triggers, crons and other workers come in between.
ImplementsReleaseContext == RC!Spec

\* Releases of a Helm pipeline reach the cluster in the order of the requests: one
\* that is superseded never lands after its successor.  For Argo CD, deployed
\* follows the calls of deployArgoCdApp only, not the commits (see PushChart).
ReleasesInOrder ==
  [][deployed' # deployed /\ deployed # 0 => req[deployed] < req[deployed']]_vars

\* A release that is over is not repeated, however often its runner is taken up
\* again by other messages or redeliveries: the status, read before the mutex,
\* may be old, and the timelines stop what passes it.
FinishedIsNotRepeated ==
  [][\A w \in Worker :
       (At(w, "build") /\ worker'[w].pc \in {"install", "sync", "progress"} /\ deployed = Run(w))
         => \E v \in Worker \ {w} : InRelease(v) /\ Run(v) = Run(w)]_vars

\* While the process lives, the latest request of the pipeline is never dropped:
\* it is released, or marked failed or superseded in its timeline, whichever
\* messages were taken for it. A runner in Slow promises nothing of its own (past
\* its deadline a Helm release is left to the status cron), yet it may not hold
\* up the others.
LatestIsServed ==
  \A d \in Deployment \ Slow :
    req[d] # 0 ~> Served(d) \/ (\E e \in Requested : req[e] > req[d])

\* Nothing is under way: no trigger, message, callback, cron or start-up.
AtRest ==
  /\ ~boot /\ ~stopping /\ pending = {} /\ unacked = {} /\ cron = 0
  /\ \A d \in Deployment : trigger[d].pc \in {"new", "done"}
  /\ \A w \in Worker : At(w, "idle")

\* The same when releases, publishing and validation fail and deadlines pass,
\* seen once all has come to rest.
LatestServedAtRest ==
  AtRest => \A d \in Requested : IsLatest(d) => Served(d)

\* A runner that was marked failed has a timeline that says why: the two are
\* written apart, by up to four writers of one row.
FailedHasTimeline ==
  AtRest => \A d \in Deployment : status[d] = "Failed" => HasTerminal(d)

\* A Helm release survives a crash: wherever the process stopped, the latest
\* request is served, on the cluster or settled when all has come to rest. (One
\* crash, and no message twice before it: a copy taken while the request is in process
\* is acknowledged at once, and a crash then finds the runner Queued and leaves it.)
LatestSurvivesCrash ==
  AtRest => \A d \in Requested :
    IsLatest(d) => Served(d) \/ deployed = d \/ status[d] \in Terminal

\* The message of ErrorDeploymentSuperseded, "A new deployment was initiated
\* before this deployment completed!", is given to a deployment only then.
SupersededByNewer ==
  \A w \in Worker :
    (At(w, "markTimeline") /\ worker[w].err = "SUPERSEDED")
      => \E e \in Requested : req[e] > req[Run(w)]

\* The comment "if the current cdWfr status is already a terminal status and then
\* don't update the status e.g: Status : Failed --> Progressing (not allowed)".
TerminalIsFinal ==
  [][\A d \in Deployment : status[d] \in Terminal => status'[d] \in Terminal]_status

\* The comment "for context cancellation due to error.ServerShutDown, the new
\* instance should pick the unfinished process and execute further" (a release
\* that a shutdown interrupted, not superseded and not settled in between).
UnfinishedIsResumed ==
  \A d \in Deployment :
    (\E w \in Worker : At(w, "error") /\ cancel[w] = "shutdown" /\ Run(w) = d)
      ~> \/ \E w \in Worker : cancel[w] = "live" /\ Run(w) = d
         \/ status[d] \in Terminal
         \/ \E e \in Requested : req[e] > req[d]

=============================================================================
