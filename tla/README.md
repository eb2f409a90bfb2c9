# Verification of the devtron orchestrator

TLA+ models, TLC runs and TLAPS proofs for the core of devtron: how a build moves
through the CD pipelines of an application, the asynchronous deployment of one of
them, the execution of a pre or post stage, and the requests that change what users
may do. Source paths are relative to `src/`.

Contents: [1 The system](#1-the-system) · [2 Hazards](#2-hazards) ·
[3 The modules](#3-the-modules) · [4 The runs](#4-the-runs) ·
[5 Fairness](#5-fairness) · [6 The proofs](#6-the-proofs) ·
[7 What the code does against its words](#7-what-the-code-does-against-its-words) ·
[8 Abstractions and limits](#8-abstractions-and-limits) · [9 Plan](#9-plan)

Running it, in this directory:

    tlc -workers 2 -config ReleaseContext.cfg MCReleaseContext.tla
    tlc -workers 2 -config AsyncDeploy_argo.cfg MCAsyncDeploy.tla     # and the other AsyncDeploy_*.cfg
    tlc -workers 2 -config StageRunner.cfg MCStageRunner.tla
    tlc -workers 2 -config WorkflowDag.cfg MCWorkflowDag.tla
    tlc -workers 2 -config UserAccess.cfg MCUserAccess.tla
    tlapm ReleaseContextProofs.tla                                    # and the other *Proofs.tla

## 1 The system

The orchestrator is one Go process in front of a PostgreSQL database, a NATS
JetStream, and external systems: kubelink (Helm), Argo CD, Git hosts, the
Kubernetes API. HTTP handlers, NATS callbacks, crons and start-up goroutines run
concurrently and meet in database rows and in a few in-memory maps.

| Component | State | Operations | Hard behaviour | Correct when |
|---|---|---|---|---|
| **Release context map** (`pkg/eventProcessor/in/WorkflowEventProcessorService.go`) | `devtronAppReleaseContextMap`: per pipeline the cancel functions of the release in progress, its runner; a mutex | claim, clean-up (two critical sections), removal on pipeline deletion, shutdown; deadlines | workers of one pipeline in any order, a clean-up that meets a newer claim, lost entries, leaked contexts | a live context is registered, alone and the newest; entries do not outlive workers; every context is cancelled in the end |
| **Asynchronous CD deployment** (`pkg/deployment/trigger/devtronApps/deployStageHandlerCode.go`, `pkg/workflow/dag/WorkflowDagExecutor.go`, `pkg/workflow/cd/CdWorkflowCommonService.go`) | rows of `cd_workflow_runner`, `pipeline_status_timeline`, `user_deployment_request`; messages | trigger, publish, deliver, validate, release, supersede, mark failed, acknowledge, resume | reads and writes of a row in separate statements by up to four writers; duplicates; crash and shutdown; cancelled releases | Helm releases land in order; the latest request is served; failures leave a reason; nothing is repeated |
| **Status crons, Argo CD status events** (`pkg/workflow/status/WorkflowStatusService.go`, `pkg/app/AppService.go`, `pkg/eventProcessor/in/DeployedApplicationEventProcessorService.go`, `CDPipelineEventProcessorService.go`) | the same rows | periodic read, write back; events of applications | a row read before a remote call and written after it; two topics about one application | a healthy application is recorded as succeeded and followed up |
| **CI/CD workflow DAG** (`pkg/workflow/dag/WorkflowDagExecutor.go`, `.../preStageHandlerCode.go`, `.../postStageHandlerCode.go`) | artifacts, workflows, runners of three stages | a build or a finished stage triggers what follows it; a user triggers a stage | repeated and late events, failing children, a crash in the middle of a fan-out | each success triggers what follows it, once, with its image, and nothing else does |
| **Stage execution and stage status** (`pkg/pipeline/workflowStatus`, `pkg/workflow/cd/CdWorkflowRunnerService.go`, `pkg/pipeline/CdHandler.go`, `.../prePostWfAndLogsCode.go`) | a runner's status, pod status and three stage rows; its retries | status event, report of the ci-runner, retry, cancellation | whole-row writes from stale reads by two topics and a user | the rows settle, terminal statuses stay, retries are bounded |
| **Casbin enforcer cache** (`pkg/auth/authorisation/casbin/rbac.go`) | decisions per user; reader counter and cleaning flag per user | enforce (cached or not), in batches, invalidate | a decision computed before an invalidation and stored after it | nothing stale is stored; the flag is lowered in the end |
| **User access requests** (`pkg/auth/user/UserService.go`, `UserCommonService.go`, `pkg/auth/authorisation/casbin/Adapter.go`) | a set of locked user ids, rows of users and roles, Casbin's policies | update, delete | policies change in the middle of a transaction that may roll back; deletions take no lock | one update per user at a time; rows and policies agree |
| **Server-sent events broker** (`api/sse/*.go`) | connections, unbuffered channels | register, unregister, broadcast, shut down | handlers, processors and broker wait for each other | no goroutine waits for ever; nothing is closed twice |
| **Cluster terminal sessions** (`pkg/clusterTerminalAccess/UserTerminalAccessService.go`, `pkg/terminal/terminalSesion.go`) | a session map, pods, rows | start, update, disconnect, status cron | map read, cluster call, map write | no pod without a session, no session without a row |
| **Log stream connector** (`api/connector/Connector.go`) | one HTTP response | heartbeat and stream goroutines | two writers of one response | events whole and in order |
| **RBAC default data cache** (`pkg/auth/user/repository/RbacDataCacheFactory.go`) | a map | sync, read | replaced while it is read | readers see one version |
| **App store deployments** (`pkg/appStore/installedApp/service`) | installed app versions and their history | install, upgrade, delete | bulk deployment over NATS | the status history ends where the release does |
| **Git operations** (`pkg/deployment/gitOps`) | clones and remote repositories | commit, push, retry | conflicting pushes | a push is there or is an error |

Components that are CRUD, pure resolution of values, clients of external systems
or vendored code are listed in `PROJECT.json` with the reason they are left out.

**How they meet.** A trigger (HTTP handler or DAG) inserts a runner, saves a
deployment request and publishes a message. A subscriber takes the *latest*
request of the pipeline, whichever message it got, claims the pipeline in the
release context map (cancelling the release it finds there), releases through
kubelink or Git and Argo CD, supersedes older runners, and cleans the map up. The
status cron and the Argo CD events later move the runner to a terminal status,
and a success triggers the post stage and child pipelines. The runner of a pre or
post stage is moved by status events of its pod and by reports of the ci-runner; a
reported success is handed to the DAG. Every request of the API asks the enforcer
cache, and the requests that change users invalidate it. `App.Stop` cancels
what is in the map; the next process resumes the latest incomplete request of
each pipeline.

## 2 Hazards

`PROJECT.json` lists each at its line, with the properties that would catch it.
The families: check and write of a runner's status in two statements
(`CdWorkflowCommonService.go:223`); the clean-up's two critical sections
(`WorkflowEventProcessorService.go:1101`); the message published before the runner
is Queued (`deployStageHandlerCode.go:592`); runner ids and request ids in opposite
orders (`CdWorkflowCommonService.go:238`); status rows written outside the
transaction of their timelines (`:141`); redeliveries that validate against a row
read before the mutex (`WorkflowEventProcessorService.go:1008`); crash recovery
that depends on the status (`:1052`); the cron's stale row
(`WorkflowStatusService.go:157`); a mutex held across database calls
(`WorkflowEventProcessorService.go:1070`); two observers of one application
(`AppService.go:623`) and a status written without a look at it (`:942`); a crash or a
newer deployment between a timeline and a status (`:624`, `:319`); messages dropped when they come again
(`CdWorkflowCommonService.go:290`); loops over children that stop at the first error
(`WorkflowDagExecutor.go:917`); workflows with several runners of a stage
(`CdWorfkflowRepository.go:559`); stage rows computed from a stale runner
(`CdWorkflowRunnerService.go:151`) and retried stages (`WorkflowDagExecutor.go:400`);
decisions cached after an invalidation (`rbac.go:440`), policies outside the
transaction of their rows (`UserService.go:864`), policies that fail one by one
(`Adapter.go:182`) and reloads over them (`UserService.go:918`). Hazards without a property are
listed with the reason.

## 3 The modules

| Module | What it is |
|---|---|
| `ReleaseContext` | specification of the map: one action per critical section |
| `MCReleaseContext` | its instance for TLC |
| `ReleaseContextProofs` | its safety, proved for every instance |
| `AsyncDeploy` | the deployment of one pipeline, from the trigger to the acknowledgement, with crons, shutdown and restart; implements `ReleaseContext` |
| `MCAsyncDeploy` | its instances for TLC |
| `AsyncDeployProofs` | types, the refinement, the order of releases; failures are explained, the latest request is served and survives a kill, what is over is not repeated |
| `Promotion` | what an application workflow promises: which run of a stage may follow which success, with which image |
| `WorkflowDag` | the event handlers that trigger builds' and stages' successors, the observers of Argo CD applications, users, crashes; implements `Promotion` |
| `MCWorkflowDag`, `WorkflowDagProofs` | its instance; types, "deployed once", "triggered once" and the refinement, proved for every instance |
| `WorkflowStages` | the status rows of a stage as operators: what an event, a report or a cancellation makes of them |
| `WorkflowRestProofs` | at rest no success is left without what it triggers and no healthy deployment without its status, proved over `WorkflowDagProofs` |
| `StageRunner` | the runners of a stage and its retries, with everything that writes to them |
| `MCStageRunner`, `StageRunnerProofs` | its instance; types, the bound of retries, terminal statuses, proved for every instance |
| `StageRetryProofs` | which deleted stages are retried and which are not, and what an ended stage comes to, proved over `StageRunnerProofs` |
| `AccessTypes` | constants shared by the next two |
| `EnforcerCache` | single and batched decisions, invalidations and the cache between them |
| `UserAccess` | updates and deletions of users, over the cache; implements `EnforcerCache` |
| `MCUserAccess`, `EnforcerCacheProofs`, `UserAccessProofs` | the instance and the proofs: the cache; the users' lock, rows and policies |

### ReleaseContext

`ctxMap[p]` is the map's entry: the runner and the worker whose context its cancel
functions cancel. `cancel[w]` is the context of worker `w`: `"live"`, or the cause
of its first cancellation, as `context.CancelCauseFunc` keeps it. `phase` and `run`
place a worker between its critical sections. Runners are named by the id of their
request, which is what "latest" compares.

| Action | Code |
|---|---|
| `SaveNewDeployment` | `UserDeploymentRequestRepository.Save`; ids need not appear in order |
| `Claim` | `getDevtronAppReleaseContextWithLock`: `validateConcurrentOrInvalidRequest` and `UpdateReleaseContextForPipeline` in one critical section |
| `Return`, `CleanUpCheck`, `CleanUpRemove` | the release returns; `cleanUpDevtronAppReleaseContextMap` asks whether the entry is its own in one section, cancels and deletes whatever is there in the next |
| `DeadlineExceeded` | the timeout of the context (`getTimeOutByDeploymentType`) |
| `RemoveReleaseContextForPipeline`, `ShutDownDevtronAppReleaseContext`, `Restart` | pipeline deletion, `App.Stop`, process exit |

### AsyncDeploy

An action is one database statement or transaction, one critical section of the
map's mutex, or one external call. `status`, `timeline` and `req` are the rows;
`pending` and `unacked` the messages; `trigger[d]` and `worker[w]` the program
counters and local variables of the handlers and of the subscriber goroutines;
`entry`, `cancel` and `lock` the map (of the one pipeline), the contexts, and the
mutex where it is kept across database calls; `deployed` is what the cluster runs.

| Actions | Code |
|---|---|
| `SaveRunner` … `FailTriggerTimeline` | `ManualCdTrigger`, `TriggerAutomaticDeployment`, `handleCDTriggerRelease`, `TriggerAsyncRelease`, `UpdateNonTerminalStatusInRunner`, `UpdatePreviousQueuedRunnerStatus`, `MarkCurrentDeploymentFailed` |
| `Deliver`, `ProcessIncompleteDeploymentReq` | a message, or start-up, gives a worker the latest (incomplete) request |
| `ReadRunner` … `ClaimRequest` | `ProcessConcurrentAsyncDeploymentReq`: the row is read before the mutex, used under it |
| `BeginRelease` … `StampTriggered` | `ProcessDevtronAsyncInstallRequest`, `TriggerRelease`: Helm goes build, install, Progressing; Argo CD goes build, Progressing, push, sync; then `SupersedePreviousDeployments` and the timeline |
| `IgnoreError` … `MarkTimeline` | `handleAsyncTriggerReleaseError`, and the rejection of a request with the mutex held |
| `CheckEntry`, `RemoveEntry`, `Acknowledge` | clean-up, acknowledgement |
| `Redeliver`, `CronRead`, `CronWrite`, `DeadlineExceeded`, `ShutDownDevtronAppReleaseContext`, `Restart` | the environment |

`ImplementsReleaseContext` is `RC!Spec` under the mapping at the end of the module:
one pipeline, a runner seen as its request id, and of a worker only whether it is in
its release, in one of the two clean-up sections, or idle.

### WorkflowDag

`artifact`, `workflow`, `runner` and `override` are the tables, as sequences of rows
that are never deleted; `queue` and `handler` are the topics and the callback (or the
user's request) each worker is in, with the list `todo` of triggers it still has to
make. An image is a build and the plugins that copied it, so that "the right image" can
be stated. `app`, `running` and `succeeded` are the clusters. An action is one database
statement or transaction, or one call that creates something on a cluster.

| Actions | Code |
|---|---|
| `Take`, `Redeliver`, `Crash` | delivery; a message that comes again is validated by `GetTriggerValidateFuncs` |
| `HandleCiSuccess`, `ReportStage`, `SaveCopies`, `AfterDeployment` | `HandleCiSuccessEvent`, `handleCDStageCompleteEvent`, `HandlePreStageSuccessEvent` and `HandlePostStageSuccessEvent`, `HandleDeploymentSuccessEvent` |
| `Skip`, `Create`, `SubmitStage`, `Release`, `SubmitFails` | `triggerIfAutoStageCdPipeline`, `TriggerPreStage`, `TriggerAutomaticDeployment`, `TriggerPostStage`, `ManualCdTrigger` |
| `FetchApp`, `CheckApp`, `SaveTimeline`, `RecheckApp`, `WriteStatus` | `UpdatePipelineTimelineAndStatusByLiveApplicationFetch`, `UpdateDeploymentStatusForGitOpsPipelines`, `UpdateCdWorkflowRunnerByACDObject` |
| `RetryStage`, `SyncByCron`, `UserTriggers` | `HandleCdStageReTrigger` (taken apart in `StageRunner`), the Argo CD cron, the HTTP handlers |

`Promotion` keeps three sets of runs (pipeline, stage, image): those that started by
themselves, those that a user started, those that succeeded. `ImplementsPromotion` maps
rows to runs, `succeeded` to what the *cluster* has really finished.

### StageRunner

`row` is the runner in the database, with the pod status and the three stage rows of
`WorkflowStages`; `job` is what the workers of the two topics and the user who cancels
are doing: read, compute and write of a runner are separate steps (`StartUpdate`,
`ComputeStages`, `WriteRow`), as are the re-read, the count, the creation and the
submission of a retry. `pod` and `report` are the cluster's side. Histories: `torn` are
runners written by somebody who had not seen an earlier write, `dropped` those whose
retry a failure or a crash gave up. `RetryFails` is a retry that ends before its runner is
created, or after it by an error nobody records; the runner then stays and counts.

### EnforcerCache and UserAccess

A step is a critical section of the user's `CacheData` lock or one call of Casbin.
`counter` and `flag` are `enforceReqCounter` and `cacheCleaningFlag`; `req` the requests
in flight, a batch with the verdicts it has collected. Whoever changes policies is an
`Editor`; `edit[e]` are the users it has still to invalidate and `owed` those whose policies
changed where nobody invalidates them: `GiveUp` is a panic of Casbin, which the code
recovers above the invalidation, and `ChangePolicy` may change users that are not named
in it. A batch is dealt to `BatchSize` goroutines in equal slices (`Sliced`), and the
remainder is in none of them.

`UserAccess` puts the handlers of `UpdateUser` and `DeleteUser` in the editors' place
(`PendingEdit`) and adds the lock per user, the rows and their transaction, and Casbin:
its table (`stored`), the rules of its model (`rules`) and the links it decides by
(`grants`), for either version (`casbinVersion`).

| Actions | Code |
|---|---|
| `UpdateUser`, `lockUserReqState`, `unlockUserReqState` | the lock of `UpdateUser` |
| `ReadTable`, `LoadPolicy` | `casbin.LoadPolicy` before the roles are read and after the commit; in two critical sections with version 2 |
| `ReadRoles`, `DeleteRows`, `CheckRBAC`, `WriteRow`, `Commit`, `Rollback` | the transaction; policies of roles already held are added again |
| `RemovePolicy`, `AddPolicy`, `PoliciesDone` | the loops of `Adapter.go` and the invalidation after each |
| `DeleteUser`, `GetUserRoleMappingIds`, `GetRolesForUser`, `DeleteRoleForUser`, `InvalidateDeleted` | `DeleteUser`, `deleteUserCasbinPolices` |

`Write` and `WriteFails` are Casbin's own code (vendored). Version 1, the default, changes
its rules, then its table, then rebuilds all links; when the table fails it panics in
between, `handlePanic` recovers in `AddPolicy` or `RemovePolicy`, and the other policies
and the invalidation are skipped (`PolicyFails`). Version 2 writes the table first, and a
failure changes nothing and stops nothing. `scar` is a history: `"overlap"` when a deletion
overlapped an update; `"torn"` when a write failed, a step after the first change in
Casbin failed and the transaction was rolled back, or a reload changed what the user had.

Definitions marked "(Slip: …)" or "Mutant: …" are plausible mistakes; no action uses them. They
are substituted for the definition after them to show that a property notices.

## 4 The runs

`MCReleaseContext`: three workers (a release, the newer one that replaces it and a
third that replaces that one or cleans up), two pipelines (no entry is taken for
another's) and three requests (two of one pipeline, in either order).

`MCAsyncDeploy`: two deployments with two request ids, handed out in any order, and
two workers. Two is where the races are: a release and its successor, a runner and
the runner it supersedes, a message and its duplicate; a third deployment repeats a
pair, and the proofs of section 6 hold for any number. `MaxRestarts` is at most 1
and `MaxRedeliveries` at most 1. For `ad_shutdown` that is no loss, as what it checks
is proved for any number of restarts. For `ad_crash` it is a restriction of the question:
`LatestSurvivesCrash` does not hold with two restarts, with a redelivery before the
first, with deadlines or with a shutdown (section 7); for one kill it is proved with any
other faults. `Faults` names what
may fail in each run, so that each question has the faults it needs; `Slow` names the
runners that a deadline may hit: both, and in `ad_live` the older one, for which the
run then asks nothing. The bounded runs
may stop when all requests are processed: `CHECK_DEADLOCK FALSE`; the map's run does
check for deadlock.

| Run | Asks | Bounds |
|---|---|---|
| `rc_map` | live contexts are registered, alone, the newest; entries have workers; every context is released | 3 workers, 3 requests, 2 pipelines, no bound on shutdowns, deletions, restarts |
| `ad_argo` | at rest, the latest request is served and each failed runner has a timeline that says why | Argo CD; validation, publishing, release, deadline fail |
| `ad_repeat` | a release that is over is not repeated | Helm; one redelivery; the cron |
| `ad_crash` | the latest request survives one kill, at any point | Helm; one restart; publishing fails |
| `ad_shutdown` | releases land in order; the deployment implements `ReleaseContext` | Helm; shutdown and restart |
| `ad_live` | every request is served or overtaken | Helm; the older release may meet its deadline; under `FairSpec` |
| `workflow_dag` | each success triggers what follows it, once, with its image; healthy is recorded | one build, four pipelines; see below |
| `stage_runner` | a stage and its retries settle, statuses stay, retries are bounded | one retry, one disturbance |
| `user_access` | the cache agrees when nobody is being served, with the exceptions `owed` records; a batch leaves out only the remainder of its slices; updates exclude each other; rows and policies agree | one user, three items, two handlers, a request and a batch, any two at a time; either version of Casbin |
| `ad_final`, `ad_resume`, `ad_superseded` | statements of comments and messages that the code does not keep: section 7 | |

`MCWorkflowDag`: the CI pipeline feeds `qa` (a deployment, nothing else) and `test` (pre
and post stage); `test` feeds `prod` (a pre stage that waits for a user) and `live`. So
every kind of successor occurs, each fan-out has two branches, one automatic and one
not, and both stages that copy an image do so before something deploys it. One build is
enough because handlers of different builds share only the order of deployments of a
pipeline, and users' deployments give a pipeline a second one. `Faults` gives each kind
of interference a weight and `MaxFaults` = 3 bounds their sum: three crashes,
redeliveries and failing triggers in any mixture, one of them with a repeated or forced
look at an application, or one retry or one user. One worker per topic is the shipped
value of `NATS_MSG_PROCESSING_BATCH_SIZE`. The run stops when nothing is left to do.

`MCStageRunner`: the stage, its retry, one runner for each status worker more, one
worker per topic as shipped; one disturbance (a cancellation, a repeated event, a
redelivery, a restart, a timeout, a failing retry), as each is a race with the three
writers that run anyway. Users cancel only the first runner (`Cancellable`); its retry
is written by the same handlers.

`MCUserAccess`: two handlers race for the lock, or one updates while the other deletes;
a decision and a batch are in flight around them. `MaxServed` = 2 lets any two of the four
be served together, each of them any number of times: each hazard here is a race of two.
`Wanted` are the role sets updates ask for, none or two roles, so that both loops over
policies have a first and a second iteration; `FailsAgain` = FALSE lets Casbin's table fail
once for a user that is not torn, after which all properties but the cache's exempt it.
A batch asks about three items (`Asked`), one of which nobody may have, and `BatchSize` is
2, so that slices leave a remainder; the shipped value of `ENFORCER_MAX_BATCH_SIZE` is 1,
where there is none. The proofs of section 6 need none of these bounds.

What the properties are for:

- `LiveIsRegistered`, `LiveIsNewest`, `EntryHasWorker` (the map). The clean-up may cancel
  somebody else's context, and even then the entry and the context die together: no
  release runs that a newer request, a shutdown or a deletion could not find. A leaked
  entry would make its runner be skipped for ever.
- `ContextIsReleased`: the same clean-up never leaves a context and its timer behind.
- `ReleasesInOrder` relates the map to the cluster: between the claim of a newer
  request and the older release's call nothing but the cancelled context stands.
- `FinishedIsNotRepeated`: the status a worker validates with may be old; the
  timelines, read later, stop it. (The same runner can still be released by two workers
  *at once* after a clean-up has removed a foreign entry; the property allows just that.)
- `LatestIsServed`, `LatestServedAtRest`: a worker that got one message serves another
  request, and messages are acknowledged whatever happened; still the latest
  request never falls between them.
- `LatestSurvivesCrash`: the criteria of `GetAllInCompleteRequests`, and redelivery of
  what was not acknowledged, leave no point at which one kill loses a Helm release.
- `FailedHasTimeline`: status and timeline are written apart by four writers.
- `ImplementsPromotion` is the safety of delivery: nothing reaches a pipeline by itself
  with an image that did not pass what comes before it, in whatever order events come.
- `TriggersOnce`, `DeployedOnce`: what keeps a message that comes twice, a stage that
  succeeds twice or an observed deployment from being followed up twice are three
  unrelated checks (the runner's reference, the workflow's deployment, the timeline).
  Exempt: a deployment with two APP_HEALTHY timelines, see section 7.
- `EverySuccessIsFollowedUp`, `HealthyIsRecorded`: the same checks must never drop
  something that was not done. Exempt are three things the code cannot resume, each
  recorded in a history variable so that the properties show there are no others: `lost`
  (a crash after the first runner of a message or after the timeline; the siblings after
  a failing one; a deployment whose success was saved as a timeline before a newer one was
  released, and whose status and successors the second look at the release counter then
  drops, `AppService.go:319`), `overwritten` (a slower observer that had seen the application
  progressing), and workflows that a user has deployed again: the code cannot tell which of
  the runners an application reports about, and does not deploy after a pre stage whose
  workflow has been deployed.
- `TerminalIsFinal`, `RestIsSettled`: late, repeated and reordered events of two topics.
- `RetriesBounded`, `DeletedIsRetried`, `FinishedIsNotRetried`: one deletion is reported
  several times; counting and creating are separate steps.
- `QuietCacheAgrees`: between an invalidation and the end of the requests it found in
  flight, only the flag keeps a stale decision out, and the counter must lower it then.
  Exempt are users who are `owed` an invalidation; `OwedIsTorn` says that it takes a
  failing write or a reload that undoes something to be one of them, so that no order of
  requests alone leaves the cache wrong.
- `FewLeftUnanswered`: when a batch ends, fewer items than goroutines are left without an
  answer, whatever the cache held: the remainder of the slices, which the code drops
  (`rbac.go:224`), and nothing else. With `BatchSize` 1 that means none.
- `OneUpdatePerUser`, `RolesAgree`, `DeletedIsPowerless`: what the lock protects, what
  it cannot (deletions do not take it), and what still holds then.

## 5 Fairness

`ReleaseContext!FairSpec`: weak fairness of each worker's step. A release returns
because its context has a deadline, and the clean-up is deferred by the code.
Claims, deadlines, shutdowns and deletions have no fairness.

`AsyncDeploy!FairSpec`: weak fairness of each trigger's next step, of delivery of a
waiting message to some idle worker, of start-up, of each worker's next step and of
the cron's write-back. Goroutines are scheduled, database and external calls return
(calls with the release context end with it). No user must trigger, no deadline must
expire and no process must stop. The three other modules state no fairness: what they
say about the end (`AtRest`, `Quiet`) is said of states in which nothing is left to do,
so a handler that is never scheduled violates nothing. `ServerSpec` adds that a process that is shutting
down exits and is started again, which is what its supervisor does; only `ad_resume`
uses it.

## 6 The proofs

Assumptions: ids are positive naturals, `PipelineOf` is a function to pipelines,
nobody (`NoWorker`, `NoRunner`, `NoEntry`) is not somebody, bounds are naturals. All are
named `ASSUME`s that TLC evaluates in the runs.

**`ReleaseContextProofs`**: `TypeCorrect`, `LiveRegistered`, `NoLeakedEntry`,
`LiveNewest`, for any pipelines, workers and requests. The inductive invariant is
`TypeOK /\ BusyIsSaved /\ LiveIsRegistered /\ EntryHasWorker /\ LiveIsNewest`. The three
properties hold each other up: only since a live context is registered
(`LiveOwnsEntry`) does cancelling an entry leave no other live context of that pipeline;
and since a claim compares with *saved* requests, busy workers must have saved ones
(`BusyIsSaved`) for the claim to be newest among them.

**`AsyncDeployProofs`**, for any deployments, requests, workers, faults and bounds and
both kinds of application, where nothing else is said:

- `TypeCorrect`. A worker that is not idle must have a saved request for its writes to
  be in range (`HasRequest`). The invariant `IInv` adds that a request belongs to one
  runner, that the map's entry has a saved request, that a mutex kept across database
  calls is kept to reject a request (`LockIsMarking`), and that a trigger saves one
  request.
- `Implements`: `Spec => ImplementsReleaseContext`. `StepMoves` says where each worker step
  leads; from that and `LockIsMarking`, `WorkerRefines` sorts the steps into those the map
  does not see, and claims, returns and clean-ups. `RequestIsUnique` is what makes
  "the entry is for my runner" and "for my request" the same.
- `InOrder`: `AppType = "helm" => (Spec => ReleasesInOrder)`. `ReleaseContextProofs` is instantiated under the
  refinement mapping, so its invariant (by `SafetyInductive`, cited for each step) holds
  here; from it, only the registered worker's context is live (`LiveSeen`). The invariant
  `DeployedIsOld`, that no live release has an older request than what the cluster runs,
  is kept by a claim because the claimed request is the latest, and by a release because
  nobody else is live. Argo CD is left out because its commits are not in `deployed`.
- `FailureIsExplained`: `FailuresReported => (Spec => []FailedHasTimeline)`. The property
  speaks of rest; the invariant `FailInv` says at every moment who is *about to* write the
  timeline of a failed runner: its trigger, a worker that rejects it, or one that
  supersedes it and has it in its list (`Explained`). `HandsOver` is what a step may do
  with that duty: keep it or fulfil it. `FailuresReported` is `MaxRestarts = 0` and no
  status cron for Helm; with either, a runner is really left without a timeline (hazards
  at `CdWorkflowCommonService.go:141` and `WorkflowStatusService.go:185`).
- `LatestServed`: `EveryReleaseSettles => (Spec => []LatestServedAtRest)`. The invariant
  `ServeInv` follows the latest request: it is engaged, or its trigger has still to
  publish or to mark it, or a message waits, or a worker has taken it up and not
  validated it (`Followed`). The other conjuncts say why a worker that skips it may: every
  reason for skipping (an entry of the map, a terminal or Progressing status, read now or
  before the mutex) means that somebody serves it (`OwnerReleases`, `SnapSeen`,
  `ProgressEngaged`, `OverSettled`). `EveryReleaseSettles` is `MaxRestarts = 0` and, for Helm,
  neither cron nor deadlines, which leave the outcome to what the cluster says later.
- `ReleasedOnce`: `MaxRestarts = 0 => (Spec => FinishedIsNotRepeated)`. `LastLanded`: what the
  cluster runs has its timeline, or a worker between the release and that timeline.
  A crash between the two is what the hypothesis leaves out.
- `LatestSurvives`: `OneKill => (Spec => []LatestSurvivesCrash)`. `OneKill` is Helm, at most
  one restart, no redelivery before it, no deadlines and no shutdown; each part is needed
  (TLC finds a lost request without it). Nobody may be left at rest, so `Chased` lists who
  has the latest request: somebody releases it, its trigger has still to publish or to
  mark it, a message waits, a worker has just taken it up, or start-up will find it
  (`Resumable`). The kill makes most of that list false at once; what is left is the rows
  and the messages that come again, and the other conjuncts say that one of them is
  enough: before the kill, the message a worker has is its own and not acknowledged
  (`MessagesHeld`), a runner is Queued only when its message is out (`QueuedLast`), and a status means that its writer got as far as that
  (`StatusMeans`). The invariant is `KillInv` with the one of `InOrder`. The lemmas `Going…`
  keep it while the process lives, `KillKeeps` puts the restart to them.

**`EnforcerCacheProofs`**, for any users, items, requests, batches and editors:
`Safety` and `Agrees`. The inductive invariant `IInv` says why the flag is enough:
`CounterIsInFlight` (the counter is the number of requests in flight, so the flag stays
up until each of them has left) and `StaleIsFlagged` (a verdict that disagrees with Casbin
is only in the hands of a request of a flagged, still unfinished or owed user).
`Answered` (in `UserAccessProofs`, `BatchAnswered`): fewer items than goroutines are left
unanswered, for any `BatchSize` and any batch. The invariant counts the items that have
no verdict and are with no goroutine, and arithmetic on the division bounds what the
slices leave out.

**`UserAccessProofs`**, for any handlers and faults: `Implements`, each step of a handler
is a step of an editor or leaves the cache alone, under `Shape` (only handlers between
a change and its invalidation are dirty); with `EnforcerCacheProofs` instantiated under
the same mapping it gives `TypeCorrect`, `QuietAgrees` and `BatchAnswered`. `OneUpdate` is separate:
`LockInv` says that the updates of a user past the lock are one exactly if it is locked.

Its second part begins with Casbin: `PolicyInv` says that for a user who is not torn
table, rules and links agree (`Agreed`), so that a reload changes nothing for it, and with
that `OwedAreTorn`. It then proves `RolesAgreeAtRest` and `DeletedHasNothing`. The properties speak of users nobody is serving; `RolesInv` says what is true
*while* they are served, by the history `scar`: without an overlap or a failure, the policies
are the rows with exactly what the update has changed so far (`Clean`, `UpdateOf`,
`DeleteOf`); when a deletion overlapped an update, what Casbin still has is yet to be
revoked, or an update that adds it will write the row again (`Powerless`). `OneRow`,
that the transactions on the row of a user exclude each other, is what lets the end of
one say anything about the other.

**`StageRunnerProofs`**, for any numbers of retries, workers and disturbances:
`TypeCorrect`, `RetryBound`, and, with status rows enabled, `TerminalStays`. `IInv` is
`Shape` (types, and that a job, an event and a retry name existing runners) and
`Budget`: retries *plus workers about to create one* stay below the bound, which is what
the count in `CheckReTrigger` keeps up. `TerminalStays` needs that a worker's computed
row was computed from the stored one unless the runner is torn.

**`StageRetryProofs`**, with status rows enabled (`StagesEnabled`):

- `FinishedStaysDown`: no worker starts a retry of a stage that had succeeded or was
  cancelled. `FinalHeld`: an update that found its runner so keeps finding it so, in the
  row, in what it computes from it and in what it reads again before the retry.
- `DeletedRetried`: once all is at rest, a runner whose pod was deleted was retried, or
  has no retry left. `Pursued`: a deletion that is not answered is in the topic, or with a
  worker that has not written it yet (`Early`), or with one on its way to the retry
  (`Late`); and whoever has seen the deletion relies on that. `Carried`: an event keeps
  what it was published with through the steps of an update. `Prefix`: runners are
  created in order, so that a new retry comes after every runner that existed.
- `RestSettled`: `OneStatusWorker => (Spec => []RestIsSettled)`. An ended stage whose
  runner is not torn has a terminal status and closed rows, and a reported success has
  been handed on. The hypothesis is the shipped configuration (one message of a topic at
  a time), and it is needed: with two status workers TLC finds an end that is applied
  before the start it belongs to, which leaves a row of a failed stage "RUNNING". The
  invariant is `SettleInv`. An event tells of a state the pod has reached (`Told`), what is
  in hand comes before what is in the topic, and the topic has the start of a pod before
  its end (`InOrder`); so the rows of a pod that runs have been opened, or the event that
  opens them is still to come (`StartedFirst`), an end finds opened rows and closes them
  (`Writes`), and afterwards no start of that pod is left that could open them again
  (`Over`). `Reported` follows a reported success through its topic to the workflow DAG.

**`WorkflowDagProofs`**, for any graph, triggers, plugins, builds and faults:

- `TypeCorrect`, inductive by itself because rows are never deleted, so that references
  stay good, and because every handler that triggers has something left to trigger.
- `OneDeployment`. It needs `Automatic`: the callbacks of the topics hold only
  requests of the program, which either name no workflow, so that the deployment gets one
  of its own, or are preceded by `checkDeploymentTriggeredAlready`.
- `Promotes`: `Spec => ImplementsPromotion`. `Grounded` carries the truth of a success from
  the cluster to what is made of it: a message or a worker that says so tells of a run
  that has succeeded, and each request of the program names a pipeline that follows
  such a run and an image it yields (`After`). Then each step that creates a runner maps
  to a step of `Promotion`, each success on the cluster to its success, and all
  else stutters.
- `TriggeredOnce`: `DistinctChildren => (Spec => []TriggersOnce)`. The invariant `OnceInv`
  says why three unrelated checks suffice. Of a build or a stage there is one message
  (`ToldOnce`, from `MadeOnce` and `NoNews`: a stage is submitted by one worker and has no
  news before it ends), and once a runner refers to it whatever comes again has its id
  and is dropped (`Claims`). A deployment is looked at as often as one likes: who
  follows it up has written a timeline, and two who do have written two (`Observed`).
  Within one delivery, what is left to do names pipelines that were not triggered by it
  (`Ahead`). `DistinctChildren` (a pipeline is listed once below another) is what
  `createCdPipeline` makes: a new pipeline gets one mapping row, which names its parent
  (`DeploymentPipelineConfigService.go:2721`).

**`WorkflowRestProofs`**, for any graph, triggers, plugins, builds and faults, with
`DistinctChildren`: the converses of `TriggersOnce`, over the invariants of
`WorkflowDagProofs` (`Sound`).

- `SuccessesFollowedUp`: `EverySuccessIsFollowedUp`. At rest nobody is left to do what a
  success calls for, so `Pursued` follows it on its whole way: it was followed up, or its
  message waits and will not be dropped, or a handler has it. A message is dropped when a
  runner refers to its id, which says something about that success only because an id
  stands for one message (`Lettered`). A handler that is interrupted by nothing comes to an
  end with everything started, since its list with what it has started covers what is due
  (`Thorough`).
- `HealthyRecorded`: `HealthyIsRecorded`. `Released` and `Proven` tie what an application
  runs to a runner and to the health it is a proof of; `HealthInv` says that a healthy
  deployment without its status is passed over for one of the exempted reasons, or that
  a message or a worker is about to record it.

Model-checked only: `ContextIsReleased` and `LatestIsServed`, which are liveness under
fairness; this prover reasons about neither `ENABLED` nor weak fairness. Every safety
property of a passing run has a theorem. What recursive definitions compute for all
inputs is not claimed anywhere.

## 7 What the code does against its words

- `ad_final`. `UpdateNonTerminalStatusInRunner` says "if the current cdWfr status is
  already a terminal status and then don't update the status e.g: Status : Failed -->
  Progressing (not allowed)"; it reads, tests and updates without a condition in the
  update, and another trigger marks the runner Failed in between.
- `ad_resume`. `handleAsyncTriggerReleaseError` ignores an error due to shutdown since
  "the new instance should pick the unfinished process and execute further"; an Argo CD
  runner is Progressing by then, and `validateConcurrentOrInvalidRequest` of the new
  instance skips a runner that is Progressing.
- `ad_superseded`. The message "A new deployment was initiated before this deployment
  completed!" is given to the latest deployment when the clean-up of the release before
  it cancels its context between the two critical sections.

Met while modelling, without a run of their own; the properties exempt exactly these:

- `AppService.go:623` does not look for an existing APP_HEALTHY timeline "because already
  checked for terminal status existence earlier"; the workers of the application topic and
  of the sync topic may both have checked before either saves, and the deployment is
  followed up twice.
- `WorkflowDagExecutor.go:793`: "deployment will be trigger with artifact copied by plugin".
  It is the first time; the copy is deployed in a workflow of its own, so a second
  success of the pre stage finds no deployment in its workflow, no *new* copy either, and
  deploys the original image.
- `WorkflowStageStatusService.go:198`: "update latest status field if its not terminal
  already"; a failure with a cause makes a terminal status TimedOut or CANCELLED.
- The success of a stage that was cancelled or had failed meanwhile is still handed to
  the DAG (`WorkflowEventProcessorService.go:226`). No document forbids it.
- A crash between the update of a runner and its retry loses the retry: the event comes
  again and changes nothing.
- Two kills can lose the latest Helm request. After the first, start-up resumes the request
  and claims it, and the worker of its redelivered message finds it in process, skips
  it (`WorkflowEventProcessorService.go:1045`) and acknowledges. Nothing but the resumed
  worker remembers the request then; if the second kill meets it while the runner is still
  Queued, there is no message and `GetAllInCompleteRequests` leaves out runners that are
  Queued (`UserDeploymentRequestRepository.go:150`). TLC finds it with `MaxRestarts = 2`. One
  kill is enough when the message had come twice before it: the second worker finds the
  first at work, and acknowledges (`MaxRedeliveries = 1`). Nor does the property hold with
  deadlines, which leave a runner Progressing for the cron to judge, or with a shutdown,
  where workers acknowledge what they do not finish. Found when `LatestSurvivesCrash` was
  proved.

## 8 Abstractions and limits

- One CD pipeline in `AsyncDeploy`; pipelines share only the mutex. Two pipelines, and
  the deletion of a pipeline, are in `ReleaseContext`.
- The database does not fail; a statement is atomic. A timeline's presence check and its
  insert are one step. The row a Helm deadline writes is written once where the code
  saves it, and again when it is a failure.
- A call under a cancelled context has no effect on the cluster. kubelink and Argo CD may
  in fact have begun; then `deployed` is what the call that won left there, and
  `ReleasesInOrder` says that no call *starts to succeed* after its successor's. For
  Argo CD `deployed` follows the synchronisation calls only: the Git commit of a superseded
  release (`ManifestPushService.go:136-294`) may land after that of its successor, and
  Argo CD may synchronise it by itself; so the order of releases is claimed of Helm only.
- Validation failures, failing pushes and releases are choices; the reasons are not
  modelled. Worker-local values that no later step reads are forgotten.
- Redelivery before the acknowledgement is bounded by `MaxRedeliveries`; redelivery after
  a restart is not.
- `AsyncDeploy` leaves out Flux CD, the synchronous mode, manual Argo CD sync timelines,
  notifications, metrics, deployment histories.
- `WorkflowDag`: a release is one step (override, commit, synchronisation; `AsyncDeploy`
  takes it apart); a workflow and its runner are created in one step (a crash between
  them would leave a workflow without runners), and so are the test
  `checkDeploymentTriggeredAlready` and the creation after it, which have one writer per
  topic. Status and stage rows of a stage are read and written in one step (`StageRunner`
  takes that apart). A copied image has the same name each time. A user names an artifact
  and either no workflow or one of that pipeline and artifact.
- `WorkflowDag` leaves out: filters that return no error (approval, feasibility,
  inactive environments), timeouts of applications and `UnableToFetch`, linked CI
  pipelines, external CI webhooks, scan results, Helm and Flux CD deployments, starting
  and stopping applications.
- `StageRunner`: a pending pod's event changes nothing and is left out; logs, artifacts,
  image path reservations and the workflow request are not modelled. The instance has status
  rows enabled.
- `EnforcerCache`: the user's `CacheData` exists (its creation on first use takes no lock,
  `rbac.go:271`); expiry removes decisions at any time.
- `UserAccess`: a role is the item it gives access to; role groups, creation of users and
  expiry dates are left out. Only these requests change policies or reload them: reloads
  by other services are left out, and so is a reload that fails, which with version 1 has
  cleared the rules by then and leaves Casbin without policies until the next one.

### Not modelled

Components outside the modules are listed in `PROJECT.json` with their reasons. Most of
the 250 000 lines are CRUD in single transactions, REST handlers, adapters, generated
clients and pure resolution of values, in which nothing interleaves: a model would
repeat the code. Of the components with a state of their own, the broker of server-sent
events, cluster terminal sessions, installed charts and the caches of section 9 are left.

## 9 Plan

Done: the release context map, the asynchronous deployment, the workflow DAG with the
Argo CD observers, stage execution, the enforcer cache and user access, their runs and
the proofs above. Next, in this order:

1. `SseBroker`: small; waiting for ever, checked under fairness.
2. `TerminalAccess`: session map, pods and rows against the status cron.
3. The status machine of app store installations; the default data cache.

Runs are few on purpose, one for each question; when modules are added, the runs of
`AsyncDeploy` with the same faults are merged.
