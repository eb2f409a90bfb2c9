---------------------------- MODULE WorkflowDag ----------------------------
(***************************************************************************)
(* How a CI build moves through the CD pipelines of an application         *)
(* workflow: a build, a pre stage, a deployment and a post stage trigger   *)
(* what follows them when they succeed.                                    *)
(*                                                                         *)
(* Four topics bring the news: CI_COMPLETE and CD_STAGE_COMPLETE from the  *)
(* runners, APPLICATION_STATUS_UPDATE from kubewatch, which watches the    *)
(* Argo CD applications, and ARGO_PIPELINE_STATUS_UPDATE, by which the     *)
(* orchestrator's cron makes itself look at an application.  Each topic    *)
(* has one worker, as shipped, and a user who triggers a stage is one      *)
(* more.  A message is acknowledged when its callback returns; one that is *)
(* delivered again is dropped if a runner was already created for it       *)
(* (GetTriggerValidateFuncs).                                              *)
(*                                                                         *)
(* Deployments are made by Argo CD in the synchronous mode: the manifest   *)
(* is built, committed and synchronised before the trigger returns, which  *)
(* is one step here (AsyncDeploy takes it apart).  What happens to the pod *)
(* of a stage is in StageRunner; here it succeeds, fails or is retried.    *)
(***************************************************************************)
EXTENDS Naturals, FiniteSets, Sequences

CONSTANTS
  Source,      \* the CI pipeline
  Pipeline,    \* the CD pipelines
  Children,    \* the CD pipelines below each of them, in the order of the mappings
  PreStage, PostStage,            \* the pipelines that have these stages
  AutoPre, AutoDeploy, AutoPost,  \* those whose trigger type is automatic
  Copier,      \* the stages, <<pipeline, stage>>, with a plugin that copies the image
  Manual,      \* the stages that users trigger
  MaxBuilds,   \* bound: builds
  Faults,      \* what may come in between and how much of MaxFaults each takes: "crash",
               \* "redelivery", "retry" (of a stage), "trigger" (submission or release
               \* fails), "resend" (of an application's state), "sync" (by the cron), "user"
  MaxFaults    \* bound: how much of them happens

ASSUME PipelineAssumption ==
  /\ Source \notin Pipeline
  /\ DOMAIN Children = Pipeline \cup {Source}
  /\ \A p \in Pipeline \cup {Source} : Children[p] \in Seq(Pipeline)
  /\ PreStage \subseteq Pipeline /\ PostStage \subseteq Pipeline
  /\ Copier \subseteq PreStage \X {"PRE"} \cup PostStage \X {"POST"}
  /\ Manual \subseteq PreStage \X {"PRE"} \cup PostStage \X {"POST"} \cup Pipeline \X {"DEPLOY"}

ASSUME BoundsAssumption ==
  /\ MaxBuilds \in Nat /\ MaxFaults \in Nat
  /\ \A f \in DOMAIN Faults : Faults[f] \in Nat

VARIABLES
  artifact,   \* ci_artifact
  workflow,   \* cd_workflow
  runner,     \* cd_workflow_runner, with its terminal timelines
  override,   \* the deployment of the latest pipeline override of each pipeline
  app,        \* the Argo CD application of each pipeline: deployment and health
  running,    \* stages whose pod runs on the cluster
  succeeded,  \* stages and deployments that have succeeded on the cluster
  builds,     \* how many builds have succeeded
  queue,      \* messages of each topic that no worker has taken
  handler,    \* what each worker is doing
  sent,       \* how many messages were published
  cause,      \* history: what each runner was triggered by
  lost,       \* history: causes whose successors a failure or a newer release cut off
  retries,    \* history: runners that are retries of another
  overwritten,\* history: deployments whose terminal status a slower observer overwrote
  faults      \* how much of MaxFaults has been used

rows    == <<artifact, workflow, runner, override, cause>>
cluster == <<app, running, succeeded, builds>>
vars    == <<rows, cluster, queue, handler, sent, lost, retries, overwritten, faults>>

-----------------------------------------------------------------------------
(* Data *)

Topic  == {"ci", "stage", "app", "sync"}
Worker == Topic \cup {"user"}
Stage  == {"PRE", "DEPLOY", "POST"}
Image  == [build: Nat, copies: Seq(Pipeline \X Stage)]

Artifact == [image: Image, pipeline: Pipeline \cup {Source}, stage: Stage \cup {"CI"}]
Workflow == [pipeline: Pipeline, artifact: Nat]
\* `healthy' counts the timelines APP_HEALTHY of a deployment, `failed' says that it
\* has another terminal timeline.
Runner   == [workflow: Nat, stage: Stage, ref: Nat, healthy: Nat, failed: BOOLEAN,
             status: {"Initiated", "Starting", "Progressing", "Succeeded", "Failed"}]
Cause    == [kind: {"build", "runner", "user"}, id: Nat]

\* `subject' is the build, the runner or the deployment a message is about and
\* `good' says that it succeeded.
Message == [id: Nat, pipeline: Pipeline \cup {Source}, subject: Nat, good: BOOLEAN,
            again: BOOLEAN]
NoMessage == [id |-> 0, pipeline |-> Source, subject |-> 0, good |-> FALSE, again |-> FALSE]

\* A CdTriggerRequest: `workflow' is 0 if it names none.
Request == [act: {"auto", "deploy", "post", "userPRE", "userDEPLOY", "userPOST"},
            pipeline: Pipeline, artifact: Nat, workflow: Nat]
AutoRequest(p, a) == [act |-> "auto", pipeline |-> p, artifact |-> a, workflow |-> 0]

Handler == [pc: {"idle", "begin", "check", "timeline", "recheck", "status", "copy", "trigger",
                  "submit"},
            msg: Message, subject: Nat, good: BOOLEAN, todo: Seq(Request), made: Nat]
Idle == [pc |-> "idle", msg |-> NoMessage, subject |-> 0, good |-> FALSE,
         todo |-> <<>>, made |-> 0]

At(w, pc) == handler[w].pc = pc
Msg(w) == handler[w].msg

Terminal(r) == runner[r].status \in {"Succeeded", "Failed"}
PipelineOf(r) == workflow[runner[r].workflow].pipeline
\* GetArtifactByCdWorkflowId
ArtifactOf(r) == workflow[runner[r].workflow].artifact
ImageOf(r) == artifact[ArtifactOf(r)].image

\* FindByWorkflowIdAndRunnerType; the query fails unless there is one row.
RunnersOf(wf, s) == {r \in DOMAIN runner : runner[r].workflow = wf /\ runner[r].stage = s}
Deployments(p) == {r \in DOMAIN runner : PipelineOf(r) = p /\ runner[r].stage = "DEPLOY"}

\* Mutants: nothing, or anything, that is delivered again counts as triggered.
NeverTriggered(m) == FALSE
TriggeredIfAgain(m) == m.again

\* CheckWorkflowRunnerByReferenceId
AlreadyTriggered(m) == \E r \in DOMAIN runner : runner[r].ref = m.id

Fault(what) ==
  /\ what \in DOMAIN Faults
  /\ faults + Faults[what] <= MaxFaults
  /\ faults' = faults + Faults[what]

Published(t, p, subject, good) ==
  [queue EXCEPT ![t] = Append(@, [id |-> sent + 1, pipeline |-> p, subject |-> subject,
                                  good |-> good, again |-> FALSE])]
Publish(t, p, subject, good) ==
  queue' = Published(t, p, subject, good) /\ sent' = sent + 1

-----------------------------------------------------------------------------
(* The CI runner, the pods of the stages, Argo CD and kubewatch (external) *)

BuildSucceeds ==
  /\ builds < MaxBuilds
  /\ builds' = builds + 1
  /\ Publish("ci", Source, builds + 1, TRUE)
  /\ UNCHANGED <<rows, app, running, succeeded, handler, lost, retries, overwritten, faults>>

StageEnds(r, good) ==
  /\ r \in running
  /\ running' = running \ {r}
  /\ succeeded' = IF good THEN succeeded \cup {r} ELSE succeeded
  /\ Publish("stage", PipelineOf(r), r, good)
  /\ UNCHANGED <<rows, app, builds, handler, lost, retries, overwritten, faults>>

AppHealthy(p) ==
  /\ app[p].subject # 0 /\ ~app[p].healthy
  /\ app' = [app EXCEPT ![p].healthy = TRUE]
  /\ succeeded' = succeeded \cup {app[p].subject}
  /\ Publish("app", p, app[p].subject, TRUE)
  /\ UNCHANGED <<rows, running, builds, handler, lost, retries, overwritten, faults>>

\* Any change of an application's resources makes kubewatch publish its state again.
Resend(p) ==
  /\ app[p].subject # 0
  /\ Fault("resend")
  /\ Publish("app", p, app[p].subject, app[p].healthy)
  /\ UNCHANGED <<rows, cluster, handler, lost, retries, overwritten>>

-----------------------------------------------------------------------------
(* Taking messages *)

\* The message is acknowledged when the handler is idle again.
Take(t) ==
  /\ queue[t] # <<>> /\ At(t, "idle")
  /\ queue' = [queue EXCEPT ![t] = Tail(@)]
  /\ LET m == Head(queue[t])
     IN handler' = IF m.again /\ AlreadyTriggered(m)
                   THEN handler
                   ELSE [handler EXCEPT ![t] =
                     [pc |-> IF t = "app" THEN "check" ELSE "begin", msg |-> m,
                      subject |-> m.subject, good |-> m.good, todo |-> <<>>, made |-> 0]]
  /\ UNCHANGED <<rows, cluster, sent, lost, retries, overwritten, faults>>

\* The cron finds a deployment that has not come to an end.
SyncByCron(p) ==
  /\ \E r \in Deployments(p) : ~Terminal(r)
  /\ Fault("sync")
  /\ Publish("sync", p, 0, FALSE)
  /\ UNCHANGED <<rows, cluster, handler, lost, retries, overwritten>>

\* A message that is processed for long is delivered again.
Redeliver(t) ==
  /\ ~At(t, "idle")
  /\ \A i \in DOMAIN queue[t] : queue[t][i].id # Msg(t).id
  /\ Fault("redelivery")
  /\ queue' = [queue EXCEPT ![t] = Append(@, [Msg(t) EXCEPT !.again = TRUE])]
  /\ UNCHANGED <<rows, cluster, handler, sent, lost, retries, overwritten>>

-----------------------------------------------------------------------------
(* Triggering: a handler works off its requests *)

CauseOf(w) ==
  CASE w = "ci"   -> [kind |-> "build", id |-> handler[w].subject]
    [] w = "user" -> [kind |-> "user", id |-> 0]
    [] OTHER      -> [kind |-> "runner", id |-> handler[w].subject]

\* Mutant: the last request does not end the handler.
ContinueAlways(w, todo) ==
  handler' = [handler EXCEPT ![w] =
    [handler[w] EXCEPT !.pc = "trigger", !.todo = todo, !.made = 0]]

\* What is left to do after a request, and the acknowledgement when nothing is.
Continue(w, todo) ==
  handler' = [handler EXCEPT ![w] =
    IF todo = <<>> THEN Idle
    ELSE [handler[w] EXCEPT !.pc = "trigger", !.todo = todo, !.made = 0]]

ChildRequests(p, a) == [i \in DOMAIN Children[p] |-> AutoRequest(Children[p][i], a)]

\* Mutant: the workflow is not looked up.
NotTriggered(wf) == FALSE

\* checkDeploymentTriggeredAlready
DeploymentTriggered(wf) == Cardinality(RunnersOf(wf, "DEPLOY")) = 1

\* Mutant: a pre stage that waits for a user is passed over.
PassManual(p) ==
  IF p \in PreStage /\ p \in AutoPre THEN "PRE"
  ELSE IF p \in AutoDeploy THEN "DEPLOY" ELSE "none"

\* triggerIfAutoStageCdPipeline
FirstStage(p) ==
  IF p \in PreStage
  THEN IF p \in AutoPre THEN "PRE" ELSE "none"
  ELSE IF p \in AutoDeploy THEN "DEPLOY" ELSE "none"

\* The stage a request creates a runner for.  A user's deployment or post stage looks
\* for the one runner of the stage before it in the workflow, and fails if there are
\* several.
Before(q) == RunnersOf(q.workflow, IF q.act = "userDEPLOY" THEN "PRE" ELSE "DEPLOY")
StageFor(q) ==
  CASE q.act = "auto"    -> FirstStage(q.pipeline)
    [] q.act = "deploy"  -> IF q.pipeline \in AutoDeploy /\ ~DeploymentTriggered(q.workflow)
                            THEN "DEPLOY" ELSE "none"
    [] q.act = "post"    -> "POST"
    [] q.act = "userPRE" -> "PRE"
    [] OTHER -> IF Cardinality(Before(q)) > 1 THEN "none"
                ELSE IF q.act = "userDEPLOY" THEN "DEPLOY" ELSE "POST"

\* The workflow the runner is created in, 0 if it is a new one.
WorkflowFor(q) ==
  CASE q.act = "deploy" -> IF workflow[q.workflow].artifact = q.artifact
                           THEN q.workflow ELSE 0
    [] q.act \in {"userDEPLOY", "userPOST"} -> IF Before(q) = {} THEN 0 ELSE q.workflow
    [] OTHER -> q.workflow

Skip(w) ==
  /\ At(w, "trigger")
  /\ StageFor(Head(handler[w].todo)) = "none"
  /\ Continue(w, Tail(handler[w].todo))
  /\ UNCHANGED <<rows, cluster, queue, sent, lost, retries, overwritten, faults>>

\* createStartingWfAndRunner, TriggerAutomaticDeployment, ManualCdTrigger
Create(w) ==
  /\ At(w, "trigger")
  /\ LET q == Head(handler[w].todo)
         s == StageFor(q)
         wf == IF WorkflowFor(q) = 0 THEN Len(workflow) + 1 ELSE WorkflowFor(q)
     IN /\ s # "none"
        /\ workflow' = IF WorkflowFor(q) = 0
                       THEN Append(workflow, [pipeline |-> q.pipeline, artifact |-> q.artifact])
                       ELSE workflow
        /\ runner' = Append(runner,
             [workflow |-> wf, stage |-> s, ref |-> Msg(w).id, healthy |-> 0, failed |-> FALSE,
              status |-> IF s = "DEPLOY" THEN "Initiated" ELSE "Starting"])
  /\ cause' = Append(cause, CauseOf(w))
  /\ handler' = [handler EXCEPT ![w] =
       [handler[w] EXCEPT !.pc = "submit", !.todo = Tail(handler[w].todo),
                          !.made = Len(runner) + 1]]
  /\ UNCHANGED <<artifact, override, cluster, queue, sent, lost, retries, overwritten, faults>>

\* The pod of the stage is created.
SubmitStage(w) ==
  /\ At(w, "submit") /\ runner[handler[w].made].stage # "DEPLOY"
  /\ running' = running \cup {handler[w].made}
  /\ Continue(w, handler[w].todo)
  /\ UNCHANGED <<rows, app, succeeded, builds, queue, sent, lost, retries, overwritten, faults>>

\* TriggerRelease: the override is saved, the manifest committed and synchronised,
\* and earlier deployments are superseded; nothing of it if this one is.
Release(w) ==
  LET r == handler[w].made
      p == PipelineOf(r)
      Previous(x) == x \in Deployments(p) /\ x < r /\ ~Terminal(x)
  IN /\ At(w, "submit") /\ runner[r].stage = "DEPLOY"
     /\ IF runner[r].failed
        THEN UNCHANGED <<override, app, runner>>
        ELSE /\ override' = [override EXCEPT ![p] = r]
             /\ app' = [app EXCEPT ![p] = [subject |-> r, healthy |-> FALSE]]
             /\ runner' = [x \in DOMAIN runner |->
                  IF x = r THEN [runner[x] EXCEPT !.status = "Progressing"]
                  ELSE IF Previous(x)
                  THEN [runner[x] EXCEPT !.status = "Failed", !.failed = TRUE]
                  ELSE runner[x]]
     /\ Continue(w, handler[w].todo)
     /\ UNCHANGED <<artifact, workflow, cause, running, succeeded, builds,
                    queue, sent, lost, retries, overwritten, faults>>

\* Mutant: an error ends the handler of a build, too.
StopsAlways(w) == FALSE

\* After an error the pipelines below a CI build are still triggered, those below
\* a deployment or a post stage are not.
GoesOn(w) == w = "ci"

\* The release may have failed before or after its override was saved.
SubmitFails(w) ==
  LET r == handler[w].made
  IN /\ At(w, "submit")
     /\ Fault("trigger")
     /\ runner' = [runner EXCEPT ![r] = [runner[r] EXCEPT !.status = "Failed",
                                          !.failed = runner[r].stage = "DEPLOY"]]
     /\ \/ UNCHANGED override
        \/ /\ runner[r].stage = "DEPLOY" /\ ~runner[r].failed
           /\ override' = [override EXCEPT ![PipelineOf(r)] = r]
     /\ Continue(w, IF GoesOn(w) THEN handler[w].todo ELSE <<>>)
     /\ lost' = IF w # "ci" /\ handler[w].todo # <<>> THEN lost \cup {CauseOf(w)} ELSE lost
     /\ UNCHANGED <<artifact, workflow, cause, cluster, queue, sent, retries, overwritten>>

-----------------------------------------------------------------------------
(* CI_COMPLETE: HandleCiSuccessEvent *)

HandleCiSuccess(w) ==
  /\ w = "ci" /\ At(w, "begin")
  /\ artifact' = Append(artifact,
       [image |-> [build |-> handler[w].subject, copies |-> <<>>],
        pipeline |-> Source, stage |-> "CI"])
  /\ Continue(w, ChildRequests(Source, Len(artifact) + 1))
  /\ UNCHANGED <<workflow, runner, override, cause, cluster, queue, sent, lost,
                 retries, overwritten, faults>>

-----------------------------------------------------------------------------
(* CD_STAGE_COMPLETE *)

ReportStage(w) ==
  LET r == handler[w].subject
  IN /\ w = "stage" /\ At(w, "begin")
     /\ runner' = IF Terminal(r) THEN runner
                  ELSE [runner EXCEPT ![r].status =
                          IF handler[w].good THEN "Succeeded" ELSE "Failed"]
     /\ handler' = [handler EXCEPT ![w] =
          IF handler[w].good THEN [handler[w] EXCEPT !.pc = "copy"] ELSE Idle]
     /\ UNCHANGED <<artifact, workflow, override, cause, cluster, queue, sent, lost,
                    retries, overwritten, faults>>

\* SavePluginArtifacts skips an image that the stage has saved before.
CopyOf(r) == [image |-> [ImageOf(r) EXCEPT
                           !.copies = Append(@, <<PipelineOf(r), runner[r].stage>>)],
              pipeline |-> PipelineOf(r), stage |-> runner[r].stage]
NewCopies(r) ==
  IF <<PipelineOf(r), runner[r].stage>> \in Copier
  THEN {CopyOf(r)} \ {artifact[i] : i \in DOMAIN artifact}
  ELSE {}

\* HandlePreStageSuccessEvent deploys, HandlePostStageSuccessEvent goes on to the
\* children, with the image just saved or else with the one the stage ran on.
SaveCopies(w) ==
  LET r == handler[w].subject
      a == IF NewCopies(r) = {} THEN ArtifactOf(r) ELSE Len(artifact) + 1
  IN /\ At(w, "copy")
     /\ artifact' = IF NewCopies(r) = {} THEN artifact ELSE Append(artifact, CopyOf(r))
     /\ Continue(w, IF runner[r].stage = "PRE"
                    THEN <<[act |-> "deploy", pipeline |-> PipelineOf(r), artifact |-> a,
                            workflow |-> runner[r].workflow]>>
                    ELSE ChildRequests(PipelineOf(r), a))
     /\ UNCHANGED <<workflow, runner, override, cause, cluster, queue, sent, lost,
                    retries, overwritten, faults>>

\* The pod of a stage is deleted before its success is recorded: the stage runs
\* again in the same workflow (StageRunner).
RetryStage(r) ==
  /\ runner[r].stage # "DEPLOY" /\ runner[r].status = "Starting"
  /\ r \in running \cup succeeded
  /\ Fault("retry")
  /\ runner' = Append([runner EXCEPT ![r].status = "Failed"],
                      [runner[r] EXCEPT !.ref = 0])
  /\ cause' = Append(cause, cause[r])
  /\ running' = (running \ {r}) \cup {Len(runner) + 1}
  /\ retries' = retries \cup {Len(runner) + 1}
  /\ UNCHANGED <<artifact, workflow, override, app, succeeded, builds, queue, handler,
                 sent, lost, overwritten>>

-----------------------------------------------------------------------------
(* APPLICATION_STATUS_UPDATE and ARGO_PIPELINE_STATUS_UPDATE *)

\* UpdatePipelineTimelineAndStatusByLiveApplicationFetch
FetchApp(w) ==
  LET p == Msg(w).pipeline
      latest == CHOOSE r \in Deployments(p) : \A x \in Deployments(p) : x <= r
  IN /\ w = "sync" /\ At(w, "begin")
     /\ handler' = [handler EXCEPT ![w] =
          IF Terminal(latest) \/ app[p].subject = 0 THEN Idle
          ELSE [handler[w] EXCEPT !.pc = "check", !.subject = app[p].subject,
                                  !.good = app[p].healthy]]
     /\ UNCHANGED <<rows, cluster, queue, sent, lost, retries, overwritten, faults>>

\* CheckIfPipelineUpdateEventIsValid and the first check of
\* UpdatePipelineStatusTimelineForApplicationChanges: the event is about the latest
\* override, its deployment the only one of its workflow, not at an end, and
\* without a terminal timeline.
IsValid(p, r) ==
  /\ r = override[p]
  /\ Cardinality(RunnersOf(runner[r].workflow, "DEPLOY")) = 1
  /\ ~Terminal(r)
  /\ runner[r].healthy = 0 /\ ~runner[r].failed

CheckApp(w) ==
  /\ At(w, "check")
  /\ handler' = [handler EXCEPT ![w] =
       IF ~IsValid(Msg(w).pipeline, handler[w].subject) THEN Idle
       ELSE [handler[w] EXCEPT !.pc = IF handler[w].good THEN "timeline" ELSE "recheck"]]
  /\ UNCHANGED <<rows, cluster, queue, sent, lost, retries, overwritten, faults>>

SaveTimeline(w) ==
  /\ At(w, "timeline")
  /\ runner' = [runner EXCEPT ![handler[w].subject].healthy = @ + 1]
  /\ handler' = [handler EXCEPT ![w].pc = "recheck"]
  /\ UNCHANGED <<artifact, workflow, override, cause, cluster, queue, sent, lost,
                 retries, overwritten, faults>>

\* The release counter is read again after the timeline is saved: a newer override
\* makes the event one of an older revision, whose status is not written and whose
\* success is not followed up.
RecheckApp(w) ==
  LET latest == handler[w].subject = override[Msg(w).pipeline]
  IN /\ At(w, "recheck")
     /\ handler' = [handler EXCEPT ![w] =
          IF latest THEN [handler[w] EXCEPT !.pc = "status"] ELSE Idle]
     /\ lost' = IF handler[w].good /\ ~latest THEN lost \cup {CauseOf(w)} ELSE lost
     /\ UNCHANGED <<rows, cluster, queue, sent, retries, overwritten, faults>>

\* HandleDeploymentSuccessEvent
AfterDeployment(r) ==
  IF PipelineOf(r) \notin PostStage THEN ChildRequests(PipelineOf(r), ArtifactOf(r))
  ELSE IF PipelineOf(r) \in AutoPost
  THEN <<[act |-> "post", pipeline |-> PipelineOf(r), artifact |-> ArtifactOf(r),
          workflow |-> runner[r].workflow]>>
  ELSE <<>>

\* UpdateCdWorkflowRunnerByACDObject
WriteStatus(w) ==
  LET r == handler[w].subject
  IN /\ At(w, "status")
     /\ runner' = [runner EXCEPT ![r].status =
                     IF handler[w].good THEN "Succeeded" ELSE "Progressing"]
     /\ overwritten' = IF Terminal(r) /\ ~handler[w].good THEN overwritten \cup {r} ELSE overwritten
     /\ Continue(w, IF handler[w].good THEN AfterDeployment(r) ELSE <<>>)
     /\ UNCHANGED <<artifact, workflow, override, cause, cluster, queue, sent, lost, retries, faults>>

-----------------------------------------------------------------------------
(* The user and the process *)

\* A user triggers a stage with an artifact, in a workflow of it or in none.
UserTriggers(p, s, a, wf) ==
  /\ At("user", "idle")
  /\ <<p, s>> \in Manual
  /\ wf # 0 => workflow[wf] = [pipeline |-> p, artifact |-> a]
  /\ Fault("user")
  /\ Continue("user", <<[act |-> CASE s = "PRE" -> "userPRE" [] s = "DEPLOY" -> "userDEPLOY"
                                   [] s = "POST" -> "userPOST",
                         pipeline |-> p, artifact |-> a, workflow |-> wf]>>)
  /\ UNCHANGED <<rows, cluster, queue, sent, lost, retries, overwritten>>

\* What a crash interrupts is delivered again.
Interrupted(t) == ~At(t, "idle") /\ \A i \in DOMAIN queue[t] : queue[t][i].id # Msg(t).id
Requeued == [t \in Topic |->
  IF Interrupted(t) THEN <<[Msg(t) EXCEPT !.again = TRUE]>> \o queue[t] ELSE queue[t]]

\* It is in vain for a handler that has created a runner, or that has saved the
\* timeline which makes others leave the deployment alone.
InVain(t) ==
  /\ t \in Topic /\ ~At(t, "idle")
  /\ \/ AlreadyTriggered(Msg(t))
     \/ t \in {"app", "sync"} /\ handler[t].pc \notin {"begin", "check", "timeline"}

Crash ==
  /\ Fault("crash")
  /\ queue' = Requeued
  /\ handler' = [w \in Worker |-> Idle]
  /\ lost' = lost \cup {CauseOf(t) : t \in {x \in Topic : InVain(x)}}
  /\ UNCHANGED <<rows, cluster, sent, retries, overwritten>>

-----------------------------------------------------------------------------

Init ==
  /\ artifact = <<>> /\ workflow = <<>> /\ runner = <<>> /\ cause = <<>>
  /\ override = [p \in Pipeline |-> 0]
  /\ app = [p \in Pipeline |-> [subject |-> 0, healthy |-> FALSE]]
  /\ running = {} /\ succeeded = {} /\ builds = 0
  /\ queue = [t \in Topic |-> <<>>] /\ handler = [w \in Worker |-> Idle] /\ sent = 0
  /\ lost = {} /\ retries = {} /\ overwritten = {} /\ faults = 0

Cluster ==
  \/ BuildSucceeds
  \/ \E r \in running, good \in BOOLEAN : StageEnds(r, good)
  \/ \E p \in Pipeline : AppHealthy(p) \/ Resend(p)

Handle(w) ==
  \/ Skip(w) \/ Create(w) \/ SubmitStage(w) \/ Release(w) \/ SubmitFails(w)
  \/ HandleCiSuccess(w)
  \/ ReportStage(w) \/ SaveCopies(w)
  \/ FetchApp(w) \/ CheckApp(w) \/ SaveTimeline(w) \/ RecheckApp(w) \/ WriteStatus(w)

Next ==
  \/ Cluster
  \/ \E t \in Topic : Take(t) \/ Redeliver(t)
  \/ \E w \in Worker : Handle(w)
  \/ \E r \in DOMAIN runner : RetryStage(r)
  \/ \E p \in Pipeline : SyncByCron(p)
  \/ \E p \in Pipeline, s \in Stage, a \in DOMAIN artifact, wf \in {0} \cup DOMAIN workflow :
       UserTriggers(p, s, a, wf)
  \/ Crash

Spec == Init /\ [][Next]_vars

-----------------------------------------------------------------------------
(* Properties *)

\* The types of the variables; every reference names a row, and a handler has a
\* request to work off as long as it is triggering.
Rows(seq) == {0} \cup DOMAIN seq

MessageOK(t, m) ==
  /\ t \in {"app", "sync"} => m.pipeline \in Pipeline
  /\ t \in {"app", "stage"} => m.subject \in DOMAIN runner

RequestOK(q) == q.artifact \in DOMAIN artifact /\ q.workflow \in Rows(workflow)

HandlerOK(w, h) ==
  /\ h.pc # "idle" /\ w # "user" => MessageOK(w, h.msg)
  /\ h.pc \in {"check", "timeline", "recheck", "status", "copy"} \/ (w = "stage" /\ h.pc = "begin")
     => h.subject \in DOMAIN runner
  /\ \A i \in DOMAIN h.todo : RequestOK(h.todo[i])
  /\ h.pc = "trigger" => h.todo # <<>>
  /\ h.pc = "submit" => h.made \in DOMAIN runner

RowsOK ==
  /\ artifact \in Seq(Artifact)
  /\ workflow \in Seq(Workflow)
  /\ \A wf \in DOMAIN workflow : workflow[wf].artifact \in DOMAIN artifact
  /\ runner \in Seq(Runner) /\ cause \in Seq(Cause) /\ Len(cause) = Len(runner)
  /\ \A r \in DOMAIN runner : runner[r].workflow \in DOMAIN workflow
  /\ override \in [Pipeline -> Rows(runner)]

ClusterOK ==
  /\ app \in [Pipeline -> [subject: Rows(runner), healthy: BOOLEAN]]
  /\ running \subseteq DOMAIN runner /\ succeeded \subseteq DOMAIN runner
  /\ builds \in Nat

QueueOK ==
  /\ sent \in Nat /\ queue \in [Topic -> Seq(Message)]
  /\ \A t \in Topic : \A i \in DOMAIN queue[t] : MessageOK(t, queue[t][i])

HandlersOK ==
  handler \in [Worker -> Handler] /\ \A w \in Worker : HandlerOK(w, handler[w])

HistoryOK ==
  /\ lost \subseteq Cause /\ faults \in Nat
  /\ retries \subseteq DOMAIN runner /\ overwritten \subseteq DOMAIN runner

TypeOK == RowsOK /\ ClusterOK /\ QueueOK /\ HandlersOK /\ HistoryOK

\* An image moves along the graph as Promotion says: nothing starts by itself
\* before its predecessor has really succeeded with that image.
RunOf(r) == [pipeline |-> PipelineOf(r), stage |-> runner[r].stage, image |-> ImageOf(r)]
ByUser(r) == cause[r].kind = "user"

P == INSTANCE Promotion WITH
  automatic <- {RunOf(r) : r \in {x \in DOMAIN runner : ~ByUser(x)}},
  manual <- {RunOf(r) : r \in {x \in DOMAIN runner : ByUser(x)}},
  succeeded <- {RunOf(r) : r \in succeeded}
    \cup {[pipeline |-> Source, stage |-> "BUILD", image |-> [build |-> n, copies |-> <<>>]]
            : n \in 1 .. builds}

ImplementsPromotion == P!Spec

\* What has succeeded triggers each thing that follows it at most once, whatever is
\* delivered twice, retried or run again by a user; only a deployment that two
\* workers found healthy at the same time may be followed up by both.
TriggersOnce ==
  \A r, x \in DOMAIN runner :
    (/\ r # x /\ cause[r] = cause[x] /\ ~ByUser(r)
     /\ PipelineOf(r) = PipelineOf(x) /\ runner[r].stage = runner[x].stage)
    => \/ r \in retries \/ x \in retries
       \/ cause[r].kind = "runner" /\ runner[cause[r].id].healthy > 1

\* A workflow is deployed once by itself, however often its pre stage succeeds,
\* unless a user has deployed it, too.
DeployedOnce ==
  \A wf \in DOMAIN workflow :
    LET all == RunnersOf(wf, "DEPLOY")
    IN (\A r \in all : ~ByUser(r)) => Cardinality(all) <= 1

AtRest ==
  /\ \A t \in Topic : queue[t] = <<>>
  /\ \A w \in Worker : At(w, "idle")
  /\ running = {}
  /\ \A p \in Pipeline : app[p].subject # 0 => app[p].healthy

\* Everything that succeeds is followed up: when all has come to rest, each stage
\* that follows it automatically was started, unless a crash or an error cut it off
\* at a point from which the code does not resume, or a newer deployment of the
\* pipeline was released between its timeline and the second look at the release
\* counter; only the deployment after a pre stage is left out if the workflow has one
\* already.
FollowedUp(c, p, s) ==
  \E r \in DOMAIN runner : cause[r] = c /\ PipelineOf(r) = p /\ runner[r].stage = s

EverySuccessIsFollowedUp ==
  AtRest => \A p \in Pipeline, s \in {"PRE", "DEPLOY", "POST"} :
    P!IsAutomatic(p, s) =>
    /\ \A n \in 1 .. builds :
         LET c == [kind |-> "build", id |-> n]
         IN (P!Follows(Source, "BUILD", p, s) /\ c \notin lost) => FollowedUp(c, p, s)
    /\ \A r \in succeeded :
         LET c == [kind |-> "runner", id |-> r]
         IN (/\ P!Follows(PipelineOf(r), runner[r].stage, p, s)
             /\ runner[r].stage = "DEPLOY" => runner[r].healthy > 0
             /\ c \notin lost)
            => \/ FollowedUp(c, p, s)
               \/ runner[r].stage = "PRE" /\ RunnersOf(runner[r].workflow, "DEPLOY") # {}

\* A deployment that the cluster reports healthy is recorded as succeeded when all
\* has come to rest, unless a crash came between its timeline and its status, another
\* worker wrote that it was progressing after that, or a user has deployed its
\* workflow again, which makes the code unable to find it.
HealthyIsRecorded ==
  AtRest => \A p \in Pipeline :
    LET r == app[p].subject
    IN (/\ r # 0 /\ r = override[p]
        /\ Cardinality(RunnersOf(runner[r].workflow, "DEPLOY")) = 1
        /\ [kind |-> "runner", id |-> r] \notin lost
        /\ r \notin overwritten)
       => runner[r].status = "Succeeded"

=============================================================================
