------------------------- MODULE WorkflowDagProofs -------------------------
(***************************************************************************)
(* The workflow graph for any pipelines, builds, users and faults:         *)
(*   - the types.  Rows are never deleted, so a reference that named a row *)
(*     goes on naming one (RowsGrow): the invariant is inductive as it is; *)
(*   - a workflow is deployed once by itself (Automatic);                  *)
(*   - an image moves along the graph as Promotion says (Grounded);        *)
(*   - each success triggers each thing that follows it once (OnceInv).    *)
(***************************************************************************)
EXTENDS WorkflowDag, FiniteSetTheorems, TLAPS

-----------------------------------------------------------------------------
(* Rows are only added *)

RowsGrow ==
  /\ DOMAIN artifact \subseteq DOMAIN artifact'
  /\ DOMAIN workflow \subseteq DOMAIN workflow'
  /\ DOMAIN runner \subseteq DOMAIN runner'

\* What is well formed stays so.
LEMMA MessageStays ==
  ASSUME RowsGrow, NEW t, NEW m, MessageOK(t, m)
  PROVE  MessageOK(t, m)'
BY DEF RowsGrow, MessageOK

\* A request goes on naming rows.
LEMMA RequestStays ==
  ASSUME RowsGrow, NEW q, RequestOK(q)
  PROVE  RequestOK(q)'
BY DEF RowsGrow, RequestOK, Rows

\* A worker's state goes on naming rows.
LEMMA HandlerStays ==
  ASSUME RowsGrow, NEW w, NEW h, HandlerOK(w, h)
  PROVE  HandlerOK(w, h)'
BY MessageStays, RequestStays DEF RowsGrow, HandlerOK

\* Queues that a step leaves alone.
LEMMA QueueStays ==
  ASSUME RowsGrow, QueueOK, UNCHANGED <<queue, sent>>
  PROVE  QueueOK'
BY MessageStays DEF QueueOK

\* Workers that a step leaves alone.
LEMMA HandlersStay ==
  ASSUME RowsGrow, HandlersOK, UNCHANGED handler
  PROVE  HandlersOK'
BY HandlerStays DEF HandlersOK

\* A cluster that a step leaves alone.
LEMMA ClusterStays ==
  ASSUME RowsGrow, ClusterOK, UNCHANGED cluster
  PROVE  ClusterOK'
BY DEF RowsGrow, ClusterOK, cluster, Rows

\* The history that a step leaves alone, but for the faults.
LEMMA HistoryStays ==
  ASSUME RowsGrow, HistoryOK, UNCHANGED <<lost, retries, overwritten>>, faults' \in Nat
  PROVE  HistoryOK'
BY DEF RowsGrow, HistoryOK

\* Rows that a step leaves alone.
LEMMA RowsStay ==
  ASSUME RowsOK, UNCHANGED rows
  PROVE  RowsOK' /\ RowsGrow
BY DEF RowsOK, rows, RowsGrow, Rows

\* The cost of a fault.
LEMMA FaultCounts ==
  ASSUME HistoryOK, NEW what, Fault(what)
  PROVE  faults' \in Nat
BY BoundsAssumption DEF HistoryOK, Fault

-----------------------------------------------------------------------------
(* Workers and queues *)

\* A step of one worker.
LEMMA SetHandler ==
  ASSUME RowsGrow, HandlersOK, NEW w \in Worker, NEW h \in Handler, HandlerOK(w, h)',
         handler' = [handler EXCEPT ![w] = h]
  PROVE  HandlersOK'
<1>1. handler' \in [Worker -> Handler]
  BY DEF HandlersOK
<1>2. \A x \in Worker : handler'[x] = IF x = w THEN h ELSE handler[x]
  BY DEF HandlersOK
<1>3. \A x \in Worker : \A y : y = handler[x] => HandlerOK(x, y)'
  BY HandlerStays DEF HandlersOK
<1>4. ASSUME NEW x \in Worker, NEW y, y = handler'[x]
      PROVE  HandlerOK(x, y)'
  BY <1>2, <1>3, <1>4
<1> QED
  BY <1>1, <1>4 DEF HandlersOK

\* What a worker is when it goes on to a list of requests.
Triggering(h, todo) == [h EXCEPT !.pc = "trigger", !.todo = todo, !.made = 0]

\* The fields of a handler that goes on.
LEMMA TriggeringTyped ==
  ASSUME NEW h \in Handler, NEW todo \in Seq(Request)
  PROVE  /\ Triggering(h, todo) \in Handler
         /\ Triggering(h, todo).pc = "trigger" /\ Triggering(h, todo).todo = todo
         /\ Triggering(h, todo).msg = h.msg /\ Triggering(h, todo).subject = h.subject
BY DEF Triggering, Handler

\* A worker that has nothing to do.
LEMMA IdleTyped ==
  Idle \in Handler /\ Idle.pc = "idle" /\ Idle.todo = <<>>
BY DEF Idle, Handler, Message, NoMessage

\* Going on with well-formed requests.
LEMMA ContinueOK ==
  ASSUME RowsGrow, HandlersOK, NEW w \in Worker, NEW todo \in Seq(Request),
         ~At(w, "idle") \/ w = "user",
         \A i \in DOMAIN todo : RequestOK(todo[i])',
         Continue(w, todo)
  PROVE  HandlersOK'
<1>1. CASE todo = <<>>
  <2>1. handler' = [handler EXCEPT ![w] = Idle]
    BY <1>1 DEF Continue
  <2>2. HandlerOK(w, Idle)'
    BY IdleTyped DEF HandlerOK
  <2> QED
    BY <2>1, <2>2, IdleTyped, SetHandler
<1>2. CASE todo # <<>>
  <2> DEFINE h == Triggering(handler[w], todo)
  <2>1. handler' = [handler EXCEPT ![w] = h]
    BY <1>2 DEF Continue, Triggering
  <2>2. handler[w] \in Handler /\ HandlerOK(w, handler[w])
    BY DEF HandlersOK
  <2>3. h \in Handler /\ h.pc = "trigger" /\ h.todo = todo /\ h.msg = handler[w].msg
    BY <2>2, TriggeringTyped
  <2>4. w # "user" => MessageOK(w, handler[w].msg)
    BY <2>2 DEF HandlerOK, At
  <2>5. PICK k \in Handler : k = h
    BY <2>3
  <2>6. w # "user" => MessageOK(w, k.msg)
    BY <2>4, <2>5, <2>3
  <2> HIDE DEF h
  <2>7. HandlerOK(w, k)'
    BY <1>2, <2>3, <2>5, <2>6, MessageStays DEF HandlerOK
  <2> QED
    BY <2>1, <2>5, <2>7, SetHandler
<1> QED
  BY <1>1, <1>2

\* Publishing a well-formed message.
LEMMA PublishOK ==
  ASSUME RowsGrow, QueueOK, NEW t \in Topic, NEW p \in Pipeline \cup {Source},
         NEW subject \in Nat, NEW good \in BOOLEAN,
         t \in {"app", "sync"} => p \in Pipeline,
         t \in {"app", "stage"} => subject \in DOMAIN runner,
         Publish(t, p, subject, good)
  PROVE  QueueOK'
<1> DEFINE m == [id |-> sent + 1, pipeline |-> p, subject |-> subject,
                 good |-> good, again |-> FALSE]
<1>1. m \in Message /\ m.pipeline = p /\ m.subject = subject
  BY DEF Message, QueueOK
<1>2. queue' = [queue EXCEPT ![t] = Append(queue[t], m)] /\ sent' = sent + 1
  BY DEF Publish, Published
<1>3. PICK x \in Message : x = m
  BY <1>1
<1>4. MessageOK(t, x)
  BY <1>1, <1>3 DEF MessageOK
<1> HIDE DEF m
<1> QED
  BY <1>2, <1>3, <1>4, MessageStays DEF QueueOK

-----------------------------------------------------------------------------
(* What a reference leads to *)

\* A runner's pipeline, artifact and image.
LEMMA RunnerFacts ==
  ASSUME RowsOK, NEW r \in DOMAIN runner
  PROVE  /\ r \in Nat \ {0} /\ runner[r] \in Runner
         /\ runner[r].workflow \in DOMAIN workflow
         /\ PipelineOf(r) \in Pipeline
         /\ ArtifactOf(r) \in DOMAIN artifact
         /\ ImageOf(r) \in Image
<1>1. r \in Nat \ {0} /\ runner[r] \in Runner /\ runner[r].workflow \in DOMAIN workflow
  BY DEF RowsOK
<1>2. PICK wf \in DOMAIN workflow : wf = runner[r].workflow
  BY <1>1
<1>3. workflow[wf] \in Workflow /\ workflow[wf].artifact \in DOMAIN artifact
  BY DEF RowsOK
<1>4. PipelineOf(r) \in Pipeline /\ ArtifactOf(r) \in DOMAIN artifact
  BY <1>2, <1>3 DEF PipelineOf, ArtifactOf, Workflow
<1>5. PICK a \in DOMAIN artifact : a = ArtifactOf(r)
  BY <1>4
<1>6. artifact[a] \in Artifact
  BY DEF RowsOK
<1>7. ImageOf(r) \in Image
  BY <1>5, <1>6 DEF ImageOf, Artifact
<1> QED
  BY <1>1, <1>4, <1>7

\* What a worker's runners are triggered by.
LEMMA CauseTyped ==
  ASSUME HandlersOK, NEW w \in Worker
  PROVE  CauseOf(w) \in Cause
<1>1. handler[w].subject \in Nat
  BY DEF HandlersOK, Handler
<1> QED
  BY <1>1 DEF CauseOf, Cause

\* The requests for the pipelines below.
LEMMA ChildrenTyped ==
  ASSUME NEW p \in Pipeline \cup {Source}, NEW a \in Nat
  PROVE  /\ ChildRequests(p, a) \in Seq(Request)
         /\ \A i \in DOMAIN ChildRequests(p, a) :
              /\ ChildRequests(p, a)[i].artifact = a
              /\ ChildRequests(p, a)[i].workflow = 0
<1>1. Children[p] \in Seq(Pipeline)
  BY PipelineAssumption
<1>2. \A q \in Pipeline : /\ AutoRequest(q, a) \in Request
                          /\ AutoRequest(q, a).artifact = a /\ AutoRequest(q, a).workflow = 0
  BY DEF AutoRequest, Request
<1>3. DOMAIN ChildRequests(p, a) = 1 .. Len(Children[p])
  BY <1>1 DEF ChildRequests
<1>4. \A i \in DOMAIN ChildRequests(p, a) :
        Children[p][i] \in Pipeline /\ ChildRequests(p, a)[i] = AutoRequest(Children[p][i], a)
  BY <1>1 DEF ChildRequests
<1>5. ChildRequests(p, a) \in [1 .. Len(Children[p]) -> Request]
  BY <1>1, <1>2, <1>3, <1>4 DEF ChildRequests
<1>6. ChildRequests(p, a) \in Seq(Request)
  BY <1>1, <1>5
<1> QED
  BY <1>2, <1>4, <1>6

\* Updating runners.
LEMMA UpdateRunners ==
  ASSUME RowsOK, UNCHANGED <<artifact, workflow, cause>>,
         DOMAIN runner' = DOMAIN runner,
         \A r \in DOMAIN runner : runner'[r] \in Runner /\ runner'[r].workflow = runner[r].workflow,
         runner' = [r \in DOMAIN runner' |-> runner'[r]],
         override' \in [Pipeline -> Rows(runner)]
  PROVE  RowsOK' /\ RowsGrow
<1>1. DOMAIN runner = 1 .. Len(runner) /\ Len(runner) \in Nat
  BY DEF RowsOK
<1>2. runner' \in [1 .. Len(runner) -> Runner]
  BY <1>1
<1>3. runner' \in Seq(Runner) /\ Len(runner') = Len(runner)
  BY <1>1, <1>2
<1>4. override' \in [Pipeline -> Rows(runner')]
  BY DEF Rows
<1>5. RowsGrow
  BY DEF RowsGrow
<1>6. artifact' \in Seq(Artifact) /\ workflow' \in Seq(Workflow) /\ cause' \in Seq(Cause)
      /\ \A wf \in DOMAIN workflow' : workflow'[wf].artifact \in DOMAIN artifact'
  BY DEF RowsOK
<1>7. Len(cause') = Len(runner')
  BY <1>3 DEF RowsOK
<1>8. \A r \in DOMAIN runner' : runner'[r].workflow \in DOMAIN workflow'
  BY DEF RowsOK
<1> QED
  BY <1>3, <1>4, <1>5, <1>6, <1>7, <1>8 DEF RowsOK

\* Updating one runner.
LEMMA UpdateRunner ==
  ASSUME RowsOK, UNCHANGED <<artifact, workflow, cause>>,
         NEW r \in DOMAIN runner, NEW new \in Runner, new.workflow = runner[r].workflow,
         runner' = [runner EXCEPT ![r] = new],
         override' \in [Pipeline -> Rows(runner)]
  PROVE  RowsOK' /\ RowsGrow
<1>1. \A x \in DOMAIN runner : runner[x] \in Runner
  BY DEF RowsOK
<1>2. runner' = [x \in DOMAIN runner' |-> runner'[x]] /\ DOMAIN runner' = DOMAIN runner
  OBVIOUS
<1>3. \A x \in DOMAIN runner : runner'[x] = IF x = r THEN new ELSE runner[x]
  OBVIOUS
<1> QED
  BY <1>1, <1>2, <1>3, UpdateRunners

\* Adding an artifact.
LEMMA AddArtifact ==
  ASSUME RowsOK, NEW new \in Artifact, artifact' = Append(artifact, new),
         UNCHANGED <<workflow, runner, override, cause>>
  PROVE  RowsOK' /\ RowsGrow /\ Len(artifact) + 1 \in DOMAIN artifact'
BY DEF RowsOK, RowsGrow, Rows

\* Adding a runner.
LEMMA AddRunner ==
  ASSUME RowsOK, NEW old \in Seq(Runner), Len(old) = Len(runner),
         \A r \in DOMAIN runner : old[r].workflow = runner[r].workflow,
         NEW new \in Runner, runner' = Append(old, new), new.workflow \in DOMAIN workflow',
         DOMAIN workflow \subseteq DOMAIN workflow', workflow' \in Seq(Workflow),
         \A wf \in DOMAIN workflow' : workflow'[wf].artifact \in DOMAIN artifact,
         NEW c \in Cause, cause' = Append(cause, c),
         UNCHANGED <<artifact, override>>
  PROVE  RowsOK' /\ RowsGrow /\ Len(runner) + 1 \in DOMAIN runner'
<1>1. runner' \in Seq(Runner) /\ Len(runner') = Len(runner) + 1
      /\ DOMAIN runner' = DOMAIN runner \cup {Len(runner) + 1}
  BY DEF RowsOK
<1>2. \A r \in DOMAIN runner : runner'[r] = old[r]
  BY DEF RowsOK
<1>3. runner'[Len(runner) + 1] = new
  BY DEF RowsOK
<1>4. \A r \in DOMAIN runner' : runner'[r].workflow \in DOMAIN workflow'
  BY <1>1, <1>2, <1>3 DEF RowsOK
<1>5. cause' \in Seq(Cause) /\ Len(cause') = Len(runner')
  BY <1>1 DEF RowsOK
<1>6. override' \in [Pipeline -> Rows(runner')]
  BY <1>1 DEF RowsOK, Rows
<1>7. RowsGrow
  BY <1>1 DEF RowsGrow
<1>8. artifact' \in Seq(Artifact)
      /\ \A wf \in DOMAIN workflow' : workflow'[wf].artifact \in DOMAIN artifact'
  BY DEF RowsOK
<1> QED
  BY <1>1, <1>4, <1>5, <1>6, <1>7, <1>8 DEF RowsOK

-----------------------------------------------------------------------------
(* The steps of the cluster and of the topics *)

\* A build succeeds.
LEMMA BuildSucceedsTyped ==
  ASSUME TypeOK, BuildSucceeds
  PROVE  TypeOK'
<1>1. RowsOK' /\ RowsGrow
  BY RowsStay DEF TypeOK, BuildSucceeds
<1>2. QueueOK'
  <2>1. builds + 1 \in Nat /\ Source \in Pipeline \cup {Source} /\ "ci" \in Topic
    BY DEF TypeOK, ClusterOK, Topic
  <2>2. QueueOK /\ Publish("ci", Source, builds + 1, TRUE)
    BY DEF TypeOK, BuildSucceeds
  <2> QED
    BY <1>1, <2>1, <2>2, PublishOK
<1>3. ClusterOK'
  BY <1>1 DEF TypeOK, BuildSucceeds, ClusterOK, rows
<1>4. HandlersOK' /\ HistoryOK'
  BY <1>1, HandlersStay, HistoryStays DEF TypeOK, BuildSucceeds, HistoryOK
<1> QED
  BY <1>1, <1>2, <1>3, <1>4 DEF TypeOK

\* A stage ends.
LEMMA StageEndsTyped ==
  ASSUME TypeOK, NEW r \in running, NEW good \in BOOLEAN, StageEnds(r, good)
  PROVE  TypeOK'
<1>1. RowsOK' /\ RowsGrow
  BY RowsStay DEF TypeOK, StageEnds
<1>2. r \in DOMAIN runner /\ r \in Nat /\ PipelineOf(r) \in Pipeline
  <2>1. r \in DOMAIN runner
    BY DEF TypeOK, ClusterOK
  <2> QED
    BY <2>1, RunnerFacts DEF TypeOK
<1>3. QueueOK'
  <2>1. QueueOK /\ Publish("stage", PipelineOf(r), r, good) /\ "stage" \in Topic
    BY DEF TypeOK, StageEnds, Topic
  <2> QED
    BY <1>1, <1>2, <2>1, PublishOK
<1>4. ClusterOK'
  BY <1>1, <1>2 DEF TypeOK, StageEnds, ClusterOK, rows
<1>5. HandlersOK' /\ HistoryOK'
  BY <1>1, HandlersStay, HistoryStays DEF TypeOK, StageEnds, HistoryOK
<1> QED
  BY <1>1, <1>3, <1>4, <1>5 DEF TypeOK

\* A deployment becomes healthy.
LEMMA AppHealthyTyped ==
  ASSUME TypeOK, NEW p \in Pipeline, AppHealthy(p)
  PROVE  TypeOK'
<1>1. RowsOK' /\ RowsGrow
  BY RowsStay DEF TypeOK, AppHealthy
<1>2. app[p] \in [subject: Rows(runner), healthy: BOOLEAN] /\ app[p].subject # 0
  BY DEF TypeOK, ClusterOK, AppHealthy
<1>3. app[p].subject \in DOMAIN runner /\ app[p].subject \in Nat
  BY <1>2 DEF TypeOK, RowsOK, Rows
<1>4. QueueOK'
  <2>1. QueueOK /\ Publish("app", p, app[p].subject, TRUE) /\ "app" \in Topic
    BY DEF TypeOK, AppHealthy, Topic
  <2> QED
    BY <1>1, <1>3, <2>1, PublishOK
<1>5. ClusterOK'
  <2>1. app' \in [Pipeline -> [subject: Rows(runner), healthy: BOOLEAN]]
    BY <1>2 DEF TypeOK, ClusterOK, AppHealthy
  <2> QED
    BY <1>1, <1>3, <2>1 DEF TypeOK, AppHealthy, ClusterOK, rows
<1>6. HandlersOK' /\ HistoryOK'
  BY <1>1, HandlersStay, HistoryStays DEF TypeOK, AppHealthy, HistoryOK
<1> QED
  BY <1>1, <1>4, <1>5, <1>6 DEF TypeOK

\* The state of an application is published again.
LEMMA ResendTyped ==
  ASSUME TypeOK, NEW p \in Pipeline, Resend(p)
  PROVE  TypeOK'
<1>1. RowsOK' /\ RowsGrow
  BY RowsStay DEF TypeOK, Resend
<1>2. app[p] \in [subject: Rows(runner), healthy: BOOLEAN] /\ app[p].subject # 0
  BY DEF TypeOK, ClusterOK, Resend
<1>3. app[p].subject \in DOMAIN runner /\ app[p].subject \in Nat /\ app[p].healthy \in BOOLEAN
  BY <1>2 DEF TypeOK, RowsOK, Rows
<1>4. QueueOK'
  <2>1. QueueOK /\ Publish("app", p, app[p].subject, app[p].healthy) /\ "app" \in Topic
    BY DEF TypeOK, Resend, Topic
  <2> QED
    BY <1>1, <1>3, <2>1, PublishOK
<1>5. ClusterOK' /\ HandlersOK' /\ HistoryOK'
  BY <1>1, ClusterStays, HandlersStay, HistoryStays, FaultCounts DEF TypeOK, Resend
<1> QED
  BY <1>1, <1>4, <1>5 DEF TypeOK

\* The cron asks for a look at an application.
LEMMA SyncByCronTyped ==
  ASSUME TypeOK, NEW p \in Pipeline, SyncByCron(p)
  PROVE  TypeOK'
<1>1. RowsOK' /\ RowsGrow
  BY RowsStay DEF TypeOK, SyncByCron
<1>2. QueueOK'
  <2>1. QueueOK /\ Publish("sync", p, 0, FALSE) /\ "sync" \in Topic /\ 0 \in Nat
    BY DEF TypeOK, SyncByCron, Topic
  <2> QED
    BY <1>1, <2>1, PublishOK
<1>3. ClusterOK' /\ HandlersOK' /\ HistoryOK'
  BY <1>1, ClusterStays, HandlersStay, HistoryStays, FaultCounts DEF TypeOK, SyncByCron
<1> QED
  BY <1>1, <1>2, <1>3 DEF TypeOK

\* What a worker is when it takes a message.
Taken(pc, m) ==
  [pc |-> pc, msg |-> m, subject |-> m.subject, good |-> m.good, todo |-> <<>>, made |-> 0]

\* The fields of a worker that takes a message.
LEMMA TakenTyped ==
  ASSUME NEW m \in Message, NEW pc \in {"check", "begin"}
  PROVE  LET h == Taken(pc, m) IN
         /\ h \in Handler
         /\ h.pc = pc /\ h.msg = m /\ h.subject = m.subject /\ h.todo = <<>>
<1>1. m.subject \in Nat /\ m.good \in BOOLEAN
  BY DEF Message
<1>2. PICK subject \in Nat, good \in BOOLEAN : subject = m.subject /\ good = m.good
  BY <1>1
<1>3. Taken(pc, m) = [pc |-> pc, msg |-> m, subject |-> subject, good |-> good,
                      todo |-> <<>>, made |-> 0]
  BY <1>2 DEF Taken
<1>4. <<>> \in Seq(Request)
  OBVIOUS
<1>5. [pc |-> pc, msg |-> m, subject |-> subject, good |-> good,
       todo |-> <<>>, made |-> 0] \in Handler
  BY <1>4 DEF Handler
<1> QED
  BY <1>2, <1>3, <1>5

\* A message is taken.
LEMMA TakeTyped ==
  ASSUME TypeOK, NEW t \in Topic, Take(t)
  PROVE  TypeOK'
<1>1. RowsOK' /\ RowsGrow
  BY RowsStay DEF TypeOK, Take
<1> DEFINE m == Head(queue[t])
           h == Taken(IF t = "app" THEN "check" ELSE "begin", m)
<1>2. m \in Message /\ MessageOK(t, m)
  <2>1. queue[t] \in Seq(Message) /\ queue[t] # <<>> /\ 1 \in DOMAIN queue[t] /\ m = queue[t][1]
    BY DEF TypeOK, QueueOK, Take
  <2> QED
    BY <2>1 DEF TypeOK, QueueOK
<1>3. QueueOK'
  <2>1. Tail(queue[t]) \in Seq(Message)
        /\ \A i \in DOMAIN Tail(queue[t]) : MessageOK(t, Tail(queue[t])[i])
    BY DEF TypeOK, QueueOK, Take
  <2>2. queue' = [queue EXCEPT ![t] = Tail(queue[t])] /\ sent' = sent
    BY DEF Take
  <2>3. \A x \in Topic : \A i \in DOMAIN queue'[x] : MessageOK(x, queue'[x][i])
    BY <2>1, <2>2 DEF TypeOK, QueueOK
  <2>4. \A x \in Topic : \A i \in DOMAIN queue'[x] : \A y : y = queue'[x][i] => MessageOK(x, y)'
    BY <1>1, <2>3, MessageStays
  <2> QED
    BY <2>1, <2>2, <2>4 DEF TypeOK, QueueOK
<1>4. HandlersOK'
  <2>1. CASE m.again /\ AlreadyTriggered(m)
    BY <1>1, <2>1, HandlersStay DEF TypeOK, Take
  <2>2. CASE ~(m.again /\ AlreadyTriggered(m))
    <3>1. handler' = [handler EXCEPT ![t] = h] /\ t \in Worker
      BY <2>2 DEF Take, Worker, Taken
    <3>2. PICK x \in Message : x = m
      BY <1>2
    <3>3. /\ h \in Handler /\ h.msg = x /\ h.subject = x.subject /\ h.todo = <<>>
          /\ h.pc = IF t = "app" THEN "check" ELSE "begin"
      <4>1. PICK pc \in {"check", "begin"} : pc = IF t = "app" THEN "check" ELSE "begin"
        OBVIOUS
      <4>2. h = Taken(pc, x)
        BY <3>2, <4>1
      <4> QED
        BY <4>1, <4>2, TakenTyped
    <3>4. MessageOK(t, x)'
      BY <1>1, <1>2, <3>2, MessageStays
    <3>5. PICK k \in Handler : k = h
      BY <3>3
    <3> HIDE DEF h
    <3>6. HandlerOK(t, k)'
      BY <3>3, <3>4, <3>5 DEF HandlerOK, MessageOK
    <3> QED
      BY <1>1, <3>1, <3>5, <3>6, SetHandler DEF TypeOK
  <2> QED
    BY <2>1, <2>2
<1>5. ClusterOK' /\ HistoryOK'
  BY <1>1, ClusterStays, HistoryStays DEF TypeOK, Take, HistoryOK
<1> QED
  BY <1>1, <1>3, <1>4, <1>5 DEF TypeOK

\* A worker's message, delivered again, is as well formed as before.
LEMMA AgainOK ==
  ASSUME HandlersOK, NEW t \in Topic, ~At(t, "idle")
  PROVE  /\ [Msg(t) EXCEPT !.again = TRUE] \in Message
         /\ MessageOK(t, [Msg(t) EXCEPT !.again = TRUE])
<1>1. handler[t] \in Handler /\ HandlerOK(t, handler[t]) /\ t # "user"
  BY DEF HandlersOK, Worker, Topic
<1>2. Msg(t) \in Message /\ MessageOK(t, Msg(t))
  BY <1>1 DEF Handler, HandlerOK, Msg, At
<1>3. PICK x \in Message : x = Msg(t)
  BY <1>2
<1> QED
  BY <1>2, <1>3 DEF Message, MessageOK

\* A message is delivered again.
LEMMA RedeliverTyped ==
  ASSUME TypeOK, NEW t \in Topic, Redeliver(t)
  PROVE  TypeOK'
<1>1. RowsOK' /\ RowsGrow
  BY RowsStay DEF TypeOK, Redeliver
<1>2. PICK m \in Message : m = [Msg(t) EXCEPT !.again = TRUE] /\ MessageOK(t, m)
  BY AgainOK DEF TypeOK, Redeliver
<1>3. QueueOK'
  <2>1. queue' = [queue EXCEPT ![t] = Append(queue[t], m)] /\ sent' = sent
    BY <1>2 DEF Redeliver
  <2>2. \A x \in Topic : \A i \in DOMAIN queue'[x] : MessageOK(x, queue'[x][i])
    BY <1>2, <2>1 DEF TypeOK, QueueOK
  <2>3. \A x \in Topic : \A i \in DOMAIN queue'[x] : \A y : y = queue'[x][i] => MessageOK(x, y)'
    BY <1>1, <2>2, MessageStays
  <2> QED
    BY <2>1, <2>3 DEF TypeOK, QueueOK
<1>4. ClusterOK' /\ HandlersOK' /\ HistoryOK'
  BY <1>1, ClusterStays, HandlersStay, HistoryStays, FaultCounts DEF TypeOK, Redeliver
<1> QED
  BY <1>1, <1>3, <1>4 DEF TypeOK

\* The process crashes.
LEMMA CrashTyped ==
  ASSUME TypeOK, Crash
  PROVE  TypeOK'
<1>1. RowsOK' /\ RowsGrow
  BY RowsStay DEF TypeOK, Crash
<1>2. QueueOK'
  <2>1. ASSUME NEW t \in Topic
        PROVE  /\ Requeued[t] \in Seq(Message)
               /\ \A i \in DOMAIN Requeued[t] : MessageOK(t, Requeued[t][i])
    <3>1. queue[t] \in Seq(Message) /\ \A i \in DOMAIN queue[t] : MessageOK(t, queue[t][i])
      BY DEF TypeOK, QueueOK
    <3>2. CASE Interrupted(t)
      <4>1. PICK m \in Message : m = [Msg(t) EXCEPT !.again = TRUE] /\ MessageOK(t, m)
        BY <3>2, AgainOK DEF TypeOK, Interrupted
      <4>2. Requeued[t] = <<m>> \o queue[t]
        BY <3>2, <4>1 DEF Requeued
      <4>3. <<m>> \o queue[t] \in Seq(Message)
            /\ \A i \in DOMAIN (<<m>> \o queue[t]) :
                 (<<m>> \o queue[t])[i] = m
                 \/ \E j \in DOMAIN queue[t] : (<<m>> \o queue[t])[i] = queue[t][j]
        <5>1. \A i \in DOMAIN (<<m>> \o queue[t]) :
                IF i = 1 THEN (<<m>> \o queue[t])[i] = m
                ELSE i - 1 \in DOMAIN queue[t] /\ (<<m>> \o queue[t])[i] = queue[t][i - 1]
          BY <3>1
        <5> QED
          BY <3>1, <5>1
      <4> QED
        BY <3>1, <4>1, <4>2, <4>3
    <3>3. CASE ~Interrupted(t)
      BY <3>1, <3>3 DEF Requeued
    <3> QED
      BY <3>2, <3>3
  <2>2. queue' = [t \in Topic |-> Requeued[t]] /\ sent' = sent
    BY DEF Crash, Requeued
  <2>3. \A t \in Topic : \A i \in DOMAIN queue'[t] : \A y : y = queue'[t][i] => MessageOK(t, y)'
    BY <1>1, <2>1, <2>2, MessageStays
  <2> QED
    BY <2>1, <2>2, <2>3 DEF TypeOK, QueueOK
<1>3. HandlersOK'
  <2>1. \A w \in Worker : HandlerOK(w, Idle)'
    BY IdleTyped DEF HandlerOK
  <2>2. handler' = [w \in Worker |-> Idle]
    BY DEF Crash
  <2>3. \A w \in Worker : \A y : y = handler'[w] => HandlerOK(w, y)'
    BY <2>1, <2>2
  <2> QED
    BY <2>2, <2>3, IdleTyped DEF HandlersOK
<1>4. ClusterOK'
  BY <1>1, ClusterStays DEF TypeOK, Crash
<1>5. HistoryOK'
  <2>1. \A t \in Topic : CauseOf(t) \in Cause
    BY CauseTyped DEF TypeOK, Worker
  <2>2. lost' \subseteq Cause
    BY <2>1 DEF Crash, TypeOK, HistoryOK
  <2>3. faults' \in Nat
    BY FaultCounts DEF Crash, TypeOK
  <2> QED
    BY <1>1, <2>2, <2>3 DEF Crash, TypeOK, HistoryOK, rows
<1> QED
  BY <1>1, <1>2, <1>3, <1>4, <1>5 DEF TypeOK

-----------------------------------------------------------------------------
(* The steps of a worker *)

\* A worker's fields, and the requests it has left.
LEMMA HandlerFacts ==
  ASSUME HandlersOK, NEW w \in Worker
  PROVE  /\ handler[w] \in Handler /\ HandlerOK(w, handler[w])
         /\ handler[w].todo \in Seq(Request) /\ handler[w].msg \in Message
         /\ handler[w].subject \in Nat /\ handler[w].good \in BOOLEAN
         /\ \A i \in DOMAIN handler[w].todo : RequestOK(handler[w].todo[i])
BY DEF HandlersOK, HandlerOK, Handler

\* The request a worker is at, and those after it.
LEMMA TodoFacts ==
  ASSUME HandlersOK, NEW w \in Worker, At(w, "trigger")
  PROVE  /\ Head(handler[w].todo) \in Request /\ RequestOK(Head(handler[w].todo))
         /\ Tail(handler[w].todo) \in Seq(Request)
         /\ \A i \in DOMAIN Tail(handler[w].todo) : RequestOK(Tail(handler[w].todo)[i])
<1>1. handler[w].todo # <<>>
  BY DEF HandlersOK, HandlerOK, At
<1>2. PICK todo \in Seq(Request) : todo = handler[w].todo
  BY HandlerFacts
<1>3. \A i \in DOMAIN todo : RequestOK(todo[i])
  BY <1>2, HandlerFacts
<1>4. todo # <<>> /\ 1 \in DOMAIN todo /\ Head(todo) = todo[1]
  BY <1>1, <1>2
<1>5. \A i \in DOMAIN Tail(todo) : i + 1 \in DOMAIN todo /\ Tail(todo)[i] = todo[i + 1]
  BY <1>4
<1>6. Head(todo) \in Request /\ Tail(todo) \in Seq(Request)
  BY <1>4
<1> QED
  BY <1>2, <1>3, <1>4, <1>5, <1>6

\* Requests that are well formed before a step are so after it.
LEMMA RequestsStay ==
  ASSUME RowsGrow, NEW todo, \A i \in DOMAIN todo : RequestOK(todo[i])
  PROVE  \A i \in DOMAIN todo : RequestOK(todo[i])'
BY RequestStays

\* A runner's status.
LEMMA StatusTyped ==
  ASSUME NEW x \in Runner, NEW s \in {"Initiated", "Starting", "Progressing", "Succeeded", "Failed"}
  PROVE  /\ [x EXCEPT !.status = s] \in Runner
         /\ [x EXCEPT !.status = s].workflow = x.workflow
BY DEF Runner

\* A deployment with one more timeline.
LEMMA HealthyTyped ==
  ASSUME NEW x \in Runner
  PROVE  /\ [x EXCEPT !.healthy = x.healthy + 1] \in Runner
         /\ [x EXCEPT !.healthy = x.healthy + 1].workflow = x.workflow
BY DEF Runner

\* The only request of a worker.
LEMMA RequestTyped ==
  ASSUME NEW act \in {"auto", "deploy", "post", "userPRE", "userDEPLOY", "userPOST"},
         NEW p \in Pipeline, NEW a \in Nat, NEW wf \in Nat
  PROVE  LET todo == <<[act |-> act, pipeline |-> p, artifact |-> a, workflow |-> wf]>> IN
         /\ todo \in Seq(Request)
         /\ \A j \in DOMAIN todo : todo[j].artifact = a /\ todo[j].workflow = wf
<1> DEFINE q == [act |-> act, pipeline |-> p, artifact |-> a, workflow |-> wf]
<1>1. q \in Request /\ q.artifact = a /\ q.workflow = wf
  BY DEF Request
<1> HIDE DEF q
<1>2. <<q>> \in Seq(Request) /\ \A j \in DOMAIN <<q>> : <<q>>[j] = q
  BY <1>1
<1> QED
  BY <1>1, <1>2 DEF q

\* What a worker is when it looks at the live application.
Looking(h, r, good) == [h EXCEPT !.pc = "check", !.subject = r, !.good = good]

\* The fields of a worker that looks at an application.
LEMMA LookingTyped ==
  ASSUME NEW h \in Handler, NEW r \in Nat, NEW good \in BOOLEAN
  PROVE  /\ Looking(h, r, good) \in Handler
         /\ Looking(h, r, good).pc = "check" /\ Looking(h, r, good).subject = r
         /\ Looking(h, r, good).msg = h.msg /\ Looking(h, r, good).todo = h.todo
BY DEF Looking, Handler

\* A worker that goes on with the runner it is about.
LEMMA MovePc ==
  ASSUME RowsGrow, HandlersOK, NEW w \in Worker, ~At(w, "idle"),
         NEW pc \in {"check", "timeline", "recheck", "status", "copy"},
         handler[w].subject \in DOMAIN runner,
         handler' = [handler EXCEPT ![w] = [handler[w] EXCEPT !.pc = pc]]
  PROVE  HandlersOK'
<1> DEFINE h == [handler[w] EXCEPT !.pc = pc]
<1>1. handler[w] \in Handler
  BY HandlerFacts
<1>2. PICK g \in Handler : g = handler[w]
  BY <1>1
<1>3. [g EXCEPT !.pc = pc] \in Handler
      /\ [g EXCEPT !.pc = pc].pc = pc /\ [g EXCEPT !.pc = pc].msg = g.msg
      /\ [g EXCEPT !.pc = pc].subject = g.subject /\ [g EXCEPT !.pc = pc].todo = g.todo
  BY DEF Handler
<1>4. PICK k \in Handler : k = h /\ k.pc = pc /\ k.msg = g.msg /\ k.subject = g.subject
                           /\ k.todo = g.todo
  BY <1>2, <1>3
<1>5. g.pc # "idle" /\ HandlerOK(w, g)
  BY <1>2, HandlerFacts DEF At
<1>6. HandlerOK(w, k)
  BY <1>2, <1>4, <1>5 DEF HandlerOK
<1>7. HandlerOK(w, k)'
  BY <1>6, HandlerStays
<1>8. handler' = [handler EXCEPT ![w] = k]
  BY <1>4
<1> QED
  BY <1>7, <1>8, SetHandler

\* A request that starts nothing.
LEMMA SkipTyped ==
  ASSUME TypeOK, NEW w \in Worker, Skip(w)
  PROVE  TypeOK'
<1>1. RowsOK' /\ RowsGrow
  BY RowsStay DEF TypeOK, Skip
<1>2. HandlersOK'
  BY <1>1, TodoFacts, RequestsStay, ContinueOK DEF TypeOK, Skip, At
<1>3. QueueOK' /\ ClusterOK' /\ HistoryOK'
  BY <1>1, QueueStays, ClusterStays, HistoryStays DEF TypeOK, Skip, HistoryOK
<1> QED
  BY <1>1, <1>2, <1>3 DEF TypeOK

\* The pod of a stage is created.
LEMMA SubmitStageTyped ==
  ASSUME TypeOK, NEW w \in Worker, SubmitStage(w)
  PROVE  TypeOK'
<1>1. RowsOK' /\ RowsGrow
  BY RowsStay DEF TypeOK, SubmitStage
<1>2. HandlersOK'
  <2>1. ~At(w, "idle") /\ Continue(w, handler[w].todo)
    BY DEF SubmitStage, At
  <2>2. \A i \in DOMAIN handler[w].todo : RequestOK(handler[w].todo[i])
    BY HandlerFacts DEF TypeOK
  <2>3. PICK todo \in Seq(Request) : todo = handler[w].todo
    BY HandlerFacts DEF TypeOK
  <2>4. \A i \in DOMAIN todo : RequestOK(todo[i])'
    BY <1>1, <2>2, <2>3, RequestsStay
  <2> QED
    BY <1>1, <2>1, <2>3, <2>4, ContinueOK DEF TypeOK
<1>3. handler[w].made \in DOMAIN runner
  BY HandlerFacts DEF TypeOK, HandlerOK, SubmitStage, At
<1>4. ClusterOK'
  BY <1>3 DEF TypeOK, ClusterOK, SubmitStage, rows
<1>5. QueueOK' /\ HistoryOK'
  BY <1>1, QueueStays, HistoryStays DEF TypeOK, SubmitStage, HistoryOK
<1> QED
  BY <1>1, <1>2, <1>4, <1>5 DEF TypeOK

\* A build's artifact is saved.
LEMMA HandleCiSuccessTyped ==
  ASSUME TypeOK, NEW w \in Worker, HandleCiSuccess(w)
  PROVE  TypeOK'
<1>1. handler[w].subject \in Nat /\ ~At(w, "idle")
  BY HandlerFacts DEF TypeOK, HandleCiSuccess, At
<1>2. PICK n \in Nat : n = handler[w].subject
  BY <1>1
<1>3. PICK a \in Artifact : a = [image |-> [build |-> n, copies |-> <<>>],
                                 pipeline |-> Source, stage |-> "CI"]
  <2>1. <<>> \in Seq(Pipeline \X Stage)
    OBVIOUS
  <2>2. [build |-> n, copies |-> <<>>] \in Image
    BY <2>1 DEF Image
  <2> QED
    BY <2>2 DEF Artifact
<1>4. RowsOK' /\ RowsGrow /\ Len(artifact) + 1 \in DOMAIN artifact'
  BY <1>2, <1>3, AddArtifact DEF TypeOK, HandleCiSuccess
<1>5. Len(artifact) + 1 \in Nat
  BY DEF TypeOK, RowsOK
<1>6. PICK i \in Nat : i = Len(artifact) + 1
  BY <1>5
<1>7. PICK todo \in Seq(Request) :
        /\ todo = ChildRequests(Source, i)
        /\ \A j \in DOMAIN todo : todo[j].artifact = i /\ todo[j].workflow = 0
  BY ChildrenTyped
<1>8. \A j \in DOMAIN todo : RequestOK(todo[j])'
  BY <1>4, <1>6, <1>7 DEF RequestOK, Rows
<1>9. Continue(w, todo)
  BY <1>6, <1>7 DEF HandleCiSuccess
<1>10. HandlersOK'
  BY <1>1, <1>4, <1>8, <1>9, ContinueOK DEF TypeOK
<1>11. QueueOK' /\ ClusterOK' /\ HistoryOK'
  BY <1>4, QueueStays, ClusterStays, HistoryStays DEF TypeOK, HandleCiSuccess, HistoryOK
<1> QED
  BY <1>4, <1>10, <1>11 DEF TypeOK

\* A stage's report is stored.
LEMMA ReportStageTyped ==
  ASSUME TypeOK, NEW w \in Worker, ReportStage(w)
  PROVE  TypeOK'
<1>1. PICK r \in DOMAIN runner : r = handler[w].subject
  BY HandlerFacts DEF TypeOK, HandlerOK, ReportStage, At
<1>2. override \in [Pipeline -> Rows(runner)] /\ runner[r] \in Runner
  BY DEF TypeOK, RowsOK
<1>3. RowsOK' /\ RowsGrow
  <2>1. CASE Terminal(r)
    <3>1. UNCHANGED rows
      BY <1>1, <2>1 DEF ReportStage, rows
    <3> QED
      BY <3>1, RowsStay DEF TypeOK
  <2>2. CASE ~Terminal(r)
    <3>1. PICK s \in {"Succeeded", "Failed"} : s = IF handler[w].good THEN "Succeeded" ELSE "Failed"
      OBVIOUS
    <3>2. PICK new \in Runner : new = [runner[r] EXCEPT !.status = s]
                                /\ new.workflow = runner[r].workflow
      BY <1>2, StatusTyped
    <3>3. runner' = [runner EXCEPT ![r] = new] /\ UNCHANGED <<artifact, workflow, cause, override>>
      BY <1>1, <2>2, <3>1, <3>2 DEF ReportStage
    <3> QED
      BY <1>2, <3>2, <3>3, UpdateRunner DEF TypeOK
  <2> QED
    BY <2>1, <2>2
<1>4. HandlersOK'
  <2>1. CASE handler[w].good
    <3>1. handler' = [handler EXCEPT ![w] = [handler[w] EXCEPT !.pc = "copy"]] /\ ~At(w, "idle")
      BY <2>1 DEF ReportStage, At
    <3> QED
      BY <1>1, <1>3, <3>1, MovePc DEF TypeOK
  <2>2. CASE ~handler[w].good
    <3>1. handler' = [handler EXCEPT ![w] = Idle] /\ HandlerOK(w, Idle)'
      BY <2>2, IdleTyped DEF ReportStage, HandlerOK
    <3> QED
      BY <1>3, <3>1, IdleTyped, SetHandler DEF TypeOK
  <2> QED
    BY <2>1, <2>2
<1>5. QueueOK' /\ ClusterOK' /\ HistoryOK'
  BY <1>3, QueueStays, ClusterStays, HistoryStays DEF TypeOK, ReportStage, HistoryOK
<1> QED
  BY <1>3, <1>4, <1>5 DEF TypeOK

\* A live application is fetched.
LEMMA FetchAppTyped ==
  ASSUME TypeOK, NEW w \in Worker, FetchApp(w)
  PROVE  TypeOK'
<1>1. RowsOK' /\ RowsGrow
  BY RowsStay DEF TypeOK, FetchApp
<1> DEFINE p == Msg(w).pipeline
           g == Looking(handler[w], app[p].subject, app[p].healthy)
<1>2. HandlersOK'
  <2>1. CASE handler' = [handler EXCEPT ![w] = Idle]
    <3>1. HandlerOK(w, Idle)'
      BY IdleTyped DEF HandlerOK
    <3> QED
      BY <1>1, <2>1, <3>1, IdleTyped, SetHandler DEF TypeOK
  <2>2. CASE handler' = [handler EXCEPT ![w] = g] /\ app[p].subject # 0
    <3>1. p \in Pipeline /\ w = "sync" /\ handler[w].pc = "begin"
      BY HandlerFacts DEF TypeOK, HandlerOK, FetchApp, At, MessageOK, Msg
    <3>2. app[p] \in [subject: Rows(runner), healthy: BOOLEAN]
      BY <3>1 DEF TypeOK, ClusterOK
    <3>3. PICK r \in DOMAIN runner : r = app[p].subject
      BY <2>2, <3>2 DEF Rows
    <3>4. r \in Nat
      BY DEF TypeOK, RowsOK
    <3>5. PICK good \in BOOLEAN : good = app[p].healthy
      BY <3>2
    <3>6. PICK h \in Handler : h = handler[w] /\ HandlerOK(w, h)
      BY HandlerFacts DEF TypeOK
    <3>7. PICK k \in Handler :
            /\ k = Looking(h, r, good)
            /\ k.pc = "check" /\ k.subject = r /\ k.msg = h.msg /\ k.todo = h.todo
      BY <3>4, LookingTyped
    <3>8. k = g
      BY <3>3, <3>5, <3>6, <3>7
    <3> HIDE DEF g
    <3>9. HandlerOK(w, k)
      BY <3>1, <3>6, <3>7 DEF HandlerOK
    <3> QED
      BY <1>1, <2>2, <3>8, <3>9, HandlerStays, SetHandler DEF TypeOK
  <2> QED
    BY <2>1, <2>2 DEF FetchApp, Looking
<1>3. QueueOK' /\ ClusterOK' /\ HistoryOK'
  BY <1>1, QueueStays, ClusterStays, HistoryStays DEF TypeOK, FetchApp, HistoryOK
<1> QED
  BY <1>1, <1>2, <1>3 DEF TypeOK

\* The state of an application is checked.
LEMMA CheckAppTyped ==
  ASSUME TypeOK, NEW w \in Worker, CheckApp(w)
  PROVE  TypeOK'
<1>1. RowsOK' /\ RowsGrow
  BY RowsStay DEF TypeOK, CheckApp
<1>2. HandlersOK'
  <2>1. CASE handler' = [handler EXCEPT ![w] = Idle]
    <3>1. HandlerOK(w, Idle)'
      BY IdleTyped DEF HandlerOK
    <3> QED
      BY <1>1, <2>1, <3>1, IdleTyped, SetHandler DEF TypeOK
  <2>2. ASSUME NEW pc \in {"timeline", "recheck", "status"},
               handler' = [handler EXCEPT ![w] = [handler[w] EXCEPT !.pc = pc]]
        PROVE  HandlersOK'
    <3>1. handler[w].subject \in DOMAIN runner /\ ~At(w, "idle")
      BY HandlerFacts DEF TypeOK, HandlerOK, CheckApp, At
    <3> QED
      BY <1>1, <2>2, <3>1, MovePc DEF TypeOK
  <2>3. \/ handler' = [handler EXCEPT ![w] = Idle]
        \/ handler' = [handler EXCEPT ![w] = [handler[w] EXCEPT !.pc = "timeline"]]
        \/ handler' = [handler EXCEPT ![w] = [handler[w] EXCEPT !.pc = "recheck"]]
    BY DEF CheckApp
  <2> QED
    BY <2>1, <2>2, <2>3
<1>3. QueueOK' /\ ClusterOK' /\ HistoryOK'
  BY <1>1, QueueStays, ClusterStays, HistoryStays DEF TypeOK, CheckApp, HistoryOK
<1> QED
  BY <1>1, <1>2, <1>3 DEF TypeOK

\* The timeline of a healthy deployment is saved.
LEMMA SaveTimelineTyped ==
  ASSUME TypeOK, NEW w \in Worker, SaveTimeline(w)
  PROVE  TypeOK'
<1>1. PICK r \in DOMAIN runner : r = handler[w].subject
  BY HandlerFacts DEF TypeOK, HandlerOK, SaveTimeline, At
<1>2. override \in [Pipeline -> Rows(runner)] /\ runner[r] \in Runner
  BY DEF TypeOK, RowsOK
<1>3. RowsOK' /\ RowsGrow
  <2>1. PICK new \in Runner : new = [runner[r] EXCEPT !.healthy = runner[r].healthy + 1]
                              /\ new.workflow = runner[r].workflow
    BY <1>2, HealthyTyped
  <2>2. runner' = [runner EXCEPT ![r] = new] /\ UNCHANGED <<artifact, workflow, cause, override>>
    BY <1>1, <2>1 DEF SaveTimeline
  <2> QED
    BY <1>2, <2>1, <2>2, UpdateRunner DEF TypeOK
<1>4. HandlersOK'
  <2>1. handler' = [handler EXCEPT ![w] = [handler[w] EXCEPT !.pc = "recheck"]] /\ ~At(w, "idle")
    BY DEF SaveTimeline, At
  <2> QED
    BY <1>1, <1>3, <2>1, MovePc DEF TypeOK
<1>5. QueueOK' /\ ClusterOK' /\ HistoryOK'
  BY <1>3, QueueStays, ClusterStays, HistoryStays DEF TypeOK, SaveTimeline, HistoryOK
<1> QED
  BY <1>3, <1>4, <1>5 DEF TypeOK

\* The release counter is read again.
LEMMA RecheckAppTyped ==
  ASSUME TypeOK, NEW w \in Worker, RecheckApp(w)
  PROVE  TypeOK'
<1>1. RowsOK' /\ RowsGrow
  BY RowsStay DEF TypeOK, RecheckApp
<1>2. HandlersOK'
  <2>1. CASE handler' = [handler EXCEPT ![w] = Idle]
    <3>1. HandlerOK(w, Idle)'
      BY IdleTyped DEF HandlerOK
    <3> QED
      BY <1>1, <2>1, <3>1, IdleTyped, SetHandler DEF TypeOK
  <2>2. CASE handler' = [handler EXCEPT ![w] = [handler[w] EXCEPT !.pc = "status"]]
    <3>1. handler[w].subject \in DOMAIN runner /\ ~At(w, "idle")
      BY HandlerFacts DEF TypeOK, HandlerOK, RecheckApp, At
    <3> QED
      BY <1>1, <2>2, <3>1, MovePc DEF TypeOK
  <2> QED
    BY <2>1, <2>2 DEF RecheckApp
<1>3. HistoryOK'
  <2>1. CauseOf(w) \in Cause
    BY CauseTyped DEF TypeOK
  <2>2. lost' \subseteq Cause
    BY <2>1 DEF TypeOK, HistoryOK, RecheckApp
  <2> QED
    BY <1>1, <2>2 DEF TypeOK, HistoryOK, RecheckApp, RowsGrow
<1>4. QueueOK' /\ ClusterOK'
  BY <1>1, QueueStays, ClusterStays DEF TypeOK, RecheckApp
<1> QED
  BY <1>1, <1>2, <1>3, <1>4 DEF TypeOK

\* What follows a deployment is well formed.
LEMMA AfterDeploymentTyped ==
  ASSUME TypeOK, NEW r \in DOMAIN runner
  PROVE  /\ AfterDeployment(r) \in Seq(Request)
         /\ \A i \in DOMAIN AfterDeployment(r) : RequestOK(AfterDeployment(r)[i])
<1>1. PICK p \in Pipeline, a \in DOMAIN artifact, wf \in DOMAIN workflow :
        p = PipelineOf(r) /\ a = ArtifactOf(r) /\ wf = runner[r].workflow
  BY RunnerFacts DEF TypeOK
<1>2. a \in Nat /\ wf \in Nat
  BY DEF TypeOK, RowsOK
<1>3. CASE p \notin PostStage
  <2>1. AfterDeployment(r) = ChildRequests(p, a)
    BY <1>1, <1>3 DEF AfterDeployment
  <2>2. /\ ChildRequests(p, a) \in Seq(Request)
        /\ \A i \in DOMAIN ChildRequests(p, a) :
             ChildRequests(p, a)[i].artifact = a /\ ChildRequests(p, a)[i].workflow = 0
    BY <1>2, ChildrenTyped
  <2>3. \A i \in DOMAIN ChildRequests(p, a) : RequestOK(ChildRequests(p, a)[i])
    BY <1>1, <2>2 DEF RequestOK, Rows
  <2> QED
    BY <2>1, <2>2, <2>3
<1>4. CASE p \in PostStage /\ p \in AutoPost
  <2>1. AfterDeployment(r)
        = <<[act |-> "post", pipeline |-> p, artifact |-> a, workflow |-> wf]>>
    BY <1>1, <1>4 DEF AfterDeployment
  <2> QED
    BY <1>1, <1>2, <2>1, RequestTyped DEF RequestOK, Rows
<1>5. CASE p \in PostStage /\ p \notin AutoPost
  BY <1>1, <1>5 DEF AfterDeployment
<1> QED
  BY <1>3, <1>4, <1>5

\* A deployment's status is written.
LEMMA WriteStatusTyped ==
  ASSUME TypeOK, NEW w \in Worker, WriteStatus(w)
  PROVE  TypeOK'
<1>1. PICK r \in DOMAIN runner : r = handler[w].subject
  BY HandlerFacts DEF TypeOK, HandlerOK, WriteStatus, At
<1>2. override \in [Pipeline -> Rows(runner)] /\ runner[r] \in Runner
  BY DEF TypeOK, RowsOK
<1>3. RowsOK' /\ RowsGrow
  <2>1. PICK s \in {"Succeeded", "Progressing"} :
          s = IF handler[w].good THEN "Succeeded" ELSE "Progressing"
    OBVIOUS
  <2>2. PICK new \in Runner : new = [runner[r] EXCEPT !.status = s]
                              /\ new.workflow = runner[r].workflow
    BY <1>2, StatusTyped
  <2>3. runner' = [runner EXCEPT ![r] = new] /\ UNCHANGED <<artifact, workflow, cause, override>>
    BY <1>1, <2>1, <2>2 DEF WriteStatus
  <2> QED
    BY <1>2, <2>2, <2>3, UpdateRunner DEF TypeOK
<1>4. HandlersOK'
  <2>1. PICK todo \in Seq(Request) :
          /\ todo = IF handler[w].good THEN AfterDeployment(r) ELSE <<>>
          /\ \A i \in DOMAIN todo : RequestOK(todo[i])
    <3>1. CASE handler[w].good
      BY <3>1, AfterDeploymentTyped
    <3>2. CASE ~handler[w].good
      <4>1. <<>> \in Seq(Request) /\ \A i \in DOMAIN <<>> : RequestOK(<<>>[i])
        OBVIOUS
      <4> QED
        BY <3>2, <4>1
    <3> QED
      BY <3>1, <3>2
  <2>2. Continue(w, todo) /\ ~At(w, "idle")
    BY <1>1, <2>1 DEF WriteStatus, At
  <2>3. \A i \in DOMAIN todo : RequestOK(todo[i])'
    BY <1>3, <2>1, RequestsStay
  <2> QED
    BY <1>3, <2>2, <2>3, ContinueOK DEF TypeOK
<1>5. HistoryOK'
  BY <1>1, <1>3 DEF TypeOK, HistoryOK, RowsGrow, WriteStatus
<1>6. QueueOK' /\ ClusterOK'
  BY <1>3, QueueStays, ClusterStays DEF TypeOK, WriteStatus
<1> QED
  BY <1>3, <1>4, <1>5, <1>6 DEF TypeOK

\* The artifacts of a stage's plugins are saved.
LEMMA SaveCopiesTyped ==
  ASSUME TypeOK, NEW w \in Worker, SaveCopies(w)
  PROVE  TypeOK'
<1>1. PICK r \in DOMAIN runner : r = handler[w].subject
  BY HandlerFacts DEF TypeOK, HandlerOK, SaveCopies, At
<1>2. PICK p \in Pipeline, wf \in DOMAIN workflow, image \in Image, stage \in Stage :
        /\ p = PipelineOf(r) /\ wf = runner[r].workflow
        /\ image = ImageOf(r) /\ stage = runner[r].stage
  BY <1>1, RunnerFacts DEF TypeOK, Runner
<1>3. PICK copies \in Seq(Pipeline \X Stage), build \in Nat :
        copies = image.copies /\ build = image.build
  BY DEF Image
<1>4. PICK new \in Artifact : new = CopyOf(r)
  <2>1. Append(copies, <<p, stage>>) \in Seq(Pipeline \X Stage)
    OBVIOUS
  <2>2. PICK copied \in Image : copied = [image EXCEPT !.copies = Append(@, <<p, stage>>)]
    BY <1>3, <2>1 DEF Image
  <2>3. [image |-> copied, pipeline |-> p, stage |-> stage] \in Artifact
    BY DEF Artifact
  <2> QED
    BY <1>2, <2>2, <2>3 DEF CopyOf
<1> DEFINE a == IF NewCopies(r) = {} THEN ArtifactOf(r) ELSE Len(artifact) + 1
<1>5. RowsOK' /\ RowsGrow /\ a \in DOMAIN artifact'
  <2>1. CASE NewCopies(r) = {}
    <3>1. UNCHANGED rows
      BY <1>1, <2>1 DEF SaveCopies, rows
    <3>2. RowsOK' /\ RowsGrow
      BY <3>1, RowsStay DEF TypeOK
    <3>3. ArtifactOf(r) \in DOMAIN artifact
      BY RunnerFacts DEF TypeOK
    <3> QED
      BY <2>1, <3>1, <3>2, <3>3 DEF rows
  <2>2. CASE NewCopies(r) # {}
    BY <1>1, <1>4, <2>2, AddArtifact DEF SaveCopies, TypeOK
  <2> QED
    BY <2>1, <2>2
<1>6. PICK i \in Nat : i = a /\ i \in DOMAIN artifact'
  <2>1. DOMAIN artifact' \subseteq Nat
    BY <1>5 DEF RowsOK
  <2> QED
    BY <1>5, <2>1
<1>7. PICK todo \in Seq(Request) :
        /\ Continue(w, todo)
        /\ \A j \in DOMAIN todo : RequestOK(todo[j])'
  <2>1. CASE stage = "PRE"
    <3>1. wf \in Nat
      BY DEF TypeOK, RowsOK
    <3> DEFINE todo == <<[act |-> "deploy", pipeline |-> p, artifact |-> i, workflow |-> wf]>>
    <3>2. /\ todo \in Seq(Request)
          /\ \A j \in DOMAIN todo : todo[j].artifact = i /\ todo[j].workflow = wf
      BY <3>1, RequestTyped
    <3>3. Continue(w, todo)
      BY <1>1, <1>2, <1>6, <2>1 DEF SaveCopies
    <3> HIDE DEF todo
    <3>4. \A j \in DOMAIN todo : RequestOK(todo[j])'
      BY <1>5, <1>6, <3>2 DEF RequestOK, Rows, RowsGrow
    <3> QED
      BY <3>2, <3>3, <3>4
  <2>2. CASE stage # "PRE"
    <3>1. PICK todo \in Seq(Request) :
            /\ todo = ChildRequests(p, i)
            /\ \A j \in DOMAIN todo : todo[j].artifact = i /\ todo[j].workflow = 0
      BY ChildrenTyped
    <3>2. Continue(w, todo)
      BY <1>1, <1>2, <1>6, <2>2, <3>1 DEF SaveCopies
    <3>3. \A j \in DOMAIN todo : RequestOK(todo[j])'
      BY <1>6, <3>1 DEF RequestOK, Rows
    <3> QED
      BY <3>2, <3>3
  <2> QED
    BY <2>1, <2>2
<1>8. HandlersOK'
  BY <1>5, <1>7, ContinueOK DEF TypeOK, SaveCopies, At
<1>9. QueueOK' /\ ClusterOK' /\ HistoryOK'
  BY <1>5, QueueStays, ClusterStays, HistoryStays DEF TypeOK, SaveCopies, HistoryOK
<1> QED
  BY <1>5, <1>8, <1>9 DEF TypeOK

\* A user triggers a stage.
LEMMA UserTriggersTyped ==
  ASSUME TypeOK, NEW p \in Pipeline, NEW s \in Stage, NEW a \in DOMAIN artifact,
         NEW wf \in {0} \cup DOMAIN workflow, UserTriggers(p, s, a, wf)
  PROVE  TypeOK'
<1>1. RowsOK' /\ RowsGrow
  BY RowsStay DEF TypeOK, UserTriggers
<1>2. a \in Nat /\ wf \in Nat
  BY DEF TypeOK, RowsOK
<1>3. PICK act \in {"userPRE", "userDEPLOY", "userPOST"} :
        act = CASE s = "PRE" -> "userPRE" [] s = "DEPLOY" -> "userDEPLOY" [] s = "POST" -> "userPOST"
  BY DEF Stage
<1> DEFINE todo == <<[act |-> act, pipeline |-> p, artifact |-> a, workflow |-> wf]>>
<1>4. /\ todo \in Seq(Request)
      /\ \A j \in DOMAIN todo : todo[j].artifact = a /\ todo[j].workflow = wf
  BY <1>2, RequestTyped
<1>5. Continue("user", todo)
  BY <1>3 DEF UserTriggers
<1> HIDE DEF todo
<1>6. \A j \in DOMAIN todo : RequestOK(todo[j])'
  BY <1>1, <1>4 DEF RequestOK, Rows, RowsGrow
<1>8. HandlersOK'
  BY <1>1, <1>4, <1>5, <1>6, ContinueOK DEF TypeOK, Worker
<1>9. QueueOK' /\ ClusterOK' /\ HistoryOK'
  BY <1>1, QueueStays, ClusterStays, HistoryStays, FaultCounts DEF TypeOK, UserTriggers
<1> QED
  BY <1>1, <1>8, <1>9 DEF TypeOK

\* The stage of a request is one of the three.
LEMMA StageTyped ==
  ASSUME NEW q \in Request
  PROVE  StageFor(q) \in {"PRE", "DEPLOY", "POST", "none"}
<1>1. FirstStage(q.pipeline) \in {"PRE", "DEPLOY", "none"}
  BY DEF FirstStage
<1> QED
  BY <1>1 DEF StageFor, Request

\* The workflow of a request exists, or is a new one.
LEMMA WorkflowTyped ==
  ASSUME NEW q \in Request, RequestOK(q)
  PROVE  WorkflowFor(q) \in Rows(workflow)
BY DEF WorkflowFor, RequestOK, Rows, Request

\* What a worker is when it has created a runner.
Submitting(h, todo, r) == [h EXCEPT !.pc = "submit", !.todo = todo, !.made = r]

\* The fields of a worker that has created a runner.
LEMMA SubmittingTyped ==
  ASSUME NEW h \in Handler, NEW todo \in Seq(Request), NEW r \in Nat
  PROVE  /\ Submitting(h, todo, r) \in Handler
         /\ Submitting(h, todo, r).pc = "submit" /\ Submitting(h, todo, r).msg = h.msg
         /\ Submitting(h, todo, r).todo = todo /\ Submitting(h, todo, r).made = r
BY DEF Submitting, Handler

\* A runner is created.
LEMMA CreateTyped ==
  ASSUME TypeOK, NEW w \in Worker, Create(w)
  PROVE  TypeOK'
<1>1. PICK q \in Request : q = Head(handler[w].todo) /\ RequestOK(q)
  BY TodoFacts DEF TypeOK, Create
<1>2. PICK s \in Stage : s = StageFor(q)
  BY <1>1, StageTyped DEF Create, Stage
<1>3. PICK wf \in Nat : wf = IF WorkflowFor(q) = 0 THEN Len(workflow) + 1 ELSE WorkflowFor(q)
  BY <1>1, WorkflowTyped DEF TypeOK, RowsOK, Rows
<1>4. /\ workflow' \in Seq(Workflow) /\ DOMAIN workflow \subseteq DOMAIN workflow'
      /\ wf \in DOMAIN workflow'
      /\ \A x \in DOMAIN workflow' : workflow'[x].artifact \in DOMAIN artifact
  <2>1. CASE WorkflowFor(q) = 0
    <3>1. q.artifact \in Nat /\ q.pipeline \in Pipeline /\ q.artifact \in DOMAIN artifact
      BY <1>1 DEF RequestOK, Request
    <3>2. PICK a \in Nat, p \in Pipeline : a = q.artifact /\ p = q.pipeline
      BY <3>1
    <3> DEFINE row == [pipeline |-> p, artifact |-> a]
    <3>3. row \in Workflow /\ row.artifact \in DOMAIN artifact
      BY <3>1, <3>2 DEF Workflow
    <3>4. workflow' = Append(workflow, row) /\ wf = Len(workflow) + 1
      BY <1>1, <1>3, <2>1, <3>2 DEF Create
    <3> HIDE DEF row
    <3> QED
      BY <3>3, <3>4 DEF TypeOK, RowsOK
  <2>2. CASE WorkflowFor(q) # 0
    <3>1. workflow' = workflow
      BY <1>1, <2>2 DEF Create
    <3>2. wf \in DOMAIN workflow
      BY <1>1, <1>3, <2>2, WorkflowTyped DEF Rows
    <3> QED
      BY <3>1, <3>2 DEF TypeOK, RowsOK
  <2> QED
    BY <2>1, <2>2
<1>5. PICK new \in Runner : new.workflow = wf /\ runner' = Append(runner, new)
  <2>1. Msg(w).id \in Nat
    BY HandlerFacts DEF TypeOK, Msg, Message
  <2>2. PICK id \in Nat : id = Msg(w).id
    BY <2>1
  <2>3. PICK status \in {"Initiated", "Starting"} :
          status = IF s = "DEPLOY" THEN "Initiated" ELSE "Starting"
    OBVIOUS
  <2> DEFINE new == [workflow |-> wf, stage |-> s, ref |-> id, healthy |-> 0, failed |-> FALSE,
                     status |-> status]
  <2>4. new \in Runner /\ new.workflow = wf
    BY <1>2 DEF Runner, Stage
  <2>5. runner' = Append(runner, new)
    BY <1>1, <1>2, <1>3, <2>2, <2>3 DEF Create
  <2> HIDE DEF new
  <2> QED
    BY <2>4, <2>5
<1>6. RowsOK' /\ RowsGrow /\ Len(runner) + 1 \in DOMAIN runner'
  <2>1. PICK c \in Cause : cause' = Append(cause, c)
    BY CauseTyped DEF TypeOK, Create
  <2>2. runner \in Seq(Runner) /\ UNCHANGED <<artifact, override>>
    BY DEF TypeOK, RowsOK, Create
  <2> QED
    BY <1>4, <1>5, <2>1, <2>2, AddRunner DEF TypeOK
<1>7. HandlersOK'
  <2>1. PICK r \in Nat : r = Len(runner) + 1 /\ r \in DOMAIN runner'
    BY <1>6 DEF TypeOK, RowsOK
  <2>2. PICK todo \in Seq(Request) :
          todo = Tail(handler[w].todo) /\ \A i \in DOMAIN todo : RequestOK(todo[i])
    BY TodoFacts DEF TypeOK, Create
  <2>3. PICK h \in Handler : h = handler[w] /\ HandlerOK(w, h) /\ h.pc = "trigger"
    BY HandlerFacts DEF TypeOK, Create, At
  <2>4. PICK k \in Handler : /\ k = Submitting(h, todo, r)
                             /\ k.pc = "submit" /\ k.msg = h.msg /\ k.todo = todo /\ k.made = r
    BY SubmittingTyped
  <2>5. handler' = [handler EXCEPT ![w] = k]
    BY <2>1, <2>2, <2>3, <2>4 DEF Create, Submitting
  <2>6. w # "user" => MessageOK(w, h.msg)'
    BY <1>6, <2>3, MessageStays DEF HandlerOK
  <2>7. \A i \in DOMAIN todo : RequestOK(todo[i])'
    BY <1>6, <2>2, RequestsStay
  <2>8. HandlerOK(w, k)'
    BY <2>1, <2>4, <2>6, <2>7 DEF HandlerOK
  <2> QED
    BY <1>6, <2>5, <2>8, SetHandler DEF TypeOK
<1>8. QueueOK' /\ ClusterOK' /\ HistoryOK'
  BY <1>6, QueueStays, ClusterStays, HistoryStays DEF TypeOK, Create, HistoryOK
<1> QED
  BY <1>6, <1>7, <1>8 DEF TypeOK

\* A deployment that comes to an end without success.
LEMMA FailedTyped ==
  ASSUME NEW x \in Runner, NEW b \in BOOLEAN
  PROVE  /\ [x EXCEPT !.status = "Failed", !.failed = b] \in Runner
         /\ [x EXCEPT !.status = "Failed", !.failed = b].workflow = x.workflow
BY DEF Runner

\* The requests a worker has left, after its step.
LEMMA RestContinues ==
  ASSUME TypeOK, RowsGrow, NEW w \in Worker, At(w, "submit"),
         NEW todo, todo = handler[w].todo \/ todo = <<>>, Continue(w, todo)
  PROVE  HandlersOK'
<1>1. PICK t \in Seq(Request) : t = todo /\ \A i \in DOMAIN t : RequestOK(t[i])
  <2>1. <<>> \in Seq(Request) /\ \A i \in DOMAIN <<>> : RequestOK(<<>>[i])
    OBVIOUS
  <2>2. CASE todo = handler[w].todo
    BY <2>2, HandlerFacts DEF TypeOK
  <2>3. CASE todo = <<>>
    BY <2>1, <2>3
  <2> QED
    BY <2>2, <2>3
<1>2. \A i \in DOMAIN t : RequestOK(t[i])'
  BY <1>1, RequestsStay
<1> QED
  BY <1>1, <1>2, ContinueOK DEF TypeOK, At

\* A deployment is released.
LEMMA ReleaseTyped ==
  ASSUME TypeOK, NEW w \in Worker, Release(w)
  PROVE  TypeOK'
<1>1. PICK r \in DOMAIN runner : r = handler[w].made
  BY HandlerFacts DEF TypeOK, HandlerOK, Release, At
<1>2. PICK p \in Pipeline : p = PipelineOf(r)
  BY RunnerFacts DEF TypeOK
<1>3. override \in [Pipeline -> Rows(runner)] /\ \A x \in DOMAIN runner : runner[x] \in Runner
  BY DEF TypeOK, RowsOK
<1>4. RowsOK' /\ RowsGrow /\ DOMAIN runner' = DOMAIN runner
  <2>1. CASE runner[r].failed
    <3>1. UNCHANGED rows
      BY <1>1, <2>1 DEF Release, rows
    <3> QED
      BY <3>1, RowsStay DEF TypeOK, rows
  <2>2. CASE ~runner[r].failed
    <3>1. override' \in [Pipeline -> Rows(runner)]
      BY <1>1, <1>2, <1>3, <2>2 DEF Release, Rows
    <3>2. UNCHANGED <<artifact, workflow, cause>>
      BY DEF Release
    <3>3. DOMAIN runner' = DOMAIN runner /\ runner' = [x \in DOMAIN runner' |-> runner'[x]]
      BY <1>1, <2>2 DEF Release
    <3>4. ASSUME NEW x \in DOMAIN runner
          PROVE  runner'[x] \in {runner[x], [runner[x] EXCEPT !.status = "Progressing"],
                                 [runner[x] EXCEPT !.status = "Failed", !.failed = TRUE]}
      BY <1>1, <2>2 DEF Release
    <3>5. ASSUME NEW x \in DOMAIN runner
          PROVE  runner'[x] \in Runner /\ runner'[x].workflow = runner[x].workflow
      <4>1. PICK y \in Runner : y = runner[x]
        BY <1>3
      <4>2. \/ runner'[x] = y
            \/ runner'[x] = [y EXCEPT !.status = "Progressing"]
            \/ runner'[x] = [y EXCEPT !.status = "Failed", !.failed = TRUE]
        BY <3>4, <4>1
      <4>3. /\ [y EXCEPT !.status = "Progressing"] \in Runner
            /\ [y EXCEPT !.status = "Progressing"].workflow = y.workflow
        BY StatusTyped
      <4>4. /\ [y EXCEPT !.status = "Failed", !.failed = TRUE] \in Runner
            /\ [y EXCEPT !.status = "Failed", !.failed = TRUE].workflow = y.workflow
        BY FailedTyped
      <4> QED
        BY <4>1, <4>2, <4>3, <4>4
    <3> QED
      BY <3>1, <3>2, <3>3, <3>5, UpdateRunners DEF TypeOK
  <2> QED
    BY <2>1, <2>2
<1>5. HandlersOK'
  <2>1. At(w, "submit") /\ Continue(w, handler[w].todo)
    BY DEF Release
  <2> QED
    BY <1>4, <2>1, RestContinues
<1>6. ClusterOK'
  <2>1. app' \in [Pipeline -> [subject: Rows(runner), healthy: BOOLEAN]]
    <3>1. [subject |-> r, healthy |-> FALSE] \in [subject: Rows(runner), healthy: BOOLEAN]
      BY DEF Rows
    <3>2. app' = app \/ app' = [app EXCEPT ![p] = [subject |-> r, healthy |-> FALSE]]
      BY <1>1, <1>2 DEF Release
    <3> QED
      BY <3>1, <3>2 DEF TypeOK, ClusterOK
  <2>2. Rows(runner') = Rows(runner)
    BY <1>4 DEF Rows
  <2> QED
    BY <1>4, <2>1, <2>2 DEF TypeOK, ClusterOK, Release
<1>7. QueueOK' /\ HistoryOK'
  BY <1>4, QueueStays, HistoryStays DEF TypeOK, Release, HistoryOK
<1> QED
  BY <1>4, <1>5, <1>6, <1>7 DEF TypeOK

\* A submission or a release fails.
LEMMA SubmitFailsTyped ==
  ASSUME TypeOK, NEW w \in Worker, SubmitFails(w)
  PROVE  TypeOK'
<1>1. PICK r \in DOMAIN runner : r = handler[w].made
  BY HandlerFacts DEF TypeOK, HandlerOK, SubmitFails, At
<1>2. PICK p \in Pipeline : p = PipelineOf(r)
  BY RunnerFacts DEF TypeOK
<1>3. override \in [Pipeline -> Rows(runner)] /\ runner[r] \in Runner
  BY DEF TypeOK, RowsOK
<1>4. RowsOK' /\ RowsGrow
  <2>1. override' = override \/ override' = [override EXCEPT ![p] = r]
    BY <1>1, <1>2 DEF SubmitFails
  <2>2. override' \in [Pipeline -> Rows(runner)]
    BY <1>3, <2>1 DEF Rows
  <2>3. PICK b \in BOOLEAN : b = (runner[r].stage = "DEPLOY")
    OBVIOUS
  <2>4. PICK new \in Runner : /\ new = [runner[r] EXCEPT !.status = "Failed", !.failed = b]
                              /\ new.workflow = runner[r].workflow
    BY <1>3, FailedTyped
  <2>5. runner' = [runner EXCEPT ![r] = new] /\ UNCHANGED <<artifact, workflow, cause>>
    BY <1>1, <2>3, <2>4 DEF SubmitFails
  <2> QED
    BY <2>2, <2>4, <2>5, UpdateRunner DEF TypeOK
<1>5. HandlersOK'
  <2>1. At(w, "submit") /\ Continue(w, IF GoesOn(w) THEN handler[w].todo ELSE <<>>)
    BY DEF SubmitFails
  <2> QED
    BY <1>4, <2>1, RestContinues
<1>6. HistoryOK'
  <2>1. CauseOf(w) \in Cause /\ faults' \in Nat
    BY CauseTyped, FaultCounts DEF TypeOK, SubmitFails
  <2> QED
    BY <1>4, <2>1 DEF TypeOK, HistoryOK, SubmitFails, RowsGrow
<1>7. QueueOK' /\ ClusterOK'
  BY <1>4, QueueStays, ClusterStays DEF TypeOK, SubmitFails
<1> QED
  BY <1>4, <1>5, <1>6, <1>7 DEF TypeOK

\* A stage is retried.
LEMMA RetryStageTyped ==
  ASSUME TypeOK, NEW r \in DOMAIN runner, RetryStage(r)
  PROVE  TypeOK'
<1>1. runner[r] \in Runner /\ runner \in Seq(Runner) /\ runner[r].workflow \in DOMAIN workflow
      /\ cause[r] \in Cause /\ r \in Nat
  BY DEF TypeOK, RowsOK
<1>2. PICK ended \in Runner : ended = [runner[r] EXCEPT !.status = "Failed"]
                              /\ ended.workflow = runner[r].workflow
  BY <1>1, StatusTyped
<1>3. PICK new \in Runner : new = [runner[r] EXCEPT !.ref = 0] /\ new.workflow = runner[r].workflow
  <2>1. ASSUME NEW x \in Runner
        PROVE  [x EXCEPT !.ref = 0] \in Runner /\ [x EXCEPT !.ref = 0].workflow = x.workflow
    BY DEF Runner
  <2> QED
    BY <1>1, <2>1
<1>4. PICK old \in Seq(Runner) : /\ old = [runner EXCEPT ![r] = ended] /\ Len(old) = Len(runner)
                                 /\ \A x \in DOMAIN runner : old[x].workflow = runner[x].workflow
  <2>1. [runner EXCEPT ![r] = ended] \in Seq(Runner)
        /\ Len([runner EXCEPT ![r] = ended]) = Len(runner)
    BY <1>1
  <2> QED
    BY <1>2, <2>1
<1>5. RowsOK' /\ RowsGrow /\ Len(runner) + 1 \in DOMAIN runner'
  <2>1. runner' = Append(old, new) /\ cause' = Append(cause, cause[r])
        /\ UNCHANGED <<artifact, override, workflow>>
    BY <1>2, <1>3, <1>4 DEF RetryStage
  <2>2. workflow' \in Seq(Workflow) /\ DOMAIN workflow \subseteq DOMAIN workflow'
        /\ new.workflow \in DOMAIN workflow'
        /\ \A wf \in DOMAIN workflow' : workflow'[wf].artifact \in DOMAIN artifact
    BY <1>1, <1>3, <2>1 DEF TypeOK, RowsOK
  <2> QED
    BY <1>1, <1>4, <2>1, <2>2, AddRunner DEF TypeOK
<1>6. ClusterOK'
  <2>1. app' \in [Pipeline -> [subject: Rows(runner'), healthy: BOOLEAN]]
    BY <1>5 DEF TypeOK, ClusterOK, RetryStage, RowsGrow, Rows
  <2> QED
    BY <1>5, <2>1 DEF TypeOK, ClusterOK, RetryStage, RowsGrow
<1>7. HistoryOK'
  BY <1>5, FaultCounts DEF TypeOK, HistoryOK, RetryStage, RowsGrow
<1>8. QueueOK' /\ HandlersOK'
  BY <1>5, QueueStays, HandlersStay DEF TypeOK, RetryStage
<1> QED
  BY <1>5, <1>6, <1>7, <1>8 DEF TypeOK

-----------------------------------------------------------------------------
(* The type invariant *)

\* Every step of a worker.
LEMMA HandleTyped ==
  ASSUME TypeOK, NEW w \in Worker, Handle(w)
  PROVE  TypeOK'
BY SkipTyped, CreateTyped, SubmitStageTyped, ReleaseTyped, SubmitFailsTyped, HandleCiSuccessTyped,
   ReportStageTyped, SaveCopiesTyped, FetchAppTyped, CheckAppTyped, SaveTimelineTyped,
   RecheckAppTyped, WriteStatusTyped DEF Handle

\* The initial state.
LEMMA InitTyped == Init => TypeOK
<1> SUFFICES ASSUME Init PROVE TypeOK
  OBVIOUS
<1>1. RowsOK /\ ClusterOK
  BY DEF Init, RowsOK, ClusterOK, Rows
<1>2. QueueOK
  BY DEF Init, QueueOK
<1>3. HandlersOK
  BY IdleTyped DEF Init, HandlersOK, HandlerOK
<1>4. HistoryOK
  BY DEF Init, HistoryOK
<1> QED
  BY <1>1, <1>2, <1>3, <1>4 DEF TypeOK

\* Every step.
LEMMA NextTyped == TypeOK /\ [Next]_vars => TypeOK'
<1> SUFFICES ASSUME TypeOK, [Next]_vars PROVE TypeOK'
  OBVIOUS
<1>1. CASE Cluster
  BY <1>1, BuildSucceedsTyped, StageEndsTyped, AppHealthyTyped, ResendTyped DEF Cluster
<1>2. CASE \E t \in Topic : Take(t) \/ Redeliver(t)
  BY <1>2, TakeTyped, RedeliverTyped
<1>3. CASE \E w \in Worker : Handle(w)
  BY <1>3, HandleTyped
<1>4. CASE \E r \in DOMAIN runner : RetryStage(r)
  BY <1>4, RetryStageTyped
<1>5. CASE \E p \in Pipeline : SyncByCron(p)
  BY <1>5, SyncByCronTyped
<1>6. CASE \E p \in Pipeline, s \in Stage, a \in DOMAIN artifact, wf \in {0} \cup DOMAIN workflow :
             UserTriggers(p, s, a, wf)
  BY <1>6, UserTriggersTyped
<1>7. CASE Crash
  BY <1>7, CrashTyped
<1>8. CASE UNCHANGED vars
  <2>1. UNCHANGED rows /\ UNCHANGED cluster /\ UNCHANGED <<queue, sent>> /\ UNCHANGED handler
        /\ UNCHANGED <<lost, retries, overwritten>> /\ faults' = faults
    BY <1>8 DEF vars
  <2>2. RowsOK' /\ RowsGrow
    BY <2>1, RowsStay DEF TypeOK
  <2> QED
    BY <2>1, <2>2, QueueStays, ClusterStays, HandlersStay, HistoryStays DEF TypeOK, HistoryOK
<1> QED
  BY <1>1, <1>2, <1>3, <1>4, <1>5, <1>6, <1>7, <1>8 DEF Next

\* The types of the variables, and that every reference names a row, whatever the
\* pipelines and whatever fails.
THEOREM TypeCorrect == Spec => []TypeOK
<1>1. Init => TypeOK
  BY InitTyped
<1>2. TypeOK /\ [Next]_vars => TypeOK'
  BY NextTyped
<1> QED
  BY <1>1, <1>2, PTL DEF Spec

-----------------------------------------------------------------------------
(* A workflow is deployed once by itself.  The workers of the topics only have    *)
(* requests of the program, and a request for the first stage of a pipeline names *)
(* no workflow (Automatic); so a deployment in a workflow that exists comes from  *)
(* a user or has been checked.                                                     *)

AutoTodo(todo) ==
  \A i \in DOMAIN todo :
    todo[i].act \in {"auto", "deploy", "post"} /\ (todo[i].act = "auto" => todo[i].workflow = 0)

Automatic == \A w \in Worker \ {"user"} : AutoTodo(handler[w].todo)

\* A step of one worker.
LEMMA SetTodo ==
  ASSUME HandlersOK, Automatic, NEW w \in Worker, NEW h, w # "user" => AutoTodo(h.todo),
         handler' = [handler EXCEPT ![w] = h]
  PROVE  Automatic'
<1>1. ASSUME NEW x \in Worker \ {"user"}
      PROVE  AutoTodo(handler'[x].todo)
  <2>1. handler'[x] = IF x = w THEN h ELSE handler[x]
    BY DEF HandlersOK
  <2> QED
    BY <2>1 DEF Automatic
<1> QED
  BY <1>1 DEF Automatic, AutoTodo

\* Going on with requests of the program.
LEMMA ContinueAuto ==
  ASSUME HandlersOK, Automatic, NEW w \in Worker, NEW todo \in Seq(Request),
         w # "user" => AutoTodo(todo), Continue(w, todo)
  PROVE  Automatic'
<1>1. CASE todo = <<>>
  <2>1. handler' = [handler EXCEPT ![w] = Idle] /\ AutoTodo(Idle.todo)
    BY <1>1, IdleTyped DEF Continue, AutoTodo
  <2> QED
    BY <2>1, SetTodo
<1>2. CASE todo # <<>>
  <2>1. PICK h \in Handler : h = Triggering(handler[w], todo) /\ h.todo = todo
    BY HandlerFacts, TriggeringTyped
  <2>2. handler' = [handler EXCEPT ![w] = h]
    BY <1>2, <2>1 DEF Continue, Triggering
  <2> QED
    BY <2>1, <2>2, SetTodo
<1> QED
  BY <1>1, <1>2

\* The requests a worker has left.
LEMMA TailAuto ==
  ASSUME HandlersOK, Automatic, NEW w \in Worker, At(w, "trigger"), w # "user"
  PROVE  AutoTodo(Tail(handler[w].todo)) /\ AutoTodo(<<Head(handler[w].todo)>>)
<1>1. handler[w].todo # <<>>
  BY DEF HandlersOK, HandlerOK, At
<1>2. PICK todo \in Seq(Request) : todo = handler[w].todo
  BY HandlerFacts
<1>3. AutoTodo(todo)
  BY <1>2 DEF Automatic
<1>4. 1 \in DOMAIN todo /\ Head(todo) = todo[1]
      /\ \A i \in DOMAIN Tail(todo) : i + 1 \in DOMAIN todo /\ Tail(todo)[i] = todo[i + 1]
  BY <1>1, <1>2
<1>5. AutoTodo(Tail(todo))
  BY <1>3, <1>4 DEF AutoTodo
<1>6. AutoTodo(<<Head(todo)>>)
  BY <1>3, <1>4 DEF AutoTodo
<1> QED
  BY <1>2, <1>5, <1>6

\* The requests for the pipelines below are the program's.
LEMMA ChildrenAuto ==
  ASSUME NEW p \in Pipeline \cup {Source}, NEW a
  PROVE  AutoTodo(ChildRequests(p, a))
<1>1. Children[p] \in Seq(Pipeline)
  BY PipelineAssumption
<1> QED
  BY <1>1 DEF ChildRequests, AutoTodo, AutoRequest

\* What follows a deployment are requests of the program.
LEMMA AfterAuto ==
  ASSUME TypeOK, NEW r \in DOMAIN runner
  PROVE  AutoTodo(AfterDeployment(r))
<1>1. PipelineOf(r) \in Pipeline
  BY RunnerFacts DEF TypeOK
<1>2. AutoTodo(ChildRequests(PipelineOf(r), ArtifactOf(r)))
  BY <1>1, ChildrenAuto
<1> QED
  BY <1>2 DEF AfterDeployment, AutoTodo

\* Every step of a worker leaves the topics' workers with requests of the program.
LEMMA HandleAuto ==
  ASSUME TypeOK, Automatic, NEW w \in Worker, Handle(w)
  PROVE  Automatic'
<1>1. handler[w] \in Handler /\ handler[w].todo \in Seq(Request)
  BY HandlerFacts DEF TypeOK
<1>2. w # "user" => AutoTodo(handler[w].todo)
  BY DEF Automatic
<1>3. CASE Skip(w)
  <2>1. Tail(handler[w].todo) \in Seq(Request)
    BY <1>3, TodoFacts DEF TypeOK, Skip
  <2> QED
    BY <1>3, <2>1, TailAuto, ContinueAuto DEF TypeOK, Skip
<1>4. CASE Create(w)
  <2>1. PICK todo \in Seq(Request) : todo = Tail(handler[w].todo)
    BY <1>4, TodoFacts DEF TypeOK, Create
  <2>2. PICK r \in Nat : r = Len(runner) + 1
    BY DEF TypeOK, RowsOK
  <2>3. PICK k \in Handler : k = Submitting(handler[w], todo, r) /\ k.todo = todo
    BY <1>1, SubmittingTyped
  <2>4. handler' = [handler EXCEPT ![w] = k]
    BY <1>4, <2>1, <2>2, <2>3 DEF Create, Submitting
  <2>5. w # "user" => AutoTodo(todo)
    BY <1>4, <2>1, TailAuto DEF TypeOK, Create
  <2> QED
    BY <2>3, <2>4, <2>5, SetTodo DEF TypeOK
<1>5. CASE SubmitStage(w) \/ Release(w)
  <2>1. Continue(w, handler[w].todo)
    BY <1>5 DEF SubmitStage, Release
  <2> QED
    BY <1>1, <1>2, <2>1, ContinueAuto DEF TypeOK
<1>6. CASE SubmitFails(w)
  <2>1. Continue(w, handler[w].todo) \/ Continue(w, <<>>)
    BY <1>6 DEF SubmitFails
  <2>2. <<>> \in Seq(Request) /\ AutoTodo(<<>>)
    BY DEF AutoTodo
  <2> QED
    BY <1>1, <1>2, <2>1, <2>2, ContinueAuto DEF TypeOK
<1>7. CASE HandleCiSuccess(w)
  <2>1. PICK a \in Nat : a = Len(artifact) + 1
    BY DEF TypeOK, RowsOK
  <2>2. Continue(w, ChildRequests(Source, a))
    BY <1>7, <2>1 DEF HandleCiSuccess
  <2> QED
    BY <2>2, ChildrenTyped, ChildrenAuto, ContinueAuto DEF TypeOK
<1>8. CASE SaveCopies(w)
  <2>1. PICK r \in DOMAIN runner : r = handler[w].subject
    BY <1>8, HandlerFacts DEF TypeOK, HandlerOK, SaveCopies, At
  <2>2. PICK a \in Nat : a = IF NewCopies(r) = {} THEN ArtifactOf(r) ELSE Len(artifact) + 1
    <3>1. ArtifactOf(r) \in Nat /\ Len(artifact) + 1 \in Nat
      BY RunnerFacts DEF TypeOK, RowsOK
    <3> QED
      BY <3>1
  <2>3. PICK p \in Pipeline, wf \in Nat : p = PipelineOf(r) /\ wf = runner[r].workflow
    BY RunnerFacts DEF TypeOK, RowsOK
  <2>4. CASE runner[r].stage = "PRE"
    <3> DEFINE todo == <<[act |-> "deploy", pipeline |-> p, artifact |-> a, workflow |-> wf]>>
    <3>1. Continue(w, todo)
      BY <1>8, <2>1, <2>2, <2>3, <2>4 DEF SaveCopies
    <3>2. todo \in Seq(Request)
      BY RequestTyped
    <3>3. AutoTodo(todo)
      BY DEF AutoTodo
    <3> HIDE DEF todo
    <3> QED
      BY <3>1, <3>2, <3>3, ContinueAuto DEF TypeOK
  <2>5. CASE runner[r].stage # "PRE"
    <3>1. Continue(w, ChildRequests(p, a))
      BY <1>8, <2>1, <2>2, <2>3, <2>5 DEF SaveCopies
    <3> QED
      BY <3>1, ChildrenTyped, ChildrenAuto, ContinueAuto DEF TypeOK
  <2> QED
    BY <2>4, <2>5
<1>9. CASE WriteStatus(w)
  <2>1. PICK r \in DOMAIN runner : r = handler[w].subject
    BY <1>9, HandlerFacts DEF TypeOK, HandlerOK, WriteStatus, At
  <2>2. Continue(w, AfterDeployment(r)) \/ Continue(w, <<>>)
    BY <1>9, <2>1 DEF WriteStatus
  <2>3. <<>> \in Seq(Request) /\ AutoTodo(<<>>)
    BY DEF AutoTodo
  <2> QED
    BY <2>2, <2>3, AfterDeploymentTyped, AfterAuto, ContinueAuto DEF TypeOK
<1>10. CASE ReportStage(w) \/ FetchApp(w) \/ CheckApp(w) \/ SaveTimeline(w) \/ RecheckApp(w)
  <2> DEFINE Kept(h) == handler' = [handler EXCEPT ![w] = h] /\ h.todo = handler[w].todo
  <2>1. handler' = [handler EXCEPT ![w] = Idle] \/ \E h : Kept(h)
    <3>1. \A pc : [handler[w] EXCEPT !.pc = pc].todo = handler[w].todo
      BY <1>1 DEF Handler
    <3>2. CASE ReportStage(w)
      <4>1. \/ handler' = [handler EXCEPT ![w] = Idle]
            \/ handler' = [handler EXCEPT ![w] = [handler[w] EXCEPT !.pc = "copy"]]
        BY <3>2 DEF ReportStage
      <4> QED
        BY <3>1, <4>1
    <3>3. CASE FetchApp(w)
      <4> DEFINE x == app[Msg(w).pipeline]
      <4>1. \/ handler' = [handler EXCEPT ![w] = Idle]
            \/ handler' = [handler EXCEPT ![w] = Looking(handler[w], x.subject, x.healthy)]
        BY <3>3 DEF FetchApp, Looking
      <4>2. \A r, good : Looking(handler[w], r, good).todo = handler[w].todo
        BY <1>1 DEF Looking, Handler
      <4> QED
        BY <4>1, <4>2
    <3>4. CASE CheckApp(w)
      <4>1. \/ handler' = [handler EXCEPT ![w] = Idle]
            \/ handler' = [handler EXCEPT ![w] = [handler[w] EXCEPT !.pc = "timeline"]]
            \/ handler' = [handler EXCEPT ![w] = [handler[w] EXCEPT !.pc = "recheck"]]
        BY <3>4 DEF CheckApp
      <4> QED
        BY <3>1, <4>1
    <3>5. CASE SaveTimeline(w)
      <4>1. handler' = [handler EXCEPT ![w] = [handler[w] EXCEPT !.pc = "recheck"]]
        BY <3>5 DEF SaveTimeline
      <4> QED
        BY <3>1, <4>1
    <3>6. CASE RecheckApp(w)
      <4>1. \/ handler' = [handler EXCEPT ![w] = Idle]
            \/ handler' = [handler EXCEPT ![w] = [handler[w] EXCEPT !.pc = "status"]]
        BY <3>6 DEF RecheckApp
      <4> QED
        BY <3>1, <4>1
    <3> QED
      BY <1>10, <3>2, <3>3, <3>4, <3>5, <3>6
  <2>2. AutoTodo(Idle.todo)
    BY IdleTyped DEF AutoTodo
  <2>3. CASE handler' = [handler EXCEPT ![w] = Idle]
    BY <2>2, <2>3, SetTodo DEF TypeOK
  <2>4. CASE \E h : Kept(h)
    BY <1>2, <2>4, SetTodo DEF TypeOK
  <2> QED
    BY <2>1, <2>3, <2>4
<1> QED
  BY <1>3, <1>4, <1>5, <1>6, <1>7, <1>8, <1>9, <1>10 DEF Handle

\* Every step leaves the topics' workers with requests of the program.
LEMMA NextAuto == TypeOK /\ Automatic /\ [Next]_vars => Automatic'
<1> SUFFICES ASSUME TypeOK, Automatic, [Next]_vars PROVE Automatic'
  OBVIOUS
<1>1. CASE UNCHANGED handler
  BY <1>1 DEF Automatic, AutoTodo
<1>2. CASE \E t \in Topic : Take(t)
  <2>1. PICK t \in Topic : Take(t)
    BY <1>2
  <2>2. CASE handler' = handler
    BY <1>1, <2>2
  <2>3. CASE handler' # handler
    <3> DEFINE m == Head(queue[t])
               h == Taken(IF t = "app" THEN "check" ELSE "begin", m)
    <3>1. handler' = [handler EXCEPT ![t] = h] /\ h.todo = <<>>
      BY <2>1, <2>3 DEF Take, Taken
    <3> HIDE DEF h
    <3>2. AutoTodo(h.todo)
      BY <3>1 DEF AutoTodo
    <3> QED
      BY <3>1, <3>2, SetTodo DEF TypeOK, Worker
  <2> QED
    BY <2>2, <2>3
<1>3. CASE \E w \in Worker : Handle(w)
  BY <1>3, HandleAuto
<1>4. CASE \E p \in Pipeline, s \in Stage, a \in DOMAIN artifact, wf \in {0} \cup DOMAIN workflow :
             UserTriggers(p, s, a, wf)
  <2>1. PICK todo : Continue("user", todo)
    BY <1>4 DEF UserTriggers
  <2>2. \E h : handler' = [handler EXCEPT !["user"] = h]
    BY <2>1 DEF Continue
  <2> QED
    BY <2>2, SetTodo DEF TypeOK, Worker
<1>5. CASE Crash
  BY <1>5, IdleTyped DEF Crash, Automatic, AutoTodo
<1>6. Cluster \/ (\E t \in Topic : Redeliver(t)) \/ (\E r \in DOMAIN runner : RetryStage(r))
      \/ (\E p \in Pipeline : SyncByCron(p)) \/ UNCHANGED vars => UNCHANGED handler
  BY DEF Cluster, BuildSucceeds, StageEnds, AppHealthy, Resend, Redeliver, RetryStage, SyncByCron, vars
<1> QED
  BY <1>1, <1>2, <1>3, <1>4, <1>5, <1>6 DEF Next

-----------------------------------------------------------------------------
(* The deployments of a workflow *)

\* No runner is added, and each stays in its stage and its workflow.
Kept ==
  /\ UNCHANGED <<workflow, cause>>
  /\ DOMAIN runner' = DOMAIN runner
  /\ \A r \in DOMAIN runner :
       runner'[r].workflow = runner[r].workflow /\ runner'[r].stage = runner[r].stage

\* What the updates of a runner leave alone.
LEMMA UpdateKeeps ==
  ASSUME NEW x \in Runner, NEW s, NEW n, NEW b
  PROVE  /\ [x EXCEPT !.status = s].workflow = x.workflow
         /\ [x EXCEPT !.status = s].stage = x.stage
         /\ [x EXCEPT !.healthy = n].workflow = x.workflow
         /\ [x EXCEPT !.healthy = n].stage = x.stage
         /\ [x EXCEPT !.status = s, !.failed = b].workflow = x.workflow
         /\ [x EXCEPT !.status = s, !.failed = b].stage = x.stage
         /\ [x EXCEPT !.ref = n].stage = x.stage
BY DEF Runner

\* One runner is updated.
LEMMA OneKept ==
  ASSUME TypeOK, UNCHANGED <<workflow, cause>>, NEW r \in DOMAIN runner, NEW new,
         runner' = [runner EXCEPT ![r] = new],
         new.workflow = runner[r].workflow, new.stage = runner[r].stage
  PROVE  Kept
BY DEF Kept, TypeOK, RowsOK

\* Only creating a runner, or retrying one, adds a row.
LEMMA HandleKeeps ==
  ASSUME TypeOK, NEW w \in Worker, Handle(w), ~Create(w)
  PROVE  Kept
<1>1. CASE UNCHANGED <<workflow, cause, runner>>
  BY <1>1 DEF Kept
<1>2. \A r \in DOMAIN runner : runner[r] \in Runner
  BY DEF TypeOK, RowsOK
<1>3. CASE Skip(w) \/ SubmitStage(w) \/ HandleCiSuccess(w) \/ SaveCopies(w) \/ FetchApp(w)
           \/ CheckApp(w) \/ RecheckApp(w)
  BY <1>1, <1>3 DEF Skip, SubmitStage, HandleCiSuccess, SaveCopies, FetchApp, CheckApp,
                    RecheckApp, rows
<1>4. CASE Release(w)
  <2>1. PICK r \in DOMAIN runner : r = handler[w].made
    BY <1>4, HandlerFacts DEF TypeOK, HandlerOK, Release, At
  <2>2. CASE runner[r].failed
    BY <1>1, <1>4, <2>1, <2>2 DEF Release
  <2>3. CASE ~runner[r].failed
    <3>1. UNCHANGED <<workflow, cause>> /\ DOMAIN runner' = DOMAIN runner
      BY <1>4, <2>1, <2>3 DEF Release
    <3>2. ASSUME NEW x \in DOMAIN runner
          PROVE  runner'[x].workflow = runner[x].workflow /\ runner'[x].stage = runner[x].stage
      <4>1. PICK y \in Runner : y = runner[x]
        BY <1>2
      <4>2. \/ runner'[x] = y
            \/ runner'[x] = [y EXCEPT !.status = "Progressing"]
            \/ runner'[x] = [y EXCEPT !.status = "Failed", !.failed = TRUE]
        BY <1>4, <2>1, <2>3, <4>1 DEF Release
      <4>3. /\ [y EXCEPT !.status = "Progressing"].workflow = y.workflow
            /\ [y EXCEPT !.status = "Progressing"].stage = y.stage
            /\ [y EXCEPT !.status = "Failed", !.failed = TRUE].workflow = y.workflow
            /\ [y EXCEPT !.status = "Failed", !.failed = TRUE].stage = y.stage
        BY UpdateKeeps
      <4> QED
        BY <4>1, <4>2, <4>3
    <3> QED
      BY <3>1, <3>2 DEF Kept
  <2> QED
    BY <2>2, <2>3
<1>5. CASE SubmitFails(w)
  <2>1. PICK r \in DOMAIN runner : r = handler[w].made
    BY <1>5, HandlerFacts DEF TypeOK, HandlerOK, SubmitFails, At
  <2>2. PICK b \in BOOLEAN : b = (runner[r].stage = "DEPLOY")
    OBVIOUS
  <2>3. runner' = [runner EXCEPT ![r] = [runner[r] EXCEPT !.status = "Failed", !.failed = b]]
        /\ UNCHANGED <<workflow, cause>>
    BY <1>5, <2>1, <2>2 DEF SubmitFails
  <2>4. /\ [runner[r] EXCEPT !.status = "Failed", !.failed = b].workflow = runner[r].workflow
        /\ [runner[r] EXCEPT !.status = "Failed", !.failed = b].stage = runner[r].stage
    BY <1>2, UpdateKeeps
  <2> QED
    BY <2>3, <2>4, OneKept
<1>6. CASE ReportStage(w)
  <2>1. PICK r \in DOMAIN runner : r = handler[w].subject
    BY <1>6, HandlerFacts DEF TypeOK, HandlerOK, ReportStage, At
  <2>2. UNCHANGED <<workflow, cause>>
    BY <1>6 DEF ReportStage
  <2>3. CASE runner' = runner
    BY <1>1, <2>2, <2>3
  <2>4. CASE runner' # runner
    <3>1. PICK s : runner' = [runner EXCEPT ![r] = [runner[r] EXCEPT !.status = s]]
      BY <1>6, <2>1, <2>4 DEF ReportStage
    <3> QED
      BY <1>2, <2>2, <3>1, UpdateKeeps, OneKept
  <2> QED
    BY <2>3, <2>4
<1>7. CASE SaveTimeline(w)
  <2>1. PICK r \in DOMAIN runner : r = handler[w].subject
    BY <1>7, HandlerFacts DEF TypeOK, HandlerOK, SaveTimeline, At
  <2>2. runner' = [runner EXCEPT ![r] = [runner[r] EXCEPT !.healthy = runner[r].healthy + 1]]
        /\ UNCHANGED <<workflow, cause>>
    BY <1>7, <2>1 DEF SaveTimeline
  <2> QED
    BY <1>2, <2>2, UpdateKeeps, OneKept
<1>8. CASE WriteStatus(w)
  <2>1. PICK r \in DOMAIN runner : r = handler[w].subject
    BY <1>8, HandlerFacts DEF TypeOK, HandlerOK, WriteStatus, At
  <2>2. PICK s : runner' = [runner EXCEPT ![r] = [runner[r] EXCEPT !.status = s]]
    BY <1>8, <2>1 DEF WriteStatus
  <2>3. UNCHANGED <<workflow, cause>>
    BY <1>8 DEF WriteStatus
  <2> QED
    BY <1>2, <2>2, <2>3, UpdateKeeps, OneKept
<1> QED
  BY <1>3, <1>4, <1>5, <1>6, <1>7, <1>8 DEF Handle

\* A step that adds no runner.
LEMMA KeptOnce ==
  ASSUME TypeOK, DeployedOnce, Kept
  PROVE  DeployedOnce'
<1> SUFFICES ASSUME NEW wf \in DOMAIN workflow,
                    \A r \in RunnersOf(wf, "DEPLOY")' : ~ByUser(r)'
             PROVE  Cardinality(RunnersOf(wf, "DEPLOY")') <= 1
  BY DEF Kept, DeployedOnce
<1>1. RunnersOf(wf, "DEPLOY")' = RunnersOf(wf, "DEPLOY")
  BY DEF Kept, RunnersOf
<1>2. \A r \in RunnersOf(wf, "DEPLOY") : ~ByUser(r)
  BY <1>1 DEF Kept, ByUser
<1> QED
  BY <1>1, <1>2 DEF DeployedOnce

\* The runners of a stage are finitely many.
LEMMA RunnersFinite ==
  ASSUME RowsOK, NEW wf, NEW s
  PROVE  IsFiniteSet(RunnersOf(wf, s)) /\ Cardinality(RunnersOf(wf, s)) \in Nat
<1>1. DOMAIN runner = 1 .. Len(runner) /\ Len(runner) \in Nat
  BY DEF RowsOK
<1>2. IsFiniteSet(1 .. Len(runner))
  BY <1>1, FS_Interval
<1>3. RunnersOf(wf, s) \subseteq 1 .. Len(runner)
  BY <1>1 DEF RunnersOf
<1>4. IsFiniteSet(RunnersOf(wf, s))
  BY <1>2, <1>3, FS_Subset
<1> QED
  BY <1>4, FS_CardinalityType

\* A step that adds a runner: one for a deployment is a user's, or the first of its
\* workflow.
LEMMA AddedOnce ==
  ASSUME TypeOK, DeployedOnce, NEW n, n = Len(runner) + 1,
         DOMAIN runner' = DOMAIN runner \cup {n},
         \A r \in DOMAIN runner :
           runner'[r].workflow = runner[r].workflow /\ runner'[r].stage = runner[r].stage,
         NEW c, cause' = Append(cause, c),
         \/ runner'[n].stage # "DEPLOY"
         \/ c.kind = "user"
         \/ Cardinality(RunnersOf(runner'[n].workflow, "DEPLOY")) # 1
  PROVE  DeployedOnce'
<1> SUFFICES ASSUME NEW wf, \A r \in RunnersOf(wf, "DEPLOY")' : ~ByUser(r)'
             PROVE  Cardinality(RunnersOf(wf, "DEPLOY")') <= 1
  BY DEF DeployedOnce
<1> DEFINE old == RunnersOf(wf, "DEPLOY")
<1>1. n \in Nat /\ cause'[n] = c /\ \A r \in DOMAIN runner : cause'[r] = cause[r] /\ r # n
  BY DEF TypeOK, RowsOK
<1>2. \A r \in DOMAIN runner : ByUser(r)' = ByUser(r)
  BY <1>1 DEF ByUser
<1>3. RunnersOf(wf, "DEPLOY")'
      = old \cup {r \in {n} : runner'[n].workflow = wf /\ runner'[n].stage = "DEPLOY"}
  BY DEF RunnersOf
<1>4. old \subseteq DOMAIN runner
  BY DEF RunnersOf
<1>5. \A r \in old : ~ByUser(r)
  BY <1>2, <1>3, <1>4
<1>6. IsFiniteSet(old) /\ Cardinality(old) \in Nat
  BY RunnersFinite DEF TypeOK
<1>7. Cardinality(old) <= 1
  <2>1. CASE wf \in DOMAIN workflow
    BY <1>5, <2>1 DEF DeployedOnce
  <2>2. CASE wf \notin DOMAIN workflow
    <3>1. old = {}
      BY <2>2 DEF RunnersOf, TypeOK, RowsOK
    <3>2. Cardinality(old) = 0
      BY <3>1, FS_EmptySet
    <3> QED
      BY <3>2
  <2> QED
    BY <2>1, <2>2
<1>8. CASE ~(runner'[n].workflow = wf /\ runner'[n].stage = "DEPLOY")
  <2>1. RunnersOf(wf, "DEPLOY")' = old
    BY <1>3, <1>8
  <2> QED
    BY <1>7, <2>1
<1>9. CASE runner'[n].workflow = wf /\ runner'[n].stage = "DEPLOY"
  <2>1. n \in RunnersOf(wf, "DEPLOY")'
    BY <1>3, <1>9
  <2>2. ~ByUser(n)'
    BY <2>1
  <2>3. c.kind # "user"
    BY <1>1, <2>2 DEF ByUser
  <2>4. Cardinality(old) = 0
    BY <1>6, <1>7, <1>9, <2>3
  <2>5. old = {}
    BY <1>6, <2>4, FS_EmptySet
  <2>6. RunnersOf(wf, "DEPLOY")' = {n}
    BY <1>3, <1>9, <2>5
  <2>7. Cardinality({n}) = 1
    BY FS_Singleton
  <2> QED
    <3>1. ASSUME NEW S, S = {n} PROVE Cardinality(S) <= 1
      BY <2>7, <3>1
    <3>2. \A S : S = RunnersOf(wf, "DEPLOY")' => Cardinality(S) <= 1
      BY <2>6, <3>1
    <3> QED
      BY <3>2
<1> QED
  BY <1>8, <1>9

\* Creating a runner.
LEMMA CreateOnce ==
  ASSUME TypeOK, Automatic, DeployedOnce, NEW w \in Worker, Create(w)
  PROVE  DeployedOnce'
<1>1. PICK q \in Request : q = Head(handler[w].todo) /\ RequestOK(q)
  BY TodoFacts DEF TypeOK, Create
<1>2. PICK n \in Nat : n = Len(runner) + 1
  BY DEF TypeOK, RowsOK
<1> DEFINE wf == IF WorkflowFor(q) = 0 THEN Len(workflow) + 1 ELSE WorkflowFor(q)
<1>3. PICK new : /\ runner' = Append(runner, new)
                 /\ new.workflow = wf /\ new.stage = StageFor(q)
  BY <1>1 DEF Create
<1>4. /\ DOMAIN runner' = DOMAIN runner \cup {n} /\ runner'[n] = new
      /\ \A r \in DOMAIN runner : runner'[r] = runner[r]
  BY <1>2, <1>3 DEF TypeOK, RowsOK
<1>5. cause' = Append(cause, CauseOf(w))
  BY DEF Create
<1>6. \/ new.stage # "DEPLOY"
      \/ CauseOf(w).kind = "user"
      \/ Cardinality(RunnersOf(new.workflow, "DEPLOY")) # 1
  <2>1. CASE w = "user"
    BY <2>1 DEF CauseOf
  <2>2. CASE w # "user" /\ WorkflowFor(q) = 0
    <3>1. RunnersOf(wf, "DEPLOY") = {}
      BY <2>2 DEF RunnersOf, TypeOK, RowsOK
    <3>2. Cardinality(RunnersOf(wf, "DEPLOY")) = 0
      BY <3>1, FS_EmptySet
    <3> QED
      BY <1>3, <3>2
  <2>3. CASE w # "user" /\ WorkflowFor(q) # 0 /\ StageFor(q) = "DEPLOY"
    <3>1. q.act \in {"auto", "deploy", "post"} /\ (q.act = "auto" => q.workflow = 0)
      <4>1. AutoTodo(<<q>>)
        BY <1>1, <2>3, TailAuto DEF TypeOK, Create
      <4> QED
        BY <4>1 DEF AutoTodo
    <3>2. q.act = "deploy"
      BY <2>3, <3>1 DEF StageFor, WorkflowFor
    <3>3. WorkflowFor(q) = q.workflow /\ ~DeploymentTriggered(q.workflow)
      BY <2>3, <3>2 DEF StageFor, WorkflowFor
    <3> QED
      BY <1>3, <2>3, <3>3 DEF DeploymentTriggered
  <2> QED
    BY <1>3, <2>1, <2>2, <2>3
<1> HIDE DEF wf
<1> QED
  BY <1>2, <1>4, <1>5, <1>6, AddedOnce

\* Retrying a stage.
LEMMA RetryOnce ==
  ASSUME TypeOK, DeployedOnce, NEW r \in DOMAIN runner, RetryStage(r)
  PROVE  DeployedOnce'
<1>1. PICK n \in Nat : n = Len(runner) + 1
  BY DEF TypeOK, RowsOK
<1>2. runner[r] \in Runner /\ runner \in Seq(Runner)
  BY DEF TypeOK, RowsOK
<1>3. PICK ended \in Runner : /\ ended = [runner[r] EXCEPT !.status = "Failed"]
                              /\ ended.workflow = runner[r].workflow /\ ended.stage = runner[r].stage
  BY <1>2, StatusTyped, UpdateKeeps
<1>4. PICK new : new = [runner[r] EXCEPT !.ref = 0] /\ new.stage = runner[r].stage
  BY <1>2, UpdateKeeps
<1>5. runner' = Append([runner EXCEPT ![r] = ended], new) /\ cause' = Append(cause, cause[r])
      /\ runner[r].stage # "DEPLOY"
  BY <1>3, <1>4 DEF RetryStage
<1>6. /\ DOMAIN runner' = DOMAIN runner \cup {n} /\ runner'[n] = new
      /\ \A x \in DOMAIN runner : runner'[x] = IF x = r THEN ended ELSE runner[x]
  BY <1>1, <1>2, <1>5
<1> QED
  BY <1>1, <1>3, <1>4, <1>5, <1>6, AddedOnce

\* Every step.
LEMMA NextOnce == TypeOK /\ Automatic /\ DeployedOnce /\ [Next]_vars => DeployedOnce'
<1> SUFFICES ASSUME TypeOK, Automatic, DeployedOnce, [Next]_vars PROVE DeployedOnce'
  OBVIOUS
<1>1. CASE UNCHANGED rows
  <2>1. Kept
    BY <1>1 DEF rows, Kept
  <2> QED
    BY <2>1, KeptOnce
<1>2. CASE \E w \in Worker : Handle(w)
  BY <1>2, HandleKeeps, KeptOnce, CreateOnce
<1>3. CASE \E r \in DOMAIN runner : RetryStage(r)
  BY <1>3, RetryOnce
<1>4. \/ Cluster \/ (\E t \in Topic : Take(t) \/ Redeliver(t)) \/ (\E p \in Pipeline : SyncByCron(p))
      \/ (\E p \in Pipeline, s \in Stage, a \in DOMAIN artifact, wf \in {0} \cup DOMAIN workflow :
            UserTriggers(p, s, a, wf))
      \/ Crash \/ UNCHANGED vars
      => UNCHANGED rows
  BY DEF Cluster, BuildSucceeds, StageEnds, AppHealthy, Resend, Take, Redeliver, SyncByCron,
         UserTriggers, Crash, vars
<1> QED
  BY <1>1, <1>2, <1>3, <1>4 DEF Next

\* However often a pre stage succeeds and whatever is delivered again, a workflow is
\* deployed once by itself, unless a user has deployed it, too.
THEOREM OneDeployment == Spec => []DeployedOnce
<1>1. Init => TypeOK /\ Automatic /\ DeployedOnce
  <2> SUFFICES ASSUME Init PROVE TypeOK /\ Automatic /\ DeployedOnce
    OBVIOUS
  <2>1. Automatic
    BY IdleTyped DEF Init, Automatic, AutoTodo
  <2>2. DeployedOnce
    BY DEF Init, DeployedOnce
  <2> QED
    BY <2>1, <2>2, InitTyped
<1>2. TypeOK /\ Automatic /\ DeployedOnce /\ [Next]_vars => (TypeOK /\ Automatic /\ DeployedOnce)'
  BY NextTyped, NextAuto, NextOnce
<1> QED
  BY <1>1, <1>2, PTL DEF Spec
-----------------------------------------------------------------------------
(* An image moves along the graph as Promotion says.  The invariant (Grounded)     *)
(* follows a success from the cluster to the requests made of it: the messages and *)
(* the workers only report what has succeeded, and a request of the program names  *)
(* a pipeline below such a success and an image that it yields.                    *)

Below(p, q) == \E i \in DOMAIN Children[p] : Children[p][i] = q

\* The image a run was for, or the copy that its stage makes of it.
FromRun(r, image) ==
  \/ image = ImageOf(r)
  \/ /\ <<PipelineOf(r), runner[r].stage>> \in Copier
     /\ image = [ImageOf(r) EXCEPT !.copies = Append(@, <<PipelineOf(r), runner[r].stage>>)]

AfterBuild(q) ==
  /\ q.act = "auto" /\ Below(Source, q.pipeline)
  /\ \E n \in 1 .. builds : artifact[q.artifact].image = [build |-> n, copies |-> <<>>]

AfterRun(q, r) ==
  \/ /\ q.act = "auto" /\ Below(PipelineOf(r), q.pipeline)
     /\ runner[r].stage = IF PipelineOf(r) \in PostStage THEN "POST" ELSE "DEPLOY"
  \/ /\ q.act = "deploy" /\ q.pipeline = PipelineOf(r) /\ runner[r].stage = "PRE"
  \/ /\ q.act = "post" /\ q.pipeline = PipelineOf(r) /\ runner[r].stage = "DEPLOY"
     /\ q.pipeline \in PostStage /\ q.pipeline \in AutoPost
     /\ q.workflow # 0 /\ workflow[q.workflow].artifact = q.artifact

\* What makes a request of the program legitimate.
After(q) ==
  \/ AfterBuild(q)
  \/ \E r \in succeeded : AfterRun(q, r) /\ FromRun(r, artifact[q.artifact].image)

\* A request stays within the pipeline of its workflow, and asks for a post stage
\* only where there is one.
Proper(q) ==
  /\ q.workflow # 0 => workflow[q.workflow].pipeline = q.pipeline
  /\ q.act \in {"post", "userPOST"} => q.pipeline \in PostStage

StageNews(r, good) == runner[r].stage # "DEPLOY" /\ (good => r \in succeeded)
DeployNews(r, good) == runner[r].stage = "DEPLOY" /\ (good => r \in succeeded)

MessageTrue(t, m) ==
  /\ t = "ci" => m.subject \in 1 .. builds
  /\ t = "stage" => StageNews(m.subject, m.good)
  /\ t = "app" => DeployNews(m.subject, m.good)

RequestTrue(w, q) == Proper(q) /\ (w # "user" => After(q))

HandlerTrue(w, h) ==
  /\ h.pc # "idle" => MessageTrue(w, h.msg)
  /\ h.pc = "begin" /\ w = "ci" => h.subject \in 1 .. builds
  /\ h.pc = "begin" /\ w = "stage" => StageNews(h.subject, h.good)
  /\ h.pc = "copy" => StageNews(h.subject, TRUE)
  /\ h.pc \in {"check", "timeline", "recheck", "status"} => DeployNews(h.subject, h.good)
  /\ \A i \in DOMAIN h.todo : RequestTrue(w, h.todo[i])

Built == \A a \in DOMAIN artifact : artifact[a].image.build \in 1 .. builds

Staged ==
  /\ \A r \in running : runner[r].stage # "DEPLOY"
  /\ \A r \in DOMAIN runner : runner[r].stage = "POST" => PipelineOf(r) \in PostStage

Deployed == \A p \in Pipeline, r \in Nat \ {0}, good \in BOOLEAN :
  app[p].subject = r /\ app[p].healthy = good => DeployNews(r, good)

InQueue(t, m) == \E i \in DOMAIN queue[t] : queue[t][i] = m
Queued == \A t \in Topic, m \in Message : InQueue(t, m) => MessageTrue(t, m)

Handled == \A w \in Worker, h \in Handler : handler[w] = h => HandlerTrue(w, h)

Grounded == Built /\ Staged /\ Deployed /\ Queued /\ Handled

\* Rows stay, and what has succeeded has succeeded for good.
Grown ==
  /\ \A a \in DOMAIN artifact : a \in DOMAIN artifact' /\ artifact'[a] = artifact[a]
  /\ \A wf \in DOMAIN workflow : wf \in DOMAIN workflow' /\ workflow'[wf] = workflow[wf]
  /\ \A r \in DOMAIN runner :
       /\ r \in DOMAIN runner'
       /\ runner'[r].workflow = runner[r].workflow /\ runner'[r].stage = runner[r].stage
       /\ cause'[r] = cause[r]
  /\ succeeded \subseteq succeeded'
  /\ builds' \in Nat /\ builds <= builds'

\* A runner goes on naming the same pipeline, stage and image.
LEMMA RunnerSame ==
  ASSUME RowsOK, Grown, NEW r \in DOMAIN runner
  PROVE  /\ PipelineOf(r)' = PipelineOf(r) /\ ArtifactOf(r)' = ArtifactOf(r)
         /\ ImageOf(r)' = ImageOf(r) /\ RunOf(r)' = RunOf(r) /\ ByUser(r)' = ByUser(r)
<1>1. runner[r].workflow \in DOMAIN workflow /\ ArtifactOf(r) \in DOMAIN artifact
  BY RunnerFacts
<1>2. PICK wf \in DOMAIN workflow : wf = runner[r].workflow /\ wf = runner'[r].workflow
  BY <1>1 DEF Grown
<1>3. PipelineOf(r)' = PipelineOf(r) /\ ArtifactOf(r)' = ArtifactOf(r)
  BY <1>2 DEF Grown, PipelineOf, ArtifactOf
<1>4. ImageOf(r)' = ImageOf(r)
  BY <1>1, <1>3 DEF Grown, ImageOf
<1>5. runner'[r].stage = runner[r].stage /\ cause'[r] = cause[r]
  BY DEF Grown
<1> QED
  BY <1>3, <1>4, <1>5 DEF RunOf, ByUser

\* News stay true.
LEMMA NewsStay ==
  ASSUME Grown, NEW r \in DOMAIN runner, NEW good
  PROVE  /\ StageNews(r, good) => StageNews(r, good)'
         /\ DeployNews(r, good) => DeployNews(r, good)'
BY DEF Grown, StageNews, DeployNews

\* A message stays true.
LEMMA MessageStaysTrue ==
  ASSUME TypeOK, Grown, NEW t, NEW m, MessageOK(t, m), MessageTrue(t, m)
  PROVE  MessageTrue(t, m)'
<1>1. m.subject \in 1 .. builds => m.subject \in 1 .. builds'
  BY DEF Grown, TypeOK, ClusterOK
<1>2. t = "stage" => StageNews(m.subject, m.good)'
  BY NewsStay DEF MessageOK, MessageTrue
<1>3. t = "app" => DeployNews(m.subject, m.good)'
  BY NewsStay DEF MessageOK, MessageTrue
<1> QED
  BY <1>1, <1>2, <1>3 DEF MessageTrue

\* What a request comes after stays so.
LEMMA AfterStays ==
  ASSUME TypeOK, Grown, NEW q, RequestOK(q), After(q)
  PROVE  After(q)'
<1>1. artifact'[q.artifact] = artifact[q.artifact]
  BY DEF RequestOK, Grown
<1>2. CASE AfterBuild(q)
  <2>1. \A n \in 1 .. builds : n \in 1 .. builds'
    BY DEF Grown, TypeOK, ClusterOK
  <2> QED
    BY <1>1, <1>2, <2>1 DEF AfterBuild, After
<1>3. ASSUME NEW r \in succeeded, AfterRun(q, r), FromRun(r, artifact[q.artifact].image)
      PROVE  After(q)'
  <2>1. r \in DOMAIN runner /\ r \in succeeded'
    BY DEF TypeOK, ClusterOK, Grown
  <2>2. PipelineOf(r)' = PipelineOf(r) /\ ImageOf(r)' = ImageOf(r)
        /\ runner'[r].stage = runner[r].stage
    BY <2>1, RunnerSame DEF TypeOK, Grown
  <2>3. q.workflow # 0 => workflow'[q.workflow] = workflow[q.workflow]
    BY DEF RequestOK, Rows, Grown
  <2>4. AfterRun(q, r)'
    BY <1>3, <2>2, <2>3 DEF AfterRun
  <2>5. FromRun(r, artifact[q.artifact].image)'
    BY <1>1, <1>3, <2>2 DEF FromRun
  <2> QED
    BY <2>1, <2>4, <2>5 DEF After
<1> QED
  BY <1>2, <1>3 DEF After

\* A request stays legitimate.
LEMMA RequestStaysTrue ==
  ASSUME TypeOK, Grown, NEW w, NEW q, RequestOK(q), RequestTrue(w, q)
  PROVE  RequestTrue(w, q)'
<1>1. Proper(q)'
  BY DEF RequestTrue, RequestOK, Rows, Proper, Grown
<1> QED
  BY <1>1, AfterStays DEF RequestTrue

\* What a worker knows stays true.
LEMMA HandlerStaysTrue ==
  ASSUME TypeOK, Grown, NEW w \in Worker, NEW h, HandlerOK(w, h),
         HandlerTrue(w, h)
  PROVE  HandlerTrue(w, h)'
<1>1. h.pc # "idle" => MessageTrue(w, h.msg)'
  <2>1. CASE w = "user"
    BY <2>1 DEF MessageTrue
  <2>2. CASE w # "user"
    BY <2>2, MessageStaysTrue DEF HandlerOK, HandlerTrue
  <2> QED
    BY <2>1, <2>2
<1>2. h.subject \in 1 .. builds => h.subject \in 1 .. builds'
  BY DEF Grown, TypeOK, ClusterOK
<1>3. h.pc = "begin" /\ w = "stage" => StageNews(h.subject, h.good)'
  BY NewsStay DEF HandlerOK, HandlerTrue
<1>4. h.pc = "copy" => StageNews(h.subject, TRUE)'
  BY NewsStay DEF HandlerOK, HandlerTrue
<1>5. h.pc \in {"check", "timeline", "recheck", "status"} => DeployNews(h.subject, h.good)'
  BY NewsStay DEF HandlerOK, HandlerTrue
<1>6. \A i \in DOMAIN h.todo : RequestTrue(w, h.todo[i])'
  BY RequestStaysTrue DEF HandlerOK, HandlerTrue
<1> QED
  BY <1>1, <1>2, <1>3, <1>4, <1>5, <1>6 DEF HandlerTrue

\* A step that adds no runner and at most an artifact.
LEMMA KeptGrows ==
  ASSUME TypeOK, Kept, artifact' = artifact \/ \E a : artifact' = Append(artifact, a),
         builds' \in Nat, builds <= builds', succeeded \subseteq succeeded'
  PROVE  Grown
<1>1. \A a \in DOMAIN artifact : a \in DOMAIN artifact' /\ artifact'[a] = artifact[a]
  <2>1. artifact \in Seq(Artifact)
    BY DEF TypeOK, RowsOK
  <2>2. CASE \E a : artifact' = Append(artifact, a)
    BY <2>1, <2>2
  <2> QED
    BY <2>2
<1> QED
  BY <1>1 DEF Kept, Grown

\* A runner is added.
LEMMA AddedGrows ==
  ASSUME TypeOK, NEW wf, workflow' = workflow \/ workflow' = Append(workflow, wf),
         NEW old, DOMAIN old = DOMAIN runner, old \in Seq(Runner),
         \A r \in DOMAIN runner :
           old[r].workflow = runner[r].workflow /\ old[r].stage = runner[r].stage,
         NEW new, runner' = Append(old, new), NEW c, cause' = Append(cause, c),
         UNCHANGED <<artifact, builds, succeeded>>
  PROVE  Grown
<1>1. \A x \in DOMAIN workflow : x \in DOMAIN workflow' /\ workflow'[x] = workflow[x]
  <2>1. workflow \in Seq(Workflow)
    BY DEF TypeOK, RowsOK
  <2> QED
    BY <2>1
<1>2. \A r \in DOMAIN runner : r \in DOMAIN runner' /\ runner'[r] = old[r]
  OBVIOUS
<1>3. DOMAIN cause = DOMAIN runner /\ \A r \in DOMAIN cause : cause'[r] = cause[r]
  <2>1. cause \in Seq(Cause) /\ DOMAIN cause = DOMAIN runner
    BY DEF TypeOK, RowsOK
  <2> QED
    BY <2>1
<1> QED
  BY <1>1, <1>2, <1>3 DEF Grown, TypeOK, ClusterOK

\* The row of a runner that is retried.
LEMMA RetriedRow ==
  ASSUME TypeOK, NEW r \in DOMAIN runner
  PROVE  LET old == [runner EXCEPT ![r].status = "Failed"] IN
         /\ old \in Seq(Runner) /\ DOMAIN old = DOMAIN runner
         /\ \A x \in DOMAIN runner :
              old[x].workflow = runner[x].workflow /\ old[x].stage = runner[x].stage
<1>1. runner[r] \in Runner
  BY DEF TypeOK, RowsOK
<1>2. PICK ended \in Runner : /\ ended = [runner[r] EXCEPT !.status = "Failed"]
                              /\ ended.workflow = runner[r].workflow
                              /\ ended.stage = runner[r].stage
  BY <1>1, StatusTyped, UpdateKeeps
<1>3. [runner EXCEPT ![r].status = "Failed"] = [runner EXCEPT ![r] = ended]
  BY <1>2
<1>4. /\ [runner EXCEPT ![r] = ended] \in Seq(Runner)
      /\ DOMAIN [runner EXCEPT ![r] = ended] = DOMAIN runner
      /\ \A x \in DOMAIN runner :
           [runner EXCEPT ![r] = ended][x] = IF x = r THEN ended ELSE runner[x]
  BY DEF TypeOK, RowsOK
<1>5. PICK old : old = [runner EXCEPT ![r] = ended]
  OBVIOUS
<1>6. \A x \in DOMAIN runner :
        old[x].workflow = runner[x].workflow /\ old[x].stage = runner[x].stage
  BY <1>2, <1>4, <1>5
<1> QED
  BY <1>3, <1>4, <1>5, <1>6

\* No step of a worker takes anything back.
LEMMA HandleGrows ==
  ASSUME TypeOK, NEW w \in Worker, Handle(w)
  PROVE  Grown
<1>1. UNCHANGED <<builds, succeeded>> /\ builds \in Nat
  BY DEF TypeOK, ClusterOK, Handle, Skip, Create, SubmitStage, Release, SubmitFails,
         HandleCiSuccess, ReportStage, SaveCopies, FetchApp, CheckApp, SaveTimeline, RecheckApp,
         WriteStatus, cluster
<1>2. CASE Create(w)
  <2>1. PICK wf, new, c : /\ workflow' = workflow \/ workflow' = Append(workflow, wf)
                          /\ runner' = Append(runner, new) /\ cause' = Append(cause, c)
                          /\ artifact' = artifact
    BY <1>2 DEF Create
  <2>2. runner \in Seq(Runner)
    BY DEF TypeOK, RowsOK
  <2> QED
    BY <1>1, <2>1, <2>2, AddedGrows
<1>3. CASE ~Create(w)
  <2>1. Kept
    BY <1>3, HandleKeeps
  <2>2. artifact' = artifact \/ \E a : artifact' = Append(artifact, a)
    BY <1>3 DEF Handle, Skip, SubmitStage, Release, SubmitFails, HandleCiSuccess, ReportStage,
                SaveCopies, FetchApp, CheckApp, SaveTimeline, RecheckApp, WriteStatus, rows
  <2> QED
    BY <1>1, <2>1, <2>2, KeptGrows
<1> QED
  BY <1>2, <1>3

\* No step of the cluster does.
LEMMA ClusterGrows ==
  ASSUME TypeOK, Cluster
  PROVE  Grown /\ UNCHANGED <<rows, handler>>
<1>1. UNCHANGED <<rows, handler>> /\ succeeded \subseteq succeeded'
  BY DEF Cluster, BuildSucceeds, StageEnds, AppHealthy, Resend, cluster
<1>2. builds' \in Nat /\ builds <= builds'
  <2>1. builds' = builds + 1 \/ builds' = builds
    BY DEF Cluster, BuildSucceeds, StageEnds, AppHealthy, Resend, cluster
  <2> QED
    BY <2>1 DEF TypeOK, ClusterOK
<1>3. Kept /\ artifact' = artifact
  BY <1>1 DEF rows, Kept
<1> QED
  BY <1>1, <1>2, <1>3, KeptGrows

\* Nothing else does.
LEMMA QuietGrows ==
  ASSUME TypeOK, UNCHANGED <<rows, succeeded, builds>>
  PROVE  Grown
<1>1. Kept /\ artifact' = artifact
  BY DEF rows, Kept
<1> QED
  BY <1>1, KeptGrows DEF TypeOK, ClusterOK

\* A retry adds a runner.
LEMMA RetryGrows ==
  ASSUME TypeOK, NEW r \in DOMAIN runner, RetryStage(r)
  PROVE  Grown
<1>1. PICK old : old = [runner EXCEPT ![r].status = "Failed"]
  OBVIOUS
<1>2. PICK new : new = [runner[r] EXCEPT !.ref = 0]
  OBVIOUS
<1>3. old \in Seq(Runner) /\ DOMAIN old = DOMAIN runner
      /\ \A x \in DOMAIN runner :
           old[x].workflow = runner[x].workflow /\ old[x].stage = runner[x].stage
  BY <1>1, RetriedRow
<1>4. /\ runner' = Append(old, new) /\ cause' = Append(cause, cause[r])
      /\ UNCHANGED <<artifact, workflow, builds, succeeded>>
  BY <1>1, <1>2 DEF RetryStage
<1> QED
  BY <1>3, <1>4, AddedGrows

\* Queues that hold nothing new but true messages.
LEMMA QueuedFrom ==
  ASSUME TypeOK, Grown, Queued,
         \A t \in Topic, m \in Message :
           InQueue(t, m)' => InQueue(t, m) \/ MessageTrue(t, m)'
  PROVE  Queued'
<1> SUFFICES ASSUME NEW t \in Topic, NEW m \in Message, InQueue(t, m)'
             PROVE  MessageTrue(t, m)'
  BY DEF Queued
<1>1. InQueue(t, m) => MessageOK(t, m) /\ MessageTrue(t, m)
  BY DEF TypeOK, QueueOK, InQueue, Queued
<1> QED
  BY <1>1, MessageStaysTrue

\* Queues that a step leaves alone.
LEMMA QueuedStays ==
  ASSUME TypeOK, Grown, Queued, UNCHANGED queue
  PROVE  Queued'
<1>1. \A t \in Topic, m \in Message : InQueue(t, m)' => InQueue(t, m)
  BY DEF InQueue
<1> QED
  BY <1>1, QueuedFrom

\* A true message is put at the end.
LEMMA QueuedAppend ==
  ASSUME TypeOK, Grown, Queued, NEW t \in Topic, NEW m \in Message, MessageTrue(t, m)',
         queue' = [queue EXCEPT ![t] = Append(queue[t], m)]
  PROVE  Queued'
<1>1. ASSUME NEW x \in Topic, NEW y \in Message, InQueue(x, y)'
      PROVE  InQueue(x, y) \/ MessageTrue(x, y)'
  <2>1. queue[x] \in Seq(Message) /\ queue'[x] = IF x = t THEN Append(queue[t], m) ELSE queue[x]
    BY DEF TypeOK, QueueOK
  <2>2. InQueue(x, y) \/ (x = t /\ y = m)
    BY <1>1, <2>1 DEF InQueue
  <2> QED
    BY <2>2
<1> QED
  BY <1>1, QueuedFrom

\* A message is published.
LEMMA PublishTrue ==
  ASSUME TypeOK, Grown, Queued, NEW t \in Topic, NEW p \in Pipeline \cup {Source},
         NEW subject \in Nat, NEW good \in BOOLEAN,
         \A m \in Message : m.subject = subject /\ m.good = good => MessageTrue(t, m)',
         Publish(t, p, subject, good)
  PROVE  Queued'
<1> DEFINE m == [id |-> sent + 1, pipeline |-> p, subject |-> subject,
                 good |-> good, again |-> FALSE]
<1>1. m \in Message /\ m.subject = subject /\ m.good = good
  BY DEF Message, TypeOK, QueueOK
<1>2. queue' = [queue EXCEPT ![t] = Append(queue[t], m)]
  BY DEF Publish, Published
<1>3. PICK x \in Message : x = m
  BY <1>1
<1> HIDE DEF m
<1>4. MessageTrue(t, x)'
  BY <1>1, <1>3
<1> QED
  BY <1>2, <1>3, <1>4, QueuedAppend

\* Workers that a step leaves alone.
LEMMA HandledStays ==
  ASSUME TypeOK, Grown, Handled, UNCHANGED handler
  PROVE  Handled'
<1> SUFFICES ASSUME NEW w \in Worker, NEW h \in Handler, handler[w] = h
             PROVE  HandlerTrue(w, h)'
  BY DEF Handled
<1>1. HandlerOK(w, h) /\ HandlerTrue(w, h)
  BY DEF TypeOK, HandlersOK, Handled
<1> QED
  BY <1>1, HandlerStaysTrue

\* A step of one worker.
LEMMA SetHandled ==
  ASSUME TypeOK, Grown, Handled, NEW w \in Worker, NEW h \in Handler, HandlerTrue(w, h)',
         handler' = [handler EXCEPT ![w] = h]
  PROVE  Handled'
<1>1. \A x \in Worker : handler'[x] = IF x = w THEN h ELSE handler[x]
  BY DEF TypeOK, HandlersOK
<1>2. ASSUME NEW x \in Worker, NEW y \in Handler, handler'[x] = y
      PROVE  HandlerTrue(x, y)'
  <2>1. CASE x = w
    BY <1>1, <1>2, <2>1
  <2>2. CASE x # w
    <3>1. handler[x] = y
      BY <1>1, <1>2, <2>2
    <3>2. HandlerOK(x, y) /\ HandlerTrue(x, y)
      BY <3>1 DEF TypeOK, HandlersOK, Handled
    <3> QED
      BY <3>2, HandlerStaysTrue
  <2> QED
    BY <2>1, <2>2
<1> QED
  BY <1>2 DEF Handled

\* A worker that is idle knows nothing.
LEMMA IdleTrue ==
  ASSUME NEW w
  PROVE  HandlerTrue(w, Idle)'
<1>1. Idle.pc = "idle" /\ Idle.todo = <<>>
  BY IdleTyped
<1>2. PICK h : h = Idle
  OBVIOUS
<1>3. h.pc = "idle" /\ h.todo = <<>>
  BY <1>1, <1>2
<1>4. HandlerTrue(w, h)'
  BY <1>3 DEF HandlerTrue
<1> QED
  BY <1>2, <1>4

\* What a worker knows of its message.
LEMMA KnownMessage ==
  ASSUME TypeOK, Handled, NEW w \in Worker, ~At(w, "idle")
  PROVE  MessageTrue(w, Msg(w))
<1>1. handler[w] \in Handler /\ HandlerTrue(w, handler[w])
  BY DEF TypeOK, HandlersOK, Handled
<1>2. PICK h \in Handler : h = handler[w] /\ HandlerTrue(w, h) /\ h.pc # "idle"
  BY <1>1 DEF At
<1>3. MessageTrue(w, h.msg)
  BY <1>2 DEF HandlerTrue
<1> QED
  BY <1>2, <1>3 DEF Msg

\* A worker that is neither at a message nor at news of the cluster.
LEMMA TriggeringTrue ==
  ASSUME TypeOK, Grown, Handled, NEW w \in Worker, ~At(w, "idle") \/ w = "user",
         NEW h \in Handler, h.msg = handler[w].msg, h.pc \in {"trigger", "submit"},
         \A i \in DOMAIN h.todo : RequestTrue(w, h.todo[i])'
  PROVE  HandlerTrue(w, h)'
<1>1. MessageTrue(w, h.msg)'
  <2>1. CASE w = "user"
    BY <2>1 DEF MessageTrue
  <2>2. CASE w # "user"
    <3>1. MessageTrue(w, Msg(w)) /\ MessageOK(w, Msg(w))
      BY <2>2, KnownMessage, HandlerFacts DEF TypeOK, HandlerOK, Msg, At
    <3>2. PICK m : m = h.msg /\ m = Msg(w)
      BY DEF Msg
    <3> QED
      BY <3>1, <3>2, MessageStaysTrue
  <2> QED
    BY <2>1, <2>2
<1> QED
  BY <1>1 DEF HandlerTrue

\* Going on with legitimate requests.
LEMMA ContinueTrue ==
  ASSUME TypeOK, Grown, Handled, NEW w \in Worker, ~At(w, "idle") \/ w = "user",
         NEW todo \in Seq(Request), \A i \in DOMAIN todo : RequestTrue(w, todo[i])',
         Continue(w, todo)
  PROVE  Handled'
<1>1. CASE todo = <<>>
  <2>1. handler' = [handler EXCEPT ![w] = Idle]
    BY <1>1 DEF Continue
  <2> QED
    BY <2>1, IdleTrue, IdleTyped, SetHandled
<1>2. CASE todo # <<>>
  <2>1. PICK h \in Handler : h = handler[w]
    BY HandlerFacts DEF TypeOK
  <2>2. PICK k \in Handler : /\ k = Triggering(h, todo)
                             /\ k.pc = "trigger" /\ k.todo = todo /\ k.msg = h.msg
    BY TriggeringTyped
  <2>3. handler' = [handler EXCEPT ![w] = k]
    BY <1>2, <2>1, <2>2 DEF Continue, Triggering
  <2>4. HandlerTrue(w, k)'
    BY <2>1, <2>2, TriggeringTrue
  <2> QED
    BY <2>3, <2>4, SetHandled
<1> QED
  BY <1>1, <1>2

\* The requests a worker has.
LEMMA TodoTrue ==
  ASSUME TypeOK, Grown, Handled, NEW w \in Worker
  PROVE  \E todo \in Seq(Request) :
           todo = handler[w].todo /\ \A i \in DOMAIN todo : RequestTrue(w, todo[i])'
<1>1. PICK h \in Handler : h = handler[w] /\ HandlerOK(w, h) /\ HandlerTrue(w, h)
  BY DEF TypeOK, HandlersOK, Handled
<1>2. \A i \in DOMAIN h.todo : RequestTrue(w, h.todo[i])'
  BY <1>1, RequestStaysTrue DEF HandlerOK, HandlerTrue
<1>3. PICK todo \in Seq(Request) : todo = h.todo /\ todo = handler[w].todo
  BY <1>1, HandlerFacts DEF TypeOK
<1> QED
  BY <1>2, <1>3

\* The request a worker is at, and those it has left.
LEMMA HeadTrue ==
  ASSUME TypeOK, Grown, Handled, NEW w \in Worker, At(w, "trigger")
  PROVE  \E q \in Request, rest \in Seq(Request) :
           /\ q = Head(handler[w].todo) /\ RequestOK(q) /\ RequestTrue(w, q)
           /\ rest = Tail(handler[w].todo)
           /\ \A i \in DOMAIN rest : RequestTrue(w, rest[i])'
<1>1. PICK h \in Handler : h = handler[w] /\ HandlerOK(w, h) /\ HandlerTrue(w, h)
  BY DEF TypeOK, HandlersOK, Handled
<1>2. PICK todo \in Seq(Request) : todo = h.todo /\ todo # <<>>
  BY <1>1, HandlerFacts DEF TypeOK, HandlerOK, At
<1>3. 1 \in DOMAIN todo /\ Head(todo) = todo[1]
      /\ \A i \in DOMAIN Tail(todo) : i + 1 \in DOMAIN todo /\ Tail(todo)[i] = todo[i + 1]
  BY <1>2
<1>4. \A i \in DOMAIN todo : RequestTrue(w, todo[i])
  BY <1>1, <1>2 DEF HandlerTrue
<1>5. \A i \in DOMAIN todo : RequestTrue(w, todo[i])'
  BY <1>1, <1>2, <1>4, RequestStaysTrue DEF HandlerOK
<1>6. PICK rest \in Seq(Request) : rest = Tail(todo)
  <2>1. Tail(todo) \in Seq(Request)
    BY <1>2
  <2> QED
    BY <2>1
<1>7. \A i \in DOMAIN rest : RequestTrue(w, rest[i])'
  BY <1>3, <1>5, <1>6
<1>8. Head(todo) \in Request /\ RequestOK(Head(todo)) /\ RequestTrue(w, Head(todo))
  BY <1>1, <1>2, <1>3, <1>4 DEF HandlerOK
<1> QED
  BY <1>1, <1>2, <1>6, <1>7, <1>8

\* Images that a step leaves alone.
LEMMA BuiltStays ==
  ASSUME TypeOK, Grown, Built, UNCHANGED artifact
  PROVE  Built'
BY DEF TypeOK, ClusterOK, RowsOK, Built, Grown, Artifact, Image

\* An image is added.
LEMMA BuiltAppend ==
  ASSUME TypeOK, Grown, Built, NEW new, artifact' = Append(artifact, new),
         new.image.build \in 1 .. builds'
  PROVE  Built'
<1> SUFFICES ASSUME NEW a \in DOMAIN artifact'
             PROVE  artifact'[a].image.build \in 1 .. builds'
  BY DEF Built
<1>1. artifact \in Seq(Artifact)
  BY DEF TypeOK, RowsOK
<1>2. (a \in DOMAIN artifact /\ artifact'[a] = artifact[a]) \/ artifact'[a] = new
  BY <1>1
<1>3. a \in DOMAIN artifact => artifact[a].image.build \in 1 .. builds'
  BY DEF Built, Grown, TypeOK, ClusterOK
<1> QED
  BY <1>2, <1>3

\* No runner is added, and only the pods of stages.
LEMMA StagedStays ==
  ASSUME TypeOK, Grown, Staged, DOMAIN runner' = DOMAIN runner,
         \A r \in running' : r \in running \/ (r \in DOMAIN runner /\ runner[r].stage # "DEPLOY")
  PROVE  Staged'
<1>1. \A r \in DOMAIN runner :
        PipelineOf(r)' = PipelineOf(r) /\ runner'[r].stage = runner[r].stage
  BY RunnerSame DEF TypeOK, Grown
<1> QED
  BY <1>1 DEF Staged, TypeOK, ClusterOK

\* Applications that a step leaves alone.
LEMMA DeployedStays ==
  ASSUME TypeOK, Grown, Deployed, UNCHANGED app
  PROVE  Deployed'
<1> SUFFICES ASSUME NEW p \in Pipeline, NEW r \in Nat \ {0}, NEW good \in BOOLEAN,
                    app[p].subject = r, app[p].healthy = good
             PROVE  DeployNews(r, good)'
  BY DEF Deployed
<1>1. r \in DOMAIN runner
  BY DEF TypeOK, ClusterOK, Rows
<1>2. DeployNews(r, good)
  BY DEF Deployed
<1> QED
  BY <1>1, <1>2, NewsStay

\* The application of one pipeline changes.
LEMMA DeployedSets ==
  ASSUME TypeOK, Grown, Deployed, NEW p \in Pipeline, NEW r \in DOMAIN runner,
         NEW good \in BOOLEAN, DeployNews(r, good)',
         NEW a, a.subject = r, a.healthy = good, app' = [app EXCEPT ![p] = a]
  PROVE  Deployed'
<1> SUFFICES ASSUME NEW q \in Pipeline, NEW x \in Nat \ {0}, NEW b \in BOOLEAN,
                    app'[q].subject = x, app'[q].healthy = b
             PROVE  DeployNews(x, b)'
  BY DEF Deployed
<1>1. app'[q] = IF q = p THEN a ELSE app[q]
  BY DEF TypeOK, ClusterOK
<1>2. CASE q = p
  BY <1>1, <1>2
<1>3. CASE q # p
  <2>1. app[q].subject = x /\ app[q].healthy = b /\ x \in DOMAIN runner
    BY <1>1, <1>3 DEF TypeOK, ClusterOK, Rows
  <2>2. DeployNews(x, b)
    BY <2>1 DEF Deployed
  <2> QED
    BY <2>1, <2>2, NewsStay
<1> QED
  BY <1>2, <1>3

\* The steps of the cluster.
LEMMA ClusterGrounded ==
  ASSUME TypeOK, Grounded, Cluster
  PROVE  Grounded'
<1>1. Grown /\ UNCHANGED <<rows, handler>>
  BY ClusterGrows
<1>2. Built' /\ Handled'
  BY <1>1, BuiltStays, HandledStays DEF Grounded, rows
<1>3. UNCHANGED runner
  BY <1>1 DEF rows
<1>4. CASE BuildSucceeds
  <2>1. Staged' /\ Deployed'
    BY <1>1, <1>3, <1>4, StagedStays, DeployedStays DEF Grounded, BuildSucceeds
  <2>2. PICK n \in Nat : n = builds + 1 /\ n \in 1 .. builds'
    BY <1>4 DEF BuildSucceeds, TypeOK, ClusterOK
  <2>3. Publish("ci", Source, n, TRUE)
    BY <1>4, <2>2 DEF BuildSucceeds
  <2>4. \A m \in Message : m.subject = n => MessageTrue("ci", m)'
    BY <2>2 DEF MessageTrue
  <2>5. Queued'
    BY <1>1, <2>3, <2>4, PublishTrue DEF Grounded, Topic
  <2> QED
    BY <1>2, <2>1, <2>5 DEF Grounded
<1>5. ASSUME NEW r \in running, NEW good \in BOOLEAN, StageEnds(r, good) PROVE Grounded'
  <2>1. Staged' /\ Deployed'
    BY <1>1, <1>3, <1>5, StagedStays, DeployedStays DEF Grounded, StageEnds
  <2>2. r \in DOMAIN runner /\ r \in Nat /\ StageNews(r, good)'
    BY <1>3, <1>5 DEF TypeOK, RowsOK, ClusterOK, Grounded, Staged, StageEnds, StageNews
  <2>3. PICK p \in Pipeline : Publish("stage", p, r, good)
    BY <1>5, <2>2, RunnerFacts DEF TypeOK, StageEnds
  <2>4. \A m \in Message : m.subject = r /\ m.good = good => MessageTrue("stage", m)'
    BY <2>2 DEF MessageTrue
  <2>5. Queued'
    BY <1>1, <2>2, <2>3, <2>4, PublishTrue DEF Grounded, Topic
  <2> QED
    BY <1>2, <2>1, <2>5 DEF Grounded
<1>6. ASSUME NEW p \in Pipeline, AppHealthy(p) \/ Resend(p) PROVE Grounded'
  <2>1. PICK r \in DOMAIN runner, b \in BOOLEAN : r = app[p].subject /\ b = app[p].healthy
    BY <1>6 DEF AppHealthy, Resend, TypeOK, ClusterOK, Rows
  <2>2. DeployNews(r, b) /\ r \in Nat
    BY <2>1 DEF Grounded, Deployed, TypeOK, RowsOK
  <2>3. Staged'
    BY <1>1, <1>3, <1>6, StagedStays DEF Grounded, AppHealthy, Resend, cluster
  <2>4. CASE AppHealthy(p)
    <3>1. DeployNews(r, TRUE)' /\ Publish("app", p, r, TRUE)
      BY <1>3, <2>1, <2>2, <2>4 DEF AppHealthy, DeployNews
    <3>2. PICK a : a = [app[p] EXCEPT !.healthy = TRUE]
      OBVIOUS
    <3>3. a.subject = r /\ a.healthy = TRUE
      BY <2>1, <3>2 DEF TypeOK, ClusterOK
    <3>4. app' = [app EXCEPT ![p] = a]
      BY <2>4, <3>2 DEF AppHealthy
    <3>5. Deployed'
      BY <1>1, <3>1, <3>4, <3>3, DeployedSets DEF Grounded
    <3>6. \A m \in Message : m.subject = r /\ m.good = TRUE => MessageTrue("app", m)'
      BY <3>1 DEF MessageTrue
    <3>7. Queued'
      BY <1>1, <2>2, <3>1, <3>6, PublishTrue DEF Grounded, Topic
    <3> QED
      BY <1>2, <2>3, <3>5, <3>7 DEF Grounded
  <2>5. CASE Resend(p)
    <3>1. Deployed'
      BY <1>1, <2>5, DeployedStays DEF Grounded, Resend, cluster
    <3>2. Publish("app", p, r, b) /\ DeployNews(r, b)'
      BY <1>1, <2>1, <2>2, <2>5, NewsStay DEF Resend
    <3>3. \A m \in Message : m.subject = r /\ m.good = b => MessageTrue("app", m)'
      BY <3>2 DEF MessageTrue
    <3>4. Queued'
      BY <1>1, <2>2, <3>2, <3>3, PublishTrue DEF Grounded, Topic
    <3> QED
      BY <1>2, <2>3, <3>1, <3>4 DEF Grounded
  <2> QED
    BY <1>6, <2>4, <2>5
<1> QED
  BY <1>4, <1>5, <1>6 DEF Cluster

\* A step that leaves rows and cluster alone.
LEMMA QuietGrounded ==
  ASSUME TypeOK, Grounded, UNCHANGED <<rows, cluster>>
  PROVE  Grown /\ Built' /\ Staged' /\ Deployed'
<1>1. Grown
  BY QuietGrows DEF cluster
<1>2. UNCHANGED <<artifact, runner, app, running>>
  BY DEF rows, cluster
<1> QED
  BY <1>1, <1>2, BuiltStays, StagedStays, DeployedStays DEF Grounded

\* What a worker knows when it takes a message.
LEMMA TakenTrue ==
  ASSUME NEW t, NEW m \in Message, MessageTrue(t, m)', NEW h \in Handler,
         h.pc = IF t = "app" THEN "check" ELSE "begin",
         h.msg = m, h.subject = m.subject, h.good = m.good, h.todo = <<>>
  PROVE  HandlerTrue(t, h)'
BY DEF HandlerTrue, MessageTrue

\* A message is taken.
LEMMA TakeGrounded ==
  ASSUME TypeOK, Grounded, NEW t \in Topic, Take(t)
  PROVE  Grounded'
<1>1. Grown /\ Built' /\ Staged' /\ Deployed'
  BY QuietGrounded DEF Take
<1>2. queue[t] \in Seq(Message) /\ queue[t] # <<>> /\ queue \in [Topic -> Seq(Message)]
  BY DEF Take, TypeOK, QueueOK
<1>3. PICK m \in Message : m = Head(queue[t]) /\ InQueue(t, m)
  <2>1. Head(queue[t]) \in Message /\ 1 \in DOMAIN queue[t] /\ Head(queue[t]) = queue[t][1]
    BY <1>2
  <2> QED
    BY <2>1 DEF InQueue
<1>4. MessageOK(t, m) /\ MessageTrue(t, m)
  BY <1>3 DEF TypeOK, QueueOK, InQueue, Grounded, Queued
<1>5. MessageTrue(t, m)'
  BY <1>1, <1>4, MessageStaysTrue
<1>6. Queued'
  <2>1. ASSUME NEW x \in Topic, NEW y \in Message, InQueue(x, y)'
        PROVE  InQueue(x, y)
    <3>1. queue'[x] = IF x = t THEN Tail(queue[t]) ELSE queue[x]
      BY <1>2 DEF Take
    <3>2. CASE x = t
      <4>1. PICK i \in DOMAIN Tail(queue[t]) : Tail(queue[t])[i] = y
        BY <2>1, <3>1, <3>2 DEF InQueue
      <4>2. i + 1 \in DOMAIN queue[t] /\ queue[t][i + 1] = y
        BY <1>2, <4>1
      <4> QED
        BY <3>2, <4>2 DEF InQueue
    <3>3. CASE x # t
      BY <2>1, <3>1, <3>3 DEF InQueue
    <3> QED
      BY <3>2, <3>3
  <2> QED
    BY <1>1, <2>1, QueuedFrom DEF Grounded
<1>7. Handled'
  <2>1. CASE handler' = handler
    BY <1>1, <2>1, HandledStays DEF Grounded
  <2>2. CASE handler' # handler
    <3>1. PICK pc \in {"check", "begin"} : pc = IF t = "app" THEN "check" ELSE "begin"
      OBVIOUS
    <3>2. PICK h \in Handler : h = Taken(pc, m)
      BY TakenTyped
    <3>3. h.pc = pc /\ h.msg = m /\ h.subject = m.subject /\ h.todo = <<>> /\ h.good = m.good
      BY <3>2 DEF Taken
    <3>4. handler' = [handler EXCEPT ![t] = h] /\ t \in Worker
      BY <1>3, <2>2, <3>1, <3>2 DEF Take, Taken, Worker
    <3>5. HandlerTrue(t, h)'
      BY <1>5, <3>1, <3>3, TakenTrue
    <3> QED
      BY <1>1, <3>4, <3>5, SetHandled DEF Grounded
  <2> QED
    BY <2>1, <2>2
<1> QED
  BY <1>1, <1>6, <1>7 DEF Grounded

\* A message delivered again says what it said before.
LEMMA AgainTrue ==
  ASSUME TypeOK, Grown, Handled, NEW t \in Topic, ~At(t, "idle")
  PROVE  \E m \in Message : m = [Msg(t) EXCEPT !.again = TRUE] /\ MessageTrue(t, m)'
<1>1. PICK x \in Message : x = Msg(t) /\ MessageTrue(t, x)
  BY HandlerFacts, KnownMessage DEF TypeOK, Worker, Msg
<1>2. MessageOK(t, x)
  BY <1>1, HandlerFacts DEF TypeOK, HandlerOK, At, Worker, Topic, Msg
<1>3. PICK m \in Message : m = [x EXCEPT !.again = TRUE]
  BY DEF Message
<1>4. m.subject = x.subject /\ m.good = x.good
  BY <1>3 DEF Message
<1>5. MessageTrue(t, m)'
  BY <1>1, <1>2, <1>4, MessageStaysTrue DEF MessageTrue
<1> QED
  BY <1>1, <1>3, <1>5

\* A message is delivered again.
LEMMA RedeliverGrounded ==
  ASSUME TypeOK, Grounded, NEW t \in Topic, Redeliver(t)
  PROVE  Grounded'
<1>1. Grown /\ Built' /\ Staged' /\ Deployed'
  BY QuietGrounded DEF Redeliver
<1>2. PICK m \in Message : m = [Msg(t) EXCEPT !.again = TRUE] /\ MessageTrue(t, m)'
  BY <1>1, AgainTrue DEF Redeliver, Grounded
<1>3. queue' = [queue EXCEPT ![t] = Append(queue[t], m)]
  BY <1>2 DEF Redeliver
<1> QED
  BY <1>1, <1>2, <1>3, QueuedAppend, HandledStays DEF Grounded, Redeliver

\* The process crashes.
LEMMA CrashGrounded ==
  ASSUME TypeOK, Grounded, Crash
  PROVE  Grounded'
<1>1. Grown /\ Built' /\ Staged' /\ Deployed'
  BY QuietGrounded DEF Crash
<1>2. Queued'
  <2>1. ASSUME NEW t \in Topic, NEW y \in Message, InQueue(t, y)'
        PROVE  InQueue(t, y) \/ MessageTrue(t, y)'
    <3>1. queue[t] \in Seq(Message) /\ queue'[t] = Requeued[t]
      BY DEF TypeOK, QueueOK, Crash, Requeued
    <3>2. CASE Interrupted(t)
      <4>1. PICK m \in Message : m = [Msg(t) EXCEPT !.again = TRUE] /\ MessageTrue(t, m)'
        BY <1>1, <3>2, AgainTrue DEF Interrupted, Grounded
      <4>2. queue'[t] = <<m>> \o queue[t]
        BY <3>1, <3>2, <4>1 DEF Requeued
      <4>3. PICK i \in DOMAIN (<<m>> \o queue[t]) : (<<m>> \o queue[t])[i] = y
        BY <2>1, <4>2 DEF InQueue
      <4>4. IF i = 1 THEN y = m ELSE i - 1 \in DOMAIN queue[t] /\ queue[t][i - 1] = y
        BY <3>1, <4>3
      <4> QED
        BY <4>1, <4>4 DEF InQueue
    <3>3. CASE ~Interrupted(t)
      <4>1. queue'[t] = queue[t]
        BY <3>1, <3>3 DEF Requeued
      <4> QED
        BY <2>1, <4>1 DEF InQueue
    <3> QED
      BY <3>2, <3>3
  <2> QED
    BY <1>1, <2>1, QueuedFrom DEF Grounded
<1>3. Handled'
  <2> SUFFICES ASSUME NEW w \in Worker, NEW h \in Handler, handler'[w] = h
               PROVE  HandlerTrue(w, h)'
    BY DEF Handled
  <2>1. h = Idle
    BY DEF Crash
  <2>2. h.pc = "idle" /\ h.todo = <<>>
    BY <2>1, IdleTyped
  <2> QED
    BY <2>2 DEF HandlerTrue
<1> QED
  BY <1>1, <1>2, <1>3 DEF Grounded

\* The cron asks for a look at an application: a message that reports nothing.
LEMMA SyncGrounded ==
  ASSUME TypeOK, Grounded, NEW p \in Pipeline, SyncByCron(p)
  PROVE  Grounded'
<1>1. Grown /\ Built' /\ Staged' /\ Deployed'
  BY QuietGrounded DEF SyncByCron
<1>2. \A m \in Message : MessageTrue("sync", m)'
  BY DEF MessageTrue
<1>3. Publish("sync", p, 0, FALSE)
  BY DEF SyncByCron
<1>4. Queued'
  BY <1>1, <1>2, <1>3, PublishTrue DEF Grounded, Topic
<1> QED
  BY <1>1, <1>4, HandledStays DEF Grounded, SyncByCron

\* A user triggers a stage.
LEMMA UserGrounded ==
  ASSUME TypeOK, Grounded, NEW p \in Pipeline, NEW s \in Stage, NEW a \in DOMAIN artifact,
         NEW wf \in {0} \cup DOMAIN workflow, UserTriggers(p, s, a, wf)
  PROVE  Grounded'
<1>1. Grown /\ Built' /\ Staged' /\ Deployed'
  BY QuietGrounded DEF UserTriggers
<1>2. PICK act \in {"userPRE", "userDEPLOY", "userPOST"} :
        /\ act = CASE s = "PRE" -> "userPRE" [] s = "DEPLOY" -> "userDEPLOY"
                   [] s = "POST" -> "userPOST"
        /\ act = "userPOST" => s = "POST"
  BY DEF Stage
<1> DEFINE todo == <<[act |-> act, pipeline |-> p, artifact |-> a, workflow |-> wf]>>
<1>3. Continue("user", todo)
  BY <1>2 DEF UserTriggers
<1>4. todo \in Seq(Request)
  <2>1. a \in Nat /\ wf \in Nat
    BY DEF TypeOK, RowsOK
  <2> QED
    BY <2>1, RequestTyped
<1>5. ASSUME NEW q, q = [act |-> act, pipeline |-> p, artifact |-> a, workflow |-> wf]
      PROVE  RequestTrue("user", q)'
  <2>1. q.act = act /\ q.pipeline = p /\ q.workflow = wf
    BY <1>5
  <2>2. wf # 0 => workflow'[wf].pipeline = p
    BY DEF UserTriggers, rows
  <2>3. act = "userPOST" => p \in PostStage
    BY <1>2, PipelineAssumption DEF UserTriggers
  <2> QED
    BY <2>1, <2>2, <2>3 DEF RequestTrue, Proper
<1>6. \A i \in DOMAIN todo :
        todo[i] = [act |-> act, pipeline |-> p, artifact |-> a, workflow |-> wf]
  OBVIOUS
<1>7. PICK list \in Seq(Request) : list = todo
  BY <1>4
<1> HIDE DEF todo
<1>8. \A i \in DOMAIN list : RequestTrue("user", list[i])'
  BY <1>5, <1>6, <1>7
<1>9. Handled'
  BY <1>1, <1>3, <1>7, <1>8, ContinueTrue DEF Grounded, Worker
<1> QED
  BY <1>1, <1>9, QueuedStays DEF Grounded, UserTriggers

\* A stage is retried: the new runner is a stage of the same workflow.
LEMMA RetryGrounded ==
  ASSUME TypeOK, Grounded, NEW r \in DOMAIN runner, RetryStage(r)
  PROVE  Grounded'
<1>1. Grown
  BY RetryGrows
<1>2. Built' /\ Deployed' /\ Queued' /\ Handled'
  BY <1>1, BuiltStays, DeployedStays, QueuedStays, HandledStays DEF Grounded, RetryStage
<1>3. PICK old, new : /\ old = [runner EXCEPT ![r].status = "Failed"]
                      /\ new = [runner[r] EXCEPT !.ref = 0]
  OBVIOUS
<1>4. old \in Seq(Runner) /\ DOMAIN old = DOMAIN runner
  BY <1>3, RetriedRow
<1>5. new.workflow = runner[r].workflow /\ new.stage = runner[r].stage
  BY <1>3 DEF TypeOK, RowsOK, Runner
<1>6. PICK n \in Nat : n = Len(runner) + 1
  BY DEF TypeOK, RowsOK
<1>7. DOMAIN runner' = DOMAIN runner \cup {n} /\ runner'[n] = new
  <2>1. runner' = Append(old, new)
    BY <1>3 DEF RetryStage
  <2>2. Len(old) = Len(runner) /\ runner \in Seq(Runner)
    BY <1>4 DEF TypeOK, RowsOK
  <2> QED
    BY <1>4, <1>6, <2>1, <2>2
<1>8. \A x \in DOMAIN runner : /\ PipelineOf(x)' = PipelineOf(x)
                               /\ runner'[x].stage = runner[x].stage
  BY <1>1, RunnerSame DEF TypeOK, Grown
<1>9. PipelineOf(n)' = PipelineOf(r) /\ runner'[n].stage = runner[r].stage
  BY <1>5, <1>7 DEF PipelineOf, RetryStage
<1>10. Staged'
  <2>1. \A x \in running' : x = n \/ x \in running
    BY <1>6 DEF RetryStage
  <2>2. \A x \in running' : runner'[x].stage # "DEPLOY"
    BY <1>8, <1>9, <2>1 DEF Grounded, Staged, RetryStage, TypeOK, ClusterOK
  <2> QED
    BY <1>7, <1>8, <1>9, <2>2 DEF Grounded, Staged
<1> QED
  BY <1>2, <1>10 DEF Grounded

\* The requests for the pipelines below.
LEMMA ChildrenBelow ==
  ASSUME NEW p \in Pipeline \cup {Source}, NEW a \in Nat, NEW w,
         \A q : q.act = "auto" /\ q.artifact = a /\ q.workflow = 0 /\ Below(p, q.pipeline)
                => RequestTrue(w, q)'
  PROVE  \E todo \in Seq(Request) :
           todo = ChildRequests(p, a) /\ \A i \in DOMAIN todo : RequestTrue(w, todo[i])'
<1>1. PICK todo \in Seq(Request) : todo = ChildRequests(p, a)
  BY ChildrenTyped
<1>2. Children[p] \in Seq(Pipeline)
  BY PipelineAssumption
<1>3. ASSUME NEW i \in DOMAIN todo, NEW q, q = todo[i]
      PROVE  RequestTrue(w, q)'
  <2>1. q = AutoRequest(Children[p][i], a) /\ i \in DOMAIN Children[p]
    BY <1>1, <1>2, <1>3 DEF ChildRequests
  <2>2. q.act = "auto" /\ q.artifact = a /\ q.workflow = 0 /\ Below(p, q.pipeline)
    BY <2>1 DEF AutoRequest, Below
  <2> QED
    BY <2>2
<1>4. \A i \in DOMAIN todo : RequestTrue(w, todo[i])'
  BY <1>3
<1> QED
  BY <1>1, <1>4

\* Going on to the pipelines below a run that succeeded, with an image it yields.
LEMMA ChildrenOfRun ==
  ASSUME NEW w, NEW p \in Pipeline, NEW r, NEW a \in Nat,
         r \in succeeded', p = PipelineOf(r)',
         runner'[r].stage = IF p \in PostStage THEN "POST" ELSE "DEPLOY",
         FromRun(r, artifact[a].image)'
  PROVE  \E todo \in Seq(Request) :
           todo = ChildRequests(p, a) /\ \A i \in DOMAIN todo : RequestTrue(w, todo[i])'
<1>1. ASSUME NEW q, q.act = "auto", q.artifact = a, q.workflow = 0, Below(p, q.pipeline)
      PROVE  RequestTrue(w, q)'
  <2>1. AfterRun(q, r)'
    BY <1>1 DEF AfterRun
  <2>2. FromRun(r, artifact[q.artifact].image)'
    BY <1>1
  <2>3. After(q)'
    BY <2>1, <2>2 DEF After
  <2>4. Proper(q)'
    BY <1>1 DEF Proper
  <2> QED
    BY <2>3, <2>4 DEF RequestTrue
<1> QED
  BY <1>1, ChildrenBelow

\* The only request of a list.
LEMMA OneRequest ==
  ASSUME NEW w, NEW q \in Request, RequestTrue(w, q)'
  PROVE  \E todo \in Seq(Request) :
           todo = <<q>> /\ \A i \in DOMAIN todo : RequestTrue(w, todo[i])'
<1>1. PICK todo \in Seq(Request) : todo = <<q>>
  <2>1. <<q>> \in Seq(Request)
    OBVIOUS
  <2> QED
    BY <2>1
<1>2. \A i \in DOMAIN todo : RequestTrue(w, todo[i])'
  BY <1>1
<1> QED
  BY <1>1, <1>2

\* No request.
LEMMA NoRequest ==
  ASSUME NEW w
  PROVE  \E todo \in Seq(Request) :
           todo = <<>> /\ \A i \in DOMAIN todo : RequestTrue(w, todo[i])'
<1>1. <<>> \in Seq(Request) /\ DOMAIN <<>> = {}
  OBVIOUS
<1>2. PICK todo : todo = <<>>
  OBVIOUS
<1>3. \A i \in DOMAIN todo : RequestTrue(w, todo[i])'
  BY <1>1, <1>2
<1> QED
  BY <1>1, <1>2, <1>3

\* What follows a deployment that succeeded.
LEMMA AfterTrue ==
  ASSUME TypeOK, Grown, NEW w, NEW r \in succeeded, runner[r].stage = "DEPLOY",
         UNCHANGED <<artifact, workflow>>
  PROVE  \E todo \in Seq(Request) :
           todo = AfterDeployment(r) /\ \A i \in DOMAIN todo : RequestTrue(w, todo[i])'
<1>1. r \in DOMAIN runner /\ r \in succeeded' /\ runner'[r].stage = "DEPLOY"
  BY DEF TypeOK, ClusterOK, Grown
<1>2. PICK p \in Pipeline, a \in DOMAIN artifact, wf \in DOMAIN workflow :
        p = PipelineOf(r) /\ a = ArtifactOf(r) /\ wf = runner[r].workflow
  BY <1>1, RunnerFacts DEF TypeOK
<1>3. p = PipelineOf(r)' /\ ImageOf(r)' = artifact[a].image /\ a \in Nat /\ wf \in Nat \ {0}
  <2>1. a \in Nat /\ wf \in Nat \ {0}
    BY DEF TypeOK, RowsOK
  <2> QED
    BY <1>1, <1>2, <2>1, RunnerSame DEF TypeOK, ImageOf
<1>4. FromRun(r, artifact[a].image)'
  BY <1>3 DEF FromRun
<1>5. CASE p \notin PostStage
  <2>1. AfterDeployment(r) = ChildRequests(p, a)
    BY <1>2, <1>5 DEF AfterDeployment
  <2> QED
    BY <1>1, <1>3, <1>4, <1>5, <2>1, ChildrenOfRun
<1>6. CASE p \in PostStage /\ p \in AutoPost
  <2>1. AfterDeployment(r) = <<[act |-> "post", pipeline |-> p, artifact |-> a, workflow |-> wf]>>
    BY <1>2, <1>6 DEF AfterDeployment
  <2>2. workflow'[wf].artifact = a /\ workflow'[wf].pipeline = p
    BY <1>2 DEF PipelineOf, ArtifactOf
  <2>3. PICK q : q = [act |-> "post", pipeline |-> p, artifact |-> a, workflow |-> wf]
    OBVIOUS
  <2>4. /\ q \in Request
        /\ q.act = "post" /\ q.pipeline = p /\ q.artifact = a /\ q.workflow = wf
    BY <1>3, <2>3 DEF Request
  <2>5. AfterRun(q, r)'
    BY <1>1, <1>3, <1>6, <2>2, <2>4 DEF AfterRun
  <2>6. After(q)'
    BY <1>1, <1>4, <2>4, <2>5 DEF After
  <2>7. Proper(q)'
    BY <1>6, <2>2, <2>4 DEF Proper
  <2>8. RequestTrue(w, q)'
    BY <2>6, <2>7 DEF RequestTrue
  <2>9. PICK todo \in Seq(Request) :
          todo = <<q>> /\ \A i \in DOMAIN todo : RequestTrue(w, todo[i])'
    BY <2>4, <2>8, OneRequest
  <2> QED
    BY <2>1, <2>3, <2>9
<1>7. CASE p \in PostStage /\ p \notin AutoPost
  <2>1. AfterDeployment(r) = <<>>
    BY <1>2, <1>7 DEF AfterDeployment
  <2> QED
    BY <2>1, NoRequest
<1> QED
  BY <1>5, <1>6, <1>7

\* What a worker knows of its subject.
LEMMA KnownSubject ==
  ASSUME TypeOK, Handled, NEW w \in Worker
  PROVE  \E h \in Handler :
           /\ h = handler[w] /\ HandlerOK(w, h)
           /\ h.pc = "begin" /\ w = "ci" => h.subject \in 1 .. builds
           /\ h.pc = "begin" /\ w = "stage" => StageNews(h.subject, h.good)
           /\ h.pc = "copy" => StageNews(h.subject, TRUE)
           /\ h.pc \in {"check", "timeline", "recheck", "status"} => DeployNews(h.subject, h.good)
<1>1. PICK h \in Handler : h = handler[w] /\ HandlerOK(w, h) /\ HandlerTrue(w, h)
  BY DEF TypeOK, HandlersOK, Handled
<1> QED
  BY <1>1 DEF HandlerTrue

\* A worker that goes on with its subject.
LEMMA MoveTrue ==
  ASSUME TypeOK, Grown, Handled, NEW w \in Worker, ~At(w, "idle"),
         NEW k \in Handler, k.msg = handler[w].msg, k.todo = handler[w].todo,
         k.pc \in {"copy", "check", "timeline", "recheck", "status"},
         k.pc = "copy" => StageNews(k.subject, TRUE)',
         k.pc # "copy" => DeployNews(k.subject, k.good)'
  PROVE  HandlerTrue(w, k)'
<1>1. MessageTrue(w, k.msg)'
  <2>1. CASE w = "user"
    BY <2>1 DEF MessageTrue
  <2>2. CASE w # "user"
    <3>1. MessageTrue(w, Msg(w)) /\ MessageOK(w, Msg(w))
      BY <2>2, KnownMessage, HandlerFacts DEF TypeOK, HandlerOK, Msg, At
    <3>2. PICK m : m = k.msg /\ m = Msg(w)
      BY DEF Msg
    <3> QED
      BY <3>1, <3>2, MessageStaysTrue
  <2> QED
    BY <2>1, <2>2
<1>2. \A i \in DOMAIN k.todo : RequestTrue(w, k.todo[i])'
  <2>1. PICK todo \in Seq(Request) :
          todo = handler[w].todo /\ \A i \in DOMAIN todo : RequestTrue(w, todo[i])'
    BY TodoTrue
  <2>2. todo = k.todo
    BY <2>1
  <2> QED
    BY <2>1, <2>2
<1> QED
  BY <1>1, <1>2 DEF HandlerTrue

\* A build becomes an artifact, and the pipelines below are triggered with it.
LEMMA CiGrounded ==
  ASSUME TypeOK, Grounded, Grown, NEW w \in Worker, HandleCiSuccess(w)
  PROVE  Built' /\ Handled'
<1>1. PICK n \in 1 .. builds : n = handler[w].subject
  BY KnownSubject DEF Grounded, HandleCiSuccess, At
<1>2. n \in 1 .. builds'
  BY DEF Grown, TypeOK, ClusterOK
<1>3. PICK new : new = [image |-> [build |-> n, copies |-> <<>>],
                        pipeline |-> Source, stage |-> "CI"]
  OBVIOUS
<1>4. artifact' = Append(artifact, new)
  BY <1>1, <1>3 DEF HandleCiSuccess
<1>5. PICK a \in Nat : a = Len(artifact) + 1 /\ artifact'[a] = new
  BY <1>4 DEF TypeOK, RowsOK
<1>6. new.image = [build |-> n, copies |-> <<>>] /\ new.image.build \in 1 .. builds'
  BY <1>2, <1>3
<1>7. Built'
  BY <1>4, <1>6, BuiltAppend DEF Grounded
<1>8. ASSUME NEW q, q.act = "auto", q.artifact = a, q.workflow = 0, Below(Source, q.pipeline)
      PROVE  RequestTrue(w, q)'
  <2>1. artifact'[q.artifact].image = [build |-> n, copies |-> <<>>]
    BY <1>5, <1>6, <1>8
  <2>2. After(q)'
    BY <1>2, <1>8, <2>1 DEF After, AfterBuild
  <2> QED
    BY <1>8, <2>2 DEF RequestTrue, Proper
<1>9. PICK todo \in Seq(Request) :
        todo = ChildRequests(Source, a) /\ \A i \in DOMAIN todo : RequestTrue(w, todo[i])'
  BY <1>8, ChildrenBelow
<1>10. Continue(w, todo) /\ ~At(w, "idle")
  BY <1>5, <1>9 DEF HandleCiSuccess, At
<1>11. Handled'
  BY <1>9, <1>10, ContinueTrue DEF Grounded
<1> QED
  BY <1>7, <1>11

\* A stage's end is recorded.
LEMMA ReportGrounded ==
  ASSUME TypeOK, Grounded, Grown, NEW w \in Worker, ReportStage(w)
  PROVE  Handled'
<1>1. PICK h \in Handler : /\ h = handler[w] /\ HandlerOK(w, h) /\ h.pc = "begin"
                           /\ StageNews(h.subject, h.good)
  BY KnownSubject DEF Grounded, ReportStage, At
<1>2. CASE h.good
  <2>1. PICK k \in Handler : k = [h EXCEPT !.pc = "copy"]
    BY DEF Handler
  <2>2. /\ k.pc = "copy" /\ k.msg = h.msg /\ k.todo = h.todo /\ k.subject = h.subject
        /\ k.good = h.good
    BY <2>1 DEF Handler
  <2>3. handler' = [handler EXCEPT ![w] = k]
    BY <1>1, <1>2, <2>1 DEF ReportStage
  <2>4. StageNews(k.subject, TRUE)'
    <3>1. PICK r \in DOMAIN runner : r = h.subject
      BY <1>1 DEF ReportStage, HandlerOK
    <3>2. StageNews(r, TRUE)
      BY <1>1, <1>2, <3>1 DEF StageNews
    <3> QED
      BY <2>2, <3>1, <3>2, NewsStay
  <2>5. HandlerTrue(w, k)'
    BY <1>1, <2>2, <2>4, MoveTrue DEF Grounded, ReportStage, At
  <2> QED
    BY <2>3, <2>5, SetHandled DEF Grounded
<1>3. CASE ~h.good
  <2>1. handler' = [handler EXCEPT ![w] = Idle]
    BY <1>1, <1>3 DEF ReportStage
  <2> QED
    BY <2>1, IdleTrue, IdleTyped, SetHandled DEF Grounded
<1> QED
  BY <1>2, <1>3

\* The plugins' copy of a stage's image.
LEMMA CopyTyped ==
  ASSUME TypeOK, NEW r \in DOMAIN runner
  PROVE  /\ CopyOf(r).image.build = ImageOf(r).build
         /\ CopyOf(r).image = [ImageOf(r) EXCEPT
              !.copies = Append(ImageOf(r).copies, <<PipelineOf(r), runner[r].stage>>)]
<1>1. PICK image \in Image : image = ImageOf(r)
  BY RunnerFacts DEF TypeOK
<1>2. PICK c : c = Append(image.copies, <<PipelineOf(r), runner[r].stage>>)
  OBVIOUS
<1>3. CopyOf(r).image = [image EXCEPT !.copies = c]
  BY <1>1, <1>2 DEF CopyOf
<1>4. [image EXCEPT !.copies = c].build = image.build
  BY DEF Image
<1> QED
  BY <1>1, <1>2, <1>3, <1>4

\* A stage's copies are saved, and what follows it is triggered with them.
LEMMA SaveCopiesGrounded ==
  ASSUME TypeOK, Grounded, Grown, NEW w \in Worker, SaveCopies(w)
  PROVE  Built' /\ Handled'
<1>1. PICK r \in DOMAIN runner : /\ r = handler[w].subject /\ r \in succeeded
                                 /\ runner[r].stage # "DEPLOY"
  BY KnownSubject DEF Grounded, SaveCopies, At, HandlerOK, StageNews
<1>2. PICK p \in Pipeline, b \in DOMAIN artifact, wf \in DOMAIN workflow :
        p = PipelineOf(r) /\ b = ArtifactOf(r) /\ wf = runner[r].workflow
  BY RunnerFacts DEF TypeOK
<1>3. PICK a \in Nat : a = IF NewCopies(r) = {} THEN b ELSE Len(artifact) + 1
  <2>1. b \in Nat /\ Len(artifact) + 1 \in Nat
    BY DEF TypeOK, RowsOK
  <2> QED
    BY <2>1
<1>4. ImageOf(r) = artifact[b].image /\ ImageOf(r).build \in 1 .. builds
  BY <1>2 DEF ImageOf, Grounded, Built
<1>5. CopyOf(r).image.build \in 1 .. builds'
  <2>1. ImageOf(r).build \in 1 .. builds'
    BY <1>4 DEF Grown, TypeOK, ClusterOK
  <2> QED
    BY <2>1, CopyTyped
<1>6. Built'
  <2>1. CASE artifact' = artifact
    BY <2>1, BuiltStays DEF Grounded
  <2>2. CASE artifact' # artifact
    <3>1. artifact' = Append(artifact, CopyOf(r))
      BY <1>1, <2>2 DEF SaveCopies
    <3> QED
      BY <1>5, <3>1, BuiltAppend DEF Grounded
  <2> QED
    BY <2>1, <2>2
<1>7. /\ PipelineOf(r)' = p /\ ImageOf(r)' = ImageOf(r)
      /\ runner'[r].stage = runner[r].stage /\ r \in succeeded'
  BY <1>1, <1>2, RunnerSame DEF TypeOK, Grown
<1>8. FromRun(r, artifact[a].image)'
  <2>1. CASE NewCopies(r) = {}
    <3>1. artifact'[a].image = ImageOf(r)
      BY <1>1, <1>3, <1>4, <2>1 DEF SaveCopies
    <3> QED
      BY <1>7, <3>1 DEF FromRun
  <2>2. CASE NewCopies(r) # {}
    <3>1. artifact' = Append(artifact, CopyOf(r))
      BY <1>1, <2>2 DEF SaveCopies
    <3>2. artifact'[a] = CopyOf(r)
      BY <1>3, <2>2, <3>1 DEF TypeOK, RowsOK
    <3>3. <<p, runner[r].stage>> \in Copier
      BY <1>2, <2>2 DEF NewCopies
    <3>4. artifact'[a].image = [ImageOf(r) EXCEPT
                                  !.copies = Append(ImageOf(r).copies, <<p, runner[r].stage>>)]
      BY <1>2, <3>2, CopyTyped
    <3> QED
      BY <1>7, <3>3, <3>4 DEF FromRun
  <2> QED
    BY <2>1, <2>2
<1>9. ~At(w, "idle")
  BY DEF SaveCopies, At
<1>10. CASE runner[r].stage = "PRE"
  <2>1. PICK q : q = [act |-> "deploy", pipeline |-> p, artifact |-> a, workflow |-> wf]
    OBVIOUS
  <2>2. /\ q \in Request
        /\ q.act = "deploy" /\ q.pipeline = p /\ q.artifact = a /\ q.workflow = wf
    <3>1. wf \in Nat
      BY DEF TypeOK, RowsOK
    <3> QED
      BY <2>1, <3>1 DEF Request
  <2>3. AfterRun(q, r)'
    BY <1>7, <1>10, <2>2 DEF AfterRun
  <2>4. After(q)'
    BY <1>7, <1>8, <2>2, <2>3 DEF After
  <2>5. Proper(q)'
    BY <1>2, <2>2 DEF Proper, PipelineOf, SaveCopies
  <2>6. RequestTrue(w, q)'
    BY <2>4, <2>5 DEF RequestTrue
  <2>7. PICK todo \in Seq(Request) :
          todo = <<q>> /\ \A i \in DOMAIN todo : RequestTrue(w, todo[i])'
    BY <2>2, <2>6, OneRequest
  <2>8. Continue(w, todo)
    BY <1>1, <1>2, <1>3, <1>10, <2>1, <2>7 DEF SaveCopies
  <2>9. Handled'
    BY <1>9, <2>7, <2>8, ContinueTrue DEF Grounded
  <2> QED
    BY <1>6, <2>9
<1>11. CASE runner[r].stage # "PRE"
  <2>1. runner[r].stage = "POST" /\ p \in PostStage
    <3>1. runner[r].stage \in {"PRE", "DEPLOY", "POST"}
      BY RunnerFacts DEF TypeOK, Runner, Stage
    <3> QED
      BY <1>1, <1>2, <1>11, <3>1 DEF Grounded, Staged
  <2>2. PICK todo \in Seq(Request) :
          todo = ChildRequests(p, a) /\ \A i \in DOMAIN todo : RequestTrue(w, todo[i])'
    <3>1. r \in succeeded' /\ p = PipelineOf(r)'
      BY <1>7
    <3>2. runner'[r].stage = IF p \in PostStage THEN "POST" ELSE "DEPLOY"
      BY <1>7, <2>1
    <3>3. \E todo \in Seq(Request) :
            todo = ChildRequests(p, a) /\ \A i \in DOMAIN todo : RequestTrue(w, todo[i])'
      BY <1>8, <3>1, <3>2, ChildrenOfRun, SMTT(30)
    <3> QED
      BY <3>3, Zenon
  <2>3. Continue(w, todo)
    BY <1>1, <1>2, <1>3, <1>11, <2>2 DEF SaveCopies
  <2>4. Handled'
    BY <1>9, <2>2, <2>3, ContinueTrue DEF Grounded
  <2> QED
    BY <1>6, <2>4
<1> QED
  BY <1>10, <1>11

\* A worker looks at the live application.
LEMMA FetchGrounded ==
  ASSUME TypeOK, Grounded, Grown, NEW w \in Worker, FetchApp(w)
  PROVE  Handled'
<1>1. PICK h \in Handler : h = handler[w] /\ HandlerOK(w, h) /\ h.pc = "begin" /\ w = "sync"
  BY HandlerFacts DEF TypeOK, FetchApp, At
<1>2. PICK p \in Pipeline : p = Msg(w).pipeline
  BY <1>1 DEF HandlerOK, MessageOK, Msg
<1>3. CASE handler' = [handler EXCEPT ![w] = Idle]
  BY <1>3, IdleTrue, IdleTyped, SetHandled DEF Grounded
<1>4. CASE handler' # [handler EXCEPT ![w] = Idle]
  <2>1. app[p].subject # 0
    BY <1>2, <1>4 DEF FetchApp
  <2>2. PICK r \in DOMAIN runner, good \in BOOLEAN : r = app[p].subject /\ good = app[p].healthy
    BY <2>1 DEF TypeOK, ClusterOK, Rows
  <2>3. r \in Nat \ {0}
    BY RunnerFacts DEF TypeOK
  <2>4. DeployNews(r, good)
    BY <2>2, <2>3 DEF Grounded, Deployed
  <2>5. DeployNews(r, good)'
    BY <2>4, NewsStay
  <2>6. PICK k : k = Looking(h, r, good)
    OBVIOUS
  <2>7. /\ k \in Handler /\ k.pc = "check" /\ k.subject = r /\ k.good = good
        /\ k.msg = h.msg /\ k.todo = h.todo
    BY <2>3, <2>6 DEF Looking, Handler
  <2>8. handler' = [handler EXCEPT ![w] = k]
    BY <1>1, <1>2, <1>4, <2>2, <2>6 DEF FetchApp, Looking
  <2>9. HandlerTrue(w, k)'
    BY <1>1, <2>5, <2>7, MoveTrue DEF Grounded, At
  <2> QED
    BY <2>7, <2>8, <2>9, SetHandled DEF Grounded
<1> QED
  BY <1>3, <1>4

\* A worker goes on with a deployment, or leaves it alone.
LEMMA CheckGrounded ==
  ASSUME TypeOK, Grounded, Grown, NEW w \in Worker, CheckApp(w) \/ SaveTimeline(w) \/ RecheckApp(w)
  PROVE  Handled'
<1>1. PICK h \in Handler : /\ h = handler[w] /\ HandlerOK(w, h)
                           /\ h.pc \in {"check", "timeline", "recheck"}
                           /\ DeployNews(h.subject, h.good)
  BY KnownSubject DEF Grounded, CheckApp, SaveTimeline, RecheckApp, At
<1>2. CASE handler' = [handler EXCEPT ![w] = Idle]
  BY <1>2, IdleTrue, IdleTyped, SetHandled DEF Grounded
<1>3. CASE handler' # [handler EXCEPT ![w] = Idle]
  <2>1. PICK pc \in {"timeline", "recheck", "status"} :
          handler' = [handler EXCEPT ![w] = [h EXCEPT !.pc = pc]]
    <3>1. CASE CheckApp(w)
      BY <1>1, <1>3, <3>1 DEF CheckApp
    <3>2. CASE SaveTimeline(w)
      <4>1. handler' = [handler EXCEPT ![w] = [h EXCEPT !.pc = "recheck"]]
        BY <1>1, <3>2 DEF SaveTimeline
      <4> QED
        BY <4>1
    <3>3. CASE RecheckApp(w)
      BY <1>1, <1>3, <3>3 DEF RecheckApp
    <3> QED
      BY <3>1, <3>2, <3>3
  <2>2. PICK k : k = [h EXCEPT !.pc = pc]
    OBVIOUS
  <2>3. /\ k \in Handler /\ k.pc = pc /\ k.subject = h.subject /\ k.good = h.good
        /\ k.msg = h.msg /\ k.todo = h.todo
    BY <2>2 DEF Handler
  <2>4. h.subject \in DOMAIN runner
    BY <1>1 DEF HandlerOK
  <2>5. PICK r \in DOMAIN runner, good \in BOOLEAN : r = h.subject /\ good = h.good
    BY <2>4 DEF Handler
  <2>6. DeployNews(r, good)'
    BY <1>1, <2>5, NewsStay
  <2>7. HandlerTrue(w, k)'
    BY <1>1, <2>3, <2>5, <2>6, MoveTrue DEF Grounded, At
  <2> QED
    BY <2>1, <2>2, <2>3, <2>7, SetHandled DEF Grounded
<1> QED
  BY <1>2, <1>3

\* A deployment's status is written, and what follows it is triggered.
LEMMA WriteGrounded ==
  ASSUME TypeOK, Grounded, Grown, NEW w \in Worker, WriteStatus(w)
  PROVE  Handled'
<1>1. PICK h \in Handler : /\ h = handler[w] /\ HandlerOK(w, h)
                           /\ h.pc = "status" /\ DeployNews(h.subject, h.good)
  BY KnownSubject DEF Grounded, WriteStatus, At
<1>2. ~At(w, "idle")
  BY DEF WriteStatus, At
<1>3. PICK todo \in Seq(Request) :
        Continue(w, todo) /\ \A i \in DOMAIN todo : RequestTrue(w, todo[i])'
  <2>1. CASE h.good
    <3>1. PICK r \in succeeded : r = h.subject /\ runner[r].stage = "DEPLOY"
      BY <1>1, <2>1 DEF DeployNews
    <3>2. PICK todo \in Seq(Request) :
            todo = AfterDeployment(r) /\ \A i \in DOMAIN todo : RequestTrue(w, todo[i])'
      BY <3>1, AfterTrue DEF WriteStatus
    <3>3. Continue(w, todo)
      BY <1>1, <2>1, <3>1, <3>2 DEF WriteStatus
    <3> QED
      BY <3>2, <3>3
  <2>2. CASE ~h.good
    <3>1. PICK todo \in Seq(Request) :
            todo = <<>> /\ \A i \in DOMAIN todo : RequestTrue(w, todo[i])'
      BY NoRequest
    <3>2. Continue(w, todo)
      BY <1>1, <2>2, <3>1 DEF WriteStatus
    <3> QED
      BY <3>1, <3>2
  <2> QED
    BY <2>1, <2>2
<1> QED
  BY <1>2, <1>3, ContinueTrue DEF Grounded

\* A stage is submitted, a deployment released, a request passed over, or an error
\* ends it: the worker goes on with what it has left.
LEMMA RestGrounded ==
  ASSUME TypeOK, Grounded, Grown, NEW w \in Worker,
         Skip(w) \/ SubmitStage(w) \/ Release(w) \/ SubmitFails(w)
  PROVE  Handled'
<1>1. ~At(w, "idle")
  BY DEF Skip, SubmitStage, Release, SubmitFails, At
<1>2. PICK todo \in Seq(Request) :
        Continue(w, todo) /\ \A i \in DOMAIN todo : RequestTrue(w, todo[i])'
  <2>1. CASE Skip(w)
    <3>1. PICK q \in Request, rest \in Seq(Request) :
            /\ rest = Tail(handler[w].todo)
            /\ \A i \in DOMAIN rest : RequestTrue(w, rest[i])'
      BY <2>1, HeadTrue DEF Skip, Grounded
    <3>2. Continue(w, rest)
      BY <2>1, <3>1 DEF Skip
    <3> QED
      BY <3>1, <3>2
  <2>2. CASE Continue(w, handler[w].todo)
    <3>1. PICK todo \in Seq(Request) :
            todo = handler[w].todo /\ \A i \in DOMAIN todo : RequestTrue(w, todo[i])'
      BY TodoTrue DEF Grounded
    <3>2. Continue(w, todo)
      BY <2>2, <3>1
    <3> QED
      BY <3>1, <3>2
  <2>3. CASE Continue(w, <<>>)
    <3>1. PICK todo \in Seq(Request) :
            todo = <<>> /\ \A i \in DOMAIN todo : RequestTrue(w, todo[i])'
      BY NoRequest
    <3>2. Continue(w, todo)
      BY <2>3, <3>1
    <3> QED
      BY <3>1, <3>2
  <2>4. Skip(w) \/ Continue(w, handler[w].todo) \/ Continue(w, <<>>)
    BY DEF SubmitStage, Release, SubmitFails
  <2> QED
    BY <2>1, <2>2, <2>3, <2>4
<1> QED
  BY <1>1, <1>2, ContinueTrue DEF Grounded

\* The run that a worker creates: the stage of its request, of the pipeline and, for
\* a request of the program, with the artifact that it names.
LEMMA CreatedRun ==
  ASSUME TypeOK, Automatic, Grounded, Grown, NEW w \in Worker, Create(w)
  PROVE  \E q \in Request, n \in Nat :
           /\ q = Head(handler[w].todo) /\ RequestOK(q) /\ RequestTrue(w, q)
           /\ StageFor(q) # "none"
           /\ n = Len(runner) + 1 /\ n \notin DOMAIN runner
           /\ DOMAIN runner' = DOMAIN runner \cup {n}
           /\ runner'[n].stage = StageFor(q) /\ cause'[n] = CauseOf(w)
           /\ PipelineOf(n)' = q.pipeline
           /\ w # "user" => ArtifactOf(n)' = q.artifact
<1>1. PICK q \in Request : q = Head(handler[w].todo) /\ RequestOK(q) /\ RequestTrue(w, q)
  BY HeadTrue DEF Create, Grounded
<1>2. PICK n \in Nat : n = Len(runner) + 1
  BY DEF TypeOK, RowsOK
<1>3. PICK wf \in Nat : wf = IF WorkflowFor(q) = 0 THEN Len(workflow) + 1 ELSE WorkflowFor(q)
  BY <1>1, WorkflowTyped DEF TypeOK, RowsOK, Rows
<1>4. PICK new : /\ runner' = Append(runner, new)
                 /\ new.workflow = wf /\ new.stage = StageFor(q) /\ StageFor(q) # "none"
  BY <1>1, <1>3 DEF Create
<1>5. n \notin DOMAIN runner /\ DOMAIN runner' = DOMAIN runner \cup {n} /\ runner'[n] = new
  BY <1>2, <1>4 DEF TypeOK, RowsOK
<1>6. cause'[n] = CauseOf(w)
  <2>1. cause' = Append(cause, CauseOf(w)) /\ cause \in Seq(Cause) /\ n = Len(cause) + 1
    BY <1>2 DEF Create, TypeOK, RowsOK
  <2> QED
    BY <2>1
<1>7. workflow'[wf].pipeline = q.pipeline /\ (w # "user" => workflow'[wf].artifact = q.artifact)
  <2>1. CASE WorkflowFor(q) = 0
    <3>1. PICK row : row = [pipeline |-> q.pipeline, artifact |-> q.artifact]
      OBVIOUS
    <3>2. workflow' = Append(workflow, row) /\ wf = Len(workflow) + 1
      BY <1>1, <1>3, <2>1, <3>1 DEF Create
    <3>3. workflow'[wf] = row
      BY <3>2 DEF TypeOK, RowsOK
    <3> QED
      BY <3>1, <3>3
  <2>2. CASE WorkflowFor(q) # 0
    <3>1. workflow' = workflow
      BY <1>1, <2>2 DEF Create
    <3>2. wf = q.workflow /\ q.workflow # 0
      BY <1>3, <2>2 DEF WorkflowFor
    <3>3. workflow[wf].pipeline = q.pipeline
      BY <1>1, <3>2 DEF RequestTrue, Proper
    <3>4. w # "user" => workflow[wf].artifact = q.artifact
      <4> SUFFICES ASSUME w # "user" PROVE workflow[wf].artifact = q.artifact
        OBVIOUS
      <4>1. q.act \in {"auto", "deploy", "post"} /\ (q.act = "auto" => q.workflow = 0)
        <5>1. AutoTodo(<<q>>)
          BY <1>1, TailAuto DEF TypeOK, Create
        <5> QED
          BY <5>1 DEF AutoTodo
      <4>2. CASE q.act = "deploy"
        BY <2>2, <3>2, <4>2 DEF WorkflowFor
      <4>3. CASE q.act = "post"
        BY <1>1, <3>2, <4>3 DEF RequestTrue, After, AfterBuild, AfterRun
      <4> QED
        BY <3>2, <4>1, <4>2, <4>3
    <3> QED
      BY <3>1, <3>3, <3>4
  <2> QED
    BY <2>1, <2>2
<1>8. PipelineOf(n)' = q.pipeline /\ (w # "user" => ArtifactOf(n)' = q.artifact)
  BY <1>4, <1>5, <1>7 DEF PipelineOf, ArtifactOf
<1> QED
  BY <1>1, <1>2, <1>4, <1>5, <1>6, <1>8

\* A runner is created.
LEMMA CreateGrounded ==
  ASSUME TypeOK, Automatic, Grounded, Grown, NEW w \in Worker, Create(w)
  PROVE  Grounded'
<1>1. PICK q \in Request, n \in Nat :
        /\ q = Head(handler[w].todo) /\ RequestTrue(w, q) /\ StageFor(q) # "none"
        /\ n = Len(runner) + 1 /\ DOMAIN runner' = DOMAIN runner \cup {n}
        /\ runner'[n].stage = StageFor(q) /\ PipelineOf(n)' = q.pipeline
  BY CreatedRun
<1>2. StageFor(q) = "POST" => q.pipeline \in PostStage
  <2>1. FirstStage(q.pipeline) # "POST"
    BY DEF FirstStage
  <2>2. StageFor(q) = "POST" => q.act \in {"post", "userPOST"}
    BY <2>1 DEF StageFor, Request
  <2> QED
    BY <1>1, <2>2 DEF RequestTrue, Proper
<1>3. \A x \in DOMAIN runner : /\ PipelineOf(x)' = PipelineOf(x)
                               /\ runner'[x].stage = runner[x].stage
  BY RunnerSame DEF TypeOK, Grown
<1>4. Staged'
  BY <1>1, <1>2, <1>3 DEF Grounded, Staged, Create, cluster, TypeOK, ClusterOK
<1>5. Handled'
  <2>1. PICK x \in Request, rest \in Seq(Request) :
          rest = Tail(handler[w].todo) /\ \A i \in DOMAIN rest : RequestTrue(w, rest[i])'
    BY HeadTrue DEF Create, Grounded
  <2>2. PICK h \in Handler : h = handler[w]
    BY HandlerFacts DEF TypeOK
  <2>3. PICK k : k = Submitting(h, rest, n)
    OBVIOUS
  <2>4. k \in Handler /\ k.pc = "submit" /\ k.msg = h.msg /\ k.todo = rest
    BY <2>3, SubmittingTyped
  <2>5. handler' = [handler EXCEPT ![w] = k]
    BY <1>1, <2>1, <2>2, <2>3 DEF Create, Submitting
  <2>6. HandlerTrue(w, k)'
    BY <2>1, <2>2, <2>4, TriggeringTrue DEF Create, At, Grounded
  <2> QED
    BY <2>4, <2>5, <2>6, SetHandled DEF Grounded
<1>6. Built' /\ Deployed' /\ Queued'
  BY BuiltStays, DeployedStays, QueuedStays DEF Grounded, Create, cluster
<1> QED
  BY <1>4, <1>5, <1>6 DEF Grounded

\* Every step of a worker.
LEMMA HandleGrounded ==
  ASSUME TypeOK, Automatic, Grounded, NEW w \in Worker, Handle(w)
  PROVE  Grounded'
<1>1. Grown
  BY HandleGrows
<1>2. CASE Create(w)
  BY <1>1, <1>2, CreateGrounded
<1>3. CASE ~Create(w)
  <2>1. DOMAIN runner' = DOMAIN runner
    BY <1>3, HandleKeeps DEF Kept
  <2>2. Queued'
    <3>1. UNCHANGED queue
      BY <1>3 DEF Handle, Skip, SubmitStage, Release, SubmitFails, HandleCiSuccess, ReportStage,
                  SaveCopies, FetchApp, CheckApp, SaveTimeline, RecheckApp, WriteStatus
    <3> QED
      BY <1>1, <3>1, QueuedStays DEF Grounded
  <2>3. Built' /\ Handled'
    <3>1. CASE HandleCiSuccess(w)
      BY <1>1, <3>1, CiGrounded
    <3>2. CASE SaveCopies(w)
      BY <1>1, <3>2, SaveCopiesGrounded
    <3>3. CASE ~HandleCiSuccess(w) /\ ~SaveCopies(w)
      <4>1. UNCHANGED artifact
        BY <1>3, <3>3 DEF Handle, Skip, SubmitStage, Release, SubmitFails, ReportStage,
                          FetchApp, CheckApp, SaveTimeline, RecheckApp, WriteStatus, rows
      <4>2. Handled'
        BY <1>1, <1>3, <3>3, ReportGrounded, FetchGrounded, CheckGrounded, WriteGrounded,
           RestGrounded DEF Handle
      <4> QED
        BY <1>1, <4>1, <4>2, BuiltStays DEF Grounded
    <3> QED
      BY <3>1, <3>2, <3>3
  <2>4. Staged' /\ Deployed'
    <3>1. CASE SubmitStage(w)
      <4>1. PICK r \in DOMAIN runner : r = handler[w].made
        BY <3>1, HandlerFacts DEF TypeOK, HandlerOK, SubmitStage, At
      <4>2. running' = running \cup {r} /\ runner[r].stage # "DEPLOY" /\ UNCHANGED app
        BY <3>1, <4>1 DEF SubmitStage
      <4> QED
        BY <1>1, <2>1, <4>2, StagedStays, DeployedStays DEF Grounded
    <3>2. CASE Release(w)
      <4>1. PICK r \in DOMAIN runner : r = handler[w].made
        BY <3>2, HandlerFacts DEF TypeOK, HandlerOK, Release, At
      <4>2. UNCHANGED running /\ runner[r].stage = "DEPLOY"
        BY <3>2, <4>1 DEF Release
      <4>3. CASE UNCHANGED app
        BY <1>1, <2>1, <4>2, <4>3, StagedStays, DeployedStays DEF Grounded
      <4>4. CASE ~UNCHANGED app
        <5>1. PICK p \in Pipeline : p = PipelineOf(r)
          BY RunnerFacts DEF TypeOK
        <5>2. PICK a : a = [subject |-> r, healthy |-> FALSE]
          OBVIOUS
        <5>3. a.subject = r /\ a.healthy = FALSE
          BY <5>2
        <5>4. app' = [app EXCEPT ![p] = a]
          BY <3>2, <4>1, <4>4, <5>1, <5>2 DEF Release
        <5>5. DeployNews(r, FALSE)'
          BY <1>1, <4>2 DEF DeployNews, Grown
        <5>6. Deployed'
          BY <1>1, <5>3, <5>4, <5>5, DeployedSets DEF Grounded
        <5> QED
          BY <1>1, <2>1, <4>2, <5>6, StagedStays DEF Grounded
      <4> QED
        BY <4>3, <4>4
    <3>3. CASE ~SubmitStage(w) /\ ~Release(w)
      <4>1. UNCHANGED <<app, running>>
        BY <1>3, <3>3 DEF Handle, Skip, SubmitFails, HandleCiSuccess, ReportStage, SaveCopies,
                          FetchApp, CheckApp, SaveTimeline, RecheckApp, WriteStatus, cluster
      <4> QED
        BY <1>1, <2>1, <4>1, StagedStays, DeployedStays DEF Grounded
    <3> QED
      BY <3>1, <3>2, <3>3
  <2> QED
    BY <2>2, <2>3, <2>4 DEF Grounded
<1> QED
  BY <1>2, <1>3

\* The invariant is inductive.
LEMMA NextGrounded == TypeOK /\ Automatic /\ Grounded /\ [Next]_vars => Grounded'
<1> SUFFICES ASSUME TypeOK, Automatic, Grounded, [Next]_vars PROVE Grounded'
  OBVIOUS
<1>1. CASE UNCHANGED vars
  BY <1>1, QuietGrounded, QueuedStays, HandledStays DEF vars, Grounded
<1> QED
  BY <1>1, ClusterGrounded, TakeGrounded, RedeliverGrounded, HandleGrounded, RetryGrounded,
     SyncGrounded, UserGrounded, CrashGrounded DEF Next

\* It holds when nothing has been built.
LEMMA InitGrounded == Init => Grounded
<1> SUFFICES ASSUME Init PROVE Grounded
  OBVIOUS
<1>1. DOMAIN artifact = {} /\ DOMAIN runner = {}
  BY DEF Init
<1>2. Built /\ Staged /\ Deployed
  BY <1>1 DEF Init, Built, Staged, Deployed
<1>3. Queued
  BY DEF Init, Queued, InQueue
<1>4. ASSUME NEW w \in Worker, NEW h \in Handler, handler[w] = h
      PROVE  HandlerTrue(w, h)
  <2>1. h = Idle
    BY <1>4 DEF Init
  <2>2. h.pc = "idle" /\ h.todo = <<>>
    BY <2>1, IdleTyped
  <2> QED
    BY <2>2 DEF HandlerTrue
<1> QED
  BY <1>2, <1>3, <1>4 DEF Grounded, Handled

-----------------------------------------------------------------------------
(* The refinement: the runs of the rows, and of the cluster *)

Autos == {RunOf(r) : r \in {x \in DOMAIN runner : ~ByUser(x)}}
Manuals == {RunOf(r) : r \in {x \in DOMAIN runner : ByUser(x)}}
BuildRun(n) ==
  [pipeline |-> Source, stage |-> "BUILD", image |-> [build |-> n, copies |-> <<>>]]
Successes == {RunOf(r) : r \in succeeded} \cup {BuildRun(n) : n \in 1 .. builds}

\* The runs that were there are there.
LEMMA RunsStay ==
  ASSUME TypeOK, Grown, DOMAIN runner' = DOMAIN runner
  PROVE  Autos' = Autos /\ Manuals' = Manuals
<1>1. \A r \in DOMAIN runner : RunOf(r)' = RunOf(r) /\ ByUser(r)' = ByUser(r)
  BY RunnerSame DEF TypeOK
<1> QED
  BY <1>1 DEF Autos, Manuals

\* A runner is added.
LEMMA RunAdded ==
  ASSUME TypeOK, Grown, NEW n, n \notin DOMAIN runner,
         DOMAIN runner' = DOMAIN runner \cup {n}
  PROVE  /\ ByUser(n)' => Autos' = Autos /\ Manuals' = Manuals \cup {RunOf(n)'}
         /\ ~ByUser(n)' => Manuals' = Manuals /\ Autos' = Autos \cup {RunOf(n)'}
<1>1. \A r \in DOMAIN runner : RunOf(r)' = RunOf(r) /\ ByUser(r)' = ByUser(r)
  BY RunnerSame DEF TypeOK
<1>2. ASSUME ByUser(n)'
      PROVE  Autos' = Autos /\ Manuals' = Manuals \cup {RunOf(n)'}
  BY <1>1, <1>2 DEF Autos, Manuals
<1>3. ASSUME ~ByUser(n)'
      PROVE  Manuals' = Manuals /\ Autos' = Autos \cup {RunOf(n)'}
  BY <1>1, <1>3 DEF Autos, Manuals
<1> QED
  BY <1>2, <1>3

\* What has succeeded stays so.
LEMMA SuccessesStay ==
  ASSUME TypeOK, Grown, UNCHANGED <<succeeded, builds>>
  PROVE  Successes' = Successes
<1>1. \A r \in succeeded : RunOf(r)' = RunOf(r)
  BY RunnerSame DEF TypeOK, ClusterOK
<1> QED
  BY <1>1 DEF Successes, BuildRun

\* A run succeeds.
LEMMA SuccessAdded ==
  ASSUME TypeOK, Grown, NEW r \in DOMAIN runner, succeeded' = succeeded \cup {r},
         UNCHANGED builds
  PROVE  Successes' = Successes \cup {RunOf(r)}
<1>1. \A x \in succeeded \cup {r} : RunOf(x)' = RunOf(x)
  BY RunnerSame DEF TypeOK, ClusterOK
<1> QED
  BY <1>1 DEF Successes, BuildRun

\* A build succeeds.
LEMMA BuildAdded ==
  ASSUME TypeOK, Grown, UNCHANGED succeeded, builds' = builds + 1
  PROVE  Successes' = Successes \cup {BuildRun(builds + 1)}
<1>1. \A x \in succeeded : RunOf(x)' = RunOf(x)
  BY RunnerSame DEF TypeOK, ClusterOK
<1>2. 1 .. builds' = 1 .. builds \cup {builds + 1}
  BY DEF TypeOK, ClusterOK
<1> QED
  BY <1>1, <1>2 DEF Successes, BuildRun

\* What a request of the program creates follows a run that succeeded, by itself.
LEMMA TriggerFollows ==
  ASSUME TypeOK, NEW q \in Request, RequestOK(q), After(q), StageFor(q) # "none"
  PROVE  /\ P!IsAutomatic(q.pipeline, StageFor(q))
         /\ \E d \in Successes :
              /\ P!Follows(d.pipeline, d.stage, q.pipeline, StageFor(q))
              /\ P!Yields(d, artifact[q.artifact].image)
<1> DEFINE p == q.pipeline
           image == artifact[q.artifact].image
<1>1. ASSUME q.act = "auto"
      PROVE  /\ StageFor(q) = IF p \in PreStage THEN "PRE" ELSE "DEPLOY"
             /\ P!IsAutomatic(p, StageFor(q))
  BY <1>1 DEF StageFor, FirstStage, P!IsAutomatic
<1>2. CASE AfterBuild(q)
  <2>1. PICK n \in 1 .. builds : image = [build |-> n, copies |-> <<>>]
    BY <1>2 DEF AfterBuild
  <2>2. PICK d : d = BuildRun(n)
    OBVIOUS
  <2>3. d \in Successes /\ d.pipeline = Source /\ d.stage = "BUILD" /\ d.image = image
    BY <2>1, <2>2 DEF Successes, BuildRun
  <2>4. P!Follows(Source, "BUILD", p, StageFor(q))
    BY <1>1, <1>2 DEF AfterBuild, Below, P!Follows
  <2>5. P!Yields(d, image)
    BY <2>3 DEF P!Yields
  <2> QED
    BY <1>1, <1>2, <2>3, <2>4, <2>5 DEF AfterBuild
<1>3. ASSUME NEW r \in succeeded, AfterRun(q, r), FromRun(r, image)
      PROVE  /\ P!IsAutomatic(p, StageFor(q))
             /\ \E d \in Successes :
                  P!Follows(d.pipeline, d.stage, p, StageFor(q)) /\ P!Yields(d, image)
  <2>1. PICK d : d = RunOf(r)
    OBVIOUS
  <2>2. /\ d \in Successes /\ d.pipeline = PipelineOf(r) /\ d.stage = runner[r].stage
        /\ d.image = ImageOf(r)
    BY <2>1 DEF Successes, RunOf
  <2>3. PipelineOf(r) # Source
    BY RunnerFacts, PipelineAssumption DEF TypeOK, ClusterOK
  <2>4. P!Yields(d, image)
    BY <1>3, <2>2 DEF FromRun, P!Yields, P!Copied
  <2>5. P!IsAutomatic(p, StageFor(q)) /\ P!Follows(PipelineOf(r), runner[r].stage, p, StageFor(q))
    <3>1. CASE q.act = "auto"
      <4>1. /\ Below(PipelineOf(r), p)
            /\ runner[r].stage = IF PipelineOf(r) \in PostStage THEN "POST" ELSE "DEPLOY"
        BY <1>3, <3>1 DEF AfterRun
      <4>2. P!Follows(PipelineOf(r), runner[r].stage, p, StageFor(q))
        BY <1>1, <2>3, <3>1, <4>1 DEF Below, P!Follows
      <4> QED
        BY <1>1, <3>1, <4>2
    <3>2. CASE q.act = "deploy"
      <4>1. p = PipelineOf(r) /\ runner[r].stage = "PRE"
        BY <1>3, <3>2 DEF AfterRun
      <4>2. StageFor(q) = "DEPLOY" /\ p \in AutoDeploy
        BY <3>2 DEF StageFor
      <4> QED
        BY <4>1, <4>2 DEF P!Follows, P!IsAutomatic
    <3>3. CASE q.act = "post"
      <4>1. p = PipelineOf(r) /\ runner[r].stage = "DEPLOY" /\ p \in PostStage /\ p \in AutoPost
        BY <1>3, <3>3 DEF AfterRun
      <4>2. StageFor(q) = "POST"
        BY <3>3 DEF StageFor
      <4> QED
        BY <4>1, <4>2 DEF P!Follows, P!IsAutomatic
    <3> QED
      BY <1>3, <3>1, <3>2, <3>3 DEF AfterRun
  <2> QED
    BY <2>2, <2>4, <2>5
<1> QED
  BY <1>2, <1>3 DEF After

\* Creating a runner is a trigger, or nothing new.
LEMMA CreateMaps ==
  ASSUME TypeOK, Automatic, Grounded, NEW w \in Worker, Create(w)
  PROVE  [P!Next]_(P!vars)
<1>1. Grown
  BY HandleGrows DEF Handle
<1>2. PICK q \in Request, n \in Nat :
        /\ RequestOK(q) /\ RequestTrue(w, q) /\ StageFor(q) # "none"
        /\ n \notin DOMAIN runner /\ DOMAIN runner' = DOMAIN runner \cup {n}
        /\ runner'[n].stage = StageFor(q) /\ cause'[n] = CauseOf(w)
        /\ PipelineOf(n)' = q.pipeline
        /\ w # "user" => ArtifactOf(n)' = q.artifact
  BY <1>1, CreatedRun
<1>3. PICK x : x = RunOf(n)'
  OBVIOUS
<1>4. x.pipeline = q.pipeline /\ x.stage = StageFor(q) /\ x.image = ImageOf(n)'
  BY <1>2, <1>3 DEF RunOf
<1>5. Successes' = Successes
  BY <1>1, SuccessesStay DEF Create, cluster
<1>6. CASE w = "user"
  <2>1. Autos' = Autos /\ Manuals' = Manuals \cup {x}
    <3>1. ByUser(n)'
      BY <1>2, <1>6 DEF ByUser, CauseOf
    <3> QED
      BY <1>1, <1>2, <1>3, <3>1, RunAdded
  <2>2. x.pipeline \in Pipeline
    BY <1>4 DEF Request
  <2>3. \E d \in Successes : d.pipeline = Source /\ d.image.build = x.image.build
    <3>1. PICK k \in 1 .. builds : k = ImageOf(n)'.build
      <4>1. RowsOK'
        BY CreateTyped DEF TypeOK
      <4>2. PICK wf \in DOMAIN workflow' : wf = runner'[n].workflow
        BY <1>2, <4>1 DEF RowsOK
      <4>3. PICK a \in DOMAIN artifact' : a = workflow'[wf].artifact
        BY <4>1 DEF RowsOK
      <4>4. artifact[a].image.build \in 1 .. builds /\ artifact'[a] = artifact[a]
        BY DEF Create, Grounded, Built
      <4>5. ImageOf(n)' = artifact[a].image
        BY <4>2, <4>3, <4>4 DEF ImageOf, ArtifactOf
      <4> QED
        BY <4>4, <4>5
    <3>2. PICK d : d = BuildRun(k)
      OBVIOUS
    <3>3. d \in Successes /\ d.pipeline = Source /\ d.image.build = k
      BY <3>2 DEF Successes, BuildRun
    <3> QED
      BY <1>4, <3>1, <3>3
  <2>4. P!TriggerByUser
    BY <1>5, <2>1, <2>2, <2>3 DEF P!TriggerByUser, Autos, Manuals, Successes, BuildRun
  <2> QED
    BY <2>4 DEF P!Next
<1>7. CASE w # "user"
  <2>1. Manuals' = Manuals /\ Autos' = Autos \cup {x}
    <3>1. ~ByUser(n)'
      BY <1>2, <1>7 DEF ByUser, CauseOf
    <3> QED
      BY <1>1, <1>2, <1>3, <3>1, RunAdded
  <2>2. x.image = artifact[q.artifact].image
    BY <1>2, <1>4, <1>7 DEF ImageOf, Create
  <2>3. /\ P!IsAutomatic(x.pipeline, x.stage)
        /\ \E d \in Successes :
             /\ P!Follows(d.pipeline, d.stage, x.pipeline, x.stage)
             /\ P!Yields(d, x.image)
    BY <1>2, <1>4, <1>7, <2>2, TriggerFollows DEF RequestTrue
  <2>4. P!Trigger
    BY <1>5, <2>1, <2>3 DEF P!Trigger, Autos, Manuals, Successes, BuildRun
  <2> QED
    BY <2>4 DEF P!Next
<1> QED
  BY <1>6, <1>7

\* The run of a runner is one that was triggered.
LEMMA RunKnown ==
  ASSUME NEW r \in DOMAIN runner
  PROVE  RunOf(r) \in Autos \cup Manuals
BY DEF Autos, Manuals

\* Every step maps to a step of Promotion, or to none.
LEMMA NextMaps ==
  ASSUME TypeOK, Automatic, Grounded, [Next]_vars
  PROVE  [P!Next]_(P!vars)
<1>1. ASSUME Autos' = Autos, Manuals' = Manuals, Successes' = Successes
      PROVE  [P!Next]_(P!vars)
  BY <1>1 DEF P!vars, Autos, Manuals, Successes, BuildRun
<1>2. ASSUME NEW r \in DOMAIN runner, Autos' = Autos, Manuals' = Manuals,
             Successes' = Successes \cup {RunOf(r)}
      PROVE  [P!Next]_(P!vars)
  <2>1. PICK x : x = RunOf(r) /\ x \in Autos \cup Manuals /\ Successes' = Successes \cup {x}
    BY <1>2, RunKnown
  <2>2. P!Succeed
    BY <1>2, <2>1 DEF P!Succeed, Autos, Manuals, Successes, BuildRun
  <2> QED
    BY <2>2 DEF P!Next
<1>3. CASE Cluster
  <2>1. Grown /\ Autos' = Autos /\ Manuals' = Manuals
    BY <1>3, ClusterGrows, RunsStay DEF rows
  <2>2. CASE BuildSucceeds
    <3>1. PICK x : x = BuildRun(builds + 1)
      OBVIOUS
    <3>2. Successes' = Successes \cup {x}
      BY <2>1, <2>2, <3>1, BuildAdded DEF BuildSucceeds
    <3>3. x.pipeline = Source /\ x.image.copies = <<>>
      BY <3>1 DEF BuildRun
    <3>4. P!Build
      BY <2>1, <3>2, <3>3 DEF P!Build, Autos, Manuals, Successes, BuildRun
    <3> QED
      BY <3>4 DEF P!Next
  <2>3. ASSUME NEW r \in running, NEW good \in BOOLEAN, StageEnds(r, good)
        PROVE  [P!Next]_(P!vars)
    <3>1. r \in DOMAIN runner /\ UNCHANGED builds
      BY <2>3 DEF TypeOK, ClusterOK, StageEnds
    <3>2. CASE good
      BY <1>2, <2>1, <2>3, <3>1, <3>2, SuccessAdded DEF StageEnds
    <3>3. CASE ~good
      BY <1>1, <2>1, <2>3, <3>1, <3>3, SuccessesStay DEF StageEnds
    <3> QED
      BY <3>2, <3>3
  <2>4. ASSUME NEW p \in Pipeline, AppHealthy(p)
        PROVE  [P!Next]_(P!vars)
    <3>1. PICK r \in DOMAIN runner : r = app[p].subject
      BY <2>4 DEF AppHealthy, TypeOK, ClusterOK, Rows
    <3>2. succeeded' = succeeded \cup {r} /\ UNCHANGED builds
      BY <2>4, <3>1 DEF AppHealthy
    <3> QED
      BY <1>2, <2>1, <3>2, SuccessAdded
  <2>5. ASSUME NEW p \in Pipeline, Resend(p)
        PROVE  [P!Next]_(P!vars)
    BY <1>1, <2>1, <2>5, SuccessesStay DEF Resend, cluster
  <2> QED
    BY <1>3, <2>2, <2>3, <2>4, <2>5 DEF Cluster
<1>4. ASSUME NEW w \in Worker, Handle(w)
      PROVE  [P!Next]_(P!vars)
  <2>1. CASE Create(w)
    BY <2>1, CreateMaps
  <2>2. CASE ~Create(w)
    <3>1. Grown /\ DOMAIN runner' = DOMAIN runner
      BY <1>4, <2>2, HandleGrows, HandleKeeps DEF Kept
    <3>2. UNCHANGED <<succeeded, builds>>
      BY <1>4, <2>2 DEF Handle, Skip, SubmitStage, Release, SubmitFails, HandleCiSuccess,
         ReportStage, SaveCopies, FetchApp, CheckApp, SaveTimeline, RecheckApp, WriteStatus, cluster
    <3> QED
      BY <1>1, <3>1, <3>2, RunsStay, SuccessesStay
  <2> QED
    BY <2>1, <2>2
<1>5. ASSUME NEW r \in DOMAIN runner, RetryStage(r)
      PROVE  [P!Next]_(P!vars)
  <2>1. Grown /\ Successes' = Successes
    BY <1>5, RetryGrows, SuccessesStay DEF RetryStage
  <2>2. PICK n \in Nat : n = Len(runner) + 1
    BY DEF TypeOK, RowsOK
  <2>3. PICK old, new : /\ old = [runner EXCEPT ![r].status = "Failed"]
                        /\ new = [runner[r] EXCEPT !.ref = 0]
    OBVIOUS
  <2>4. new.workflow = runner[r].workflow /\ new.stage = runner[r].stage
    BY <2>3 DEF TypeOK, RowsOK, Runner
  <2>5. /\ DOMAIN runner' = DOMAIN runner \cup {n} /\ runner'[n] = new
        /\ n \notin DOMAIN runner
    <3>1. runner' = Append(old, new)
      BY <1>5, <2>3 DEF RetryStage
    <3>2. old \in Seq(Runner) /\ DOMAIN old = DOMAIN runner
      BY <2>3, RetriedRow
    <3>3. Len(old) = Len(runner) /\ runner \in Seq(Runner)
      BY <3>2 DEF TypeOK, RowsOK
    <3> QED
      BY <2>2, <3>1, <3>2, <3>3
  <2>6. RunOf(n)' = RunOf(r)
    BY <1>5, <2>4, <2>5 DEF RunOf, PipelineOf, ImageOf, ArtifactOf, RetryStage
  <2>7. cause'[n] = cause[r]
    <3>1. cause' = Append(cause, cause[r]) /\ cause \in Seq(Cause) /\ n = Len(cause) + 1
      BY <1>5, <2>2 DEF RetryStage, TypeOK, RowsOK
    <3> QED
      BY <3>1
  <2>8. Autos' = Autos /\ Manuals' = Manuals
    <3>1. CASE ByUser(r)
      <4>1. ByUser(n)' /\ RunOf(r) \in Manuals
        BY <2>7, <3>1 DEF ByUser, Manuals
      <4> QED
        BY <2>1, <2>5, <2>6, <4>1, RunAdded
    <3>2. CASE ~ByUser(r)
      <4>1. ~ByUser(n)' /\ RunOf(r) \in Autos
        BY <2>7, <3>2 DEF ByUser, Autos
      <4> QED
        BY <2>1, <2>5, <2>6, <4>1, RunAdded
    <3> QED
      BY <3>1, <3>2
  <2> QED
    BY <1>1, <2>1, <2>8
<1>6. CASE UNCHANGED <<rows, cluster>>
  <2>1. Grown /\ UNCHANGED <<runner, succeeded, builds>>
    BY <1>6, QuietGrounded DEF rows, cluster
  <2> QED
    BY <1>1, <2>1, RunsStay, SuccessesStay
<1>7. \/ (\E t \in Topic : Take(t) \/ Redeliver(t)) \/ (\E p \in Pipeline : SyncByCron(p))
      \/ (\E p \in Pipeline, s \in Stage, a \in DOMAIN artifact, wf \in {0} \cup DOMAIN workflow :
            UserTriggers(p, s, a, wf))
      \/ Crash \/ UNCHANGED vars
      => UNCHANGED <<rows, cluster>>
  BY DEF Take, Redeliver, SyncByCron, UserTriggers, Crash, vars
<1> QED
  BY <1>3, <1>4, <1>5, <1>6, <1>7 DEF Next

\* An image moves along the graph by itself only where the stage before it has really
\* succeeded with that image, or with the one it is a copy of, whatever is delivered
\* twice, retried, interrupted by a crash or triggered by users in between.
THEOREM Promotes == Spec => ImplementsPromotion
<1>1. Init => TypeOK /\ Automatic /\ Grounded
  <2> SUFFICES ASSUME Init PROVE TypeOK /\ Automatic /\ Grounded
    OBVIOUS
  <2>1. Automatic
    BY IdleTyped DEF Init, Automatic, AutoTodo
  <2> QED
    BY <2>1, InitTyped, InitGrounded
<1>2. TypeOK /\ Automatic /\ Grounded /\ [Next]_vars => (TypeOK /\ Automatic /\ Grounded)'
  BY NextTyped, NextAuto, NextGrounded
<1>3. Init => P!Init
  <2> SUFFICES ASSUME Init PROVE P!Init
    OBVIOUS
  <2>1. DOMAIN runner = {} /\ succeeded = {} /\ 1 .. builds = {}
    BY DEF Init
  <2> QED
    BY <2>1 DEF P!Init
<1>4. TypeOK /\ Automatic /\ Grounded /\ [Next]_vars => [P!Next]_(P!vars)
  BY NextMaps
<1> QED
  BY <1>1, <1>2, <1>3, <1>4, PTL DEF Spec, ImplementsPromotion, P!Spec
-----------------------------------------------------------------------------
(* Each success triggers each thing that follows it once.  A build and a stage are *)
(* reported by one message, which is delivered again only with the same id, so a   *)
(* runner that refers to it makes what comes again be dropped (Claims).  The news  *)
(* of a deployment come in many messages, and only the timelines tell one that was *)
(* followed up (Observed).  Within one delivery, a worker has requests left for    *)
(* pipelines it has not triggered yet (Ahead).                                     *)

\* A pipeline is below another one, or below the build, once.
DistinctChildren ==
  \A p \in Pipeline \cup {Source} : \A i, j \in DOMAIN Children[p] :
    i # j => Children[p][i] # Children[p][j]

\* Topics whose messages each tell of something else, and those that look at a
\* deployment as often as they like.
Told == {"ci", "stage"}
Observer == {"app", "sync"}

Triggers(w) == handler[w].pc \in {"trigger", "submit"}
Spread(todo) == \A i, j \in DOMAIN todo : i # j => todo[i].pipeline # todo[j].pipeline
Avoids(todo, p) == \A i \in DOMAIN todo : todo[i].pipeline # p

\* What a worker may be at, and about which run.
Places(w) ==
  {"idle", "trigger", "submit"} \cup
  CASE w = "ci"    -> {"begin"}
    [] w = "stage" -> {"begin", "copy"}
    [] w = "app"   -> {"check", "timeline", "recheck", "status"}
    [] w = "sync"  -> {"begin", "check", "timeline", "recheck", "status"}
    [] OTHER       -> {}

Steady(w, h) ==
  /\ h.pc \in Places(w) /\ Spread(h.todo)
  /\ h.pc = "timeline" => h.good
  /\ w \in Told /\ h.pc # "idle" => h.subject = h.msg.subject
  /\ w = "stage" /\ h.pc # "idle" =>
       h.subject \in DOMAIN runner /\ runner[h.subject].stage # "DEPLOY"
  /\ w \in Observer /\ h.pc \notin {"idle", "begin"} =>
       h.subject \in DOMAIN runner /\ runner[h.subject].stage = "DEPLOY"

Steered == \A w \in Worker, h \in Handler : handler[w] = h => Steady(w, h)

\* One message tells of a build or a stage; what else says the same is that message,
\* delivered again while a worker is at it.
Single(t) == \A i, j \in DOMAIN queue[t] : i # j => queue[t][i].subject # queue[t][j].subject
Repeats(t) == ~At(t, "idle") =>
  \A i \in DOMAIN queue[t] :
    queue[t][i].subject = Msg(t).subject => queue[t][i].again /\ queue[t][i].id = Msg(t).id
ToldOnce == \A t \in Told : Single(t) /\ Repeats(t)

\* A stage that has not ended yet: it is about to be submitted, or runs.
Makes(w, r) == At(w, "submit") /\ handler[w].made = r
Fresh(r) == r \in running \/ \E w \in Worker : Makes(w, r)
MadeOnce == \A r \in DOMAIN runner, w \in Worker : Makes(w, r) =>
  r \notin running /\ \A v \in Worker \ {w} : ~Makes(v, r)

Unseen(r) ==
  /\ \A i \in DOMAIN queue["stage"] : queue["stage"][i].subject # r
  /\ ~At("stage", "idle") => Msg("stage").subject # r
  /\ \A x \in DOMAIN runner : cause[x].kind = "runner" => cause[x].id # r
NoNews == \A r \in DOMAIN runner : Fresh(r) /\ runner[r].stage # "DEPLOY" => Unseen(r)

KnownCause == \A x \in DOMAIN runner :
  /\ cause[x].kind = "build" => cause[x].id \in 1 .. builds
  /\ cause[x].kind = "runner" => cause[x].id \in DOMAIN runner

\* What the messages of a topic tell of.
News(t, c) == IF t = "ci" THEN c.kind = "build"
              ELSE c.kind = "runner" /\ runner[c.id].stage # "DEPLOY"

\* A message about s has triggered something, and has this id.
Claimed(t, s, id) ==
  /\ \A i \in DOMAIN queue[t] :
       queue[t][i].subject = s => queue[t][i].again /\ queue[t][i].id = id
  /\ ~At(t, "idle") /\ Msg(t).subject = s => Triggers(t) /\ Msg(t).id = id
Claims == \A x \in DOMAIN runner \ retries, t \in Told :
  News(t, cause[x]) => Claimed(t, cause[x].id, runner[x].ref)

\* A worker that has found a deployment healthy, and has said so.
Found(w) == handler[w].pc \in {"recheck", "status"} /\ handler[w].good
Past(w, r) == handler[w].subject = r /\ (Triggers(w) \/ Found(w))
Reporting(w, r) == handler[w].subject = r /\ Found(w)

FromDeployment(x, r) == cause[x].kind = "runner" /\ cause[x].id = r

Seen(r) ==
  /\ \A w \in Observer : Past(w, r) => runner[r].healthy >= 1
  /\ Past("app", r) /\ Past("sync", r) => runner[r].healthy >= 2
  /\ \A x \in DOMAIN runner : FromDeployment(x, r) => runner[r].healthy >= 1
  /\ \A x \in DOMAIN runner \ retries, w \in Observer :
       FromDeployment(x, r) /\ Reporting(w, r) => runner[r].healthy >= 2
Observed == \A r \in DOMAIN runner : runner[r].stage = "DEPLOY" => Seen(r)

\* What is left to do is not what was done.
Twice(c) == c.kind = "runner" /\ runner[c.id].healthy > 1
Ahead == \A x \in DOMAIN runner \ retries, w \in Topic, c \in Cause, p \in Pipeline :
  Triggers(w) /\ CauseOf(w) = c /\ cause[x] = c /\ ~Twice(c) /\ PipelineOf(x) = p
    => Avoids(handler[w].todo, p)

OnceInv == Steered /\ ToldOnce /\ MadeOnce /\ NoNews /\ KnownCause /\ Claims /\ Observed
           /\ Ahead /\ TriggersOnce

\* A runner keeps its reference and its timelines, and is a retry or not for good.
RowsKept == \A r \in DOMAIN runner :
  /\ runner'[r].ref = runner[r].ref
  /\ runner[r].healthy \in Nat /\ runner'[r].healthy \in Nat
  /\ runner[r].healthy <= runner'[r].healthy
  /\ r \in retries' <=> r \in retries

\* A worker stays at its message until it is idle, and does not stop triggering before.
Onward == \A t \in Topic :
  \/ At(t, "idle")'
  \/ /\ ~At(t, "idle") /\ Msg(t)' = Msg(t)
     /\ t # "sync" \/ Triggers(t) => handler'[t].subject = handler[t].subject
     /\ Triggers(t) => Triggers(t)'

\* What the updates of a runner leave alone.
LEMMA UpdateRefs ==
  ASSUME NEW x \in Runner, NEW s, NEW n, NEW b
  PROVE  /\ [x EXCEPT !.status = s].ref = x.ref
         /\ [x EXCEPT !.status = s].healthy = x.healthy
         /\ [x EXCEPT !.healthy = n].ref = x.ref
         /\ [x EXCEPT !.healthy = n].healthy = n
         /\ [x EXCEPT !.status = s, !.failed = b].ref = x.ref
         /\ [x EXCEPT !.status = s, !.failed = b].healthy = x.healthy
         /\ x.healthy \in Nat
BY DEF Runner

\* One runner is updated.
LEMMA OneRowKept ==
  ASSUME TypeOK, NEW r \in DOMAIN runner, NEW new, runner' = [runner EXCEPT ![r] = new],
         new.ref = runner[r].ref, new.healthy \in Nat, runner[r].healthy <= new.healthy,
         UNCHANGED retries
  PROVE  RowsKept
<1>1. \A x \in DOMAIN runner : runner[x] \in Runner /\ runner[x].healthy \in Nat
  BY UpdateRefs DEF TypeOK, RowsOK
<1>2. \A x \in DOMAIN runner : runner'[x] = IF x = r THEN new ELSE runner[x]
  BY DEF TypeOK, RowsOK
<1> QED
  BY <1>1, <1>2 DEF RowsKept

\* Runners that a step leaves alone.
LEMMA SameRowsKept ==
  ASSUME TypeOK, UNCHANGED <<runner, retries>>
  PROVE  RowsKept
<1>1. \A x \in DOMAIN runner : runner[x].healthy \in Nat
  BY UpdateRefs DEF TypeOK, RowsOK
<1> QED
  BY <1>1 DEF RowsKept

\* A step of a worker keeps the rows.
LEMMA HandleRowsKept ==
  ASSUME TypeOK, NEW w \in Worker, Handle(w)
  PROVE  RowsKept
<1>1. UNCHANGED retries
  BY DEF Handle, Skip, Create, SubmitStage, Release, SubmitFails, HandleCiSuccess,
         ReportStage, SaveCopies, FetchApp, CheckApp, SaveTimeline, RecheckApp, WriteStatus
<1>2. \A r \in DOMAIN runner : runner[r] \in Runner /\ runner[r].healthy \in Nat
  BY UpdateRefs DEF TypeOK, RowsOK
<1>3. CASE UNCHANGED runner
  BY <1>1, <1>3, SameRowsKept
<1>4. CASE Release(w)
  <2>1. PICK r \in DOMAIN runner : r = handler[w].made
    BY <1>4, HandlerFacts DEF TypeOK, HandlerOK, Release, At
  <2>2. CASE runner[r].failed
    BY <1>3, <1>4, <2>1, <2>2 DEF Release
  <2>3. CASE ~runner[r].failed
    <3>1. ASSUME NEW x \in DOMAIN runner
          PROVE  runner'[x].ref = runner[x].ref /\ runner'[x].healthy = runner[x].healthy
      <4>1. PICK y \in Runner : y = runner[x]
        BY <1>2
      <4>2. \/ runner'[x] = y
            \/ runner'[x] = [y EXCEPT !.status = "Progressing"]
            \/ runner'[x] = [y EXCEPT !.status = "Failed", !.failed = TRUE]
        BY <1>4, <2>1, <2>3, <4>1 DEF Release
      <4>3. /\ [y EXCEPT !.status = "Progressing"].ref = y.ref
            /\ [y EXCEPT !.status = "Progressing"].healthy = y.healthy
            /\ [y EXCEPT !.status = "Failed", !.failed = TRUE].ref = y.ref
            /\ [y EXCEPT !.status = "Failed", !.failed = TRUE].healthy = y.healthy
        BY UpdateRefs
      <4> QED
        BY <4>1, <4>2, <4>3
    <3> QED
      BY <1>1, <1>2, <3>1 DEF RowsKept
  <2> QED
    BY <2>2, <2>3
<1>5. CASE SubmitFails(w)
  <2>1. PICK r \in DOMAIN runner : r = handler[w].made
    BY <1>5, HandlerFacts DEF TypeOK, HandlerOK, SubmitFails, At
  <2>2. PICK b \in BOOLEAN : b = (runner[r].stage = "DEPLOY")
    OBVIOUS
  <2>3. PICK new : new = [runner[r] EXCEPT !.status = "Failed", !.failed = b]
    OBVIOUS
  <2>4. runner' = [runner EXCEPT ![r] = new]
    BY <1>5, <2>1, <2>2, <2>3 DEF SubmitFails
  <2>5. new.ref = runner[r].ref /\ new.healthy = runner[r].healthy
    BY <1>2, <2>3, UpdateRefs
  <2>6. new.healthy \in Nat /\ runner[r].healthy <= new.healthy
    BY <1>2, <2>5
  <2> QED
    BY <1>1, <2>4, <2>5, <2>6, OneRowKept
<1>6. CASE ReportStage(w) \/ WriteStatus(w)
  <2>1. PICK r \in DOMAIN runner : r = handler[w].subject
    BY <1>6, HandlerFacts DEF TypeOK, HandlerOK, ReportStage, WriteStatus, At
  <2>2. CASE ~UNCHANGED runner
    <3>1. PICK s : runner' = [runner EXCEPT ![r] = [runner[r] EXCEPT !.status = s]]
      <4>1. CASE ReportStage(w)
        BY <2>1, <2>2, <4>1 DEF ReportStage
      <4>2. CASE WriteStatus(w)
        BY <2>1, <4>2 DEF WriteStatus
      <4> QED
        BY <1>6, <4>1, <4>2
    <3>2. PICK new : new = [runner[r] EXCEPT !.status = s]
      OBVIOUS
    <3>3. new.ref = runner[r].ref /\ new.healthy = runner[r].healthy
      BY <1>2, <3>2, UpdateRefs
    <3>4. new.healthy \in Nat /\ runner[r].healthy <= new.healthy
      BY <1>2, <3>3
    <3> QED
      BY <1>1, <3>1, <3>2, <3>3, <3>4, OneRowKept
  <2> QED
    BY <1>3, <2>2
<1>7. CASE SaveTimeline(w)
  <2>1. PICK r \in DOMAIN runner : r = handler[w].subject
    BY <1>7, HandlerFacts DEF TypeOK, HandlerOK, SaveTimeline, At
  <2>2. PICK new : new = [runner[r] EXCEPT !.healthy = runner[r].healthy + 1]
    OBVIOUS
  <2>3. runner' = [runner EXCEPT ![r] = new]
    BY <1>7, <2>1, <2>2 DEF SaveTimeline
  <2>4. new.ref = runner[r].ref /\ new.healthy = runner[r].healthy + 1
    BY <1>2, <2>2, UpdateRefs
  <2>5. new.healthy \in Nat /\ runner[r].healthy <= new.healthy
    BY <1>2, <2>4
  <2> QED
    BY <1>1, <2>3, <2>4, <2>5, OneRowKept
<1>8. CASE Create(w)
  <2>1. PICK new : runner' = Append(runner, new)
    BY <1>8 DEF Create
  <2>2. \A r \in DOMAIN runner : runner'[r] = runner[r]
    BY <2>1 DEF TypeOK, RowsOK
  <2> QED
    BY <1>1, <1>2, <2>2 DEF RowsKept
<1>9. CASE Skip(w) \/ SubmitStage(w) \/ HandleCiSuccess(w) \/ SaveCopies(w) \/ FetchApp(w)
           \/ CheckApp(w) \/ RecheckApp(w)
  BY <1>3, <1>9 DEF Skip, SubmitStage, HandleCiSuccess, SaveCopies, FetchApp, CheckApp,
                    RecheckApp, rows
<1> QED
  BY <1>4, <1>5, <1>6, <1>7, <1>8, <1>9 DEF Handle

\* So does a retry.
LEMMA RetryRowsKept ==
  ASSUME TypeOK, NEW r \in DOMAIN runner, RetryStage(r)
  PROVE  RowsKept
<1>1. \A x \in DOMAIN runner : runner[x] \in Runner /\ runner[x].healthy \in Nat
  BY UpdateRefs DEF TypeOK, RowsOK
<1>2. PICK ended \in Runner : /\ ended = [runner[r] EXCEPT !.status = "Failed"]
                              /\ ended.ref = runner[r].ref /\ ended.healthy = runner[r].healthy
  BY <1>1, StatusTyped, UpdateRefs
<1>3. [runner EXCEPT ![r].status = "Failed"] = [runner EXCEPT ![r] = ended]
  BY <1>2
<1>4. PICK old \in Seq(Runner) : /\ old = [runner EXCEPT ![r] = ended]
                                 /\ \A x \in DOMAIN runner : old[x] = IF x = r THEN ended ELSE runner[x]
                                 /\ DOMAIN old = DOMAIN runner
  <2>1. [runner EXCEPT ![r] = ended] \in Seq(Runner)
    BY DEF TypeOK, RowsOK
  <2>2. PICK old : old = [runner EXCEPT ![r] = ended]
    OBVIOUS
  <2>3. \A x \in DOMAIN runner : old[x] = IF x = r THEN ended ELSE runner[x]
    BY <2>2 DEF TypeOK, RowsOK
  <2>4. DOMAIN old = DOMAIN runner
    BY <2>2
  <2> QED
    BY <2>1, <2>2, <2>3, <2>4
<1>5. PICK new : runner' = Append(old, new)
  BY <1>3, <1>4 DEF RetryStage
<1>6. \A x \in DOMAIN runner : runner'[x] = old[x]
  BY <1>4, <1>5
<1>7. \A x \in DOMAIN runner : x \in retries' <=> x \in retries
  BY DEF RetryStage, TypeOK, RowsOK
<1>8. \A x \in DOMAIN runner :
        runner'[x].ref = runner[x].ref /\ runner'[x].healthy = runner[x].healthy
  BY <1>2, <1>4, <1>6
<1>9. \A x \in DOMAIN runner : runner'[x].healthy \in Nat /\ runner[x].healthy <= runner'[x].healthy
  BY <1>1, <1>8
<1> QED
  BY <1>1, <1>7, <1>8, <1>9 DEF RowsKept

\* Going on, a worker stays at its message.
LEMMA ContinueOnward ==
  ASSUME TypeOK, NEW w \in Worker, ~At(w, "idle") \/ w = "user", NEW todo \in Seq(Request),
         Continue(w, todo)
  PROVE  /\ \A v \in Worker \ {w} : handler'[v] = handler[v]
         /\ \/ handler'[w] = Idle /\ todo = <<>> /\ At(w, "idle")'
            \/ /\ todo # <<>> /\ At(w, "trigger")' /\ handler'[w].todo = todo
               /\ handler'[w].msg = handler[w].msg /\ handler'[w].subject = handler[w].subject
<1>1. handler \in [Worker -> Handler]
  BY DEF TypeOK, HandlersOK
<1>2. CASE todo = <<>>
  <2>1. handler' = [handler EXCEPT ![w] = Idle]
    BY <1>2 DEF Continue
  <2>2. \A v \in Worker : handler'[v] = IF v = w THEN Idle ELSE handler[v]
    BY <1>1, <2>1
  <2>3. handler'[w] = Idle /\ handler'[w].pc = "idle"
    BY <2>2, IdleTyped
  <2> QED
    BY <1>2, <2>2, <2>3 DEF At
<1>3. CASE todo # <<>>
  <2>1. PICK h \in Handler : h = handler[w]
    BY HandlerFacts DEF TypeOK
  <2>2. PICK k \in Handler : /\ k = Triggering(h, todo)
                             /\ k.pc = "trigger" /\ k.todo = todo /\ k.msg = h.msg /\ k.subject = h.subject
    BY TriggeringTyped
  <2>3. handler' = [handler EXCEPT ![w] = k]
    BY <1>3, <2>1, <2>2 DEF Continue, Triggering
  <2>4. \A v \in Worker : handler'[v] = IF v = w THEN k ELSE handler[v]
    BY <1>1, <2>3
  <2> QED
    BY <1>3, <2>1, <2>2, <2>4 DEF At
<1> QED
  BY <1>2, <1>3

\* Requests for the pipelines below are for different pipelines.
LEMMA ChildrenSpread ==
  ASSUME NEW p \in Pipeline \cup {Source}, NEW a \in Nat
  PROVE  \E todo \in Seq(Request) :
           todo = ChildRequests(p, a) /\ (DistinctChildren => Spread(todo))
<1>1. PICK todo \in Seq(Request) : todo = ChildRequests(p, a)
  BY ChildrenTyped
<1>2. ASSUME DistinctChildren, NEW i \in DOMAIN todo, NEW j \in DOMAIN todo, i # j
      PROVE  todo[i].pipeline # todo[j].pipeline
  <2>1. i \in DOMAIN Children[p] /\ j \in DOMAIN Children[p]
    BY <1>1 DEF ChildRequests
  <2>2. todo[i] = AutoRequest(Children[p][i], a) /\ todo[j] = AutoRequest(Children[p][j], a)
    BY <1>1, <2>1 DEF ChildRequests
  <2>3. todo[i].pipeline = Children[p][i] /\ todo[j].pipeline = Children[p][j]
    BY <2>2 DEF AutoRequest
  <2> QED
    BY <1>2, <2>1, <2>3 DEF DistinctChildren
<1> QED
  BY <1>1, <1>2 DEF Spread

\* So is a single one.
LEMMA OneSpread ==
  ASSUME NEW q \in Request
  PROVE  \E todo \in Seq(Request) : todo = <<q>> /\ Spread(todo)
<1>1. <<q>> \in Seq(Request) /\ \A i \in DOMAIN <<q>> : i = 1
  OBVIOUS
<1>2. PICK todo : todo = <<q>>
  OBVIOUS
<1> QED
  BY <1>1, <1>2 DEF Spread

\* And none at all.
LEMMA NoneSpread == \E todo \in Seq(Request) : todo = <<>> /\ Spread(todo)
<1>1. <<>> \in Seq(Request) /\ DOMAIN <<>> = {}
  OBVIOUS
<1>2. PICK todo : todo = <<>>
  OBVIOUS
<1> QED
  BY <1>1, <1>2 DEF Spread

\* What follows a deployment.
LEMMA AfterSpread ==
  ASSUME TypeOK, NEW r \in DOMAIN runner
  PROVE  \E todo \in Seq(Request) :
           todo = AfterDeployment(r) /\ (DistinctChildren => Spread(todo))
<1>1. PICK p \in Pipeline, a \in DOMAIN artifact, wf \in DOMAIN workflow :
        p = PipelineOf(r) /\ a = ArtifactOf(r) /\ wf = runner[r].workflow
  BY RunnerFacts DEF TypeOK
<1>2. a \in Nat /\ wf \in Nat
  BY DEF TypeOK, RowsOK
<1>3. CASE p \notin PostStage
  <2>1. AfterDeployment(r) = ChildRequests(p, a)
    BY <1>1, <1>3 DEF AfterDeployment
  <2> QED
    BY <1>2, <2>1, ChildrenSpread
<1>4. CASE p \in PostStage /\ p \in AutoPost
  <2>1. PICK q : q = [act |-> "post", pipeline |-> p, artifact |-> a, workflow |-> wf]
    OBVIOUS
  <2>2. q \in Request
    BY <1>2, <2>1 DEF Request
  <2>3. AfterDeployment(r) = <<q>>
    BY <1>1, <1>4, <2>1 DEF AfterDeployment
  <2> QED
    BY <2>2, <2>3, OneSpread
<1>5. CASE p \in PostStage /\ p \notin AutoPost
  <2>1. AfterDeployment(r) = <<>>
    BY <1>1, <1>5 DEF AfterDeployment
  <2> QED
    BY <2>1, NoneSpread
<1> QED
  BY <1>3, <1>4, <1>5

\* What a build, a stage and a deployment are followed by.
LEMMA SuccessContinues ==
  ASSUME TypeOK, NEW w \in Worker, HandleCiSuccess(w) \/ SaveCopies(w) \/ WriteStatus(w)
  PROVE  \E todo \in Seq(Request) : Continue(w, todo) /\ (DistinctChildren => Spread(todo))
<1>1. CASE HandleCiSuccess(w)
  <2>1. Len(artifact) + 1 \in Nat
    BY DEF TypeOK, RowsOK
  <2>2. PICK todo \in Seq(Request) : /\ todo = ChildRequests(Source, Len(artifact) + 1)
                                     /\ DistinctChildren => Spread(todo)
    BY <2>1, ChildrenSpread
  <2>3. Continue(w, todo)
    BY <1>1, <2>2 DEF HandleCiSuccess
  <2> QED
    BY <2>2, <2>3
<1>2. CASE SaveCopies(w)
  <2>1. PICK r \in DOMAIN runner : r = handler[w].subject
    BY <1>2, HandlerFacts DEF TypeOK, HandlerOK, SaveCopies, At
  <2>2. PICK p \in Pipeline, b \in DOMAIN artifact, wf \in DOMAIN workflow :
          p = PipelineOf(r) /\ b = ArtifactOf(r) /\ wf = runner[r].workflow
    BY RunnerFacts DEF TypeOK
  <2>3. b \in Nat /\ Len(artifact) + 1 \in Nat /\ wf \in Nat
    BY DEF TypeOK, RowsOK
  <2>4. PICK a \in Nat : a = IF NewCopies(r) = {} THEN b ELSE Len(artifact) + 1
    BY <2>3
  <2>5. CASE runner[r].stage = "PRE"
    <3>1. PICK q : q = [act |-> "deploy", pipeline |-> p, artifact |-> a, workflow |-> wf]
      OBVIOUS
    <3>2. q \in Request
      BY <2>3, <3>1 DEF Request
    <3>3. PICK todo \in Seq(Request) : todo = <<q>> /\ Spread(todo)
      BY <3>2, OneSpread
    <3>4. Continue(w, todo)
      BY <1>2, <2>1, <2>2, <2>4, <2>5, <3>1, <3>3 DEF SaveCopies
    <3> QED
      BY <3>3, <3>4
  <2>6. CASE runner[r].stage # "PRE"
    <3>1. PICK todo \in Seq(Request) :
            todo = ChildRequests(p, a) /\ (DistinctChildren => Spread(todo))
      BY ChildrenSpread
    <3>2. Continue(w, todo)
      BY <1>2, <2>1, <2>2, <2>4, <2>6, <3>1 DEF SaveCopies
    <3> QED
      BY <3>1, <3>2
  <2> QED
    BY <2>5, <2>6
<1>3. CASE WriteStatus(w)
  <2>1. PICK r \in DOMAIN runner : r = handler[w].subject
    BY <1>3, HandlerFacts DEF TypeOK, HandlerOK, WriteStatus, At
  <2>2. CASE handler[w].good
    <3>1. PICK todo \in Seq(Request) :
            todo = AfterDeployment(r) /\ (DistinctChildren => Spread(todo))
      BY AfterSpread
    <3>2. Continue(w, todo)
      BY <1>3, <2>1, <2>2, <3>1 DEF WriteStatus
    <3> QED
      BY <3>1, <3>2
  <2>3. CASE ~handler[w].good
    <3>1. PICK todo \in Seq(Request) : todo = <<>> /\ Spread(todo)
      BY NoneSpread
    <3>2. Continue(w, todo)
      BY <1>3, <2>3, <3>1 DEF WriteStatus
    <3> QED
      BY <3>1, <3>2
  <2> QED
    BY <2>2, <2>3
<1> QED
  BY <1>1, <1>2, <1>3

\* What is left after the request a worker was at.
LEMMA TailSpread ==
  ASSUME TypeOK, NEW w \in Worker, At(w, "trigger")
  PROVE  \E q \in Request, rest \in Seq(Request) :
           /\ q = Head(handler[w].todo) /\ rest = Tail(handler[w].todo)
           /\ Spread(handler[w].todo) => Spread(rest) /\ Avoids(rest, q.pipeline)
           /\ \A p : Avoids(handler[w].todo, p) => Avoids(rest, p) /\ q.pipeline # p
<1>1. PICK todo \in Seq(Request) : todo = handler[w].todo /\ todo # <<>>
  BY HandlerFacts DEF TypeOK, HandlersOK, HandlerOK, At
<1>2. PICK q \in Request : q = Head(todo)
  BY <1>1
<1>3. PICK rest \in Seq(Request) : rest = Tail(todo)
  <2>1. Tail(todo) \in Seq(Request)
    BY <1>1
  <2> QED
    BY <2>1
<1>4. 1 \in DOMAIN todo /\ q = todo[1]
  BY <1>1, <1>2
<1>5. \A i \in DOMAIN rest : i + 1 \in DOMAIN todo /\ rest[i] = todo[i + 1] /\ i \in Nat \ {0}
  BY <1>1, <1>3
<1>6. Spread(todo) => Spread(rest) /\ Avoids(rest, q.pipeline)
  BY <1>4, <1>5 DEF Spread, Avoids
<1>7. \A p : Avoids(todo, p) => Avoids(rest, p) /\ q.pipeline # p
  BY <1>4, <1>5 DEF Avoids
<1> QED
  BY <1>1, <1>2, <1>3, <1>6, <1>7

\* A worker goes on with what it has left, or gives it up.
LEMMA RestSpread ==
  ASSUME TypeOK, NEW w \in Worker, Skip(w) \/ SubmitStage(w) \/ Release(w) \/ SubmitFails(w)
  PROVE  /\ Triggers(w)
         /\ \E todo \in Seq(Request) :
              /\ Continue(w, todo)
              /\ Spread(handler[w].todo) => Spread(todo)
              /\ \A p : Avoids(handler[w].todo, p) => Avoids(todo, p)
<1>1. Triggers(w)
  BY DEF Skip, SubmitStage, Release, SubmitFails, At, Triggers
<1>2. CASE Skip(w)
  <2>1. PICK q \in Request, rest \in Seq(Request) :
           /\ rest = Tail(handler[w].todo)
           /\ Spread(handler[w].todo) => Spread(rest)
           /\ \A p : Avoids(handler[w].todo, p) => Avoids(rest, p)
    BY <1>2, TailSpread DEF Skip
  <2>2. Continue(w, rest)
    BY <1>2, <2>1 DEF Skip
  <2> QED
    BY <1>1, <2>1, <2>2
<1>3. CASE Continue(w, handler[w].todo)
  <2>1. handler[w].todo \in Seq(Request)
    BY HandlerFacts DEF TypeOK
  <2> QED
    BY <1>1, <1>3, <2>1
<1>4. CASE Continue(w, <<>>)
  <2>1. PICK todo \in Seq(Request) : todo = <<>> /\ Spread(todo)
    BY NoneSpread
  <2>2. \A p : Avoids(todo, p)
    BY <2>1 DEF Avoids
  <2>3. Continue(w, todo)
    BY <1>4, <2>1
  <2> QED
    BY <1>1, <2>1, <2>2, <2>3
<1>5. Skip(w) \/ Continue(w, handler[w].todo) \/ Continue(w, <<>>)
  BY DEF SubmitStage, Release, SubmitFails
<1> QED
  BY <1>2, <1>3, <1>4, <1>5

\* The other workers do nothing while one steps, and that one stays at its message.
LEMMA HandleOnward ==
  ASSUME TypeOK, NEW w \in Worker, Handle(w)
  PROVE  /\ Onward /\ ~At(w, "idle")
         /\ \A v \in Worker \ {w} : handler'[v] = handler[v]
<1>1. handler \in [Worker -> Handler] /\ \A t \in Topic : t \in Worker
  BY DEF TypeOK, HandlersOK, Worker
<1>2. ~At(w, "idle")
  BY DEF Handle, Skip, Create, SubmitStage, Release, SubmitFails, HandleCiSuccess,
         ReportStage, SaveCopies, FetchApp, CheckApp, SaveTimeline, RecheckApp, WriteStatus, At
<1>3. ASSUME \A v \in Worker \ {w} : handler'[v] = handler[v],
             \/ At(w, "idle")'
             \/ /\ handler'[w].msg = handler[w].msg
                /\ w # "sync" \/ Triggers(w) => handler'[w].subject = handler[w].subject
                /\ Triggers(w) => Triggers(w)'
      PROVE  Onward
  <2> SUFFICES ASSUME NEW t \in Topic
               PROVE  \/ At(t, "idle")'
                      \/ /\ ~At(t, "idle") /\ Msg(t)' = Msg(t)
                         /\ t # "sync" \/ Triggers(t) => handler'[t].subject = handler[t].subject
                         /\ Triggers(t) => Triggers(t)'
    BY DEF Onward
  <2>1. CASE t = w
    BY <1>2, <1>3, <2>1 DEF Msg
  <2>2. CASE t # w
    <3>1. handler'[t] = handler[t]
      BY <1>1, <1>3, <2>2
    <3> QED
      BY <3>1 DEF At, Msg, Triggers
  <2> QED
    BY <2>1, <2>2
<1>4. ASSUME NEW todo \in Seq(Request), Continue(w, todo)
      PROVE  Onward /\ \A v \in Worker \ {w} : handler'[v] = handler[v]
  <2>1. /\ \A v \in Worker \ {w} : handler'[v] = handler[v]
        /\ \/ At(w, "idle")'
           \/ /\ At(w, "trigger")'
              /\ handler'[w].msg = handler[w].msg /\ handler'[w].subject = handler[w].subject
    BY <1>2, <1>4, ContinueOnward
  <2>2. At(w, "trigger")' => Triggers(w)'
    BY DEF At, Triggers
  <2> QED
    BY <1>3, <2>1, <2>2
<1>5. ASSUME NEW k, handler' = [handler EXCEPT ![w] = k],
             \/ k.pc = "idle"
             \/ /\ k.msg = handler[w].msg /\ (w # "sync" \/ Triggers(w) => k.subject = handler[w].subject)
                /\ Triggers(w) => k.pc \in {"trigger", "submit"}
      PROVE  Onward /\ \A v \in Worker \ {w} : handler'[v] = handler[v]
  <2>1. \A v \in Worker : handler'[v] = IF v = w THEN k ELSE handler[v]
    BY <1>1, <1>5
  <2>2. handler'[w] = k
    BY <2>1
  <2>3. (k.pc = "idle" => At(w, "idle")') /\ (k.pc \in {"trigger", "submit"} => Triggers(w)')
    BY <2>2 DEF At, Triggers
  <2> QED
    BY <1>3, <1>5, <2>1, <2>2, <2>3
<1>6. PICK h \in Handler : h = handler[w]
  BY HandlerFacts DEF TypeOK
<1>7. CASE Skip(w) \/ SubmitStage(w) \/ Release(w) \/ SubmitFails(w)
  BY <1>2, <1>4, <1>7, RestSpread
<1>8. CASE Create(w)
  <2>1. PICK rest \in Seq(Request) : rest = Tail(handler[w].todo)
    BY <1>8, TodoFacts DEF Create, TypeOK
  <2>2. PICK n \in Nat : n = Len(runner) + 1
    BY DEF TypeOK, RowsOK
  <2>3. PICK k : k = Submitting(h, rest, n)
    OBVIOUS
  <2>4. k.pc = "submit" /\ k.msg = h.msg /\ k.subject = h.subject
    BY <2>3 DEF Submitting, Handler
  <2>5. handler' = [handler EXCEPT ![w] = k]
    BY <1>6, <1>8, <2>1, <2>2, <2>3 DEF Create, Submitting
  <2> QED
    BY <1>2, <1>5, <1>6, <2>4, <2>5
<1>9. CASE HandleCiSuccess(w) \/ SaveCopies(w) \/ WriteStatus(w)
  BY <1>2, <1>4, <1>9, SuccessContinues
<1>12. CASE ReportStage(w)
  <2>1. PICK k : k = IF h.good THEN [h EXCEPT !.pc = "copy"] ELSE Idle
    OBVIOUS
  <2>2. handler' = [handler EXCEPT ![w] = k]
    BY <1>6, <1>12, <2>1 DEF ReportStage
  <2>3. k.pc = "idle" \/ (k.msg = h.msg /\ k.subject = h.subject)
    BY <2>1, IdleTyped DEF Handler
  <2>4. ~Triggers(w)
    BY <1>12 DEF ReportStage, At, Triggers
  <2> QED
    BY <1>2, <1>5, <1>6, <2>2, <2>3, <2>4
<1>14. CASE FetchApp(w)
  <2>1. w = "sync" /\ ~Triggers(w)
    BY <1>14 DEF FetchApp, At, Triggers
  <2>2. PICK r, good : r = app[Msg(w).pipeline].subject /\ good = app[Msg(w).pipeline].healthy
    OBVIOUS
  <2>3. PICK k : k = Looking(h, r, good)
    OBVIOUS
  <2>4. handler' = [handler EXCEPT ![w] = Idle] \/ handler' = [handler EXCEPT ![w] = k]
    BY <1>6, <1>14, <2>2, <2>3 DEF FetchApp, Looking
  <2>5. k.msg = h.msg
    BY <2>3 DEF Looking, Handler
  <2>6. CASE handler' = [handler EXCEPT ![w] = k]
    BY <1>2, <1>5, <1>6, <2>1, <2>5, <2>6
  <2>7. CASE handler' = [handler EXCEPT ![w] = Idle]
    BY <1>2, <1>5, <2>7, IdleTyped
  <2> QED
    BY <2>4, <2>6, <2>7
<1>15. CASE CheckApp(w) \/ SaveTimeline(w) \/ RecheckApp(w)
  <2>1. ~Triggers(w)
    BY <1>15 DEF CheckApp, SaveTimeline, RecheckApp, At, Triggers
  <2>2. \/ handler' = [handler EXCEPT ![w] = Idle]
        \/ \E pc \in {"timeline", "recheck", "status"} :
             handler' = [handler EXCEPT ![w] = [h EXCEPT !.pc = pc]]
    <3>1. CASE CheckApp(w)
      BY <1>6, <3>1 DEF CheckApp
    <3>2. CASE SaveTimeline(w)
      <4>1. handler' = [handler EXCEPT ![w] = [h EXCEPT !.pc = "recheck"]]
        BY <1>6, <3>2 DEF SaveTimeline
      <4> QED
        BY <4>1
    <3>3. CASE RecheckApp(w)
      BY <1>6, <3>3 DEF RecheckApp
    <3> QED
      BY <1>15, <3>1, <3>2, <3>3
  <2>3. CASE handler' = [handler EXCEPT ![w] = Idle]
    BY <1>2, <1>5, <2>3, IdleTyped
  <2>4. ASSUME NEW pc \in {"timeline", "recheck", "status"},
               handler' = [handler EXCEPT ![w] = [h EXCEPT !.pc = pc]]
        PROVE  Onward /\ \A v \in Worker \ {w} : handler'[v] = handler[v]
    <3>1. PICK k : k = [h EXCEPT !.pc = pc]
      OBVIOUS
    <3>2. k.msg = h.msg /\ k.subject = h.subject
      BY <3>1 DEF Handler
    <3> QED
      BY <1>5, <1>6, <2>1, <2>4, <3>1, <3>2
  <2> QED
    BY <1>2, <2>2, <2>3, <2>4
<1> QED
  BY <1>2, <1>7, <1>8, <1>9, <1>12, <1>14, <1>15 DEF Handle

\* What a worker is at stays right.
LEMMA SteadyStays ==
  ASSUME Grown, NEW w, NEW h, Steady(w, h)
  PROVE  Steady(w, h)'
<1>1. h.subject \in DOMAIN runner =>
        h.subject \in DOMAIN runner' /\ runner'[h.subject].stage = runner[h.subject].stage
  BY DEF Grown
<1> QED
  BY <1>1 DEF Steady

\* Workers that a step leaves alone.
LEMMA SteeredStays ==
  ASSUME TypeOK, Grown, Steered, UNCHANGED handler
  PROVE  Steered'
<1> SUFFICES ASSUME NEW w \in Worker, NEW h \in Handler, handler[w] = h
             PROVE  Steady(w, h)'
  BY DEF Steered
<1>1. Steady(w, h)
  BY DEF Steered
<1> QED
  BY <1>1, SteadyStays

\* A step of one worker.
LEMMA SetSteady ==
  ASSUME TypeOK, Grown, Steered, NEW w \in Worker, NEW k \in Handler, Steady(w, k)',
         handler' = [handler EXCEPT ![w] = k]
  PROVE  Steered'
<1>1. \A x \in Worker : handler'[x] = IF x = w THEN k ELSE handler[x]
  BY DEF TypeOK, HandlersOK
<1>2. ASSUME NEW x \in Worker, NEW y \in Handler, handler'[x] = y
      PROVE  Steady(x, y)'
  <2>1. CASE x = w
    BY <1>1, <1>2, <2>1
  <2>2. CASE x # w
    <3>1. handler[x] = y
      BY <1>1, <1>2, <2>2
    <3>2. Steady(x, y)
      BY <3>1 DEF Steered
    <3> QED
      BY <3>2, SteadyStays
  <2> QED
    BY <2>1, <2>2
<1> QED
  BY <1>2 DEF Steered

\* A worker that is idle is at nothing.
LEMMA IdleSteady ==
  ASSUME NEW w
  PROVE  Steady(w, Idle)'
<1>1. PICK h : h = Idle
  OBVIOUS
<1>2. h.pc = "idle" /\ DOMAIN h.todo = {}
  BY <1>1, IdleTyped
<1>3. Steady(w, h)'
  BY <1>2 DEF Steady, Places, Spread
<1> QED
  BY <1>1, <1>3

\* What a worker is at, now.
LEMMA NowSteady ==
  ASSUME TypeOK, Steered, NEW w \in Worker
  PROVE  \E h \in Handler : h = handler[w] /\ Steady(w, h)
<1>1. PICK h \in Handler : h = handler[w]
  BY HandlerFacts DEF TypeOK
<1> QED
  BY <1>1 DEF Steered

\* A worker goes on triggering.
LEMMA TriggeringSteady ==
  ASSUME TypeOK, Grown, Steered, NEW w \in Worker, ~At(w, "idle") \/ w = "user",
         w \in Observer => ~At(w, "begin"),
         NEW k \in Handler, k.msg = handler[w].msg, k.subject = handler[w].subject,
         k.pc \in {"trigger", "submit"}, Spread(k.todo)
  PROVE  Steady(w, k)'
<1>1. PICK h \in Handler : h = handler[w] /\ Steady(w, h)'
  BY NowSteady, SteadyStays
<1>2. w \in Told \cup Observer => h.pc # "idle"
  BY <1>1 DEF At, Told, Observer
<1>3. w \in Observer => h.pc # "begin"
  BY <1>1 DEF At
<1>4. k.subject = h.subject /\ k.msg = h.msg
  BY <1>1
<1>5. k.pc \in Places(w)
  BY DEF Places
<1>6. w = "stage" => w \in Told
  BY DEF Told
<1> QED
  BY <1>1, <1>2, <1>3, <1>4, <1>5, <1>6 DEF Steady

\* Going on with requests for different pipelines.
LEMMA ContinueSteady ==
  ASSUME TypeOK, Grown, Steered, NEW w \in Worker, ~At(w, "idle") \/ w = "user",
         w \in Observer => ~At(w, "begin"),
         NEW todo \in Seq(Request), Spread(todo), Continue(w, todo)
  PROVE  Steered'
<1>1. CASE todo = <<>>
  <2>1. handler' = [handler EXCEPT ![w] = Idle]
    BY <1>1 DEF Continue
  <2> QED
    BY <2>1, IdleSteady, IdleTyped, SetSteady
<1>2. CASE todo # <<>>
  <2>1. PICK h \in Handler : h = handler[w]
    BY HandlerFacts DEF TypeOK
  <2>2. PICK k \in Handler : /\ k = Triggering(h, todo) /\ k.pc = "trigger" /\ k.todo = todo
                             /\ k.msg = h.msg /\ k.subject = h.subject
    BY TriggeringTyped
  <2>3. handler' = [handler EXCEPT ![w] = k]
    BY <1>2, <2>1, <2>2 DEF Continue, Triggering
  <2>4. Steady(w, k)'
    BY <2>1, <2>2, TriggeringSteady
  <2> QED
    BY <2>3, <2>4, SetSteady
<1> QED
  BY <1>1, <1>2

\* A worker that looks at a message.
LEMMA TakeSteady ==
  ASSUME TypeOK, Grounded, Steered, NEW t \in Topic, Take(t)
  PROVE  Steered'
<1>1. Grown
  BY QuietGrows DEF Take, cluster
<1>2. PICK m \in Message : m = Head(queue[t]) /\ MessageOK(t, m) /\ MessageTrue(t, m)
  <2>1. queue[t] \in Seq(Message) /\ queue[t] # <<>>
    BY DEF Take, TypeOK, QueueOK
  <2>2. Head(queue[t]) \in Message /\ 1 \in DOMAIN queue[t] /\ Head(queue[t]) = queue[t][1]
    BY <2>1
  <2>3. InQueue(t, Head(queue[t])) /\ MessageOK(t, Head(queue[t]))
    BY <2>2 DEF InQueue, TypeOK, QueueOK
  <2> QED
    BY <2>2, <2>3 DEF Grounded, Queued
<1>3. CASE handler' = handler
  BY <1>1, <1>3, SteeredStays
<1>4. CASE handler' # handler
  <2>1. PICK pc \in {"check", "begin"} : pc = IF t = "app" THEN "check" ELSE "begin"
    OBVIOUS
  <2>2. PICK h \in Handler : h = Taken(pc, m)
    BY TakenTyped
  <2>3. h.pc = pc /\ h.msg = m /\ h.subject = m.subject /\ h.todo = <<>> /\ h.good = m.good
    BY <2>2 DEF Taken
  <2>4. handler' = [handler EXCEPT ![t] = h] /\ t \in Worker
    BY <1>2, <1>4, <2>1, <2>2 DEF Take, Taken, Worker
  <2>5. t = "stage" => h.subject \in DOMAIN runner /\ runner[h.subject].stage # "DEPLOY"
    BY <1>2, <2>3 DEF MessageOK, MessageTrue, StageNews
  <2>6. t = "app" => h.subject \in DOMAIN runner /\ runner[h.subject].stage = "DEPLOY"
    BY <1>2, <2>3 DEF MessageOK, MessageTrue, DeployNews
  <2>7. Steady(t, h)
    <3>1. t \in {"ci", "stage", "app", "sync"}
      BY DEF Topic
    <3>2. h.pc \in Places(t)
      BY <2>1, <2>3, <3>1 DEF Places
    <3>3. Spread(h.todo)
      BY <2>3 DEF Spread
    <3>4. t \in Observer /\ h.pc \notin {"idle", "begin"} => t = "app"
      BY <2>1, <2>3 DEF Observer
    <3>5. h.pc # "timeline"
      BY <2>1, <2>3
    <3>6. h.subject = h.msg.subject
      BY <2>3
    <3> QED
      BY <2>5, <2>6, <3>2, <3>3, <3>4, <3>5, <3>6 DEF Steady
  <2>8. Steady(t, h)'
    BY <1>1, <2>7, SteadyStays
  <2> QED
    BY <1>1, <2>4, <2>8, SetSteady
<1> QED
  BY <1>3, <1>4

\* A worker that looks at a stage or a deployment.
LEMMA LookSteady ==
  ASSUME TypeOK, Grounded, Steered, NEW w \in Worker,
         ReportStage(w) \/ FetchApp(w) \/ CheckApp(w) \/ SaveTimeline(w) \/ RecheckApp(w)
  PROVE  Steered'
<1>1. Grown
  BY HandleGrows DEF Handle
<1>2. PICK h \in Handler : h = handler[w] /\ Steady(w, h)
  BY NowSteady
<1>3. CASE handler' = [handler EXCEPT ![w] = Idle]
  BY <1>1, <1>3, IdleSteady, IdleTyped, SetSteady
<1>4. ASSUME NEW k \in Handler, handler' = [handler EXCEPT ![w] = k], Steady(w, k)
      PROVE  Steered'
  BY <1>1, <1>4, SteadyStays, SetSteady
<1>5. CASE ReportStage(w)
  <2>1. PICK k : k = [h EXCEPT !.pc = "copy"]
    OBVIOUS
  <2>2. /\ k \in Handler /\ k.pc = "copy" /\ k.subject = h.subject /\ k.msg = h.msg
        /\ k.todo = h.todo
    BY <2>1 DEF Handler
  <2>3. w = "stage" /\ h.pc = "begin"
    BY <1>2, <1>5 DEF ReportStage, At
  <2>4. Steady(w, k)
    BY <1>2, <2>2, <2>3 DEF Steady, Places, Told, Observer
  <2>5. CASE handler' = [handler EXCEPT ![w] = k]
    BY <1>4, <2>2, <2>4, <2>5
  <2> QED
    BY <1>2, <1>3, <1>5, <2>1, <2>5 DEF ReportStage
<1>6. CASE FetchApp(w)
  <2>1. PICK p \in Pipeline : p = Msg(w).pipeline
    BY <1>6, HandlerFacts DEF TypeOK, HandlerOK, MessageOK, FetchApp, At, Msg
  <2>2. CASE handler' # [handler EXCEPT ![w] = Idle]
    <3>1. app[p].subject # 0
      BY <1>6, <2>1, <2>2 DEF FetchApp
    <3>2. PICK r \in DOMAIN runner, good \in BOOLEAN : r = app[p].subject /\ good = app[p].healthy
      BY <3>1 DEF TypeOK, ClusterOK, Rows
    <3>3. r \in Nat \ {0}
      BY RunnerFacts DEF TypeOK
    <3>4. runner[r].stage = "DEPLOY"
      BY <3>2, <3>3 DEF Grounded, Deployed, DeployNews
    <3>5. PICK k : k = Looking(h, r, good)
      OBVIOUS
    <3>6. /\ k \in Handler /\ k.pc = "check" /\ k.subject = r /\ k.todo = h.todo
      BY <3>3, <3>5 DEF Looking, Handler
    <3>7. handler' = [handler EXCEPT ![w] = k]
      BY <1>2, <1>6, <2>1, <2>2, <3>2, <3>5 DEF FetchApp, Looking
    <3>8. Steady(w, k)
      BY <1>2, <1>6, <3>4, <3>6 DEF Steady, Places, Told, Observer, FetchApp
    <3> QED
      BY <1>4, <3>6, <3>7, <3>8
  <2> QED
    BY <1>3, <2>2
<1>7. CASE CheckApp(w) \/ SaveTimeline(w) \/ RecheckApp(w)
  <2>1. h.pc \in {"check", "timeline", "recheck"}
    BY <1>2, <1>7 DEF CheckApp, SaveTimeline, RecheckApp, At
  <2>2. w \in Observer
    BY <1>2, <2>1 DEF Steady, Places, Observer
  <2>3. ASSUME NEW pc \in {"timeline", "recheck", "status"}, pc = "timeline" => h.good,
               handler' = [handler EXCEPT ![w] = [h EXCEPT !.pc = pc]]
        PROVE  Steered'
    <3>1. PICK k : k = [h EXCEPT !.pc = pc]
      OBVIOUS
    <3>2. /\ k \in Handler /\ k.pc = pc /\ k.subject = h.subject /\ k.good = h.good
          /\ k.todo = h.todo
      BY <3>1 DEF Handler
    <3>3. Steady(w, k)
      BY <1>2, <2>1, <2>2, <2>3, <3>2 DEF Steady, Places, Told, Observer
    <3> QED
      BY <1>4, <2>3, <3>1, <3>2, <3>3
  <2>4. CASE CheckApp(w)
    <3>1. \/ handler' = [handler EXCEPT ![w] = Idle]
          \/ handler' = [handler EXCEPT ![w] = [h EXCEPT !.pc = "timeline"]] /\ h.good
          \/ handler' = [handler EXCEPT ![w] = [h EXCEPT !.pc = "recheck"]]
      BY <1>2, <2>4 DEF CheckApp
    <3> QED
      BY <1>3, <2>3, <3>1
  <2>5. CASE SaveTimeline(w)
    <3>1. handler' = [handler EXCEPT ![w] = [h EXCEPT !.pc = "recheck"]]
      BY <1>2, <2>5 DEF SaveTimeline
    <3> QED
      BY <2>3, <3>1
  <2>6. CASE RecheckApp(w)
    <3>1. \/ handler' = [handler EXCEPT ![w] = Idle]
          \/ handler' = [handler EXCEPT ![w] = [h EXCEPT !.pc = "status"]]
      BY <1>2, <2>6 DEF RecheckApp
    <3> QED
      BY <1>3, <2>3, <3>1
  <2> QED
    BY <1>7, <2>4, <2>5, <2>6
<1> QED
  BY <1>5, <1>6, <1>7

\* What a worker creates: a runner for its request, which refers to its message.
LEMMA CreatesRun ==
  ASSUME TypeOK, Automatic, Grounded, NEW w \in Worker, Create(w)
  PROVE  \E q \in Request, rest \in Seq(Request), n \in Nat :
           /\ n \notin DOMAIN runner /\ DOMAIN runner' = DOMAIN runner \cup {n} /\ n \notin retries'
           /\ PipelineOf(n)' = q.pipeline /\ cause'[n] = CauseOf(w)
           /\ runner'[n].ref = Msg(w).id /\ runner'[n].healthy = 0
           /\ handler'[w].pc = "submit" /\ handler'[w].made = n /\ handler'[w].todo = rest
           /\ Msg(w)' = Msg(w) /\ handler'[w].subject = handler[w].subject
           /\ Spread(handler[w].todo) => Spread(rest) /\ Avoids(rest, q.pipeline)
           /\ \A p : Avoids(handler[w].todo, p) => Avoids(rest, p) /\ q.pipeline # p
<1>1. Grown
  BY HandleGrows DEF Handle
<1>2. PICK q \in Request, n \in Nat :
        /\ q = Head(handler[w].todo)
        /\ n = Len(runner) + 1 /\ n \notin DOMAIN runner
        /\ DOMAIN runner' = DOMAIN runner \cup {n}
        /\ cause'[n] = CauseOf(w) /\ PipelineOf(n)' = q.pipeline
  BY <1>1, CreatedRun
<1>3. PICK x \in Request, rest \in Seq(Request) :
           /\ x = Head(handler[w].todo) /\ rest = Tail(handler[w].todo)
           /\ Spread(handler[w].todo) => Spread(rest) /\ Avoids(rest, x.pipeline)
           /\ \A p : Avoids(handler[w].todo, p) => Avoids(rest, p) /\ x.pipeline # p
  BY TailSpread DEF Create
<1>4. PICK h \in Handler : h = handler[w]
  BY HandlerFacts DEF TypeOK
<1>5. PICK k : k = Submitting(h, rest, n)
  OBVIOUS
<1>6. k.pc = "submit" /\ k.msg = h.msg /\ k.subject = h.subject /\ k.made = n /\ k.todo = rest
  BY <1>5 DEF Submitting, Handler
<1>7. handler' = [handler EXCEPT ![w] = k]
  BY <1>2, <1>3, <1>4, <1>5 DEF Create, Submitting
<1>8. handler'[w] = k
  BY <1>7 DEF TypeOK, HandlersOK
<1>9. Msg(w)' = Msg(w)
  BY <1>4, <1>6, <1>8 DEF Msg
<1>10. PICK new : /\ runner' = Append(runner, new)
                  /\ new.ref = Msg(w).id /\ new.healthy = 0
  BY SMTT(30) DEF Create
<1>11. runner'[n] = new
  BY <1>2, <1>10 DEF TypeOK, RowsOK
<1>12. n \notin retries'
  BY <1>2 DEF Create, TypeOK, HistoryOK
<1> QED
  BY <1>2, <1>3, <1>4, <1>6, <1>8, <1>9, <1>10, <1>11, <1>12

\* Every step keeps the workers right.
LEMMA NextSteady ==
  ASSUME TypeOK, Automatic, Grounded, Steered, DistinctChildren, Grown, [Next]_vars
  PROVE  Steered'
<1>1. CASE UNCHANGED handler
  BY <1>1, SteeredStays
<1>2. ASSUME NEW w \in Worker, Handle(w)
      PROVE  Steered'
  <2>1. ~At(w, "idle")
    BY <1>2, HandleOnward
  <2>2. PICK h \in Handler : h = handler[w] /\ Steady(w, h)
    BY NowSteady
  <2>3. CASE Skip(w) \/ SubmitStage(w) \/ Release(w) \/ SubmitFails(w)
    <3>1. PICK todo \in Seq(Request) : Continue(w, todo) /\ (Spread(handler[w].todo) => Spread(todo))
      BY <2>3, RestSpread
    <3>2. Spread(todo)
      BY <2>2, <3>1 DEF Steady
    <3>3. ~At(w, "begin")
      BY <2>3, RestSpread DEF Triggers, At
    <3> QED
      BY <2>1, <3>1, <3>2, <3>3, ContinueSteady
  <2>4. CASE HandleCiSuccess(w) \/ SaveCopies(w) \/ WriteStatus(w)
    <3>1. PICK todo \in Seq(Request) : Continue(w, todo) /\ Spread(todo)
      BY <2>4, SuccessContinues
    <3>2. w \in Observer => ~At(w, "begin")
      BY <2>4 DEF HandleCiSuccess, SaveCopies, WriteStatus, At, Observer
    <3> QED
      BY <2>1, <3>1, <3>2, ContinueSteady
  <2>5. CASE Create(w)
    <3>1. PICK rest \in Seq(Request), n \in Nat :
            /\ handler'[w].pc = "submit" /\ handler'[w].todo = rest
            /\ Msg(w)' = Msg(w) /\ handler'[w].subject = handler[w].subject
            /\ Spread(handler[w].todo) => Spread(rest)
      BY <2>5, CreatesRun
    <3>2. PICK k \in Handler : handler' = [handler EXCEPT ![w] = k]
      <4>1. handler' \in [Worker -> Handler]
        BY <2>5, CreateTyped DEF TypeOK, HandlersOK
      <4>2. PICK k : handler' = [handler EXCEPT ![w] = k]
        BY <2>5 DEF Create
      <4>3. handler'[w] = k
        BY <4>2 DEF TypeOK, HandlersOK
      <4> QED
        BY <4>1, <4>2, <4>3
    <3>3. handler'[w] = k
      BY <3>2 DEF TypeOK, HandlersOK
    <3>4. Spread(k.todo)
      BY <2>2, <3>1, <3>3 DEF Steady
    <3>5. k.msg = handler[w].msg
      BY <3>1, <3>3 DEF Msg
    <3>6. ~At(w, "begin")
      BY <2>5 DEF Create, At
    <3>7. Steady(w, k)'
      BY <2>1, <3>1, <3>3, <3>4, <3>5, <3>6, TriggeringSteady
    <3> QED
      BY <3>2, <3>7, SetSteady
  <2>6. CASE ReportStage(w) \/ FetchApp(w) \/ CheckApp(w) \/ SaveTimeline(w) \/ RecheckApp(w)
    BY <2>6, LookSteady
  <2> QED
    BY <1>2, <2>3, <2>4, <2>5, <2>6 DEF Handle
<1>3. ASSUME NEW p \in Pipeline, NEW s \in Stage, NEW a \in DOMAIN artifact,
             NEW wf \in {0} \cup DOMAIN workflow, UserTriggers(p, s, a, wf)
      PROVE  Steered'
  <2>1. PICK act \in {"userPRE", "userDEPLOY", "userPOST"} :
          act = CASE s = "PRE" -> "userPRE" [] s = "DEPLOY" -> "userDEPLOY" [] s = "POST" -> "userPOST"
    BY DEF Stage
  <2>2. PICK q : q = [act |-> act, pipeline |-> p, artifact |-> a, workflow |-> wf]
    OBVIOUS
  <2>3. q \in Request
    <3>1. a \in Nat /\ wf \in Nat
      BY DEF TypeOK, RowsOK
    <3> QED
      BY <2>2, <3>1 DEF Request
  <2>4. PICK todo \in Seq(Request) : todo = <<q>> /\ Spread(todo)
    BY <2>3, OneSpread
  <2>5. Continue("user", todo)
    BY <1>3, <2>1, <2>2, <2>4 DEF UserTriggers
  <2> QED
    BY <2>4, <2>5, ContinueSteady DEF Worker, Observer
<1>4. CASE Crash
  <2> SUFFICES ASSUME NEW w \in Worker, NEW h \in Handler, handler'[w] = h
               PROVE  Steady(w, h)'
    BY DEF Steered
  <2>1. h = Idle
    BY <1>4 DEF Crash
  <2> QED
    BY <2>1, IdleSteady
<1>5. \/ UNCHANGED handler \/ Crash
      \/ \E t \in Topic : Take(t)
      \/ \E w \in Worker : Handle(w)
      \/ \E p \in Pipeline, s \in Stage, a \in DOMAIN artifact, wf \in {0} \cup DOMAIN workflow :
           UserTriggers(p, s, a, wf)
  <2>1. Cluster => UNCHANGED handler
    BY ClusterGrows
  <2>2. \A t \in Topic : Redeliver(t) => UNCHANGED handler
    BY DEF Redeliver
  <2>3. \A r \in DOMAIN runner : RetryStage(r) => UNCHANGED handler
    BY DEF RetryStage
  <2>4. \A p \in Pipeline : SyncByCron(p) => UNCHANGED handler
    BY DEF SyncByCron
  <2> QED
    BY <2>1, <2>2, <2>3, <2>4 DEF Next, vars
<1> QED
  BY <1>1, <1>2, <1>3, <1>4, <1>5, TakeSteady

\* A step leaves a topic's messages alone, and its worker goes on with the one it has.
Stays(t) ==
  /\ queue'[t] = queue[t]
  /\ \/ At(t, "idle")'
     \/ ~At(t, "idle") /\ Msg(t)' = Msg(t) /\ (Triggers(t) => Triggers(t)')

\* A message is added to a topic.
Arrives(t, m) == queue'[t] = Append(queue[t], m) /\ UNCHANGED handler

\* A worker takes the first message of its topic, or drops it.
Takes(t) ==
  /\ queue[t] # <<>> /\ At(t, "idle") /\ queue'[t] = Tail(queue[t])
  /\ LET m == Head(queue[t])
     IN \/ handler'[t] = handler[t]
        \/ /\ ~(m.again /\ AlreadyTriggered(m))
           /\ Msg(t)' = m /\ ~At(t, "idle")' /\ ~Triggers(t)'

\* What a worker had in hand is put back.
Returns(t, m) == queue'[t] = <<m>> \o queue[t] /\ At(t, "idle")'

\* A message that is delivered again.
Again(t, m) ==
  /\ ~At(t, "idle") /\ m.again /\ m.id = Msg(t).id /\ m.subject = Msg(t).subject
  /\ \A i \in DOMAIN queue[t] : queue[t][i].id # Msg(t).id

\* A message that tells of a build or of a stage that has just ended.
Reports(t, m) ==
  \/ t = "ci" /\ m.subject = builds + 1 /\ BuildSucceeds
  \/ t = "stage" /\ \E r \in running, good \in BOOLEAN : m.subject = r /\ StageEnds(r, good)

\* All that a step may do to a topic and its worker.
ToldStep(t) ==
  \/ Stays(t) \/ Takes(t)
  \/ \E m \in Message :
       \/ Arrives(t, m) /\ (Again(t, m) \/ Reports(t, m))
       \/ Returns(t, m) /\ Again(t, m)

\* Topics and workers that a step leaves alone.
LEMMA StaysAlone ==
  ASSUME NEW t, queue'[t] = queue[t], handler'[t] = handler[t]
  PROVE  Stays(t)
BY DEF Stays, At, Msg, Triggers

\* A message that a worker has in hand, delivered again.
LEMMA AgainSays ==
  ASSUME TypeOK, NEW t \in Topic, ~At(t, "idle"),
         \A i \in DOMAIN queue[t] : queue[t][i].id # Msg(t).id
  PROVE  \E m \in Message : m = [Msg(t) EXCEPT !.again = TRUE] /\ Again(t, m)
<1>1. PICK x \in Message : x = Msg(t)
  BY HandlerFacts DEF TypeOK, Worker, Msg
<1>2. PICK m \in Message : m = [x EXCEPT !.again = TRUE]
  BY DEF Message
<1>3. m.again /\ m.id = x.id /\ m.subject = x.subject
  BY <1>2 DEF Message
<1> QED
  BY <1>1, <1>2, <1>3 DEF Again

\* A message that is published.
LEMMA PublishArrives ==
  ASSUME TypeOK, NEW t \in Topic, NEW p \in Pipeline \cup {Source}, NEW s \in Nat,
         NEW good \in BOOLEAN, Publish(t, p, s, good), UNCHANGED handler
  PROVE  /\ \E m \in Message : m.subject = s /\ Arrives(t, m)
         /\ \A u \in Topic \ {t} : Stays(u)
<1> DEFINE m == [id |-> sent + 1, pipeline |-> p, subject |-> s,
                 good |-> good, again |-> FALSE]
<1>1. m \in Message /\ m.subject = s
  BY DEF Message, TypeOK, QueueOK
<1>2. PICK x \in Message : x = m
  BY <1>1
<1>3. queue' = [queue EXCEPT ![t] = Append(queue[t], x)]
  BY <1>2 DEF Publish, Published
<1>4. \A u \in Topic : queue'[u] = IF u = t THEN Append(queue[t], x) ELSE queue[u]
  BY <1>3 DEF TypeOK, QueueOK
<1>5. \A u \in Topic \ {t} : Stays(u)
  BY <1>4, StaysAlone
<1> QED
  BY <1>1, <1>2, <1>4, <1>5 DEF Arrives

\* A message is taken, or dropped.
LEMMA TakeTakes ==
  ASSUME TypeOK, NEW t \in Topic, Take(t)
  PROVE  Takes(t) /\ \A u \in Topic \ {t} : Stays(u)
<1>1. t \in Worker /\ \A u \in Topic : u \in Worker
  BY DEF Worker
<1>2. queue[t] \in Seq(Message) /\ queue[t] # <<>>
  BY DEF Take, TypeOK, QueueOK
<1>3. \A u \in Topic : queue'[u] = IF u = t THEN Tail(queue[t]) ELSE queue[u]
  BY DEF Take, TypeOK, QueueOK
<1>4. PICK m \in Message : m = Head(queue[t])
  BY <1>2
<1>5. CASE handler' = handler
  BY <1>3, <1>5, StaysAlone DEF Take, Takes
<1>6. CASE handler' # handler
  <2>1. PICK pc \in {"check", "begin"} : pc = IF t = "app" THEN "check" ELSE "begin"
    OBVIOUS
  <2>2. PICK h \in Handler : h = Taken(pc, m)
    BY TakenTyped
  <2>3. h.pc = pc /\ h.msg = m
    BY <2>2 DEF Taken
  <2>4. handler' = [handler EXCEPT ![t] = h] /\ ~(m.again /\ AlreadyTriggered(m))
    BY <1>4, <1>6, <2>1, <2>2 DEF Take, Taken
  <2>5. \A u \in Worker : handler'[u] = IF u = t THEN h ELSE handler[u]
    BY <2>4 DEF TypeOK, HandlersOK
  <2>6. handler'[t] = h
    BY <1>1, <2>5
  <2>7. Msg(t)' = m /\ ~At(t, "idle")' /\ ~Triggers(t)'
    BY <2>3, <2>6 DEF Msg, At, Triggers
  <2>8. Takes(t)
    BY <1>3, <1>4, <2>4, <2>7 DEF Take, Takes
  <2> QED
    BY <1>1, <1>3, <2>5, <2>8, StaysAlone
<1> QED
  BY <1>5, <1>6

\* A message comes again.
LEMMA RedeliverArrives ==
  ASSUME TypeOK, NEW t \in Topic, Redeliver(t)
  PROVE  /\ \E m \in Message : Arrives(t, m) /\ Again(t, m)
         /\ \A u \in Topic \ {t} : Stays(u)
<1>1. PICK m \in Message : m = [Msg(t) EXCEPT !.again = TRUE] /\ Again(t, m)
  BY AgainSays DEF Redeliver
<1>2. queue' = [queue EXCEPT ![t] = Append(queue[t], m)] /\ UNCHANGED handler
  BY <1>1 DEF Redeliver
<1>3. \A u \in Topic : queue'[u] = IF u = t THEN Append(queue[t], m) ELSE queue[u]
  BY <1>2 DEF TypeOK, QueueOK
<1>4. \A u \in Topic \ {t} : Stays(u)
  BY <1>2, <1>3, StaysAlone
<1> QED
  BY <1>1, <1>2, <1>3, <1>4 DEF Arrives

\* The process crashes.
LEMMA CrashReturns ==
  ASSUME TypeOK, NEW t \in Topic, Crash
  PROVE  Stays(t) \/ \E m \in Message : Returns(t, m) /\ Again(t, m)
<1>1. queue'[t] = Requeued[t]
  BY DEF Crash
<1>2. handler'[t] = Idle
  BY DEF Crash, Worker
<1>3. At(t, "idle")'
  BY <1>2, IdleTyped DEF At
<1>4. CASE Interrupted(t)
  <2>1. PICK m \in Message : m = [Msg(t) EXCEPT !.again = TRUE] /\ Again(t, m)
    BY <1>4, AgainSays DEF Interrupted
  <2>2. queue'[t] = <<m>> \o queue[t]
    BY <1>1, <1>4, <2>1 DEF Requeued
  <2> QED
    BY <1>3, <2>1, <2>2 DEF Returns
<1>5. CASE ~Interrupted(t)
  <2>1. queue'[t] = queue[t]
    BY <1>1, <1>5 DEF Requeued
  <2> QED
    BY <1>3, <2>1 DEF Stays
<1> QED
  BY <1>4, <1>5

\* Every step is one of these to a topic.
LEMMA ToldSteps ==
  ASSUME TypeOK, NEW t \in Told, [Next]_vars
  PROVE  ToldStep(t)
<1>1. t \in Topic /\ t \notin {"app", "sync"} /\ t # "user" /\ t \in Worker
  BY DEF Told, Topic, Worker
<1>2. CASE UNCHANGED <<queue, handler>>
  BY <1>2, StaysAlone DEF ToldStep
<1>3. CASE BuildSucceeds
  <2>1. PICK n \in Nat : n = builds + 1
    BY DEF TypeOK, ClusterOK
  <2>2. Publish("ci", Source, n, TRUE) /\ UNCHANGED handler
    BY <1>3, <2>1 DEF BuildSucceeds
  <2>3. (\E m \in Message : m.subject = n /\ Arrives("ci", m)) /\ \A u \in Topic \ {"ci"} : Stays(u)
    BY <2>2, PublishArrives DEF Topic
  <2> QED
    BY <1>1, <1>3, <2>1, <2>3 DEF ToldStep, Reports
<1>4. ASSUME NEW r \in running, NEW good \in BOOLEAN, StageEnds(r, good)
      PROVE  ToldStep(t)
  <2>1. PICK p \in Pipeline : p = PipelineOf(r) /\ r \in Nat
    BY RunnerFacts DEF TypeOK, ClusterOK
  <2>2. Publish("stage", p, r, good) /\ UNCHANGED handler
    BY <1>4, <2>1 DEF StageEnds
  <2>3. (\E m \in Message : m.subject = r /\ Arrives("stage", m)) /\ \A u \in Topic \ {"stage"} : Stays(u)
    BY <2>1, <2>2, PublishArrives DEF Topic
  <2> QED
    BY <1>1, <1>4, <2>3 DEF ToldStep, Reports
<1>5. ASSUME NEW p \in Pipeline, AppHealthy(p) \/ Resend(p) \/ SyncByCron(p)
      PROVE  ToldStep(t)
  <2>1. UNCHANGED handler /\ queue'[t] = queue[t]
    <3>1. PICK u, s, good : u \in {"app", "sync"} /\ Publish(u, p, s, good) /\ UNCHANGED handler
      BY <1>5 DEF AppHealthy, Resend, SyncByCron
    <3>2. PICK m : queue' = [queue EXCEPT ![u] = m]
      BY <3>1 DEF Publish, Published
    <3> QED
      BY <1>1, <3>1, <3>2 DEF TypeOK, QueueOK
  <2> QED
    BY <2>1, StaysAlone DEF ToldStep
<1>6. ASSUME NEW u \in Topic, Take(u)
      PROVE  ToldStep(t)
  BY <1>1, <1>6, TakeTakes DEF ToldStep
<1>7. ASSUME NEW u \in Topic, Redeliver(u)
      PROVE  ToldStep(t)
  BY <1>1, <1>7, RedeliverArrives DEF ToldStep
<1>8. ASSUME NEW w \in Worker, Handle(w)
      PROVE  ToldStep(t)
  <2>1. UNCHANGED queue
    BY <1>8 DEF Handle, Skip, Create, SubmitStage, Release, SubmitFails, HandleCiSuccess,
                ReportStage, SaveCopies, FetchApp, CheckApp, SaveTimeline, RecheckApp, WriteStatus
  <2>2. Onward
    BY <1>8, HandleOnward
  <2>3. Stays(t)
    BY <1>1, <2>1, <2>2 DEF Onward, Stays
  <2> QED
    BY <2>3 DEF ToldStep
<1>9. ASSUME NEW r \in DOMAIN runner, RetryStage(r)
      PROVE  ToldStep(t)
  BY <1>2, <1>9 DEF RetryStage
<1>10. ASSUME NEW p, NEW s, NEW a, NEW wf, UserTriggers(p, s, a, wf)
       PROVE  ToldStep(t)
  <2>1. UNCHANGED queue
    BY <1>10 DEF UserTriggers
  <2>2. PICK k : handler' = [handler EXCEPT !["user"] = k]
    BY <1>10 DEF UserTriggers, Continue
  <2>3. handler'[t] = handler[t]
    BY <1>1, <2>2 DEF TypeOK, HandlersOK
  <2> QED
    BY <2>1, <2>3, StaysAlone DEF ToldStep
<1>11. CASE Crash
  BY <1>1, <1>11, CrashReturns DEF ToldStep
<1> QED
  BY <1>2, <1>3, <1>4, <1>5, <1>6, <1>7, <1>8, <1>9, <1>10, <1>11 DEF Next, Cluster, vars

\* What is on a topic to which a message is added.
LEMMA AppendIn ==
  ASSUME NEW old \in Seq(Message), NEW m \in Message, NEW new, new = Append(old, m)
  PROVE  \A i \in DOMAIN new :
           (i \in DOMAIN old /\ new[i] = old[i]) \/ (i = Len(old) + 1 /\ new[i] = m)
<1>1. Len(new) = Len(old) + 1 /\ new \in Seq(Message)
  OBVIOUS
<1>2. DOMAIN new = 1 .. Len(old) + 1 /\ DOMAIN old = 1 .. Len(old) /\ Len(old) \in Nat
  BY <1>1
<1>3. new[Len(old) + 1] = m
  OBVIOUS
<1>4. \A i \in 1 .. Len(old) : new[i] = old[i]
  OBVIOUS
<1>5. \A i \in 1 .. Len(old) + 1 : i \in 1 .. Len(old) \/ i = Len(old) + 1
  BY <1>2
<1> QED
  BY <1>2, <1>3, <1>4, <1>5

\* What a message on a topic, or in hand, may be about.
LEMMA KnownSubjects ==
  ASSUME TypeOK, Grounded, NEW t \in Told
  PROVE  /\ \A i \in DOMAIN queue[t] : MessageTrue(t, queue[t][i]) /\ MessageOK(t, queue[t][i])
         /\ ~At(t, "idle") => MessageTrue(t, Msg(t)) /\ MessageOK(t, Msg(t))
<1>1. t \in Topic /\ t \in Worker /\ t # "user"
  BY DEF Told, Topic, Worker
<1>2. ASSUME NEW i \in DOMAIN queue[t]
      PROVE  MessageTrue(t, queue[t][i]) /\ MessageOK(t, queue[t][i])
  <2>1. queue[t][i] \in Message /\ InQueue(t, queue[t][i])
    BY <1>1 DEF TypeOK, QueueOK, InQueue
  <2> QED
    BY <1>1, <2>1 DEF Grounded, Queued, TypeOK, QueueOK
<1>3. ~At(t, "idle") => MessageOK(t, Msg(t))
  BY <1>1, HandlerFacts DEF TypeOK, HandlerOK, At, Msg
<1> QED
  BY <1>1, <1>2, <1>3, KnownMessage DEF Grounded

\* A report is about what no message on its topic is about.
LEMMA ReportsNews ==
  ASSUME TypeOK, Grounded, NoNews, NEW t \in Told, NEW m, Reports(t, m)
  PROVE  /\ \A i \in DOMAIN queue[t] : queue[t][i].subject # m.subject
         /\ ~At(t, "idle") => Msg(t).subject # m.subject
<1>1. CASE t = "ci"
  <2>1. m.subject = builds + 1 /\ m.subject \notin 1 .. builds
    BY <1>1 DEF Reports, TypeOK, ClusterOK
  <2> QED
    BY <1>1, <2>1, KnownSubjects DEF MessageTrue
<1>2. CASE t = "stage"
  <2>1. PICK r \in running : m.subject = r
    BY <1>2 DEF Reports
  <2>2. r \in DOMAIN runner /\ runner[r].stage # "DEPLOY"
    BY DEF TypeOK, ClusterOK, Grounded, Staged
  <2>3. Unseen(r)
    BY <2>2 DEF NoNews, Fresh
  <2> QED
    BY <1>2, <2>1, <2>3 DEF Unseen
<1> QED
  BY <1>1, <1>2 DEF Told

\* A message that comes again is the only one on its topic about what it is about.
LEMMA AgainAlone ==
  ASSUME NEW t, Repeats(t), NEW m, Again(t, m)
  PROVE  \A i \in DOMAIN queue[t] : queue[t][i].subject # m.subject
BY DEF Repeats, Again

\* One message tells of a build or a stage.
LEMMA ToldOnceStep ==
  ASSUME TypeOK, Grounded, NoNews, NEW t \in Told, Single(t), Repeats(t), ToldStep(t)
  PROVE  Single(t)' /\ Repeats(t)'
<1>1. PICK old \in Seq(Message) : old = queue[t]
  BY DEF TypeOK, QueueOK, Told, Topic
<1>2. \A i, j \in DOMAIN old : i # j => old[i].subject # old[j].subject
  BY <1>1 DEF Single
<1>3. CASE Stays(t)
  BY <1>3 DEF Stays, Single, Repeats
<1>4. CASE Takes(t)
  <2>1. old # <<>> /\ queue'[t] = Tail(old)
    BY <1>1, <1>4 DEF Takes
  <2>2. PICK rest : rest = Tail(old) /\ \A i \in DOMAIN rest :
          i + 1 \in DOMAIN old /\ rest[i] = old[i + 1] /\ i \in Nat \ {0}
    BY <2>1
  <2>3. PICK m : m = old[1] /\ m = Head(old) /\ 1 \in DOMAIN old
    BY <2>1
  <2>4. \A i, j \in DOMAIN rest : i # j => rest[i].subject # rest[j].subject
    BY <1>2, <2>2
  <2>5. \A i \in DOMAIN rest : rest[i].subject # m.subject
    BY <1>2, <2>2, <2>3
  <2>6. At(t, "idle")' \/ Msg(t)' = m
    BY <1>1, <1>4, <2>3 DEF Takes, At
  <2> QED
    BY <2>1, <2>2, <2>4, <2>5, <2>6 DEF Single, Repeats
<1>5. ASSUME NEW m \in Message, Arrives(t, m), Again(t, m) \/ Reports(t, m)
      PROVE  Single(t)' /\ Repeats(t)'
  <2>1. \A i \in DOMAIN old : old[i].subject # m.subject
    BY <1>1, <1>5, AgainAlone, ReportsNews
  <2>2. PICK new : new = Append(old, m) /\ new = queue'[t]
    BY <1>1, <1>5 DEF Arrives
  <2>3. \A i \in DOMAIN new : (i \in DOMAIN old /\ new[i] = old[i]) \/ (i = Len(old) + 1 /\ new[i] = m)
    BY <2>2, AppendIn
  <2>4. \A i, j \in DOMAIN new : i # j => new[i].subject # new[j].subject
    BY <1>2, <2>1, <2>3
  <2>5. ASSUME ~At(t, "idle"), NEW i \in DOMAIN new, new[i].subject = Msg(t).subject
        PROVE  new[i].again /\ new[i].id = Msg(t).id
    <3>1. CASE i \in DOMAIN old /\ new[i] = old[i]
      BY <1>1, <2>5, <3>1 DEF Repeats
    <3>2. CASE new[i] = m
      BY <1>5, <2>5, <3>2, ReportsNews DEF Again
    <3> QED
      BY <2>3, <3>1, <3>2
  <2>6. (At(t, "idle")' <=> At(t, "idle")) /\ Msg(t)' = Msg(t)
    BY <1>5 DEF Arrives, At, Msg
  <2> QED
    BY <2>2, <2>4, <2>5, <2>6 DEF Single, Repeats
<1>6. ASSUME NEW m \in Message, Returns(t, m), Again(t, m)
      PROVE  Single(t)' /\ Repeats(t)'
  <2>1. \A i \in DOMAIN old : old[i].subject # m.subject
    BY <1>1, <1>6, AgainAlone
  <2>2. PICK new : new = <<m>> \o old /\ new = queue'[t]
    BY <1>1, <1>6 DEF Returns
  <2>3. \A i \in DOMAIN new : (i = 1 /\ new[i] = m) \/ (i - 1 \in DOMAIN old /\ new[i] = old[i - 1] /\ i \in Nat)
    BY <2>2
  <2>4. \A i, j \in DOMAIN new : i # j => new[i].subject # new[j].subject
    BY <1>2, <2>1, <2>3
  <2> QED
    BY <1>6, <2>2, <2>4 DEF Single, Repeats, Returns
<1> QED
  BY <1>3, <1>4, <1>5, <1>6 DEF ToldStep

\* A message that has triggered something stays the one that has.
LEMMA ClaimedStep ==
  ASSUME TypeOK, NEW t \in Told, ToldStep(t), NEW s, NEW x \in DOMAIN runner,
         Claimed(t, s, runner[x].ref),
         \A m \in Message : Reports(t, m) => m.subject # s
  PROVE  \E id : id = runner[x].ref /\ Claimed(t, s, id)'
<1>1. PICK old \in Seq(Message) : old = queue[t]
  BY DEF TypeOK, QueueOK, Told, Topic
<1>2. PICK id : id = runner[x].ref
  OBVIOUS
<1>3. /\ \A i \in DOMAIN old : old[i].subject = s => old[i].again /\ old[i].id = id
      /\ ~At(t, "idle") /\ Msg(t).subject = s => Triggers(t) /\ Msg(t).id = id
  BY <1>1, <1>2 DEF Claimed
<1>4. CASE Stays(t)
  <2>1. Claimed(t, s, id)'
    BY <1>1, <1>3, <1>4 DEF Stays, Claimed
  <2> QED
    BY <1>2, <2>1
<1>5. CASE Takes(t)
  <2>1. old # <<>> /\ queue'[t] = Tail(old)
    BY <1>1, <1>5 DEF Takes
  <2>2. PICK rest : rest = Tail(old) /\ \A i \in DOMAIN rest :
          i + 1 \in DOMAIN old /\ rest[i] = old[i + 1]
    BY <2>1
  <2>3. PICK m : m = old[1] /\ m = Head(old) /\ 1 \in DOMAIN old
    BY <2>1
  <2>4. At(t, "idle")' \/ (Msg(t)' = m /\ ~(m.again /\ AlreadyTriggered(m)))
    BY <1>1, <1>5, <2>3 DEF Takes, At
  <2>5. m.subject = s => m.again /\ m.id = id
    BY <1>3, <2>3
  <2>6. m.subject = s => AlreadyTriggered(m)
    BY <1>2, <2>5 DEF AlreadyTriggered
  <2>7. \A i \in DOMAIN rest : rest[i].subject = s => rest[i].again /\ rest[i].id = id
    BY <1>3, <2>2
  <2>8. Claimed(t, s, id)'
    BY <2>1, <2>2, <2>4, <2>5, <2>6, <2>7 DEF Claimed
  <2> QED
    BY <1>2, <2>8
<1>6. ASSUME NEW m \in Message, m.subject = s => m.again /\ m.id = id,
             NEW new, new = queue'[t], new = Append(old, m) \/ new = <<m>> \o old
      PROVE  \A i \in DOMAIN new : new[i].subject = s => new[i].again /\ new[i].id = id
  <2>1. \A i \in DOMAIN new : new[i] = m \/ \E j \in DOMAIN old : new[i] = old[j]
    <3>1. CASE new = Append(old, m)
      BY <3>1, AppendIn
    <3>2. CASE new = <<m>> \o old
      <4>1. \A i \in DOMAIN new : new[i] = m \/ (i - 1 \in DOMAIN old /\ new[i] = old[i - 1])
        BY <3>2
      <4> QED
        BY <4>1
    <3> QED
      BY <1>6, <3>1, <3>2
  <2> QED
    BY <1>3, <1>6, <2>1
<1>7. \A m \in Message : Again(t, m) /\ m.subject = s => m.again /\ m.id = id
  BY <1>3 DEF Again
<1>8. ASSUME NEW m \in Message, Arrives(t, m), Again(t, m) \/ Reports(t, m)
      PROVE  Claimed(t, s, id)'
  <2>1. m.subject = s => m.again /\ m.id = id
    BY <1>7, <1>8
  <2>2. PICK new : new = Append(old, m) /\ new = queue'[t]
    BY <1>1, <1>8 DEF Arrives
  <2>3. \A i \in DOMAIN new : new[i].subject = s => new[i].again /\ new[i].id = id
    BY <1>6, <2>1, <2>2
  <2> QED
    BY <1>3, <1>8, <2>2, <2>3 DEF Claimed, Arrives, At, Msg, Triggers
<1>9. ASSUME NEW m \in Message, Returns(t, m), Again(t, m)
      PROVE  Claimed(t, s, id)'
  <2>1. m.subject = s => m.again /\ m.id = id
    BY <1>7, <1>9
  <2>2. PICK new : new = <<m>> \o old /\ new = queue'[t]
    BY <1>1, <1>9 DEF Returns
  <2>3. \A i \in DOMAIN new : new[i].subject = s => new[i].again /\ new[i].id = id
    BY <1>6, <2>1, <2>2
  <2> QED
    BY <1>9, <2>2, <2>3 DEF Claimed, Returns
<1> QED
  BY <1>2, <1>4, <1>5, <1>8, <1>9 DEF ToldStep

\* What no message of the stages is about stays so, unless one is published.
LEMMA UnheardStep ==
  ASSUME TypeOK, NEW t \in Told, ToldStep(t), NEW r,
         \A i \in DOMAIN queue[t] : queue[t][i].subject # r,
         ~At(t, "idle") => Msg(t).subject # r,
         \A m \in Message : Reports(t, m) => m.subject # r
  PROVE  /\ \A i \in DOMAIN queue'[t] : queue'[t][i].subject # r
         /\ ~At(t, "idle")' => Msg(t)'.subject # r
<1>1. PICK old \in Seq(Message) : old = queue[t]
  BY DEF TypeOK, QueueOK, Told, Topic
<1>2. CASE Stays(t)
  BY <1>2 DEF Stays
<1>3. CASE Takes(t)
  <2>1. old # <<>> /\ queue'[t] = Tail(old)
    BY <1>1, <1>3 DEF Takes
  <2>2. PICK rest : rest = Tail(old) /\ \A i \in DOMAIN rest :
          i + 1 \in DOMAIN old /\ rest[i] = old[i + 1]
    BY <2>1
  <2>3. PICK m : m = old[1] /\ m = Head(old) /\ 1 \in DOMAIN old
    BY <2>1
  <2>4. At(t, "idle")' \/ Msg(t)' = m
    BY <1>1, <1>3, <2>3 DEF Takes, At
  <2> QED
    BY <1>1, <2>1, <2>2, <2>3, <2>4
<1>4. ASSUME NEW m \in Message, Arrives(t, m), Again(t, m) \/ Reports(t, m)
      PROVE  /\ \A i \in DOMAIN queue'[t] : queue'[t][i].subject # r
             /\ ~At(t, "idle")' => Msg(t)'.subject # r
  <2>1. m.subject # r
    BY <1>4 DEF Again
  <2>2. PICK new : new = Append(old, m) /\ new = queue'[t]
    BY <1>1, <1>4 DEF Arrives
  <2>3. \A i \in DOMAIN new : (i \in DOMAIN old /\ new[i] = old[i]) \/ (i = Len(old) + 1 /\ new[i] = m)
    BY <2>2, AppendIn
  <2>4. (At(t, "idle")' <=> At(t, "idle")) /\ Msg(t)' = Msg(t)
    BY <1>4 DEF Arrives, At, Msg
  <2> QED
    BY <1>1, <2>1, <2>2, <2>3, <2>4
<1>5. ASSUME NEW m \in Message, Returns(t, m), Again(t, m)
      PROVE  /\ \A i \in DOMAIN queue'[t] : queue'[t][i].subject # r
             /\ ~At(t, "idle")' => Msg(t)'.subject # r
  <2>1. m.subject # r
    BY <1>5 DEF Again
  <2>2. PICK new : new = <<m>> \o old /\ new = queue'[t]
    BY <1>1, <1>5 DEF Returns
  <2>3. \A i \in DOMAIN new : new[i] = m \/ (i - 1 \in DOMAIN old /\ new[i] = old[i - 1])
    BY <2>2
  <2> QED
    BY <1>1, <1>5, <2>1, <2>2, <2>3 DEF Returns
<1> QED
  BY <1>2, <1>3, <1>4, <1>5 DEF ToldStep

\* What a retry adds: a stage that runs for the same reason.
LEMMA RetriesRun ==
  ASSUME TypeOK, NEW r \in DOMAIN runner, RetryStage(r)
  PROVE  \E n \in Nat :
           /\ n \notin DOMAIN runner /\ DOMAIN runner' = DOMAIN runner \cup {n} /\ n \in retries'
           /\ cause'[n] = cause[r] /\ running' = (running \ {r}) \cup {n}
           /\ runner'[n].stage = runner[r].stage /\ runner[r].stage # "DEPLOY"
<1>1. PICK n \in Nat : n = Len(runner) + 1 /\ n \notin DOMAIN runner
  BY DEF TypeOK, RowsOK
<1>2. PICK old, new : /\ old = [runner EXCEPT ![r].status = "Failed"]
                      /\ new = [runner[r] EXCEPT !.ref = 0]
  OBVIOUS
<1>3. new.stage = runner[r].stage
  BY <1>2 DEF TypeOK, RowsOK, Runner
<1>4. DOMAIN runner' = DOMAIN runner \cup {n} /\ runner'[n] = new
  <2>1. runner' = Append(old, new)
    BY <1>2 DEF RetryStage
  <2>2. old \in Seq(Runner) /\ DOMAIN old = DOMAIN runner
    BY <1>2, RetriedRow
  <2>3. Len(old) = Len(runner) /\ runner \in Seq(Runner)
    BY <2>2 DEF TypeOK, RowsOK
  <2> QED
    BY <1>1, <2>1, <2>2, <2>3
<1>5. cause'[n] = cause[r]
  <2>1. cause' = Append(cause, cause[r]) /\ cause \in Seq(Cause) /\ n = Len(cause) + 1
    BY <1>1 DEF RetryStage, TypeOK, RowsOK
  <2> QED
    BY <2>1
<1>6. n \in retries' /\ running' = (running \ {r}) \cup {n} /\ runner[r].stage # "DEPLOY"
  BY <1>1 DEF RetryStage
<1> QED
  BY <1>1, <1>3, <1>4, <1>5, <1>6

\* Every step keeps the rows, and adds at most one runner.
LEMMA NextRows ==
  ASSUME TypeOK, [Next]_vars
  PROVE  /\ Grown /\ RowsKept
         /\ \/ DOMAIN runner' = DOMAIN runner
            \/ \E w \in Worker : Create(w)
            \/ \E r \in DOMAIN runner : RetryStage(r)
<1>1. CASE Cluster
  <2>1. Grown /\ UNCHANGED <<runner, retries>>
    <3>1. UNCHANGED retries
      BY <1>1 DEF Cluster, BuildSucceeds, StageEnds, AppHealthy, Resend
    <3> QED
      BY <1>1, <3>1, ClusterGrows DEF rows
  <2> QED
    BY <2>1, SameRowsKept
<1>2. ASSUME NEW w \in Worker, Handle(w)
      PROVE  Grown /\ RowsKept /\ (DOMAIN runner' = DOMAIN runner \/ Create(w))
  BY <1>2, HandleGrows, HandleRowsKept, HandleKeeps DEF Kept
<1>3. ASSUME NEW r \in DOMAIN runner, RetryStage(r)
      PROVE  Grown /\ RowsKept
  BY <1>3, RetryGrows, RetryRowsKept
<1>4. CASE UNCHANGED <<rows, cluster, retries>>
  BY <1>4, QuietGrows, SameRowsKept DEF rows, cluster
<1>5. \/ (\E t \in Topic : Take(t) \/ Redeliver(t)) \/ (\E p \in Pipeline : SyncByCron(p))
      \/ (\E p \in Pipeline, s \in Stage, a \in DOMAIN artifact, wf \in {0} \cup DOMAIN workflow :
            UserTriggers(p, s, a, wf))
      \/ Crash \/ UNCHANGED vars
      => UNCHANGED <<rows, cluster, retries>>
  BY DEF Take, Redeliver, SyncByCron, UserTriggers, Crash, vars
<1>6. UNCHANGED rows => DOMAIN runner' = DOMAIN runner
  BY DEF rows
<1> QED
  BY <1>1, <1>2, <1>3, <1>4, <1>5, <1>6 DEF Next

\* What a worker that triggers is about.
LEMMA CauseKnown ==
  ASSUME TypeOK, Grounded, Steered, NEW w \in Worker, Triggers(w)
  PROVE  \E c \in Cause : c = CauseOf(w)
           /\ (w = "user" => c.kind = "user")
           /\ (w = "ci" => c.kind = "build" /\ c.id = Msg(w).subject /\ c.id \in 1 .. builds)
           /\ (w \in {"stage", "app", "sync"} =>
                 c.kind = "runner" /\ c.id = handler[w].subject /\ c.id \in DOMAIN runner)
           /\ (w = "stage" => c.id = Msg(w).subject /\ runner[c.id].stage # "DEPLOY")
           /\ (w \in Observer => runner[c.id].stage = "DEPLOY")
<1>1. PICK h \in Handler : h = handler[w] /\ Steady(w, h)
  BY NowSteady
<1>2. h.pc \notin {"idle", "begin"} /\ ~At(w, "idle")
  BY <1>1 DEF Triggers, At
<1>3. PICK c \in Cause : c = CauseOf(w)
  BY CauseTyped DEF TypeOK
<1>4. w = "user" => c.kind = "user"
  BY <1>3 DEF CauseOf
<1>5. w = "ci" => c.kind = "build" /\ c.id = Msg(w).subject /\ c.id \in 1 .. builds
  <2>1. w = "ci" => MessageTrue(w, Msg(w))
    BY <1>2, KnownMessage DEF Grounded
  <2> QED
    BY <1>1, <1>2, <1>3, <2>1 DEF CauseOf, Steady, Told, MessageTrue, Msg
<1>6. w \in {"stage", "app", "sync"} => c.kind = "runner" /\ c.id = h.subject
  BY <1>1, <1>3 DEF CauseOf
<1>7. w = "stage" => h.subject \in DOMAIN runner /\ h.subject = Msg(w).subject
                     /\ runner[h.subject].stage # "DEPLOY"
  BY <1>1, <1>2 DEF Steady, Told, Msg
<1>8. w \in Observer => h.subject \in DOMAIN runner /\ runner[h.subject].stage = "DEPLOY"
  BY <1>1, <1>2 DEF Steady
<1>9. Observer = {"app", "sync"}
  BY DEF Observer
<1> QED
  BY <1>1, <1>3, <1>4, <1>5, <1>6, <1>7, <1>8, <1>9

\* Causes are about builds and runners that exist.
LEMMA NextKnownCause ==
  ASSUME TypeOK, Automatic, Grounded, Steered, KnownCause, [Next]_vars
  PROVE  KnownCause'
<1>1. Grown
  BY NextRows
<1>2. builds \in Nat /\ builds' \in Nat /\ builds <= builds'
  BY <1>1 DEF Grown, TypeOK, ClusterOK
<1>3. ASSUME NEW c, (c.kind = "build" => c.id \in 1 .. builds),
             (c.kind = "runner" => c.id \in DOMAIN runner)
      PROVE  /\ c.kind = "build" => c.id \in 1 .. builds'
             /\ c.kind = "runner" => c.id \in DOMAIN runner'
  BY <1>1, <1>2, <1>3 DEF Grown
<1>4. \A x \in DOMAIN runner : /\ cause'[x].kind = "build" => cause'[x].id \in 1 .. builds'
                               /\ cause'[x].kind = "runner" => cause'[x].id \in DOMAIN runner'
  <2>1. \A x \in DOMAIN runner : cause'[x] = cause[x]
    BY <1>1 DEF Grown
  <2> QED
    BY <1>3, <2>1 DEF KnownCause
<1>5. CASE DOMAIN runner' = DOMAIN runner
  BY <1>4, <1>5 DEF KnownCause
<1>6. ASSUME NEW w \in Worker, Create(w)
      PROVE  KnownCause'
  <2>1. PICK n \in Nat : DOMAIN runner' = DOMAIN runner \cup {n} /\ cause'[n] = CauseOf(w)
    BY <1>6, CreatesRun
  <2>2. Triggers(w)
    BY <1>6 DEF Create, At, Triggers
  <2>3. PICK c : /\ c = CauseOf(w)
                 /\ w = "user" => c.kind = "user"
                 /\ w = "ci" => c.kind = "build" /\ c.id \in 1 .. builds
                 /\ w \in {"stage", "app", "sync"} => c.kind = "runner" /\ c.id \in DOMAIN runner
    BY <2>2, CauseKnown
  <2>4. w \in {"ci", "stage", "app", "sync", "user"}
    BY DEF Worker, Topic
  <2>5. /\ c.kind = "build" => c.id \in 1 .. builds'
        /\ c.kind = "runner" => c.id \in DOMAIN runner'
    BY <1>3, <2>3, <2>4
  <2> QED
    BY <1>4, <2>1, <2>3, <2>5 DEF KnownCause
<1>7. ASSUME NEW r \in DOMAIN runner, RetryStage(r)
      PROVE  KnownCause'
  <2>1. PICK n \in Nat : DOMAIN runner' = DOMAIN runner \cup {n} /\ cause'[n] = cause[r]
    BY <1>7, RetriesRun
  <2>2. /\ cause[r].kind = "build" => cause[r].id \in 1 .. builds'
        /\ cause[r].kind = "runner" => cause[r].id \in DOMAIN runner'
    BY <1>3 DEF KnownCause
  <2> QED
    BY <1>4, <2>1, <2>2 DEF KnownCause
<1> QED
  BY <1>5, <1>6, <1>7, NextRows

\* Messages go on telling of different things.
LEMMA NextToldOnce ==
  ASSUME TypeOK, Grounded, NoNews, ToldOnce, [Next]_vars
  PROVE  ToldOnce'
<1> SUFFICES ASSUME NEW t \in Told PROVE Single(t)' /\ Repeats(t)'
  BY DEF ToldOnce
<1> QED
  BY ToldSteps, ToldOnceStep DEF ToldOnce

\* What has triggered something goes on being the only one that could.
LEMMA NextClaims ==
  ASSUME TypeOK, Automatic, Grounded, Steered, NoNews, KnownCause, ToldOnce, Claims, [Next]_vars
  PROVE  Claims'
<1>1. Grown /\ RowsKept
  BY NextRows
<1>2. ASSUME NEW x \in DOMAIN runner, x \notin retries', NEW t \in Told, News(t, cause[x])'
      PROVE  \E s, id : s = cause'[x].id /\ id = runner'[x].ref /\ Claimed(t, s, id)'
  <2>1. x \notin retries /\ runner'[x].ref = runner[x].ref /\ cause'[x] = cause[x]
    BY <1>1, <1>2 DEF RowsKept, Grown
  <2>2. PICK c : c = cause[x] /\ c = cause'[x]
    BY <2>1
  <2>3. News(t, c)
    BY <1>1, <1>2, <2>2 DEF News, KnownCause, Grown
  <2>4. Claimed(t, c.id, runner[x].ref)
    BY <2>1, <2>2, <2>3 DEF Claims
  <2>5. ASSUME NEW m \in Message, Reports(t, m)
        PROVE  m.subject # c.id
    <3>1. CASE t = "ci"
      <4>1. c.id \in 1 .. builds
        BY <2>2, <2>3, <3>1 DEF News, KnownCause
      <4> QED
        BY <2>5, <3>1, <4>1 DEF Reports, TypeOK, ClusterOK
    <3>2. CASE t = "stage"
      <4>1. PICK r \in running : m.subject = r
        BY <2>5, <3>2 DEF Reports
      <4>2. r \in DOMAIN runner /\ runner[r].stage # "DEPLOY"
        BY DEF TypeOK, ClusterOK, Grounded, Staged
      <4>3. Unseen(r)
        BY <4>2 DEF NoNews, Fresh
      <4> QED
        BY <2>2, <2>3, <3>2, <4>1, <4>3 DEF Unseen, News
    <3> QED
      BY <3>1, <3>2 DEF Told
  <2>6. PICK id : id = runner[x].ref /\ Claimed(t, c.id, id)'
    BY <2>4, <2>5, ToldSteps, ClaimedStep
  <2> QED
    BY <2>1, <2>2, <2>6
<1>3. ASSUME NEW w \in Worker, Create(w), NEW n \in DOMAIN runner', n \notin DOMAIN runner,
             NEW t \in Told, News(t, cause[n])'
      PROVE  \E s, id : s = cause'[n].id /\ id = runner'[n].ref /\ Claimed(t, s, id)'
  <2>1. /\ cause'[n] = CauseOf(w) /\ runner'[n].ref = Msg(w).id /\ handler'[w].pc = "submit"
        /\ Msg(w)' = Msg(w)
    BY <1>3, CreatesRun
  <2>2. Triggers(w) /\ UNCHANGED queue /\ ~At(w, "idle")
    BY <1>3 DEF Create, At, Triggers
  <2>3. PICK c : /\ c = CauseOf(w)
                 /\ w = "user" => c.kind = "user"
                 /\ w = "ci" => c.kind = "build" /\ c.id = Msg(w).subject
                 /\ w \in {"stage", "app", "sync"} => c.kind = "runner" /\ c.id \in DOMAIN runner
                 /\ w = "stage" => c.id = Msg(w).subject
                 /\ w \in Observer => runner[c.id].stage = "DEPLOY"
    BY <2>2, CauseKnown
  <2>4. w \in {"ci", "stage", "app", "sync", "user"} /\ t \in {"ci", "stage"} /\ Observer = {"app", "sync"}
    BY DEF Worker, Topic, Told, Observer
  <2>5. c.kind = "runner" => runner'[c.id].stage = runner[c.id].stage
    BY <1>1, <2>3, <2>4 DEF Grown
  <2>6. w = t /\ c.id = Msg(t).subject
    BY <1>3, <2>1, <2>3, <2>4, <2>5 DEF News
  <2>7. \A i \in DOMAIN queue[t] : queue[t][i].subject = c.id =>
          queue[t][i].again /\ queue[t][i].id = Msg(t).id
    BY <2>2, <2>6 DEF ToldOnce, Repeats
  <2>8. Triggers(t)'
    BY <2>1, <2>6 DEF Triggers
  <2>9. PICK id : id = Msg(t).id /\ id = Msg(t)'.id
    BY <2>1, <2>6
  <2>10. Claimed(t, c.id, id)'
    BY <2>2, <2>7, <2>8, <2>9 DEF Claimed
  <2> QED
    BY <2>1, <2>3, <2>6, <2>9, <2>10
<1>4. ASSUME NEW r \in DOMAIN runner, RetryStage(r), NEW n \in DOMAIN runner', n \notin DOMAIN runner
      PROVE  n \in retries'
  <2>1. PICK k \in Nat : DOMAIN runner' = DOMAIN runner \cup {k} /\ k \in retries'
    BY <1>4, RetriesRun
  <2> QED
    BY <1>4, <2>1
<1>5. ASSUME NEW x \in DOMAIN runner', x \notin retries', NEW t \in Told, News(t, cause[x])'
      PROVE  \E s, id : s = cause'[x].id /\ id = runner'[x].ref /\ Claimed(t, s, id)'
  BY <1>2, <1>3, <1>4, <1>5, NextRows
<1>6. ASSUME NEW x \in DOMAIN runner', x \notin retries', NEW t \in Told, News(t, cause[x])'
      PROVE  Claimed(t, cause[x].id, runner[x].ref)'
  BY <1>5, <1>6 DEF Claimed
<1> QED
  BY <1>6 DEF Claims

\* A worker that looks at a stage or a deployment has nothing to trigger yet.
LEMMA LooksOn ==
  ASSUME TypeOK, NEW w \in Worker,
         ReportStage(w) \/ FetchApp(w) \/ CheckApp(w) \/ SaveTimeline(w) \/ RecheckApp(w)
  PROVE  handler'[w].pc \in {"idle", "copy", "check", "timeline", "recheck", "status"}
<1>1. PICK h \in Handler : h = handler[w]
  BY HandlerFacts DEF TypeOK
<1>2. PICK k : /\ handler' = [handler EXCEPT ![w] = k]
               /\ k.pc \in {"idle", "copy", "check", "timeline", "recheck", "status"}
  <2>1. \A pc : [h EXCEPT !.pc = pc].pc = pc
    BY DEF Handler
  <2>2. CASE ReportStage(w)
    <3>1. \/ handler' = [handler EXCEPT ![w] = [h EXCEPT !.pc = "copy"]]
          \/ handler' = [handler EXCEPT ![w] = Idle]
      BY <1>1, <2>2 DEF ReportStage
    <3> QED
      BY <2>1, <3>1, IdleTyped
  <2>3. CASE FetchApp(w)
    <3>1. PICK s, good : s = app[Msg(w).pipeline].subject /\ good = app[Msg(w).pipeline].healthy
      OBVIOUS
    <3>2. \/ handler' = [handler EXCEPT ![w] = Looking(h, s, good)]
          \/ handler' = [handler EXCEPT ![w] = Idle]
      BY <1>1, <2>3, <3>1 DEF FetchApp, Looking
    <3>3. Looking(h, s, good).pc = "check"
      BY DEF Looking, Handler
    <3> QED
      BY <3>2, <3>3, IdleTyped
  <2>4. CASE CheckApp(w)
    <3>1. \/ handler' = [handler EXCEPT ![w] = [h EXCEPT !.pc = "timeline"]]
          \/ handler' = [handler EXCEPT ![w] = [h EXCEPT !.pc = "recheck"]]
          \/ handler' = [handler EXCEPT ![w] = Idle]
      BY <1>1, <2>4 DEF CheckApp
    <3> QED
      BY <2>1, <3>1, IdleTyped
  <2>5. CASE SaveTimeline(w)
    <3>1. handler' = [handler EXCEPT ![w] = [h EXCEPT !.pc = "recheck"]]
      BY <1>1, <2>5 DEF SaveTimeline
    <3> QED
      BY <2>1, <3>1
  <2>6. CASE RecheckApp(w)
    <3>1. \/ handler' = [handler EXCEPT ![w] = [h EXCEPT !.pc = "status"]]
          \/ handler' = [handler EXCEPT ![w] = Idle]
      BY <1>1, <2>6 DEF RecheckApp
    <3> QED
      BY <2>1, <3>1, IdleTyped
  <2> QED
    BY <2>2, <2>3, <2>4, <2>5, <2>6
<1>3. handler'[w] = k
  BY <1>2 DEF TypeOK, HandlersOK
<1> QED
  BY <1>2, <1>3

\* What a worker is about to submit: only creating a runner changes it.
LEMMA HandleMakes ==
  ASSUME TypeOK, Automatic, Grounded, NEW w \in Worker, Handle(w), NEW r \in DOMAIN runner
  PROVE  /\ ~Makes(w, r)'
         /\ \A v \in Worker \ {w} : Makes(v, r)' <=> Makes(v, r)
<1>1. ~At(w, "idle") /\ \A v \in Worker \ {w} : handler'[v] = handler[v]
  BY HandleOnward
<1>2. \A v \in Worker \ {w} : Makes(v, r)' <=> Makes(v, r)
  BY <1>1 DEF Makes, At
<1>3. CASE Create(w)
  <2>1. PICK n \in Nat : n \notin DOMAIN runner /\ handler'[w].made = n
    BY <1>3, CreatesRun
  <2> QED
    BY <1>2, <2>1 DEF Makes
<1>4. ASSUME NEW todo \in Seq(Request), Continue(w, todo)
      PROVE  ~Makes(w, r)'
  <2>1. At(w, "idle")' \/ At(w, "trigger")'
    BY <1>1, <1>4, ContinueOnward
  <2> QED
    BY <2>1 DEF At, Makes
<1>5. CASE Skip(w) \/ SubmitStage(w) \/ Release(w) \/ SubmitFails(w)
  BY <1>2, <1>4, <1>5, RestSpread
<1>6. CASE HandleCiSuccess(w) \/ SaveCopies(w) \/ WriteStatus(w)
  BY <1>2, <1>4, <1>6, SuccessContinues
<1>7. CASE ReportStage(w) \/ FetchApp(w) \/ CheckApp(w) \/ SaveTimeline(w) \/ RecheckApp(w)
  BY <1>2, <1>7, LooksOn DEF Makes, At
<1> QED
  BY <1>3, <1>5, <1>6, <1>7 DEF Handle

\* Only creating a runner makes one that is to be submitted, and only submitting
\* it, or a retry, makes a stage run.
LEMMA NextMakes ==
  ASSUME TypeOK, Automatic, Grounded, [Next]_vars, NEW r \in DOMAIN runner
  PROVE  /\ \A w \in Worker : Makes(w, r)' => Makes(w, r)
         /\ r \in running' => r \in running \/ \E w \in Worker : Makes(w, r) /\ SubmitStage(w)
<1>1. ASSUME UNCHANGED handler
      PROVE  \A w \in Worker : Makes(w, r)' => Makes(w, r)
  BY <1>1 DEF Makes, At
<1>2. ASSUME NEW w \in Worker, Handle(w)
      PROVE  \A v \in Worker : Makes(v, r)' => Makes(v, r)
  BY <1>2, HandleMakes
<1>3. ASSUME NEW w \in Worker, Handle(w)
      PROVE  UNCHANGED running \/ (SubmitStage(w) /\ running' = running \cup {handler[w].made})
  BY <1>3 DEF Handle, Skip, Create, SubmitStage, Release, SubmitFails, HandleCiSuccess,
              ReportStage, SaveCopies, FetchApp, CheckApp, SaveTimeline, RecheckApp, WriteStatus, cluster
<1>4. ASSUME NEW w \in Worker, SubmitStage(w), r = handler[w].made
      PROVE  Makes(w, r)
  BY <1>4 DEF SubmitStage, Makes
<1>5. ASSUME NEW t \in Topic, Take(t)
      PROVE  \A w \in Worker : Makes(w, r)' => Makes(w, r)
  <2>1. CASE UNCHANGED handler
    BY <1>1, <2>1
  <2>2. CASE ~UNCHANGED handler
    <3>1. PICK pc \in {"check", "begin"} : pc = IF t = "app" THEN "check" ELSE "begin"
      OBVIOUS
    <3>2. PICK k : k = Taken(pc, Head(queue[t]))
      OBVIOUS
    <3>3. handler' = [handler EXCEPT ![t] = k] /\ t \in Worker
      BY <1>5, <2>2, <3>1, <3>2 DEF Take, Taken, Worker
    <3>5. k.pc = pc
      BY <3>2 DEF Taken
    <3>4. \A w \in Worker : handler'[w] = IF w = t THEN k ELSE handler[w]
      BY <3>3 DEF TypeOK, HandlersOK
    <3> QED
      BY <3>4, <3>5 DEF Makes, At
  <2> QED
    BY <2>1, <2>2
<1>6. ASSUME NEW p, NEW s, NEW a, NEW wf, UserTriggers(p, s, a, wf)
      PROVE  \A w \in Worker : Makes(w, r)' => Makes(w, r)
  <2>1. PICK act : act = CASE s = "PRE" -> "userPRE" [] s = "DEPLOY" -> "userDEPLOY" [] s = "POST" -> "userPOST"
    OBVIOUS
  <2>2. PICK todo : todo = <<[act |-> act, pipeline |-> p, artifact |-> a, workflow |-> wf]>>
    OBVIOUS
  <2>3. Continue("user", todo)
    BY <1>6, <2>1, <2>2 DEF UserTriggers
  <2>4. PICK h \in Handler : h = handler["user"]
    BY HandlerFacts DEF TypeOK, Worker
  <2>5. PICK k : k = IF todo = <<>> THEN Idle ELSE [h EXCEPT !.pc = "trigger", !.todo = todo, !.made = 0]
    OBVIOUS
  <2>6. k.pc \in {"idle", "trigger"}
    BY <2>5, IdleTyped DEF Handler
  <2>7. handler' = [handler EXCEPT !["user"] = k]
    BY <2>3, <2>4, <2>5 DEF Continue
  <2>8. \A w \in Worker : handler'[w] = IF w = "user" THEN k ELSE handler[w]
    BY <2>7 DEF TypeOK, HandlersOK
  <2> QED
    BY <2>6, <2>8 DEF Makes, At
<1>7. CASE Crash
  <2>1. \A w \in Worker : handler'[w] = Idle
    BY <1>7 DEF Crash
  <2>2. \A w \in Worker : ~At(w, "submit")'
    BY <2>1, IdleTyped DEF At
  <2> QED
    BY <1>7, <2>2 DEF Makes, Crash, cluster
<1>8. ASSUME NEW x \in DOMAIN runner, RetryStage(x)
      PROVE  r \in running' => r \in running
  <2>1. PICK n \in Nat : n \notin DOMAIN runner /\ running' = (running \ {x}) \cup {n}
    BY <1>8, RetriesRun
  <2> QED
    BY <2>1
<1>9. /\ Cluster => UNCHANGED handler /\ running' \subseteq running
      /\ \A t \in Topic : Redeliver(t) => UNCHANGED <<handler, running>>
      /\ \A t \in Topic : Take(t) => UNCHANGED running
      /\ \A x \in DOMAIN runner : RetryStage(x) => UNCHANGED handler
      /\ \A p \in Pipeline : SyncByCron(p) => UNCHANGED <<handler, running>>
      /\ \A p, s, a, wf : UserTriggers(p, s, a, wf) => UNCHANGED running
      /\ Crash => UNCHANGED running
  BY DEF Cluster, BuildSucceeds, StageEnds, AppHealthy, Resend, Redeliver, Take, RetryStage,
         SyncByCron, UserTriggers, Crash, cluster
<1>10. UNCHANGED vars => UNCHANGED <<handler, running>>
  BY DEF vars, cluster
<1>11. \A w \in Worker : Makes(w, r)' => Makes(w, r)
  BY <1>1, <1>2, <1>5, <1>6, <1>7, <1>9, <1>10 DEF Next
<1>12. r \in running' => r \in running \/ \E w \in Worker : SubmitStage(w) /\ r = handler[w].made
  BY <1>3, <1>8, <1>9, <1>10 DEF Next
<1> QED
  BY <1>4, <1>11, <1>12

\* A stage is submitted once.
LEMMA NextMadeOnce ==
  ASSUME TypeOK, Automatic, Grounded, MadeOnce, [Next]_vars
  PROVE  MadeOnce'
<1>1. ASSUME NEW r \in DOMAIN runner, NEW w \in Worker, Makes(w, r)'
      PROVE  r \notin running' /\ \A v \in Worker \ {w} : ~Makes(v, r)'
  <2>1. Makes(w, r) /\ \A v \in Worker : Makes(v, r)' => Makes(v, r)
    BY <1>1, NextMakes
  <2>2. r \notin running /\ \A v \in Worker \ {w} : ~Makes(v, r)
    BY <2>1 DEF MadeOnce
  <2>3. ASSUME r \in running'
        PROVE  FALSE
    <3>1. PICK v \in Worker : Makes(v, r) /\ SubmitStage(v)
      BY <2>2, <2>3, NextMakes
    <3>2. ~Makes(v, r)'
      BY <3>1, HandleMakes DEF Handle
    <3> QED
      BY <1>1, <2>2, <3>1, <3>2
  <2> QED
    BY <2>1, <2>2, <2>3
<1>2. ASSUME NEW w \in Worker, Create(w), NEW n \in DOMAIN runner', n \notin DOMAIN runner,
             NEW u \in Worker, Makes(u, n)'
      PROVE  n \notin running' /\ \A v \in Worker \ {u} : ~Makes(v, n)'
  <2>1. UNCHANGED running /\ running \subseteq DOMAIN runner
    BY <1>2 DEF Create, cluster, TypeOK, ClusterOK
  <2>2. \A v \in Worker \ {w} : handler'[v] = handler[v]
    BY <1>2, HandleOnward DEF Handle
  <2>3. \A v \in Worker : Makes(v, n) => n \in DOMAIN runner
    BY DEF Makes, At, TypeOK, HandlersOK, HandlerOK
  <2>4. \A v \in Worker \ {w} : ~Makes(v, n)'
    BY <1>2, <2>2, <2>3 DEF Makes, At
  <2> QED
    BY <1>2, <2>1, <2>4
<1>3. ASSUME NEW r \in DOMAIN runner, RetryStage(r), NEW n \in DOMAIN runner', n \notin DOMAIN runner,
             NEW u \in Worker
      PROVE  ~Makes(u, n)'
  <2>1. UNCHANGED handler
    BY <1>3 DEF RetryStage
  <2>2. Makes(u, n) => n \in DOMAIN runner
    BY DEF Makes, At, TypeOK, HandlersOK, HandlerOK
  <2> QED
    BY <1>3, <2>1, <2>2 DEF Makes, At
<1>4. ASSUME NEW r \in DOMAIN runner', NEW w \in Worker, Makes(w, r)'
      PROVE  r \notin running' /\ \A v \in Worker \ {w} : ~Makes(v, r)'
  BY <1>1, <1>2, <1>3, <1>4, NextRows
<1> QED
  BY <1>4 DEF MadeOnce

\* A stage that has not ended yet had not ended before.
LEMMA NextFresh ==
  ASSUME TypeOK, Automatic, Grounded, MadeOnce, [Next]_vars, NEW r \in DOMAIN runner, Fresh(r)'
  PROVE  Fresh(r) /\ \A good \in BOOLEAN : ~StageEnds(r, good)
<1>1. Fresh(r)
  <2>1. CASE r \in running'
    BY <2>1, NextMakes DEF Fresh
  <2>2. CASE \E w \in Worker : Makes(w, r)'
    BY <2>2, NextMakes DEF Fresh
  <2> QED
    BY <2>1, <2>2 DEF Fresh
<1>2. ASSUME NEW good \in BOOLEAN, StageEnds(r, good)
      PROVE  FALSE
  <2>1. r \in running /\ r \notin running' /\ UNCHANGED handler
    BY <1>2 DEF StageEnds
  <2>2. PICK w \in Worker : Makes(w, r)
    BY <2>1, NextMakes DEF Fresh
  <2> QED
    BY <2>1, <2>2 DEF MadeOnce
<1> QED
  BY <1>1, <1>2

\* Nobody has heard of a stage that has not ended yet.
LEMMA NextNoNews ==
  ASSUME TypeOK, Automatic, Grounded, Steered, MadeOnce, NoNews, KnownCause, [Next]_vars
  PROVE  NoNews'
<1>1. Grown
  BY NextRows
<1>2. "stage" \in Told /\ "stage" \in Worker
  BY DEF Told, Worker, Topic
<1>3. ASSUME NEW r \in DOMAIN runner', runner'[r].stage # "DEPLOY",
             \A x \in DOMAIN runner : cause[x].kind = "runner" => cause[x].id # r,
             NEW w \in Worker, Triggers(w),
             ~At("stage", "idle") => Msg("stage").subject # r,
             r \in DOMAIN runner => runner[r].stage # "DEPLOY"
      PROVE  CauseOf(w).kind = "runner" => CauseOf(w).id # r
  <2>1. PICK c : /\ c = CauseOf(w)
                 /\ w = "user" => c.kind = "user"
                 /\ w = "ci" => c.kind = "build"
                 /\ w \in {"stage", "app", "sync"} => c.kind = "runner" /\ c.id \in DOMAIN runner
                 /\ w = "stage" => c.id = Msg(w).subject
                 /\ w \in Observer => runner[c.id].stage = "DEPLOY"
    BY <1>3, CauseKnown
  <2>2. w \in {"ci", "stage", "app", "sync", "user"} /\ Observer = {"app", "sync"}
    BY DEF Worker, Topic, Observer
  <2>3. ~At(w, "idle")
    BY <1>3 DEF Triggers, At
  <2> QED
    BY <1>3, <2>1, <2>2, <2>3
<1>4. ASSUME NEW r \in DOMAIN runner', runner'[r].stage # "DEPLOY",
             r \in DOMAIN runner => runner[r].stage # "DEPLOY",
             Unseen(r), \A good \in BOOLEAN : ~StageEnds(r, good)
      PROVE  Unseen(r)'
  <2>1. /\ \A i \in DOMAIN queue["stage"] : queue["stage"][i].subject # r
        /\ ~At("stage", "idle") => Msg("stage").subject # r
        /\ \A x \in DOMAIN runner : cause[x].kind = "runner" => cause[x].id # r
    BY <1>4 DEF Unseen
  <2>2. \A m \in Message : Reports("stage", m) => m.subject # r
    BY <1>4 DEF Reports
  <2>3. /\ \A i \in DOMAIN queue'["stage"] : queue'["stage"][i].subject # r
        /\ ~At("stage", "idle")' => Msg("stage")'.subject # r
    BY <1>2, <2>1, <2>2, ToldSteps, UnheardStep
  <2>4. \A x \in DOMAIN runner : cause'[x].kind = "runner" => cause'[x].id # r
    BY <1>1, <2>1 DEF Grown
  <2>5. ASSUME NEW w \in Worker, Create(w)
        PROVE  \A x \in DOMAIN runner' : cause'[x].kind = "runner" => cause'[x].id # r
    <3>1. PICK n \in Nat : DOMAIN runner' = DOMAIN runner \cup {n} /\ cause'[n] = CauseOf(w)
      BY <2>5, CreatesRun
    <3>2. Triggers(w)
      BY <2>5 DEF Create, At, Triggers
    <3>3. CauseOf(w).kind = "runner" => CauseOf(w).id # r
      BY <1>3, <1>4, <2>1, <3>2
    <3> QED
      BY <2>4, <3>1, <3>3
  <2>6. ASSUME NEW x \in DOMAIN runner, RetryStage(x)
        PROVE  \A y \in DOMAIN runner' : cause'[y].kind = "runner" => cause'[y].id # r
    <3>1. PICK n \in Nat : DOMAIN runner' = DOMAIN runner \cup {n} /\ cause'[n] = cause[x]
      BY <2>6, RetriesRun
    <3> QED
      BY <2>1, <2>4, <3>1
  <2>7. \A x \in DOMAIN runner' : cause'[x].kind = "runner" => cause'[x].id # r
    BY <2>4, <2>5, <2>6, NextRows
  <2> QED
    BY <2>3, <2>7 DEF Unseen
<1>5. ASSUME NEW r \in DOMAIN runner, Fresh(r)', runner'[r].stage # "DEPLOY"
      PROVE  Unseen(r)'
  <2>1. Fresh(r) /\ \A good \in BOOLEAN : ~StageEnds(r, good)
    BY <1>5, NextFresh
  <2>2. runner[r].stage # "DEPLOY" /\ r \in DOMAIN runner'
    BY <1>1, <1>5 DEF Grown
  <2>3. Unseen(r)
    BY <2>1, <2>2 DEF NoNews
  <2> QED
    BY <1>4, <1>5, <2>1, <2>2, <2>3
<1>6. ASSUME NEW r \in DOMAIN runner', r \notin DOMAIN runner, runner'[r].stage # "DEPLOY"
      PROVE  Unseen(r)'
  <2>1. \A i \in DOMAIN queue["stage"] : queue["stage"][i].subject # r
    BY <1>2, <1>6, KnownSubjects DEF MessageOK
  <2>2. ~At("stage", "idle") => Msg("stage").subject # r
    BY <1>2, <1>6, KnownSubjects DEF MessageOK
  <2>3. \A x \in DOMAIN runner : cause[x].kind = "runner" => cause[x].id # r
    BY <1>6 DEF KnownCause
  <2>4. \A good \in BOOLEAN : ~StageEnds(r, good)
    BY <1>6 DEF StageEnds, TypeOK, ClusterOK
  <2>5. Unseen(r)
    BY <2>1, <2>2, <2>3 DEF Unseen
  <2> QED
    BY <1>4, <1>6, <2>4, <2>5
<1>7. ASSUME NEW r \in DOMAIN runner', Fresh(r)', runner'[r].stage # "DEPLOY"
      PROVE  Unseen(r)'
  BY <1>5, <1>6, <1>7
<1> QED
  BY <1>7 DEF NoNews

\* Saving a timeline makes a worker one that has found its deployment healthy; it
\* goes on as one, and nothing else makes it one.
LEMMA SavesPast ==
  ASSUME TypeOK, Steered, NEW w \in Worker, SaveTimeline(w)
  PROVE  \E r \in DOMAIN runner :
           /\ r = handler[w].subject /\ w \in Observer
           /\ runner'[r].healthy = runner[r].healthy + 1
           /\ \A x \in DOMAIN runner \ {r} : runner'[x].healthy = runner[x].healthy
           /\ DOMAIN runner' = DOMAIN runner /\ UNCHANGED <<cause, retries>>
           /\ \A v \in Worker \ {w} : handler'[v] = handler[v]
           /\ handler'[w].subject = r
<1>1. PICK h \in Handler : h = handler[w] /\ Steady(w, h) /\ h.pc = "timeline"
  BY NowSteady DEF SaveTimeline, At
<1>2. w \in Observer
  BY <1>1 DEF Steady, Places, Observer
<1>3. PICK r \in DOMAIN runner : r = h.subject
  BY <1>1, <1>2 DEF Steady
<1>4. PICK new : new = [runner[r] EXCEPT !.healthy = runner[r].healthy + 1]
  OBVIOUS
<1>5. new.healthy = runner[r].healthy + 1
  BY <1>4, UpdateRefs DEF TypeOK, RowsOK
<1>6. runner' = [runner EXCEPT ![r] = new]
  BY <1>1, <1>3, <1>4 DEF SaveTimeline
<1>7. DOMAIN runner' = DOMAIN runner /\ \A x \in DOMAIN runner : runner'[x] = IF x = r THEN new ELSE runner[x]
  BY <1>6
<1>8. PICK k : k = [h EXCEPT !.pc = "recheck"]
  OBVIOUS
<1>9. handler' = [handler EXCEPT ![w] = k] /\ k.subject = r
  BY <1>1, <1>3, <1>8 DEF SaveTimeline, Handler
<1>10. \A v \in Worker : handler'[v] = IF v = w THEN k ELSE handler[v]
  BY <1>9 DEF TypeOK, HandlersOK
<1> QED
  BY <1>1, <1>2, <1>3, <1>5, <1>7, <1>9, <1>10 DEF SaveTimeline

\* Nothing else makes a worker one that has found its deployment healthy.
LEMMA NextPast ==
  ASSUME TypeOK, Automatic, Grounded, Steered, [Next]_vars, NEW w \in Observer, NEW r,
         Past(w, r)'
  PROVE  \/ SaveTimeline(w)
         \/ Past(w, r) /\ (Reporting(w, r)' => Reporting(w, r))
<1>1. w \in Worker /\ w \in Topic /\ w # "user" /\ w \notin {"ci", "stage"}
  BY DEF Observer, Worker, Topic
<1>2. ASSUME handler'[w] = handler[w]
      PROVE  Past(w, r) /\ (Reporting(w, r)' => Reporting(w, r))
  BY <1>2 DEF Past, Reporting, Found, Triggers, At
<1>3. ~At(w, "idle")'
  BY DEF Past, Found, Triggers, At
<1>4. CASE UNCHANGED handler
  BY <1>2, <1>4
<1>5. ASSUME NEW v \in Worker, Handle(v)
      PROVE  SaveTimeline(w) \/ (Past(w, r) /\ (Reporting(w, r)' => Reporting(w, r)))
  <2>1. CASE v # w
    BY <1>1, <1>2, <1>5, <2>1, HandleOnward
  <2>2. CASE v = w
    <3>1. ~At(w, "idle")
      BY <1>5, <2>2, HandleOnward
    <3>2. PICK h \in Handler : h = handler[w]
      BY <1>1, HandlerFacts DEF TypeOK
    <3>3. ASSUME NEW todo \in Seq(Request), Continue(w, todo)
          PROVE  handler'[w].subject = handler[w].subject /\ ~Found(w)'
      <4>1. At(w, "trigger")' /\ handler'[w].subject = handler[w].subject
        BY <1>1, <1>3, <3>1, <3>3, ContinueOnward
      <4> QED
        BY <4>1 DEF At, Found
    <3>4. CASE Skip(w) \/ SubmitStage(w) \/ Release(w) \/ SubmitFails(w)
      <4>1. Triggers(w) /\ handler'[w].subject = handler[w].subject /\ ~Found(w)'
        BY <1>1, <3>3, <3>4, RestSpread
      <4> QED
        BY <4>1 DEF Past, Reporting
    <3>5. CASE Create(w)
      <4>1. handler'[w].pc = "submit" /\ handler'[w].subject = handler[w].subject
        BY <1>1, <3>5, CreatesRun
      <4>2. Triggers(w)
        BY <3>5 DEF Create, At, Triggers
      <4> QED
        BY <4>1, <4>2 DEF Past, Reporting, Found, At
    <3>6. CASE WriteStatus(w)
      <4>1. handler'[w].subject = handler[w].subject /\ ~Found(w)'
        BY <1>1, <3>3, <3>6, SuccessContinues
      <4>2. handler[w].good
        <5>1. ASSUME ~handler[w].good
              PROVE  FALSE
          <6>1. handler' = [handler EXCEPT ![w] = Idle]
            BY <3>6, <5>1 DEF WriteStatus, Continue
          <6>2. handler'[w] = Idle
            BY <1>1, <6>1 DEF TypeOK, HandlersOK
          <6> QED
            BY <1>3, <6>2, IdleTyped DEF At
        <5> QED
          BY <5>1
      <4> QED
        BY <3>6, <4>1, <4>2 DEF Past, Reporting, Found, At, WriteStatus
    <3>7. ASSUME NEW k, handler' = [handler EXCEPT ![w] = k],
                 k.pc \in {"idle", "check", "timeline"} \/ (k.pc \in {"recheck", "status"} /\ ~k.good)
          PROVE  FALSE
      <4>1. handler'[w] = k
        BY <1>1, <3>7 DEF TypeOK, HandlersOK
      <4>2. k.pc \in {"trigger", "submit"} \/ (k.pc \in {"recheck", "status"} /\ k.good)
        BY <4>1 DEF Past, Found, Triggers, At
      <4> QED
        BY <3>7, <4>2
    <3>8. CASE FetchApp(w)
      <4>1. PICK s, good : s = app[Msg(w).pipeline].subject /\ good = app[Msg(w).pipeline].healthy
        OBVIOUS
      <4>2. \/ handler' = [handler EXCEPT ![w] = Looking(h, s, good)]
            \/ handler' = [handler EXCEPT ![w] = Idle]
        BY <3>2, <3>8, <4>1 DEF FetchApp, Looking
      <4>3. Looking(h, s, good).pc = "check"
        BY DEF Looking, Handler
      <4> QED
        BY <3>7, <4>2, <4>3, IdleTyped
    <3>9. CASE CheckApp(w)
      <4>1. \/ handler' = [handler EXCEPT ![w] = [h EXCEPT !.pc = "timeline"]]
            \/ handler' = [handler EXCEPT ![w] = [h EXCEPT !.pc = "recheck"]] /\ ~h.good
            \/ handler' = [handler EXCEPT ![w] = Idle]
        BY <3>2, <3>9 DEF CheckApp
      <4>2. \A pc : [h EXCEPT !.pc = pc].pc = pc /\ [h EXCEPT !.pc = pc].good = h.good
        BY DEF Handler
      <4> QED
        BY <3>7, <4>1, <4>2, IdleTyped
    <3>10. ~HandleCiSuccess(w) /\ ~ReportStage(w)
      BY <1>1 DEF HandleCiSuccess, ReportStage
    <3>11. ~SaveCopies(w)
      <4>1. PICK g \in Handler : g = handler[w] /\ Steady(w, g)
        BY <1>1, NowSteady
      <4>2. g.pc # "copy"
        BY <1>1, <4>1 DEF Steady, Places, Observer
      <4> QED
        BY <4>1, <4>2 DEF SaveCopies, At
    <3>12. CASE RecheckApp(w)
      <4>1. handler' = [handler EXCEPT ![w] = [h EXCEPT !.pc = "status"]]
        <5>1. CASE handler' = [handler EXCEPT ![w] = Idle]
          BY <3>7, <5>1, IdleTyped
        <5> QED
          BY <3>2, <3>12, <5>1 DEF RecheckApp
      <4>2. PICK k : k = [h EXCEPT !.pc = "status"]
        OBVIOUS
      <4>3. k.pc = "status" /\ k.subject = h.subject /\ k.good = h.good
        BY <4>2 DEF Handler
      <4>4. handler'[w] = k
        BY <1>1, <4>1, <4>2 DEF TypeOK, HandlersOK
      <4> QED
        BY <3>2, <3>12, <4>3, <4>4 DEF Past, Reporting, Found, Triggers, RecheckApp, At
    <3> QED
      BY <1>5, <2>2, <3>4, <3>5, <3>6, <3>8, <3>9, <3>10, <3>11, <3>12 DEF Handle
  <2> QED
    BY <2>1, <2>2
<1>6. ASSUME NEW t \in Topic, Take(t)
      PROVE  Past(w, r) /\ (Reporting(w, r)' => Reporting(w, r))
  <2>1. CASE handler'[w] = handler[w]
    BY <1>2, <2>1
  <2>2. CASE handler'[w] # handler[w]
    <3>1. PICK pc \in {"check", "begin"} : pc = IF t = "app" THEN "check" ELSE "begin"
      OBVIOUS
    <3>2. PICK k : k = Taken(pc, Head(queue[t]))
      OBVIOUS
    <3>3. handler' = [handler EXCEPT ![t] = k] /\ t \in Worker
      BY <1>6, <2>2, <3>1, <3>2 DEF Take, Taken, Worker
    <3>4. k.pc = pc
      BY <3>2 DEF Taken
    <3>5. \A v \in Worker : handler'[v] = IF v = t THEN k ELSE handler[v]
      BY <3>3 DEF TypeOK, HandlersOK
    <3>6. handler'[w] = k
      BY <1>1, <2>2, <3>5
    <3> QED
      BY <3>1, <3>4, <3>6 DEF Past, Found, Triggers, At
  <2> QED
    BY <2>1, <2>2
<1>7. ASSUME NEW p, NEW s, NEW a, NEW wf, UserTriggers(p, s, a, wf)
      PROVE  Past(w, r) /\ (Reporting(w, r)' => Reporting(w, r))
  <2>1. PICK k : handler' = [handler EXCEPT !["user"] = k]
    BY <1>7 DEF UserTriggers, Continue
  <2>2. handler'[w] = handler[w]
    BY <1>1, <2>1 DEF TypeOK, HandlersOK
  <2> QED
    BY <1>2, <2>2
<1>8. ~Crash
  <2>1. Crash => handler'[w] = Idle
    BY <1>1 DEF Crash
  <2> QED
    BY <1>3, <2>1, IdleTyped DEF At
<1>9. /\ Cluster => UNCHANGED handler
      /\ \A t \in Topic : Redeliver(t) => UNCHANGED handler
      /\ \A x \in DOMAIN runner : RetryStage(x) => UNCHANGED handler
      /\ \A p \in Pipeline : SyncByCron(p) => UNCHANGED handler
  BY DEF Cluster, BuildSucceeds, StageEnds, AppHealthy, Resend, Redeliver, RetryStage, SyncByCron
<1>10. UNCHANGED vars => UNCHANGED handler
  BY DEF vars
<1> QED
  BY <1>4, <1>5, <1>6, <1>7, <1>8, <1>9, <1>10 DEF Next

\* Whoever saw a deployment healthy has left a timeline.
LEMMA NextObserved ==
  ASSUME TypeOK, Automatic, Grounded, Steered, KnownCause, Observed, [Next]_vars
  PROVE  Observed'
<1>1. Grown /\ RowsKept
  BY NextRows
<1>2. \A w \in Observer : w \in {"app", "sync"} /\ w \in Worker
  BY DEF Observer, Worker, Topic
<1>3. ASSUME NEW r \in DOMAIN runner
      PROVE  /\ runner[r].healthy \in Nat /\ runner'[r].healthy \in Nat
             /\ runner[r].healthy <= runner'[r].healthy
  BY <1>1 DEF RowsKept
<1>4. ASSUME NEW r \in DOMAIN runner, Seen(r), NEW w \in Worker, SaveTimeline(w), handler[w].subject = r
      PROVE  Seen(r)'
  <2>1. /\ w \in Observer /\ runner'[r].healthy = runner[r].healthy + 1
        /\ UNCHANGED <<cause, retries>> /\ DOMAIN runner' = DOMAIN runner
        /\ \A v \in Worker \ {w} : handler'[v] = handler[v]
    BY <1>4, SavesPast
  <2>2. ASSUME NEW v \in Observer, v # w
        PROVE  /\ Past(v, r)' => Past(v, r)
               /\ Reporting(v, r)' => Reporting(v, r)
    <3>1. handler'[v] = handler[v]
      BY <1>2, <2>1, <2>2
    <3> QED
      BY <3>1 DEF Past, Reporting, Found, Triggers, At
  <2>3. PICK k \in Nat : k = runner[r].healthy /\ runner'[r].healthy = k + 1
    BY <1>3, <2>1
  <2>4. /\ \A v \in Observer : v # w /\ Past(v, r)' => k >= 1
        /\ \A x \in DOMAIN runner : FromDeployment(x, r) => k >= 1
    BY <1>4, <2>2, <2>3 DEF Seen
  <2>5. \A x \in DOMAIN runner : FromDeployment(x, r)' => FromDeployment(x, r)
    BY <2>1 DEF FromDeployment
  <2>6. /\ k + 1 >= 1
        /\ k >= 1 => k + 1 >= 2
    BY <2>3
  <2>7. Past("app", r)' /\ Past("sync", r)' => k >= 1
    BY <2>1, <2>4 DEF Observer
  <2> QED
    BY <2>1, <2>3, <2>4, <2>5, <2>6, <2>7 DEF Seen
<1>5. ASSUME NEW r \in DOMAIN runner, Seen(r),
             ~ \E w \in Observer : SaveTimeline(w) /\ handler[w].subject = r
      PROVE  /\ \A w \in Observer : Past(w, r)' => Past(w, r)
             /\ \A w \in Observer : Reporting(w, r)' => Reporting(w, r)
  <2>1. ASSUME NEW w \in Observer, Past(w, r)'
        PROVE  ~SaveTimeline(w)
    <3>1. ASSUME SaveTimeline(w)
          PROVE  FALSE
      <4>1. handler'[w].subject = handler[w].subject
        BY <1>2, <3>1, SavesPast
      <4>2. handler'[w].subject = r
        BY <2>1 DEF Past
      <4> QED
        BY <1>5, <3>1, <4>1, <4>2
    <3> QED
      BY <3>1
  <2>2. \A w \in Observer : Past(w, r)' => Past(w, r) /\ (Reporting(w, r)' => Reporting(w, r))
    BY <2>1, NextPast
  <2>3. \A w \in Observer : Reporting(w, r)' => Past(w, r)'
    BY DEF Reporting, Past, Found
  <2> QED
    BY <2>2, <2>3
<1>6. ASSUME NEW r \in DOMAIN runner, runner[r].stage = "DEPLOY", Seen(r),
             ~ \E w \in Observer : SaveTimeline(w) /\ handler[w].subject = r
      PROVE  Seen(r)'
  <2>1. PICK k \in Nat, k2 \in Nat : k = runner[r].healthy /\ k2 = runner'[r].healthy /\ k <= k2
    BY <1>3
  <2>2. /\ \A w \in Observer : Past(w, r)' => k >= 1
        /\ Past("app", r)' /\ Past("sync", r)' => k >= 2
    BY <1>5, <1>6, <2>1 DEF Seen, Observer
  <2>3. /\ \A x \in DOMAIN runner : FromDeployment(x, r) => k >= 1
        /\ \A x \in DOMAIN runner \ retries, w \in Observer :
             FromDeployment(x, r) /\ Reporting(w, r)' => k >= 2
    BY <1>5, <1>6, <2>1 DEF Seen
  <2>4. \A x \in DOMAIN runner : /\ FromDeployment(x, r)' => FromDeployment(x, r)
                                 /\ x \in retries' <=> x \in retries
    BY <1>1 DEF FromDeployment, Grown, RowsKept
  <2>5. ASSUME NEW v \in Worker, Create(v), NEW n \in DOMAIN runner', n \notin DOMAIN runner,
               FromDeployment(n, r)'
        PROVE  k >= 1 /\ \A w \in Observer : Reporting(w, r)' => k >= 2
    <3>1. cause'[n] = CauseOf(v)
      BY <2>5, CreatesRun
    <3>2. Triggers(v)
      BY <2>5 DEF Create, At, Triggers
    <3>3. PICK c : /\ c = CauseOf(v)
                   /\ v = "user" => c.kind = "user"
                   /\ v = "ci" => c.kind = "build"
                   /\ v \in {"stage", "app", "sync"} => c.kind = "runner" /\ c.id = handler[v].subject
                   /\ v = "stage" => runner[c.id].stage # "DEPLOY"
      BY <3>2, CauseKnown
    <3>4. v \in {"app", "sync"} /\ handler[v].subject = r
      BY <1>6, <2>5, <3>1, <3>3 DEF FromDeployment, Worker, Topic
    <3>5. Past(v, r) /\ v \in Observer
      BY <3>2, <3>4 DEF Past, Observer
    <3>6. k >= 1
      BY <1>6, <2>1, <3>5 DEF Seen
    <3>7. ASSUME NEW w \in Observer, Reporting(w, r)'
          PROVE  k >= 2
      <4>1. Reporting(w, r) /\ Past(w, r)
        BY <1>5, <1>6, <3>7 DEF Reporting, Past, Found
      <4>2. w # v
        BY <3>2, <4>1 DEF Reporting, Found, Triggers, At
      <4>3. Past("app", r) /\ Past("sync", r)
        BY <3>4, <3>5, <4>1, <4>2 DEF Observer
      <4> QED
        BY <1>6, <2>1, <4>3 DEF Seen
    <3> QED
      BY <3>6, <3>7
  <2>6. ASSUME NEW x \in DOMAIN runner, RetryStage(x), NEW n \in DOMAIN runner', n \notin DOMAIN runner
        PROVE  n \in retries' /\ (FromDeployment(n, r)' => k >= 1)
    <3>1. PICK m \in Nat : DOMAIN runner' = DOMAIN runner \cup {m} /\ m \in retries' /\ cause'[m] = cause[x]
      BY <2>6, RetriesRun
    <3>2. n = m
      BY <2>6, <3>1
    <3>3. FromDeployment(n, r)' => FromDeployment(x, r)
      BY <3>1, <3>2 DEF FromDeployment
    <3> QED
      BY <2>3, <3>1, <3>2, <3>3
  <2>7. \A x \in DOMAIN runner' : /\ FromDeployment(x, r)' => k >= 1
                                  /\ x \notin retries' => \A w \in Observer :
                                       FromDeployment(x, r)' /\ Reporting(w, r)' => k >= 2
    BY <2>3, <2>4, <2>5, <2>6, NextRows
  <2>8. (k >= 1 => k2 >= 1) /\ (k >= 2 => k2 >= 2)
    BY <2>1
  <2> QED
    BY <2>1, <2>2, <2>7, <2>8 DEF Seen
<1>7. ASSUME NEW r \in DOMAIN runner, runner'[r].stage = "DEPLOY"
      PROVE  Seen(r)'
  <2>1. runner[r].stage = "DEPLOY"
    BY <1>1, <1>7 DEF Grown
  <2>2. Seen(r)
    BY <2>1 DEF Observed
  <2> QED
    BY <1>2, <1>4, <1>6, <2>1, <2>2
<1>8. ASSUME NEW r \in DOMAIN runner', r \notin DOMAIN runner
      PROVE  Seen(r)'
  <2>1. ASSUME NEW w \in Observer, Past(w, r)'
        PROVE  FALSE
    <3>1. PICK h \in Handler : h = handler[w] /\ Steady(w, h)
      BY <1>2, NowSteady
    <3>2. h.pc \notin {"idle", "begin"} => h.subject \in DOMAIN runner
      BY <2>1, <3>1 DEF Steady
    <3>3. CASE SaveTimeline(w)
      BY <1>2, <1>8, <2>1, <3>3, SavesPast DEF Past
    <3>4. CASE Past(w, r)
      BY <1>8, <3>1, <3>2, <3>4 DEF Past, Found, Triggers, At
    <3> QED
      BY <2>1, <3>3, <3>4, NextPast
  <2>2. \A w \in Observer : ~Reporting(w, r)'
    BY <2>1 DEF Past, Reporting, Found
  <2>3. \A x \in DOMAIN runner : ~FromDeployment(x, r)'
    BY <1>1, <1>8 DEF FromDeployment, KnownCause, Grown
  <2>4. ASSUME NEW v \in Worker, Create(v), NEW n \in DOMAIN runner', n \notin DOMAIN runner
        PROVE  ~FromDeployment(n, r)'
    <3>1. cause'[n] = CauseOf(v)
      BY <2>4, CreatesRun
    <3>3. Triggers(v)
      BY <2>4 DEF Create, At, Triggers
    <3>2. PICK c : /\ c = CauseOf(v)
                   /\ v = "user" => c.kind = "user"
                   /\ v = "ci" => c.kind = "build"
                   /\ v \in {"stage", "app", "sync"} => c.kind = "runner" /\ c.id \in DOMAIN runner
      BY <3>3, CauseKnown
    <3> QED
      BY <1>8, <3>1, <3>2 DEF FromDeployment, Worker, Topic
  <2>5. ASSUME NEW x \in DOMAIN runner, RetryStage(x), NEW n \in DOMAIN runner', n \notin DOMAIN runner
        PROVE  ~FromDeployment(n, r)'
    <3>1. PICK m \in Nat : DOMAIN runner' = DOMAIN runner \cup {m} /\ cause'[m] = cause[x]
      BY <2>5, RetriesRun
    <3>2. n = m
      BY <2>5, <3>1
    <3> QED
      BY <1>8, <3>1, <3>2 DEF FromDeployment, KnownCause
  <2>6. \A x \in DOMAIN runner' : ~FromDeployment(x, r)'
    BY <2>3, <2>4, <2>5, NextRows
  <2> QED
    BY <2>1, <2>2, <2>6 DEF Seen, Observer
<1>9. ASSUME NEW r \in DOMAIN runner', runner'[r].stage = "DEPLOY"
      PROVE  Seen(r)'
  BY <1>7, <1>8, <1>9
<1> QED
  BY <1>9 DEF Observed

\* What two timelines excuse stays excused.
LEMMA TwiceStays ==
  ASSUME Grown, RowsKept, NEW c, c.kind = "runner" => c.id \in DOMAIN runner, Twice(c)
  PROVE  Twice(c)'
<1>1. c.kind = "runner" /\ c.id \in DOMAIN runner /\ runner[c.id].healthy > 1
  BY DEF Twice
<1>2. PICK k \in Nat, k2 \in Nat :
        k = runner[c.id].healthy /\ k2 = runner'[c.id].healthy /\ k <= k2
  BY <1>1 DEF RowsKept
<1>3. k2 > 1
  BY <1>1, <1>2
<1> QED
  BY <1>1, <1>2, <1>3 DEF Twice

\* When a worker starts to trigger, nothing has been triggered for the same reason,
\* or a deployment has two timelines.
LEMMA StartsNew ==
  ASSUME TypeOK, Grounded, Steered, Claims, Observed, KnownCause, NEW w \in Worker,
         HandleCiSuccess(w) \/ SaveCopies(w) \/ (WriteStatus(w) /\ handler[w].good),
         NEW x \in DOMAIN runner, x \notin retries, cause[x] = CauseOf(w)
  PROVE  Twice(CauseOf(w))
<1>1. PICK h \in Handler : h = handler[w] /\ Steady(w, h)
  BY NowSteady
<1>2. PICK c \in Cause : c = CauseOf(w) /\ c = cause[x]
  BY CauseTyped DEF TypeOK
<1>3. CASE HandleCiSuccess(w)
  <2>1. w = "ci" /\ h.pc = "begin" /\ w \in Told
    BY <1>1, <1>3 DEF HandleCiSuccess, At, Told
  <2>2. c.kind = "build" /\ c.id = h.subject /\ h.subject = Msg(w).subject
    BY <1>1, <1>2, <2>1 DEF CauseOf, Steady, Msg
  <2>3. Claimed(w, c.id, runner[x].ref)
    BY <1>2, <2>1, <2>2 DEF Claims, News
  <2> QED
    BY <1>1, <2>1, <2>2, <2>3 DEF Claimed, Triggers, At
<1>4. CASE SaveCopies(w)
  <2>1. h.pc = "copy"
    BY <1>1, <1>4 DEF SaveCopies, At
  <2>2. w = "stage" /\ w \in Told
    BY <1>1, <2>1 DEF Steady, Places, Told
  <2>3. /\ c.kind = "runner" /\ c.id = h.subject /\ h.subject = Msg(w).subject
        /\ runner[c.id].stage # "DEPLOY"
    BY <1>1, <1>2, <2>1, <2>2 DEF CauseOf, Steady, Msg
  <2>4. Claimed(w, c.id, runner[x].ref)
    BY <1>2, <2>2, <2>3 DEF Claims, News
  <2> QED
    BY <1>1, <2>1, <2>3, <2>4 DEF Claimed, Triggers, At
<1>5. CASE WriteStatus(w) /\ handler[w].good
  <2>1. h.pc = "status" /\ h.good
    BY <1>1, <1>5 DEF WriteStatus, At
  <2>2. w \in Observer
    BY <1>1, <2>1 DEF Steady, Places, Observer
  <2>3. PICK r \in DOMAIN runner : r = h.subject /\ runner[r].stage = "DEPLOY"
    BY <1>1, <2>1, <2>2 DEF Steady
  <2>4. c.kind = "runner" /\ c.id = r
    BY <1>1, <1>2, <2>2, <2>3 DEF CauseOf, Observer
  <2>5. Seen(r)
    BY <2>3 DEF Observed
  <2>6. FromDeployment(x, r) /\ Reporting(w, r)
    BY <1>1, <1>2, <2>1, <2>3, <2>4 DEF FromDeployment, Reporting, Found, At
  <2>7. runner[r].healthy >= 2 /\ runner[r].healthy \in Nat
    <3>1. runner[r].healthy \in Nat
      BY UpdateRefs DEF TypeOK, RowsOK
    <3> QED
      BY <2>2, <2>5, <2>6, <3>1 DEF Seen
  <2>8. runner[r].healthy > 1
    BY <2>7
  <2> QED
    BY <1>2, <2>4, <2>8 DEF Twice
<1> QED
  BY <1>3, <1>4, <1>5

\* A worker that goes on, or starts to trigger, does so with requests for pipelines
\* where nothing was triggered for the same reason.
LEMMA AheadStep ==
  ASSUME TypeOK, Automatic, Grounded, Steered, Claims, Observed, KnownCause, Ahead,
         NEW w \in Topic, Handle(w), Triggers(w)',
         NEW x \in DOMAIN runner, x \notin retries, NEW c, CauseOf(w)' = c, cause[x] = c, ~Twice(c),
         NEW p \in Pipeline, PipelineOf(x) = p
  PROVE  \A todo : todo = handler'[w].todo => Avoids(todo, p)
<1>1. w \in Worker /\ w # "user" /\ handler \in [Worker -> Handler]
  BY DEF Worker, Topic, TypeOK, HandlersOK
<1>2. ~At(w, "idle")
  BY <1>1, HandleOnward
<1>3. PICK h \in Handler : h = handler[w] /\ Steady(w, h)
  BY <1>1, NowSteady
<1>4. handler'[w].subject = h.subject => CauseOf(w)' = CauseOf(w)
  BY <1>3 DEF CauseOf
<1>5. ~At(w, "idle")'
  BY DEF Triggers, At
<1>6. c \in Cause
  BY DEF TypeOK, RowsOK
<1>7. ASSUME Triggers(w), handler'[w].subject = h.subject
      PROVE  Avoids(handler[w].todo, p)
  BY <1>4, <1>6, <1>7 DEF Ahead
<1>8. CASE Skip(w) \/ SubmitStage(w) \/ Release(w) \/ SubmitFails(w)
  <2>1. PICK todo \in Seq(Request) : /\ Continue(w, todo)
                                     /\ \A q : Avoids(handler[w].todo, q) => Avoids(todo, q)
    BY <1>1, <1>8, RestSpread
  <2>2. Triggers(w)
    BY <1>1, <1>8, RestSpread
  <2>3. handler'[w].todo = todo /\ handler'[w].subject = h.subject
    BY <1>1, <1>2, <1>3, <1>5, <2>1, ContinueOnward
  <2> QED
    BY <1>7, <2>1, <2>2, <2>3
<1>9. CASE Create(w)
  <2>1. PICK rest \in Seq(Request) :
          /\ handler'[w].todo = rest /\ handler'[w].subject = handler[w].subject
          /\ \A q : Avoids(handler[w].todo, q) => Avoids(rest, q)
    BY <1>1, <1>9, CreatesRun
  <2>2. Triggers(w)
    BY <1>9 DEF Create, At, Triggers
  <2> QED
    BY <1>3, <1>7, <2>1, <2>2
<1>10. CASE HandleCiSuccess(w) \/ SaveCopies(w) \/ WriteStatus(w)
  <2>1. PICK todo \in Seq(Request) : Continue(w, todo)
    BY <1>1, <1>10, SuccessContinues
  <2>2. handler'[w].subject = h.subject
    BY <1>1, <1>2, <1>3, <1>5, <2>1, ContinueOnward
  <2>3. WriteStatus(w) => handler[w].good
    <3>1. ASSUME WriteStatus(w), ~handler[w].good
          PROVE  FALSE
      <4>1. handler' = [handler EXCEPT ![w] = Idle]
        BY <3>1 DEF WriteStatus, Continue
      <4>2. handler'[w] = Idle
        BY <1>1, <4>1
      <4> QED
        BY <1>5, <4>2, IdleTyped DEF At
    <3> QED
      BY <3>1
  <2>4. Twice(CauseOf(w)) /\ CauseOf(w) = c
    BY <1>1, <1>4, <1>10, <2>2, <2>3, StartsNew
  <2> QED
    BY <2>4
<1>11. ~ReportStage(w) /\ ~FetchApp(w) /\ ~CheckApp(w) /\ ~SaveTimeline(w) /\ ~RecheckApp(w)
  BY <1>1, LooksOn DEF Triggers
<1> QED
  BY <1>8, <1>9, <1>10, <1>11 DEF Handle

\* Only its own steps make a topic's worker go on triggering.
LEMMA TriggersItself ==
  ASSUME TypeOK, [Next]_vars, NEW w \in Topic, Triggers(w)'
  PROVE  handler'[w] = handler[w] \/ Handle(w)
<1>1. w \in Worker /\ w # "user"
  BY DEF Worker, Topic
<1>2. ASSUME NEW v \in Worker, Handle(v)
      PROVE  handler'[w] = handler[w] \/ Handle(w)
  BY <1>1, <1>2, HandleOnward
<1>3. ASSUME NEW t \in Topic, Take(t)
      PROVE  handler'[w] = handler[w]
  <2>1. PICK pc \in {"check", "begin"} : pc = IF t = "app" THEN "check" ELSE "begin"
    OBVIOUS
  <2>2. PICK k : k = Taken(pc, Head(queue[t]))
    OBVIOUS
  <2>3. handler' = handler \/ handler' = [handler EXCEPT ![t] = k]
    BY <1>3, <2>1, <2>2 DEF Take, Taken
  <2>4. k.pc = pc
    BY <2>2 DEF Taken
  <2>5. CASE handler' = [handler EXCEPT ![t] = k]
    <3>1. handler'[w] = IF w = t THEN k ELSE handler[w]
      BY <1>1, <2>5 DEF TypeOK, HandlersOK
    <3> QED
      BY <2>4, <3>1 DEF Triggers
  <2> QED
    BY <2>3, <2>5
<1>4. ASSUME NEW p, NEW s, NEW a, NEW wf, UserTriggers(p, s, a, wf)
      PROVE  handler'[w] = handler[w]
  <2>1. PICK k : handler' = [handler EXCEPT !["user"] = k]
    BY <1>4 DEF UserTriggers, Continue
  <2> QED
    BY <1>1, <2>1 DEF TypeOK, HandlersOK
<1>5. ~Crash
  <2>1. Crash => handler'[w] = Idle
    BY <1>1 DEF Crash
  <2> QED
    BY <2>1, IdleTyped DEF Triggers
<1>6. /\ Cluster => UNCHANGED handler
      /\ \A t \in Topic : Redeliver(t) => UNCHANGED handler
      /\ \A x \in DOMAIN runner : RetryStage(x) => UNCHANGED handler
      /\ \A p \in Pipeline : SyncByCron(p) => UNCHANGED handler
      /\ UNCHANGED vars => UNCHANGED handler
  BY DEF Cluster, BuildSucceeds, StageEnds, AppHealthy, Resend, Redeliver, RetryStage, SyncByCron,
         vars
<1> QED
  BY <1>2, <1>3, <1>4, <1>5, <1>6 DEF Next

\* Two workers trigger for the same reason only if both found a deployment healthy.
LEMMA BothPast ==
  ASSUME TypeOK, Grounded, Steered, Observed, NEW w \in Topic, NEW v \in Worker, w # v,
         Triggers(w), Triggers(v), CauseOf(w) = CauseOf(v)
  PROVE  Twice(CauseOf(w))
<1>1. w \in Worker /\ w \in {"ci", "stage", "app", "sync"} /\ Observer = {"app", "sync"}
      /\ v \in {"ci", "stage", "app", "sync", "user"}
  BY DEF Worker, Topic, Observer
<1>2. PICK c : /\ c = CauseOf(w)
               /\ w = "ci" => c.kind = "build"
               /\ w \in {"stage", "app", "sync"} =>
                    c.kind = "runner" /\ c.id = handler[w].subject /\ c.id \in DOMAIN runner
               /\ w = "stage" => runner[c.id].stage # "DEPLOY"
               /\ w \in Observer => runner[c.id].stage = "DEPLOY"
  BY <1>1, CauseKnown
<1>3. PICK d : /\ d = CauseOf(v)
               /\ v = "user" => d.kind = "user"
               /\ v = "ci" => d.kind = "build"
               /\ v \in {"stage", "app", "sync"} => d.kind = "runner" /\ d.id = handler[v].subject
               /\ v = "stage" => runner[d.id].stage # "DEPLOY"
               /\ v \in Observer => runner[d.id].stage = "DEPLOY"
  BY CauseKnown
<1>4. w \in {"app", "sync"} /\ v \in {"app", "sync"}
  BY <1>1, <1>2, <1>3
<1>5. PICK r \in DOMAIN runner : r = c.id /\ runner[r].stage = "DEPLOY"
  BY <1>1, <1>2, <1>4
<1>6. Past("app", r) /\ Past("sync", r)
  BY <1>2, <1>3, <1>4, <1>5 DEF Past
<1>7. runner[r].healthy \in Nat
  BY UpdateRefs DEF TypeOK, RowsOK
<1>8. runner[r].healthy >= 2
  BY <1>5, <1>6 DEF Observed, Seen
<1>9. runner[r].healthy > 1
  BY <1>7, <1>8
<1> QED
  BY <1>2, <1>4, <1>5, <1>9 DEF Twice

\* What is left to do stays apart from what was done.
LEMMA NextAhead ==
  ASSUME TypeOK, Automatic, Grounded, Steered, Claims, Observed, KnownCause, Ahead, [Next]_vars
  PROVE  Ahead'
<1>1. Grown /\ RowsKept
  BY NextRows
<1>2. ASSUME NEW x \in DOMAIN runner, x \notin retries', NEW w \in Topic, NEW c \in Cause,
             NEW p \in Pipeline, Triggers(w)', CauseOf(w)' = c, cause'[x] = c, ~Twice(c)',
             PipelineOf(x)' = p
      PROVE  \A todo : todo = handler'[w].todo => Avoids(todo, p)
  <2>1. x \notin retries /\ cause[x] = c
    BY <1>1, <1>2 DEF RowsKept, Grown
  <2>2. PipelineOf(x) = p
    BY <1>1, <1>2, RunnerSame DEF TypeOK
  <2>3. c.kind = "runner" => c.id \in DOMAIN runner
    BY <2>1 DEF KnownCause
  <2>4. ~Twice(c)
    BY <1>1, <1>2, <2>3, TwiceStays
  <2>5. CASE handler'[w] = handler[w]
    <3>1. Triggers(w) /\ CauseOf(w) = c
      BY <1>2, <2>5 DEF Triggers, CauseOf
    <3> QED
      BY <1>2, <2>1, <2>2, <2>4, <2>5, <3>1 DEF Ahead
  <2>6. CASE Handle(w)
    BY <1>2, <2>1, <2>2, <2>4, <2>6, AheadStep
  <2> QED
    BY <1>2, <2>5, <2>6, TriggersItself
<1>3. ASSUME NEW v \in Worker, Create(v), NEW x \in DOMAIN runner', x \notin DOMAIN runner,
             NEW w \in Topic, NEW c \in Cause,
             NEW p \in Pipeline, Triggers(w)', CauseOf(w)' = c, cause'[x] = c, ~Twice(c)',
             PipelineOf(x)' = p
      PROVE  \A todo : todo = handler'[w].todo => Avoids(todo, p)
  <2>1. PICK q \in Request, rest \in Seq(Request), n \in Nat :
           /\ DOMAIN runner' = DOMAIN runner \cup {n}
           /\ PipelineOf(n)' = q.pipeline /\ cause'[n] = CauseOf(v)
           /\ handler'[v].todo = rest
           /\ Spread(handler[v].todo) => Avoids(rest, q.pipeline)
    BY <1>3, CreatesRun, ZenonT(40)
  <2>2. x = n
    BY <1>3, <2>1
  <2>3. CASE w = v
    <3>1. Spread(handler[v].todo)
      BY NowSteady DEF Steady
    <3> QED
      BY <1>3, <2>1, <2>2, <2>3, <3>1
  <2>4. CASE w # v
    <3>1. handler'[w] = handler[w] /\ w \in Worker
      BY <1>3, <2>4, HandleOnward DEF Handle, Worker, Topic
    <3>2. Triggers(w) /\ CauseOf(w) = c
      BY <1>3, <3>1 DEF Triggers, CauseOf
    <3>3. Triggers(v) /\ CauseOf(v) = c
      <4>1. CauseOf(v) = c
        BY <1>3, <2>1, <2>2
      <4> QED
        BY <1>3, <4>1 DEF Create, At, Triggers
    <3>4. Twice(c)
      BY <2>4, <3>2, <3>3, BothPast
    <3>5. c.kind = "runner" => c.id \in DOMAIN runner
      <4>1. PICK d : /\ d = CauseOf(w)
                     /\ w = "ci" => d.kind = "build"
                     /\ w \in {"stage", "app", "sync"} => d.id \in DOMAIN runner
        BY <3>1, <3>2, CauseKnown
      <4> QED
        BY <3>2, <4>1 DEF Topic
    <3> QED
      BY <1>1, <1>3, <3>4, <3>5, TwiceStays
  <2> QED
    BY <2>3, <2>4
<1>4. ASSUME NEW r \in DOMAIN runner, RetryStage(r), NEW x \in DOMAIN runner', x \notin DOMAIN runner
      PROVE  x \in retries'
  <2>1. PICK k \in Nat : DOMAIN runner' = DOMAIN runner \cup {k} /\ k \in retries'
    BY <1>4, RetriesRun
  <2> QED
    BY <1>4, <2>1
<1>5. ASSUME NEW x \in DOMAIN runner', x \notin retries', NEW w \in Topic, NEW c \in Cause,
             NEW p \in Pipeline, Triggers(w)', CauseOf(w)' = c, cause'[x] = c, ~Twice(c)',
             PipelineOf(x)' = p
      PROVE  \A todo : todo = handler'[w].todo => Avoids(todo, p)
  BY <1>2, <1>3, <1>4, <1>5, NextRows
<1>6. ASSUME NEW x \in DOMAIN runner', x \notin retries', NEW w \in Topic, NEW c \in Cause,
             NEW p \in Pipeline, Triggers(w)', CauseOf(w)' = c, cause'[x] = c, ~Twice(c)',
             PipelineOf(x)' = p
      PROVE  Avoids(handler[w].todo, p)'
  <2>1. PICK todo : todo = handler'[w].todo /\ Avoids(todo, p)
    BY <1>5, <1>6
  <2> QED
    BY <2>1 DEF Avoids
<1> QED
  BY <1>6 DEF Ahead

\* Nothing is triggered twice for the same reason.
LEMMA NextTriggersOnce ==
  ASSUME TypeOK, Automatic, Grounded, Steered, KnownCause, Ahead, TriggersOnce, [Next]_vars
  PROVE  TriggersOnce'
<1>1. Grown /\ RowsKept
  BY NextRows
<1>2. ASSUME NEW c \in Cause, c.kind = "runner" => c.id \in DOMAIN runner, Twice(c)
      PROVE  c.kind = "runner" /\ runner'[c.id].healthy > 1
  <2>1. Twice(c)'
    BY <1>1, <1>2, TwiceStays
  <2> QED
    BY <2>1 DEF Twice
<1>3. ASSUME NEW r \in DOMAIN runner, NEW x \in DOMAIN runner, r # x, cause'[r] = cause'[x],
             cause'[r].kind # "user", PipelineOf(r)' = PipelineOf(x)',
             runner'[r].stage = runner'[x].stage, r \notin retries', x \notin retries'
      PROVE  cause'[r].kind = "runner" /\ runner'[cause'[r].id].healthy > 1
  <2>1. /\ cause[r] = cause[x] /\ cause'[r] = cause[r] /\ runner[r].stage = runner[x].stage
        /\ r \notin retries /\ x \notin retries
    BY <1>1, <1>3 DEF Grown, RowsKept
  <2>2. PipelineOf(r) = PipelineOf(x)
    BY <1>1, <1>3, RunnerSame DEF TypeOK
  <2>3. PICK c \in Cause : c = cause[r]
    BY DEF TypeOK, RowsOK
  <2>4. Twice(c)
    BY <1>3, <2>1, <2>2, <2>3 DEF TriggersOnce, ByUser, Twice
  <2>5. c.kind = "runner" => c.id \in DOMAIN runner
    BY <2>3 DEF KnownCause
  <2> QED
    BY <1>2, <2>1, <2>3, <2>4, <2>5
<1>4. ASSUME NEW w \in Worker, Create(w), NEW n \in DOMAIN runner', n \notin DOMAIN runner,
             NEW y \in DOMAIN runner, y \notin retries', cause'[n] = cause'[y],
             cause'[y].kind # "user", PipelineOf(n)' = PipelineOf(y)'
      PROVE  cause'[y].kind = "runner" /\ runner'[cause'[y].id].healthy > 1
  <2>1. PICK q \in Request, m \in Nat :
           /\ DOMAIN runner' = DOMAIN runner \cup {m}
           /\ PipelineOf(m)' = q.pipeline /\ cause'[m] = CauseOf(w)
           /\ \A p : Avoids(handler[w].todo, p) => q.pipeline # p
    BY <1>4, CreatesRun
  <2>2. n = m
    BY <1>4, <2>1
  <2>3. y \notin retries /\ cause'[y] = cause[y]
    BY <1>1, <1>4 DEF Grown, RowsKept
  <2>4. PICK p \in Pipeline : p = PipelineOf(y) /\ p = q.pipeline
    <3>1. PipelineOf(y) \in Pipeline
      BY RunnerFacts DEF TypeOK
    <3>2. PipelineOf(y)' = PipelineOf(y)
      BY <1>1, RunnerSame DEF TypeOK
    <3> QED
      BY <1>4, <2>1, <2>2, <3>1, <3>2
  <2>5. PICK c \in Cause : c = cause[y] /\ c = CauseOf(w)
    <3>1. cause[y] \in Cause
      BY DEF TypeOK, RowsOK
    <3> QED
      BY <1>4, <2>1, <2>2, <2>3, <3>1
  <2>6. w \in Topic
    <3>1. w = "user" => CauseOf(w).kind = "user"
      BY DEF CauseOf
    <3> QED
      BY <1>4, <2>3, <2>5, <3>1 DEF Worker
  <2>7. Triggers(w)
    BY <1>4 DEF Create, At, Triggers
  <2>8. ~Avoids(handler[w].todo, p)
    BY <2>1, <2>4
  <2>9. Twice(c)
    BY <2>3, <2>4, <2>5, <2>6, <2>7, <2>8 DEF Ahead
  <2>10. c.kind = "runner" => c.id \in DOMAIN runner
    BY <2>5 DEF KnownCause
  <2> QED
    BY <1>2, <2>3, <2>5, <2>9, <2>10
<1>5. ASSUME NEW r \in DOMAIN runner, RetryStage(r), NEW n \in DOMAIN runner', n \notin DOMAIN runner
      PROVE  n \in retries'
  <2>1. PICK k \in Nat : DOMAIN runner' = DOMAIN runner \cup {k} /\ k \in retries'
    BY <1>5, RetriesRun
  <2> QED
    BY <1>5, <2>1
<1>6. ASSUME NEW w \in Worker, Create(w), NEW r \in DOMAIN runner', NEW x \in DOMAIN runner',
             r \notin DOMAIN runner, x \notin DOMAIN runner
      PROVE  r = x
  <2>1. PICK k \in Nat : DOMAIN runner' = DOMAIN runner \cup {k}
    BY <1>6, CreatesRun
  <2> QED
    BY <1>6, <2>1
<1>7. ASSUME NEW r \in DOMAIN runner', NEW x \in DOMAIN runner', r # x, cause'[r] = cause'[x],
             cause'[r].kind # "user", PipelineOf(r)' = PipelineOf(x)',
             runner'[r].stage = runner'[x].stage, r \notin retries', x \notin retries'
      PROVE  cause'[r].kind = "runner" /\ runner'[cause'[r].id].healthy > 1
  <2>1. CASE r \in DOMAIN runner /\ x \in DOMAIN runner
    BY <1>3, <1>7, <2>1
  <2>2. CASE \E w \in Worker : Create(w)
    <3>1. r \in DOMAIN runner \/ x \in DOMAIN runner
      BY <1>6, <1>7, <2>2
    <3> QED
      BY <1>4, <1>7, <2>1, <2>2, <3>1
  <2> QED
    BY <1>5, <1>7, <2>1, <2>2, NextRows
<1> QED
  BY <1>7 DEF TriggersOnce, ByUser

\* The invariant is inductive.
LEMMA NextOnceInv ==
  DistinctChildren /\ TypeOK /\ Automatic /\ Grounded /\ OnceInv /\ [Next]_vars => OnceInv'
<1> SUFFICES ASSUME DistinctChildren, TypeOK, Automatic, Grounded, OnceInv, [Next]_vars
             PROVE  OnceInv'
  OBVIOUS
<1>1. /\ Steered /\ ToldOnce /\ MadeOnce /\ NoNews /\ KnownCause /\ Claims /\ Observed
      /\ Ahead /\ TriggersOnce
  BY DEF OnceInv
<1>2. Steered'
  BY <1>1, NextSteady, NextRows
<1>3. ToldOnce' /\ MadeOnce' /\ NoNews'
  BY <1>1, NextToldOnce, NextMadeOnce, NextNoNews
<1>4. KnownCause' /\ Claims' /\ Observed'
  BY <1>1, NextKnownCause, NextClaims, NextObserved
<1>5. Ahead' /\ TriggersOnce'
  BY <1>1, NextAhead, NextTriggersOnce
<1> QED
  BY <1>2, <1>3, <1>4, <1>5 DEF OnceInv

\* It holds when nothing has been built.
LEMMA InitOnceInv == Init => OnceInv
<1> SUFFICES ASSUME Init PROVE OnceInv
  OBVIOUS
<1>1. DOMAIN runner = {} /\ \A w \in Worker : handler[w] = Idle
  BY DEF Init
<1>2. \A t \in Told : DOMAIN queue[t] = {} /\ At(t, "idle")
  BY <1>1, IdleTyped DEF Init, Told, Worker, Topic, At
<1>3. ASSUME NEW w \in Worker, NEW h \in Handler, handler[w] = h
      PROVE  Steady(w, h)
  <2>1. h.pc = "idle" /\ DOMAIN h.todo = {}
    BY <1>1, <1>3, IdleTyped
  <2> QED
    BY <2>1 DEF Steady, Places, Spread
<1>4. Steered
  BY <1>3 DEF Steered
<1>5. ToldOnce
  BY <1>2 DEF ToldOnce, Single, Repeats
<1>6. MadeOnce /\ NoNews /\ KnownCause /\ Claims /\ Observed /\ Ahead /\ TriggersOnce
  BY <1>1 DEF MadeOnce, NoNews, KnownCause, Claims, Observed, Ahead, TriggersOnce
<1> QED
  BY <1>4, <1>5, <1>6 DEF OnceInv

\* If every pipeline is below another one, or below the build, once, then what has
\* succeeded triggers each thing that follows it at most once, whatever is delivered
\* twice, interrupted by a crash, retried or run again by users; only a deployment
\* that two workers found healthy at the same time may be followed up by both.
THEOREM TriggeredOnce == DistinctChildren => (Spec => []TriggersOnce)
<1> SUFFICES ASSUME DistinctChildren PROVE Spec => []TriggersOnce
  OBVIOUS
<1>1. Init => TypeOK /\ Automatic /\ Grounded /\ OnceInv
  <2> SUFFICES ASSUME Init PROVE TypeOK /\ Automatic /\ Grounded /\ OnceInv
    OBVIOUS
  <2>1. Automatic
    BY IdleTyped DEF Init, Automatic, AutoTodo
  <2> QED
    BY <2>1, InitTyped, InitGrounded, InitOnceInv
<1>2. TypeOK /\ Automatic /\ Grounded /\ OnceInv /\ [Next]_vars
        => (TypeOK /\ Automatic /\ Grounded /\ OnceInv)'
  BY NextTyped, NextAuto, NextGrounded, NextOnceInv
<1>3. OnceInv => TriggersOnce
  BY DEF OnceInv
<1> QED
  BY <1>1, <1>2, <1>3, PTL DEF Spec
==============================================================================
