------------------------- MODULE AsyncDeployProofs -------------------------
(***************************************************************************)
(* Theorems about the asynchronous deployment, for every set of            *)
(* deployments, requests and workers, every bound and both kinds of        *)
(* application:                                                            *)
(*   - the types;                                                          *)
(*   - the workers implement ReleaseContext, so what is proved of the map  *)
(*     (ReleaseContextProofs) holds of the deployment as a whole;          *)
(*   - releases reach the cluster in the order of their requests;          *)
(*   - a failed runner has a timeline that says why (FailInv);             *)
(*   - the latest request is served (ServeInv);                            *)
(*   - a release that is over is not repeated (LastLanded);                *)
(*   - the latest request survives a kill (KillInv).                       *)
(***************************************************************************)
EXTENDS AsyncDeploy, TLAPS

-----------------------------------------------------------------------------
(* Types. *)

LEMMA TypeTrigger ==
  ASSUME TypeOK, NEW d \in Deployment, TriggerStep(d)
  PROVE  TypeOK'
<1> USE DEF TypeOK, TriggerPc, Status, Terminal, Timeline, TerminalTimeline,
            db, nats, ctx, proc, TriggerAt, TriggerGoto, SetStatus, Stamp, Stamped
<1>1. CASE SaveRequest(d)
  BY <1>1 DEF SaveRequest
<1>2. CASE Publish(d)
  BY <1>2 DEF Publish
<1>3. CASE ReadForQueued(d)
  BY <1>3 DEF ReadForQueued
<1>4. CASE WriteQueued(d)
  BY <1>4 DEF WriteQueued
<1>5. CASE ReadPreviousQueued(d)
  BY <1>5 DEF ReadPreviousQueued
<1>6. CASE StampPreviousQueued(d)
  BY <1>6 DEF StampPreviousQueued
<1>7. CASE FailPreviousQueued(d)
  BY <1>7 DEF FailPreviousQueued
<1>8. CASE FailTrigger(d)
  BY <1>8 DEF FailTrigger
<1>9. CASE FailTriggerTimeline(d)
  BY <1>9 DEF FailTriggerTimeline
<1>10. QED
  BY <1>1, <1>2, <1>3, <1>4, <1>5, <1>6, <1>7, <1>8, <1>9 DEF TriggerStep

LEMMA LocalEnd ==
  ASSUME NEW l \in Local, NEW pc \in WorkerPc
  PROVE  /\ [l EXCEPT !.pc = pc] \in Local
         /\ [l EXCEPT !.pc = pc, !.snap = "none", !.err = "none"] \in Local
<1>1. "none" \in Status /\ "none" \in Error
  BY DEF Status, Error
<1>2. QED
  BY <1>1 DEF Local

LEMMA LocalUpdate ==
  ASSUME NEW l \in Local, NEW pc \in WorkerPc
  PROVE  /\ \A s \in Status : [l EXCEPT !.pc = pc, !.snap = s] \in Local
         /\ \A err \in Error : [l EXCEPT !.pc = pc, !.err = err] \in Local
         /\ \A S \in SUBSET Deployment : [l EXCEPT !.pc = pc, !.todo = S] \in Local
         /\ \A S \in SUBSET Deployment : [l EXCEPT !.pc = pc, !.previous = S] \in Local
         /\ \A S \in SUBSET Deployment :
              [l EXCEPT !.pc = pc, !.previous = S, !.todo = S] \in Local
BY DEF Local

LEMMA GotoType ==
  ASSUME worker \in [Worker -> Local], NEW w \in Worker, NEW pc \in WorkerPc, Goto(w, pc)
  PROVE  worker' \in [Worker -> Local]
<1> DEFINE l == IF pc \in {"check", "ack"}
                 THEN [worker[w] EXCEPT !.pc = pc, !.snap = "none", !.err = "none"]
                 ELSE [worker[w] EXCEPT !.pc = pc]
<1>1. l \in Local
  BY LocalEnd
<1>2. worker' = [worker EXCEPT ![w] = l]
  BY DEF Goto
<1> HIDE DEF l
<1>3. QED
  BY <1>1, <1>2

LEMMA RaiseType ==
  ASSUME worker \in [Worker -> Local], NEW w \in Worker, NEW err \in Error, Raise(w, err)
  PROVE  worker' \in [Worker -> Local]
<1>1. "error" \in WorkerPc
  BY DEF WorkerPc, ReleasePc
<1>2. QED
  BY <1>1 DEF Local, Raise

LEMMA ReleaseErrorType ==
  ASSUME NEW w, NEW err \in ReleaseError(w)
  PROVE  err \in Error
BY DEF ReleaseError, ContextError, Error

LEMMA SetStatusType ==
  ASSUME status \in [Deployment -> Status], NEW S, NEW s \in Status, SetStatus(S, s)
  PROVE  status' \in [Deployment -> Status]
BY DEF SetStatus

LEMMA StampType ==
  ASSUME timeline \in [Deployment -> SUBSET Timeline],
         NEW d, NEW t \in Timeline, Stamp(d, t)
  PROVE  timeline' \in [Deployment -> SUBSET Timeline]
BY DEF Stamp, Stamped

LEMMA CancelEntryType ==
  ASSUME TypeOK, NEW cause \in {"nil", "shutdown"}, CancelEntry(cause)
  PROVE  /\ entry' \in Entry \cup {NoEntry}
         /\ cancel' \in [Worker -> {"none", "live", "superseded", "nil", "deadline", "shutdown"}]
BY DEF TypeOK, CancelEntry

LEMMA RegisterType ==
  ASSUME TypeOK, NEW w \in Worker, Run(w) \in Deployment, Register(w)
  PROVE  /\ entry' \in Entry \cup {NoEntry}
         /\ cancel' \in [Worker -> {"none", "live", "superseded", "nil", "deadline", "shutdown"}]
BY DEF TypeOK, Register, Entry

LEMMA LocalFields ==
  ASSUME worker \in [Worker -> Local], NEW w \in Worker
  PROVE  /\ worker[w].run \in Deployment \cup {0}
         /\ worker[w].previous \subseteq Deployment /\ worker[w].todo \subseteq Deployment
         /\ worker[w].snap \in Status /\ worker[w].err \in Error
BY DEF Local

\* A worker with something in hand has a saved request.
HasRequest == \A w \in Worker : ~At(w, "idle") => Run(w) \in Requested

LEMMA TypeWorker ==
  ASSUME TypeOK, HasRequest, NEW w \in Worker, WorkerStep(w)
  PROVE  TypeOK'
<1> DEFINE LocalOK == worker' \in [Worker -> Local]
<1> USE DEF WorkerPc, ReleasePc
<1>0. /\ worker \in [Worker -> Local]
      /\ status \in [Deployment -> Status] /\ timeline \in [Deployment -> SUBSET Timeline]
  BY DEF TypeOK
<1>b. ~At(w, "idle") => Run(w) \in Deployment
  BY DEF HasRequest, Requested
<1>1. CASE ReadRunner(w)
  <2> DEFINE l == [worker[w] EXCEPT !.pc = "validate", !.snap = status[Run(w)]]
  <2>1. l \in Local
    BY <1>0, <1>b, <1>1, LocalUpdate DEF At, ReadRunner
  <2>2. worker' = [worker EXCEPT ![w] = l]
    BY <1>1 DEF ReadRunner
  <2>3. LocalOK
    <3> HIDE DEF l
    <3> QED  BY <1>0, <2>1, <2>2
  <2>4. QED
    BY <2>3, <1>1 DEF ReadRunner, db, nats, ctx, proc, TypeOK
<1>2. CASE SkipRequest(w)
  <2>1. LocalOK
    BY <1>0, <1>2, GotoType DEF SkipRequest
  <2>2. QED
    BY <2>1, <1>2 DEF SkipRequest, db, nats, ctx, proc, TypeOK
<1>3. CASE RejectRequest(w)
  <2> DEFINE l == [worker[w] EXCEPT !.pc = "mark", !.err = "SUPERSEDED"]
  <2>1. l \in Local
    BY <1>0, LocalUpdate DEF Error
  <2>2. worker' = [worker EXCEPT ![w] = l]
    BY <1>3 DEF RejectRequest
  <2>3. LocalOK
    <3> HIDE DEF l
    <3> QED  BY <1>0, <2>1, <2>2
  <2>4. QED
    BY <2>3, <1>3 DEF RejectRequest, db, nats, ctx, proc, TypeOK
<1>4. CASE ClaimRequest(w)
  <2>1. LocalOK
    BY <1>0, <1>4, GotoType DEF ClaimRequest
  <2>2. QED
    BY <1>b, RegisterType, <2>1, <1>4 DEF ClaimRequest, db, nats, ctx, proc,
     TypeOK, At
<1>5. CASE BeginRelease(w)
  <2> DEFINE l == [worker[w] EXCEPT
                   !.pc = IF AppType = "helm" /\ status[Run(w)] \notin Terminal
                          THEN "starting" ELSE "build",
                   !.snap = status[Run(w)]]
  <2>1. l \in Local
    BY <1>0, <1>b, <1>5, LocalUpdate DEF At, BeginRelease
  <2>2. worker' = [worker EXCEPT ![w] = l]
    BY <1>5 DEF BeginRelease
  <2>3. LocalOK
    <3> HIDE DEF l
    <3> QED  BY <1>0, <2>1, <2>2
  <2>4. QED
    BY <2>3, <1>5 DEF BeginRelease, db, nats, ctx, proc, TypeOK
<1>6. CASE WriteStarting(w)
  <2>1. LocalOK
    BY <1>0, <1>6, GotoType DEF WriteStarting
  <2>2. QED
    BY <1>0, SetStatusType, <2>1, <1>6 DEF WriteStarting, db, nats, ctx, proc,
     TypeOK, Status, Terminal
<1>7. CASE BuildTriggerEvent(w)
  <2>1. LocalOK
    BY <1>0, <1>7, GotoType, RaiseType, ReleaseErrorType DEF BuildTriggerEvent,
     Error
  <2>2. QED
    BY <2>1, <1>7 DEF BuildTriggerEvent, db, nats, ctx, proc, TypeOK
<1>8. CASE ReadForProgressing(w)
  <2>1. LocalOK
    BY <1>0, <1>8, GotoType DEF ReadForProgressing, AfterProgress
  <2>2. QED
    BY <2>1, <1>8 DEF ReadForProgressing, db, nats, ctx, proc, TypeOK
<1>9. CASE WriteProgressing(w)
  <2>1. LocalOK
    BY <1>0, <1>9, GotoType DEF WriteProgressing, AfterProgress
  <2>2. QED
    BY <1>0, SetStatusType, <2>1, <1>9 DEF WriteProgressing, db, nats, ctx,
     proc, TypeOK, Status, Terminal
<1>10. CASE PushChart(w)
  <2>1. LocalOK
    BY <1>0, <1>10, GotoType, RaiseType, ReleaseErrorType DEF PushChart, Error
  <2>2. QED
    BY <2>1, <1>10, ZenonT(40) DEF PushChart, db, nats, ctx, proc, TypeOK, Timeline,
     TerminalTimeline, Stamped
<1>11. CASE DeployArgoCdApp(w)
  <2>1. LocalOK
    BY <1>0, <1>11, GotoType, RaiseType, ReleaseErrorType DEF DeployArgoCdApp,
     Error
  <2>2. QED
    BY LocalFields, <2>1, <1>11 DEF DeployArgoCdApp, db, nats, ctx, proc,
     TypeOK, Run
<1>12. CASE InstallHelmApp(w)
  <2>1. LocalOK
    BY <1>0, <1>12, GotoType, RaiseType, ReleaseErrorType DEF InstallHelmApp,
     Error
  <2>2. QED
    BY LocalFields, <2>1, <1>12 DEF InstallHelmApp, db, nats, ctx, proc,
     TypeOK, Run
<1>13. CASE ReadPrevious(w)
  <2> DEFINE previous == {e \in Deployment : e < Run(w) /\ status[e] \notin Terminal \cup {"none"}}
  <2> DEFINE l == [worker[w] EXCEPT
                   !.pc = IF previous = {} THEN "triggered" ELSE "supersedeWrite",
                   !.previous = previous, !.todo = previous]
  <2>1. l \in Local
    BY <1>0, LocalUpdate
  <2>2. worker' = [worker EXCEPT ![w] = l]
    BY <1>13 DEF ReadPrevious
  <2>3. LocalOK
    <3> HIDE DEF l
    <3> QED  BY <1>0, <2>1, <2>2
  <2>4. QED
    BY <2>3, <1>13 DEF ReadPrevious, db, nats, ctx, proc, TypeOK
<1>14. CASE FailPrevious(w)
  <2>1. PICK e \in worker[w].todo :
          /\ SetStatus({e}, "Failed")
          /\ worker' = [worker EXCEPT
               ![w].pc = IF worker[w].todo = {e} THEN "supersedeTimeline" ELSE @,
               ![w].todo = @ \ {e}]
    BY <1>14 DEF FailPrevious
  <2> DEFINE pc == IF worker[w].todo = {e} THEN "supersedeTimeline" ELSE "supersedeWrite"
  <2> DEFINE l == [worker[w] EXCEPT !.pc = pc, !.todo = worker[w].todo \ {e}]
  <2>2. worker[w].todo \ {e} \in SUBSET Deployment
    BY <1>0, LocalFields
  <2>3. l \in Local
    BY <1>0, <2>2, LocalUpdate
  <2>4. worker' = [worker EXCEPT ![w] = l]
    BY <1>14, <2>1 DEF FailPrevious, At
  <2>5. LocalOK
    <3> HIDE DEF l
    <3> QED  BY <1>0, <2>3, <2>4
  <2>6. status' \in [Deployment -> Status]
    BY <1>0, <2>1, SetStatusType DEF Status, Terminal
  <2>7. QED
    BY <2>5, <2>6, <1>14 DEF FailPrevious, db, nats, ctx, proc, TypeOK
<1>15. CASE StampPrevious(w)
  <2> DEFINE l == [worker[w] EXCEPT !.pc = "triggered", !.previous = {}]
  <2>1. l \in Local
    BY <1>0, LocalUpdate
  <2>2. worker' = [worker EXCEPT ![w] = l]
    BY <1>15 DEF StampPrevious
  <2>3. LocalOK
    <3> HIDE DEF l
    <3> QED  BY <1>0, <2>1, <2>2
  <2>4. QED
    BY <2>3, <1>15 DEF StampPrevious, db, nats, ctx, proc, TypeOK, Timeline,
     TerminalTimeline, Stamped
<1>16. CASE StampTriggered(w)
  <2>1. LocalOK
    BY <1>0, <1>16, GotoType DEF StampTriggered
  <2>2. QED
    BY <1>0, StampType, <2>1, <1>16 DEF StampTriggered, db, nats, ctx, proc,
     TypeOK, Timeline, TerminalTimeline
<1>17. CASE IgnoreError(w)
  <2>1. LocalOK
    BY <1>0, <1>17, GotoType DEF IgnoreError
  <2>2. QED
    BY <2>1, <1>17 DEF IgnoreError, db, nats, ctx, proc, TypeOK
<1>18. CASE RecordHelmDeadline(w)
  <2>1. LocalOK
    BY <1>0, <1>18, GotoType DEF RecordHelmDeadline, Local, Error
  <2>2. QED
    BY <1>0, SetStatusType, <2>1, <1>18 DEF RecordHelmDeadline, db, nats, ctx,
     proc, TypeOK, Status, Terminal
<1>19. CASE RecordError(w)
  <2>1. LocalOK
    BY <1>0, <1>19, GotoType DEF RecordError
  <2>2. QED
    BY <2>1, <1>19 DEF RecordError, db, nats, ctx, proc, TypeOK
<1>20. CASE MarkFailed(w)
  <2>1. LocalOK
    BY <1>0, <1>20, GotoType DEF MarkFailed
  <2>2. QED
    BY <1>0, SetStatusType, <2>1, <1>20 DEF MarkFailed, db, nats, ctx, proc,
     TypeOK, Status, Terminal
<1>21. CASE MarkTimeline(w)
  <2>1. LocalOK
    BY <1>0, <1>21, GotoType DEF MarkTimeline
  <2>2. QED
    BY <1>0, StampType, <2>1, <1>21 DEF MarkTimeline, db, nats, ctx, proc,
     TypeOK, Timeline, TerminalTimeline
<1>22. CASE CheckEntry(w)
  <2>1. LocalOK
    BY <1>0, <1>22, GotoType DEF CheckEntry
  <2>2. QED
    BY <2>1, <1>22 DEF CheckEntry, db, nats, ctx, proc, TypeOK
<1>23. CASE RemoveEntry(w)
  <2>1. LocalOK
    BY <1>0, <1>23, GotoType DEF RemoveEntry
  <2>2. QED
    BY CancelEntryType, <2>1, <1>23 DEF RemoveEntry, db, nats, ctx, proc, TypeOK
<1>24. CASE Acknowledge(w)
  <2>1. LocalOK
    BY <1>0, <1>b, <1>24 DEF Acknowledge, Local, Idle, Status, Terminal, Error,
     Run, At
  <2>2. QED
    BY <2>1, <1>24 DEF Acknowledge, db, nats, ctx, proc, TypeOK
<1>25. QED
  BY <1>1, <1>2, <1>3, <1>4, <1>5, <1>6, <1>7, <1>8, <1>9, <1>10, <1>11, <1>12,
     <1>13, <1>14, <1>15, <1>16, <1>17, <1>18, <1>19, <1>20, <1>21, <1>22,
     <1>23, <1>24 DEF WorkerStep
-----------------------------------------------------------------------------
(* Steps of a worker. *)

\* Worker w goes on to pc with the request and the message it has; no other worker moves.
MovesTo(w, pc) ==
  /\ worker'[w].pc = pc
  /\ worker'[w].run = worker[w].run /\ worker'[w].msg = worker[w].msg
  /\ \A v \in Worker \ {w} : worker'[v] = worker[v]

LEMMA GotoMoves ==
  ASSUME worker \in [Worker -> Local], NEW w \in Worker, NEW pc \in WorkerPc, Goto(w, pc)
  PROVE  MovesTo(w, pc)
<1>1. worker[w] \in Local
  OBVIOUS
<1>2. \A l \in Local :
        /\ [l EXCEPT !.pc = pc].pc = pc
        /\ [l EXCEPT !.pc = pc].run = l.run
        /\ [l EXCEPT !.pc = pc].msg = l.msg
        /\ [l EXCEPT !.pc = pc, !.snap = "none", !.err = "none"].pc = pc
        /\ [l EXCEPT !.pc = pc, !.snap = "none", !.err = "none"].run = l.run
        /\ [l EXCEPT !.pc = pc, !.snap = "none", !.err = "none"].msg = l.msg
  BY DEF Local
<1>3. QED
  BY <1>1, <1>2 DEF Goto, MovesTo

LEMMA RaiseMoves ==
  ASSUME worker \in [Worker -> Local], NEW w \in Worker, NEW err, Raise(w, err)
  PROVE  MovesTo(w, "error")
<1>1. worker[w] \in Local
  OBVIOUS
<1>2. \A l \in Local :
        /\ [l EXCEPT !.pc = "error", !.err = err].pc = "error"
        /\ [l EXCEPT !.pc = "error", !.err = err].run = l.run
        /\ [l EXCEPT !.pc = "error", !.err = err].msg = l.msg
  BY DEF Local
<1>3. worker' = [worker EXCEPT ![w] = [worker[w] EXCEPT !.pc = "error", !.err = err]]
  BY DEF Raise
<1>4. QED
  BY <1>1, <1>2, <1>3 DEF MovesTo

LEMMA FieldsMove ==
  ASSUME worker \in [Worker -> Local], NEW w \in Worker, NEW pc, NEW s, NEW err, NEW P, NEW T,
         \/ worker' = [worker EXCEPT ![w].pc = pc, ![w].snap = s]
         \/ worker' = [worker EXCEPT ![w].pc = pc, ![w].err = err]
         \/ worker' = [worker EXCEPT ![w].pc = pc, ![w].previous = P]
         \/ worker' = [worker EXCEPT ![w].pc = pc, ![w].todo = T]
  PROVE  MovesTo(w, pc)
<1>1. worker[w] \in Local
  OBVIOUS
<1>2. \A l \in Local :
        /\ [l EXCEPT !.pc = pc, !.snap = s].pc = pc
        /\ [l EXCEPT !.pc = pc, !.snap = s].run = l.run
        /\ [l EXCEPT !.pc = pc, !.snap = s].msg = l.msg
        /\ [l EXCEPT !.pc = pc, !.err = err].pc = pc
        /\ [l EXCEPT !.pc = pc, !.err = err].run = l.run
        /\ [l EXCEPT !.pc = pc, !.err = err].msg = l.msg
        /\ [l EXCEPT !.pc = pc, !.previous = P].pc = pc
        /\ [l EXCEPT !.pc = pc, !.previous = P].run = l.run
        /\ [l EXCEPT !.pc = pc, !.previous = P].msg = l.msg
        /\ [l EXCEPT !.pc = pc, !.todo = T].pc = pc
        /\ [l EXCEPT !.pc = pc, !.todo = T].run = l.run
        /\ [l EXCEPT !.pc = pc, !.todo = T].msg = l.msg
  BY DEF Local
<1>3. QED
  BY <1>1, <1>2 DEF MovesTo

LEMMA PreviousMoves ==
  ASSUME worker \in [Worker -> Local], NEW w \in Worker, NEW pc, NEW S,
         worker' = [worker EXCEPT ![w].pc = pc, ![w].previous = S, ![w].todo = S]
  PROVE  MovesTo(w, pc)
<1>1. worker[w] \in Local
  OBVIOUS
<1>2. \A l \in Local :
        /\ [l EXCEPT !.pc = pc, !.previous = S, !.todo = S].pc = pc
        /\ [l EXCEPT !.pc = pc, !.previous = S, !.todo = S].run = l.run
        /\ [l EXCEPT !.pc = pc, !.previous = S, !.todo = S].msg = l.msg
  BY DEF Local
<1>3. QED
  BY <1>1, <1>2 DEF MovesTo


\* Where each step of a worker leads.
LEMMA StepMoves ==
  ASSUME worker \in [Worker -> Local], NEW w \in Worker
  PROVE
    /\ ReadRunner(w) => MovesTo(w, "validate")
    /\ SkipRequest(w) => MovesTo(w, "ack")
    /\ RejectRequest(w) => MovesTo(w, "mark")
    /\ ClaimRequest(w) => MovesTo(w, "begin")
    /\ BeginRelease(w) => \E pc \in {"starting", "build"} : MovesTo(w, pc)
    /\ WriteStarting(w) => MovesTo(w, "build")
    /\ BuildTriggerEvent(w) => \E pc \in {"install", "sync", "progress", "check", "error"} : MovesTo(w, pc)
    /\ ReadForProgressing(w) => \E pc \in {"supersede", "push", "progressWrite"} : MovesTo(w, pc)
    /\ WriteProgressing(w) => \E pc \in {"supersede", "push"} : MovesTo(w, pc)
    /\ PushChart(w) => \E pc \in {"sync", "error"} : MovesTo(w, pc)
    /\ DeployArgoCdApp(w) => \E pc \in {"supersede", "error"} : MovesTo(w, pc)
    /\ InstallHelmApp(w) => \E pc \in {"progress", "error"} : MovesTo(w, pc)
    /\ ReadPrevious(w) => \E pc \in {"triggered", "supersedeWrite"} : MovesTo(w, pc)
    /\ FailPrevious(w) => \E pc \in {"supersedeTimeline", "supersedeWrite"} : MovesTo(w, pc)
    /\ StampPrevious(w) => MovesTo(w, "triggered")
    /\ StampTriggered(w) => MovesTo(w, "check")
    /\ IgnoreError(w) => MovesTo(w, "check")
    /\ RecordHelmDeadline(w) => \E pc \in {"markTimeline", "check"} : MovesTo(w, pc)
    /\ RecordError(w) => MovesTo(w, "mark")
    /\ MarkFailed(w) => MovesTo(w, "markTimeline")
    /\ MarkTimeline(w) => \E pc \in {"ack", "check"} : MovesTo(w, pc)
    /\ CheckEntry(w) => \E pc \in {"remove", "ack"} : MovesTo(w, pc)
    /\ RemoveEntry(w) => MovesTo(w, "ack")
<1> USE DEF WorkerPc, ReleasePc
<1>1. ReadRunner(w) => MovesTo(w, "validate")
  BY FieldsMove DEF ReadRunner
<1>2. SkipRequest(w) => MovesTo(w, "ack")
  BY GotoMoves DEF SkipRequest
<1>3. RejectRequest(w) => MovesTo(w, "mark")
  BY FieldsMove DEF RejectRequest
<1>4. ClaimRequest(w) => MovesTo(w, "begin")
  BY GotoMoves DEF ClaimRequest
<1>5. BeginRelease(w) => \E pc \in {"starting", "build"} : MovesTo(w, pc)
  <2> DEFINE pc == IF AppType = "helm" /\ status[Run(w)] \notin Terminal
                   THEN "starting" ELSE "build"
  <2>1. BeginRelease(w) => worker' = [worker EXCEPT ![w].pc = pc, ![w].snap = status[Run(w)]]
    BY DEF BeginRelease
  <2>2. pc \in {"starting", "build"}
    OBVIOUS
  <2> HIDE DEF pc
  <2>3. QED
    BY <2>1, <2>2, FieldsMove
<1>6. WriteStarting(w) => MovesTo(w, "build")
  BY GotoMoves DEF WriteStarting
<1>7. BuildTriggerEvent(w) => \E pc \in {"install", "sync", "progress", "check", "error"} : MovesTo(w, pc)
  BY GotoMoves, RaiseMoves DEF BuildTriggerEvent
<1>8. ReadForProgressing(w) => \E pc \in {"supersede", "push", "progressWrite"} : MovesTo(w, pc)
  BY GotoMoves DEF ReadForProgressing, AfterProgress
<1>9. WriteProgressing(w) => \E pc \in {"supersede", "push"} : MovesTo(w, pc)
  BY GotoMoves DEF WriteProgressing, AfterProgress
<1>10. PushChart(w) => \E pc \in {"sync", "error"} : MovesTo(w, pc)
  BY GotoMoves, RaiseMoves DEF PushChart
<1>11. DeployArgoCdApp(w) => \E pc \in {"supersede", "error"} : MovesTo(w, pc)
  BY GotoMoves, RaiseMoves DEF DeployArgoCdApp
<1>12. InstallHelmApp(w) => \E pc \in {"progress", "error"} : MovesTo(w, pc)
  BY GotoMoves, RaiseMoves DEF InstallHelmApp
<1>13. ReadPrevious(w) => \E pc \in {"triggered", "supersedeWrite"} : MovesTo(w, pc)
  <2> DEFINE S == {e \in Deployment : e < Run(w) /\ status[e] \notin Terminal \cup {"none"}}
  <2> DEFINE pc == IF S = {} THEN "triggered" ELSE "supersedeWrite"
  <2>1. ReadPrevious(w) =>
          worker' = [worker EXCEPT ![w].pc = pc, ![w].previous = S, ![w].todo = S]
    BY DEF ReadPrevious
  <2>2. pc \in {"triggered", "supersedeWrite"}
    OBVIOUS
  <2> HIDE DEF pc, S
  <2>3. ASSUME ReadPrevious(w) PROVE MovesTo(w, pc)
    BY <2>1, <2>3, PreviousMoves
  <2>4. QED
    BY <2>2, <2>3
<1>14. FailPrevious(w) => \E pc \in {"supersedeTimeline", "supersedeWrite"} : MovesTo(w, pc)
  <2> SUFFICES ASSUME FailPrevious(w)
               PROVE  \E pc \in {"supersedeTimeline", "supersedeWrite"} : MovesTo(w, pc)
    OBVIOUS
  <2>1. PICK e \in worker[w].todo :
          worker' = [worker EXCEPT
            ![w].pc = IF worker[w].todo = {e} THEN "supersedeTimeline" ELSE @,
            ![w].todo = @ \ {e}]
    BY DEF FailPrevious
  <2> DEFINE pc == IF worker[w].todo = {e} THEN "supersedeTimeline" ELSE "supersedeWrite"
  <2>2. worker' = [worker EXCEPT ![w].pc = pc, ![w].todo = worker[w].todo \ {e}]
    BY <2>1 DEF FailPrevious, At
  <2>3. MovesTo(w, pc)
    BY <2>2, FieldsMove
  <2>4. QED
    BY <2>3
<1>15. StampPrevious(w) => MovesTo(w, "triggered")
  BY FieldsMove DEF StampPrevious
<1>16. StampTriggered(w) => MovesTo(w, "check")
  BY GotoMoves DEF StampTriggered
<1>17. IgnoreError(w) => MovesTo(w, "check")
  BY GotoMoves DEF IgnoreError
<1>18. RecordHelmDeadline(w) => \E pc \in {"markTimeline", "check"} : MovesTo(w, pc)
  BY GotoMoves, FieldsMove DEF RecordHelmDeadline
<1>19. RecordError(w) => MovesTo(w, "mark")
  BY GotoMoves DEF RecordError
<1>20. MarkFailed(w) => MovesTo(w, "markTimeline")
  BY GotoMoves DEF MarkFailed
<1>21. MarkTimeline(w) => \E pc \in {"ack", "check"} : MovesTo(w, pc)
  BY GotoMoves DEF MarkTimeline
<1>22. CheckEntry(w) => \E pc \in {"remove", "ack"} : MovesTo(w, pc)
  BY GotoMoves DEF CheckEntry
<1>23. RemoveEntry(w) => MovesTo(w, "ack")
  BY GotoMoves DEF RemoveEntry
<1>24. QED
  BY <1>1, <1>2, <1>3, <1>4, <1>5, <1>6, <1>7, <1>8, <1>9, <1>10, <1>11, <1>12, <1>13, <1>14,
     <1>15, <1>16, <1>17, <1>18, <1>19, <1>20, <1>21, <1>22, <1>23
-----------------------------------------------------------------------------
(* The inductive invariant. *)

\* A request belongs to one runner.
RequestIsUnique == \A d, e \in Requested : req[d] = req[e] => d = e

\* The entry of the map is of a saved request.
EntryHasRequest == entry # NoEntry => entry.runner \in Requested

\* The mutex is kept across database calls only to reject a request.
LockIsMarking == \A w \in Worker : lock = w => At(w, "mark") \/ At(w, "markTimeline")

\* A trigger saves its request once.
TriggerSavesOnce ==
  \A d \in Deployment : TriggerAt(d, "new") \/ TriggerAt(d, "request") => req[d] = 0

IInv == TypeOK /\ HasRequest /\ RequestIsUnique /\ EntryHasRequest
               /\ LockIsMarking /\ TriggerSavesOnce

\* Where nobody's request changes, only the entry and the mutex matter.
LEMMA StepKeeps ==
  ASSUME IInv, NEW w \in Worker, ~At(w, "idle"),
         worker'[w].run = worker[w].run,
         \A v \in Worker \ {w} : worker'[v] = worker[v],
         UNCHANGED <<req, trigger>>,
         entry' \in {entry, NoEntry} \/ entry'.runner = Run(w),
         LockIsMarking'
  PROVE  /\ HasRequest' /\ RequestIsUnique' /\ EntryHasRequest'
         /\ LockIsMarking' /\ TriggerSavesOnce'
<1>1. HasRequest'
  BY DEF IInv, HasRequest, Requested, Run, At
<1>2. RequestIsUnique' /\ TriggerSavesOnce'
  BY DEF IInv, RequestIsUnique, TriggerSavesOnce, Requested, TriggerAt
<1>3. EntryHasRequest'
  BY DEF IInv, EntryHasRequest, HasRequest, Requested, Run
<1>4. QED
  BY <1>1, <1>2, <1>3

LEMMA WorkerKeeps ==
  ASSUME IInv, NEW w \in Worker, WorkerStep(w)
  PROVE  IInv'
<1> USE NoWorkerAssumption
<1> DEFINE Keeps == /\ HasRequest' /\ RequestIsUnique' /\ EntryHasRequest'
                    /\ LockIsMarking' /\ TriggerSavesOnce'
<1>1. worker \in [Worker -> Local] /\ TypeOK /\ HasRequest /\ LockIsMarking
  BY DEF IInv, TypeOK
<1>2. TypeOK'
  BY <1>1, TypeWorker
<1>3. CASE RejectRequest(w)
  <2>1. MovesTo(w, "mark") /\ lock = NoWorker /\ lock' = w /\ ~At(w, "idle")
        /\ UNCHANGED <<req, trigger, entry>>
    BY <1>1, <1>3, StepMoves DEF RejectRequest, At, db
  <2>2. LockIsMarking'
    BY <2>1 DEF LockIsMarking, MovesTo, At
  <2>3. Keeps
    BY <2>1, <2>2, StepKeeps DEF MovesTo
  <2>4. QED
    BY <1>2, <2>3 DEF IInv
<1>4. CASE MarkTimeline(w)
  <2>1. PICK pc \in {"ack", "check"} : MovesTo(w, pc)
    BY <1>1, <1>4, StepMoves
  <2>2. /\ lock' = (IF lock = w THEN NoWorker ELSE lock) /\ ~At(w, "idle")
        /\ UNCHANGED <<req, trigger, entry>>
    BY <1>4 DEF MarkTimeline, At
  <2>3. LockIsMarking'
    BY <1>1, <2>1, <2>2 DEF LockIsMarking, MovesTo, At
  <2>4. Keeps
    BY <2>1, <2>2, <2>3, StepKeeps DEF MovesTo
  <2>5. QED
    BY <1>2, <2>4 DEF IInv
<1>5. CASE MarkFailed(w)
  <2>1. MovesTo(w, "markTimeline") /\ ~At(w, "idle")
        /\ UNCHANGED <<req, trigger, entry, lock>>
    BY <1>1, <1>5, StepMoves DEF MarkFailed, At, ctx
  <2>2. LockIsMarking'
    BY <1>1, <2>1 DEF LockIsMarking, MovesTo, At
  <2>3. Keeps
    BY <2>1, <2>2, StepKeeps DEF MovesTo
  <2>4. QED
    BY <1>2, <2>3 DEF IInv
<1>6. CASE Acknowledge(w)
  <2>1. /\ worker' = [worker EXCEPT ![w] = Idle] /\ At(w, "ack")
        /\ UNCHANGED <<req, trigger, entry, lock>>
    BY <1>6 DEF Acknowledge, ctx, db
  <2>2. worker'[w].pc = "idle" /\ \A v \in Worker \ {w} : worker'[v] = worker[v]
    BY <1>1, <2>1 DEF Idle
  <2>3. HasRequest' /\ LockIsMarking'
    BY <1>1, <2>1, <2>2 DEF HasRequest, LockIsMarking, Requested, Run, At
  <2>4. RequestIsUnique' /\ TriggerSavesOnce' /\ EntryHasRequest'
    BY <2>1 DEF IInv, RequestIsUnique, TriggerSavesOnce, EntryHasRequest, Requested, TriggerAt
  <2>5. QED
    BY <1>2, <2>3, <2>4 DEF IInv
<1>7. CASE ClaimRequest(w)
  <2>1. /\ MovesTo(w, "begin") /\ ~At(w, "idle") /\ UNCHANGED <<req, trigger, lock>>
        /\ lock = NoWorker /\ entry'.runner = Run(w)
    BY <1>1, <1>7, StepMoves DEF ClaimRequest, Register, At, db
  <2>2. LockIsMarking'
    BY <2>1 DEF LockIsMarking
  <2>3. Keeps
    BY <2>1, <2>2, StepKeeps DEF MovesTo
  <2>4. QED
    BY <1>2, <2>3 DEF IInv
<1>8. CASE RemoveEntry(w)
  <2>1. /\ MovesTo(w, "ack") /\ ~At(w, "idle") /\ UNCHANGED <<req, trigger, lock>>
        /\ lock = NoWorker /\ entry' = NoEntry
    BY <1>1, <1>8, StepMoves DEF RemoveEntry, CancelEntry, At, db
  <2>2. LockIsMarking'
    BY <2>1 DEF LockIsMarking
  <2>3. Keeps
    BY <2>1, <2>2, StepKeeps DEF MovesTo
  <2>4. QED
    BY <1>2, <2>3 DEF IInv
\* All other steps leave the map and the mutex alone, and the worker does not
\* hold it.
<1>9. ASSUME NEW pc, MovesTo(w, pc), ~At(w, "idle"), ~At(w, "mark"), ~At(w, "markTimeline"),
             UNCHANGED <<req, trigger, entry, lock>>
      PROVE  IInv'
  <2>1. LockIsMarking'
    BY <1>1, <1>9 DEF LockIsMarking, MovesTo, At
  <2>2. Keeps
    BY <1>9, <2>1, StepKeeps DEF MovesTo
  <2>3. QED
    BY <1>2, <2>2 DEF IInv
<1> USE <1>1, <1>9, StepMoves DEF At, ctx, db
<1>10. CASE ReadRunner(w)
  BY <1>10 DEF ReadRunner
<1>11. CASE SkipRequest(w)
  BY <1>11 DEF SkipRequest
<1>12. CASE BeginRelease(w)
  BY <1>12 DEF BeginRelease
<1>13. CASE WriteStarting(w)
  BY <1>13 DEF WriteStarting
<1>14. CASE BuildTriggerEvent(w)
  BY <1>14 DEF BuildTriggerEvent
<1>15. CASE ReadForProgressing(w)
  BY <1>15 DEF ReadForProgressing
<1>16. CASE WriteProgressing(w)
  BY <1>16 DEF WriteProgressing
<1>17. CASE PushChart(w)
  BY <1>17 DEF PushChart
<1>18. CASE DeployArgoCdApp(w)
  BY <1>18 DEF DeployArgoCdApp
<1>19. CASE InstallHelmApp(w)
  BY <1>19 DEF InstallHelmApp
<1>20. CASE ReadPrevious(w)
  BY <1>20 DEF ReadPrevious
<1>21. CASE FailPrevious(w)
  BY <1>21 DEF FailPrevious
<1>22. CASE StampPrevious(w)
  BY <1>22 DEF StampPrevious
<1>23. CASE StampTriggered(w)
  BY <1>23 DEF StampTriggered
<1>24. CASE IgnoreError(w)
  BY <1>24 DEF IgnoreError
<1>25. CASE RecordHelmDeadline(w)
  BY <1>25 DEF RecordHelmDeadline
<1>26. CASE RecordError(w)
  BY <1>26 DEF RecordError
<1>27. CASE CheckEntry(w)
  BY <1>27 DEF CheckEntry
<1>28. QED
  BY <1>3, <1>4, <1>5, <1>6, <1>7, <1>8, <1>10, <1>11, <1>12, <1>13, <1>14, <1>15, <1>16,
     <1>17, <1>18, <1>19, <1>20, <1>21, <1>22, <1>23, <1>24, <1>25, <1>26, <1>27 DEF WorkerStep

\* The steps that are neither a trigger's nor a worker's.
LEMMA OtherKeeps ==
  ASSUME IInv,
         \/ \E d \in Deployment : SaveRunner(d) \/ Redeliver(d) \/ CronRead(d)
         \/ \E w \in Worker, d \in Deployment : Deliver(w, d)
         \/ \E w \in Worker : ProcessIncompleteDeploymentReq(w) \/ DeadlineExceeded(w)
         \/ CronWrite
         \/ ShutDownDevtronAppReleaseContext
         \/ Restart
  PROVE  IInv'
<1> USE BoundAssumption, NoWorkerAssumption
<1> DEFINE Rest == /\ HasRequest' /\ RequestIsUnique' /\ EntryHasRequest'
                   /\ LockIsMarking' /\ TriggerSavesOnce'
<1>1. TypeOK /\ worker \in [Worker -> Local] /\ status \in [Deployment -> Status]
  BY DEF IInv, TypeOK
\* Nothing these steps change matters to the rest of the invariant.
<1>2. ASSUME UNCHANGED <<req, trigger, worker, lock>>, entry' \in {entry, NoEntry}
      PROVE  Rest
  BY <1>2 DEF IInv, HasRequest, RequestIsUnique, EntryHasRequest, LockIsMarking,
              TriggerSavesOnce, Requested, Run, At, TriggerAt
<1>3. ASSUME NEW d \in Deployment, SaveRunner(d)
      PROVE  IInv'
  <2>1. status' \in [Deployment -> Status]
    BY <1>1, <1>3, SetStatusType DEF SaveRunner, Status
  <2>2. trigger' \in [Deployment -> [pc : TriggerPc, previous : SUBSET Deployment]]
    BY <1>1, <1>3 DEF SaveRunner, TypeOK, TriggerGoto, TriggerPc
  <2>3. TypeOK'
    BY <1>1, <1>3, <2>1, <2>2 DEF SaveRunner, TypeOK, nats, ctx, proc
  <2>4. Rest
    BY <1>1, <1>3 DEF IInv, SaveRunner, TypeOK, TriggerGoto, ctx, HasRequest, RequestIsUnique,
       EntryHasRequest, LockIsMarking, TriggerSavesOnce, Requested, Run, At, TriggerAt
  <2>5. QED
    BY <2>3, <2>4 DEF IInv
<1>4. ASSUME NEW d \in Deployment, Redeliver(d)
      PROVE  IInv'
  <2>1. TypeOK'
    BY <1>1, <1>4 DEF Redeliver, TypeOK, db, ctx
  <2>2. QED
    BY <1>2, <1>4, <2>1 DEF IInv, Redeliver, db, ctx
<1>5. ASSUME NEW d \in Deployment, CronRead(d)
      PROVE  IInv'
  <2>1. TypeOK'
    BY <1>1, <1>5 DEF CronRead, TypeOK, db, nats, ctx, proc
  <2>2. QED
    BY <1>2, <1>5, <2>1 DEF IInv, CronRead, db, ctx
<1>6. CASE CronWrite
  <2>1. status' \in [Deployment -> Status]
    BY <1>1, <1>6, SetStatusType DEF CronWrite, Status
  <2>2. TypeOK'
    BY <1>1, <1>6, <2>1 DEF CronWrite, TypeOK, nats, ctx, proc
  <2>3. QED
    BY <1>2, <1>6, <2>2 DEF IInv, CronWrite, ctx
<1>7. ASSUME NEW w \in Worker, DeadlineExceeded(w)
      PROVE  IInv'
  <2>1. TypeOK'
    BY <1>1, <1>7 DEF DeadlineExceeded, TypeOK, db, nats, proc
  <2>2. QED
    BY <1>2, <1>7, <2>1 DEF IInv, DeadlineExceeded, db
<1>8. CASE ShutDownDevtronAppReleaseContext
  <2>1. /\ entry' \in Entry \cup {NoEntry} /\ entry' = NoEntry
        /\ cancel' \in [Worker -> {"none", "live", "superseded", "nil", "deadline", "shutdown"}]
    BY <1>1, <1>8, CancelEntryType DEF ShutDownDevtronAppReleaseContext, CancelEntry
  <2>2. TypeOK'
    BY <1>1, <1>8, <2>1 DEF ShutDownDevtronAppReleaseContext, TypeOK, db, nats
  <2>3. QED
    BY <1>2, <1>8, <2>1, <2>2 DEF IInv, ShutDownDevtronAppReleaseContext, db
\* A worker takes up a saved request.
<1>9. ASSUME NEW w \in Worker, NEW d \in Requested, NEW l \in Local, l.pc = "read", l.run = d,
             worker' = [worker EXCEPT ![w] = l], At(w, "idle"), UNCHANGED <<req, trigger, ctx>>
      PROVE  Rest /\ worker' \in [Worker -> Local]
  <2>1. worker'[w] = l /\ \A v \in Worker \ {w} : worker'[v] = worker[v]
    BY <1>1, <1>9
  <2>2. worker' \in [Worker -> Local]
    BY <1>1, <1>9
  <2>3. HasRequest'
    BY <1>9, <2>1 DEF IInv, HasRequest, Requested, Run, At
  <2>4. LockIsMarking'
    BY <1>9, <2>1 DEF IInv, LockIsMarking, At, ctx
  <2>5. RequestIsUnique' /\ EntryHasRequest' /\ TriggerSavesOnce'
    BY <1>9 DEF IInv, RequestIsUnique, EntryHasRequest, TriggerSavesOnce, Requested,
                TriggerAt, ctx
  <2>6. QED
    BY <2>2, <2>3, <2>4, <2>5
<1>10. ASSUME NEW w \in Worker, NEW d \in Deployment, Deliver(w, d)
       PROVE  IInv'
  <2>1. PICK e \in Requested :
          worker' = [worker EXCEPT ![w] = [Idle EXCEPT !.pc = "read", !.run = e, !.msg = d]]
    BY <1>10 DEF Deliver
  <2> DEFINE l == [Idle EXCEPT !.pc = "read", !.run = e, !.msg = d]
  <2>2. l \in Local /\ l.pc = "read" /\ l.run = e
    BY DEF Requested, Idle, Local, WorkerPc, ReleasePc, Status, Error
  <2>3. worker' = [worker EXCEPT ![w] = l]
    BY <2>1
  <2> HIDE DEF l
  <2>4. Rest /\ worker' \in [Worker -> Local]
    BY <1>9, <1>10, <2>2, <2>3 DEF Deliver, db
  <2>5. TypeOK'
    BY <1>1, <1>10, <2>4 DEF Deliver, TypeOK, db, ctx, proc
  <2>6. QED
    BY <2>4, <2>5 DEF IInv
<1>11. ASSUME NEW w \in Worker, ProcessIncompleteDeploymentReq(w)
       PROVE  IInv'
  <2>1. CASE UNCHANGED worker
    <3>1. TypeOK'
      BY <1>1, <1>11, <2>1 DEF ProcessIncompleteDeploymentReq, TypeOK, db, nats, ctx
    <3>2. QED
      BY <1>2, <1>11, <2>1, <3>1 DEF IInv, ProcessIncompleteDeploymentReq, db, ctx
  <2>2. CASE worker' # worker
    <3>1. PICK d \in Incomplete :
            worker' = [worker EXCEPT ![w] = [Idle EXCEPT !.pc = "read", !.run = d]]
      BY <1>11, <2>2 DEF ProcessIncompleteDeploymentReq
    <3> DEFINE l == [Idle EXCEPT !.pc = "read", !.run = d]
    <3>2. d \in Requested /\ l \in Local /\ l.pc = "read" /\ l.run = d
      BY DEF Incomplete, Requested, Idle, Local, WorkerPc, ReleasePc, Status, Error
    <3>3. worker' = [worker EXCEPT ![w] = l]
      BY <3>1
    <3> HIDE DEF l
    <3>4. Rest /\ worker' \in [Worker -> Local]
      BY <1>9, <1>11, <3>2, <3>3 DEF ProcessIncompleteDeploymentReq, db
    <3>5. TypeOK'
      BY <1>1, <1>11, <3>4 DEF ProcessIncompleteDeploymentReq, TypeOK, db, nats, ctx
    <3>6. QED
      BY <3>4, <3>5 DEF IInv
  <2>3. QED
    BY <2>1, <2>2
<1>12. CASE Restart
  <2>1. Idle \in Local /\ Idle.pc = "idle"
    BY DEF Idle, Local, WorkerPc, Status, Error
  <2>2. trigger' \in [Deployment -> [pc : TriggerPc, previous : SUBSET Deployment]]
    BY <1>1, <1>12 DEF Restart, TypeOK, TriggerPc
  <2>3. TypeOK'
    <3>1. worker' \in [Worker -> Local]
      BY <1>12, <2>1 DEF Restart
    <3>2. restarts' \in 0..MaxRestarts
      BY <1>1, <1>12 DEF Restart, TypeOK
    <3>3. cancel' \in [Worker -> {"none", "live", "superseded", "nil", "deadline", "shutdown"}]
      BY <1>12 DEF Restart
    <3>4. QED
      BY <1>1, <1>12, <2>2, <3>1, <3>2, <3>3 DEF Restart, TypeOK, db
  <2>4. Rest
    BY <1>12, <2>1 DEF IInv, Restart, HasRequest, RequestIsUnique, EntryHasRequest,
       LockIsMarking, TriggerSavesOnce, Requested, Run, At, TriggerAt, db
  <2>5. QED
    BY <2>3, <2>4 DEF IInv
<1>13. QED
  BY <1>3, <1>4, <1>5, <1>6, <1>7, <1>8, <1>10, <1>11, <1>12

LEMMA TriggerKeeps ==
  ASSUME IInv, NEW d \in Deployment, TriggerStep(d)
  PROVE  IInv'
<1>1. TypeOK /\ TypeOK'
  BY TypeTrigger DEF IInv
<1>2. CASE SaveRequest(d)
  <2>1. PICK n \in Request : /\ \A e \in Deployment : req[e] # n
                             /\ req' = [req EXCEPT ![d] = n]
    BY <1>2 DEF SaveRequest
  <2>2. /\ trigger' = [trigger EXCEPT ![d].pc = "publish"]
        /\ UNCHANGED <<worker, entry, lock>> /\ req[d] = 0
    BY <1>2 DEF IInv, TriggerSavesOnce, SaveRequest, TriggerGoto, ctx
  <2>3. n # 0
    BY RequestAssumption
  <2>4. Requested' = Requested \cup {d} /\ \A e \in Requested : req'[e] = req[e]
    BY <1>1, <2>1, <2>2, <2>3 DEF Requested, TypeOK
  <2>5. HasRequest' /\ EntryHasRequest' /\ LockIsMarking'
    BY <2>2, <2>4 DEF IInv, HasRequest, EntryHasRequest, LockIsMarking, Run, At
  <2>6. RequestIsUnique'
    BY <1>1, <2>1, <2>4 DEF IInv, RequestIsUnique, Requested, TypeOK
  <2>7. TriggerSavesOnce'
    BY <1>1, <2>1, <2>2 DEF IInv, TriggerSavesOnce, TriggerAt, TypeOK
  <2>8. QED
    BY <1>1, <2>5, <2>6, <2>7 DEF IInv
\* No other step of a trigger saves a request, or leads to one that does.
<1>3. ASSUME UNCHANGED <<req, worker, entry, lock>>,
             \A e \in Deployment : trigger'[e].pc \in {"new", "request"} => trigger'[e] = trigger[e]
      PROVE  IInv'
  <2>1. HasRequest' /\ RequestIsUnique' /\ EntryHasRequest' /\ LockIsMarking'
    BY <1>3 DEF IInv, HasRequest, RequestIsUnique, EntryHasRequest, LockIsMarking,
                Requested, Run, At
  <2>2. TriggerSavesOnce'
    BY <1>3 DEF IInv, TriggerSavesOnce, TriggerAt
  <2>3. QED
    BY <1>1, <2>1, <2>2 DEF IInv
<1>4. trigger \in [Deployment -> [pc : TriggerPc, previous : SUBSET Deployment]]
  BY <1>1 DEF TypeOK
<1> USE <1>3, <1>4 DEF TriggerGoto, ctx, db
<1>5. CASE Publish(d)
  BY <1>5 DEF Publish
<1>6. CASE ReadForQueued(d)
  BY <1>6 DEF ReadForQueued
<1>7. CASE WriteQueued(d)
  BY <1>7 DEF WriteQueued
<1>8. CASE ReadPreviousQueued(d)
  BY <1>8 DEF ReadPreviousQueued
<1>9. CASE StampPreviousQueued(d)
  BY <1>9 DEF StampPreviousQueued
<1>10. CASE FailPreviousQueued(d)
  BY <1>10 DEF FailPreviousQueued
<1>11. CASE FailTrigger(d)
  BY <1>11 DEF FailTrigger
<1>12. CASE FailTriggerTimeline(d)
  BY <1>12 DEF FailTriggerTimeline
<1>13. QED
  BY <1>2, <1>5, <1>6, <1>7, <1>8, <1>9, <1>10, <1>11, <1>12 DEF TriggerStep

LEMMA Inductive ==
  ASSUME IInv, [Next]_vars
  PROVE  IInv'
<1>1. CASE UNCHANGED vars
  BY <1>1 DEF vars, db, nats, ctx, proc, IInv, TypeOK, HasRequest, RequestIsUnique,
     EntryHasRequest, LockIsMarking, TriggerSavesOnce, Requested, Run, At, TriggerAt
<1>2. CASE Next
  BY <1>2, WorkerKeeps, TriggerKeeps, OtherKeeps DEF Next
<1>3. QED
  BY <1>1, <1>2

LEMMA InitHolds == Init => IInv
<1> SUFFICES ASSUME Init PROVE IInv
  OBVIOUS
<1>1. Idle \in Local /\ Idle.pc = "idle"
  BY DEF Idle, Local, WorkerPc, Status, Error
<1>2. TypeOK
  <2>1. status \in [Deployment -> Status] /\ worker \in [Worker -> Local]
    BY <1>1 DEF Init, Status
  <2>2. trigger \in [Deployment -> [pc : TriggerPc, previous : SUBSET Deployment]]
    BY DEF Init, TriggerPc
  <2>3. restarts \in 0..MaxRestarts /\ redeliveries \in 0..MaxRedeliveries
    BY BoundAssumption DEF Init
  <2>4. QED
    BY <2>1, <2>2, <2>3 DEF Init, TypeOK
<1>3. Requested = {}
  BY DEF Init, Requested
<1>4. QED
  BY <1>1, <1>2, <1>3, NoWorkerAssumption DEF Init, IInv, HasRequest, RequestIsUnique,
     EntryHasRequest, LockIsMarking, TriggerSavesOnce, At, TriggerAt

\* Rows, messages, workers and the map keep their types (all of AsyncDeploy).
THEOREM TypeCorrect == Spec => []TypeOK
<1>1. IInv /\ [Next]_vars => IInv'
  BY Inductive
<1>2. IInv => TypeOK
  BY DEF IInv
<1>3. QED
  BY InitHolds, <1>1, <1>2, PTL DEF Spec

-----------------------------------------------------------------------------
(* The workers implement ReleaseContext. *)

\* What a worker looks like from there.
RunSeen(w) == IF ContextPhase(w) = "idle" THEN 0 ELSE req[worker[w].run]

MapSeen == [p \in {"pipeline"} |->
              IF entry = NoEntry THEN NoEntry
              ELSE [runner |-> req[entry.runner], owner |-> entry.owner]]

\* The entry of the map, and what the map's specification sees of it.
LEMMA EntrySeen ==
  ASSUME IInv
  PROVE  /\ MapSeen["pipeline"] # NoEntry <=> entry # NoEntry
         /\ entry # NoEntry => /\ MapSeen["pipeline"].runner = req[entry.runner]
                               /\ MapSeen["pipeline"].owner = entry.owner
                               /\ entry.runner \in Requested
<1>1. ASSUME entry # NoEntry
      PROVE  /\ MapSeen["pipeline"] = [runner |-> req[entry.runner], owner |-> entry.owner]
             /\ entry.runner \in Requested /\ entry.owner \in Worker
             /\ req[entry.runner] \in Request
  BY <1>1 DEF MapSeen, IInv, TypeOK, EntryHasRequest, Entry, Requested
<1>2. ASSUME entry # NoEntry
      PROVE  MapSeen["pipeline"] \in [runner : Deployment \cup Request, owner : Worker]
  BY <1>1, <1>2
<1>3. ASSUME entry = NoEntry
      PROVE  MapSeen["pipeline"] = NoEntry
  BY <1>3 DEF MapSeen
<1>4. QED
  BY <1>1, <1>2, <1>3, NoEntryAssumption

LEMMA PhaseOf ==
  ASSUME NEW w \in Worker
  PROVE  ContextPhase(w) =
           IF lock # w /\ worker[w].pc \notin {"idle", "read", "validate", "check", "remove", "ack"}
           THEN "release"
           ELSE IF worker[w].pc \in {"check", "remove"} THEN worker[w].pc ELSE "idle"
BY DEF ContextPhase, InRelease, At

\* What the map's specification sees of the other workers, and of the requests.
LEMMA OthersSeen ==
  ASSUME NEW w \in Worker, \A v \in Worker \ {w} : worker'[v] = worker[v],
         \A v \in Worker \ {w} : lock' = v <=> lock = v, UNCHANGED req
  PROVE  /\ \A v \in Worker \ {w} : ContextPhase(v)' = ContextPhase(v) /\ RunSeen(v)' = RunSeen(v)
         /\ {req[d] : d \in Requested}' = {req[d] : d \in Requested}
<1>1. ASSUME NEW v \in Worker \ {w}
      PROVE  ContextPhase(v)' = ContextPhase(v) /\ RunSeen(v)' = RunSeen(v)
  <2>1. ContextPhase(v)' = ContextPhase(v)
    BY DEF ContextPhase, InRelease, At
  <2>2. QED
    BY <2>1 DEF RunSeen
<1>2. {req[d] : d \in Requested}' = {req[d] : d \in Requested}
  BY DEF Requested
<1>3. QED
  BY <1>1, <1>2

\* A step that the map's specification does not see.
LEMMA QuietStep ==
  ASSUME NEW w \in Worker, NEW pc, MovesTo(w, pc), ContextPhase(w)' = ContextPhase(w),
         \A v \in Worker \ {w} : lock' = v <=> lock = v, UNCHANGED <<req, entry, cancel>>
  PROVE  UNCHANGED RC!vars
<1>1. \A v \in Worker : ContextPhase(v)' = ContextPhase(v) /\ RunSeen(v)' = RunSeen(v)
  BY OthersSeen DEF MovesTo, RunSeen
<1>2. UNCHANGED {req[d] : d \in Requested}
  BY OthersSeen DEF MovesTo
<1>3. QED
  BY <1>1, <1>2 DEF RC!vars, RunSeen

\* A release ends: its clean-up is next.
LEMMA ReturnStep ==
  ASSUME NEW w \in Worker, InRelease(w), MovesTo(w, "check"),
         UNCHANGED <<req, entry, cancel, lock>>
  PROVE  RC!Return(w)
<1>1. ContextPhase(w) = "release" /\ ContextPhase(w)' = "check"
  BY DEF ContextPhase, MovesTo, At, InRelease
<1>2. \A v \in Worker \ {w} : ContextPhase(v)' = ContextPhase(v) /\ RunSeen(v)' = RunSeen(v)
  BY OthersSeen DEF MovesTo
<1>3. RunSeen(w)' = RunSeen(w)
  BY <1>1 DEF RunSeen, MovesTo
<1>4. UNCHANGED {req[d] : d \in Requested}
  BY OthersSeen DEF MovesTo
<1>5. QED
  BY <1>1, <1>2, <1>3, <1>4 DEF RC!Return, RunSeen

LEMMA ClaimStep ==
  ASSUME IInv, NEW w \in Worker, ClaimRequest(w)
  PROVE  \E r \in Request : RC!Claim(w, r)
<1>1. worker \in [Worker -> Local] /\ Run(w) \in Requested /\ Run(w) = worker[w].run
  BY DEF IInv, TypeOK, HasRequest, ClaimRequest, At, Run
<1>2. PICK r \in Request : r = req[Run(w)]
  BY <1>1 DEF IInv, TypeOK, Requested
<1>3. /\ MovesTo(w, "begin") /\ Register(w) /\ UNCHANGED <<req, lock>> /\ lock = NoWorker
      /\ At(w, "validate") /\ ~NothingToDo(w) /\ IsLatest(Run(w))
  BY <1>1, StepMoves DEF ClaimRequest, db
<1>4. ContextPhase(w) = "idle" /\ ContextPhase(w)' = "release"
  BY <1>3, NoWorkerAssumption DEF ContextPhase, MovesTo, At, InRelease
<1>5. \A v \in Worker \ {w} : ContextPhase(v)' = ContextPhase(v) /\ RunSeen(v)' = RunSeen(v)
  BY <1>3, OthersSeen DEF MovesTo
<1>6. RunSeen(w)' = r
  BY <1>1, <1>2, <1>3, <1>4 DEF RunSeen, MovesTo
<1>7. UNCHANGED {req[d] : d \in Requested}
  BY <1>3, OthersSeen DEF MovesTo
<1>8. r \in {req[d] : d \in Requested} /\ \A s \in {req[d] : d \in Requested} : s <= r
  BY <1>1, <1>2, <1>3 DEF IsLatest
<1>9. ASSUME entry # NoEntry
      PROVE  req[entry.runner] # r
  BY <1>1, <1>2, <1>3, <1>9 DEF IInv, EntryHasRequest, RequestIsUnique, NothingToDo
<1>10. entry' = [runner |-> Run(w), owner |-> w] /\ entry' # NoEntry
  <2>1. entry' = [runner |-> Run(w), owner |-> w]
    BY <1>3 DEF Register
  <2>2. [runner |-> Run(w), owner |-> w] \in [runner : Deployment, owner : Worker]
    BY <1>1 DEF Requested
  <2>3. QED
    BY <2>1, <2>2, NoEntryAssumption
<1>11. MapSeen' = [MapSeen EXCEPT !["pipeline"] = [runner |-> r, owner |-> w]]
  BY <1>1, <1>2, <1>3, <1>10 DEF MapSeen
<1>12. MapSeen["pipeline"] # NoEntry => MapSeen["pipeline"].runner # r
  BY <1>9, EntrySeen
<1>13. cancel' = [v \in Worker |->
         IF v = w THEN "live"
         ELSE IF MapSeen["pipeline"] # NoEntry /\ MapSeen["pipeline"].owner = v
              THEN RC!Cancelled(cancel[v], "superseded") ELSE cancel[v]]
  BY <1>3, EntrySeen DEF Register, RC!Cancelled
<1>14. RC!IsLatest(r)
  BY <1>2, <1>8, <1>1 DEF RC!IsLatest, IInv, TypeOK, Requested
<1>15. RC!UpdateReleaseContextForPipeline(w, r)
  BY <1>2, <1>11, <1>13 DEF RC!UpdateReleaseContextForPipeline, MapSeen
<1>16. RC!Claim(w, r)
  BY <1>2, <1>4, <1>5, <1>6, <1>7, <1>8, <1>12, <1>14, <1>15 DEF RC!Claim, RunSeen, MapSeen
<1>17. QED
  BY <1>16

\* The clean-up is over: the worker is idle from there.
LEMMA CleanUpStep ==
  ASSUME IInv, NEW w \in Worker, CheckEntry(w) \/ RemoveEntry(w)
  PROVE  RC!CleanUpCheck(w) \/ RC!CleanUpRemove(w)
<1>1. worker \in [Worker -> Local] /\ Run(w) \in Requested /\ Run(w) = worker[w].run
  BY DEF IInv, TypeOK, HasRequest, CheckEntry, RemoveEntry, At, Run
<1>2. req[Run(w)] \in Request
  BY <1>1 DEF IInv, TypeOK, Requested
<1>3. CASE CheckEntry(w)
  <2>1. PICK pc \in {"remove", "ack"} : MovesTo(w, pc)
    BY <1>1, <1>3, StepMoves
  <2>2. UNCHANGED <<req, entry, cancel, lock>> /\ worker[w].pc = "check" /\ lock = NoWorker
    BY <1>3 DEF CheckEntry, At, db, ctx
  <2>3. \A v \in Worker \ {w} : ContextPhase(v)' = ContextPhase(v) /\ RunSeen(v)' = RunSeen(v)
    BY <2>1, <2>2, OthersSeen DEF MovesTo
  <2>4. UNCHANGED {req[d] : d \in Requested} /\ UNCHANGED MapSeen
    BY <2>1, <2>2, OthersSeen DEF MovesTo, MapSeen
  <2>5. MapSeen["pipeline"] # NoEntry /\ MapSeen["pipeline"].runner = req[Run(w)]
          <=> entry # NoEntry /\ entry.runner = Run(w)
    BY <1>1, EntrySeen DEF IInv, RequestIsUnique
  <2>6. pc = IF entry # NoEntry /\ entry.runner = Run(w) THEN "remove" ELSE "ack"
    BY <1>1, <1>3, <2>1, GotoMoves DEF CheckEntry, MovesTo, WorkerPc
  <2>7. /\ ContextPhase(w) = "check" /\ RunSeen(w) = req[Run(w)]
        /\ ContextPhase(w)' = IF pc = "remove" THEN "remove" ELSE "idle"
        /\ RunSeen(w)' = IF pc = "remove" THEN req[Run(w)] ELSE 0
    BY <1>1, <2>1, <2>2 DEF ContextPhase, RunSeen, MovesTo, At, InRelease
  <2> DEFINE Own == MapSeen["pipeline"] # NoEntry /\ MapSeen["pipeline"].runner = req[Run(w)]
  <2>8. RC!IsReleaseContextExistsForPipeline(RunSeen(w)) <=> Own
    BY <1>2, <2>7 DEF RC!IsReleaseContextExistsForPipeline, RunSeen, MapSeen
  <2>9. pc = IF Own THEN "remove" ELSE "ack"
    BY <2>5, <2>6
  <2>10. CASE Own
    <3>1. /\ [v \in Worker |-> ContextPhase(v)]' = [[v \in Worker |-> ContextPhase(v)] EXCEPT ![w] = "remove"]
          /\ UNCHANGED [v \in Worker |-> RunSeen(v)]
      BY <2>3, <2>7, <2>9, <2>10
    <3>2. QED
      BY <2>2, <2>4, <2>7, <2>8, <2>10, <3>1 DEF RC!CleanUpCheck, RunSeen, MapSeen
  <2>11. CASE ~Own
    <3>1. /\ [v \in Worker |-> ContextPhase(v)]' = [[v \in Worker |-> ContextPhase(v)] EXCEPT ![w] = "idle"]
          /\ [v \in Worker |-> RunSeen(v)]' = [[v \in Worker |-> RunSeen(v)] EXCEPT ![w] = 0]
      BY <2>3, <2>7, <2>9, <2>11
    <3>2. QED
      BY <2>2, <2>4, <2>7, <2>8, <2>11, <3>1 DEF RC!CleanUpCheck, RunSeen, MapSeen
  <2>12. QED
    BY <2>10, <2>11
<1>4. CASE RemoveEntry(w)
  <2>1. MovesTo(w, "ack")
    BY <1>1, <1>4, StepMoves
  <2>2. UNCHANGED <<req, lock>> /\ worker[w].pc = "remove" /\ lock = NoWorker /\ CancelEntry("nil")
    BY <1>4 DEF RemoveEntry, At, db
  <2>3. \A v \in Worker \ {w} : ContextPhase(v)' = ContextPhase(v) /\ RunSeen(v)' = RunSeen(v)
    BY <2>1, <2>2, OthersSeen DEF MovesTo
  <2>4. UNCHANGED {req[d] : d \in Requested}
    BY <2>1, <2>2, OthersSeen DEF MovesTo
  <2>5. MapSeen' = [MapSeen EXCEPT !["pipeline"] = NoEntry]
    BY <2>2 DEF CancelEntry, MapSeen
  <2>6. cancel' = [v \in Worker |->
          IF MapSeen["pipeline"] # NoEntry /\ MapSeen["pipeline"].owner = v
          THEN RC!Cancelled(cancel[v], "nil") ELSE cancel[v]]
    BY <2>2, EntrySeen DEF CancelEntry, RC!Cancelled
  <2>7. /\ ContextPhase(w) = "remove" /\ RunSeen(w) = req[Run(w)]
        /\ ContextPhase(w)' = "idle" /\ RunSeen(w)' = 0
    BY <1>1, <2>1, <2>2 DEF ContextPhase, RunSeen, MovesTo, At, InRelease
  <2>8. RC!CleanUpRemove(w)
    BY <1>2, <2>3, <2>4, <2>5, <2>6, <2>7 DEF RC!CleanUpRemove, RC!CancelEntry, RunSeen, MapSeen
  <2>9. QED
    BY <2>8
<1>5. QED
  BY <1>3, <1>4

\* A request is saved: no worker can have it yet.
LEMMA SaveStep ==
  ASSUME IInv, NEW d \in Deployment, SaveRequest(d)
  PROVE  \E n \in Request : RC!SaveNewDeployment(n)
<1>1. PICK n \in Request : /\ \A e \in Deployment : req[e] # n
                           /\ req' = [req EXCEPT ![d] = n]
  BY DEF SaveRequest
<1>2. UNCHANGED <<worker, entry, lock, cancel>> /\ req[d] = 0 /\ n # 0
  BY RequestAssumption DEF IInv, TriggerSavesOnce, SaveRequest, ctx
<1>3. req \in [Deployment -> Request \cup {0}]
  BY DEF IInv, TypeOK
<1>4. /\ {req[e] : e \in Requested}' = {req[e] : e \in Requested} \cup {n}
      /\ n \notin {req[e] : e \in Requested}
      /\ \A e \in Requested : req'[e] = req[e]
  BY <1>1, <1>2, <1>3 DEF Requested
<1>5. \A v \in Worker : ContextPhase(v)' = ContextPhase(v) /\ RunSeen(v)' = RunSeen(v)
  <2>1. SUFFICES ASSUME NEW v \in Worker
                 PROVE  ContextPhase(v)' = ContextPhase(v) /\ RunSeen(v)' = RunSeen(v)
    OBVIOUS
  <2>2. ContextPhase(v)' = ContextPhase(v)
    BY <1>2 DEF ContextPhase, InRelease, At
  <2>3. ContextPhase(v) # "idle" => worker[v].run \in Requested
    BY DEF IInv, HasRequest, ContextPhase, InRelease, At, Run
  <2>4. QED
    BY <1>2, <1>4, <2>2, <2>3 DEF RunSeen
<1>6. UNCHANGED MapSeen
  BY <1>2, <1>4 DEF MapSeen, IInv, EntryHasRequest
<1>7. RC!SaveNewDeployment(n)
  BY <1>2, <1>4, <1>5, <1>6 DEF RC!SaveNewDeployment, RunSeen, MapSeen
<1>8. QED
  BY <1>7

\* The process stops its releases, or itself.
LEMMA StopStep ==
  ASSUME IInv, ShutDownDevtronAppReleaseContext \/ Restart
  PROVE  RC!ShutDownDevtronAppReleaseContext \/ RC!Restart
<1>1. CASE ShutDownDevtronAppReleaseContext
  <2>1. UNCHANGED <<req, lock, worker>> /\ CancelEntry("shutdown")
    BY <1>1 DEF ShutDownDevtronAppReleaseContext, db
  <2>2. \A v \in Worker : ContextPhase(v)' = ContextPhase(v) /\ RunSeen(v)' = RunSeen(v)
    BY <2>1 DEF ContextPhase, InRelease, At, RunSeen
  <2>3. UNCHANGED {req[d] : d \in Requested}
    BY <2>1 DEF Requested
  <2>4. MapSeen' = [p \in {"pipeline"} |-> NoEntry]
    BY <2>1 DEF CancelEntry, MapSeen
  <2>5. cancel' = [v \in Worker |->
          IF \E p \in {"pipeline"} : MapSeen[p] # NoEntry /\ MapSeen[p].owner = v
          THEN RC!Cancelled(cancel[v], "shutdown") ELSE cancel[v]]
    BY <2>1, EntrySeen DEF CancelEntry, RC!Cancelled
  <2>6. RC!ShutDownDevtronAppReleaseContext
    BY <2>2, <2>3, <2>4, <2>5 DEF RC!ShutDownDevtronAppReleaseContext, RunSeen, MapSeen
  <2>7. QED
    BY <2>6
<1>2. CASE Restart
  <2>1. /\ UNCHANGED req /\ entry' = NoEntry /\ lock' = NoWorker
        /\ worker' = [w \in Worker |-> Idle] /\ cancel' = [w \in Worker |-> "none"]
    BY <1>2 DEF Restart, db
  <2>2. \A v \in Worker : ContextPhase(v)' = "idle" /\ RunSeen(v)' = 0
    BY <2>1 DEF ContextPhase, InRelease, At, RunSeen, Idle
  <2>3. UNCHANGED {req[d] : d \in Requested} /\ MapSeen' = [p \in {"pipeline"} |-> NoEntry]
    BY <2>1 DEF Requested, MapSeen
  <2>4. RC!Restart
    BY <2>1, <2>2, <2>3 DEF RC!Restart, RunSeen, MapSeen
  <2>5. QED
    BY <2>4
<1>3. QED
  BY <1>1, <1>2

\* Any other step: from the map, what a worker does inside its release, or
\* while it has none, is not seen.
LEMMA WorkerRefines ==
  ASSUME IInv, NEW w \in Worker, WorkerStep(w)
  PROVE  RC!Next \/ UNCHANGED RC!vars
<1> DEFINE Releasing == ReleasePc \cup {"mark", "markTimeline"}
<1> DEFINE Idling == {"idle", "read", "validate", "ack"}
<1> USE DEF ReleasePc
<1>1. worker \in [Worker -> Local] /\ LockIsMarking
  BY DEF IInv, TypeOK
<1>2. ASSUME NEW pc \in Releasing, MovesTo(w, pc), worker[w].pc \in Releasing,
             UNCHANGED <<req, entry, cancel, lock>>
      PROVE  UNCHANGED RC!vars
  <2>1. ContextPhase(w)' = ContextPhase(w)
    BY <1>2 DEF ContextPhase, InRelease, At, MovesTo
  <2>2. QED
    BY <1>2, <2>1, QuietStep
<1>3. ASSUME NEW pc \in Idling, MovesTo(w, pc), worker[w].pc \in Idling,
             UNCHANGED <<req, entry, cancel, lock>>
      PROVE  UNCHANGED RC!vars
  <2>1. ContextPhase(w)' = ContextPhase(w)
    BY <1>3 DEF ContextPhase, InRelease, At, MovesTo
  <2>2. QED
    BY <1>3, <2>1, QuietStep
<1>4. ASSUME MovesTo(w, "check"), worker[w].pc \in Releasing, lock # w,
             UNCHANGED <<req, entry, cancel, lock>>
      PROVE  RC!Next
  <2>1. InRelease(w)
    BY <1>4 DEF InRelease, At
  <2>2. RC!Return(w)
    BY <1>4, <2>1, ReturnStep
  <2>3. QED
    BY <2>2 DEF RC!Next, RC!WorkerStep
<1>5. worker[w].pc \notin {"mark", "markTimeline"} => lock # w
  BY <1>1 DEF LockIsMarking, At
\* Steps outside a release.
<1>6. CASE RejectRequest(w)
  <2>1. MovesTo(w, "mark") /\ lock = NoWorker /\ lock' = w /\ UNCHANGED <<req, entry, cancel>>
        /\ worker[w].pc = "validate"
    BY <1>1, <1>6, StepMoves DEF RejectRequest, At, db
  <2>2. ContextPhase(w)' = ContextPhase(w)
    BY <2>1, NoWorkerAssumption DEF ContextPhase, InRelease, At, MovesTo
  <2>3. QED
    BY <2>1, <2>2, QuietStep, NoWorkerAssumption
<1>7. CASE Acknowledge(w)
  <2>1. worker' = [worker EXCEPT ![w] = Idle] /\ worker[w].pc = "ack"
        /\ UNCHANGED <<req, entry, cancel, lock>>
    BY <1>7 DEF Acknowledge, At, db, ctx
  <2>2. ContextPhase(w) = "idle" /\ ContextPhase(w)' = "idle"
    BY <1>1, <2>1 DEF ContextPhase, InRelease, At, Idle
  <2>3. \A v \in Worker : ContextPhase(v)' = ContextPhase(v) /\ RunSeen(v)' = RunSeen(v)
    BY <1>1, <2>1, <2>2, OthersSeen DEF RunSeen
  <2>4. UNCHANGED {req[d] : d \in Requested}
    BY <2>1 DEF Requested
  <2>5. QED
    BY <2>1, <2>3, <2>4 DEF RC!vars, RunSeen
<1>8. CASE MarkTimeline(w)
  <2>1. worker[w].pc = "markTimeline" /\ UNCHANGED <<req, entry, cancel>>
        /\ lock' = (IF lock = w THEN NoWorker ELSE lock)
        /\ Goto(w, IF lock = w THEN "ack" ELSE "check")
    BY <1>8 DEF MarkTimeline, At
  <2>2. CASE lock = w
    <3>1. MovesTo(w, "ack")
      BY <1>1, <2>1, <2>2, GotoMoves DEF WorkerPc
    <3>2. ContextPhase(w)' = ContextPhase(w)
      BY <2>1, <2>2, <3>1 DEF ContextPhase, InRelease, At, MovesTo
    <3>3. QED
      BY <2>1, <2>2, <3>1, <3>2, QuietStep, NoWorkerAssumption
  <2>3. CASE lock # w
    <3>1. MovesTo(w, "check")
      BY <1>1, <2>1, <2>3, GotoMoves DEF WorkerPc
    <3>2. QED
      BY <1>4, <2>1, <2>3, <3>1
  <2>4. QED
    BY <2>2, <2>3
<1>9. CASE ClaimRequest(w)
  <2>1. PICK r \in Request : RC!Claim(w, r)
    BY <1>9, ClaimStep
  <2>2. QED
    BY <2>1 DEF RC!Next
<1>10. CASE CheckEntry(w) \/ RemoveEntry(w)
  BY <1>10, CleanUpStep DEF RC!Next, RC!WorkerStep
<1> USE <1>1, <1>2, <1>3, <1>4, <1>5, StepMoves DEF At, ctx, db
<1>11. CASE ReadRunner(w) \/ SkipRequest(w)
  BY <1>11 DEF ReadRunner, SkipRequest
<1>12. CASE BeginRelease(w)
  BY <1>12 DEF BeginRelease
<1>13. CASE WriteStarting(w)
  BY <1>13 DEF WriteStarting
<1>14. CASE BuildTriggerEvent(w)
  BY <1>14 DEF BuildTriggerEvent
<1>15. CASE ReadForProgressing(w)
  BY <1>15 DEF ReadForProgressing
<1>16. CASE WriteProgressing(w)
  BY <1>16 DEF WriteProgressing
<1>17. CASE PushChart(w)
  BY <1>17 DEF PushChart
<1>18. CASE DeployArgoCdApp(w)
  BY <1>18 DEF DeployArgoCdApp
<1>19. CASE InstallHelmApp(w)
  BY <1>19 DEF InstallHelmApp
<1>20. CASE ReadPrevious(w)
  BY <1>20 DEF ReadPrevious
<1>21. CASE FailPrevious(w)
  BY <1>21 DEF FailPrevious
<1>22. CASE StampPrevious(w)
  BY <1>22 DEF StampPrevious
<1>23. CASE StampTriggered(w)
  BY <1>23 DEF StampTriggered
<1>24. CASE IgnoreError(w)
  BY <1>24 DEF IgnoreError
<1>25. CASE RecordHelmDeadline(w)
  BY <1>25 DEF RecordHelmDeadline
<1>26. CASE RecordError(w)
  BY <1>26 DEF RecordError
<1>27. CASE MarkFailed(w)
  BY <1>27 DEF MarkFailed
<1>28. QED
  BY <1>6, <1>7, <1>8, <1>9, <1>10, <1>11, <1>12, <1>13, <1>14, <1>15, <1>16, <1>17, <1>18,
     <1>19, <1>20, <1>21, <1>22, <1>23, <1>24, <1>25, <1>26, <1>27 DEF WorkerStep

\* Steps of others; a worker that takes up a request is idle still.
LEMMA OtherRefines ==
  ASSUME IInv, [Next]_vars, \A w \in Worker : ~WorkerStep(w)
  PROVE  RC!Next \/ UNCHANGED RC!vars
<1>1. worker \in [Worker -> Local]
  BY DEF IInv, TypeOK
<1>2. ASSUME UNCHANGED <<req, worker, ctx>>
      PROVE  UNCHANGED RC!vars
  <2>1. \A v \in Worker : ContextPhase(v)' = ContextPhase(v) /\ RunSeen(v)' = RunSeen(v)
    BY <1>2 DEF ContextPhase, InRelease, At, RunSeen, ctx
  <2>2. UNCHANGED {req[d] : d \in Requested}
    BY <1>2 DEF Requested
  <2>3. QED
    BY <1>2, <2>1, <2>2 DEF RC!vars, RunSeen, ctx
<1>3. ASSUME NEW w \in Worker, At(w, "idle"), NEW l, l.pc = "read",
             worker' = [worker EXCEPT ![w] = l], UNCHANGED <<req, ctx>>
      PROVE  UNCHANGED RC!vars
  <2>1. worker'[w].pc = "read" /\ worker[w].pc = "idle"
        /\ \A v \in Worker \ {w} : worker'[v] = worker[v]
    BY <1>1, <1>3 DEF At
  <2>2. ContextPhase(w) = "idle" /\ ContextPhase(w)' = "idle"
    BY <2>1 DEF ContextPhase, InRelease, At
  <2>3. \A v \in Worker : ContextPhase(v)' = ContextPhase(v) /\ RunSeen(v)' = RunSeen(v)
    BY <1>3, <2>1, <2>2, OthersSeen DEF RunSeen, ctx
  <2>4. UNCHANGED {req[d] : d \in Requested}
    BY <1>3 DEF Requested
  <2>5. QED
    BY <1>3, <2>3, <2>4 DEF RC!vars, RunSeen, ctx
<1>4. CASE UNCHANGED vars
  BY <1>2, <1>4 DEF vars, db
<1>5. ASSUME NEW d \in Deployment, SaveRunner(d) \/ TriggerStep(d) \/ Redeliver(d) \/ CronRead(d)
      PROVE  RC!Next \/ UNCHANGED RC!vars
  <2>1. CASE SaveRequest(d)
    <3>1. PICK n \in Request : RC!SaveNewDeployment(n)
      BY <2>1, SaveStep
    <3>2. QED
      BY <3>1 DEF RC!Next
  <2>2. CASE ~SaveRequest(d)
    <3>1. UNCHANGED <<req, worker, ctx>>
      BY <1>5, <2>2 DEF SaveRunner, Redeliver, CronRead, TriggerStep, Publish, ReadForQueued,
         WriteQueued, ReadPreviousQueued, StampPreviousQueued, FailPreviousQueued,
         FailTrigger, FailTriggerTimeline, db
    <3>2. QED
      BY <1>2, <3>1
  <2>3. QED
    BY <2>1, <2>2
<1>6. ASSUME NEW w \in Worker, NEW d \in Deployment, Deliver(w, d)
      PROVE  UNCHANGED RC!vars
  <2>1. PICK e \in Requested :
          worker' = [worker EXCEPT ![w] = [Idle EXCEPT !.pc = "read", !.run = e, !.msg = d]]
    BY <1>6 DEF Deliver
  <2>2. [Idle EXCEPT !.pc = "read", !.run = e, !.msg = d].pc = "read"
    BY DEF Idle
  <2>3. At(w, "idle") /\ UNCHANGED <<req, ctx>>
    BY <1>6 DEF Deliver, db
  <2>4. QED
    BY <1>3, <2>1, <2>2, <2>3
<1>7. ASSUME NEW w \in Worker, ProcessIncompleteDeploymentReq(w)
      PROVE  UNCHANGED RC!vars
  <2>1. At(w, "idle") /\ UNCHANGED <<req, ctx>>
    BY <1>7 DEF ProcessIncompleteDeploymentReq, db
  <2>2. CASE UNCHANGED worker
    BY <1>2, <2>1, <2>2
  <2>3. CASE worker' # worker
    <3>1. PICK d \in Incomplete :
            worker' = [worker EXCEPT ![w] = [Idle EXCEPT !.pc = "read", !.run = d]]
      BY <1>7, <2>3 DEF ProcessIncompleteDeploymentReq
    <3>2. [Idle EXCEPT !.pc = "read", !.run = d].pc = "read"
      BY DEF Idle
    <3>3. QED
      BY <1>3, <2>1, <3>1, <3>2
  <2>4. QED
    BY <2>2, <2>3
<1>8. ASSUME NEW w \in Worker, DeadlineExceeded(w)
      PROVE  RC!Next
  <2>1. cancel[w] = "live" /\ cancel' = [cancel EXCEPT ![w] = "deadline"]
        /\ UNCHANGED <<req, worker, entry, lock>>
    BY <1>8 DEF DeadlineExceeded, db
  <2>2. \A v \in Worker : ContextPhase(v)' = ContextPhase(v) /\ RunSeen(v)' = RunSeen(v)
    BY <2>1 DEF ContextPhase, InRelease, At, RunSeen
  <2>3. UNCHANGED {req[d] : d \in Requested}
    BY <2>1 DEF Requested
  <2>4. RC!DeadlineExceeded(w)
    BY <2>1, <2>2, <2>3 DEF RC!DeadlineExceeded, RunSeen
  <2>5. QED
    BY <2>4 DEF RC!Next
<1>9. CASE CronWrite
  BY <1>2, <1>9 DEF CronWrite
<1>10. CASE ShutDownDevtronAppReleaseContext \/ Restart
  BY <1>10, StopStep DEF RC!Next
<1>11. CASE Next
  BY <1>5, <1>6, <1>7, <1>8, <1>9, <1>10, <1>11 DEF Next
<1>12. QED
  BY <1>4, <1>11

\* The workers of AsyncDeploy use devtronAppReleaseContextMap as ReleaseContext
\* says: nothing that triggers, crons, redeliveries, failures, shutdowns and
\* restarts do in between lets one of them take another step on it.
THEOREM Implements == Spec => ImplementsReleaseContext
<1>1. Init => RC!Init
  <2> SUFFICES ASSUME Init PROVE RC!Init
    OBVIOUS
  <2>1. \A w \in Worker : ContextPhase(w) = "idle"
    BY DEF Init, ContextPhase, InRelease, At, Idle
  <2>2. {req[d] : d \in Requested} = {}
    BY DEF Init, Requested
  <2>3. QED
    BY <2>1, <2>2 DEF Init, RC!Init
<1>2. IInv /\ [Next]_vars => [RC!Next]_(RC!vars)
  BY WorkerRefines, OtherRefines
<1>3. IInv /\ [Next]_vars => IInv'
  BY Inductive
<1>4. QED
  BY InitHolds, <1>1, <1>2, <1>3, PTL DEF Spec, ImplementsReleaseContext, RC!Spec

-----------------------------------------------------------------------------
(* Releases reach the cluster in order. *)

\* The theorems about the map, for the map as the workers here use it.
RCP == INSTANCE ReleaseContextProofs WITH
  Pipeline <- {"pipeline"},
  Runner <- Request,
  PipelineOf <- [n \in Request |-> "pipeline"],
  NoRunner <- 0,
  saved <- {req[d] : d \in Requested},
  ctxMap <- [p \in {"pipeline"} |->
               IF entry = NoEntry THEN NoEntry
               ELSE [runner |-> req[entry.runner], owner |-> entry.owner]],
  phase <- [w \in Worker |-> ContextPhase(w)],
  run <- [w \in Worker |-> IF ContextPhase(w) = "idle" THEN 0 ELSE req[worker[w].run]]

\* No release in progress is older than the one on the cluster.
DeployedIsOld ==
  deployed # 0 =>
    /\ deployed \in Requested
    /\ \A w \in Worker : cancel[w] = "live" => req[deployed] <= req[Run(w)]

OrderInv == IInv /\ RCP!IInv /\ DeployedIsOld

LEMMA StepSeen ==
  ASSUME IInv, [Next]_vars
  PROVE  [RCP!Next]_(RCP!vars)
<1>1. [RC!Next]_(RC!vars)
  BY WorkerRefines, OtherRefines
<1>2. [RC!Next]_(RC!vars) => [RCP!Next]_(RCP!vars)
  BY Zenon DEF RC!Next, RC!vars, RC!SaveNewDeployment, RC!Claim, RC!WorkerStep, RC!Return,
     RC!CleanUpCheck, RC!CleanUpRemove, RC!DeadlineExceeded, RC!RemoveReleaseContextForPipeline,
     RC!ShutDownDevtronAppReleaseContext, RC!Restart, RC!IsLatest, RC!CancelEntry, RC!Cancelled,
     RC!UpdateReleaseContextForPipeline, RC!IsReleaseContextExistsForPipeline,
     RCP!Next, RCP!vars, RCP!SaveNewDeployment, RCP!Claim, RCP!WorkerStep, RCP!Return,
     RCP!CleanUpCheck, RCP!CleanUpRemove, RCP!DeadlineExceeded, RCP!RemoveReleaseContextForPipeline,
     RCP!ShutDownDevtronAppReleaseContext, RCP!Restart, RCP!IsLatest, RCP!CancelEntry, RCP!Cancelled,
     RCP!UpdateReleaseContextForPipeline, RCP!IsReleaseContextExistsForPipeline
<1>3. QED
  BY <1>1, <1>2

LEMMA MapKeeps ==
  ASSUME IInv, RCP!IInv, [Next]_vars
  PROVE  RCP!IInv'
<1>1. Request \subseteq Nat /\ 0 \notin Request
  BY RequestAssumption
<1>2. [n \in Request |-> "pipeline"] \in [Request -> {"pipeline"}]
  OBVIOUS
<1>3. NoEntry \notin [runner : Request, owner : Worker]
  BY NoEntryAssumption
<1>4. QED
  BY <1>1, <1>2, <1>3, StepSeen, RCP!SafetyInductive DEF RCP!Entry

\* A release whose context is live has the entry, and a saved request.
LEMMA LiveSeen ==
  ASSUME OrderInv, NEW w \in Worker, cancel[w] = "live"
  PROVE  /\ ContextPhase(w) # "idle" /\ ~At(w, "idle") /\ ~At(w, "ack")
         /\ Run(w) \in Requested /\ entry # NoEntry /\ entry.owner = w
<1>1. RCP!LiveIsRegistered
  BY DEF OrderInv, RCP!IInv
<1>2. /\ ContextPhase(w) # "idle"
      /\ RunSeen(w) \in Request
      /\ MapSeen["pipeline"] = [runner |-> RunSeen(w), owner |-> w]
  BY <1>1 DEF RCP!LiveIsRegistered, RCP!Busy, RunSeen, MapSeen
<1>3. ~At(w, "idle") /\ ~At(w, "ack")
  BY <1>2 DEF ContextPhase, InRelease, At
<1>4. MapSeen["pipeline"] # NoEntry
  <2>1. MapSeen["pipeline"] \in [runner : Deployment \cup Request, owner : Worker]
    BY <1>2
  <2>2. QED
    BY <2>1, NoEntryAssumption
<1>5. QED
  BY <1>2, <1>3, <1>4, EntrySeen DEF OrderInv, IInv, HasRequest

\* Where nothing is released and no context becomes live.
LEMMA NothingReleased ==
  ASSUME OrderInv, deployed' = deployed,
         \A d \in Requested : d \in Requested' /\ req'[d] = req[d],
         \A v \in Worker : cancel'[v] = "live" =>
           cancel[v] = "live" /\ (At(v, "idle") \/ At(v, "ack") \/ worker'[v].run = worker[v].run)
  PROVE  DeployedIsOld'
<1>1. ASSUME NEW v \in Worker, cancel'[v] = "live"
      PROVE  cancel[v] = "live" /\ Run(v)' = Run(v) /\ Run(v) \in Requested
  BY <1>1, LiveSeen DEF Run
<1>2. QED
  BY <1>1 DEF OrderInv, DeployedIsOld

LEMMA CancelOnly ==
  ASSUME NEW cause \in {"nil", "shutdown"}, CancelEntry(cause), NEW v \in Worker,
         cancel'[v] = "live"
  PROVE  cancel[v] = "live"
BY DEF CancelEntry

\* A release: no other one is live.
LEMMA ReleaseKeeps ==
  ASSUME OrderInv, NEW w \in Worker, cancel[w] = "live", deployed' = Run(w),
         NEW pc, MovesTo(w, pc), UNCHANGED <<req, cancel>>
  PROVE  /\ DeployedIsOld'
         /\ deployed # 0 /\ deployed' # deployed => req[deployed] < req[deployed']
<1>1. Run(w) \in Requested /\ Run(w)' = Run(w)
  BY LiveSeen DEF MovesTo, Run
<1>2. req[Run(w)] \in Nat /\ (deployed # 0 => req[deployed] \in Nat)
  BY <1>1, RequestAssumption DEF OrderInv, DeployedIsOld, IInv, TypeOK, Requested
<1>3. \A v \in Worker : cancel[v] = "live" => v = w
  BY LiveSeen
<1>4. DeployedIsOld'
  BY <1>1, <1>2, <1>3 DEF DeployedIsOld, Requested
<1>5. ASSUME deployed # 0, deployed' # deployed
      PROVE  req[deployed] < req[deployed']
  BY <1>1, <1>2, <1>5 DEF OrderInv, DeployedIsOld, IInv, RequestIsUnique
<1>6. QED
  BY <1>4, <1>5

LEMMA OrderKeeps ==
  ASSUME OrderInv, [Next]_vars
  PROVE  /\ DeployedIsOld'
         /\ deployed' # deployed /\ deployed # 0 => req[deployed] < req[deployed']
<1>1. worker \in [Worker -> Local] /\ IInv /\ req \in [Deployment -> Request \cup {0}]
  BY DEF OrderInv, IInv, TypeOK
<1>2. ASSUME deployed' = deployed, UNCHANGED req,
             \A v \in Worker : cancel'[v] = "live" =>
               cancel[v] = "live" /\ (At(v, "idle") \/ At(v, "ack") \/ worker'[v].run = worker[v].run)
      PROVE  DeployedIsOld'
  BY <1>2, NothingReleased DEF Requested
<1>3. ASSUME NEW w \in Worker, WorkerStep(w)
      PROVE  /\ DeployedIsOld'
             /\ deployed' # deployed /\ deployed # 0 => req[deployed] < req[deployed']
  <2>1. UNCHANGED req
    BY <1>3 DEF WorkerStep, ReadRunner, SkipRequest, RejectRequest, ClaimRequest, BeginRelease,
       WriteStarting, BuildTriggerEvent, ReadForProgressing, WriteProgressing, PushChart,
       DeployArgoCdApp, InstallHelmApp, ReadPrevious, FailPrevious, StampPrevious,
       StampTriggered, IgnoreError, RecordHelmDeadline, RecordError, MarkFailed,
       MarkTimeline, CheckEntry, RemoveEntry, Acknowledge, db
  <2>2. CASE DeployArgoCdApp(w) \/ InstallHelmApp(w)
    <3>1. PICK pc : MovesTo(w, pc)
      BY <1>1, <2>2, StepMoves
    <3>2. UNCHANGED cancel /\ ((cancel[w] = "live" /\ deployed' = Run(w)) \/ UNCHANGED deployed)
      BY <2>2 DEF DeployArgoCdApp, InstallHelmApp, ctx
    <3>3. CASE UNCHANGED deployed
      BY <1>2, <2>1, <3>1, <3>2, <3>3 DEF MovesTo
    <3>4. CASE deployed' # deployed
      BY <2>1, <3>1, <3>2, <3>4, ReleaseKeeps
    <3>5. QED
      BY <3>3, <3>4
  <2>3. CASE ClaimRequest(w)
    <3>1. MovesTo(w, "begin") /\ Register(w) /\ UNCHANGED deployed /\ IsLatest(Run(w))
          /\ ~At(w, "idle")
      BY <1>1, <2>3, StepMoves DEF ClaimRequest, At
    <3>2. ASSUME NEW v \in Worker, cancel'[v] = "live", deployed # 0
          PROVE  req[deployed] <= req[Run(v)] /\ Run(v)' = Run(v)
      <4>1. Run(v)' = Run(v)
        BY <3>1 DEF MovesTo, Run
      <4>2. CASE v = w
        BY <3>1, <3>2, <4>1, <4>2 DEF IsLatest, OrderInv, DeployedIsOld
      <4>3. CASE v # w
        BY <3>1, <3>2, <4>1, <4>3 DEF Register, OrderInv, DeployedIsOld
      <4>4. QED
        BY <4>2, <4>3, <4>1
    <3>3. QED
      BY <2>1, <3>1, <3>2 DEF OrderInv, DeployedIsOld, Requested
  <2>4. CASE RemoveEntry(w)
    <3>1. MovesTo(w, "ack") /\ CancelEntry("nil") /\ UNCHANGED deployed
      BY <1>1, <2>4, StepMoves DEF RemoveEntry
    <3>2. QED
      BY <1>2, <2>1, <3>1, CancelOnly DEF MovesTo
  <2>5. CASE Acknowledge(w)
    <3>1. /\ worker' = [worker EXCEPT ![w] = Idle] /\ At(w, "ack")
          /\ UNCHANGED <<cancel, deployed>>
      BY <2>5 DEF Acknowledge, ctx
    <3>2. \A v \in Worker : At(v, "ack") \/ worker'[v].run = worker[v].run
      BY <1>1, <3>1
    <3>3. QED
      BY <1>2, <2>1, <3>1, <3>2
  <2>6. CASE ~(DeployArgoCdApp(w) \/ InstallHelmApp(w) \/ ClaimRequest(w) \/ RemoveEntry(w)
               \/ Acknowledge(w))
    <3>1. UNCHANGED <<cancel, deployed>>
      BY <1>3, <2>6 DEF WorkerStep, ReadRunner, SkipRequest, RejectRequest, BeginRelease,
         WriteStarting, BuildTriggerEvent, ReadForProgressing, WriteProgressing, PushChart,
         ReadPrevious, FailPrevious, StampPrevious, StampTriggered, IgnoreError,
         RecordHelmDeadline, RecordError, MarkFailed, MarkTimeline, CheckEntry, ctx
    <3>2. \E pc : MovesTo(w, pc)
      BY <1>1, <1>3, <2>6, StepMoves DEF WorkerStep
    <3>3. \A v \in Worker : worker'[v].run = worker[v].run
      BY <3>2 DEF MovesTo
    <3>4. QED
      BY <1>2, <2>1, <3>1, <3>3
  <2>7. QED
    BY <2>2, <2>3, <2>4, <2>5, <2>6
<1>4. CASE UNCHANGED vars
  BY <1>2, <1>4 DEF vars, db, ctx
<1>5. ASSUME NEW d \in Deployment, SaveRunner(d) \/ TriggerStep(d) \/ Redeliver(d) \/ CronRead(d)
      PROVE  UNCHANGED deployed /\ DeployedIsOld'
  <2>1. UNCHANGED <<deployed, cancel, worker>>
    BY <1>5 DEF SaveRunner, Redeliver, CronRead, TriggerStep, SaveRequest, Publish, ReadForQueued,
       WriteQueued, ReadPreviousQueued, StampPreviousQueued, FailPreviousQueued,
       FailTrigger, FailTriggerTimeline, ctx
  <2>2. CASE SaveRequest(d)
    <3>1. PICK n \in Request : req' = [req EXCEPT ![d] = n]
      BY <2>2 DEF SaveRequest
    <3>2. req[d] = 0
      BY <1>1, <2>2 DEF IInv, TriggerSavesOnce, SaveRequest
    <3>3. \A e \in Requested : e \in Requested' /\ req'[e] = req[e]
      BY <1>1, <3>1, <3>2 DEF Requested
    <3>4. QED
      BY <2>1, <3>3, NothingReleased
  <2>3. CASE ~SaveRequest(d)
    <3>1. UNCHANGED req
      BY <1>5, <2>3 DEF SaveRunner, Redeliver, CronRead, TriggerStep, Publish, ReadForQueued,
         WriteQueued, ReadPreviousQueued, StampPreviousQueued, FailPreviousQueued,
         FailTrigger, FailTriggerTimeline, db
    <3>2. QED
      BY <1>2, <2>1, <3>1
  <2>4. QED
    BY <2>1, <2>2, <2>3
\* A worker that takes up a request has no live context.
<1>6. ASSUME NEW w \in Worker,
             (\E d \in Deployment : Deliver(w, d)) \/ ProcessIncompleteDeploymentReq(w)
      PROVE  UNCHANGED deployed /\ DeployedIsOld'
  <2>1. /\ UNCHANGED <<deployed, cancel, req>> /\ At(w, "idle")
        /\ \E l : worker' = [worker EXCEPT ![w] = l] \/ UNCHANGED worker
    BY <1>6 DEF Deliver, ProcessIncompleteDeploymentReq, ctx, db
  <2>2. \A v \in Worker : At(v, "idle") \/ worker'[v].run = worker[v].run
    BY <1>1, <2>1
  <2>3. QED
    BY <1>2, <2>1, <2>2
<1>7. ASSUME NEW w \in Worker, DeadlineExceeded(w)
      PROVE  UNCHANGED deployed /\ DeployedIsOld'
  <2>1. /\ UNCHANGED <<deployed, worker, req>>
        /\ \A v \in Worker : cancel'[v] = "live" => cancel[v] = "live"
    BY <1>1, <1>7 DEF DeadlineExceeded, db, IInv, TypeOK
  <2>2. QED
    BY <1>2, <2>1
<1>8. CASE CronWrite
  BY <1>2, <1>8 DEF CronWrite, ctx
<1>9. CASE ShutDownDevtronAppReleaseContext
  <2>1. UNCHANGED <<deployed, worker, req>> /\ CancelEntry("shutdown")
    BY <1>9 DEF ShutDownDevtronAppReleaseContext, db
  <2>2. QED
    BY <1>2, <2>1, CancelOnly
<1>10. CASE Restart
  <2>1. UNCHANGED <<deployed, req>> /\ \A v \in Worker : cancel'[v] = "none"
    BY <1>10 DEF Restart, db
  <2>2. QED
    BY <1>2, <2>1
<1>11. QED
  BY <1>3, <1>4, <1>5, <1>6, <1>7, <1>8, <1>9, <1>10 DEF Next

LEMMA InitOrder == Init => OrderInv
<1> SUFFICES ASSUME Init PROVE OrderInv
  OBVIOUS
<1>1. \A w \in Worker : ContextPhase(w) = "idle"
  BY DEF Init, ContextPhase, InRelease, At, Idle
<1>2. {req[d] : d \in Requested} = {}
  BY DEF Init, Requested
<1>3. RCP!IInv
  BY <1>1, <1>2 DEF Init, RCP!IInv, RCP!TypeOK, RCP!Phase, RCP!Cause, RCP!BusyIsSaved,
     RCP!LiveIsRegistered, RCP!EntryHasWorker, RCP!LiveIsNewest, RCP!Busy
<1>4. QED
  BY <1>3, InitHolds DEF Init, OrderInv, DeployedIsOld

LEMMA OrderInductive ==
  ASSUME OrderInv, [Next]_vars
  PROVE  OrderInv'
BY Inductive, MapKeeps, OrderKeeps DEF OrderInv

\* A Helm release that is superseded never lands after its successor (the
\* cancelled context of createHelmAppForCdPipeline), whatever is redelivered,
\* restarted or cancelled by a clean-up that is not its own.  An Argo CD pipeline
\* is left out: its commits are not in deployed.
THEOREM InOrder == AppType = "helm" => (Spec => ReleasesInOrder)
<1> SUFFICES Spec => ReleasesInOrder
  OBVIOUS
<1>1. OrderInv /\ [Next]_vars =>
        [deployed' # deployed /\ deployed # 0 => req[deployed] < req[deployed']]_vars
  BY OrderKeeps
<1>2. QED
  BY <1>1, InitOrder, OrderInductive, PTL DEF Spec, ReleasesInOrder
-----------------------------------------------------------------------------
(* A runner that failed has a timeline that says why.                      *)

\* Worker w goes on to pc with what it read and computed; no other worker moves.
Holds(w, pc, snap, previous, todo) ==
  /\ MovesTo(w, pc)
  /\ worker'[w].snap = snap
  /\ worker'[w].previous = previous /\ worker'[w].todo = todo

LEMMA GotoHolds ==
  ASSUME worker \in [Worker -> Local], NEW w \in Worker, NEW pc \in WorkerPc, Goto(w, pc)
  PROVE  Holds(w, pc, IF pc \in {"check", "ack"} THEN "none" ELSE worker[w].snap,
               worker[w].previous, worker[w].todo)
<1>1. MovesTo(w, pc)
  BY GotoMoves
<1>2. \A l \in Local :
        /\ [l EXCEPT !.pc = pc].snap = l.snap
        /\ [l EXCEPT !.pc = pc].previous = l.previous
        /\ [l EXCEPT !.pc = pc].todo = l.todo
        /\ [l EXCEPT !.pc = pc, !.snap = "none", !.err = "none"].snap = "none"
        /\ [l EXCEPT !.pc = pc, !.snap = "none", !.err = "none"].previous = l.previous
        /\ [l EXCEPT !.pc = pc, !.snap = "none", !.err = "none"].todo = l.todo
  BY DEF Local
<1>3. worker[w] \in Local
  OBVIOUS
<1>4. QED
  BY <1>1, <1>2, <1>3 DEF Goto, Holds

LEMMA RaiseHolds ==
  ASSUME worker \in [Worker -> Local], NEW w \in Worker, NEW err, Raise(w, err)
  PROVE  Holds(w, "error", worker[w].snap, worker[w].previous, worker[w].todo)
<1>1. MovesTo(w, "error")
  BY RaiseMoves
<1>2. \A l \in Local :
        /\ [l EXCEPT !.pc = "error", !.err = err].snap = l.snap
        /\ [l EXCEPT !.pc = "error", !.err = err].previous = l.previous
        /\ [l EXCEPT !.pc = "error", !.err = err].todo = l.todo
  BY DEF Local
<1>3. worker' = [worker EXCEPT ![w] = [worker[w] EXCEPT !.pc = "error", !.err = err]]
  BY DEF Raise
<1>4. worker[w] \in Local
  OBVIOUS
<1>5. QED
  BY <1>1, <1>2, <1>3, <1>4 DEF Holds

LEMMA SnapHolds ==
  ASSUME worker \in [Worker -> Local], NEW w \in Worker, NEW pc, NEW s,
         worker' = [worker EXCEPT ![w].pc = pc, ![w].snap = s]
  PROVE  Holds(w, pc, s, worker[w].previous, worker[w].todo)
<1>1. MovesTo(w, pc)
  BY FieldsMove
<1>2. \A l \in Local :
        /\ [l EXCEPT !.pc = pc, !.snap = s].snap = s
        /\ [l EXCEPT !.pc = pc, !.snap = s].previous = l.previous
        /\ [l EXCEPT !.pc = pc, !.snap = s].todo = l.todo
  BY DEF Local
<1>3. worker' = [worker EXCEPT ![w] = [worker[w] EXCEPT !.pc = pc, !.snap = s]]
  OBVIOUS
<1>4. worker[w] \in Local
  OBVIOUS
<1>5. QED
  BY <1>1, <1>2, <1>3, <1>4 DEF Holds

LEMMA ErrHolds ==
  ASSUME worker \in [Worker -> Local], NEW w \in Worker, NEW pc, NEW err,
         worker' = [worker EXCEPT ![w].pc = pc, ![w].err = err]
  PROVE  Holds(w, pc, worker[w].snap, worker[w].previous, worker[w].todo)
<1>1. MovesTo(w, pc)
  BY FieldsMove
<1>2. \A l \in Local :
        /\ [l EXCEPT !.pc = pc, !.err = err].snap = l.snap
        /\ [l EXCEPT !.pc = pc, !.err = err].previous = l.previous
        /\ [l EXCEPT !.pc = pc, !.err = err].todo = l.todo
  BY DEF Local
<1>3. worker' = [worker EXCEPT ![w] = [worker[w] EXCEPT !.pc = pc, !.err = err]]
  OBVIOUS
<1>4. worker[w] \in Local
  OBVIOUS
<1>5. QED
  BY <1>1, <1>2, <1>3, <1>4 DEF Holds

\* What ReadPrevious, FailPrevious and StampPrevious have in hand.
LEMMA PreviousHolds ==
  ASSUME worker \in [Worker -> Local], NEW w \in Worker
  PROVE  /\ ReadPrevious(w) =>
              \E pc \in {"triggered", "supersedeWrite"}, S \in SUBSET Deployment :
                Holds(w, pc, worker[w].snap, S, S)
         /\ FailPrevious(w) =>
              \E pc \in {"supersedeTimeline", "supersedeWrite"}, e \in worker[w].todo :
                /\ Holds(w, pc, worker[w].snap, worker[w].previous, worker[w].todo \ {e})
                /\ SetStatus({e}, "Failed")
         /\ StampPrevious(w) => Holds(w, "triggered", worker[w].snap, {}, worker[w].todo)
<1>1. worker[w] \in Local
  OBVIOUS
<1>2. ASSUME ReadPrevious(w)
      PROVE  \E pc \in {"triggered", "supersedeWrite"}, S \in SUBSET Deployment :
                Holds(w, pc, worker[w].snap, S, S)
  <2> DEFINE S == {e \in Deployment : e < Run(w) /\ status[e] \notin Terminal \cup {"none"}}
  <2> DEFINE pc == IF S = {} THEN "triggered" ELSE "supersedeWrite"
  <2>1. worker' = [worker EXCEPT ![w].pc = pc, ![w].previous = S, ![w].todo = S]
    BY <1>2 DEF ReadPrevious
  <2>2. pc \in {"triggered", "supersedeWrite"} /\ S \in SUBSET Deployment
    OBVIOUS
  <2> HIDE DEF pc, S
  <2>3. MovesTo(w, pc)
    BY <2>1, PreviousMoves
  <2>4. \A l \in Local :
          /\ [l EXCEPT !.pc = pc, !.previous = S, !.todo = S].snap = l.snap
          /\ [l EXCEPT !.pc = pc, !.previous = S, !.todo = S].previous = S
          /\ [l EXCEPT !.pc = pc, !.previous = S, !.todo = S].todo = S
    BY DEF Local
  <2>5. worker' = [worker EXCEPT ![w] = [worker[w] EXCEPT !.pc = pc, !.previous = S, !.todo = S]]
    BY <2>1
  <2>6. Holds(w, pc, worker[w].snap, S, S)
    BY <1>1, <2>3, <2>4, <2>5 DEF Holds
  <2>7. QED
    BY <2>2, <2>6
<1>3. ASSUME FailPrevious(w)
      PROVE  \E pc \in {"supersedeTimeline", "supersedeWrite"}, e \in worker[w].todo :
                /\ Holds(w, pc, worker[w].snap, worker[w].previous, worker[w].todo \ {e})
                /\ SetStatus({e}, "Failed")
  <2>1. PICK e \in worker[w].todo :
          /\ SetStatus({e}, "Failed")
          /\ worker' = [worker EXCEPT
               ![w].pc = IF worker[w].todo = {e} THEN "supersedeTimeline" ELSE @,
               ![w].todo = @ \ {e}]
    BY <1>3 DEF FailPrevious
  <2> DEFINE pc == IF worker[w].todo = {e} THEN "supersedeTimeline" ELSE "supersedeWrite"
  <2> DEFINE T == worker[w].todo \ {e}
  <2>2. worker' = [worker EXCEPT ![w].pc = pc, ![w].todo = T]
    BY <1>3, <2>1 DEF FailPrevious, At
  <2>3. pc \in {"supersedeTimeline", "supersedeWrite"}
    OBVIOUS
  <2> HIDE DEF pc, T
  <2>4. MovesTo(w, pc)
    BY <2>2, FieldsMove
  <2>5. \A l \in Local :
          /\ [l EXCEPT !.pc = pc, !.todo = T].snap = l.snap
          /\ [l EXCEPT !.pc = pc, !.todo = T].previous = l.previous
          /\ [l EXCEPT !.pc = pc, !.todo = T].todo = T
    BY DEF Local
  <2>6. worker' = [worker EXCEPT ![w] = [worker[w] EXCEPT !.pc = pc, !.todo = T]]
    BY <2>2
  <2>7. Holds(w, pc, worker[w].snap, worker[w].previous, T)
    BY <1>1, <2>4, <2>5, <2>6 DEF Holds
  <2>8. QED
    BY <2>1, <2>3, <2>7 DEF T
<1>4. ASSUME StampPrevious(w)
      PROVE  Holds(w, "triggered", worker[w].snap, {}, worker[w].todo)
  <2>1. worker' = [worker EXCEPT ![w] = [worker[w] EXCEPT !.pc = "triggered", !.previous = {}]]
    BY <1>4 DEF StampPrevious
  <2>2. MovesTo(w, "triggered")
    BY <1>4, StepMoves
  <2>3. \A l \in Local :
          /\ [l EXCEPT !.pc = "triggered", !.previous = {}].snap = l.snap
          /\ [l EXCEPT !.pc = "triggered", !.previous = {}].previous = {}
          /\ [l EXCEPT !.pc = "triggered", !.previous = {}].todo = l.todo
    BY DEF Local
  <2>4. QED
    BY <1>1, <2>1, <2>2, <2>3 DEF Holds
<1>5. QED
  BY <1>2, <1>3, <1>4

Superseding == {"supersedeWrite", "supersedeTimeline"}

\* Deployment d has a terminal timeline, or somebody is about to write it.
Explained(d) ==
  \/ HasTerminal(d)
  \/ TriggerAt(d, "markTimeline")
  \/ \E w \in Worker : At(w, "markTimeline") /\ Run(w) = d
  \/ \E w \in Worker : worker[w].pc \in Superseding /\ d \in worker[w].previous

\* SupersedePreviousDeployments fails the runners it will give a timeline.
TodoOfPrevious ==
  \A w \in Worker : At(w, "supersedeWrite") => worker[w].todo \subseteq worker[w].previous

\* UpdatePreviousQueuedRunnerStatus writes the timelines first.
StampedFirst ==
  \A d \in Deployment : TriggerAt(d, "previousFail") => \A e \in trigger[d].previous : HasTerminal(e)

FailedExplained == \A d \in Deployment : status[d] = "Failed" => Explained(d)

FailInv == TodoOfPrevious /\ StampedFirst /\ FailedExplained

\* Who was about to write a terminal timeline still is, or it is written.
HandsOver ==
  /\ \A e \in Deployment : timeline[e] \subseteq timeline'[e]
  /\ \A e \in Deployment : TriggerAt(e, "markTimeline") =>
        trigger'[e].pc = "markTimeline" \/ timeline'[e] \cap TerminalTimeline # {}
  /\ \A v \in Worker : At(v, "markTimeline") =>
        \/ worker'[v].pc = "markTimeline" /\ worker'[v].run = worker[v].run
        \/ timeline'[worker[v].run] \cap TerminalTimeline # {}
  /\ \A v \in Worker : worker[v].pc \in Superseding =>
        \/ worker'[v].pc \in Superseding /\ worker'[v].previous = worker[v].previous
        \/ \A e \in worker[v].previous : timeline'[e] \cap TerminalTimeline # {}

LEMMA ExplainedStays ==
  ASSUME HandsOver, NEW d \in Deployment, Explained(d)
  PROVE  Explained(d)'
<1>1. CASE HasTerminal(d)
  BY <1>1 DEF HandsOver, HasTerminal, Explained
<1>2. CASE TriggerAt(d, "markTimeline")
  BY <1>2 DEF HandsOver, HasTerminal, Explained, TriggerAt
<1>3. ASSUME NEW w \in Worker, At(w, "markTimeline"), Run(w) = d
      PROVE  Explained(d)'
  <2>1. CASE worker'[w].pc = "markTimeline" /\ worker'[w].run = worker[w].run
    BY <1>3, <2>1 DEF Explained, At, Run
  <2>2. CASE timeline'[worker[w].run] \cap TerminalTimeline # {}
    BY <1>3, <2>2 DEF Explained, HasTerminal, Run
  <2>3. QED
    BY <1>3, <2>1, <2>2 DEF HandsOver
<1>4. ASSUME NEW w \in Worker, worker[w].pc \in Superseding, d \in worker[w].previous
      PROVE  Explained(d)'
  <2>1. CASE worker'[w].pc \in Superseding /\ worker'[w].previous = worker[w].previous
    BY <1>4, <2>1 DEF Explained
  <2>2. CASE \A e \in worker[w].previous : timeline'[e] \cap TerminalTimeline # {}
    BY <1>4, <2>2 DEF Explained, HasTerminal
  <2>3. QED
    BY <1>4, <2>1, <2>2 DEF HandsOver
<1>5. QED
  BY <1>1, <1>2, <1>3, <1>4 DEF Explained

LEMMA StampGrows ==
  ASSUME NEW d \in Deployment, NEW t, timeline \in [Deployment -> SUBSET Timeline], Stamp(d, t)
  PROVE  /\ \A e \in Deployment : timeline[e] \subseteq timeline'[e]
         /\ t \in TerminalTimeline => timeline'[d] \cap TerminalTimeline # {}
         /\ t \in timeline'[d] \/ timeline'[d] \cap TerminalTimeline # {}
BY DEF Stamp, Stamped, HasTerminal

\* A step that keeps the duties of who is about to write a timeline; whoever fails a
\* runner takes on that of explaining it.
Dutiful ==
  /\ HandsOver /\ TodoOfPrevious' /\ StampedFirst'
  /\ \A d \in Deployment : status'[d] = "Failed" => status[d] = "Failed" \/ Explained(d)'

LEMMA DutiesKept ==
  ASSUME StampedFirst, HandsOver, TodoOfPrevious',
         \A d \in Deployment : trigger'[d].pc = "previousFail" =>
           \/ trigger[d] = trigger'[d]
           \/ \A e \in trigger'[d].previous : timeline'[e] \cap TerminalTimeline # {},
         \A d \in Deployment : status'[d] = "Failed" => status[d] = "Failed" \/ Explained(d)',
         \A d \in Deployment : trigger[d].previous \subseteq Deployment
  PROVE  Dutiful
<1>1. StampedFirst'
  BY DEF StampedFirst, HandsOver, HasTerminal, TriggerAt
<1>2. QED
  BY <1>1 DEF Dutiful

LEMMA DutifulExplains ==
  ASSUME FailInv, Dutiful
  PROVE  FailInv' /\ HandsOver
<1>1. FailedExplained'
  BY ExplainedStays DEF FailInv, FailedExplained, Dutiful
<1>2. QED
  BY <1>1 DEF FailInv, Dutiful

LEMMA WorkerDutiful ==
  ASSUME IInv, TodoOfPrevious, StampedFirst, NEW w \in Worker, WorkerStep(w)
  PROVE  Dutiful
<1> USE DEF WorkerPc, ReleasePc
<1>1. /\ worker \in [Worker -> Local] /\ timeline \in [Deployment -> SUBSET Timeline]
      /\ status \in [Deployment -> Status]
      /\ trigger \in [Deployment -> [pc : TriggerPc, previous : SUBSET Deployment]]
  BY DEF IInv, TypeOK
<1>2. \A d \in Deployment : trigger[d].previous \subseteq Deployment
  BY <1>1
<1>3. ~At(w, "idle") => Run(w) \in Deployment
  BY DEF IInv, HasRequest, Requested
\* A step that is not about a terminal timeline.
<1>4. ASSUME NEW pc, NEW snap, NEW previous, NEW todo, Holds(w, pc, snap, previous, todo),
             pc = "supersedeWrite" => todo \subseteq previous,
             worker[w].pc \notin Superseding \cup {"markTimeline"},
             \A e \in Deployment : timeline[e] \subseteq timeline'[e],
             UNCHANGED trigger,
             \A d \in Deployment : status'[d] = "Failed" => status[d] = "Failed" \/ Explained(d)'
      PROVE  Dutiful
  <2>1. TodoOfPrevious'
    BY <1>4 DEF TodoOfPrevious, Holds, MovesTo, At
  <2>2. HandsOver
    BY <1>4 DEF HandsOver, Holds, MovesTo, At, TriggerAt
  <2>3. QED
    BY <1>2, <1>4, <2>1, <2>2, DutiesKept
\* One that leaves the rows of the database alone.
<1>5. ASSUME NEW pc, NEW snap, NEW previous, NEW todo, Holds(w, pc, snap, previous, todo),
             pc = "supersedeWrite" => todo \subseteq previous,
             worker[w].pc \notin Superseding \cup {"markTimeline"},
             UNCHANGED <<status, timeline, trigger>>
      PROVE  Dutiful
  BY <1>4, <1>5
\* One that writes a status other than failed.
<1>6. ASSUME NEW pc \in WorkerPc, Goto(w, pc), NEW s, s # "Failed", SetStatus({Run(w)}, s),
             pc # "supersedeWrite", worker[w].pc \notin Superseding \cup {"markTimeline"},
             UNCHANGED <<timeline, trigger>>
      PROVE  Dutiful
  <2>1. \A d \in Deployment : status'[d] = "Failed" => status[d] = "Failed"
    BY <1>6 DEF SetStatus
  <2>2. QED
    BY <1>1, <1>4, <1>6, <2>1, GotoHolds
<1>7. CASE PushChart(w)
  <2>1. \A e \in Deployment : timeline[e] \subseteq timeline'[e]
    BY <1>1, <1>7 DEF PushChart
  <2>2. \E pc, snap, previous, todo :
          pc # "supersedeWrite" /\ Holds(w, pc, snap, previous, todo)
    BY <1>1, <1>7, GotoHolds, RaiseHolds DEF PushChart
  <2>3. QED
    BY <1>4, <1>7, <2>1, <2>2 DEF PushChart, At, Superseding
<1>8. CASE StampTriggered(w)
  <2>1. \A e \in Deployment : timeline[e] \subseteq timeline'[e]
    BY <1>1, <1>3, <1>8, StampGrows DEF StampTriggered, At
  <2>2. QED
    BY <1>1, <1>4, <1>8, <2>1, GotoHolds DEF StampTriggered, At, Superseding
<1>9. CASE ReadPrevious(w)
  BY <1>1, <1>5, <1>9, PreviousHolds DEF ReadPrevious, At, Superseding, db
<1>10. CASE FailPrevious(w)
  <2>1. PICK pc \in {"supersedeTimeline", "supersedeWrite"}, e \in worker[w].todo :
                /\ Holds(w, pc, worker[w].snap, worker[w].previous, worker[w].todo \ {e})
                /\ SetStatus({e}, "Failed")
    BY <1>1, <1>10, PreviousHolds
  <2>2. worker[w].todo \subseteq worker[w].previous
    BY <1>10 DEF TodoOfPrevious, FailPrevious
  <2>3. TodoOfPrevious'
    BY <2>1, <2>2 DEF TodoOfPrevious, Holds, MovesTo, At
  <2>4. UNCHANGED <<timeline, trigger>>
    BY <1>10 DEF FailPrevious
  <2>5. HandsOver
    BY <1>10, <2>1, <2>4 DEF HandsOver, Holds, MovesTo, FailPrevious, At, TriggerAt, Superseding
  <2>6. Explained(e)'
    BY <2>1, <2>2 DEF Explained, Holds, MovesTo, Superseding
  <2>7. \A d \in Deployment : status'[d] = "Failed" => status[d] = "Failed" \/ Explained(d)'
    BY <2>1, <2>6 DEF SetStatus
  <2>8. QED
    BY <1>2, <2>3, <2>4, <2>5, <2>7, DutiesKept
<1>11. CASE StampPrevious(w)
  <2>1. Holds(w, "triggered", worker[w].snap, {}, worker[w].todo)
    BY <1>1, <1>11, PreviousHolds
  <2>2. /\ \A e \in Deployment : timeline[e] \subseteq timeline'[e]
        /\ \A e \in worker[w].previous : timeline'[e] \cap TerminalTimeline # {}
        /\ UNCHANGED <<status, trigger>>
    BY <1>1, <1>11, LocalFields DEF StampPrevious, TerminalTimeline
  <2>3. TodoOfPrevious'
    BY <2>1 DEF TodoOfPrevious, Holds, MovesTo, At
  <2>4. HandsOver
    BY <1>11, <2>1, <2>2 DEF HandsOver, Holds, MovesTo, StampPrevious, At, TriggerAt
  <2>5. QED
    BY <1>2, <2>2, <2>3, <2>4, DutiesKept
<1>12. CASE RecordHelmDeadline(w)
  <2>1. PICK s \in Terminal \cup ({"Progressing"} \ {worker[w].snap}) :
       /\ SetStatus({Run(w)}, s)
       /\ IF s = "Failed"
            THEN \E err \in {"FAILED", "SUPERSEDED"} :
                   worker' = [worker EXCEPT ![w].pc = "markTimeline", ![w].err = err]
            ELSE Goto(w, "check")
    BY <1>12 DEF RecordHelmDeadline
  <2>2. worker[w].pc \notin Superseding \cup {"markTimeline"} /\ UNCHANGED <<timeline, trigger>>
    BY <1>12 DEF RecordHelmDeadline, At, Superseding
  <2>3. CASE s = "Failed"
    <3>1. Holds(w, "markTimeline", worker[w].snap, worker[w].previous, worker[w].todo)
      BY <1>1, <2>1, <2>3, ErrHolds
    <3>2. Run(w) \in Deployment => Explained(Run(w))'
      BY <3>1 DEF Explained, Holds, MovesTo, At, Run
    <3>3. \A d \in Deployment : status'[d] = "Failed" => status[d] = "Failed" \/ Explained(d)'
      <4>1. \A d \in Deployment : d = Run(w) => Explained(d)'
        BY <3>1 DEF Explained, Holds, MovesTo, At, Run
      <4>2. QED
        BY <2>1, <2>3, <4>1 DEF SetStatus
    <3>4. QED
      BY <1>4, <2>2, <3>1, <3>3
  <2>4. CASE s # "Failed"
    BY <1>6, <2>1, <2>2, <2>4
  <2>5. QED
    BY <2>3, <2>4
<1>13. CASE MarkFailed(w)
  <2>1. Holds(w, "markTimeline", worker[w].snap, worker[w].previous, worker[w].todo)
    BY <1>1, <1>13, GotoHolds DEF MarkFailed
  <2>2. \A d \in Deployment : d = Run(w) => Explained(d)'
    BY <2>1 DEF Explained, Holds, MovesTo, At, Run
  <2>3. \A d \in Deployment : status'[d] = "Failed" => status[d] = "Failed" \/ Explained(d)'
    BY <1>13, <2>2 DEF MarkFailed, SetStatus
  <2>4. QED
    BY <1>4, <1>13, <2>1, <2>3 DEF MarkFailed, At, Superseding
<1>14. CASE MarkTimeline(w)
  <2>1. PICK pc \in {"ack", "check"} : Goto(w, pc)
    BY <1>14 DEF MarkTimeline
  <2>2. Holds(w, pc, "none", worker[w].previous, worker[w].todo)
    BY <1>1, <2>1, GotoHolds
  <2>3. /\ \A e \in Deployment : timeline[e] \subseteq timeline'[e]
        /\ timeline'[worker[w].run] \cap TerminalTimeline # {}
        /\ UNCHANGED <<status, trigger>>
    <3>1. PICK t \in TerminalTimeline : Stamp(Run(w), t)
      BY <1>14 DEF MarkTimeline, TerminalTimeline
    <3>2. QED
      BY <1>1, <1>3, <1>14, <3>1, StampGrows DEF MarkTimeline, At, Run
  <2>4. TodoOfPrevious'
    BY <2>2 DEF TodoOfPrevious, Holds, MovesTo, At
  <2>5. HandsOver
    BY <1>14, <2>2, <2>3 DEF HandsOver, Holds, MovesTo, MarkTimeline, At, TriggerAt, Superseding
  <2>6. QED
    BY <1>2, <2>3, <2>4, <2>5, DutiesKept
<1>15. CASE Acknowledge(w)
  <2>1. worker'[w] = Idle /\ \A v \in Worker \ {w} : worker'[v] = worker[v]
    BY <1>1, <1>15 DEF Acknowledge
  <2>2. UNCHANGED <<status, timeline, trigger>> /\ worker[w].pc = "ack"
    BY <1>15 DEF Acknowledge, db, At
  <2>3. TodoOfPrevious'
    BY <2>1 DEF TodoOfPrevious, Idle, At
  <2>4. HandsOver
    BY <2>1, <2>2 DEF HandsOver, At, TriggerAt, Superseding
  <2>5. QED
    BY <1>2, <2>2, <2>3, <2>4, DutiesKept
<1>16. CASE WriteStarting(w)
  BY <1>6, <1>16 DEF WriteStarting, At, Superseding
<1>17. CASE WriteProgressing(w)
  BY <1>6, <1>17 DEF WriteProgressing, At, Superseding, AfterProgress
<1>18. CASE ReadRunner(w)
  <2>1. Holds(w, "validate", status[Run(w)], worker[w].previous, worker[w].todo)
    BY <1>1, <1>18, SnapHolds DEF ReadRunner
  <2>2. QED
    BY <1>5, <1>18, <2>1 DEF ReadRunner, At, Superseding, db
<1>19. CASE BeginRelease(w)
  <2> DEFINE pc == IF AppType = "helm" /\ status[Run(w)] \notin Terminal
                   THEN "starting" ELSE "build"
  <2>1. worker' = [worker EXCEPT ![w].pc = pc, ![w].snap = status[Run(w)]]
    BY <1>19 DEF BeginRelease
  <2>2. pc # "supersedeWrite"
    OBVIOUS
  <2> HIDE DEF pc
  <2>3. Holds(w, pc, status[Run(w)], worker[w].previous, worker[w].todo)
    BY <1>1, <2>1, SnapHolds
  <2>4. QED
    BY <1>5, <1>19, <2>2, <2>3 DEF BeginRelease, At, Superseding, db
<1>20. CASE RejectRequest(w)
  <2>1. Holds(w, "mark", worker[w].snap, worker[w].previous, worker[w].todo)
    BY <1>1, <1>20, ErrHolds DEF RejectRequest
  <2>2. QED
    BY <1>5, <1>20, <2>1 DEF RejectRequest, At, Superseding, db
\* All other steps go on, or fail, without a write to the database.
<1>21. ASSUME UNCHANGED <<status, timeline, trigger>>,
              worker[w].pc \notin Superseding \cup {"markTimeline"},
              \/ \E pc \in WorkerPc \ {"supersedeWrite"} : Goto(w, pc)
              \/ \E err : Raise(w, err)
       PROVE  Dutiful
  BY <1>1, <1>5, <1>21, GotoHolds, RaiseHolds
<1> USE DEF At, Superseding, db
<1>22. CASE SkipRequest(w)
  BY <1>21, <1>22 DEF SkipRequest
<1>23. CASE ClaimRequest(w)
  BY <1>21, <1>23 DEF ClaimRequest
<1>24. CASE BuildTriggerEvent(w)
  BY <1>21, <1>24 DEF BuildTriggerEvent
<1>25. CASE ReadForProgressing(w)
  BY <1>21, <1>25 DEF ReadForProgressing, AfterProgress
<1>26. CASE DeployArgoCdApp(w)
  BY <1>21, <1>26 DEF DeployArgoCdApp
<1>27. CASE InstallHelmApp(w)
  BY <1>21, <1>27 DEF InstallHelmApp
<1>28. CASE IgnoreError(w)
  BY <1>21, <1>28 DEF IgnoreError
<1>29. CASE RecordError(w)
  BY <1>21, <1>29 DEF RecordError
<1>30. CASE CheckEntry(w)
  BY <1>21, <1>30 DEF CheckEntry
<1>31. CASE RemoveEntry(w)
  BY <1>21, <1>31 DEF RemoveEntry
<1>32. QED
  BY <1>7, <1>8, <1>9, <1>10, <1>11, <1>12, <1>13, <1>14, <1>15, <1>16, <1>17, <1>18, <1>19, <1>20,
     <1>22, <1>23, <1>24, <1>25, <1>26, <1>27, <1>28, <1>29, <1>30, <1>31 DEF WorkerStep

LEMMA TriggerDutiful ==
  ASSUME IInv, TodoOfPrevious, StampedFirst, NEW d \in Deployment,
         TriggerStep(d) \/ SaveRunner(d)
  PROVE  Dutiful
<1> USE DEF TriggerAt, TriggerGoto
<1>1. /\ timeline \in [Deployment -> SUBSET Timeline]
      /\ status \in [Deployment -> Status]
      /\ trigger \in [Deployment -> [pc : TriggerPc, previous : SUBSET Deployment]]
  BY DEF IInv, TypeOK
<1>2. \A e \in Deployment : trigger[e].previous \subseteq Deployment
  BY <1>1
<1>3. UNCHANGED worker => TodoOfPrevious'
  BY DEF TodoOfPrevious, At
\* A step that is not about a terminal timeline.
<1>4. ASSUME NEW pc, trigger' = [trigger EXCEPT ![d].pc = pc], pc # "previousFail",
             ~TriggerAt(d, "markTimeline"),
             \A e \in Deployment : timeline[e] \subseteq timeline'[e], UNCHANGED worker,
             \A e \in Deployment : status'[e] = "Failed" => status[e] = "Failed" \/ Explained(e)'
      PROVE  Dutiful
  <2>1. HandsOver
    BY <1>1, <1>4 DEF HandsOver, At
  <2>2. \A e \in Deployment : trigger'[e].pc = "previousFail" => trigger[e] = trigger'[e]
    BY <1>1, <1>4
  <2>3. QED
    BY <1>2, <1>3, <1>4, <2>1, <2>2, DutiesKept
<1>5. CASE SaveRunner(d)
  <2>1. \A e \in Deployment : status'[e] = "Failed" => status[e] = "Failed"
    BY <1>5 DEF SaveRunner, SetStatus
  <2>2. UNCHANGED <<worker, timeline>>
    BY <1>5 DEF SaveRunner
  <2>3. QED
    BY <1>4, <1>5, <2>1, <2>2 DEF SaveRunner
<1>6. CASE SaveRequest(d)
  <2>1. \A e \in Deployment : timeline[e] \subseteq timeline'[e]
    BY <1>1, <1>6, StampGrows DEF SaveRequest
  <2>2. QED
    BY <1>4, <1>6, <2>1 DEF SaveRequest
<1>7. CASE Publish(d)
  BY <1>4, <1>7 DEF Publish, db
<1>8. CASE ReadForQueued(d)
  BY <1>4, <1>8 DEF ReadForQueued, db
<1>9. CASE WriteQueued(d)
  <2>1. \A e \in Deployment : status'[e] = "Failed" => status[e] = "Failed"
    BY <1>9 DEF WriteQueued, SetStatus
  <2>2. QED
    BY <1>4, <1>9, <2>1 DEF WriteQueued
<1>10. CASE ReadPreviousQueued(d)
  <2>1. \A e \in Deployment : trigger'[e].pc = "previousFail" => trigger[e] = trigger'[e]
    BY <1>1, <1>10 DEF ReadPreviousQueued
  <2>2. UNCHANGED <<worker, status, timeline>>
    BY <1>10 DEF ReadPreviousQueued, db
  <2>3. HandsOver
    BY <1>1, <1>10, <2>2 DEF HandsOver, ReadPreviousQueued, At
  <2>4. QED
    BY <1>2, <1>3, <2>1, <2>2, <2>3, DutiesKept
<1>11. CASE StampPreviousQueued(d)
  <2>1. /\ UNCHANGED <<worker, status>>
        /\ \A e \in Deployment : timeline[e] \subseteq timeline'[e]
        /\ \A e \in trigger[d].previous : timeline'[e] \cap TerminalTimeline # {}
    BY <1>1, <1>2, <1>11 DEF StampPreviousQueued, Stamped, HasTerminal, TerminalTimeline
  <2>2. /\ trigger'[d].previous = trigger[d].previous
        /\ \A e \in Deployment \ {d} : trigger'[e] = trigger[e]
    BY <1>1, <1>11 DEF StampPreviousQueued
  <2>3. HandsOver
    BY <1>11, <2>1, <2>2 DEF HandsOver, StampPreviousQueued, At
  <2>4. QED
    BY <1>2, <1>3, <2>1, <2>2, <2>3, DutiesKept
<1>12. CASE FailPreviousQueued(d)
  <2>1. UNCHANGED <<worker, timeline>> /\ trigger' = [trigger EXCEPT ![d] = [pc |-> "done", previous |-> {}]]
    BY <1>12 DEF FailPreviousQueued
  <2>2. HandsOver
    BY <1>1, <1>12, <2>1 DEF HandsOver, FailPreviousQueued, At
  <2>3. \A e \in trigger[d].previous : HasTerminal(e)
    BY <1>12 DEF StampedFirst, FailPreviousQueued
  <2>4. \A e \in trigger[d].previous : Explained(e)'
    BY <2>1, <2>3 DEF Explained, HasTerminal
  <2>5. \A e \in Deployment : status'[e] = "Failed" => status[e] = "Failed" \/ Explained(e)'
    BY <1>12, <2>4 DEF FailPreviousQueued, SetStatus
  <2>6. \A e \in Deployment : trigger'[e].pc = "previousFail" => trigger[e] = trigger'[e]
    BY <1>1, <2>1
  <2>7. QED
    BY <1>2, <1>3, <2>1, <2>2, <2>5, <2>6, DutiesKept
<1>13. CASE FailTrigger(d)
  <2>1. UNCHANGED <<worker, timeline>> /\ trigger' = [trigger EXCEPT ![d].pc = "markTimeline"]
    BY <1>13 DEF FailTrigger
  <2>2. Explained(d)'
    BY <1>1, <2>1 DEF Explained
  <2>3. \A e \in Deployment : status'[e] = "Failed" => status[e] = "Failed" \/ Explained(e)'
    BY <1>13, <2>2 DEF FailTrigger, SetStatus
  <2>4. QED
    BY <1>4, <1>13, <2>1, <2>3 DEF FailTrigger
<1>14. CASE FailTriggerTimeline(d)
  <2>1. /\ UNCHANGED <<worker, status>> /\ trigger' = [trigger EXCEPT ![d].pc = "done"]
        /\ \A e \in Deployment : timeline[e] \subseteq timeline'[e]
        /\ timeline'[d] \cap TerminalTimeline # {}
    BY <1>1, <1>14, StampGrows DEF FailTriggerTimeline, TerminalTimeline
  <2>2. HandsOver
    BY <1>1, <2>1 DEF HandsOver, At
  <2>3. \A e \in Deployment : trigger'[e].pc = "previousFail" => trigger[e] = trigger'[e]
    BY <1>1, <2>1
  <2>4. QED
    BY <1>2, <1>3, <2>1, <2>2, <2>3, DutiesKept
<1>15. QED
  BY <1>5, <1>6, <1>7, <1>8, <1>9, <1>10, <1>11, <1>12, <1>13, <1>14 DEF TriggerStep

\* A worker that takes up a request was idle.
LEMMA TakesUp ==
  ASSUME TypeOK, NEW w \in Worker,
         (\E d \in Deployment : Deliver(w, d)) \/ ProcessIncompleteDeploymentReq(w)
  PROVE  /\ At(w, "idle") /\ \A v \in Worker \ {w} : worker'[v] = worker[v]
         /\ \/ UNCHANGED worker
            \/ /\ worker'[w].pc = "read" /\ worker'[w].snap = "none" /\ worker'[w].run \in Requested
               /\ worker'[w].err = "none" /\ worker'[w].previous = {}
         /\ UNCHANGED <<db, trigger, entry, cancel, lock, restarts>>
<1>1. worker \in [Worker -> Local]
  BY DEF TypeOK
<1>2. ASSUME NEW l, l.pc = "read" /\ l.snap = "none" /\ l.err = "none" /\ l.previous = {},
             l.run \in Requested, worker' = [worker EXCEPT ![w] = l]
      PROVE  /\ \A v \in Worker \ {w} : worker'[v] = worker[v]
             /\ worker'[w].pc = "read" /\ worker'[w].snap = "none" /\ worker'[w].run \in Requested
             /\ worker'[w].err = "none" /\ worker'[w].previous = {}
  BY <1>1, <1>2
<1>3. ASSUME NEW d \in Deployment, Deliver(w, d)
      PROVE  /\ \A v \in Worker \ {w} : worker'[v] = worker[v]
             /\ worker'[w].pc = "read" /\ worker'[w].snap = "none" /\ worker'[w].run \in Requested
             /\ worker'[w].err = "none" /\ worker'[w].previous = {}
  <2>1. PICK e \in Requested :
          worker' = [worker EXCEPT ![w] = [Idle EXCEPT !.pc = "read", !.run = e, !.msg = d]]
    BY <1>3 DEF Deliver
  <2>2. QED
    BY <1>2, <2>1 DEF Idle
<1>4. ASSUME ProcessIncompleteDeploymentReq(w), worker' # worker
      PROVE  /\ \A v \in Worker \ {w} : worker'[v] = worker[v]
             /\ worker'[w].pc = "read" /\ worker'[w].snap = "none" /\ worker'[w].run \in Requested
             /\ worker'[w].err = "none" /\ worker'[w].previous = {}
  <2>1. PICK e \in Incomplete :
          worker' = [worker EXCEPT ![w] = [Idle EXCEPT !.pc = "read", !.run = e]]
    BY <1>4 DEF ProcessIncompleteDeploymentReq
  <2>2. QED
    BY <1>2, <2>1 DEF Idle, Incomplete
<1>5. At(w, "idle") /\ UNCHANGED <<db, trigger, entry, cancel, lock, restarts>>
  BY DEF Deliver, ProcessIncompleteDeploymentReq, db, ctx, proc
<1>6. QED
  BY <1>3, <1>4, <1>5

\* Every failure is reported: the process is not killed between the status of a
\* failed runner and its timeline, and the status cron, which writes no timeline,
\* does not run (it is Helm's).
FailuresReported == MaxRestarts = 0 /\ ("cron" \notin Faults \/ AppType = "argocd")

LEMMA CronIsIdle ==
  ASSUME FailuresReported, TypeOK, cron = 0, [Next]_vars
  PROVE  ~Restart /\ ~CronWrite /\ ~ShutDownDevtronAppReleaseContext /\ cron' = 0
<1>1. ~Restart /\ ~ShutDownDevtronAppReleaseContext
  BY DEF FailuresReported, TypeOK, Restart, ShutDownDevtronAppReleaseContext
<1>2. ~CronWrite
  BY DEF CronWrite
<1>3. \A d \in Deployment : ~CronRead(d)
  BY DEF FailuresReported, CronRead
<1>4. ASSUME NEW w \in Worker, WorkerStep(w)
      PROVE  cron' = cron
  BY <1>4 DEF WorkerStep, ReadRunner, SkipRequest, RejectRequest, ClaimRequest, BeginRelease,
     WriteStarting, BuildTriggerEvent, ReadForProgressing, WriteProgressing, PushChart,
     DeployArgoCdApp, InstallHelmApp, ReadPrevious, FailPrevious, StampPrevious, StampTriggered,
     IgnoreError, RecordHelmDeadline, RecordError, MarkFailed, MarkTimeline, CheckEntry,
     RemoveEntry, Acknowledge
<1>5. ASSUME NEW d \in Deployment, TriggerStep(d) \/ SaveRunner(d) \/ Redeliver(d)
      PROVE  cron' = cron
  BY <1>5 DEF TriggerStep, SaveRunner, Redeliver, SaveRequest, Publish, ReadForQueued, WriteQueued,
     ReadPreviousQueued, StampPreviousQueued, FailPreviousQueued, FailTrigger, FailTriggerTimeline
<1>6. ASSUME NEW w \in Worker,
             (\E d \in Deployment : Deliver(w, d)) \/ ProcessIncompleteDeploymentReq(w) \/ DeadlineExceeded(w)
      PROVE  cron' = cron
  BY <1>6 DEF Deliver, ProcessIncompleteDeploymentReq, DeadlineExceeded
<1>7. QED
  BY <1>1, <1>2, <1>3, <1>4, <1>5, <1>6 DEF Next, vars

LEMMA NextDutiful ==
  ASSUME IInv, TodoOfPrevious, StampedFirst, ~Restart, ~CronWrite, [Next]_vars
  PROVE  Dutiful
<1>1. TypeOK /\ worker \in [Worker -> Local]
  BY DEF IInv, TypeOK
\* The rows and the triggers stay; a worker may take up a request.
<1>2. ASSUME UNCHANGED <<status, timeline, trigger>>,
             \/ UNCHANGED worker
             \/ \E w \in Worker : /\ At(w, "idle") /\ worker'[w].pc = "read"
                                  /\ \A v \in Worker \ {w} : worker'[v] = worker[v]
      PROVE  Dutiful
  <2>1. TodoOfPrevious'
    BY <1>2 DEF TodoOfPrevious, At
  <2>2. HandsOver
    BY <1>2 DEF HandsOver, At, TriggerAt, Superseding
  <2>3. \A d \in Deployment : trigger[d].previous \subseteq Deployment
    BY <1>1 DEF TypeOK
  <2>4. QED
    BY <1>2, <2>1, <2>2, <2>3, DutiesKept
<1>3. ASSUME NEW w \in Worker,
             (\E d \in Deployment : Deliver(w, d)) \/ ProcessIncompleteDeploymentReq(w)
      PROVE  Dutiful
  <2>1. /\ At(w, "idle") /\ \A v \in Worker \ {w} : worker'[v] = worker[v]
        /\ UNCHANGED worker \/ worker'[w].pc = "read"
        /\ UNCHANGED <<db, trigger>>
    BY <1>1, <1>3, TakesUp
  <2>2. QED
    BY <1>2, <2>1 DEF db
<1>4. CASE UNCHANGED vars
  BY <1>2, <1>4 DEF vars, db
<1>5. ASSUME NEW d \in Deployment, Redeliver(d) \/ CronRead(d)
      PROVE  Dutiful
  BY <1>2, <1>5 DEF Redeliver, CronRead, db
<1>6. ASSUME NEW w \in Worker, DeadlineExceeded(w)
      PROVE  Dutiful
  BY <1>2, <1>6 DEF DeadlineExceeded, db
<1>7. CASE ShutDownDevtronAppReleaseContext
  BY <1>2, <1>7 DEF ShutDownDevtronAppReleaseContext, db
<1>8. QED
  BY <1>3, <1>4, <1>5, <1>6, <1>7, WorkerDutiful, TriggerDutiful DEF Next

LEMMA NextExplains ==
  ASSUME FailuresReported, IInv, FailInv, cron = 0, [Next]_vars
  PROVE  FailInv' /\ HandsOver /\ cron' = 0
<1>1. ~Restart /\ ~CronWrite /\ cron' = 0
  BY CronIsIdle DEF IInv
<1>2. QED
  BY <1>1, NextDutiful, DutifulExplains DEF FailInv

LEMMA InitExplained == Init => FailInv /\ cron = 0
BY DEF Init, FailInv, TodoOfPrevious, StampedFirst, FailedExplained, At, TriggerAt, Idle

\* A failed runner has a terminal timeline once all is at rest, whichever of the
\* four writers failed it and whatever came in between: MarkCurrentDeploymentFailed
\* of the trigger and of the release, UpdatePreviousQueuedRunnerStatus,
\* SupersedePreviousDeployments.
THEOREM FailureIsExplained == FailuresReported => (Spec => []FailedHasTimeline)
<1> SUFFICES ASSUME FailuresReported PROVE Spec => []FailedHasTimeline
  OBVIOUS
<1> DEFINE Inv == IInv /\ FailInv /\ cron = 0
<1>1. Init => Inv
  BY InitHolds, InitExplained
<1>2. Inv /\ [Next]_vars => Inv'
  BY Inductive, NextExplains
<1>3. Inv => FailedHasTimeline
  BY DEF FailInv, FailedExplained, FailedHasTimeline, AtRest, Explained, At, TriggerAt, Superseding
<1> HIDE DEF Inv
<1>4. QED
  BY <1>1, <1>2, <1>3, PTL DEF Spec

-----------------------------------------------------------------------------
(* The latest request is served.                                           *)

\* A worker that will settle the deployment it runs.
Pursuing == ReleasePc \cup {"mark"}

Settled(d) == Served(d) \/ Explained(d)
Engaged(d) == Settled(d) \/ \E w \in Worker : Run(w) = d /\ worker[w].pc \in Pursuing

\* What a status says, in the row or as a worker has read it: a failed runner has
\* been settled, one that is Progressing is being released.
NoneSucceeded   == \A d \in Deployment : status[d] # "Succeeded"
ProgressEngaged == \A d \in Deployment : status[d] = "Progressing" => Engaged(d)
SnapSeen ==
  \A w \in Worker, d \in Deployment : Run(w) = d =>
    /\ worker[w].snap \in Terminal => Explained(d)
    /\ worker[w].snap = "Progressing" => Engaged(d)

\* A release that is over has settled its deployment.
OverSettled ==
  \A w \in Worker, d \in Deployment :
    Run(w) = d /\ worker[w].pc \in {"check", "remove"} => Settled(d)

\* The entry of the map is that of a worker in its release.
OwnerReleases ==
  entry # NoEntry =>
    /\ Run(entry.owner) = entry.runner /\ lock # entry.owner
    /\ worker[entry.owner].pc \in Pursuing \cup {"markTimeline", "check", "remove"}

\* No release is cut short by a shutdown, nor a Helm release by its deadline.
NotCutShort ==
  \A w \in Worker :
    /\ cancel[w] # "shutdown"
    /\ AppType = "helm" => cancel[w] # "deadline" /\ worker[w].err # "DEADLINE"

\* Somebody follows the latest request until it is settled.
Followed ==
  \A d \in Requested : IsLatest(d) =>
    \/ Engaged(d)
    \/ trigger[d].pc \in {"publish", "mark"}
    \/ d \in pending
    \/ \E w \in Worker : Run(w) = d /\ worker[w].pc \in {"read", "validate"}

ServeInv == /\ NoneSucceeded /\ ProgressEngaged /\ SnapSeen /\ OverSettled
            /\ OwnerReleases /\ NotCutShort /\ Followed

\* Every release settles its deployment: the process does not stop, and what the
\* cluster says later of a Helm release (its status cron, a deadline that leaves
\* the status to it) is left out.
EveryReleaseSettles ==
  MaxRestarts = 0 /\ (AppType = "argocd" \/ ("cron" \notin Faults /\ "deadline" \notin Faults))

SettledNext(r) == \A d \in Deployment : d = r => Settled(d)'

\* What a worker's step is to the map and to the mutex.
Passes(w) ==
  /\ \A v \in Worker \ {w} : worker'[v] = worker[v]
  /\ worker[w].pc = "ack" \/ worker'[w].run = worker[w].run
  /\ UNCHANGED <<req, pending, trigger>>
  /\ \/ /\ worker[w].pc \in Pursuing /\ worker'[w].pc \in Pursuing \cup {"markTimeline"}
        /\ UNCHANGED <<entry, lock>>
     \/ /\ worker[w].pc \in Pursuing \cup {"markTimeline"} /\ worker'[w].pc = "check"
        /\ UNCHANGED <<entry, lock>>
     \/ /\ worker[w].pc = "markTimeline" /\ worker'[w].pc = "ack"
        /\ lock = w /\ lock' = NoWorker /\ UNCHANGED entry
     \/ worker[w].pc = "read" /\ worker'[w].pc = "validate" /\ UNCHANGED <<entry, lock>>
     \/ /\ worker[w].pc = "validate" /\ worker'[w].pc = "ack"
        /\ NothingToDo(w) /\ UNCHANGED <<entry, lock>>
     \/ worker[w].pc = "validate" /\ worker'[w].pc = "mark" /\ lock' = w /\ UNCHANGED entry
     \/ /\ worker[w].pc = "validate" /\ worker'[w].pc = "begin"
        /\ entry' = [runner |-> worker[w].run, owner |-> w] /\ lock = NoWorker /\ UNCHANGED lock
     \/ worker[w].pc = "check" /\ worker'[w].pc = "remove" /\ UNCHANGED <<entry, lock>>
     \/ /\ worker[w].pc = "check" /\ worker'[w].pc = "ack"
        /\ entry = NoEntry \/ entry.runner # worker[w].run
        /\ UNCHANGED <<entry, lock>>
     \/ worker[w].pc = "remove" /\ worker'[w].pc = "ack" /\ entry' = NoEntry /\ UNCHANGED lock
     \/ worker[w].pc = "ack" /\ worker'[w].pc = "idle" /\ UNCHANGED <<entry, lock>>

\* It ends its part in the deployment.
Finishes(w) ==
  worker[w].pc \in Pursuing \cup {"markTimeline"} /\ worker'[w].pc \in {"check", "ack"}

\* What it is to its deployment as well.
Advance(w) == Passes(w) /\ (Finishes(w) => SettledNext(worker[w].run))

LEMMA SettledStays ==
  ASSUME HandsOver, NEW d \in Deployment, Settled(d)
  PROVE  Settled(d)'
<1>1. CASE Served(d)
  BY <1>1 DEF Settled, Served, HasTerminal, HandsOver
<1>2. CASE Explained(d)
  BY <1>2, ExplainedStays DEF Settled
<1>3. QED
  BY <1>1, <1>2 DEF Settled

\* Unless it gives up, the step of a worker settles what it ends.
LEMMA StepAdvances ==
  ASSUME IInv, HandsOver, NEW w \in Worker, WorkerStep(w), ~IgnoreError(w), ~RecordHelmDeadline(w)
  PROVE  Advance(w)
<1> USE DEF At, Run, nats, db, ctx, Pursuing, ReleasePc
<1>1. /\ worker \in [Worker -> Local] /\ timeline \in [Deployment -> SUBSET Timeline]
  BY DEF IInv, TypeOK
<1>2. worker[w].pc # "idle" => worker[w].run \in Deployment
  BY DEF IInv, HasRequest, Requested
\* A step within the release.
<1>3. ASSUME NEW pc \in Pursuing \cup {"markTimeline"}, MovesTo(w, pc), worker[w].pc \in Pursuing,
             UNCHANGED <<req, pending, trigger, entry, lock>>
      PROVE  Advance(w)
  BY <1>3 DEF Advance, Passes, Finishes, MovesTo
\* The end of the release.
<1>4. ASSUME MovesTo(w, "check"), worker[w].pc \in Pursuing \cup {"markTimeline"},
             SettledNext(worker[w].run), UNCHANGED <<req, pending, trigger, entry, lock>>
      PROVE  Advance(w)
  BY <1>4 DEF Advance, Passes, Finishes, MovesTo
<1>5. CASE BuildTriggerEvent(w)
  <2>1. PICK pc \in {"install", "sync", "progress", "check", "error"} : MovesTo(w, pc)
    BY <1>1, <1>5, StepMoves
  <2>2. UNCHANGED <<req, pending, trigger, entry, lock>> /\ worker[w].pc = "build"
    BY <1>5 DEF BuildTriggerEvent
  <2>3. CASE pc # "check"
    BY <1>3, <2>1, <2>2, <2>3
  <2>4. CASE pc = "check"
    <3>1. worker'[w].pc = "check"
      BY <2>1, <2>4 DEF MovesTo
    <3>2. \A p \in WorkerPc \ {"check"} : ~Goto(w, p)
      BY <1>1, <3>1, GotoMoves DEF MovesTo
    <3>3. \A err : ~Raise(w, err)
      BY <1>1, <3>1, RaiseMoves DEF MovesTo
    <3>4. HasTerminal(worker[w].run) \/ "TRIGGERED" \in timeline[worker[w].run]
      BY <1>5, <3>2, <3>3 DEF BuildTriggerEvent, WorkerPc
    <3>5. Settled(worker[w].run)
      BY <3>4 DEF Settled, Served
    <3>6. \A d \in Deployment : d = worker[w].run => Settled(d)
      BY <3>5
    <3>7. SettledNext(worker[w].run)
      BY <3>6, SettledStays DEF SettledNext
    <3>8. QED
      BY <1>4, <2>1, <2>2, <2>4, <3>7
  <2>5. QED
    BY <2>3, <2>4
<1>6. CASE StampTriggered(w)
  <2>1. MovesTo(w, "check") /\ UNCHANGED <<req, pending, trigger, entry, lock>> /\ worker[w].pc = "triggered"
    BY <1>1, <1>6, StepMoves DEF StampTriggered
  <2>2. \A d \in Deployment : d = worker[w].run => "TRIGGERED" \in timeline'[d] \/ timeline'[d] \cap TerminalTimeline # {}
    BY <1>1, <1>6, StampGrows DEF StampTriggered
  <2>3. SettledNext(worker[w].run)
    BY <2>2 DEF SettledNext, Settled, Served, HasTerminal
  <2>4. QED
    BY <1>4, <2>1, <2>3
<1>8. CASE MarkTimeline(w)
  <2>1. PICK t \in TerminalTimeline : Stamp(Run(w), t)
    BY <1>8 DEF MarkTimeline, TerminalTimeline
  <2>2. \A d \in Deployment : d = worker[w].run => timeline'[d] \cap TerminalTimeline # {}
    BY <1>1, <2>1, StampGrows
  <2>3. SettledNext(worker[w].run)
    BY <2>2 DEF SettledNext, Settled, Served, HasTerminal
  <2>4. /\ UNCHANGED <<req, pending, trigger, entry>> /\ worker[w].pc = "markTimeline"
        /\ lock' = IF lock = w THEN NoWorker ELSE lock
        /\ Goto(w, IF lock = w THEN "ack" ELSE "check")
    BY <1>8 DEF MarkTimeline
  <2>5. CASE lock = w
    <3>1. MovesTo(w, "ack")
      BY <1>1, <2>4, <2>5, GotoMoves DEF WorkerPc
    <3>2. QED
      BY <2>3, <2>4, <2>5, <3>1 DEF Advance, Passes, Finishes, MovesTo
  <2>6. CASE lock # w
    <3>1. MovesTo(w, "check")
      BY <1>1, <2>4, <2>6, GotoMoves DEF WorkerPc
    <3>2. QED
      BY <1>4, <2>3, <2>4, <2>6, <3>1
  <2>7. QED
    BY <2>5, <2>6
<1>9. CASE ReadRunner(w)
  BY <1>1, <1>9, StepMoves DEF ReadRunner, Advance, Passes, Finishes, MovesTo
<1>10. CASE SkipRequest(w)
  BY <1>1, <1>10, StepMoves DEF SkipRequest, Advance, Passes, Finishes, MovesTo
<1>11. CASE RejectRequest(w)
  BY <1>1, <1>11, StepMoves DEF RejectRequest, Advance, Passes, Finishes, MovesTo
<1>12. CASE ClaimRequest(w)
  BY <1>1, <1>12, StepMoves DEF ClaimRequest, Register, Advance, Passes, Finishes, MovesTo
<1>13. CASE CheckEntry(w)
  <2>1. /\ Goto(w, IF entry # NoEntry /\ entry.runner = Run(w) THEN "remove" ELSE "ack")
        /\ UNCHANGED <<req, pending, trigger, entry, lock>> /\ worker[w].pc = "check"
    BY <1>13 DEF CheckEntry
  <2>2. CASE entry # NoEntry /\ entry.runner = Run(w)
    <3>1. MovesTo(w, "remove")
      BY <1>1, <2>1, <2>2, GotoMoves DEF WorkerPc
    <3>2. QED
      BY <2>1, <3>1 DEF Advance, Passes, Finishes, MovesTo
  <2>3. CASE ~(entry # NoEntry /\ entry.runner = Run(w))
    <3>1. MovesTo(w, "ack")
      BY <1>1, <2>1, <2>3, GotoMoves DEF WorkerPc
    <3>2. QED
      BY <2>1, <2>3, <3>1 DEF Advance, Passes, Finishes, MovesTo
  <2>4. QED
    BY <2>2, <2>3
<1>14. CASE RemoveEntry(w)
  BY <1>1, <1>14, StepMoves DEF RemoveEntry, CancelEntry, Advance, Passes, Finishes, MovesTo
<1>15. CASE Acknowledge(w)
  BY <1>1, <1>15 DEF Acknowledge, Idle, Advance, Passes, Finishes
<1> USE <1>1, <1>3, StepMoves
<1>17. CASE BeginRelease(w)
  BY <1>17 DEF BeginRelease
<1>18. CASE WriteStarting(w)
  BY <1>18 DEF WriteStarting
<1>19. CASE ReadForProgressing(w)
  BY <1>19 DEF ReadForProgressing
<1>20. CASE WriteProgressing(w)
  BY <1>20 DEF WriteProgressing
<1>21. CASE PushChart(w)
  BY <1>21 DEF PushChart
<1>22. CASE DeployArgoCdApp(w)
  BY <1>22 DEF DeployArgoCdApp
<1>23. CASE InstallHelmApp(w)
  BY <1>23 DEF InstallHelmApp
<1>24. CASE ReadPrevious(w)
  BY <1>24 DEF ReadPrevious
<1>25. CASE FailPrevious(w)
  BY <1>25 DEF FailPrevious
<1>26. CASE StampPrevious(w)
  BY <1>26 DEF StampPrevious
<1>27. CASE RecordError(w)
  BY <1>27 DEF RecordError
<1>28. CASE MarkFailed(w)
  BY <1>28 DEF MarkFailed
<1>29. QED
  BY <1>5, <1>6, <1>8, <1>9, <1>10, <1>11, <1>12, <1>13, <1>14, <1>15, <1>17, <1>18, <1>19,
     <1>20, <1>21, <1>22, <1>23, <1>24, <1>25, <1>26, <1>27, <1>28 DEF WorkerStep

LEMMA WorkerAdvances ==
  ASSUME EveryReleaseSettles, IInv, FailInv, ServeInv, HandsOver, NEW w \in Worker, WorkerStep(w)
  PROVE  Advance(w)
<1>1. CASE IgnoreError(w)
  <2>1. /\ MovesTo(w, "check") /\ worker[w].pc = "error"
        /\ UNCHANGED <<req, pending, trigger, entry, lock>>
    BY <1>1, StepMoves DEF IgnoreError, IInv, TypeOK, At, nats, db, ctx
  <2>2. worker[w].snap \in Terminal
    BY <1>1 DEF IgnoreError, ServeInv, NotCutShort
  <2>3. \A d \in Deployment : d = worker[w].run => Settled(d)
    BY <2>2 DEF ServeInv, SnapSeen, Settled, Run
  <2>4. SettledNext(worker[w].run)
    BY <2>3, SettledStays DEF SettledNext
  <2>5. QED
    BY <2>1, <2>4 DEF Advance, Passes, MovesTo, Pursuing, ReleasePc
<1>2. ~RecordHelmDeadline(w)
  BY DEF RecordHelmDeadline, HelmDeadline, ServeInv, NotCutShort
<1>3. QED
  BY <1>1, <1>2, StepAdvances

\* A worker in a release stays in it until its deployment is settled.
KeepsOn ==
  \A v \in Worker : worker[v].pc \in Pursuing =>
    \/ worker'[v].pc \in Pursuing \cup {"markTimeline"} /\ worker'[v].run = worker[v].run
    \/ SettledNext(worker[v].run)

LEMMA EngagedStays ==
  ASSUME HandsOver, KeepsOn, NEW d \in Deployment, Engaged(d)
  PROVE  Engaged(d)'
<1>1. CASE Settled(d)
  BY <1>1, SettledStays DEF Engaged
<1>2. ASSUME NEW w \in Worker, Run(w) = d, worker[w].pc \in Pursuing
      PROVE  Engaged(d)'
  <2>1. CASE worker'[w].pc \in Pursuing /\ worker'[w].run = worker[w].run
    BY <1>2, <2>1 DEF Engaged, Run
  <2>2. CASE worker'[w].pc = "markTimeline" /\ worker'[w].run = worker[w].run
    BY <1>2, <2>2 DEF Engaged, Settled, Explained, Run, At
  <2>3. CASE SettledNext(worker[w].run)
    BY <1>2, <2>3 DEF Engaged, SettledNext, Run
  <2>4. QED
    BY <1>2, <2>1, <2>2, <2>3 DEF KeepsOn
<1>3. QED
  BY <1>1, <1>2 DEF Engaged

LEMMA AdvanceKeepsOn ==
  ASSUME NEW w \in Worker, Advance(w)
  PROVE  KeepsOn
<1>1. ASSUME NEW v \in Worker, worker[v].pc \in Pursuing
      PROVE  \/ worker'[v].pc \in Pursuing \cup {"markTimeline"} /\ worker'[v].run = worker[v].run
             \/ SettledNext(worker[v].run)
  <2>1. CASE v # w
    BY <1>1, <2>1 DEF Advance, Passes, Finishes
  <2>2. CASE v = w
    BY <1>1, <2>2 DEF Advance, Passes, Finishes, Pursuing, ReleasePc
  <2>3. QED
    BY <2>1, <2>2
<1>2. QED
  BY <1>1 DEF KeepsOn

\* What a worker's step writes to the status of a runner.
LEMMA WorkerStatus ==
  ASSUME EveryReleaseSettles, IInv, ServeInv, NEW w \in Worker, WorkerStep(w)
  PROVE  \A d \in Deployment :
           /\ status'[d] # "Succeeded"
           /\ status'[d] = "Progressing" =>
                status[d] = "Progressing"
                  \/ (worker'[w].run = d /\ worker'[w].pc \in Pursuing)
<1> USE DEF At, Run
<1>1. worker \in [Worker -> Local] /\ status \in [Deployment -> Status]
  BY DEF IInv, TypeOK
<1>2. NoneSucceeded
  BY DEF ServeInv
<1>3. ASSUME UNCHANGED status
      PROVE  \A d \in Deployment :
               /\ status'[d] # "Succeeded"
               /\ status'[d] = "Progressing" => status[d] = "Progressing"
  BY <1>2, <1>3 DEF NoneSucceeded
<1>4. ASSUME NEW S, NEW s \in {"Failed", "Starting"}, SetStatus(S, s)
      PROVE  \A d \in Deployment :
               /\ status'[d] # "Succeeded"
               /\ status'[d] = "Progressing" => status[d] = "Progressing"
  BY <1>2, <1>4 DEF NoneSucceeded, SetStatus
<1>5. CASE WriteStarting(w)
  BY <1>4, <1>5 DEF WriteStarting
<1>6. CASE FailPrevious(w)
  BY <1>4, <1>6 DEF FailPrevious
<1>7. CASE MarkFailed(w)
  BY <1>4, <1>7 DEF MarkFailed
<1>8. CASE WriteProgressing(w)
  <2>1. PICK pc \in {"supersede", "push"} : MovesTo(w, pc)
    BY <1>1, <1>8, StepMoves
  <2>2. worker'[w].run = worker[w].run /\ worker'[w].pc \in Pursuing
    BY <2>1 DEF MovesTo, Pursuing, ReleasePc
  <2>3. QED
    BY <1>2, <1>8, <2>2 DEF WriteProgressing, SetStatus, NoneSucceeded
<1>9. ~RecordHelmDeadline(w)
  BY DEF RecordHelmDeadline, HelmDeadline, ServeInv, NotCutShort
<1>10. CASE UNCHANGED status
  BY <1>3, <1>10
<1>11. QED
  BY <1>5, <1>6, <1>7, <1>8, <1>9, <1>10 DEF WorkerStep, ReadRunner, SkipRequest, RejectRequest,
     ClaimRequest, BeginRelease, BuildTriggerEvent, ReadForProgressing, PushChart, DeployArgoCdApp,
     InstallHelmApp, ReadPrevious, StampPrevious, StampTriggered, IgnoreError, RecordError,
     MarkTimeline, CheckEntry, RemoveEntry, Acknowledge, db

\* What a worker has read of the status of its runner: before, or right now.
SnapFrom(w) ==
  \/ worker'[w].snap = "none"
  \/ /\ worker'[w].run = worker[w].run
     /\ worker'[w].snap \in {worker[w].snap, status[worker[w].run]}

LEMMA WorkerSnap ==
  ASSUME IInv, NEW w \in Worker, WorkerStep(w)
  PROVE  SnapFrom(w)
<1> USE DEF At, Run, SnapFrom
<1>1. worker \in [Worker -> Local]
  BY DEF IInv, TypeOK
<1>2. ASSUME NEW pc, NEW snap \in {"none", worker[w].snap, status[worker[w].run]}, NEW previous, NEW todo,
             Holds(w, pc, snap, previous, todo)
      PROVE  SnapFrom(w)
  BY <1>2 DEF Holds, MovesTo
<1>3. CASE ReadRunner(w)
  BY <1>1, <1>2, <1>3, SnapHolds DEF ReadRunner
<1>4. CASE BeginRelease(w)
  <2> DEFINE pc == IF AppType = "helm" /\ status[Run(w)] \notin Terminal
                   THEN "starting" ELSE "build"
  <2>1. worker' = [worker EXCEPT ![w].pc = pc, ![w].snap = status[Run(w)]]
    BY <1>4 DEF BeginRelease
  <2> HIDE DEF pc
  <2>2. Holds(w, pc, status[Run(w)], worker[w].previous, worker[w].todo)
    BY <1>1, <2>1, SnapHolds
  <2>3. QED
    BY <1>2, <2>2
<1>5. CASE ReadPrevious(w)
  BY <1>1, <1>2, <1>5, PreviousHolds
<1>6. CASE FailPrevious(w)
  BY <1>1, <1>2, <1>6, PreviousHolds
<1>7. CASE StampPrevious(w)
  BY <1>1, <1>2, <1>7, PreviousHolds
<1>8. CASE Acknowledge(w)
  BY <1>1, <1>8 DEF Acknowledge, Idle
<1>9. ASSUME NEW pc, NEW err, worker' = [worker EXCEPT ![w].pc = pc, ![w].err = err]
      PROVE  SnapFrom(w)
  BY <1>1, <1>2, <1>9, ErrHolds
<1>10. ASSUME NEW pc \in WorkerPc, Goto(w, pc)
       PROVE  SnapFrom(w)
  BY <1>1, <1>2, <1>10, GotoHolds
<1>11. ASSUME NEW err, Raise(w, err)
       PROVE  SnapFrom(w)
  BY <1>1, <1>2, <1>11, RaiseHolds
<1>12. CASE RejectRequest(w)
  BY <1>9, <1>12 DEF RejectRequest
<1>13. CASE RecordHelmDeadline(w)
  BY <1>9, <1>10, <1>13 DEF RecordHelmDeadline, WorkerPc
<1>14. (\E pc \in WorkerPc : Goto(w, pc)) \/ (\E err : Raise(w, err)) => SnapFrom(w)
  BY <1>10, <1>11
<1> HIDE DEF SnapFrom
<1> USE <1>14 DEF WorkerPc, ReleasePc
<1>15. CASE BuildTriggerEvent(w)
  BY <1>15 DEF BuildTriggerEvent
<1>16. CASE SkipRequest(w) \/ ClaimRequest(w) \/ WriteStarting(w)
  BY <1>16 DEF SkipRequest, ClaimRequest, WriteStarting
<1>17. CASE ReadForProgressing(w) \/ WriteProgressing(w)
  BY <1>17 DEF ReadForProgressing, WriteProgressing, AfterProgress
<1>18. CASE PushChart(w) \/ DeployArgoCdApp(w) \/ InstallHelmApp(w)
  BY <1>18 DEF PushChart, DeployArgoCdApp, InstallHelmApp
<1>19. CASE StampTriggered(w) \/ IgnoreError(w) \/ RecordError(w) \/ MarkFailed(w) \/ MarkTimeline(w)
  BY <1>19 DEF StampTriggered, IgnoreError, RecordError, MarkFailed, MarkTimeline
<1>20. CASE CheckEntry(w) \/ RemoveEntry(w)
  BY <1>20 DEF CheckEntry, RemoveEntry
<1>21. QED
  BY <1>3, <1>4, <1>5, <1>6, <1>7, <1>8, <1>12, <1>13, <1>15, <1>16, <1>17, <1>18, <1>19, <1>20
     DEF WorkerStep

LEMMA WorkerCancel ==
  ASSUME IInv, NEW w \in Worker, WorkerStep(w)
  PROVE  \A v \in Worker : cancel'[v] \in {cancel[v], "live", "superseded", "nil"}
<1>1. cancel \in [Worker -> {"none", "live", "superseded", "nil", "deadline", "shutdown"}]
  BY DEF IInv, TypeOK
<1>2. CASE ClaimRequest(w)
  BY <1>1, <1>2 DEF ClaimRequest, Register
<1>3. CASE RemoveEntry(w)
  BY <1>1, <1>3 DEF RemoveEntry, CancelEntry
<1>4. CASE UNCHANGED cancel
  BY <1>1, <1>4
<1>5. QED
  BY <1>2, <1>3, <1>4 DEF WorkerStep, ReadRunner, SkipRequest, RejectRequest, BeginRelease,
     WriteStarting, BuildTriggerEvent, ReadForProgressing, WriteProgressing, PushChart,
     DeployArgoCdApp, InstallHelmApp, ReadPrevious, FailPrevious, StampPrevious, StampTriggered,
     IgnoreError, RecordHelmDeadline, RecordError, MarkFailed, MarkTimeline, CheckEntry,
     Acknowledge, ctx

\* The error a worker goes on with is one it had, its own, or its context's.
ErrFrom(w) == worker'[w].err \in {worker[w].err, "none", "FAILED", "SUPERSEDED"} \cup ReleaseError(w)

LEMMA WorkerErr ==
  ASSUME IInv, NEW w \in Worker, WorkerStep(w)
  PROVE  ErrFrom(w)
<1> USE DEF At
<1>1. worker \in [Worker -> Local] /\ worker[w] \in Local
  BY DEF IInv, TypeOK
<1>2. ASSUME NEW l \in Local, worker' = [worker EXCEPT ![w] = l],
             l.err \in {worker[w].err, "none", "FAILED", "SUPERSEDED"} \cup ReleaseError(w)
      PROVE  ErrFrom(w)
  BY <1>1, <1>2 DEF ErrFrom
<1>3. ASSUME NEW pc, Goto(w, pc)
      PROVE  ErrFrom(w)
  BY <1>1, <1>3 DEF Goto, ErrFrom, Local
<1>4. ASSUME NEW err \in {"FAILED"} \cup ReleaseError(w), Raise(w, err)
      PROVE  ErrFrom(w)
  BY <1>1, <1>4 DEF Raise, ErrFrom, Local
<1>5. ASSUME NEW pc, NEW s,
             worker' = [worker EXCEPT ![w].pc = pc, ![w].snap = s]
      PROVE  ErrFrom(w)
  BY <1>1, <1>5 DEF ErrFrom, Local
<1>6. ASSUME NEW pc, NEW err \in {"FAILED", "SUPERSEDED"},
             worker' = [worker EXCEPT ![w].pc = pc, ![w].err = err]
      PROVE  ErrFrom(w)
  BY <1>1, <1>6 DEF ErrFrom, Local
<1>7. CASE ReadRunner(w)
  BY <1>5, <1>7 DEF ReadRunner
<1>8. CASE BeginRelease(w)
  <2> DEFINE pc == IF AppType = "helm" /\ status[Run(w)] \notin Terminal
                   THEN "starting" ELSE "build"
  <2>1. worker' = [worker EXCEPT ![w].pc = pc, ![w].snap = status[Run(w)]]
    BY <1>8 DEF BeginRelease
  <2> HIDE DEF pc
  <2>2. QED
    BY <1>5, <2>1
<1>9. CASE ReadPrevious(w)
  <2> DEFINE S == {e \in Deployment : e < Run(w) /\ status[e] \notin Terminal \cup {"none"}}
  <2> DEFINE pc == IF S = {} THEN "triggered" ELSE "supersedeWrite"
  <2>1. worker' = [worker EXCEPT ![w].pc = pc, ![w].previous = S, ![w].todo = S]
    BY <1>9 DEF ReadPrevious
  <2> HIDE DEF pc, S
  <2>2. worker'[w].err = worker[w].err
    BY <1>1, <2>1 DEF Local
  <2>3. QED
    BY <2>2 DEF ErrFrom
<1>10. CASE FailPrevious(w)
  <2>1. PICK e \in worker[w].todo :
           worker' = [worker EXCEPT
               ![w].pc = IF worker[w].todo = {e} THEN "supersedeTimeline" ELSE @,
               ![w].todo = @ \ {e}]
    BY <1>10 DEF FailPrevious
  <2> DEFINE pc == IF worker[w].todo = {e} THEN "supersedeTimeline" ELSE "supersedeWrite"
  <2> DEFINE T == worker[w].todo \ {e}
  <2>2. worker' = [worker EXCEPT ![w].pc = pc, ![w].todo = T]
    BY <1>10, <2>1 DEF FailPrevious
  <2> HIDE DEF pc, T
  <2>3. worker'[w].err = worker[w].err
    BY <1>1, <2>2 DEF Local
  <2>4. QED
    BY <2>3 DEF ErrFrom
<1>11. CASE StampPrevious(w)
  <2>1. worker' = [worker EXCEPT ![w].pc = "triggered", ![w].previous = {}]
    BY <1>11 DEF StampPrevious
  <2>2. worker'[w].err = worker[w].err
    BY <1>1, <2>1 DEF Local
  <2>3. QED
    BY <2>2 DEF ErrFrom
<1>12. CASE Acknowledge(w)
  BY <1>1, <1>12 DEF Acknowledge, Idle, ErrFrom
<1>13. CASE RejectRequest(w)
  BY <1>6, <1>13 DEF RejectRequest
<1>14. CASE RecordHelmDeadline(w)
  BY <1>3, <1>6, <1>14 DEF RecordHelmDeadline
<1>15. CASE BuildTriggerEvent(w)
  BY <1>3, <1>4, <1>15 DEF BuildTriggerEvent
<1>16. CASE SkipRequest(w) \/ ClaimRequest(w) \/ WriteStarting(w)
  BY <1>3, <1>16 DEF SkipRequest, ClaimRequest, WriteStarting
<1>17. CASE ReadForProgressing(w) \/ WriteProgressing(w)
  BY <1>3, <1>17 DEF ReadForProgressing, WriteProgressing
<1>18. CASE PushChart(w) \/ DeployArgoCdApp(w) \/ InstallHelmApp(w)
  BY <1>3, <1>4, <1>18 DEF PushChart, DeployArgoCdApp, InstallHelmApp
<1>19. CASE StampTriggered(w) \/ IgnoreError(w) \/ RecordError(w) \/ MarkFailed(w) \/ MarkTimeline(w)
  BY <1>3, <1>19 DEF StampTriggered, IgnoreError, RecordError, MarkFailed, MarkTimeline
<1>20. CASE CheckEntry(w) \/ RemoveEntry(w)
  BY <1>3, <1>20 DEF CheckEntry, RemoveEntry
<1>21. QED
  BY <1>7, <1>8, <1>9, <1>10, <1>11, <1>12, <1>13, <1>14, <1>15, <1>16, <1>17, <1>18, <1>19, <1>20
     DEF WorkerStep

\* A request that is the latest after a step was so before it.
LEMMA LatestBefore ==
  ASSUME TypeOK, NEW d \in Requested, IsLatest(d)',
         \A e \in Requested : req'[e] = req[e]
  PROVE  IsLatest(d)
<1>1. \A e \in Requested : e \in Requested'
  BY DEF Requested
<1>2. QED
  BY <1>1 DEF IsLatest

\* The parts of ServeInv that the database decides.
LEMMA SeenStays ==
  ASSUME IInv, FailInv, ServeInv, HandsOver, KeepsOn,
         \A v \in Worker : worker'[v] = worker[v] \/ SnapFrom(v),
         \A d \in Deployment : /\ status'[d] # "Succeeded"
                               /\ status'[d] = "Progressing" => status[d] = "Progressing" \/ Engaged(d)'
  PROVE  NoneSucceeded' /\ ProgressEngaged' /\ SnapSeen'
<1>1. NoneSucceeded'
  BY DEF NoneSucceeded
<1>2. ProgressEngaged'
  BY EngagedStays DEF ServeInv, ProgressEngaged
<1>3. ASSUME NEW w \in Worker, NEW d \in Deployment, worker'[w].run = d
      PROVE  /\ worker'[w].snap \in Terminal => Explained(d)'
             /\ worker'[w].snap = "Progressing" => Engaged(d)'
  <2>1. CASE worker'[w].snap = "none"
    BY <2>1 DEF Terminal
  <2>2. CASE worker'[w].run = worker[w].run /\ worker'[w].snap = worker[w].snap
    <3>1. /\ worker[w].snap \in Terminal => Explained(d)
          /\ worker[w].snap = "Progressing" => Engaged(d)
      BY <1>3, <2>2 DEF ServeInv, SnapSeen, Run
    <3>2. QED
      BY <2>2, <3>1, ExplainedStays, EngagedStays
  <2>3. CASE worker'[w].run = worker[w].run /\ worker'[w].snap = status[worker[w].run]
    <3>1. /\ status[d] \in Terminal => Explained(d)
          /\ status[d] = "Progressing" => Engaged(d)
      BY DEF FailInv, FailedExplained, ServeInv, NoneSucceeded, ProgressEngaged, Terminal
    <3>2. QED
      BY <1>3, <2>3, <3>1, ExplainedStays, EngagedStays
  <2>4. QED
    BY <2>1, <2>2, <2>3 DEF SnapFrom
<1>4. SnapSeen'
  BY <1>3 DEF SnapSeen, Run
<1>5. QED
  BY <1>1, <1>2, <1>4

\* The entry stays with its worker.
LEMMA OwnerPasses ==
  ASSUME IInv, OwnerReleases, NEW w \in Worker, Passes(w)
  PROVE  OwnerReleases'
<1> USE DEF At, Run
<1> SUFFICES ASSUME entry' # NoEntry
             PROVE  /\ worker'[entry'.owner].run = entry'.runner /\ lock' # entry'.owner
                    /\ worker'[entry'.owner].pc \in Pursuing \cup {"markTimeline", "check", "remove"}
  BY DEF OwnerReleases
<1>1. CASE UNCHANGED entry
  <2>1. /\ worker[entry.owner].run = entry.runner /\ lock # entry.owner
        /\ worker[entry.owner].pc \in Pursuing \cup {"markTimeline", "check", "remove"}
    BY <1>1 DEF OwnerReleases
  <2>2. entry.owner \in Worker
    BY <1>1 DEF IInv, TypeOK, Entry
  <2>3. CASE entry.owner # w
    <3>1. worker'[entry.owner] = worker[entry.owner]
      BY <2>2, <2>3 DEF Passes
    <3>2. lock' \in {lock, NoWorker, w}
      BY DEF Passes
    <3>3. QED
      BY <1>1, <2>1, <2>2, <2>3, <3>1, <3>2, NoWorkerAssumption
  <2>4. CASE entry.owner = w
    BY <1>1, <2>1, <2>2, <2>4, NoWorkerAssumption DEF Passes, Pursuing, ReleasePc
  <2>5. QED
    BY <2>3, <2>4
<1>2. CASE entry' # entry
  BY <1>2, NoWorkerAssumption DEF Passes, Pursuing, ReleasePc
<1>3. QED
  BY <1>1, <1>2

LEMMA AdvanceServes ==
  ASSUME IInv, ServeInv, HandsOver, KeepsOn, NEW w \in Worker, Advance(w)
  PROVE  OverSettled' /\ OwnerReleases' /\ Followed'
<1> USE DEF At, Run
<1>1. ASSUME NEW v \in Worker, NEW d \in Deployment, worker'[v].run = d,
             worker'[v].pc \in {"check", "remove"}
      PROVE  Settled(d)'
  <2>1. CASE worker[v].run = d /\ worker[v].pc \in {"check", "remove"}
    BY <2>1, SettledStays DEF ServeInv, OverSettled
  <2>2. CASE SettledNext(worker[v].run) /\ worker[v].run = d
    BY <2>2 DEF SettledNext
  <2>3. QED
    BY <1>1, <2>1, <2>2 DEF Advance, Passes, Finishes, Pursuing, ReleasePc
<1>2. OverSettled'
  BY <1>1 DEF OverSettled
<1>3. OwnerReleases'
  BY OwnerPasses DEF Advance, ServeInv
<1>4. ASSUME NEW d \in Requested', IsLatest(d)'
      PROVE  \/ Engaged(d)'
             \/ trigger'[d].pc \in {"publish", "mark"}
             \/ d \in pending'
             \/ \E v \in Worker : worker'[v].run = d /\ worker'[v].pc \in {"read", "validate"}
  <2>1. UNCHANGED <<req, pending, trigger>>
    BY DEF Advance, Passes, Finishes
  <2>2. d \in Requested /\ IsLatest(d) /\ d \in Deployment
    BY <1>4, <2>1 DEF Requested, IsLatest
  <2>3. CASE Engaged(d)
    BY <2>2, <2>3, EngagedStays
  <2>4. ASSUME NEW v \in Worker, worker[v].run = d, worker[v].pc \in {"read", "validate"}
        PROVE  \/ Engaged(d)'
               \/ \E u \in Worker : worker'[u].run = d /\ worker'[u].pc \in {"read", "validate"}
    <3>1. CASE v # w
      BY <2>4, <3>1 DEF Advance, Passes, Finishes
    <3>2. CASE v = w /\ worker'[w].pc \in {"validate", "mark", "begin"} /\ worker'[w].run = d
      <4>1. CASE worker'[w].pc = "validate"
        BY <3>2, <4>1
      <4>2. CASE worker'[w].pc \in Pursuing
        BY <3>2, <4>2 DEF Engaged
      <4>3. QED
        BY <3>2, <4>1, <4>2 DEF Pursuing, ReleasePc
    <3>3. CASE v = w /\ NothingToDo(w)
      <4>1. CASE worker[w].snap \in Terminal \cup {"Progressing"}
        <5>1. Engaged(d)
          BY <2>2, <2>4, <3>3, <4>1 DEF ServeInv, SnapSeen, Engaged, Settled
        <5>2. QED
          BY <2>2, <5>1, EngagedStays
      <4>2. CASE entry # NoEntry /\ entry.runner = worker[w].run
        <5>1. /\ entry.owner \in Worker /\ worker[entry.owner].run = d
              /\ worker[entry.owner].pc \in Pursuing \cup {"markTimeline", "check", "remove"}
          BY <2>4, <3>3, <4>2 DEF ServeInv, OwnerReleases, IInv, TypeOK, Entry
        <5>2. Engaged(d)
          BY <2>2, <5>1 DEF Engaged, Settled, Explained, ServeInv, OverSettled
        <5>3. QED
          BY <2>2, <5>2, EngagedStays
      <4>3. QED
        BY <3>3, <4>1, <4>2 DEF NothingToDo
    <3>4. QED
      BY <2>4, <3>1, <3>2, <3>3 DEF Advance, Passes, Finishes, Pursuing, ReleasePc
  <2>5. QED
    BY <2>1, <2>2, <2>3, <2>4 DEF ServeInv, Followed
<1>5. Followed'
  BY <1>4 DEF Followed
<1>6. QED
  BY <1>2, <1>3, <1>5

LEMMA WorkerNotCut ==
  ASSUME IInv, NotCutShort, NEW w \in Worker, WorkerStep(w), Passes(w)
  PROVE  NotCutShort'
<1>1. ASSUME NEW v \in Worker
      PROVE  cancel'[v] # "shutdown" /\ (AppType = "helm" => cancel'[v] # "deadline")
  BY WorkerCancel DEF NotCutShort
<1>2. ASSUME NEW v \in Worker, AppType = "helm"
      PROVE  worker'[v].err # "DEADLINE"
  <2>1. CASE v # w
    BY <1>2, <2>1 DEF NotCutShort, Passes
  <2>2. "DEADLINE" \notin ReleaseError(w)
    BY <1>2 DEF ReleaseError, ContextError, NotCutShort
  <2>3. CASE v = w
    BY <1>2, <2>2, <2>3, WorkerErr DEF NotCutShort, ErrFrom
  <2>4. QED
    BY <2>1, <2>3
<1>3. QED
  BY <1>1, <1>2 DEF NotCutShort

LEMMA WorkerServes ==
  ASSUME EveryReleaseSettles, IInv, FailInv, ServeInv, HandsOver, NEW w \in Worker, WorkerStep(w)
  PROVE  ServeInv'
<1>1. Advance(w) /\ KeepsOn
  BY WorkerAdvances, AdvanceKeepsOn
<1>2. OverSettled' /\ OwnerReleases' /\ Followed'
  BY <1>1, AdvanceServes
<1>3. \A d \in Deployment : worker'[w].run = d /\ worker'[w].pc \in Pursuing => Engaged(d)'
  BY DEF Engaged, Run
<1>4. NoneSucceeded' /\ ProgressEngaged' /\ SnapSeen'
  <2>1. \A d \in Deployment : /\ status'[d] # "Succeeded"
                              /\ status'[d] = "Progressing" => status[d] = "Progressing" \/ Engaged(d)'
    BY <1>3, WorkerStatus
  <2>2. \A v \in Worker : worker'[v] = worker[v] \/ SnapFrom(v)
    BY <1>1, WorkerSnap DEF Advance, Passes, Finishes
  <2>3. QED
    BY <1>1, <2>1, <2>2, SeenStays
<1>5. NotCutShort'
  BY <1>1, WorkerNotCut DEF Advance, ServeInv
<1>6. QED
  BY <1>2, <1>4, <1>5 DEF ServeInv

\* What a trigger's step does to requests and messages.
LEMMA TriggerTells ==
  ASSUME IInv, NEW d \in Deployment, TriggerStep(d) \/ SaveRunner(d)
  PROVE  /\ \A e \in Requested : req'[e] = req[e]
         /\ \A e \in Requested' : e \in Requested \/ (e = d /\ trigger'[d].pc = "publish")
         /\ pending \subseteq pending'
         /\ \A e \in Deployment : trigger[e].pc \in {"publish", "mark"} =>
              \/ trigger'[e].pc \in {"publish", "mark", "markTimeline"}
              \/ e \in pending'
<1> USE DEF TriggerAt, TriggerGoto
<1>0. /\ trigger \in [Deployment -> [pc : TriggerPc, previous : SUBSET Deployment]]
      /\ req \in [Deployment -> Request \cup {0}]
  BY DEF IInv, TypeOK
<1>1. CASE SaveRequest(d)
  BY <1>0, <1>1 DEF SaveRequest, Requested, IInv, TriggerSavesOnce, nats
<1>2. UNCHANGED req => \A e \in Requested' : e \in Requested
  BY DEF Requested
<1>3. CASE Publish(d)
  BY <1>0, <1>2, <1>3 DEF Publish, db, nats
<1>4. CASE FailTrigger(d)
  BY <1>0, <1>2, <1>4 DEF FailTrigger, nats
<1>5. CASE SaveRunner(d)
  BY <1>0, <1>2, <1>5 DEF SaveRunner, nats
<1>6. CASE ReadForQueued(d) \/ WriteQueued(d)
  BY <1>0, <1>2, <1>6 DEF ReadForQueued, WriteQueued, db, nats
<1>7. CASE ReadPreviousQueued(d) \/ StampPreviousQueued(d) \/ FailPreviousQueued(d)
  BY <1>0, <1>2, <1>7 DEF ReadPreviousQueued, StampPreviousQueued, FailPreviousQueued, db, nats
<1>8. CASE FailTriggerTimeline(d)
  BY <1>0, <1>2, <1>8 DEF FailTriggerTimeline, nats
<1>9. QED
  BY <1>1, <1>3, <1>4, <1>5, <1>6, <1>7, <1>8 DEF TriggerStep

\* The steps of a trigger: the workers and the map stay as they are.
LEMMA TriggerServes ==
  ASSUME IInv, FailInv, ServeInv, HandsOver, NEW d \in Deployment,
         TriggerStep(d) \/ SaveRunner(d)
  PROVE  ServeInv'
<1> USE DEF TriggerAt, TriggerGoto
<1>1. /\ trigger \in [Deployment -> [pc : TriggerPc, previous : SUBSET Deployment]]
      /\ req \in [Deployment -> Request \cup {0}] /\ TypeOK
      /\ status \in [Deployment -> Status]
  BY DEF IInv, TypeOK
<1>2. UNCHANGED <<worker, entry, cancel, lock>>
  BY DEF TriggerStep, SaveRunner, SaveRequest, Publish, ReadForQueued, WriteQueued,
     ReadPreviousQueued, StampPreviousQueued, FailPreviousQueued, FailTrigger, FailTriggerTimeline, ctx
<1>3. KeepsOn
  BY <1>2 DEF KeepsOn
<1>4. NoneSucceeded' /\ ProgressEngaged' /\ SnapSeen'
  <2>1. \/ UNCHANGED status
        \/ \E S, s : s \in {"Initiating", "Queued", "Failed"} /\ SetStatus(S, s)
    BY DEF TriggerStep, SaveRunner, SaveRequest, Publish, ReadForQueued, WriteQueued,
       ReadPreviousQueued, StampPreviousQueued, FailPreviousQueued, FailTrigger, FailTriggerTimeline, db
  <2>2. \A e \in Deployment : /\ status'[e] # "Succeeded"
                              /\ status'[e] = "Progressing" => status[e] = "Progressing"
    BY <2>1 DEF SetStatus, ServeInv, NoneSucceeded
  <2>3. QED
    BY <1>2, <1>3, <2>2, SeenStays
<1>5. OverSettled'
  BY <1>2, SettledStays DEF ServeInv, OverSettled, Run
<1>6. OwnerReleases' /\ NotCutShort'
  BY <1>2 DEF ServeInv, OwnerReleases, NotCutShort, Run
<1>7. /\ \A e \in Requested : req'[e] = req[e]
      /\ \A e \in Requested' : e \in Requested \/ (e = d /\ trigger'[d].pc = "publish")
      /\ pending \subseteq pending'
      /\ \A e \in Deployment : trigger[e].pc \in {"publish", "mark"} =>
           \/ trigger'[e].pc \in {"publish", "mark", "markTimeline"}
           \/ e \in pending'
  BY TriggerTells
<1>8. ASSUME NEW e \in Requested', IsLatest(e)'
      PROVE  \/ Engaged(e)'
             \/ trigger'[e].pc \in {"publish", "mark"}
             \/ e \in pending'
             \/ \E v \in Worker : worker'[v].run = e /\ worker'[v].pc \in {"read", "validate"}
  <2>1. CASE e = d /\ trigger'[d].pc = "publish"
    BY <2>1
  <2>2. CASE e \in Requested
    <3>1. IsLatest(e) /\ e \in Deployment
      BY <1>1, <1>7, <1>8, <2>2, LatestBefore DEF Requested
    <3>2. Engaged(e) => Engaged(e)'
      BY <1>3, <3>1, EngagedStays
    <3>3. trigger'[e].pc = "markTimeline" => Engaged(e)'
      BY DEF Engaged, Settled, Explained
    <3>4. QED
      BY <1>2, <1>7, <2>2, <3>1, <3>2, <3>3 DEF ServeInv, Followed, Run
  <2>3. QED
    BY <1>7, <2>1, <2>2
<1>9. Followed'
  BY <1>8 DEF Followed, Run
<1>10. QED
  BY <1>4, <1>5, <1>6, <1>9 DEF ServeInv

\* A message delivered is of the latest request, whichever its own is.
LEMMA DeliverServes ==
  ASSUME IInv, FailInv, ServeInv, HandsOver, NEW w \in Worker, NEW m \in Deployment, Deliver(w, m)
  PROVE  ServeInv'
<1> USE DEF Run
<1>1. /\ worker \in [Worker -> Local] /\ TypeOK /\ req \in [Deployment -> Request \cup {0}]
  BY DEF IInv, TypeOK
<1>2. /\ worker[w].pc = "idle" /\ \A v \in Worker \ {w} : worker'[v] = worker[v]
      /\ UNCHANGED <<status, timeline, req, trigger, entry, cancel, lock>> /\ pending' = pending \ {m}
  BY <1>1, TakesUp DEF Deliver, db, ctx, At
<1>3. PICK e \in Requested :
        /\ IsLatest(e)
        /\ worker'[w].pc = "read" /\ worker'[w].run = e /\ worker'[w].snap = "none" /\ worker'[w].err = "none"
  <2>1. PICK e \in Requested :
          /\ IsLatest(e)
          /\ worker' = [worker EXCEPT ![w] = [Idle EXCEPT !.pc = "read", !.run = e, !.msg = m]]
    BY DEF Deliver
  <2>2. QED
    BY <1>1, <2>1 DEF Idle
<1>4. KeepsOn
  BY <1>2 DEF KeepsOn, Pursuing, ReleasePc
<1>5. NoneSucceeded' /\ ProgressEngaged' /\ SnapSeen'
  <2>1. \A v \in Worker : worker'[v] = worker[v] \/ SnapFrom(v)
    BY <1>2, <1>3 DEF SnapFrom
  <2>2. \A d \in Deployment : status'[d] # "Succeeded"
    BY <1>2 DEF ServeInv, NoneSucceeded
  <2>3. QED
    BY <1>2, <1>4, <2>1, <2>2, SeenStays
<1>6. OverSettled'
  BY <1>2, <1>3, SettledStays DEF ServeInv, OverSettled
<1>7. OwnerReleases'
  <2>1. entry # NoEntry => entry.owner \in Worker
    BY <1>1 DEF TypeOK, Entry
  <2>2. QED
    BY <1>2, <2>1 DEF ServeInv, OwnerReleases, Pursuing, ReleasePc
<1>8. NotCutShort'
  BY <1>2, <1>3 DEF ServeInv, NotCutShort
<1>9. ASSUME NEW d \in Requested', IsLatest(d)'
      PROVE  \/ Engaged(d)'
             \/ trigger'[d].pc \in {"publish", "mark"}
             \/ d \in pending'
             \/ \E v \in Worker : worker'[v].run = d /\ worker'[v].pc \in {"read", "validate"}
  <2>1. d \in Requested /\ IsLatest(d) /\ d \in Deployment
    BY <1>2, <1>9 DEF Requested, IsLatest
  <2>2. req[d] \in Nat /\ req[e] \in Nat
    BY <1>1, <1>3, <2>1, RequestAssumption DEF Requested
  <2>3. d = e
    BY <1>3, <2>1, <2>2 DEF IsLatest, IInv, RequestIsUnique
  <2>4. QED
    BY <1>3, <2>3
<1>10. Followed'
  BY <1>9 DEF Followed
<1>11. QED
  BY <1>5, <1>6, <1>7, <1>8, <1>10 DEF ServeInv

LEMMA NextServes ==
  ASSUME EveryReleaseSettles, IInv, FailInv, ServeInv, cron = 0, ~boot, [Next]_vars
  PROVE  ServeInv' /\ ~boot'
<1>1. FailuresReported
  BY DEF EveryReleaseSettles, FailuresReported
<1>2. TypeOK /\ worker \in [Worker -> Local]
      /\ cancel \in [Worker -> {"none", "live", "superseded", "nil", "deadline", "shutdown"}]
  BY DEF IInv, TypeOK
<1>3. HandsOver
  BY <1>1, NextExplains
<1>4. ~Restart /\ ~CronWrite /\ ~ShutDownDevtronAppReleaseContext
  BY <1>1, <1>2, CronIsIdle
<1>5. \A w \in Worker : ~ProcessIncompleteDeploymentReq(w)
  BY DEF ProcessIncompleteDeploymentReq
<1>6. boot' = boot
  <2>1. ASSUME NEW w \in Worker, WorkerStep(w)
        PROVE  boot' = boot
    BY <2>1 DEF WorkerStep, ReadRunner, SkipRequest, RejectRequest, ClaimRequest, BeginRelease,
       WriteStarting, BuildTriggerEvent, ReadForProgressing, WriteProgressing, PushChart,
       DeployArgoCdApp, InstallHelmApp, ReadPrevious, FailPrevious, StampPrevious, StampTriggered,
       IgnoreError, RecordHelmDeadline, RecordError, MarkFailed, MarkTimeline, CheckEntry,
       RemoveEntry, Acknowledge, proc
  <2>2. ASSUME NEW d \in Deployment, TriggerStep(d) \/ SaveRunner(d)
        PROVE  boot' = boot
    BY <2>2 DEF TriggerStep, SaveRunner, SaveRequest, Publish, ReadForQueued, WriteQueued,
       ReadPreviousQueued, StampPreviousQueued, FailPreviousQueued, FailTrigger,
       FailTriggerTimeline, proc
  <2>3. ASSUME NEW d \in Deployment, Redeliver(d) \/ CronRead(d) \/ \E w \in Worker : Deliver(w, d)
        PROVE  boot' = boot
    BY <2>3 DEF Redeliver, CronRead, Deliver, proc
  <2>4. ASSUME NEW w \in Worker, DeadlineExceeded(w)
        PROVE  boot' = boot
    BY <2>4 DEF DeadlineExceeded, proc
  <2>5. CASE UNCHANGED vars
    BY <2>5 DEF vars, proc
  <2>6. QED
    BY <1>4, <1>5, <2>1, <2>2, <2>3, <2>4, <2>5 DEF Next
\* The rows, the triggers, the map and the workers stay.
<1>7. ASSUME UNCHANGED <<status, timeline, req, trigger, worker, entry, lock>>,
             pending \subseteq pending', NotCutShort'
      PROVE  ServeInv'
  <2>1. KeepsOn
    BY <1>7 DEF KeepsOn
  <2>2. NoneSucceeded' /\ ProgressEngaged' /\ SnapSeen'
    BY <1>3, <1>7, <2>1, SeenStays DEF ServeInv, NoneSucceeded
  <2>3. OverSettled'
    BY <1>3, <1>7, SettledStays DEF ServeInv, OverSettled, Run
  <2>4. OwnerReleases'
    BY <1>7 DEF ServeInv, OwnerReleases, Run
  <2>5. ASSUME NEW d \in Requested', IsLatest(d)'
        PROVE  \/ Engaged(d)'
               \/ trigger'[d].pc \in {"publish", "mark"}
               \/ d \in pending'
               \/ \E v \in Worker : worker'[v].run = d /\ worker'[v].pc \in {"read", "validate"}
    <3>1. d \in Requested /\ IsLatest(d) /\ d \in Deployment
      BY <1>7, <2>5 DEF Requested, IsLatest
    <3>2. Engaged(d) => Engaged(d)'
      BY <1>3, <2>1, <3>1, EngagedStays
    <3>3. QED
      BY <1>7, <3>1, <3>2 DEF ServeInv, Followed, Run
  <2>6. Followed'
    BY <2>5 DEF Followed, Run
  <2>7. QED
    BY <1>7, <2>2, <2>3, <2>4, <2>6 DEF ServeInv
<1>8. UNCHANGED <<worker, cancel>> => NotCutShort'
  BY DEF ServeInv, NotCutShort
<1>9. CASE UNCHANGED vars
  BY <1>6, <1>7, <1>8, <1>9 DEF vars, db, nats, ctx
<1>10. ASSUME NEW d \in Deployment, Redeliver(d) \/ CronRead(d)
       PROVE  ServeInv'
  BY <1>7, <1>8, <1>10 DEF Redeliver, CronRead, db, nats, ctx
<1>11. ASSUME NEW w \in Worker, DeadlineExceeded(w)
       PROVE  ServeInv'
  <2>1. NotCutShort'
    BY <1>2, <1>11 DEF DeadlineExceeded, EveryReleaseSettles, ServeInv, NotCutShort
  <2>2. QED
    BY <1>7, <1>11, <2>1 DEF DeadlineExceeded, db, nats
<1>12. QED
  BY <1>3, <1>4, <1>5, <1>6, <1>9, <1>10, <1>11, WorkerServes, TriggerServes, DeliverServes DEF Next

LEMMA InitServes == Init => ServeInv /\ ~boot
<1> SUFFICES ASSUME Init PROVE ServeInv /\ ~boot
  OBVIOUS
<1>1. Requested = {}
  BY DEF Init, Requested
<1>2. \A w \in Worker : worker[w] = Idle
  BY DEF Init
<1>3. QED
  BY <1>1, <1>2 DEF Init, ServeInv, NoneSucceeded, ProgressEngaged, SnapSeen, OverSettled, OwnerReleases,
     NotCutShort, Followed, Run, Idle, Terminal

\* The latest request of the pipeline is released, or its timeline says why not,
\* once all is at rest: whichever message was taken for it, whichever releases
\* failed or ran into their deadline and whichever requests were skipped because
\* their runner was in the map, finished or Progressing.
THEOREM LatestServed == EveryReleaseSettles => (Spec => []LatestServedAtRest)
<1> SUFFICES ASSUME EveryReleaseSettles PROVE Spec => []LatestServedAtRest
  OBVIOUS
<1> DEFINE Inv == IInv /\ FailInv /\ ServeInv /\ cron = 0 /\ ~boot
<1>1. Init => Inv
  BY InitHolds, InitExplained, InitServes
<1>2. Inv /\ [Next]_vars => Inv'
  BY Inductive, NextExplains, NextServes DEF EveryReleaseSettles, FailuresReported
<1>3. Inv => LatestServedAtRest
  <2> SUFFICES ASSUME Inv, AtRest, NEW d \in Requested, IsLatest(d)
               PROVE  Served(d)
    BY DEF LatestServedAtRest
  <2>1. \A w \in Worker : worker[w].pc = "idle"
    BY DEF AtRest, At
  <2>2. d \in Deployment /\ trigger[d].pc \in {"new", "done"} /\ d \notin pending
    BY DEF AtRest, Requested
  <2>3. Engaged(d)
    BY <2>1, <2>2 DEF ServeInv, Followed
  <2>4. Settled(d)
    BY <2>1, <2>3 DEF Engaged, Pursuing, ReleasePc
  <2>5. QED
    BY <2>1, <2>2, <2>4 DEF Settled, Explained, Served, At, TriggerAt, Superseding
<1> HIDE DEF Inv
<1>4. QED
  BY <1>1, <1>2, <1>3, PTL DEF Spec

-----------------------------------------------------------------------------
(* A release that is over is not repeated.                                 *)

\* Timelines are only ever added.
LEMMA TimelinesGrow ==
  ASSUME IInv, [Next]_vars
  PROVE  \A e \in Deployment : timeline[e] \subseteq timeline'[e]
<1> USE DEF db
<1>1. /\ timeline \in [Deployment -> SUBSET Timeline]
      /\ \A w \in Worker : At(w, "idle") \/ Run(w) \in Deployment
  BY DEF IInv, TypeOK, HasRequest, Requested
<1>2. ASSUME NEW d \in Deployment, NEW t, Stamp(d, t)
      PROVE  \A e \in Deployment : timeline[e] \subseteq timeline'[e]
  BY <1>1, <1>2, StampGrows
<1>3. ASSUME NEW w \in Worker, WorkerStep(w)
      PROVE  \A e \in Deployment : timeline[e] \subseteq timeline'[e]
  <2>1. CASE StampTriggered(w)
    BY <1>1, <1>2, <2>1 DEF StampTriggered, At
  <2>2. CASE MarkTimeline(w)
    BY <1>1, <1>2, <2>2 DEF MarkTimeline, At
  <2>3. CASE PushChart(w)
    BY <1>1, <2>3 DEF PushChart
  <2>4. CASE StampPrevious(w)
    BY <1>1, <2>4 DEF StampPrevious
  <2>5. CASE UNCHANGED timeline
    BY <2>5
  <2>6. QED
    BY <1>3, <2>1, <2>2, <2>3, <2>4, <2>5 DEF WorkerStep, ReadRunner, SkipRequest, RejectRequest,
       ClaimRequest, BeginRelease, WriteStarting, BuildTriggerEvent, ReadForProgressing,
       WriteProgressing, DeployArgoCdApp, InstallHelmApp, ReadPrevious, FailPrevious, IgnoreError,
       RecordHelmDeadline, RecordError, MarkFailed, CheckEntry, RemoveEntry, Acknowledge
<1>4. ASSUME NEW d \in Deployment, TriggerStep(d) \/ SaveRunner(d)
      PROVE  \A e \in Deployment : timeline[e] \subseteq timeline'[e]
  <2>1. CASE SaveRequest(d)
    BY <1>2, <2>1 DEF SaveRequest
  <2>2. CASE FailTriggerTimeline(d)
    BY <1>2, <2>2 DEF FailTriggerTimeline
  <2>3. CASE StampPreviousQueued(d)
    BY <1>1, <2>3 DEF StampPreviousQueued, Stamped
  <2>4. CASE UNCHANGED timeline
    BY <2>4
  <2>5. QED
    BY <1>4, <2>1, <2>2, <2>3, <2>4 DEF TriggerStep, SaveRunner, Publish, ReadForQueued, WriteQueued,
       ReadPreviousQueued, FailPreviousQueued, FailTrigger
<1>5. ASSUME NEW w \in Worker,
             (\E d \in Deployment : Deliver(w, d)) \/ ProcessIncompleteDeploymentReq(w) \/ DeadlineExceeded(w)
      PROVE  UNCHANGED timeline
  BY <1>5 DEF Deliver, ProcessIncompleteDeploymentReq, DeadlineExceeded
<1>6. ASSUME NEW d \in Deployment, Redeliver(d) \/ CronRead(d)
      PROVE  UNCHANGED timeline
  BY <1>6 DEF Redeliver, CronRead
<1>7. CronWrite \/ ShutDownDevtronAppReleaseContext \/ Restart \/ UNCHANGED vars => UNCHANGED timeline
  BY DEF CronWrite, ShutDownDevtronAppReleaseContext, Restart, vars
<1>8. QED
  BY <1>3, <1>4, <1>5, <1>6, <1>7 DEF Next

\* What is left of a release once it is on the cluster.
AfterRelease ==
  {"supersede", "supersedeWrite", "supersedeTimeline", "triggered"}
    \cup (IF AppType = "helm" THEN {"progress", "progressWrite"} ELSE {})

\* The deployment released last is recorded as such, or about to be.
Landed(d) == Served(d) \/ \E v \in Worker : Run(v) = d /\ worker[v].pc \in AfterRelease
LastLanded == \A d \in Deployment : deployed = d => Landed(d)

LEMMA LandedStays ==
  ASSUME IInv, ~Restart, [Next]_vars, NEW d \in Deployment, Landed(d)
  PROVE  Landed(d)'
<1> USE DEF At, Run
<1>1. worker \in [Worker -> Local] /\ timeline \in [Deployment -> SUBSET Timeline] /\ TypeOK
  BY DEF IInv, TypeOK
<1>2. \A e \in Deployment : timeline[e] \subseteq timeline'[e]
  BY TimelinesGrow
<1>3. CASE Served(d)
  BY <1>2, <1>3 DEF Landed, Served, HasTerminal
<1>4. ASSUME NEW v \in Worker, worker[v].run = d, worker[v].pc \in AfterRelease
      PROVE  Landed(d)'
  <2>1. CASE worker'[v] = worker[v]
    BY <1>4, <2>1 DEF Landed
  <2>2. ASSUME NEW pc \in AfterRelease, MovesTo(v, pc)
        PROVE  Landed(d)'
    BY <1>4, <2>2 DEF Landed, MovesTo
  <2>3. ASSUME WorkerStep(v)
        PROVE  Landed(d)'
    <3> USE <1>1, <1>4, <2>2, StepMoves
    <3>1. CASE StampTriggered(v)
      <4>1. "TRIGGERED" \in timeline'[d] \/ timeline'[d] \cap TerminalTimeline # {}
        BY <3>1, StampGrows DEF StampTriggered
      <4>2. QED
        BY <4>1 DEF Landed, Served, HasTerminal
    <3>2. CASE ReadForProgressing(v)
      <4>1. AppType = "helm"
        BY <3>2 DEF ReadForProgressing, AfterRelease
      <4>2. \E pc \in {"supersede", "progressWrite"} : Goto(v, pc)
        BY <3>2, <4>1 DEF ReadForProgressing, AfterProgress
      <4>3. \E pc \in {"supersede", "progressWrite"} : MovesTo(v, pc)
        BY <4>2, GotoMoves DEF WorkerPc, ReleasePc
      <4>4. QED
        BY <4>1, <4>3 DEF AfterRelease
    <3>3. CASE WriteProgressing(v)
      <4>1. AppType = "helm"
        BY <3>3 DEF WriteProgressing, AfterRelease
      <4>2. MovesTo(v, "supersede")
        BY <3>3, <4>1, GotoMoves DEF WriteProgressing, AfterProgress, WorkerPc, ReleasePc
      <4>3. QED
        BY <4>2 DEF AfterRelease
    <3>4. CASE ReadPrevious(v)
      BY <3>4 DEF AfterRelease
    <3>5. CASE FailPrevious(v)
      BY <3>5 DEF AfterRelease
    <3>6. CASE StampPrevious(v)
      BY <3>6 DEF AfterRelease
    <3>7. QED
      BY <2>3, <3>1, <3>2, <3>3, <3>4, <3>5, <3>6 DEF WorkerStep, ReadRunner, SkipRequest,
         RejectRequest, ClaimRequest, BeginRelease, WriteStarting, BuildTriggerEvent, PushChart,
         DeployArgoCdApp, InstallHelmApp, IgnoreError, RecordHelmDeadline, RecordError, MarkFailed,
         MarkTimeline, CheckEntry, RemoveEntry, Acknowledge, AfterRelease
  <2>4. ASSUME NEW w \in Worker, WorkerStep(w), w # v
        PROVE  worker'[v] = worker[v]
    BY <1>1, <2>4, StepMoves DEF WorkerStep, MovesTo, Acknowledge
  <2>5. ASSUME NEW w \in Worker,
               (\E e \in Deployment : Deliver(w, e)) \/ ProcessIncompleteDeploymentReq(w)
        PROVE  worker'[v] = worker[v]
    BY <1>1, <1>4, <2>5, TakesUp DEF AfterRelease
  <2>6. ASSUME NEW e \in Deployment, TriggerStep(e) \/ SaveRunner(e) \/ Redeliver(e) \/ CronRead(e)
        PROVE  UNCHANGED worker
    BY <2>6 DEF Redeliver, CronRead, TriggerStep, SaveRunner, SaveRequest, Publish, ReadForQueued,
       WriteQueued, ReadPreviousQueued, StampPreviousQueued, FailPreviousQueued, FailTrigger,
       FailTriggerTimeline
  <2>7. (\E w \in Worker : DeadlineExceeded(w)) \/ CronWrite \/ ShutDownDevtronAppReleaseContext
          \/ UNCHANGED vars => UNCHANGED worker
    BY DEF DeadlineExceeded, CronWrite, ShutDownDevtronAppReleaseContext, vars
  <2>8. QED
    BY <2>1, <2>3, <2>4, <2>5, <2>6, <2>7 DEF Next
<1>5. QED
  BY <1>3, <1>4 DEF Landed

\* Only a Helm application is installed.
HelmInstalls == \A w \in Worker : At(w, "install") => AppType = "helm"

LEMMA InstallsStay ==
  ASSUME IInv, HelmInstalls, ~Restart, [Next]_vars
  PROVE  HelmInstalls'
<1> USE DEF At
<1>1. worker \in [Worker -> Local] /\ TypeOK
  BY DEF IInv, TypeOK
<1>2. UNCHANGED worker => HelmInstalls'
  BY DEF HelmInstalls
<1>3. ASSUME NEW w \in Worker, WorkerStep(w)
      PROVE  HelmInstalls'
  <2>1. \A v \in Worker \ {w} : worker'[v] = worker[v]
    BY <1>1, <1>3, StepMoves DEF WorkerStep, MovesTo, Acknowledge
  <2>2. CASE BuildTriggerEvent(w)
    <3>1. CASE AppType = "helm"
      BY <3>1 DEF HelmInstalls
    <3>2. CASE AppType # "helm"
      <4>1. \/ \E pc \in {"check", "sync", "progress"} : Goto(w, pc)
            \/ \E err : Raise(w, err)
        BY <2>2, <3>2 DEF BuildTriggerEvent
      <4>2. \E pc \in {"check", "sync", "progress", "error"} : MovesTo(w, pc)
        BY <1>1, <4>1, GotoMoves, RaiseMoves DEF WorkerPc, ReleasePc
      <4>3. QED
        BY <2>1, <4>2 DEF HelmInstalls, MovesTo
    <3>3. QED
      BY <3>1, <3>2
  <2>3. CASE Acknowledge(w)
    BY <1>1, <2>1, <2>3 DEF HelmInstalls, Acknowledge, Idle
  <2>4. CASE ~BuildTriggerEvent(w) /\ ~Acknowledge(w)
    <3>1. worker'[w].pc # "install"
      BY <1>1, <1>3, <2>4, StepMoves DEF WorkerStep, MovesTo
    <3>2. QED
      BY <2>1, <3>1 DEF HelmInstalls
  <2>5. QED
    BY <2>2, <2>3, <2>4
<1>4. ASSUME NEW w \in Worker,
             (\E e \in Deployment : Deliver(w, e)) \/ ProcessIncompleteDeploymentReq(w)
      PROVE  HelmInstalls'
  BY <1>1, <1>2, <1>4, TakesUp DEF HelmInstalls
<1>5. ASSUME NEW e \in Deployment, TriggerStep(e) \/ SaveRunner(e) \/ Redeliver(e) \/ CronRead(e)
      PROVE  UNCHANGED worker
  BY <1>5 DEF Redeliver, CronRead, TriggerStep, SaveRunner, SaveRequest, Publish, ReadForQueued,
     WriteQueued, ReadPreviousQueued, StampPreviousQueued, FailPreviousQueued, FailTrigger,
     FailTriggerTimeline
<1>6. (\E w \in Worker : DeadlineExceeded(w)) \/ CronWrite \/ ShutDownDevtronAppReleaseContext
        \/ UNCHANGED vars => UNCHANGED worker
  BY DEF DeadlineExceeded, CronWrite, ShutDownDevtronAppReleaseContext, vars
<1>7. QED
  BY <1>2, <1>3, <1>4, <1>5, <1>6 DEF Next

LEMMA LastStays ==
  ASSUME IInv, LastLanded, HelmInstalls, ~Restart, [Next]_vars
  PROVE  LastLanded'
<1>1. worker \in [Worker -> Local]
  BY DEF IInv, TypeOK
<1>2. CASE UNCHANGED deployed
  BY <1>2, LandedStays DEF LastLanded
<1>3. ASSUME NEW w \in Worker, DeployArgoCdApp(w) \/ InstallHelmApp(w), deployed' # deployed
      PROVE  LastLanded'
  <2>1. deployed' = worker[w].run
    BY <1>3 DEF DeployArgoCdApp, InstallHelmApp, Run
  <2>2. InstallHelmApp(w) => AppType = "helm"
    BY DEF HelmInstalls, InstallHelmApp
  <2>3. Goto(w, "supersede") \/ (Goto(w, "progress") /\ InstallHelmApp(w))
    BY <1>3 DEF DeployArgoCdApp, InstallHelmApp
  <2>4. MovesTo(w, "supersede") \/ (MovesTo(w, "progress") /\ InstallHelmApp(w))
    BY <1>1, <2>3, GotoMoves DEF WorkerPc, ReleasePc
  <2>5. worker'[w].run = worker[w].run /\ worker'[w].pc \in AfterRelease
    BY <2>2, <2>4 DEF MovesTo, AfterRelease
  <2>6. QED
    BY <2>1, <2>5 DEF LastLanded, Landed, Run
<1>4. deployed' = deployed \/ \E w \in Worker : DeployArgoCdApp(w) \/ InstallHelmApp(w)
  <2>1. ASSUME NEW w \in Worker, WorkerStep(w), ~DeployArgoCdApp(w), ~InstallHelmApp(w)
        PROVE  deployed' = deployed
    BY <2>1 DEF WorkerStep, ReadRunner, SkipRequest, RejectRequest, ClaimRequest, BeginRelease,
       WriteStarting, BuildTriggerEvent, ReadForProgressing, WriteProgressing, PushChart,
       ReadPrevious, FailPrevious, StampPrevious, StampTriggered, IgnoreError, RecordHelmDeadline,
       RecordError, MarkFailed, MarkTimeline, CheckEntry, RemoveEntry, Acknowledge
  <2>2. ASSUME NEW d \in Deployment, TriggerStep(d) \/ SaveRunner(d) \/ Redeliver(d) \/ CronRead(d)
        PROVE  deployed' = deployed
    BY <2>2 DEF TriggerStep, SaveRunner, SaveRequest, Publish, ReadForQueued, WriteQueued, Redeliver,
       CronRead, ReadPreviousQueued, StampPreviousQueued, FailPreviousQueued, FailTrigger,
       FailTriggerTimeline
  <2>3. ASSUME NEW w \in Worker,
               (\E d \in Deployment : Deliver(w, d)) \/ ProcessIncompleteDeploymentReq(w) \/ DeadlineExceeded(w)
        PROVE  deployed' = deployed
    BY <2>3 DEF Deliver, ProcessIncompleteDeploymentReq, DeadlineExceeded
  <2>4. CronWrite \/ ShutDownDevtronAppReleaseContext \/ UNCHANGED vars => deployed' = deployed
    BY DEF CronWrite, ShutDownDevtronAppReleaseContext, vars
  <2>5. QED
    BY <2>1, <2>2, <2>3, <2>4 DEF Next
<1>5. QED
  BY <1>2, <1>3, <1>4

\* The deployment released last is not released again: another message, or a
\* redelivery of the same, finds its timeline, or a worker still about to write it.
\* A process that dies in between leaves neither.
THEOREM ReleasedOnce == MaxRestarts = 0 => (Spec => FinishedIsNotRepeated)
<1> SUFFICES ASSUME MaxRestarts = 0 PROVE Spec => FinishedIsNotRepeated
  OBVIOUS
<1> DEFINE Inv == IInv /\ LastLanded /\ HelmInstalls
<1> DEFINE Step == \A w \in Worker :
       (At(w, "build") /\ worker'[w].pc \in {"install", "sync", "progress"} /\ deployed = Run(w))
         => \E v \in Worker \ {w} : InRelease(v) /\ Run(v) = Run(w)
<1>1. Init => Inv
  <2> SUFFICES ASSUME Init PROVE Inv
    OBVIOUS
  <2>1. HelmInstalls
    BY DEF Init, HelmInstalls, At, Idle
  <2>2. LastLanded
    BY DeploymentAssumption DEF Init, LastLanded
  <2>3. QED
    BY <2>1, <2>2, InitHolds
<1>2. TypeOK => ~Restart
  BY DEF TypeOK, Restart
<1>3. Inv /\ [Next]_vars => Inv'
  BY <1>2, Inductive, LastStays, InstallsStay DEF IInv
<1>4. Inv /\ [Next]_vars => [Step]_vars
  <2> SUFFICES ASSUME Inv, [Next]_vars, NEW w \in Worker, At(w, "build"), deployed = Run(w),
                      worker'[w].pc \in {"install", "sync", "progress"}
               PROVE  \E v \in Worker \ {w} : InRelease(v) /\ Run(v) = Run(w)
    OBVIOUS
  <2>1. worker \in [Worker -> Local] /\ TypeOK /\ LockIsMarking
    BY DEF IInv, TypeOK
  <2>2. PICK d \in Deployment : d = Run(w)
    BY DEF IInv, HasRequest, Requested, At
  <2>3. Landed(d)
    BY <2>2 DEF LastLanded
  <2>4. BuildTriggerEvent(w)
    <3>1. worker'[w] # worker[w]
      BY DEF At
    <3>2. ASSUME NEW v \in Worker, WorkerStep(v), v # w
          PROVE  FALSE
      BY <2>1, <3>1, <3>2, StepMoves DEF WorkerStep, MovesTo, Acknowledge
    <3>3. ASSUME NEW v \in Worker,
                 (\E e \in Deployment : Deliver(v, e)) \/ ProcessIncompleteDeploymentReq(v)
          PROVE  FALSE
      BY <2>1, <3>1, <3>3, TakesUp DEF At
    <3>4. ASSUME NEW e \in Deployment, TriggerStep(e) \/ SaveRunner(e) \/ Redeliver(e) \/ CronRead(e)
          PROVE  UNCHANGED worker
      BY <3>4 DEF Redeliver, CronRead, TriggerStep, SaveRunner, SaveRequest, Publish, ReadForQueued,
         WriteQueued, ReadPreviousQueued, StampPreviousQueued, FailPreviousQueued, FailTrigger,
         FailTriggerTimeline
    <3>5. (\E v \in Worker : DeadlineExceeded(v)) \/ CronWrite \/ ShutDownDevtronAppReleaseContext
            \/ UNCHANGED vars => UNCHANGED worker
      BY DEF DeadlineExceeded, CronWrite, ShutDownDevtronAppReleaseContext, vars
    <3>6. WorkerStep(w)
      BY <1>2, <2>1, <3>1, <3>2, <3>3, <3>4, <3>5 DEF Next
    <3>7. QED
      BY <3>6 DEF WorkerStep, ReadRunner, SkipRequest, RejectRequest, ClaimRequest, BeginRelease,
         WriteStarting, ReadForProgressing, WriteProgressing, PushChart, DeployArgoCdApp,
         InstallHelmApp, ReadPrevious, FailPrevious, StampPrevious, StampTriggered, IgnoreError,
         RecordHelmDeadline, RecordError, MarkFailed, MarkTimeline, CheckEntry, RemoveEntry,
         Acknowledge, At
  <2>5. ~Served(d)
    <3>1. ~Goto(w, "check")
      BY <2>1, GotoMoves DEF WorkerPc, MovesTo
    <3>2. \A err : ~Raise(w, err)
      BY <2>1, RaiseMoves DEF MovesTo
    <3>3. QED
      BY <2>2, <2>4, <3>1, <3>2 DEF BuildTriggerEvent, Served
  <2>6. PICK v \in Worker : Run(v) = d /\ worker[v].pc \in AfterRelease
    BY <2>3, <2>5 DEF Landed
  <2>7. v # w /\ InRelease(v)
    BY <2>1, <2>6 DEF AfterRelease, At, InRelease, LockIsMarking
  <2>8. QED
    BY <2>2, <2>6, <2>7
<1> HIDE DEF Inv
<1>5. QED
  BY <1>1, <1>3, <1>4, PTL DEF Spec, FinishedIsNotRepeated
-----------------------------------------------------------------------------
(* The latest request survives a crash.                                    *)

\* One kill, at any point: a Helm pipeline whose process stops once and whose messages
\* come again only then. Deadlines leave the status to the cron, and a shutdown lets
\* workers acknowledge what they do not finish.
OneKill ==
  /\ AppType = "helm" /\ MaxRestarts <= 1 /\ MaxRedeliveries = 0
  /\ "deadline" \notin Faults /\ "shutdown" \notin Faults

\* A request that was released, or that is not the latest.
Reached(d) == d \in Requested /\ (deployed = d \/ ~IsLatest(d))

\* A runner that the kill left with a terminal status: nobody will change it again.
Abandoned(d) ==
  /\ restarts > 0 /\ TriggerAt(d, "done") /\ status[d] \in Terminal
  /\ \A w \in Worker : Run(w) = d =>
       \/ worker[w].pc \in {"read", "ack"}
       \/ At(w, "validate") /\ worker[w].snap \in Terminal

Ended(d)   == Settled(d) \/ Reached(d) \/ Abandoned(d)
Pursued(d) == Ended(d) \/ \E w \in Worker : Run(w) = d /\ worker[w].pc \in Pursuing

\* What a status says, in the row or as a worker or the cron has read it.
TerminalEnded   == \A d \in Deployment : status[d] \in Terminal /\ ~TriggerAt(d, "new") => Ended(d)
ProgressReached == \A d \in Deployment : status[d] = "Progressing" => Reached(d)
InstalledReached ==
  \A w \in Worker : At(w, "progress") \/ At(w, "progressWrite") => Reached(Run(w))
CronReached     == cron # 0 => Reached(cron)
SnapEnded ==
  \A w \in Worker, d \in Deployment :
    Run(w) = d /\ worker[w].snap \in Terminal \cup {"Progressing"} => Ended(d)
OverEnded ==
  \A w \in Worker, d \in Deployment :
    Run(w) = d /\ worker[w].pc \in {"check", "remove"} => Ended(d)

\* Before the kill a worker's message is its own, and not acknowledged.
MessagesHeld ==
  restarts = 0 =>
    /\ ~boot /\ pending \subseteq unacked
    /\ \A w \in Worker : ~At(w, "idle") => worker[w].msg \in unacked \ pending
    /\ \A v, w \in Worker : ~At(v, "idle") /\ ~At(w, "idle") /\ v # w => worker[v].msg # worker[w].msg
    /\ \A d \in Deployment : trigger[d].pc \in {"new", "request", "publish"} => d \notin unacked

\* What start-up goes by: a runner is Queued after its message is out, and its request
\* comes with a timeline.
Early == {"new", "request", "publish", "mark", "markTimeline"}
QueuedLast     == \A d \in Deployment : trigger[d].pc \in Early => status[d] # "Queued"
ValidatedFirst == \A d \in Requested : "VALIDATED" \in timeline[d] \/ HasTerminal(d)

\* Start-up will resume it.
Resumable(d) ==
  /\ boot /\ TriggerAt(d, "done") /\ "VALIDATED" \in timeline[d]
  /\ status[d] # "Queued"

Chased ==
  \A d \in Requested : IsLatest(d) =>
    \/ Pursued(d)
    \/ trigger[d].pc \in {"publish", "mark"}
    \/ pending # {}
    \/ \E w \in Worker : Run(w) = d /\ worker[w].pc \in {"read", "validate"}
    \/ Resumable(d)

StatusMeans == TerminalEnded /\ ProgressReached /\ InstalledReached /\ CronReached /\ SnapEnded
KillInv == /\ TodoOfPrevious /\ StampedFirst /\ StatusMeans /\ OverEnded
           /\ OwnerReleases /\ NotCutShort /\ MessagesHeld /\ QueuedLast /\ ValidatedFirst
           /\ Chased

\* What a step makes of a status; no step records a deadline.
StatusFrom(d) ==
  \/ status'[d] \in {status[d], "Failed"}
  \/ CronWrite /\ cron = d /\ status'[d] \in Terminal
  \/ SaveRunner(d) /\ status'[d] = "Initiating"
  \/ WriteQueued(d) /\ status'[d] = "Queued"
  \/ \E w \in Worker : WriteStarting(w) /\ Run(w) = d /\ status'[d] = "Starting"
  \/ \E w \in Worker : WriteProgressing(w) /\ Run(w) = d /\ status'[d] = "Progressing"

LEMMA StatusStep ==
  ASSUME IInv, [Next]_vars, \A w \in Worker : ~RecordHelmDeadline(w), NEW d \in Deployment
  PROVE  StatusFrom(d)
<1> USE DEF db
<1>1. ASSUME NEW S, SetStatus(S, "Failed")
      PROVE  StatusFrom(d)
  BY <1>1 DEF SetStatus, StatusFrom
<1>2. CASE UNCHANGED status
  BY <1>2 DEF StatusFrom
<1>3. ASSUME NEW w \in Worker, WorkerStep(w)
      PROVE  StatusFrom(d)
  <2>1. CASE WriteStarting(w)
    BY <2>1 DEF WriteStarting, SetStatus, StatusFrom
  <2>2. CASE WriteProgressing(w)
    BY <2>2 DEF WriteProgressing, SetStatus, StatusFrom
  <2>3. CASE FailPrevious(w)
    BY <1>1, <2>3 DEF FailPrevious
  <2>4. CASE MarkFailed(w)
    BY <1>1, <2>4 DEF MarkFailed
  <2>5. CASE UNCHANGED status
    BY <1>2, <2>5
  <2>6. QED
    BY <1>3, <2>1, <2>2, <2>3, <2>4, <2>5 DEF WorkerStep, ReadRunner, SkipRequest, RejectRequest,
       ClaimRequest, BeginRelease, BuildTriggerEvent, ReadForProgressing, PushChart, DeployArgoCdApp,
       InstallHelmApp, ReadPrevious, StampPrevious, StampTriggered, IgnoreError, RecordError,
       MarkTimeline, CheckEntry, RemoveEntry, Acknowledge
<1>4. ASSUME NEW e \in Deployment, TriggerStep(e) \/ SaveRunner(e)
      PROVE  StatusFrom(d)
  <2>1. CASE SaveRunner(e)
    BY <2>1 DEF SaveRunner, SetStatus, StatusFrom
  <2>2. CASE WriteQueued(e)
    BY <2>2 DEF WriteQueued, SetStatus, StatusFrom
  <2>3. CASE FailPreviousQueued(e)
    BY <1>1, <2>3 DEF FailPreviousQueued
  <2>4. CASE FailTrigger(e)
    BY <1>1, <2>4 DEF FailTrigger
  <2>5. CASE UNCHANGED status
    BY <1>2, <2>5
  <2>6. QED
    BY <1>4, <2>1, <2>2, <2>3, <2>4, <2>5 DEF TriggerStep, SaveRequest, Publish, ReadForQueued,
       ReadPreviousQueued, StampPreviousQueued, FailTriggerTimeline
<1>5. CASE CronWrite
  BY <1>5 DEF CronWrite, SetStatus, StatusFrom
<1>6. ASSUME NEW w \in Worker,
             (\E e \in Deployment : Deliver(w, e)) \/ ProcessIncompleteDeploymentReq(w) \/ DeadlineExceeded(w)
      PROVE  UNCHANGED status
  BY <1>6 DEF Deliver, ProcessIncompleteDeploymentReq, DeadlineExceeded
<1>7. ASSUME NEW e \in Deployment, Redeliver(e) \/ CronRead(e)
      PROVE  UNCHANGED status
  BY <1>7 DEF Redeliver, CronRead
<1>8. ShutDownDevtronAppReleaseContext \/ Restart \/ UNCHANGED vars => UNCHANGED status
  BY DEF ShutDownDevtronAppReleaseContext, Restart, vars
<1>9. QED
  BY <1>2, <1>3, <1>4, <1>5, <1>6, <1>7, <1>8 DEF Next

\* How the trigger of d goes on; its requests are saved once.
TriggerFrom(d) ==
  /\ trigger[d].pc = "done" => trigger'[d].pc = "done"
  /\ trigger[d].pc = "new" => trigger'[d].pc = "new" \/ SaveRunner(d)
  /\ trigger'[d].pc = "new" => trigger[d].pc = "new"
  /\ trigger'[d].pc \in Early => trigger[d].pc \in Early
  /\ trigger'[d].pc \in {"new", "request", "publish"} =>
       trigger[d].pc \in {"new", "request", "publish"} /\ ~Publish(d)

\* The steps that are not a trigger's.
LEMMA TriggersStay ==
  ASSUME [Next]_vars, ~Restart, \A e \in Deployment : ~TriggerStep(e) /\ ~SaveRunner(e)
  PROVE  UNCHANGED <<trigger, req>>
<1> USE DEF db
<1>1. ASSUME NEW w \in Worker, WorkerStep(w)
      PROVE  UNCHANGED <<trigger, req>>
  BY <1>1 DEF WorkerStep, ReadRunner, SkipRequest, RejectRequest, ClaimRequest, BeginRelease,
     WriteStarting, BuildTriggerEvent, ReadForProgressing, WriteProgressing, PushChart,
     DeployArgoCdApp, InstallHelmApp, ReadPrevious, FailPrevious, StampPrevious, StampTriggered,
     IgnoreError, RecordHelmDeadline, RecordError, MarkFailed, MarkTimeline, CheckEntry,
     RemoveEntry, Acknowledge
<1>2. ASSUME NEW w \in Worker,
             (\E e \in Deployment : Deliver(w, e)) \/ ProcessIncompleteDeploymentReq(w) \/ DeadlineExceeded(w)
      PROVE  UNCHANGED <<trigger, req>>
  BY <1>2 DEF Deliver, ProcessIncompleteDeploymentReq, DeadlineExceeded
<1>3. ASSUME NEW e \in Deployment, Redeliver(e) \/ CronRead(e)
      PROVE  UNCHANGED <<trigger, req>>
  BY <1>3 DEF Redeliver, CronRead
<1>4. ShutDownDevtronAppReleaseContext \/ CronWrite \/ UNCHANGED vars => UNCHANGED <<trigger, req>>
  BY DEF ShutDownDevtronAppReleaseContext, CronWrite, vars
<1>5. QED
  BY <1>1, <1>2, <1>3, <1>4 DEF Next

LEMMA TriggerGoesOn ==
  ASSUME IInv, [Next]_vars, ~Restart, NEW d \in Deployment
  PROVE  TriggerFrom(d)
<1> USE DEF TriggerAt, TriggerGoto, Early
<1>1. trigger \in [Deployment -> [pc : TriggerPc, previous : SUBSET Deployment]]
  BY DEF IInv, TypeOK
<1>2. CASE UNCHANGED trigger /\ ~Publish(d)
  BY <1>2 DEF TriggerFrom
<1>3. ASSUME NEW e \in Deployment, TriggerStep(e) \/ SaveRunner(e)
      PROVE  TriggerFrom(d)
  <2>1. CASE d # e
    <3>1. trigger'[d] = trigger[d]
      BY <1>1, <1>3, <2>1 DEF TriggerStep, SaveRunner, SaveRequest, Publish, ReadForQueued, WriteQueued,
         ReadPreviousQueued, StampPreviousQueued, FailPreviousQueued, FailTrigger, FailTriggerTimeline
    <3>2. ~Publish(d)
      <4>1. Publish(d) => trigger'[d].pc # trigger[d].pc
        BY <1>1 DEF Publish
      <4>2. QED
        BY <3>1, <4>1
    <3>3. QED
      BY <3>1, <3>2 DEF TriggerFrom
  <2>2. CASE d = e
    <3>1. CASE SaveRunner(d)
      BY <1>1, <3>1 DEF SaveRunner, TriggerFrom, Publish
    <3>2. CASE SaveRequest(d)
      BY <1>1, <3>2 DEF SaveRequest, TriggerFrom, Publish
    <3>3. CASE Publish(d)
      BY <1>1, <3>3 DEF Publish, TriggerFrom
    <3>4. CASE ReadForQueued(d) \/ WriteQueued(d)
      BY <1>1, <3>4 DEF ReadForQueued, WriteQueued, TriggerFrom, Publish
    <3>5. CASE ReadPreviousQueued(d) \/ StampPreviousQueued(d) \/ FailPreviousQueued(d)
      BY <1>1, <3>5 DEF ReadPreviousQueued, StampPreviousQueued, FailPreviousQueued, TriggerFrom, Publish
    <3>6. CASE FailTrigger(d) \/ FailTriggerTimeline(d)
      BY <1>1, <3>6 DEF FailTrigger, FailTriggerTimeline, TriggerFrom, Publish
    <3>7. QED
      BY <1>3, <2>2, <3>1, <3>2, <3>3, <3>4, <3>5, <3>6 DEF TriggerStep
  <2>3. QED
    BY <2>1, <2>2
<1>4. CASE \A e \in Deployment : ~TriggerStep(e) /\ ~SaveRunner(e)
  BY <1>2, <1>4, TriggersStay DEF TriggerStep
<1>5. QED
  BY <1>3, <1>4

\* Requests are not taken back.
LEMMA RequestsStay ==
  ASSUME IInv, [Next]_vars
  PROVE  \A e \in Requested : e \in Requested' /\ req'[e] = req[e]
<1>1. req \in [Deployment -> Request \cup {0}]
  BY DEF IInv, TypeOK
<1>2. ASSUME NEW d \in Deployment, TriggerStep(d) \/ SaveRunner(d)
      PROVE  \A e \in Requested : req'[e] = req[e]
  BY <1>2, TriggerTells
<1>3. CASE \A e \in Deployment : ~TriggerStep(e) /\ ~SaveRunner(e)
  <2>1. Restart => UNCHANGED req
    BY DEF Restart, db
  <2>2. UNCHANGED req
    BY <1>3, <2>1, TriggersStay
  <2>3. QED
    BY <2>2 DEF Requested
<1>4. QED
  BY <1>2, <1>3 DEF Requested

\* What reaches the cluster was requested.
LEMMA DeployedStep ==
  ASSUME IInv, [Next]_vars
  PROVE  deployed' = deployed \/ deployed' \in Requested
<1>1. ASSUME NEW w \in Worker, WorkerStep(w)
      PROVE  deployed' = deployed \/ deployed' \in Requested
  <2>1. CASE DeployArgoCdApp(w) \/ InstallHelmApp(w)
    BY <2>1 DEF DeployArgoCdApp, InstallHelmApp, IInv, HasRequest, At
  <2>2. CASE UNCHANGED deployed
    BY <2>2
  <2>3. QED
    BY <1>1, <2>1, <2>2 DEF WorkerStep, ReadRunner, SkipRequest, RejectRequest, ClaimRequest,
       BeginRelease, WriteStarting, BuildTriggerEvent, ReadForProgressing, WriteProgressing,
       PushChart, ReadPrevious, FailPrevious, StampPrevious, StampTriggered, IgnoreError,
       RecordHelmDeadline, RecordError, MarkFailed, MarkTimeline, CheckEntry, RemoveEntry, Acknowledge
<1>2. ASSUME NEW d \in Deployment, TriggerStep(d) \/ SaveRunner(d)
      PROVE  UNCHANGED deployed
  BY <1>2 DEF TriggerStep, SaveRunner, SaveRequest, Publish, ReadForQueued, WriteQueued,
     ReadPreviousQueued, StampPreviousQueued, FailPreviousQueued, FailTrigger, FailTriggerTimeline
<1>3. ASSUME NEW w \in Worker,
             (\E d \in Deployment : Deliver(w, d)) \/ ProcessIncompleteDeploymentReq(w) \/ DeadlineExceeded(w)
      PROVE  UNCHANGED deployed
  BY <1>3 DEF Deliver, ProcessIncompleteDeploymentReq, DeadlineExceeded
<1>4. ASSUME NEW d \in Deployment, Redeliver(d) \/ CronRead(d)
      PROVE  UNCHANGED deployed
  BY <1>4 DEF Redeliver, CronRead
<1>5. CronWrite \/ ShutDownDevtronAppReleaseContext \/ Restart \/ UNCHANGED vars => UNCHANGED deployed
  BY DEF CronWrite, ShutDownDevtronAppReleaseContext, Restart, vars
<1>6. QED
  BY <1>1, <1>2, <1>3, <1>4, <1>5 DEF Next

LEMMA ReachedStays ==
  ASSUME OrderInv, [Next]_vars, NEW d \in Deployment, Reached(d)
  PROVE  Reached(d)'
<1>1. IInv /\ \A e \in Deployment : req[e] \in Nat
  <2>1. req \in [Deployment -> Request \cup {0}]
    BY DEF OrderInv, IInv, TypeOK
  <2>2. ASSUME NEW e \in Deployment
        PROVE  req[e] \in Nat
    <3>1. req[e] \in Request \cup {0}
      BY <2>1
    <3>2. 0 \in Nat
      OBVIOUS
    <3>3. QED
      BY <3>1, <3>2, RequestAssumption, Zenon
  <2>3. QED
    BY <2>2 DEF OrderInv
<1>2. \A e \in Requested : e \in Requested' /\ req'[e] = req[e]
  BY <1>1, RequestsStay
<1>3. ASSUME NEW e \in Requested, ~(req[e] <= req[d])
      PROVE  Reached(d)'
  BY <1>2, <1>3 DEF Reached, IsLatest
<1>4. CASE deployed = d /\ deployed' # deployed
  <2>1. deployed' \in Requested /\ d \in Requested
    BY <1>1, <1>4, DeployedStep DEF Reached
  <2>2. deployed # 0
    BY <1>4, DeploymentAssumption
  <2>3. req[d] < req[deployed']
    BY <1>4, <2>2, OrderKeeps
  <2> DEFINE e == deployed'
  <2>4. e \in Requested /\ req[d] < req[e] /\ e \in Deployment
    BY <2>1, <2>3 DEF Requested
  <2> HIDE DEF e
  <2>5. QED
    BY <1>1, <1>3, <2>4
<1>5. CASE deployed' = d
  BY <1>2, <1>5 DEF Reached
<1>6. QED
  BY <1>3, <1>4, <1>5 DEF Reached, IsLatest

\* Every step of a worker but the one after a deadline passes.
LEMMA StepPasses ==
  ASSUME IInv, HandsOver, NEW w \in Worker, WorkerStep(w), ~RecordHelmDeadline(w)
  PROVE  Passes(w)
<1>1. CASE IgnoreError(w)
  <2>1. /\ MovesTo(w, "check") /\ worker[w].pc = "error"
        /\ UNCHANGED <<req, pending, trigger, entry, lock>>
    BY <1>1, StepMoves DEF IgnoreError, IInv, TypeOK, At, nats, db, ctx
  <2>2. QED
    BY <2>1 DEF Passes, MovesTo, Pursuing, ReleasePc
<1>2. QED
  BY <1>1, StepAdvances DEF Advance

LEMMA NextHandsOver ==
  ASSUME IInv, TodoOfPrevious, StampedFirst, ~Restart, [Next]_vars
  PROVE  /\ HandsOver /\ TodoOfPrevious' /\ StampedFirst'
         /\ ~CronWrite =>
              \A d \in Deployment : status'[d] = "Failed" => status[d] = "Failed" \/ Explained(d)'
<1>1. CASE ~CronWrite
  <2>1. Dutiful
    BY <1>1, NextDutiful
  <2>2. QED
    BY <2>1 DEF Dutiful
<1>2. CASE CronWrite
  <2>1. UNCHANGED <<timeline, trigger, worker>>
    BY <1>2 DEF CronWrite
  <2>2. HandsOver
    BY <2>1 DEF HandsOver, TriggerAt, At
  <2>3. TodoOfPrevious'
    BY <2>1 DEF TodoOfPrevious, At
  <2>4. StampedFirst'
    BY <2>1 DEF StampedFirst, TriggerAt, HasTerminal
  <2>5. QED
    BY <1>2, <2>2, <2>3, <2>4
<1>3. QED
  BY <1>1, <1>2

LEMMA NoHelmDeadline ==
  ASSUME NotCutShort, AppType = "helm", NEW w \in Worker
  PROVE  ~RecordHelmDeadline(w)
BY DEF NotCutShort, RecordHelmDeadline, HelmDeadline

\* What a step is to a worker.
TakesUpNow(w) ==
  /\ worker[w].pc = "idle" /\ worker'[w].pc = "read" /\ worker'[w].run \in Requested
  /\ worker'[w].snap = "none" /\ worker'[w].err = "none"

LEMMA WorkersMove ==
  ASSUME IInv, HandsOver, NotCutShort, AppType = "helm", ~Restart, [Next]_vars, NEW w \in Worker
  PROVE  \/ worker'[w] = worker[w]
         \/ WorkerStep(w) /\ Passes(w)
         \/ TakesUpNow(w)
<1>0. TypeOK
  BY DEF IInv
<1>1. ASSUME NEW v \in Worker, WorkerStep(v)
      PROVE  worker'[w] = worker[w] \/ (WorkerStep(w) /\ Passes(w))
  <2>1. Passes(v)
    BY <1>1, NoHelmDeadline, StepPasses
  <2>2. CASE v = w
    BY <1>1, <2>1, <2>2
  <2>3. CASE v # w
    BY <2>1, <2>3 DEF Passes
  <2>4. QED
    BY <2>2, <2>3
<1>2. ASSUME NEW v \in Worker,
             (\E d \in Deployment : Deliver(v, d)) \/ ProcessIncompleteDeploymentReq(v)
      PROVE  worker'[w] = worker[w] \/ TakesUpNow(w)
  BY <1>0, <1>2, TakesUp DEF TakesUpNow, At
<1>3. ASSUME NEW d \in Deployment, TriggerStep(d) \/ SaveRunner(d)
      PROVE  UNCHANGED worker
  BY <1>3 DEF TriggerStep, SaveRunner, SaveRequest, Publish, ReadForQueued, WriteQueued,
     ReadPreviousQueued, StampPreviousQueued, FailPreviousQueued, FailTrigger, FailTriggerTimeline
<1>4. ASSUME NEW d \in Deployment, Redeliver(d) \/ CronRead(d)
      PROVE  UNCHANGED worker
  BY <1>4 DEF Redeliver, CronRead
<1>5. ASSUME NEW v \in Worker, DeadlineExceeded(v)
      PROVE  UNCHANGED worker
  BY <1>5 DEF DeadlineExceeded
<1>6. CronWrite \/ ShutDownDevtronAppReleaseContext \/ UNCHANGED vars => UNCHANGED worker
  BY DEF CronWrite, ShutDownDevtronAppReleaseContext, vars
<1>7. QED
  BY <1>1, <1>2, <1>3, <1>4, <1>5, <1>6 DEF Next

LEMMA RestartsStay ==
  ASSUME ~Restart, [Next]_vars
  PROVE  UNCHANGED restarts /\ (UNCHANGED boot \/ \E w \in Worker : ProcessIncompleteDeploymentReq(w))
<1>1. ASSUME NEW w \in Worker, WorkerStep(w)
      PROVE  UNCHANGED <<restarts, boot>>
  BY <1>1 DEF WorkerStep, ReadRunner, SkipRequest, RejectRequest, ClaimRequest, BeginRelease,
     WriteStarting, BuildTriggerEvent, ReadForProgressing, WriteProgressing, PushChart,
     DeployArgoCdApp, InstallHelmApp, ReadPrevious, FailPrevious, StampPrevious, StampTriggered,
     IgnoreError, RecordHelmDeadline, RecordError, MarkFailed, MarkTimeline, CheckEntry,
     RemoveEntry, Acknowledge, proc
<1>2. ASSUME NEW d \in Deployment, TriggerStep(d) \/ SaveRunner(d)
      PROVE  UNCHANGED <<restarts, boot>>
  BY <1>2 DEF TriggerStep, SaveRunner, SaveRequest, Publish, ReadForQueued, WriteQueued,
     ReadPreviousQueued, StampPreviousQueued, FailPreviousQueued, FailTrigger, FailTriggerTimeline, proc
<1>3. ASSUME NEW w \in Worker, (\E d \in Deployment : Deliver(w, d)) \/ DeadlineExceeded(w)
      PROVE  UNCHANGED <<restarts, boot>>
  BY <1>3 DEF Deliver, DeadlineExceeded, proc
<1>4. ASSUME NEW d \in Deployment, Redeliver(d) \/ CronRead(d)
      PROVE  UNCHANGED <<restarts, boot>>
  BY <1>4 DEF Redeliver, CronRead, proc
<1>5. CronWrite \/ ShutDownDevtronAppReleaseContext \/ UNCHANGED vars => UNCHANGED <<restarts, boot>>
  BY DEF CronWrite, ShutDownDevtronAppReleaseContext, vars, proc
<1>6. \A w \in Worker : ProcessIncompleteDeploymentReq(w) => UNCHANGED restarts
  BY DEF ProcessIncompleteDeploymentReq
<1>7. QED
  BY <1>1, <1>2, <1>3, <1>4, <1>5, <1>6 DEF Next

LEMMA AbandonedStays ==
  ASSUME IInv, HandsOver, NotCutShort, AppType = "helm", ~Restart, [Next]_vars,
         NEW d \in Deployment, Abandoned(d)
  PROVE  Abandoned(d)'
<1> USE DEF At, Run, TriggerAt
<1>1. restarts' > 0
  BY RestartsStay DEF Abandoned
<1>2. trigger'[d].pc = "done"
  BY TriggerGoesOn DEF Abandoned, TriggerFrom
<1>3. status'[d] \in Terminal
  <2>1. StatusFrom(d)
    BY NoHelmDeadline, StatusStep
  <2>2. ~SaveRunner(d) /\ ~WriteQueued(d)
    BY DEF Abandoned, SaveRunner, WriteQueued
  <2>3. \A w \in Worker : Run(w) = d => ~WriteStarting(w) /\ ~WriteProgressing(w)
    BY DEF Abandoned, WriteStarting, WriteProgressing
  <2>4. QED
    BY <2>1, <2>2, <2>3 DEF Abandoned, StatusFrom, Terminal
<1>4. ASSUME NEW w \in Worker, worker'[w].run = d
      PROVE  \/ worker'[w].pc \in {"read", "ack"}
             \/ worker'[w].pc = "validate" /\ worker'[w].snap \in Terminal
  <2>1. CASE worker'[w] = worker[w]
    BY <1>4, <2>1 DEF Abandoned
  <2>2. CASE TakesUpNow(w)
    BY <2>2 DEF TakesUpNow
  <2>3. CASE WorkerStep(w) /\ Passes(w)
    <3>1. worker \in [Worker -> Local] /\ 0 \notin Deployment
      BY DeploymentAssumption DEF IInv, TypeOK
    <3>2. CASE worker[w].pc = "ack"
      <4>1. Acknowledge(w)
        BY <2>3, <3>2 DEF WorkerStep, ReadRunner, SkipRequest, RejectRequest, ClaimRequest,
           BeginRelease, WriteStarting, BuildTriggerEvent, ReadForProgressing, WriteProgressing,
           PushChart, DeployArgoCdApp, InstallHelmApp, ReadPrevious, FailPrevious, StampPrevious,
           StampTriggered, IgnoreError, RecordHelmDeadline, RecordError, MarkFailed, MarkTimeline,
           CheckEntry, RemoveEntry
      <4>2. worker'[w].run = 0
        BY <3>1, <4>1 DEF Acknowledge, Idle
      <4>3. QED
        BY <1>4, <3>1, <4>2
    <3>3. CASE worker[w].pc = "read"
      <4>1. ReadRunner(w)
        BY <2>3, <3>3 DEF WorkerStep, Acknowledge, SkipRequest, RejectRequest, ClaimRequest,
           BeginRelease, WriteStarting, BuildTriggerEvent, ReadForProgressing, WriteProgressing,
           PushChart, DeployArgoCdApp, InstallHelmApp, ReadPrevious, FailPrevious, StampPrevious,
           StampTriggered, IgnoreError, RecordHelmDeadline, RecordError, MarkFailed, MarkTimeline,
           CheckEntry, RemoveEntry
      <4>2. worker[w].run = d
        BY <1>4, <2>3, <3>3 DEF Passes
      <4>3. Holds(w, "validate", status[d], worker[w].previous, worker[w].todo)
        BY <3>1, <4>1, <4>2, SnapHolds DEF ReadRunner
      <4>4. QED
        BY <4>3 DEF Holds, MovesTo, Abandoned
    <3>4. CASE worker[w].pc = "validate"
      <4>1. worker[w].run = d
        BY <1>4, <2>3, <3>4 DEF Passes
      <4>2. worker[w].snap \in Terminal
        BY <3>4, <4>1 DEF Abandoned
      <4>3. SkipRequest(w)
        BY <2>3, <3>4, <4>2 DEF WorkerStep, ReadRunner, Acknowledge, RejectRequest, ClaimRequest,
           BeginRelease, WriteStarting, BuildTriggerEvent, ReadForProgressing, WriteProgressing,
           PushChart, DeployArgoCdApp, InstallHelmApp, ReadPrevious, FailPrevious, StampPrevious,
           StampTriggered, IgnoreError, RecordHelmDeadline, RecordError, MarkFailed, MarkTimeline,
           CheckEntry, RemoveEntry, NothingToDo
      <4>4. worker'[w].pc = "ack"
        BY <3>1, <4>3, StepMoves DEF MovesTo
      <4>5. QED
        BY <4>4
    <3>5. worker[w].pc = "ack" \/ worker[w].run = d
      BY <1>4, <2>3 DEF Passes
    <3>6. QED
      BY <3>2, <3>3, <3>4, <3>5 DEF Abandoned
  <2>4. QED
    BY <2>1, <2>2, <2>3, WorkersMove
<1>5. QED
  BY <1>1, <1>2, <1>3, <1>4 DEF Abandoned

LEMMA EndedStays ==
  ASSUME OrderInv, HandsOver, NotCutShort, AppType = "helm", ~Restart, [Next]_vars,
         NEW d \in Deployment, Ended(d)
  PROVE  Ended(d)'
BY SettledStays, ReachedStays, AbandonedStays DEF Ended, OrderInv

\* A step while the process lives.
Going == OneKill /\ OrderInv /\ KillInv /\ HandsOver /\ ~Restart /\ [Next]_vars

EndedNext(r) == \A d \in Deployment : d = r => Ended(d)'
Strides(w)   == Passes(w) /\ (Finishes(w) => EndedNext(worker[w].run))

LEMMA GoingOn ==
  ASSUME Going
  PROVE  /\ IInv /\ TypeOK /\ AppType = "helm" /\ NotCutShort
         /\ \A w \in Worker : ~RecordHelmDeadline(w)
         /\ \A d \in Deployment : Ended(d) => Ended(d)'
         /\ \A d \in Deployment : Reached(d) => Reached(d)'
<1>1. IInv /\ OrderInv /\ AppType = "helm" /\ NotCutShort /\ HandsOver /\ ~Restart /\ [Next]_vars
  BY DEF Going, OneKill, OrderInv, KillInv
<1>2. TypeOK
  BY <1>1 DEF IInv
<1>3. \A w \in Worker : ~RecordHelmDeadline(w)
  BY <1>1, NoHelmDeadline
<1>4. \A d \in Deployment : Ended(d) => Ended(d)'
  BY <1>1, EndedStays
<1>5. \A d \in Deployment : Reached(d) => Reached(d)'
  BY <1>1, ReachedStays
<1>6. QED
  BY <1>1, <1>2, <1>3, <1>4, <1>5

LEMMA StepStrides ==
  ASSUME Going, NEW w \in Worker, WorkerStep(w)
  PROVE  Strides(w)
<1> USE GoingOn
<1>1. Passes(w)
  BY StepPasses DEF Going
<1>2. CASE IgnoreError(w)
  <2>1. worker[w].snap \in Terminal
    BY <1>2 DEF IgnoreError, NotCutShort
  <2>2. \A d \in Deployment : d = worker[w].run => Ended(d)
    BY <2>1 DEF Going, KillInv, StatusMeans, SnapEnded, Run
  <2>3. QED
    BY <1>1, <2>2 DEF Strides, EndedNext
<1>3. CASE ~IgnoreError(w)
  <2>1. Advance(w)
    BY <1>3, StepAdvances DEF Going
  <2>2. Finishes(w) => EndedNext(worker[w].run)
    BY <2>1 DEF Advance, SettledNext, EndedNext, Ended
  <2>3. QED
    BY <1>1, <2>2 DEF Strides
<1>4. QED
  BY <1>2, <1>3

\* What a step is to a worker, once more.
LEMMA WorkersStride ==
  ASSUME Going, NEW w \in Worker
  PROVE  \/ worker'[w] = worker[w]
         \/ WorkerStep(w) /\ Strides(w)
         \/ TakesUpNow(w)
BY GoingOn, WorkersMove, StepStrides DEF Going

LEMMA PursuedStays ==
  ASSUME Going, NEW d \in Deployment, Pursued(d)
  PROVE  Pursued(d)'
<1> USE DEF Run
<1>1. CASE Ended(d)
  BY <1>1, GoingOn DEF Pursued
<1>2. ASSUME NEW w \in Worker, worker[w].run = d, worker[w].pc \in Pursuing
      PROVE  Pursued(d)'
  <2>1. CASE worker'[w] = worker[w]
    BY <1>2, <2>1 DEF Pursued
  <2>2. CASE Strides(w)
    <3>1. CASE worker'[w].pc \in Pursuing /\ worker'[w].run = d
      BY <3>1 DEF Pursued
    <3>2. CASE worker'[w].pc = "markTimeline" /\ worker'[w].run = d
      BY <3>2 DEF Pursued, Ended, Settled, Explained, At
    <3>3. CASE worker'[w].pc = "check"
      BY <1>2, <2>2, <3>3 DEF Strides, Finishes, EndedNext, Pursued
    <3>4. QED
      BY <1>2, <2>2, <3>1, <3>2, <3>3 DEF Strides, Passes, Pursuing, ReleasePc
  <2>3. ~TakesUpNow(w)
    BY <1>2 DEF TakesUpNow, Pursuing, ReleasePc
  <2>4. QED
    BY <2>1, <2>2, <2>3, WorkersStride
<1>3. QED
  BY <1>1, <1>2 DEF Pursued

-----------------------------------------------------------------------------
(* What a status says.                                                     *)

LEMMA TerminalKeeps ==
  ASSUME Going
  PROVE  TerminalEnded'
<1> USE DEF TriggerAt
<1> SUFFICES ASSUME NEW d \in Deployment, status'[d] \in Terminal, trigger'[d].pc # "new"
             PROVE  Ended(d)'
  BY DEF TerminalEnded
<1>1. TriggerFrom(d)
  BY GoingOn, TriggerGoesOn DEF Going
<1>2. ~SaveRunner(d)
  BY GoingOn DEF SaveRunner, SetStatus, TypeOK, Terminal
<1>3. CASE status[d] \in Terminal
  <2>1. trigger[d].pc # "new"
    BY <1>1, <1>2 DEF TriggerFrom
  <2>2. Ended(d)
    BY <1>3, <2>1 DEF Going, KillInv, StatusMeans, TerminalEnded
  <2>3. QED
    BY <2>2, GoingOn
<1>4. CASE CronWrite /\ cron = d
  <2>1. Reached(d)'
    BY <1>4, GoingOn, DeploymentAssumption DEF Going, KillInv, StatusMeans, CronReached
  <2>2. QED
    BY <2>1 DEF Ended
<1>5. CASE CronWrite /\ cron # d
  BY <1>3, <1>5, GoingOn DEF CronWrite, SetStatus, TypeOK
<1>6. CASE ~CronWrite /\ status[d] \notin Terminal
  <2>1. StatusFrom(d)
    BY GoingOn, StatusStep DEF Going
  <2>2. status'[d] = "Failed"
    BY <1>2, <1>6, <2>1 DEF StatusFrom, Terminal
  <2>3. Explained(d)'
    BY <1>6, <2>2, GoingOn, NextHandsOver DEF Going, KillInv, Terminal
  <2>4. QED
    BY <2>3 DEF Ended, Settled
<1>7. QED
  BY <1>3, <1>4, <1>5, <1>6

LEMMA ProgressKeeps ==
  ASSUME Going
  PROVE  ProgressReached'
<1> SUFFICES ASSUME NEW d \in Deployment, status'[d] = "Progressing"
             PROVE  Reached(d)'
  BY DEF ProgressReached
<1>1. StatusFrom(d)
  BY GoingOn, StatusStep DEF Going
<1>2. CASE status[d] = "Progressing"
  BY <1>2, GoingOn DEF Going, KillInv, StatusMeans, ProgressReached
<1>3. ASSUME NEW w \in Worker, WriteProgressing(w), Run(w) = d
      PROVE  Reached(d)'
  <2>1. Reached(Run(w))
    BY <1>3 DEF WriteProgressing, Going, KillInv, StatusMeans, InstalledReached
  <2>2. Reached(d)
    BY <1>3, <2>1
  <2>3. QED
    BY <2>2, GoingOn
<1>4. QED
  BY <1>1, <1>2, <1>3 DEF StatusFrom, Terminal

LEMMA InstalledFrom ==
  ASSUME IInv, AppType = "helm", NEW w \in Worker, WorkerStep(w),
         worker'[w].pc \in {"progress", "progressWrite"}
  PROVE  worker[w].pc \in {"progress", "progressWrite"} \/ deployed' = worker[w].run
<1> USE DEF At, Run
<1>1. worker \in [Worker -> Local]
  BY DEF IInv, TypeOK
<1>2. CASE InstallHelmApp(w)
  <2>1. \A err : ~Raise(w, err)
    BY <1>1, RaiseMoves DEF MovesTo
  <2>2. QED
    BY <1>2, <2>1 DEF InstallHelmApp
<1>3. CASE BuildTriggerEvent(w)
  <2>1. \A err : ~Raise(w, err)
    BY <1>1, RaiseMoves DEF MovesTo
  <2>2. ~Goto(w, "check") /\ ~Goto(w, "install")
    BY <1>1, GotoMoves DEF MovesTo, WorkerPc, ReleasePc
  <2>3. QED
    BY <1>3, <2>1, <2>2 DEF BuildTriggerEvent
<1>4. CASE ReadForProgressing(w)
  BY <1>4 DEF ReadForProgressing
<1>5. CASE Acknowledge(w)
  BY <1>1, <1>5 DEF Acknowledge, Idle
<1>6. QED
  BY <1>1, <1>2, <1>3, <1>4, <1>5, StepMoves DEF WorkerStep, MovesTo

LEMMA InstalledKeeps ==
  ASSUME Going
  PROVE  InstalledReached'
<1> USE DEF At, Run
<1> SUFFICES ASSUME NEW w \in Worker, worker'[w].pc \in {"progress", "progressWrite"}
             PROVE  \A d \in Deployment : d = worker'[w].run => Reached(d)'
  <2>1. \A w \in Worker : worker'[w].pc \in {"progress", "progressWrite"} => worker'[w].run \in Deployment
    BY GoingOn, Inductive DEF Going, IInv, HasRequest, Requested
  <2>2. QED
    BY <2>1 DEF InstalledReached
<1>1. CASE worker'[w] = worker[w]
  BY <1>1, GoingOn DEF Going, KillInv, StatusMeans, InstalledReached
<1>2. CASE WorkerStep(w) /\ Strides(w)
  <2>1. worker'[w].run = worker[w].run
    BY <1>2 DEF Strides, Passes, Pursuing, ReleasePc
  <2>2. CASE worker[w].pc \in {"progress", "progressWrite"}
    BY <2>1, <2>2, GoingOn DEF Going, KillInv, StatusMeans, InstalledReached
  <2>3. CASE deployed' = worker[w].run
    <3>1. worker[w].run \in Requested
      BY <1>2 DEF Strides, Passes, Going, OrderInv, IInv, HasRequest, Pursuing, ReleasePc
    <3>2. worker[w].run \in Requested'
      BY <3>1, GoingOn, RequestsStay DEF Going
    <3>3. QED
      BY <2>1, <2>3, <3>2 DEF Reached
  <2>4. QED
    BY <1>2, <2>2, <2>3, GoingOn, InstalledFrom
<1>3. ~TakesUpNow(w)
  BY DEF TakesUpNow
<1>4. QED
  BY <1>1, <1>2, <1>3, WorkersStride

LEMMA CronKeeps ==
  ASSUME Going
  PROVE  CronReached'
<1> SUFFICES ASSUME NEW d \in Deployment, d = cron'
             PROVE  Reached(d)'
  <2>1. cron' \in Deployment \cup {0}
    BY GoingOn, Inductive DEF Going, IInv, TypeOK
  <2>2. QED
    BY <2>1 DEF CronReached
<1>1. CASE cron' = cron
  <2>1. Reached(d)
    BY <1>1, DeploymentAssumption DEF Going, KillInv, StatusMeans, CronReached
  <2>2. QED
    BY <2>1, GoingOn
<1>2. ASSUME NEW e \in Deployment, CronRead(e)
      PROVE  Reached(d)'
  <2>1. status[d] = "Progressing"
    BY <1>2 DEF CronRead
  <2>2. QED
    BY <2>1, GoingOn DEF Going, KillInv, StatusMeans, ProgressReached
<1>3. CASE CronWrite
  BY <1>3, DeploymentAssumption DEF CronWrite
<1>4. ASSUME NEW w \in Worker, WorkerStep(w)
      PROVE  cron' = cron
  BY <1>4 DEF WorkerStep, ReadRunner, SkipRequest, RejectRequest, ClaimRequest, BeginRelease,
     WriteStarting, BuildTriggerEvent, ReadForProgressing, WriteProgressing, PushChart,
     DeployArgoCdApp, InstallHelmApp, ReadPrevious, FailPrevious, StampPrevious, StampTriggered,
     IgnoreError, RecordHelmDeadline, RecordError, MarkFailed, MarkTimeline, CheckEntry,
     RemoveEntry, Acknowledge
<1>5. ASSUME NEW e \in Deployment, TriggerStep(e) \/ SaveRunner(e) \/ Redeliver(e)
      PROVE  cron' = cron
  BY <1>5 DEF TriggerStep, SaveRunner, SaveRequest, Publish, ReadForQueued, WriteQueued,
     ReadPreviousQueued, StampPreviousQueued, FailPreviousQueued, FailTrigger, FailTriggerTimeline,
     Redeliver
<1>6. ASSUME NEW w \in Worker,
             (\E e \in Deployment : Deliver(w, e)) \/ ProcessIncompleteDeploymentReq(w) \/ DeadlineExceeded(w)
      PROVE  cron' = cron
  BY <1>6 DEF Deliver, ProcessIncompleteDeploymentReq, DeadlineExceeded
<1>7. ShutDownDevtronAppReleaseContext \/ UNCHANGED vars => cron' = cron
  BY DEF ShutDownDevtronAppReleaseContext, vars
<1>8. QED
  BY <1>1, <1>2, <1>3, <1>4, <1>5, <1>6, <1>7 DEF Next, Going

LEMMA SnapKeeps ==
  ASSUME Going
  PROVE  SnapEnded'
<1> USE DEF Run
<1> SUFFICES ASSUME NEW w \in Worker, NEW d \in Deployment, worker'[w].run = d,
                    worker'[w].snap \in Terminal \cup {"Progressing"}
             PROVE  Ended(d)'
  BY DEF SnapEnded
<1>1. CASE worker[w].run = d /\ worker'[w].snap = worker[w].snap
  BY <1>1, GoingOn DEF Going, KillInv, StatusMeans, SnapEnded
<1>2. CASE WorkerStep(w) /\ worker[w].run = d /\ worker'[w].snap = status[d]
  <2>1. worker[w].pc # "idle"
    BY <1>2, StepStrides DEF Strides, Passes, Pursuing, ReleasePc
  <2>2. d \in Requested
    BY <1>2, <2>1, GoingOn DEF IInv, HasRequest, At
  <2>3. trigger[d].pc # "new"
    BY <2>2, GoingOn DEF IInv, TriggerSavesOnce, TriggerAt, Requested
  <2>4. CASE status[d] \in Terminal
    <3>1. Ended(d)
      BY <2>3, <2>4 DEF Going, KillInv, StatusMeans, TerminalEnded, TriggerAt
    <3>2. QED
      BY <3>1, GoingOn
  <2>5. CASE status[d] = "Progressing"
    <3>1. Ended(d)
      BY <2>5 DEF Going, KillInv, StatusMeans, ProgressReached, Ended
    <3>2. QED
      BY <3>1, GoingOn
  <2>6. QED
    BY <1>2, <2>4, <2>5
<1>3. CASE WorkerStep(w)
  <2>1. SnapFrom(w)
    BY <1>3, GoingOn, WorkerSnap
  <2>2. QED
    BY <1>1, <1>2, <1>3, <2>1 DEF SnapFrom, Terminal
<1>4. ~TakesUpNow(w)
  BY DEF TakesUpNow, Terminal
<1>5. QED
  BY <1>1, <1>3, <1>4, WorkersStride

LEMMA OverKeeps ==
  ASSUME Going
  PROVE  OverEnded'
<1> USE DEF Run
<1> SUFFICES ASSUME NEW w \in Worker, NEW d \in Deployment, worker'[w].run = d,
                    worker'[w].pc \in {"check", "remove"}
             PROVE  Ended(d)'
  BY DEF OverEnded
<1>1. CASE worker[w].run = d /\ worker[w].pc \in {"check", "remove"}
  BY <1>1, GoingOn DEF Going, KillInv, OverEnded
<1>2. CASE Strides(w)
  <2>1. worker[w].run = d
    BY <1>2 DEF Strides, Passes, Pursuing, ReleasePc
  <2>2. CASE Finishes(w)
    BY <1>2, <2>1, <2>2 DEF Strides, EndedNext
  <2>3. CASE ~Finishes(w)
    BY <1>1, <1>2, <2>1, <2>3 DEF Strides, Passes, Finishes, Pursuing, ReleasePc
  <2>4. QED
    BY <2>2, <2>3
<1>3. ~TakesUpNow(w)
  BY DEF TakesUpNow
<1>4. QED
  BY <1>1, <1>2, <1>3, WorkersStride

\* The kinds of steps while the process lives.
Quiet ==
  /\ UNCHANGED <<timeline, req, pending, unacked, trigger, worker, entry, cancel, lock>>
  /\ UNCHANGED <<restarts, boot, deployed>>

LEMMA GoingSteps ==
  ASSUME Going
  PROVE  \/ \E w \in Worker : WorkerStep(w)
         \/ \E d \in Deployment : TriggerStep(d) \/ SaveRunner(d)
         \/ \E w \in Worker, d \in Deployment : Deliver(w, d)
         \/ \E w \in Worker : ProcessIncompleteDeploymentReq(w)
         \/ Quiet
<1>1. ASSUME NEW d \in Deployment
      PROVE  ~Redeliver(d)
  BY GoingOn DEF Redeliver, Going, OneKill, TypeOK
<1>2. ~ShutDownDevtronAppReleaseContext /\ \A w \in Worker : ~DeadlineExceeded(w)
  BY DEF Going, OneKill, ShutDownDevtronAppReleaseContext, DeadlineExceeded
<1>3. ASSUME NEW d \in Deployment, CronRead(d)
      PROVE  Quiet
  BY <1>3 DEF CronRead, Quiet, db, nats, ctx, proc
<1>4. CronWrite \/ UNCHANGED vars => Quiet
  BY DEF CronWrite, vars, Quiet, db, nats, ctx, proc
<1>5. QED
  BY <1>1, <1>2, <1>3, <1>4 DEF Going, Next

LEMMA OwnerKeeps ==
  ASSUME Going
  PROVE  OwnerReleases' /\ NotCutShort'
<1> USE GoingOn
<1>1. OwnerReleases
  BY DEF Going, KillInv
<1>2. ASSUME NEW w \in Worker, WorkerStep(w)
      PROVE  OwnerReleases' /\ NotCutShort'
  <2>1. Passes(w)
    BY <1>2, StepStrides DEF Strides
  <2>2. QED
    BY <1>1, <1>2, <2>1, OwnerPasses, WorkerNotCut
<1>3. ASSUME UNCHANGED <<worker, entry, cancel, lock>>
      PROVE  OwnerReleases' /\ NotCutShort'
  BY <1>1, <1>3 DEF OwnerReleases, NotCutShort, Run
<1>4. ASSUME NEW d \in Deployment, TriggerStep(d) \/ SaveRunner(d)
      PROVE  UNCHANGED <<worker, entry, cancel, lock>>
  BY <1>4 DEF TriggerStep, SaveRunner, SaveRequest, Publish, ReadForQueued, WriteQueued,
     ReadPreviousQueued, StampPreviousQueued, FailPreviousQueued, FailTrigger, FailTriggerTimeline, ctx
<1>5. ASSUME NEW w \in Worker,
             (\E d \in Deployment : Deliver(w, d)) \/ ProcessIncompleteDeploymentReq(w)
      PROVE  OwnerReleases' /\ NotCutShort'
  <2>1. /\ worker[w].pc = "idle" /\ \A v \in Worker \ {w} : worker'[v] = worker[v]
        /\ UNCHANGED worker \/ worker'[w].err = "none"
        /\ UNCHANGED <<entry, cancel, lock>>
    BY <1>5, TakesUp DEF At
  <2>2. entry # NoEntry => entry.owner \in Worker
    BY DEF TypeOK, Entry
  <2>3. OwnerReleases'
    BY <1>1, <2>1, <2>2 DEF OwnerReleases, Pursuing, ReleasePc, Run
  <2>4. NotCutShort'
    BY <2>1 DEF NotCutShort
  <2>5. QED
    BY <2>3, <2>4
<1>6. Quiet => UNCHANGED <<worker, entry, cancel, lock>>
  BY DEF Quiet
<1>7. QED
  BY <1>2, <1>3, <1>4, <1>5, <1>6, GoingSteps
-----------------------------------------------------------------------------
(* Messages and triggers.                                                  *)

LEMMA WorkerMessages ==
  ASSUME IInv, NEW w \in Worker, WorkerStep(w)
  PROVE  /\ worker[w].pc # "idle" /\ UNCHANGED pending
         /\ \/ worker'[w].msg = worker[w].msg /\ UNCHANGED unacked
            \/ worker'[w].pc = "idle" /\ unacked' = unacked \ {worker[w].msg}
<1> USE DEF At, nats
<1>1. worker \in [Worker -> Local]
  BY DEF IInv, TypeOK
<1>2. CASE Acknowledge(w)
  BY <1>1, <1>2 DEF Acknowledge, Idle
<1>3. CASE ~Acknowledge(w)
  <2>1. worker'[w].msg = worker[w].msg
    BY <1>1, <1>3, StepMoves DEF WorkerStep, MovesTo
  <2>2. worker[w].pc # "idle" /\ UNCHANGED <<pending, unacked>>
    BY <1>3 DEF WorkerStep, ReadRunner, SkipRequest, RejectRequest, ClaimRequest, BeginRelease,
       WriteStarting, BuildTriggerEvent, ReadForProgressing, WriteProgressing, PushChart,
       DeployArgoCdApp, InstallHelmApp, ReadPrevious, FailPrevious, StampPrevious, StampTriggered,
       IgnoreError, RecordHelmDeadline, RecordError, MarkFailed, MarkTimeline, CheckEntry, RemoveEntry
  <2>3. QED
    BY <2>1, <2>2
<1>4. QED
  BY <1>2, <1>3

LEMMA TriggerMessages ==
  ASSUME IInv, NEW d \in Deployment, TriggerStep(d) \/ SaveRunner(d)
  PROVE  /\ UNCHANGED <<worker, boot>>
         /\ \/ UNCHANGED <<pending, unacked>>
            \/ /\ Publish(d) /\ trigger[d].pc = "publish"
               /\ pending' = pending \cup {d} /\ unacked' = unacked \cup {d}
         /\ \A e \in Requested' : e \in Requested \/ (e = d /\ SaveRequest(d))
<1> USE DEF nats, proc, db
<1>1. CASE Publish(d)
  BY <1>1 DEF Publish, TriggerAt, Requested
<1>2. CASE SaveRequest(d)
  <2>1. \A e \in Requested' : e \in Requested \/ e = d
    BY <1>2, TriggerTells
  <2>2. QED
    BY <1>2, <2>1 DEF SaveRequest
<1>3. CASE ~Publish(d) /\ ~SaveRequest(d)
  <2>1. UNCHANGED <<worker, boot, pending, unacked, req>>
    BY <1>3 DEF TriggerStep, SaveRunner, ReadForQueued, WriteQueued, ReadPreviousQueued,
       StampPreviousQueued, FailPreviousQueued, FailTrigger, FailTriggerTimeline
  <2>2. QED
    BY <2>1 DEF Requested
<1>4. QED
  BY <1>1, <1>2, <1>3

LEMMA HeldKeeps ==
  ASSUME Going
  PROVE  MessagesHeld'
<1> USE GoingOn DEF At
<1> SUFFICES ASSUME restarts' = 0
             PROVE  /\ ~boot' /\ pending' \subseteq unacked'
                    /\ \A w \in Worker : worker'[w].pc # "idle" => worker'[w].msg \in unacked' \ pending'
                    /\ \A v, w \in Worker :
                         worker'[v].pc # "idle" /\ worker'[w].pc # "idle" /\ v # w
                           => worker'[v].msg # worker'[w].msg
                    /\ \A d \in Deployment : trigger'[d].pc \in {"new", "request", "publish"} => d \notin unacked'
  BY DEF MessagesHeld
<1>1. /\ ~boot /\ pending \subseteq unacked
      /\ \A w \in Worker : worker[w].pc # "idle" => worker[w].msg \in unacked \ pending
      /\ \A v, w \in Worker : worker[v].pc # "idle" /\ worker[w].pc # "idle" /\ v # w
                                => worker[v].msg # worker[w].msg
      /\ \A d \in Deployment : trigger[d].pc \in {"new", "request", "publish"} => d \notin unacked
  BY RestartsStay DEF Going, KillInv, MessagesHeld
<1>2. ~boot' /\ \A w \in Worker : ~ProcessIncompleteDeploymentReq(w)
  <2>1. \A w \in Worker : ~ProcessIncompleteDeploymentReq(w)
    BY <1>1 DEF ProcessIncompleteDeploymentReq
  <2>2. UNCHANGED boot
    BY <2>1, RestartsStay DEF Going
  <2>3. QED
    BY <1>1, <2>1, <2>2
<1>3. \A d \in Deployment : trigger'[d].pc \in {"new", "request", "publish"} =>
        trigger[d].pc \in {"new", "request", "publish"} /\ ~Publish(d)
  BY TriggerGoesOn DEF TriggerFrom, Going
<1>4. ASSUME NEW w \in Worker, WorkerStep(w)
      PROVE  /\ pending' \subseteq unacked'
             /\ \A v \in Worker : worker'[v].pc # "idle" => worker'[v].msg \in unacked' \ pending'
             /\ \A u, v \in Worker : worker'[u].pc # "idle" /\ worker'[v].pc # "idle" /\ u # v
                                       => worker'[u].msg # worker'[v].msg
             /\ unacked' \subseteq unacked
  <2>1. \A v \in Worker \ {w} : worker'[v] = worker[v]
    BY <1>4, StepStrides DEF Strides, Passes
  <2>2. /\ worker[w].pc # "idle" /\ UNCHANGED pending
        /\ \/ worker'[w].msg = worker[w].msg /\ UNCHANGED unacked
           \/ worker'[w].pc = "idle" /\ unacked' = unacked \ {worker[w].msg}
    BY <1>4, WorkerMessages
  <2>3. \A v \in Worker : worker'[v].pc # "idle" =>
          worker[v].pc # "idle" /\ worker'[v].msg = worker[v].msg
    BY <2>1, <2>2
  <2>4. \A u, v \in Worker : worker'[u].pc # "idle" /\ worker'[v].pc # "idle" /\ u # v
                               => worker'[u].msg # worker'[v].msg
    BY <1>1, <2>3
  <2>5. \A v \in Worker : worker'[v].pc # "idle" => worker'[v].msg \in unacked' \ pending'
    BY <1>1, <2>1, <2>2, <2>3
  <2>6. QED
    BY <1>1, <2>2, <2>4, <2>5
<1>5. ASSUME NEW d \in Deployment, TriggerStep(d) \/ SaveRunner(d)
      PROVE  /\ UNCHANGED worker
             /\ pending' \subseteq unacked'
             /\ \A v \in Worker : worker[v].pc # "idle" => worker[v].msg \in unacked' \ pending'
             /\ \A e \in unacked' : e \in unacked \/ (e = d /\ Publish(d))
  BY <1>1, <1>5, TriggerMessages
<1>6. ASSUME NEW w \in Worker, NEW d \in Deployment, Deliver(w, d)
      PROVE  /\ pending' \subseteq unacked'
             /\ \A v \in Worker : worker'[v].pc # "idle" => worker'[v].msg \in unacked' \ pending'
             /\ \A u, v \in Worker : worker'[u].pc # "idle" /\ worker'[v].pc # "idle" /\ u # v
                                       => worker'[u].msg # worker'[v].msg
             /\ unacked' \subseteq unacked
  <2>1. PICK e \in Requested :
          worker' = [worker EXCEPT ![w] = [Idle EXCEPT !.pc = "read", !.run = e, !.msg = d]]
    BY <1>6 DEF Deliver
  <2>2. worker'[w].msg = d /\ \A v \in Worker \ {w} : worker'[v] = worker[v]
    BY <2>1 DEF TypeOK, Idle
  <2>3. d \in pending /\ pending' = pending \ {d} /\ UNCHANGED unacked
    BY <1>6 DEF Deliver
  <2>4. \A v \in Worker \ {w} : worker'[v].pc # "idle" => worker'[v].msg # d
    BY <1>1, <2>2, <2>3
  <2>5. \A u, v \in Worker : worker'[u].pc # "idle" /\ worker'[v].pc # "idle" /\ u # v
                               => worker'[u].msg # worker'[v].msg
    BY <1>1, <2>2, <2>4
  <2>6. QED
    BY <1>1, <2>2, <2>3, <2>4, <2>5
<1>7. CASE \E w \in Worker : WorkerStep(w)
  BY <1>1, <1>2, <1>3, <1>4, <1>7
<1>8. CASE \E d \in Deployment : TriggerStep(d) \/ SaveRunner(d)
  BY <1>1, <1>2, <1>3, <1>5, <1>8
<1>9. CASE \E w \in Worker, d \in Deployment : Deliver(w, d)
  BY <1>1, <1>2, <1>3, <1>6, <1>9
<1>10. CASE Quiet
  BY <1>1, <1>2, <1>3, <1>10 DEF Quiet
<1>11. QED
  BY <1>2, <1>7, <1>8, <1>9, <1>10, GoingSteps

LEMMA QueuedKeeps ==
  ASSUME Going
  PROVE  QueuedLast'
<1> SUFFICES ASSUME NEW d \in Deployment, trigger'[d].pc \in Early
             PROVE  status'[d] # "Queued"
  BY DEF QueuedLast
<1>1. StatusFrom(d) /\ TriggerFrom(d)
  BY GoingOn, StatusStep, TriggerGoesOn DEF Going
<1>2. trigger[d].pc \in Early
  BY <1>1 DEF TriggerFrom
<1>3. status[d] # "Queued" /\ ~WriteQueued(d)
  BY <1>2 DEF Going, KillInv, QueuedLast, WriteQueued, TriggerAt, Early
<1>4. QED
  BY <1>1, <1>3 DEF StatusFrom, Terminal

LEMMA ValidatedKeeps ==
  ASSUME Going
  PROVE  ValidatedFirst'
<1> USE GoingOn DEF HasTerminal
<1> SUFFICES ASSUME NEW d \in Requested'
             PROVE  "VALIDATED" \in timeline'[d] \/ timeline'[d] \cap TerminalTimeline # {}
  BY DEF ValidatedFirst
<1>1. CASE d \in Requested
  BY <1>1 DEF Going, KillInv, ValidatedFirst, HandsOver, Requested
<1>2. CASE d \in Deployment /\ SaveRequest(d)
  BY <1>2, StampGrows DEF SaveRequest, TypeOK
<1>3. CASE \E e \in Deployment : TriggerStep(e) \/ SaveRunner(e)
  <2>1. d \in Requested \/ (d \in Deployment /\ SaveRequest(d))
    BY <1>3, TriggerMessages
  <2>2. QED
    BY <1>1, <1>2, <2>1
<1>4. CASE \A e \in Deployment : ~TriggerStep(e) /\ ~SaveRunner(e)
  <2>1. d \in Requested
    BY <1>4, TriggersStay DEF Going, Requested
  <2>2. QED
    BY <1>1, <2>1
<1>5. QED
  BY <1>3, <1>4
-----------------------------------------------------------------------------
(* The latest request is chased, whichever way.                            *)

ChasedNext(d) ==
  \/ Pursued(d)'
  \/ trigger'[d].pc \in {"publish", "mark"}
  \/ pending' # {}
  \/ \E w \in Worker : worker'[w].run = d /\ worker'[w].pc \in {"read", "validate"}
  \/ boot' /\ trigger'[d].pc = "done" /\ "VALIDATED" \in timeline'[d] /\ status'[d] # "Queued"

\* A callback that begins goes on to the release, or finds that it is under way or
\* over.
LEMMA BeginningGoesOn ==
  ASSUME Going, NEW d \in Deployment, NEW w \in Worker,
         worker[w].run = d, worker[w].pc \in {"read", "validate"}
  PROVE  \/ Pursued(d)'
         \/ worker'[w].run = d /\ worker'[w].pc \in {"read", "validate"}
<1> USE DEF Run
<1>1. CASE Passes(w) /\ NothingToDo(w)
  <2>1. Pursued(d)
    <3>1. CASE worker[w].snap \in Terminal \cup {"Progressing"}
      BY <3>1 DEF Going, KillInv, StatusMeans, SnapEnded, Pursued
    <3>2. CASE entry # NoEntry /\ entry.runner = worker[w].run
      <4>1. /\ entry.owner \in Worker /\ worker[entry.owner].run = d
            /\ worker[entry.owner].pc \in Pursuing \cup {"markTimeline", "check", "remove"}
        BY <3>2, GoingOn DEF Going, KillInv, OwnerReleases, TypeOK, Entry
      <4>2. CASE worker[entry.owner].pc = "markTimeline"
        BY <4>1, <4>2 DEF Pursued, Ended, Settled, Explained, At
      <4>3. CASE worker[entry.owner].pc \in {"check", "remove"}
        BY <4>1, <4>3 DEF Pursued, Going, KillInv, OverEnded
      <4>4. QED
        BY <4>1, <4>2, <4>3 DEF Pursued
    <3>3. QED
      BY <1>1, <3>1, <3>2 DEF NothingToDo
  <2>2. QED
    BY <2>1, PursuedStays
<1>2. CASE Passes(w) /\ ~NothingToDo(w)
  <2>1. worker'[w].run = d /\ worker'[w].pc \in {"validate", "mark", "begin"}
    BY <1>2 DEF Passes, Pursuing, ReleasePc
  <2>2. worker'[w].pc \in Pursuing => Pursued(d)'
    BY <2>1 DEF Pursued
  <2>3. QED
    BY <2>1, <2>2 DEF Pursuing, ReleasePc
<1>3. CASE worker'[w] = worker[w]
  BY <1>3
<1>4. ~TakesUpNow(w)
  BY DEF TakesUpNow
<1>5. QED
  BY <1>1, <1>2, <1>3, <1>4, WorkersStride DEF Strides

\* Whoever takes a request up takes the latest.
LEMMA OneLatest ==
  ASSUME TypeOK, RequestIsUnique, NEW d \in Requested, NEW e \in Requested,
         IsLatest(d), req[d] <= req[e]
  PROVE  e = d
<1>1. req[d] \in Request \cup {0} /\ req[e] \in Request \cup {0}
  BY DEF TypeOK, Requested
<1>2. 0 \in Nat
  OBVIOUS
<1>3. req[d] \in Nat /\ req[e] \in Nat
  BY <1>1, <1>2, RequestAssumption, Zenon
<1>4. req[e] <= req[d]
  BY DEF IsLatest
<1>5. req[e] = req[d]
  BY <1>3, <1>4
<1>6. QED
  BY <1>5 DEF RequestIsUnique

LEMMA DeliverTakes ==
  ASSUME Going, NEW d \in Requested, IsLatest(d), NEW w \in Worker, NEW m \in Deployment, Deliver(w, m)
  PROVE  worker'[w].run = d /\ worker'[w].pc = "read"
<1>1. PICK e \in Requested :
        /\ IsLatest(e)
        /\ worker' = [worker EXCEPT ![w] = [Idle EXCEPT !.pc = "read", !.run = e, !.msg = m]]
  BY DEF Deliver
<1>2. e = d
  BY <1>1, GoingOn, OneLatest DEF IsLatest, IInv
<1>3. QED
  BY <1>1, <1>2, GoingOn DEF TypeOK, Idle

LEMMA StartupTakes ==
  ASSUME Going, NEW d \in Requested, IsLatest(d), Resumable(d),
         NEW w \in Worker, ProcessIncompleteDeploymentReq(w)
  PROVE  \/ Ended(d)
         \/ worker'[w].run = d /\ worker'[w].pc = "read"
<1>1. d \in Deployment
  BY DEF Requested
<1>2. CASE status[d] \in Terminal
  BY <1>1, <1>2 DEF Resumable, TriggerAt, Going, KillInv, StatusMeans, TerminalEnded
<1>3. CASE "TRIGGERED" \in timeline[d]
  BY <1>3 DEF Ended, Settled, Served
<1>4. CASE d \in Incomplete
  <2>1. PICK e \in Incomplete :
          /\ \A f \in Incomplete : req[f] <= req[e]
          /\ worker' = [worker EXCEPT ![w] = [Idle EXCEPT !.pc = "read", !.run = e]]
    BY <1>4 DEF ProcessIncompleteDeploymentReq
  <2>2. e \in Requested /\ req[d] <= req[e]
    BY <1>4, <2>1 DEF Incomplete
  <2>3. e = d
    BY <2>2, GoingOn, OneLatest DEF IInv
  <2>4. QED
    BY <2>1, <2>3, GoingOn DEF TypeOK, Idle
<1>5. QED
  BY <1>2, <1>3, <1>4 DEF Resumable, Incomplete

LEMMA ChasedKeeps ==
  ASSUME Going
  PROVE  Chased'
<1> USE GoingOn DEF Run
<1> SUFFICES ASSUME NEW d \in Requested', IsLatest(d)'
             PROVE  ChasedNext(d)
  BY DEF Chased, ChasedNext, Resumable, TriggerAt
<1>1. \A e \in Requested : req'[e] = req[e] /\ e \in Requested'
  BY RequestsStay DEF Going
<1>2. CASE d \notin Requested
  <2>1. PICK e \in Deployment : TriggerStep(e) \/ SaveRunner(e)
    BY <1>2, TriggersStay DEF Going, Requested
  <2>2. trigger'[d].pc = "publish"
    BY <1>2, <2>1, TriggerTells
  <2>3. QED
    BY <2>2 DEF ChasedNext
<1>3. CASE d \in Requested
  <2>1. d \in Deployment /\ IsLatest(d)
    BY <1>1, <1>3, LatestBefore DEF Requested
  <2>2. Pursued(d) => Pursued(d)'
    BY <2>1, PursuedStays
  <2>3. ASSUME trigger[d].pc \in {"publish", "mark"}
        PROVE  ChasedNext(d)
    <3>1. CASE \E e \in Deployment : TriggerStep(e) \/ SaveRunner(e)
      <4>1. \/ trigger'[d].pc \in {"publish", "mark", "markTimeline"}
            \/ d \in pending'
        BY <2>1, <2>3, <3>1, TriggerTells
      <4>2. trigger'[d].pc = "markTimeline" => Pursued(d)'
        BY DEF Pursued, Ended, Settled, Explained, TriggerAt
      <4>3. QED
        BY <4>1, <4>2 DEF ChasedNext
    <3>2. CASE \A e \in Deployment : ~TriggerStep(e) /\ ~SaveRunner(e)
      BY <2>3, <3>2, TriggersStay DEF Going, ChasedNext
    <3>3. QED
      BY <3>1, <3>2
  <2>4. ASSUME NEW w \in Worker, NEW m \in Deployment, Deliver(w, m)
        PROVE  ChasedNext(d)
    BY <1>3, <2>1, <2>4, DeliverTakes DEF ChasedNext
  <2>5. ASSUME pending # {}
        PROVE  ChasedNext(d)
    <3>1. ASSUME NEW w \in Worker, WorkerStep(w)
          PROVE  pending' # {}
      BY <2>5, <3>1, WorkerMessages
    <3>2. ASSUME NEW e \in Deployment, TriggerStep(e) \/ SaveRunner(e)
          PROVE  pending' # {}
      BY <2>5, <3>2, TriggerTells
    <3>3. ASSUME NEW w \in Worker, ProcessIncompleteDeploymentReq(w)
          PROVE  pending' # {}
      BY <2>5, <3>3 DEF ProcessIncompleteDeploymentReq, nats
    <3>4. CASE Quiet
      BY <2>5, <3>4 DEF Quiet, ChasedNext
    <3>5. QED
      BY <2>4, <3>1, <3>2, <3>3, <3>4, GoingSteps DEF ChasedNext
  <2>6. ASSUME NEW w \in Worker, worker[w].run = d, worker[w].pc \in {"read", "validate"}
        PROVE  ChasedNext(d)
    BY <2>1, <2>6, BeginningGoesOn DEF ChasedNext
  <2>7. ASSUME Resumable(d)
        PROVE  ChasedNext(d)
    <3>1. ASSUME NEW w \in Worker, ProcessIncompleteDeploymentReq(w)
          PROVE  ChasedNext(d)
      <4>1. CASE Ended(d)
        <5>1. Pursued(d)
          BY <4>1 DEF Pursued
        <5>2. QED
          BY <2>2, <5>1 DEF ChasedNext
      <4>2. CASE worker'[w].run = d /\ worker'[w].pc = "read"
        BY <4>2 DEF ChasedNext
      <4>3. QED
        BY <1>3, <2>1, <2>7, <3>1, <4>1, <4>2, StartupTakes
    <3>2. CASE UNCHANGED boot
      <4>1. StatusFrom(d) /\ TriggerFrom(d)
        BY <2>1, StatusStep, TriggerGoesOn DEF Going
      <4>2. trigger[d].pc = "done" /\ status[d] # "Queued" /\ "VALIDATED" \in timeline[d] /\ boot
        BY <2>7 DEF Resumable, TriggerAt
      <4>3. ~WriteQueued(d)
        BY <4>2 DEF WriteQueued, TriggerAt
      <4>4. status'[d] # "Queued"
        BY <4>1, <4>2, <4>3 DEF StatusFrom, Terminal
      <4>5. trigger'[d].pc = "done" /\ "VALIDATED" \in timeline'[d]
        BY <2>1, <4>1, <4>2 DEF TriggerFrom, Going, HandsOver
      <4>6. QED
        BY <3>2, <4>2, <4>4, <4>5 DEF ChasedNext
    <3>3. QED
      BY <3>1, <3>2, RestartsStay DEF Going
  <2>8. \/ Pursued(d)
        \/ trigger[d].pc \in {"publish", "mark"}
        \/ pending # {}
        \/ \E w \in Worker : worker[w].run = d /\ worker[w].pc \in {"read", "validate"}
        \/ Resumable(d)
    BY <1>3, <2>1 DEF Going, KillInv, Chased
  <2>9. QED
    BY <2>2, <2>3, <2>5, <2>6, <2>7, <2>8 DEF ChasedNext
<1>4. QED
  BY <1>2, <1>3

LEMMA GoingKeeps ==
  ASSUME OneKill, OrderInv, KillInv, ~Restart, [Next]_vars
  PROVE  KillInv'
<1>1. HandsOver /\ TodoOfPrevious' /\ StampedFirst'
  BY NextHandsOver DEF OrderInv, KillInv
<1>2. Going
  BY <1>1 DEF Going
<1>3. StatusMeans'
  BY <1>2, TerminalKeeps, ProgressKeeps, InstalledKeeps, CronKeeps, SnapKeeps DEF StatusMeans
<1>4. QED
  BY <1>1, <1>2, <1>3, OverKeeps, OwnerKeeps, HeldKeeps, QueuedKeeps, ValidatedKeeps, ChasedKeeps
     DEF KillInv
-----------------------------------------------------------------------------
(* The kill.                                                               *)

LEMMA KillKeeps ==
  ASSUME OneKill, OrderInv, KillInv, Restart
  PROVE  KillInv'
<1> USE DEF At, Run, TriggerAt
<1>1. IInv /\ TypeOK /\ [Next]_vars /\ 0 \notin Deployment
  BY DeploymentAssumption DEF OrderInv, IInv, Next
<1>2. restarts = 0 /\ restarts' = 1
  BY <1>1, BoundAssumption DEF Restart, OneKill, TypeOK
<1>3. /\ \A w \in Worker : worker'[w] = Idle /\ cancel'[w] = "none"
      /\ \A d \in Deployment : trigger'[d] = IF trigger[d].pc = "new" THEN trigger[d]
                                             ELSE [pc |-> "done", previous |-> {}]
      /\ boot' /\ entry' = NoEntry /\ lock' = NoWorker /\ pending' = unacked /\ cron' = 0
      /\ UNCHANGED <<status, timeline, req, unacked, deployed>>
  BY DEF Restart, db
<1>4. \A w \in Worker : /\ worker'[w].pc = "idle" /\ worker'[w].run = 0
                        /\ worker'[w].snap = "none" /\ worker'[w].err = "none"
  BY <1>3 DEF Idle
<1>5. \A d \in Deployment : trigger'[d].pc = IF trigger[d].pc = "new" THEN "new" ELSE "done"
  BY <1>3
<1>6. TodoOfPrevious' /\ InstalledReached' /\ SnapEnded' /\ OverEnded' /\ NotCutShort'
  BY <1>1, <1>3, <1>4 DEF TodoOfPrevious, InstalledReached, SnapEnded, OverEnded, NotCutShort
<1>7. StampedFirst'
  BY <1>5 DEF StampedFirst
<1>8. TerminalEnded'
  BY <1>1, <1>2, <1>4, <1>5 DEF TerminalEnded, Ended, Abandoned
<1>9. ProgressReached'
  <2>1. \A d \in Deployment : Reached(d) => Reached(d)'
    BY <1>1, ReachedStays
  <2>2. QED
    BY <1>3, <2>1 DEF KillInv, StatusMeans, ProgressReached
<1>10. CronReached' /\ OwnerReleases' /\ MessagesHeld'
  BY <1>2, <1>3 DEF CronReached, OwnerReleases, MessagesHeld
<1>11. QueuedLast'
  BY <1>3, <1>5 DEF KillInv, QueuedLast, Early
<1>12. ValidatedFirst'
  BY <1>3 DEF KillInv, ValidatedFirst, Requested, HasTerminal
<1>13. ASSUME NEW d \in Requested', IsLatest(d)'
       PROVE  \/ Pursued(d)'
              \/ pending' # {}
              \/ Resumable(d)'
  <2>1. d \in Requested /\ IsLatest(d) /\ d \in Deployment
    BY <1>3, <1>13 DEF Requested, IsLatest
  <2>2. CASE unacked # {}
    BY <1>3, <2>2
  <2>3. CASE unacked = {}
    <3>1. pending = {} /\ ~boot /\ \A w \in Worker : worker[w].pc = "idle"
      BY <1>2, <2>3 DEF KillInv, MessagesHeld
    <3>2. ASSUME trigger[d].pc \in {"publish", "mark", "markTimeline"}
          PROVE  Pursued(d)' \/ Resumable(d)'
      <4>1. status'[d] # "Queued" /\ trigger'[d].pc = "done" /\ boot'
        BY <1>3, <1>5, <2>1, <3>2 DEF KillInv, QueuedLast, Early
      <4>2. CASE "VALIDATED" \in timeline[d]
        BY <1>3, <4>1, <4>2 DEF Resumable
      <4>3. CASE HasTerminal(d)
        BY <1>3, <4>3 DEF Pursued, Ended, Settled, Served, HasTerminal
      <4>4. QED
        BY <2>1, <4>2, <4>3 DEF KillInv, ValidatedFirst
    <3>3. CASE Served(d)
      BY <1>3, <3>3 DEF Pursued, Ended, Settled, Served, HasTerminal
    <3>4. CASE Reached(d)
      <4>1. Reached(d)'
        BY <1>1, <2>1, <3>4, ReachedStays
      <4>2. QED
        BY <4>1 DEF Pursued, Ended
    <3>5. ~Abandoned(d)
      BY <1>2 DEF Abandoned
    <3>6. Explained(d) => Served(d) \/ trigger[d].pc = "markTimeline"
      BY <3>1 DEF Explained, Served, Superseding
    <3>7. \/ Ended(d)
          \/ trigger[d].pc \in {"publish", "mark"}
      BY <2>1, <3>1 DEF KillInv, Chased, Resumable, Pursued, Pursuing, ReleasePc
    <3>8. QED
      BY <3>2, <3>3, <3>4, <3>5, <3>6, <3>7 DEF Ended, Settled
  <2>4. QED
    BY <2>2, <2>3
<1>14. Chased'
  BY <1>13 DEF Chased
<1>15. QED
  BY <1>6, <1>7, <1>8, <1>9, <1>10, <1>11, <1>12, <1>14 DEF KillInv, StatusMeans

LEMMA InitKill == Init => KillInv
<1> SUFFICES ASSUME Init PROVE KillInv
  OBVIOUS
<1>1. Requested = {} /\ pending = {} /\ unacked = {} /\ ~boot /\ cron = 0 /\ entry = NoEntry
  BY DEF Init, Requested
<1>2. \A w \in Worker : worker[w] = Idle /\ cancel[w] = "none"
  BY DEF Init
<1>3. \A d \in Deployment : status[d] = "none" /\ trigger[d].pc = "new"
  BY DEF Init
<1>4. StatusMeans
  BY <1>1, <1>2, <1>3 DEF StatusMeans, TerminalEnded, ProgressReached, InstalledReached, CronReached,
     SnapEnded, Idle, At, Terminal
<1>5. OwnerReleases /\ NotCutShort /\ MessagesHeld
  BY <1>1, <1>2 DEF OwnerReleases, NotCutShort, MessagesHeld, Idle, At
<1>6. TodoOfPrevious /\ StampedFirst /\ OverEnded /\ QueuedLast /\ ValidatedFirst /\ Chased
  BY <1>1, <1>2, <1>3 DEF TodoOfPrevious, StampedFirst, OverEnded, QueuedLast, ValidatedFirst, Chased,
     Idle, At, TriggerAt
<1>7. QED
  BY <1>4, <1>5, <1>6 DEF KillInv

\* A Helm pipeline whose process is killed once, at any point: when all has come to
\* rest again, its latest request is served, on the cluster, or its runner has a
\* terminal status. Messages come again, with start-up's GetAllInCompleteRequests as a
\* second way; what neither takes up is finished, superseded or left with a terminal status.
THEOREM LatestSurvives == OneKill => (Spec => []LatestSurvivesCrash)
<1> SUFFICES ASSUME OneKill PROVE Spec => []LatestSurvivesCrash
  OBVIOUS
<1> DEFINE Inv == OrderInv /\ KillInv
<1>1. Init => Inv
  BY InitOrder, InitKill
<1>2. Inv /\ [Next]_vars => Inv'
  BY OrderInductive, GoingKeeps, KillKeeps
<1>3. Inv => LatestSurvivesCrash
  <2> SUFFICES ASSUME Inv, AtRest, NEW d \in Requested, IsLatest(d)
               PROVE  Served(d) \/ deployed = d \/ status[d] \in Terminal
    BY DEF LatestSurvivesCrash
  <2>1. /\ \A w \in Worker : worker[w].pc = "idle"
        /\ pending = {} /\ ~boot /\ d \in Deployment /\ trigger[d].pc \in {"new", "done"}
    BY DEF AtRest, At, Requested
  <2>2. Ended(d)
    BY <2>1 DEF KillInv, Chased, Resumable, Pursued, Pursuing, ReleasePc
  <2>3. Settled(d) => Served(d)
    BY <2>1 DEF Settled, Explained, Served, At, TriggerAt, Superseding
  <2>4. QED
    BY <2>2, <2>3 DEF Ended, Reached, Abandoned
<1> HIDE DEF Inv
<1>4. QED
  BY <1>1, <1>2, <1>3, PTL DEF Spec
==============================================================================
