--------------------------- MODULE ReleaseContext ---------------------------
(***************************************************************************)
(* The release-context map of the orchestrator                             *)
(* (pkg/eventProcessor/in/WorkflowEventProcessorService.go).               *)
(*                                                                         *)
(* Every asynchronous deployment of a CD pipeline runs under a cancellable *)
(* context.  devtronAppReleaseContextMap keeps, per pipeline, the cancel   *)
(* functions of the one release in progress and the runner it is for; a    *)
(* mutex guards each access to the map.  A newer request cancels the       *)
(* release it finds; the deferred clean-up of a release removes its own    *)
(* entry, in TWO critical sections; shutdown and pipeline deletion cancel  *)
(* what they find.                                                         *)
(*                                                                         *)
(* Each action is one critical section of the mutex (or a step that does   *)
(* not touch the map).  What a worker does with the database between two   *)
(* of them is the subject of AsyncDeploy, which implements this module.    *)
(***************************************************************************)
EXTENDS Naturals

CONSTANTS
  Pipeline,     \* CD pipelines
  Worker,       \* goroutines that process deployment requests
  Runner,       \* cd_workflow_runner rows, named by the id of their request
  PipelineOf,   \* the pipeline of each runner
  NoRunner,     \* a worker with nothing in hand
  NoEntry       \* a pipeline without an entry in the map

\* The map's value type: the runner, and the worker whose context the stored
\* cancel functions cancel.
Entry == [runner : Runner, owner : Worker]

ASSUME RunnerAssumption   == Runner \subseteq Nat
ASSUME PipelineAssumption == PipelineOf \in [Runner -> Pipeline]
ASSUME NoRunnerAssumption == NoRunner \notin Runner
ASSUME NoEntryAssumption  == NoEntry \notin Entry

VARIABLES
  saved,    \* requests in user_deployment_request
  ctxMap,   \* devtronAppReleaseContextMap
  cancel,   \* per worker: "live" or the cause its context was cancelled with
  phase,    \* per worker: where it is between the critical sections
  run       \* per worker: the runner it processes

vars == <<saved, ctxMap, cancel, phase, run>>

Phase == {"idle", "release", "check", "remove"}
Cause == {"none", "live", "superseded", "nil", "deadline", "shutdown", "deleted"}

TypeOK ==
  /\ saved  \in SUBSET Runner
  /\ ctxMap \in [Pipeline -> Entry \cup {NoEntry}]
  /\ cancel \in [Worker -> Cause]
  /\ phase  \in [Worker -> Phase]
  /\ run    \in [Worker -> Runner \cup {NoRunner}]

Init ==
  /\ saved = {}
  /\ ctxMap = [p \in Pipeline |-> NoEntry]
  /\ cancel = [w \in Worker |-> "none"]
  /\ phase = [w \in Worker |-> "idle"]
  /\ run = [w \in Worker |-> NoRunner]

-----------------------------------------------------------------------------
\* context.CancelCauseFunc: only the first cancellation has an effect.
Cancelled(c, cause) == IF c = "live" THEN cause ELSE c

\* (Slip: any request counts as the latest.)
IsLatestDropped(r) == TRUE

\* IsLatestForPipelineId: no request of the pipeline has a greater id.
IsLatest(r) == \A s \in saved : PipelineOf[s] = PipelineOf[r] => s <= r

\* (Slips: the entry lacks the runner; the earlier release is not aborted.)
UpdateWithoutRunner(w, r) ==
  /\ ctxMap' = [ctxMap EXCEPT ![PipelineOf[r]] = [runner |-> NoRunner, owner |-> w]]
  /\ cancel' = [cancel EXCEPT ![w] = "live"]
UpdateWithoutAbort(w, r) ==
  /\ ctxMap' = [ctxMap EXCEPT ![PipelineOf[r]] = [runner |-> r, owner |-> w]]
  /\ cancel' = [cancel EXCEPT ![w] = "live"]

\* UpdateReleaseContextForPipeline: abort the release found in the map, if
\* any, and register the context of worker w, created just before.
UpdateReleaseContextForPipeline(w, r) ==
  LET old == ctxMap[PipelineOf[r]] IN
  /\ ctxMap' = [ctxMap EXCEPT ![PipelineOf[r]] = [runner |-> r, owner |-> w]]
  /\ cancel' = [v \in Worker |->
                  IF v = w THEN "live"
                  ELSE IF old # NoEntry /\ old.owner = v
                       THEN Cancelled(cancel[v], "superseded")
                       ELSE cancel[v]]

\* A deployment request becomes visible.  Its id comes from a sequence inside
\* the transaction, so requests need not appear in the order of their ids.
SaveNewDeployment(r) ==
  /\ r \notin saved
  /\ saved' = saved \cup {r}
  /\ UNCHANGED <<ctxMap, cancel, phase, run>>

\* The map's part of getDevtronAppReleaseContextWithLock and
\* validateConcurrentOrInvalidRequest: the runner is not the one in the map
\* and its request is the latest of the pipeline.
Claim(w, r) ==
  /\ phase[w] = "idle"
  /\ r \in saved
  /\ ctxMap[PipelineOf[r]] # NoEntry => ctxMap[PipelineOf[r]].runner # r
  /\ IsLatest(r)
  /\ UpdateReleaseContextForPipeline(w, r)
  /\ phase' = [phase EXCEPT ![w] = "release"]
  /\ run' = [run EXCEPT ![w] = r]
  /\ UNCHANGED saved

\* ProcessDevtronAsyncInstallRequest returns; the deferred clean-up starts.
Return(w) ==
  /\ phase[w] = "release"
  /\ phase' = [phase EXCEPT ![w] = "check"]
  /\ UNCHANGED <<saved, ctxMap, cancel, run>>

\* isReleaseContextExistsForPipeline: the entry is for the same runner id.
IsReleaseContextExistsForPipeline(r) ==
  ctxMap[PipelineOf[r]] # NoEntry /\ ctxMap[PipelineOf[r]].runner = r

\* First critical section of cleanUpDevtronAppReleaseContextMap.
CleanUpCheck(w) ==
  /\ phase[w] = "check"
  /\ IF IsReleaseContextExistsForPipeline(run[w])
       THEN /\ phase' = [phase EXCEPT ![w] = "remove"]
            /\ UNCHANGED run
       ELSE /\ phase' = [phase EXCEPT ![w] = "idle"]
            /\ run' = [run EXCEPT ![w] = NoRunner]
  /\ UNCHANGED <<saved, ctxMap, cancel>>

\* (Slips: the entry is not deleted; its context is not cancelled.)
CancelEntryUndeleted(p, cause) ==
  /\ cancel' = [v \in Worker |->
                  IF ctxMap[p] # NoEntry /\ ctxMap[p].owner = v
                  THEN Cancelled(cancel[v], cause) ELSE cancel[v]]
  /\ UNCHANGED ctxMap
CancelEntryUncancelled(p, cause) ==
  /\ ctxMap' = [ctxMap EXCEPT ![p] = NoEntry]
  /\ UNCHANGED cancel

\* Cancel the context registered for pipeline p, and delete the entry.
CancelEntry(p, cause) ==
  LET entry == ctxMap[p] IN
  /\ ctxMap' = [ctxMap EXCEPT ![p] = NoEntry]
  /\ cancel' = [v \in Worker |->
                  IF entry # NoEntry /\ entry.owner = v
                  THEN Cancelled(cancel[v], cause) ELSE cancel[v]]

\* Second critical section of cleanUpDevtronAppReleaseContextMap: whatever
\* entry the pipeline has NOW is cancelled with cause nil and deleted.
CleanUpRemove(w) ==
  /\ phase[w] = "remove"
  /\ CancelEntry(PipelineOf[run[w]], "nil")
  /\ phase' = [phase EXCEPT ![w] = "idle"]
  /\ run' = [run EXCEPT ![w] = NoRunner]
  /\ UNCHANGED saved

\* context.WithTimeout expires (getTimeOutByDeploymentType).
DeadlineExceeded(w) ==
  /\ cancel[w] = "live"
  /\ cancel' = [cancel EXCEPT ![w] = "deadline"]
  /\ UNCHANGED <<saved, ctxMap, phase, run>>

\* RemoveReleaseContextForPipeline, on a pipeline deletion event.
RemoveReleaseContextForPipeline(p) ==
  /\ ctxMap[p] # NoEntry
  /\ CancelEntry(p, "deleted")
  /\ UNCHANGED <<saved, phase, run>>

\* ShutDownDevtronAppReleaseContext: cancel every entry, start a new map.
ShutDownDevtronAppReleaseContext ==
  /\ ctxMap' = [p \in Pipeline |-> NoEntry]
  /\ cancel' = [v \in Worker |->
                  IF \E p \in Pipeline : ctxMap[p] # NoEntry /\ ctxMap[p].owner = v
                  THEN Cancelled(cancel[v], "shutdown") ELSE cancel[v]]
  /\ UNCHANGED <<saved, phase, run>>

\* The process exits and a new one starts with an empty map
\* (NewWorkflowEventProcessorImpl).
Restart ==
  /\ ctxMap' = [p \in Pipeline |-> NoEntry]
  /\ cancel' = [w \in Worker |-> "none"]
  /\ phase' = [w \in Worker |-> "idle"]
  /\ run' = [w \in Worker |-> NoRunner]
  /\ UNCHANGED saved

WorkerStep(w) == Return(w) \/ CleanUpCheck(w) \/ CleanUpRemove(w)

Next ==
  \/ \E r \in Runner : SaveNewDeployment(r)
  \/ \E w \in Worker, r \in Runner : Claim(w, r)
  \/ \E w \in Worker : WorkerStep(w)
  \/ \E w \in Worker : DeadlineExceeded(w)
  \/ \E p \in Pipeline : RemoveReleaseContextForPipeline(p)
  \/ ShutDownDevtronAppReleaseContext
  \/ Restart

Spec == Init /\ [][Next]_vars

\* A worker that started a release runs on: the release call returns because
\* its context has a deadline, and the clean-up is deferred.
FairSpec == Spec /\ \A w \in Worker : WF_vars(WorkerStep(w))

-----------------------------------------------------------------------------
Busy(w) == phase[w] # "idle"

\* A context that is not cancelled is the one registered for its pipeline: a
\* newer request, a shutdown or a deletion always finds it, so at most one
\* release of a pipeline runs on (UpdateReleaseContextForPipeline).
LiveIsRegistered ==
  \A w \in Worker : cancel[w] = "live" =>
    /\ Busy(w)
    /\ run[w] \in Runner
    /\ ctxMap[PipelineOf[run[w]]] = [runner |-> run[w], owner |-> w]

\* An entry never outlives its worker.  A leaked entry would make
\* validateConcurrentOrInvalidRequest skip its runner for ever.
EntryHasWorker ==
  \A p \in Pipeline : ctxMap[p] # NoEntry =>
    /\ Busy(ctxMap[p].owner)
    /\ run[ctxMap[p].owner] = ctxMap[p].runner
    /\ PipelineOf[ctxMap[p].runner] = p

\* While a release runs uncancelled no worker is at a newer request of its
\* pipeline: claims only move forward, whatever the order of the messages.
LiveIsNewest ==
  \A v, w \in Worker :
    (/\ cancel[w] = "live"
     /\ Busy(v)
     /\ PipelineOf[run[v]] = PipelineOf[run[w]])
      => run[v] <= run[w]

\* Every release context is cancelled in the end, by whatever cause: neither it
\* nor its timer leaks.
ContextIsReleased ==
  \A w \in Worker : cancel[w] = "live" ~> cancel[w] # "live"

=============================================================================
