----------------------- MODULE ReleaseContextProofs -----------------------
(***************************************************************************)
(* The safety of the release-context map, for every set of pipelines,      *)
(* workers and requests.                                                   *)
(*                                                                         *)
(* IInv adds to the three properties that a worker between two critical    *)
(* sections holds a saved request: IsLatest speaks of saved requests only, *)
(* so without it a claim could not be compared with the other workers'.    *)
(***************************************************************************)
EXTENDS ReleaseContext, TLAPS

BusyIsSaved == \A w \in Worker : Busy(w) => run[w] \in saved

IInv == TypeOK /\ BusyIsSaved /\ LiveIsRegistered /\ EntryHasWorker /\ LiveIsNewest

-----------------------------------------------------------------------------
\* No action leads out of the types.
LEMMA TypeInductive ==
  ASSUME TypeOK, [Next]_vars
  PROVE  TypeOK'
<1> USE DEF TypeOK, Phase, Cause
<1>1. ASSUME NEW r \in Runner, SaveNewDeployment(r)
      PROVE  TypeOK'
  BY <1>1 DEF SaveNewDeployment
<1>2. ASSUME NEW w \in Worker, NEW r \in Runner, Claim(w, r)
      PROVE  TypeOK'
  <2>1. [runner |-> r, owner |-> w] \in Entry
    BY DEF Entry
  <2>2. PipelineOf[r] \in Pipeline
    BY PipelineAssumption
  <2>3. ctxMap' \in [Pipeline -> Entry \cup {NoEntry}]
    BY <1>2, <2>1, <2>2 DEF Claim, UpdateReleaseContextForPipeline
  <2>4. cancel' \in [Worker -> Cause]
    BY <1>2 DEF Claim, UpdateReleaseContextForPipeline, Cancelled
  <2>5. QED
    BY <1>2, <2>3, <2>4 DEF Claim
<1>3. ASSUME NEW w \in Worker, WorkerStep(w)
      PROVE  TypeOK'
  <2>1. CASE Return(w)
    BY <2>1 DEF Return
  <2>2. CASE CleanUpCheck(w)
    BY <2>2 DEF CleanUpCheck
  <2>3. CASE CleanUpRemove(w)
    BY <2>3 DEF CleanUpRemove, CancelEntry, Cancelled
  <2>4. QED
    BY <1>3, <2>1, <2>2, <2>3 DEF WorkerStep
<1>4. ASSUME NEW w \in Worker, DeadlineExceeded(w)
      PROVE  TypeOK'
  BY <1>4 DEF DeadlineExceeded
<1>5. ASSUME NEW p \in Pipeline, RemoveReleaseContextForPipeline(p)
      PROVE  TypeOK'
  BY <1>5 DEF RemoveReleaseContextForPipeline, CancelEntry, Cancelled
<1>6. CASE ShutDownDevtronAppReleaseContext
  BY <1>6 DEF ShutDownDevtronAppReleaseContext, Cancelled
<1>7. CASE Restart
  BY <1>7 DEF Restart
<1>8. CASE UNCHANGED vars
  BY <1>8 DEF vars
<1>9. QED
  BY <1>1, <1>2, <1>3, <1>4, <1>5, <1>6, <1>7, <1>8 DEF Next

\* Every variable keeps its type (all actions of the module).
THEOREM TypeCorrect == Spec => []TypeOK
<1>1. Init => TypeOK
  BY DEF Init, TypeOK, Phase, Cause
<1>2. TypeOK /\ [Next]_vars => TypeOK'
  BY TypeInductive
<1>3. QED
  BY <1>1, <1>2, PTL DEF Spec

\* A live context is the one its pipeline's entry cancels.
LEMMA LiveOwnsEntry ==
  ASSUME IInv, NEW v \in Worker, cancel[v] = "live"
  PROVE  /\ run[v] \in Runner
         /\ PipelineOf[run[v]] \in Pipeline
         /\ ctxMap[PipelineOf[run[v]]] # NoEntry
         /\ ctxMap[PipelineOf[run[v]]].owner = v
<1>1. run[v] \in Runner /\ ctxMap[PipelineOf[run[v]]] = [runner |-> run[v], owner |-> v]
  BY DEF IInv, LiveIsRegistered
<1>2. [runner |-> run[v], owner |-> v] \in Entry
  BY <1>1 DEF Entry
<1>3. QED
  BY <1>1, <1>2, PipelineAssumption, NoEntryAssumption

\* What cancelling the entry of a pipeline leaves live: only other pipelines.
LEMMA CancelEntryLeaves ==
  ASSUME IInv, NEW p \in Pipeline, NEW cause \in Cause \ {"live"},
         CancelEntry(p, cause),
         NEW v \in Worker, cancel'[v] = "live"
  PROVE  cancel[v] = "live" /\ PipelineOf[run[v]] # p
<1>1. cancel'[v] = IF ctxMap[p] # NoEntry /\ ctxMap[p].owner = v
                   THEN Cancelled(cancel[v], cause) ELSE cancel[v]
  BY DEF CancelEntry
<1>2. Cancelled(cancel[v], cause) # "live"
  BY DEF Cancelled
<1>3. ~(ctxMap[p] # NoEntry /\ ctxMap[p].owner = v) /\ cancel[v] = "live"
  BY <1>1, <1>2
<1>4. QED
  BY <1>3, LiveOwnsEntry

\* IInv is inductive: one step per action.
LEMMA SafetyInductive ==
  ASSUME IInv, [Next]_vars
  PROVE  IInv'
<1>1. TypeOK /\ TypeOK'
  BY TypeInductive DEF IInv
<1>2. Runner \subseteq Nat /\ PipelineOf \in [Runner -> Pipeline]
      /\ NoRunner \notin Runner /\ NoEntry \notin Entry
  BY RunnerAssumption, PipelineAssumption, NoRunnerAssumption, NoEntryAssumption
<1> USE <1>1, <1>2
<1>3. ASSUME NEW r \in Runner, SaveNewDeployment(r)
      PROVE  IInv'
  BY <1>3 DEF IInv, BusyIsSaved, LiveIsRegistered, EntryHasWorker, LiveIsNewest,
              Busy, SaveNewDeployment
<1>4. ASSUME NEW w \in Worker, NEW r \in Runner, Claim(w, r)
      PROVE  IInv'
  <2> DEFINE p == PipelineOf[r]
  <2>1. /\ ctxMap' = [ctxMap EXCEPT ![p] = [runner |-> r, owner |-> w]]
        /\ phase' = [phase EXCEPT ![w] = "release"]
        /\ run' = [run EXCEPT ![w] = r]
        /\ saved' = saved /\ r \in saved /\ phase[w] = "idle"
        /\ p \in Pipeline
    BY <1>4 DEF Claim, UpdateReleaseContextForPipeline
  \* A worker of the same pipeline was live only as the owner of the old entry.
  <2>2. ASSUME NEW v \in Worker, v # w, cancel'[v] = "live"
        PROVE  cancel[v] = "live" /\ PipelineOf[run[v]] # p
    <3>1. cancel'[v] = IF ctxMap[p] # NoEntry /\ ctxMap[p].owner = v
                       THEN Cancelled(cancel[v], "superseded") ELSE cancel[v]
      BY <2>2, <1>4 DEF Claim, UpdateReleaseContextForPipeline
    <3>2. Cancelled(cancel[v], "superseded") # "live"
      BY DEF Cancelled
    <3>3. ~(ctxMap[p] # NoEntry /\ ctxMap[p].owner = v) /\ cancel[v] = "live"
      BY <2>2, <3>1, <3>2
    <3>4. QED
      BY <3>3, LiveOwnsEntry
  <2>3. BusyIsSaved'
    BY <2>1 DEF IInv, BusyIsSaved, Busy, TypeOK
  <2>4. LiveIsRegistered'
    BY <2>1, <2>2 DEF IInv, LiveIsRegistered, Busy, TypeOK
  <2>5. EntryHasWorker'
    BY <2>1 DEF IInv, EntryHasWorker, Busy, TypeOK, Entry
  <2>6. \A v \in Worker : Busy(v) /\ PipelineOf[run[v]] = p => run[v] <= r
    BY <1>4, <2>1 DEF Claim, IsLatest, IInv, BusyIsSaved, Busy, TypeOK
  <2>7. LiveIsNewest'
    <3> SUFFICES ASSUME NEW v \in Worker, NEW u \in Worker, cancel'[u] = "live",
                        Busy(v)', PipelineOf[run'[v]] = PipelineOf[run'[u]]
                 PROVE  run'[v] <= run'[u]
      BY DEF LiveIsNewest
    <3>1. \A x \in Worker : run'[x] = (IF x = w THEN r ELSE run[x])
                          /\ phase'[x] = (IF x = w THEN "release" ELSE phase[x])
      BY <2>1 DEF TypeOK
    <3>2. CASE u = w /\ v = w
      BY <3>1, <3>2
    <3>3. CASE u = w /\ v # w
      BY <3>1, <3>3, <2>6 DEF Busy
    <3>4. CASE u # w /\ v = w
      BY <3>1, <3>4, <2>2
    <3>5. CASE u # w /\ v # w
      BY <3>1, <3>5, <2>2 DEF IInv, LiveIsNewest, Busy
    <3>6. QED
      BY <3>2, <3>3, <3>4, <3>5
  <2>8. QED
    BY <2>3, <2>4, <2>5, <2>7 DEF IInv
<1>5. ASSUME NEW w \in Worker, WorkerStep(w)
      PROVE  IInv'
  <2>1. CASE Return(w)
    BY <2>1 DEF Return, IInv, BusyIsSaved, LiveIsRegistered, EntryHasWorker,
                LiveIsNewest, Busy, TypeOK
  <2>2. CASE CleanUpCheck(w)
    <3>1. CASE IsReleaseContextExistsForPipeline(run[w])
      <4>1. /\ \A v \in Worker : Busy(v) <=> Busy(v)'
            /\ UNCHANGED <<run, saved, ctxMap, cancel>>
        BY <2>2, <3>1 DEF CleanUpCheck, IInv, Busy, TypeOK
      <4>2. EntryHasWorker'
        BY <4>1 DEF IInv, EntryHasWorker, TypeOK, Entry
      <4>3. BusyIsSaved' /\ LiveIsRegistered' /\ LiveIsNewest'
        BY <4>1 DEF IInv, BusyIsSaved, LiveIsRegistered, LiveIsNewest
      <4>4. QED
        BY <4>2, <4>3 DEF IInv
    \* A worker that goes idle here has no entry and no live context.
    <3>2. CASE ~IsReleaseContextExistsForPipeline(run[w])
      <4>1. /\ phase' = [phase EXCEPT ![w] = "idle"]
            /\ run' = [run EXCEPT ![w] = NoRunner]
            /\ UNCHANGED <<saved, ctxMap, cancel>>
        BY <2>2, <3>2 DEF CleanUpCheck
      <4>2. \A p \in Pipeline : ctxMap[p] # NoEntry => ctxMap[p].owner # w
        BY <3>2 DEF IsReleaseContextExistsForPipeline, IInv, EntryHasWorker, TypeOK
      <4>3. cancel[w] # "live"
        BY <4>2, LiveOwnsEntry
      <4>4. BusyIsSaved' /\ LiveIsRegistered' /\ LiveIsNewest'
        BY <4>1, <4>3 DEF IInv, BusyIsSaved, LiveIsRegistered, LiveIsNewest, Busy, TypeOK
      <4>5. EntryHasWorker'
        BY <4>1, <4>2 DEF IInv, EntryHasWorker, Busy, TypeOK, Entry
      <4>6. QED
        BY <4>4, <4>5 DEF IInv
    <3>3. QED
      BY <3>1, <3>2
  <2>3. CASE CleanUpRemove(w)
    <3> DEFINE p == PipelineOf[run[w]]
    <3>1. /\ ctxMap' = [ctxMap EXCEPT ![p] = NoEntry]
          /\ phase' = [phase EXCEPT ![w] = "idle"]
          /\ run' = [run EXCEPT ![w] = NoRunner]
          /\ saved' = saved /\ p \in Pipeline /\ run[w] \in Runner
      BY <2>3 DEF CleanUpRemove, CancelEntry, IInv, BusyIsSaved, Busy, TypeOK
    <3>2. ASSUME NEW v \in Worker, cancel'[v] = "live"
          PROVE  v # w /\ cancel[v] = "live" /\ PipelineOf[run[v]] # p
      <4>1. cancel[v] = "live" /\ PipelineOf[run[v]] # p
        BY <3>1, <3>2, <2>3, CancelEntryLeaves DEF CleanUpRemove, Cause
      <4>2. QED
        BY <4>1
    <3>3. QED
      BY <3>1, <3>2 DEF IInv, BusyIsSaved, LiveIsRegistered, EntryHasWorker,
                        LiveIsNewest, Busy, TypeOK, Entry
  <2>4. QED
    BY <1>5, <2>1, <2>2, <2>3 DEF WorkerStep
<1>6. ASSUME NEW w \in Worker, DeadlineExceeded(w)
      PROVE  IInv'
  BY <1>6 DEF DeadlineExceeded, IInv, BusyIsSaved, LiveIsRegistered,
              EntryHasWorker, LiveIsNewest, Busy, TypeOK
<1>7. ASSUME NEW p \in Pipeline, RemoveReleaseContextForPipeline(p)
      PROVE  IInv'
  <2>1. /\ ctxMap' = [ctxMap EXCEPT ![p] = NoEntry]
        /\ UNCHANGED <<saved, phase, run>>
    BY <1>7 DEF RemoveReleaseContextForPipeline, CancelEntry
  <2>2. ASSUME NEW v \in Worker, cancel'[v] = "live"
        PROVE  cancel[v] = "live" /\ PipelineOf[run[v]] # p
    BY <2>2, <1>7, CancelEntryLeaves DEF RemoveReleaseContextForPipeline, Cause
  <2>3. QED
    BY <2>1, <2>2 DEF IInv, BusyIsSaved, LiveIsRegistered, EntryHasWorker,
                      LiveIsNewest, Busy, TypeOK, Entry
<1>8. CASE ShutDownDevtronAppReleaseContext
  <2>1. \A v \in Worker : cancel'[v] # "live"
    <3>1. SUFFICES ASSUME NEW v \in Worker PROVE cancel'[v] # "live"
      OBVIOUS
    <3>2. Cancelled(cancel[v], "shutdown") # "live"
      BY DEF Cancelled
    <3>3. CASE cancel[v] = "live"
      BY <1>8, <3>2, <3>3, LiveOwnsEntry DEF ShutDownDevtronAppReleaseContext
    <3>4. CASE cancel[v] # "live"
      BY <1>8, <3>2, <3>4 DEF ShutDownDevtronAppReleaseContext
    <3>5. QED
      BY <3>3, <3>4
  <2>2. QED
    BY <1>8, <2>1 DEF ShutDownDevtronAppReleaseContext, IInv, BusyIsSaved,
                      LiveIsRegistered, EntryHasWorker, LiveIsNewest, Busy, TypeOK
<1>9. CASE Restart
  BY <1>9 DEF Restart, IInv, BusyIsSaved, LiveIsRegistered, EntryHasWorker,
              LiveIsNewest, Busy, TypeOK
<1>10. CASE UNCHANGED vars
  BY <1>10 DEF vars, IInv, BusyIsSaved, LiveIsRegistered, EntryHasWorker,
               LiveIsNewest, Busy, TypeOK
<1>11. QED
  BY <1>3, <1>4, <1>5, <1>6, <1>7, <1>8, <1>9, <1>10 DEF Next

\* The strengthened invariant holds in every reachable state.
LEMMA InvariantHolds == Spec => []IInv
<1>1. Init => IInv
  BY NoRunnerAssumption DEF Init, IInv, TypeOK, Phase, Cause, BusyIsSaved,
     LiveIsRegistered, EntryHasWorker, LiveIsNewest, Busy
<1>2. IInv /\ [Next]_vars => IInv'
  BY SafetyInductive
<1>3. QED
  BY <1>1, <1>2, PTL DEF Spec

\* A release context that is not cancelled is the registered one of its
\* pipeline (UpdateReleaseContextForPipeline), whatever shutdowns, deletions and
\* foreign clean-ups happen.
THEOREM LiveRegistered == Spec => []LiveIsRegistered
<1>1. IInv => LiveIsRegistered
  BY DEF IInv
<1>2. QED
  BY <1>1, InvariantHolds, PTL

\* No entry of devtronAppReleaseContextMap outlives its worker.
THEOREM NoLeakedEntry == Spec => []EntryHasWorker
<1>1. IInv => EntryHasWorker
  BY DEF IInv
<1>2. QED
  BY <1>1, InvariantHolds, PTL

\* The release that runs uncancelled is the newest one any worker is at
\* (validateConcurrentOrInvalidRequest).
THEOREM LiveNewest == Spec => []LiveIsNewest
<1>1. IInv => LiveIsNewest
  BY DEF IInv
<1>2. QED
  BY <1>1, InvariantHolds, PTL

=============================================================================
