-------------------------- MODULE StageRetryProofs --------------------------
(***************************************************************************)
(* When a stage is started again and how it comes to rest, for any number  *)
(* of runners, workers and disturbances, with stage rows kept.             *)
(*                                                                         *)
(* The results follow an update through its steps.  A terminal status      *)
(* other than a failure stays one (TerminalStays), so an update that       *)
(* found such a status cannot come out as a failure to be retried          *)
(* (FinalHeld).  A deletion, on the other hand, is at each point still to  *)
(* be handled, in the hands of a worker, or answered by a later runner     *)
(* (Pursued).  With one status worker the events of a pod are applied in   *)
(* order, so the rows of a stage are opened before they are closed, and    *)
(* stay closed (SettleInv).                                                *)
(***************************************************************************)
EXTENDS StageRunnerProofs

\* A terminal status that is not a failure to be retried.
Settled == {"Succeeded", "TimedOut", "CANCELLED"}

-----------------------------------------------------------------------------
(* What a step may do to the job of one worker, and to the rows *)

\* Only a worker's own steps give it something to do.
LEMMA Moves ==
  ASSUME IInv, [Next]_vars, NEW w \in Worker
  PROVE  \/ job'[w] = job[w]
         \/ Crash
         \/ ComputeStages(w) \/ WriteRow(w)
         \/ w \in StatusWorker /\ StatusStep(w)
         \/ w \in CompleteWorker /\ CompleteStep(w)
         \/ w = User /\ CancelStage
<1>1. \A x \in Worker : x \in DOMAIN job
  BY DEF IInv, Shape, Jobs
<1>2. ASSUME NEW x \in Worker, x # w, NEW j, job' = [job EXCEPT ![x] = j]
      PROVE  job'[w] = job[w]
  BY <1>1, <1>2
<1>3. CASE \E r \in Runner : Cluster(r)
  BY <1>3 DEF Cluster, PodStarts, RunnerReports, PodEnds, Resync
<1>4. ASSUME NEW x \in Worker, ComputeStages(x) \/ WriteRow(x) \/ Redeliver(x), x # w
      PROVE  job'[w] = job[w]
  BY <1>2, <1>4 DEF ComputeStages, WriteRow, Redeliver
<1>5. ASSUME NEW x \in StatusWorker, StatusStep(x), x # w
      PROVE  job'[w] = job[w]
  BY <1>2, <1>5 DEF StatusStep, BeginStatus, StartUpdate, CheckReTrigger, CreateRetry, RetryFails,
     SubmitWorkflow, SubmitFails, Worker
<1>6. ASSUME NEW x \in CompleteWorker, CompleteStep(x), x # w
      PROVE  job'[w] = job[w]
  BY <1>2, <1>6 DEF CompleteStep, BeginComplete, StartUpdate, DropComplete, Announce, Worker
<1>7. ASSUME CancelStage, User # w
      PROVE  job'[w] = job[w]
  BY <1>2, <1>7 DEF CancelStage, BeginCancel, Terminate, WriteCancel, StartUpdate, TerminateFails, Worker
<1>8. CASE UNCHANGED vars
  BY <1>8 DEF vars
<1>9. ASSUME NEW x \in Worker, x = w, ComputeStages(x) \/ WriteRow(x) \/ Redeliver(x)
      PROVE  job'[w] = job[w] \/ ComputeStages(w) \/ WriteRow(w)
  BY <1>9 DEF Redeliver
<1> QED
  BY <1>3, <1>4, <1>5, <1>6, <1>7, <1>8, <1>9 DEF Next

\* Once torn or dropped, a runner stays so.
LEMMA RecordsGrow ==
  ASSUME [Next]_vars
  PROVE  torn \subseteq torn' /\ dropped \subseteq dropped'
<1>1. CASE \E r \in Runner : Cluster(r)
  BY <1>1 DEF Cluster, PodStarts, RunnerReports, PodEnds, Resync
<1>2. CASE \E w \in Worker : ComputeStages(w) \/ WriteRow(w) \/ Redeliver(w)
  BY <1>2 DEF ComputeStages, WriteRow, Redeliver
<1>3. CASE \E w \in StatusWorker : StatusStep(w)
  BY <1>3 DEF StatusStep, BeginStatus, CheckReTrigger, CreateRetry, RetryFails, SubmitWorkflow,
     SubmitFails
<1>4. CASE \E w \in CompleteWorker : CompleteStep(w)
  BY <1>4 DEF CompleteStep, BeginComplete, DropComplete, Announce
<1>5. CASE CancelStage \/ Crash \/ UNCHANGED vars
  BY <1>5 DEF CancelStage, BeginCancel, Terminate, TerminateFails, Crash, vars
<1> QED
  BY <1>1, <1>2, <1>3, <1>4, <1>5 DEF Next

\* A settled status stays settled unless the runner is torn.
LEMMA SettledStays ==
  ASSUME StagesEnabled, IInv, [Next]_vars, NEW r \in Runner, r \notin torn', row[r].status \in Settled
  PROVE  row'[r].status \in Settled
<1>1. row[r].status \in Terminal /\ KeepsTerminal
  BY StepKeepsTerminal DEF Settled, Terminal
<1> QED
  BY <1>1 DEF KeepsTerminal, Settled

-----------------------------------------------------------------------------
(* A stage that had succeeded or was cancelled is not run again *)

\* An update that found its runner finished finds it settled, and so leaves it.
FinalHeld ==
  \A w \in StatusWorker :
    (/\ job[w].pc \in {"compute", "write", "reread", "create"}
     /\ job[w].final
     /\ job[w].runner \notin torn) =>
      \/ job[w].pc = "compute" /\ row[job[w].runner].status \in Settled
      \/ job[w].pc = "write" /\ job[w].base.status \in Settled
      \/ job[w].pc = "reread" /\ job[w].status \in Settled

\* Each step of the update keeps it so.
LEMMA FinalStep ==
  ASSUME StagesEnabled, IInv, FinalHeld, [Next]_vars
  PROVE  FinalHeld'
<1> SUFFICES ASSUME NEW w \in StatusWorker,
                    job'[w].pc \in {"compute", "write", "reread", "create"},
                    job'[w].final, job'[w].runner \notin torn'
             PROVE  \/ job'[w].pc = "compute" /\ row'[job'[w].runner].status \in Settled
                    \/ job'[w].pc = "write" /\ job'[w].base.status \in Settled
                    \/ job'[w].pc = "reread" /\ job'[w].status \in Settled
  BY DEF FinalHeld
<1>1. w \in Worker /\ w # User /\ w \notin CompleteWorker /\ w \in DOMAIN job
  BY WorkerAssumption DEF Worker, IInv, Shape, Jobs
<1>2. CASE job'[w] = job[w]
  <2>1. job[w].runner \in Runner
    BY <1>1, <1>2, CreatorHoldsRunner DEF IInv, Shape
  <2>2. job[w].runner \notin torn
    BY <1>2, RecordsGrow
  <2> QED
    BY <1>2, <2>1, <2>2, SettledStays DEF FinalHeld
<1>3. CASE ComputeStages(w)
  <2>1. /\ job'[w].pc = "write" /\ job'[w].base = row[job[w].runner] /\ job[w].pc = "compute"
        /\ job'[w].final = job[w].final /\ job'[w].runner = job[w].runner /\ torn' = torn
    BY <1>1, <1>3 DEF ComputeStages
  <2> QED
    BY <2>1 DEF FinalHeld
<1>4. CASE WriteRow(w)
  <2>1. /\ job'[w].pc = "reread" /\ job'[w].status = job[w].row.status /\ job[w].pc = "write"
        /\ job'[w].final = job[w].final /\ job'[w].runner = job[w].runner
    BY <1>1, <1>4 DEF WriteRow
  <2>2. job[w].base.status \in Settled
    BY <2>1, RecordsGrow DEF FinalHeld
  <2>3. job[w].row.status \in {job[w].base.status, "TimedOut", "CANCELLED"}
    BY <1>1, <2>1, <2>2, HeldWrite DEF IInv, Shape, Settled, Terminal
  <2> QED
    BY <2>1, <2>2, <2>3 DEF Settled
<1>5. CASE BeginStatus(w) /\ job'[w] # job[w]
  <2>1. PICK ev : ev = Head(statusQ)
    OBVIOUS
  <2>2. PICK x : x = UpdateWorkflow(ev, row[ev.runner])
    OBVIOUS
  <2>3. job' = [job EXCEPT ![w] = [pc |-> "compute", runner |-> ev.runner, ev |-> ev, row |-> x,
                                   final |-> Finished(ev.runner)]] /\ row' = row
    BY <1>5, <2>1, <2>2 DEF BeginStatus, StartUpdate
  <2>4. /\ job'[w].pc = "compute" /\ job'[w].runner = ev.runner
        /\ job'[w].final = Finished(ev.runner)
    BY <1>1, <2>3
  <2> QED
    BY <2>3, <2>4 DEF Finished, Settled
<1>6. CASE CheckReTrigger(w)
  <2>1. job[w].pc = "reread" /\ UNCHANGED torn
    BY <1>6 DEF CheckReTrigger
  <2>2. /\ job' = [job EXCEPT ![w] = [job[w] EXCEPT !.pc = "create"]]
        /\ job[w].status \in {"Error", "Failed"}
    BY <1>1, <1>6 DEF CheckReTrigger, ReTriggerRequired, Idle
  <2>3. job'[w].final = job[w].final /\ job'[w].runner = job[w].runner
    <3>1. job[w] = [pc |-> job[w].pc, runner |-> job[w].runner, ev |-> job[w].ev,
                    status |-> job[w].status, final |-> job[w].final]
      BY <1>1, <2>1, HeldRetry DEF IInv, Shape
    <3>2. PICK k : k = job[w]
      OBVIOUS
    <3> QED
      BY <1>1, <2>2, <3>1, <3>2
  <2> QED
    BY <2>1, <2>2, <2>3 DEF FinalHeld, Settled
<1>7. CASE CreateRetry(w)
  <2>1. PICK new : job' = [job EXCEPT ![w] = [pc |-> "submit", runner |-> new, ev |-> job[w].ev,
                                              status |-> job[w].status, final |-> job[w].final]]
    BY <1>7 DEF CreateRetry
  <2> QED
    BY <1>1, <2>1
<1>8. CASE RetryFails(w) \/ SubmitWorkflow(w) \/ SubmitFails(w)
  <2>1. job' = [job EXCEPT ![w] = Idle]
    BY <1>8 DEF RetryFails, SubmitWorkflow, SubmitFails
  <2> QED
    BY <1>1, <2>1 DEF Idle
<1>9. CASE Crash
  BY <1>1, <1>9 DEF Crash, Idle
<1> QED
  BY <1>1, <1>2, <1>3, <1>4, <1>5, <1>6, <1>7, <1>8, <1>9, Moves DEF StatusStep

\* A stage that had succeeded or was cancelled when its deletion was read is not
\* run again, whatever the events, the workers and the crashes, unless the runner
\* was written by a worker that had not seen an earlier write
\* (CdHandler.go, HandleCdStageReTrigger).
THEOREM FinishedStaysDown == StagesEnabled => (Spec => FinishedIsNotRetried)
<1> SUFFICES ASSUME StagesEnabled PROVE Spec => FinishedIsNotRetried
  OBVIOUS
<1> DEFINE NotRetried == \A w \in StatusWorker :
                           (job[w].pc = "create" /\ job'[w].pc = "submit") =>
                             (~job[w].final \/ job[w].runner \in torn)
<1>1. Init => FinalHeld
  BY DEF Init, FinalHeld, Idle, Worker
<1>2. IInv /\ FinalHeld /\ [Next]_vars => FinalHeld'
  BY FinalStep
<1>3. FinalHeld => NotRetried
  BY DEF FinalHeld
<1>4. FinalHeld /\ [Next]_vars => [NotRetried]_vars
  BY <1>3
<1> QED
  BY <1>1, <1>2, <1>4, Invariance, PTL DEF Spec, FinishedIsNotRetried

-----------------------------------------------------------------------------
(* What is in a queue *)

Messages(q) == {q[i] : i \in 1 .. Len(q)}

\* What is put at the end of a queue, and what is taken from its head.
LEMMA QueueEnds ==
  ASSUME NEW T, NEW q \in Seq(T), NEW ev \in T
  PROVE  /\ Messages(Append(q, ev)) = Messages(q) \cup {ev}
         /\ q # <<>> => Messages(q) = Messages(Tail(q)) \cup {Head(q)}
<1>1. Messages(Append(q, ev)) = Messages(q) \cup {ev}
  <2>1. /\ Len(Append(q, ev)) = Len(q) + 1
        /\ \A i \in 1 .. Len(q) : Append(q, ev)[i] = q[i]
        /\ Append(q, ev)[Len(q) + 1] = ev
    OBVIOUS
  <2> QED
    BY <2>1 DEF Messages
<1>2. ASSUME q # <<>>
      PROVE  Messages(q) = Messages(Tail(q)) \cup {Head(q)}
  <2>1. /\ Len(q) \in Nat \ {0} /\ Len(Tail(q)) = Len(q) - 1 /\ Head(q) = q[1]
        /\ \A i \in 1 .. Len(q) - 1 : Tail(q)[i] = q[i + 1]
    BY <1>2
  <2>2. ASSUME NEW i \in 1 .. Len(q) PROVE q[i] \in Messages(Tail(q)) \cup {Head(q)}
    <3>1. CASE i = 1
      BY <2>1, <3>1
    <3>2. CASE i # 1
      <4>1. i - 1 \in 1 .. Len(Tail(q)) /\ Tail(q)[i - 1] = q[i]
        BY <2>1, <3>2
      <4> QED
        BY <4>1 DEF Messages
    <3> QED
      BY <3>1, <3>2
  <2>3. ASSUME NEW i \in 1 .. Len(Tail(q)) PROVE Tail(q)[i] \in Messages(q)
    <3>1. i + 1 \in 1 .. Len(q) /\ Tail(q)[i] = q[i + 1]
      BY <2>1
    <3> QED
      BY <3>1 DEF Messages
  <2>4. Head(q) \in Messages(q)
    BY <2>1 DEF Messages
  <2> QED
    BY <2>2, <2>3, <2>4 DEF Messages
<1> QED
  BY <1>1, <1>2

\* What comes again is put before the rest, and nothing is lost.
LEMMA RequeuedHolds ==
  ASSUME NEW W, IsFiniteSet(W), NEW T, NEW taken \in [W -> T], NEW queue \in Seq(T)
  PROVE  Messages(Requeued(taken, queue)) = {taken[w] : w \in W} \cup Messages(queue)
<1> DEFINE holders == SetToSeq(W)
           n == Cardinality(W)
<1>1. n \in Nat /\ ExistsBijection(1 .. n, W)
  BY FS_CardinalityType
<1>2. PICK f \in [1 .. n -> W] : IsInjective(f)
  BY <1>1 DEF ExistsBijection, Bijection, Injection, IsInjective
<1>3. holders \in [1 .. n -> W] /\ IsInjective(holders)
  BY <1>2 DEF SetToSeq
<1> HIDE DEF holders, n
<1>4. \A w \in W : \E i \in 1 .. n : holders[i] = w
  <2>1. holders \in Injection(1 .. n, W)
    BY <1>3 DEF Injection, IsInjective
  <2>2. Cardinality(1 .. n) = n
    BY <1>1, FS_Interval
  <2>3. holders \in Surjection(1 .. n, W)
    BY <2>1, <2>2, FS_Injection DEF n
  <2> QED
    BY <2>3 DEF Surjection
<1>5. holders \in Seq(W) /\ Len(holders) = n
  BY <1>1, <1>3
<1>6. PICK first : first = [i \in 1 .. n |-> taken[holders[i]]]
  OBVIOUS
<1>7. first \in Seq(T) /\ Len(first) = n /\ \A i \in 1 .. n : first[i] = taken[holders[i]]
  BY <1>1, <1>3, <1>6
<1>8. Requeued(taken, queue) = first \o queue
  <2>1. DOMAIN taken = W
    OBVIOUS
  <2> QED
    BY <1>5, <1>6, <2>1 DEF Requeued, holders
<1>9. /\ Len(first \o queue) = n + Len(queue)
      /\ \A i \in 1 .. n : (first \o queue)[i] = first[i]
      /\ \A i \in 1 .. Len(queue) : (first \o queue)[n + i] = queue[i]
  BY <1>1, <1>7
<1>10. \A i \in 1 .. n + Len(queue) : i \in 1 .. n \/ (i - n \in 1 .. Len(queue) /\ i = n + (i - n))
  BY <1>1
<1>11. ASSUME NEW ev \in Messages(first \o queue)
       PROVE  ev \in {taken[w] : w \in W} \cup Messages(queue)
  <2>1. PICK i \in 1 .. n + Len(queue) : ev = (first \o queue)[i]
    BY <1>9 DEF Messages
  <2>2. CASE i \in 1 .. n
    BY <1>3, <1>7, <1>9, <2>1, <2>2
  <2>3. CASE i \notin 1 .. n
    <3>1. PICK k \in 1 .. Len(queue) : i = n + k
      BY <1>1, <1>10, <2>3
    <3> QED
      BY <1>9, <2>1, <3>1 DEF Messages
  <2> QED
    BY <2>2, <2>3
<1>12. ASSUME NEW w \in W PROVE taken[w] \in Messages(first \o queue)
  <2>1. PICK i \in 1 .. n : holders[i] = w
    BY <1>4
  <2>2. i \in 1 .. n + Len(queue) /\ (first \o queue)[i] = taken[w]
    BY <1>1, <1>7, <1>9, <2>1
  <2> QED
    BY <1>9, <2>2 DEF Messages
<1>13. ASSUME NEW k \in 1 .. Len(queue) PROVE queue[k] \in Messages(first \o queue)
  <2>1. n + k \in 1 .. n + Len(queue) /\ (first \o queue)[n + k] = queue[k]
    BY <1>1, <1>9
  <2> QED
    BY <1>9, <2>1 DEF Messages
<1>14. \A ev \in Messages(queue) : ev \in Messages(first \o queue)
  BY <1>13 DEF Messages
<1>15. Messages(first \o queue) = {taken[w] : w \in W} \cup Messages(queue)
  BY <1>11, <1>12, <1>14
<1> QED
  BY <1>8, <1>15

-----------------------------------------------------------------------------
(* The runners *)

\* A failure that is stored is terminal.
LEMMA FailureIsTerminal ==
  ASSUME StagesEnabled, NEW rows \in RunnerRow, NEW wfStatus, NEW podStatus \in {"Failed", "Error"},
         NEW message
  PROVE  UpdateWorkflowStages(rows, wfStatus, podStatus, message).status \in Terminal
<1>1. PICK x \in StageStatus : x = UpdatedPodRow(rows.pod, podStatus)
  BY DEF UpdatedPodRow, StageStatus, RunnerRow
<1>2. PICK base : base = [rows EXCEPT !.pod = x]
  OBVIOUS
<1>3. base \in RunnerRow
  BY <1>2 DEF RunnerRow
<1>4. PICK stage : stage = ConvertStatusToDevtronStatus(wfStatus, message)
  OBVIOUS
<1>5. PICK f \in Terminal : f = ComputeWorkflowStatus(base.status, wfStatus, "Failed")
  BY DEF ComputeWorkflowStatus, Terminal
<1>6. PICK c \in Terminal : c = Cause(stage, f)
  BY DEF Cause, Terminal
<1>7. \E st \in Terminal : \E e, p :
        UpdatedWorkflowRows(base, wfStatus, podStatus, message) =
          [base EXCEPT !.status = st, !.exec = e, !.prep = p]
  <2> DEFINE execFails == base.exec = "RUNNING" /\ IsTerminal(stage)
             prepFails == ~IsTerminal(base.prep) /\ IsTerminal(stage)
  <2>1. UpdatedWorkflowRows(base, wfStatus, podStatus, message) =
          [base EXCEPT !.status = IF execFails \/ prepFails THEN c ELSE f,
                       !.exec   = IF execFails THEN stage ELSE base.exec,
                       !.prep   = IF prepFails THEN stage ELSE base.prep]
    BY <1>4, <1>5, <1>6 DEF UpdatedWorkflowRows
  <2>2. PICK st \in Terminal : st = IF execFails \/ prepFails THEN c ELSE f
    OBVIOUS
  <2>3. PICK e : e = IF execFails THEN stage ELSE base.exec
    OBVIOUS
  <2>4. PICK p : p = IF prepFails THEN stage ELSE base.prep
    OBVIOUS
  <2>5. UpdatedWorkflowRows(base, wfStatus, podStatus, message) =
          [base EXCEPT !.status = st, !.exec = e, !.prep = p]
    BY Zenon, <2>1, <2>2, <2>3, <2>4
  <2> QED
    BY <2>5
<1>8. PICK st \in Terminal : \E e, p :
        UpdatedWorkflowRows(base, wfStatus, podStatus, message) =
          [base EXCEPT !.status = st, !.exec = e, !.prep = p]
  BY <1>7
<1>9. PICK e, p :
        UpdatedWorkflowRows(base, wfStatus, podStatus, message) =
          [base EXCEPT !.status = st, !.exec = e, !.prep = p]
  BY <1>8
<1>10. UpdateWorkflowStages(rows, wfStatus, podStatus, message) =
        [[base EXCEPT !.status = st, !.exec = e, !.prep = p]
           EXCEPT !.podStatus = UpdatedPodStatus(rows.podStatus, podStatus)]
  BY <1>1, <1>2, <1>9 DEF UpdateWorkflowStages
<1> QED
  BY <1>3, <1>10 DEF RunnerRow

\* Three steps write to a runner.
LEMMA RowMoves ==
  ASSUME [Next]_vars
  PROVE  \/ UNCHANGED row
         \/ \E w \in Worker : WriteRow(w)
         \/ \E w \in StatusWorker : CreateRetry(w) \/ SubmitFails(w)
<1>1. CASE \E r \in Runner : Cluster(r)
  BY <1>1 DEF Cluster, PodStarts, RunnerReports, PodEnds, Resync
<1>2. CASE \E w \in Worker : ComputeStages(w) \/ WriteRow(w) \/ Redeliver(w)
  BY <1>2 DEF ComputeStages, Redeliver
<1>3. CASE \E w \in StatusWorker : StatusStep(w)
  BY <1>3 DEF StatusStep, BeginStatus, CheckReTrigger, RetryFails, SubmitWorkflow
<1>4. CASE \E w \in CompleteWorker : CompleteStep(w)
  BY <1>4 DEF CompleteStep, BeginComplete, DropComplete, Announce
<1>5. CASE CancelStage \/ Crash \/ UNCHANGED vars
  BY <1>5 DEF CancelStage, BeginCancel, Terminate, TerminateFails, Crash, vars
<1> QED
  BY <1>1, <1>2, <1>3, <1>4, <1>5 DEF Next

\* A submission that fails writes to the runner that was to be submitted.
LEMMA SubmitFailsRow ==
  ASSUME IInv, NEW w \in StatusWorker, SubmitFails(w)
  PROVE  \E r \in Runner, new \in RunnerRow :
           /\ Exists(r) /\ new.status \in Status /\ new.ref = row[r].ref /\ new.message = "exit"
           /\ row' = [row EXCEPT ![r] = new]
<1>1. PICK r \in Runner : r = job[w].runner /\ Exists(r)
  BY HeldRetry DEF SubmitFails, Worker, IInv, Shape
<1>2. PICK upd : upd = UpdateWorkflowStages(row[r], "Failed", row[r].podStatus, "exit")
  OBVIOUS
<1>3. upd \in RunnerRow /\ upd.status \in Status /\ upd.ref = row[r].ref
  <2>1. row[r] \in RunnerRow /\ row[r].podStatus \in PodPhase /\ "Failed" \in Status
    BY <1>1, ExistsIsStatus DEF RunnerRow, IInv, Shape, Status, Terminal
  <2> QED
    BY <1>2, <2>1, UpdateTyped
<1>4. PICK new : new = [upd EXCEPT !.message = "exit", !.finished = TRUE]
  OBVIOUS
<1>5. /\ new \in RunnerRow /\ new.status = upd.status /\ new.ref = upd.ref
      /\ new.message = "exit"
  BY <1>3, <1>4 DEF RunnerRow, Message
<1>6. row' = [row EXCEPT ![r] = new]
  BY <1>1, <1>2, <1>4 DEF SubmitFails
<1> QED
  BY <1>1, <1>3, <1>5, <1>6

\* The runner a retry creates.
LEMMA CreateRetryRow ==
  ASSUME IInv, NEW w \in StatusWorker, CreateRetry(w)
  PROVE  \E new \in Runner, rec \in RunnerRow :
           /\ ~Exists(new) /\ \A x \in 1 .. (new - 1) : Exists(x)
           /\ rec.status \in Status /\ rec.message = "" /\ rec.ref = Original(job[w].runner)
           /\ rec.ref \in Runner /\ Exists(rec.ref) /\ row[rec.ref].ref = 0
           /\ row' = [row EXCEPT ![new] = rec]
<1>1. PICK o : o = Original(job[w].runner)
  OBVIOUS
<1>2. o \in Runner /\ Exists(o) /\ row[o].ref = 0
  <2>1. job[w].runner \in Runner /\ Exists(job[w].runner)
    BY HeldRetry DEF CreateRetry, Worker, IInv, Shape
  <2> QED
    BY <1>1, <2>1 DEF Original, IInv, Shape, Rows, RunnerRow
<1>3. PICK rec : rec = [status |-> StartingRows.status,
                        podStatus |-> StartingRows.podStatus,
                        prep |-> StartingRows.prep, exec |-> StartingRows.exec,
                        pod |-> StartingRows.pod, message |-> "", finished |-> FALSE,
                        ref |-> o]
  OBVIOUS
<1>4. rec \in RunnerRow /\ rec.status \in Status /\ rec.ref = o /\ rec.message = ""
  BY <1>2, <1>3 DEF StartingRows, RunnerRow, Status, StageStatus, PodPhase, Message
<1>5. \E new \in Runner : /\ ~Exists(new) /\ \A x \in 1 .. (new - 1) : Exists(x)
                          /\ row' = [row EXCEPT ![new] = rec]
  BY <1>1, <1>3 DEF CreateRetry
<1> QED
  BY <1>1, <1>2, <1>4, <1>5

\* Runners do not disappear and keep their original.
LEMMA StepRowsStay ==
  ASSUME IInv, [Next]_vars
  PROVE  RowsStay
<1>1. Rows
  BY DEF IInv, Shape
<1>2. CASE UNCHANGED row
  BY <1>1, <1>2, RowUnchanged
<1>3. ASSUME NEW w \in Worker, WriteRow(w) PROVE RowsStay
  <2>1. job[w].pc = "write" /\ row' = [row EXCEPT ![job[w].runner] = job[w].row]
    BY <1>3 DEF WriteRow
  <2> QED
    BY <1>1, <2>1, HeldWrite, RowUpdated DEF IInv, Shape
<1>4. ASSUME NEW w \in StatusWorker, SubmitFails(w) PROVE RowsStay
  BY <1>1, <1>4, SubmitFailsRow, RowUpdated
<1>5. ASSUME NEW w \in StatusWorker, CreateRetry(w) PROVE RowsStay
  BY <1>1, <1>5, CreateRetryRow, RowCreated
<1> QED
  BY <1>2, <1>3, <1>4, <1>5, RowMoves

\* The runners that exist come before those that do not.
Prefix == \A x \in Runner : Exists(x) => \A y \in 1 .. x : Exists(y)

\* A new runner takes the first place that is free.
LEMMA PrefixStep ==
  ASSUME IInv, Prefix, [Next]_vars
  PROVE  Prefix'
<1>1. Rows /\ RowsStay /\ \A x \in Runner : \A y \in 1 .. x : y \in Runner
  <2>1. Cardinality(Runner) \in Nat
    BY RunnerAssumption, FS_CardinalityType
  <2> QED
    BY <2>1, StepRowsStay, RunnerAssumption DEF IInv, Shape
<1>2. CASE \A x \in Runner : Exists(x)' => Exists(x)
  BY <1>1, <1>2 DEF Prefix, RowsStay
<1>3. ASSUME NEW w \in StatusWorker, CreateRetry(w) PROVE Prefix'
  <2>1. PICK new \in Runner, rec \in RunnerRow :
          /\ ~Exists(new) /\ \A x \in 1 .. (new - 1) : Exists(x)
          /\ rec.status \in Status /\ row' = [row EXCEPT ![new] = rec]
    BY <1>3, CreateRetryRow
  <2>2. \A x \in Runner : Exists(x)' <=> (x = new \/ Exists(x))
    <3>1. "none" \notin Status
      BY DEF Status, Terminal, PodPhase
    <3> QED
      BY <1>1, <2>1, <3>1 DEF Exists, Rows
  <2>3. new \in Int /\ \A y \in 1 .. new : y = new \/ y \in 1 .. (new - 1)
    <3>1. Cardinality(Runner) \in Nat
      BY RunnerAssumption, FS_CardinalityType
    <3> QED
      BY <3>1, RunnerAssumption
  <2> QED
    BY <1>1, <2>1, <2>2, <2>3 DEF Prefix
<1>4. ASSUME NEW w \in Worker, WriteRow(w) PROVE \A x \in Runner : Exists(x)' => Exists(x)
  <2>1. job[w].pc = "write" /\ row' = [row EXCEPT ![job[w].runner] = job[w].row]
    BY <1>4 DEF WriteRow
  <2> QED
    BY <1>1, <2>1, HeldWrite, RowUpdated DEF IInv, Shape, RowsSame
<1>5. ASSUME NEW w \in StatusWorker, SubmitFails(w) PROVE \A x \in Runner : Exists(x)' => Exists(x)
  BY <1>1, <1>5, SubmitFailsRow, RowUpdated DEF RowsSame
<1>6. CASE UNCHANGED row
  BY <1>6 DEF Prefix, Exists
<1> QED
  BY <1>2, <1>3, <1>4, <1>5, <1>6, RowMoves

-----------------------------------------------------------------------------
(* How the status topic and the pods change *)

\* The events of a pod are status events about its runner; only those of a deleted
\* pod say so, and they say it failed.
DeletionEvent(ev) ==
  ev.message = "pod deleted" => ev.phase \in {"Failed", "Error"} /\ ev.podStatus \in {"Failed", "Error"}

\* What kubewatch publishes of a pod.
LEMMA PodEventShape ==
  ASSUME NEW r \in Runner, NEW state, NEW ev \in PodEvents(r, state)
  PROVE  /\ ev \in StatusEvent /\ ev.runner = r /\ DeletionEvent(ev)
         /\ state = "deleted" => ev.message = "pod deleted"
<1> DEFINE Event(phase, podStatus, message, finished) ==
             [runner |-> r, phase |-> phase, podStatus |-> podStatus,
              message |-> message, finished |-> finished]
           Good(e) == /\ e \in StatusEvent /\ e.runner = r /\ DeletionEvent(e)
                      /\ state = "deleted" => e.message = "pod deleted"
<1>1. ASSUME NEW p \in PodPhase, NEW m \in Message, NEW b \in BOOLEAN,
             m = "pod deleted" => p \in {"Failed", "Error"},
             state = "deleted" => m = "pod deleted"
      PROVE  Good(Event(p, p, m, b))
  BY <1>1 DEF StatusEvent, DeletionEvent
<1>2. /\ {"Running", "Succeeded", "Failed", "Error"} \subseteq PodPhase
      /\ {"", "exit", "timeout", "pod deleted"} \subseteq Message
  BY DEF PodPhase, Message
<1>3. CASE state = "running"
  <2>1. ev = Event("Running", "Running", "", FALSE)
    BY <1>3 DEF PodEvents
  <2> HIDE DEF Event, Good
  <2>2. Good(Event("Running", "Running", "", FALSE))
    BY <1>1, <1>2, <1>3
  <2> QED
    BY <2>1, <2>2 DEF Good
<1>4. CASE state = "succeeded"
  <2>1. ev = Event("Succeeded", "Succeeded", "", TRUE)
    BY <1>4 DEF PodEvents
  <2> HIDE DEF Event, Good
  <2>2. Good(Event("Succeeded", "Succeeded", "", TRUE))
    BY <1>1, <1>2, <1>4
  <2> QED
    BY <2>1, <2>2 DEF Good
<1>5. CASE state = "exited"
  <2>1. ev = Event("Failed", "Failed", "exit", TRUE)
    BY <1>5 DEF PodEvents
  <2> HIDE DEF Event, Good
  <2>2. Good(Event("Failed", "Failed", "exit", TRUE))
    BY <1>1, <1>2, <1>5
  <2> QED
    BY <2>1, <2>2 DEF Good
<1>6. CASE state = "timedout"
  <2>1. ev = Event("Failed", "Failed", "timeout", TRUE)
    BY <1>6 DEF PodEvents
  <2> HIDE DEF Event, Good
  <2>2. Good(Event("Failed", "Failed", "timeout", TRUE))
    BY <1>1, <1>2, <1>6
  <2> QED
    BY <2>1, <2>2 DEF Good
<1>7. CASE state = "deleted"
  <2>1. \/ ev = Event("Failed", "Failed", "pod deleted", TRUE)
        \/ ev = Event("Error", "Error", "pod deleted", TRUE)
    <3>1. ev \in {Event(p, p, "pod deleted", TRUE) : p \in {"Failed", "Error"}}
      BY <1>7 DEF PodEvents
    <3> HIDE DEF Event
    <3> QED
      BY <3>1
  <2> HIDE DEF Event, Good
  <2>2. /\ Good(Event("Failed", "Failed", "pod deleted", TRUE))
        /\ Good(Event("Error", "Error", "pod deleted", TRUE))
    BY <1>1, <1>2, <1>7
  <2>3. Good(ev)
    BY <2>1, <2>2
  <2> QED
    BY <2>3 DEF Good
<1>8. CASE state \notin {"running", "succeeded", "exited", "timedout", "deleted"}
  BY <1>8 DEF PodEvents
<1> QED
  BY <1>3, <1>4, <1>5, <1>6, <1>7, <1>8

\* The events of a deleted pod.
LEMMA DeletedEvents ==
  ASSUME NEW r \in Runner
  PROVE  \A ev \in PodEvents(r, "deleted") : ev.runner = r /\ ev.message = "pod deleted"
<1>1. PICK state : state = "deleted"
  OBVIOUS
<1>2. \A ev \in PodEvents(r, state) : ev.runner = r /\ ev.message = "pod deleted"
  BY <1>1, PodEventShape, ZenonT(40)
<1> QED
  BY <1>1, <1>2

\* What is at the head of a queue.
LEMMA HeadIn ==
  ASSUME NEW T, NEW q \in Seq(T), q # <<>>
  PROVE  Head(q) \in T
OBVIOUS

\* Something of a pod is published, with the pod in its new state or as it was.
Published(r, state) ==
  Publish(r, state) /\ (pod' = pod \/ pod' = [pod EXCEPT ![r] = state])

\* The steps that change the topic or a pod.
LEMMA QueueMoves ==
  ASSUME IInv, [Next]_vars
  PROVE  \/ UNCHANGED <<statusQ, pod>>
         \/ \E r \in Runner : \E state : Published(r, state)
         \/ \E w \in StatusWorker : BeginStatus(w) /\ UNCHANGED pod
         \/ \E r \in Runner : UNCHANGED statusQ /\ pod' = [pod EXCEPT ![r] = "pending"]
         \/ \E w \in StatusWorker :
              Busy(w) /\ statusQ' = Requeued(Taken({w}), statusQ) /\ UNCHANGED pod
         \/ Crash /\ UNCHANGED pod
<1>1. ASSUME NEW r \in Runner, Cluster(r)
      PROVE  UNCHANGED <<statusQ, pod>> \/ \E state : Published(r, state)
  <2>1. CASE PodStarts(r)
    BY <2>1 DEF PodStarts, Published
  <2>2. CASE RunnerReports(r)
    BY <2>2 DEF RunnerReports
  <2>3. CASE PodEnds(r)
    BY <2>3 DEF PodEnds, Published
  <2>4. CASE Resync(r)
    BY <2>4 DEF Resync, Published
  <2> QED
    BY <1>1, <2>1, <2>2, <2>3, <2>4 DEF Cluster
<1>2. ASSUME NEW w \in Worker, ComputeStages(w) \/ WriteRow(w)
      PROVE  UNCHANGED <<statusQ, pod>>
  BY <1>2 DEF ComputeStages, WriteRow
<1>3. ASSUME NEW w \in Worker, Redeliver(w)
      PROVE  \/ UNCHANGED <<statusQ, pod>>
             \/ /\ w \in StatusWorker /\ Busy(w)
                /\ statusQ' = Requeued(Taken({w}), statusQ) /\ UNCHANGED pod
  BY <1>3 DEF Redeliver
<1>4. ASSUME NEW w \in StatusWorker, StatusStep(w)
      PROVE  \/ UNCHANGED <<statusQ, pod>>
             \/ BeginStatus(w) /\ UNCHANGED pod
             \/ \E r \in Runner : UNCHANGED statusQ /\ pod' = [pod EXCEPT ![r] = "pending"]
  <2>1. CASE SubmitWorkflow(w)
    BY <2>1, HeldRetry DEF SubmitWorkflow, IInv, Shape, Worker
  <2>2. CASE BeginStatus(w)
    BY <2>2 DEF BeginStatus
  <2> QED
    BY <1>4, <2>1, <2>2 DEF StatusStep, CheckReTrigger, CreateRetry, RetryFails, SubmitFails
<1>5. ASSUME NEW w \in CompleteWorker, CompleteStep(w) PROVE UNCHANGED <<statusQ, pod>>
  BY <1>5 DEF CompleteStep, BeginComplete, DropComplete, Announce
<1>6. ASSUME CancelStage
      PROVE  UNCHANGED <<statusQ, pod>> \/ \E r \in Runner : \E state : Published(r, state)
  <2>1. CASE Terminate
    <3>1. job[User].runner \in Runner
      BY <2>1, HeldTerminate DEF Terminate, IInv, Shape, Worker
    <3>2. PICK r \in Runner : r = job[User].runner
      BY <3>1
    <3>3. UNCHANGED <<statusQ, pod>> \/ Published(r, "exited")
      BY <2>1, <3>2 DEF Terminate, Published
    <3> QED
      BY <3>3
  <2> QED
    BY <1>6, <2>1 DEF CancelStage, BeginCancel, TerminateFails
<1>7. CASE Crash
  BY <1>7 DEF Crash
<1>8. CASE UNCHANGED vars
  BY <1>8 DEF vars
<1> QED
  BY <1>1, <1>2, <1>3, <1>4, <1>5, <1>6, <1>7, <1>8 DEF Next

\* What comes again from some workers is put beside what is queued.
LEMMA RequeuedEvents ==
  ASSUME IInv, NEW W, W \subseteq StatusWorker, \A w \in W : Busy(w)
  PROVE  \A V : (W = {x \in V : Busy(x)}) =>
           Messages(Requeued(Taken(V), statusQ)) = {job[w].ev : w \in W} \cup Messages(statusQ)
<1> SUFFICES ASSUME NEW V, W = {x \in V : Busy(x)}
             PROVE  Messages(Requeued(Taken(V), statusQ)) =
                      {job[w].ev : w \in W} \cup Messages(statusQ)
  OBVIOUS
<1>1. IsFiniteSet(W)
  BY WorkerAssumption, FS_Subset
<1>2. PICK taken : taken = Taken(V)
  OBVIOUS
<1>3. taken \in [W -> StatusEvent] /\ \A w \in W : taken[w] = job[w].ev
  <2>1. \A w \in W : job[w].ev \in StatusEvent
    BY TakenTyped DEF IInv, Shape, Known
  <2> QED
    BY <1>2, <2>1 DEF Taken
<1>4. statusQ \in Seq(StatusEvent)
  BY IInvTypes DEF TypeOK
<1>5. Messages(Requeued(taken, statusQ)) = {taken[w] : w \in W} \cup Messages(statusQ)
  BY <1>1, <1>3, <1>4, RequeuedHolds
<1>6. {taken[w] : w \in W} = {job[w].ev : w \in W}
  BY <1>3
<1> QED
  BY <1>2, <1>5, <1>6

\* No event is lost on its way from the cluster to a worker that has begun with it,
\* and none comes from anywhere else.
LEMMA QueueHolds ==
  ASSUME IInv, [Next]_vars
  PROVE  /\ \A ev \in Messages(statusQ') :
              \/ ev \in Messages(statusQ)
              \/ \E r \in Runner : \E state : ev \in PodEvents(r, state)
              \/ \E w \in StatusWorker : Busy(w) /\ ev = job[w].ev
         /\ \A ev \in Messages(statusQ) :
              \/ ev \in Messages(statusQ')
              \/ \E w \in StatusWorker : BeginStatus(w) /\ ev = Head(statusQ)
         /\ Crash => \A w \in StatusWorker : Busy(w) => job[w].ev \in Messages(statusQ')
         /\ \A r \in Runner : pod'[r] = "deleted" =>
              \/ pod[r] = "deleted"
              \/ \E ev \in Messages(statusQ') : ev \in PodEvents(r, "deleted")
<1> DEFINE Goal ==
         /\ \A ev \in Messages(statusQ') :
              \/ ev \in Messages(statusQ)
              \/ \E r \in Runner : \E state : ev \in PodEvents(r, state)
              \/ \E w \in StatusWorker : Busy(w) /\ ev = job[w].ev
         /\ \A ev \in Messages(statusQ) :
              \/ ev \in Messages(statusQ')
              \/ \E w \in StatusWorker : BeginStatus(w) /\ ev = Head(statusQ)
         /\ \A r \in Runner : pod'[r] = "deleted" =>
              \/ pod[r] = "deleted"
              \/ \E ev \in Messages(statusQ') : ev \in PodEvents(r, "deleted")
<1>1. statusQ \in Seq(StatusEvent) /\ pod \in [Runner -> Pod]
  BY IInvTypes DEF TypeOK
<1>2. ASSUME UNCHANGED <<statusQ, pod>> PROVE Goal
  <2>1. statusQ' = statusQ /\ pod' = pod
    BY <1>2
  <2> QED
    BY <2>1
<1>3. ASSUME NEW r \in Runner, NEW state, Published(r, state) PROVE Goal
  <2>1. PICK ev \in PodEvents(r, state) : statusQ' = Append(statusQ, ev)
    BY <1>3 DEF Published, Publish
  <2>2. Messages(statusQ') = Messages(statusQ) \cup {ev}
    <3>1. ev \in StatusEvent
      BY PodEventShape
    <3>2. PICK q : q = Append(statusQ, ev)
      OBVIOUS
    <3>3. Messages(q) = Messages(statusQ) \cup {ev}
      BY <1>1, <3>1, <3>2, QueueEnds
    <3> QED
      BY <2>1, <3>2, <3>3
  <2>3. \A x \in Runner : pod'[x] = "deleted" => (pod[x] = "deleted" \/ (x = r /\ state = "deleted"))
    BY <1>1, <1>3 DEF Published
  <2> QED
    BY <2>1, <2>2, <2>3
<1>4. ASSUME NEW w \in StatusWorker, BeginStatus(w), UNCHANGED pod PROVE Goal
  <2>1. statusQ # <<>> /\ statusQ' = Tail(statusQ)
    BY <1>4 DEF BeginStatus
  <2>2. Head(statusQ) \in StatusEvent
    BY <1>1, <2>1
  <2>3. Messages(statusQ) = Messages(Tail(statusQ)) \cup {Head(statusQ)}
    BY <1>1, <2>1, <2>2, QueueEnds
  <2> QED
    BY <1>4, <2>1, <2>3
<1>5. ASSUME NEW r \in Runner, UNCHANGED statusQ, pod' = [pod EXCEPT ![r] = "pending"] PROVE Goal
  <2>1. \A x \in Runner : pod'[x] = "deleted" => pod[x] = "deleted"
    BY <1>1, <1>5
  <2> QED
    BY <1>5, <2>1 DEF Messages
<1>6. ASSUME NEW w \in StatusWorker, Busy(w), statusQ' = Requeued(Taken({w}), statusQ), UNCHANGED pod
      PROVE  Goal
  <2>1. {x \in {w} : Busy(x)} = {w}
    BY <1>6
  <2>2. \A x \in {w} : Busy(x)
    BY <1>6
  <2>3. Messages(statusQ') = {job[x].ev : x \in {w}} \cup Messages(statusQ)
    BY <1>6, <2>1, <2>2, RequeuedEvents
  <2> QED
    BY <1>6, <2>3
<1>7. ASSUME Crash, UNCHANGED pod
      PROVE  Goal /\ \A w \in StatusWorker : Busy(w) => job[w].ev \in Messages(statusQ')
  <2>1. PICK W : W = {w \in StatusWorker : Busy(w)}
    OBVIOUS
  <2>2. Messages(statusQ') = {job[x].ev : x \in W} \cup Messages(statusQ)
    BY <1>7, <2>1, RequeuedEvents DEF Crash
  <2> QED
    BY <1>7, <2>1, <2>2
<1>8. Goal
  BY <1>2, <1>3, <1>4, <1>5, <1>6, <1>7, QueueMoves
<1>9. Crash => UNCHANGED pod
  BY DEF Crash
<1> QED
  BY <1>7, <1>8, <1>9

-----------------------------------------------------------------------------
(* What a status worker carries from one step to the next *)

\* Events say what they were published with, and an update keeps to its event: one
\* that says the pod was deleted comes out terminal.
Carried ==
  /\ \A ev \in Messages(statusQ) : DeletionEvent(ev)
  /\ \A w \in StatusWorker :
       /\ Busy(w) => DeletionEvent(job[w].ev)
       /\ job[w].pc \in {"compute", "write", "reread", "create"} => job[w].runner = job[w].ev.runner
       /\ job[w].pc = "compute" /\ job[w].ev.message = "pod deleted" =>
            job[w].row.podStatus \in {"Failed", "Error"}
       /\ job[w].pc = "write" /\ job[w].ev.message = "pod deleted" =>
            job[w].row.status \in Terminal

\* What a status worker has after a step of its own.
LEMMA StatusJob ==
  ASSUME IInv, [Next]_vars, NEW w \in StatusWorker
  PROVE  \/ job'[w] = job[w]
         \/ ~Busy(w)'
         \/ BeginStatus(w) /\ \E ev \in Messages(statusQ) : \E x :
              /\ ev = Head(statusQ) /\ ev \in StatusEvent /\ Exists(ev.runner)
              /\ x = UpdateWorkflow(ev, row[ev.runner])
              /\ job'[w] = [pc |-> "compute", runner |-> ev.runner, ev |-> ev, row |-> x,
                            final |-> Finished(ev.runner)]
         \/ ComputeStages(w) /\ job[w].pc = "compute" /\ job'[w].pc = "write"
              /\ job'[w].runner = job[w].runner /\ job'[w].ev = job[w].ev
         \/ WriteRow(w) /\ job[w].pc = "write" /\ job'[w].pc = "reread"
              /\ job'[w].runner = job[w].runner /\ job'[w].ev = job[w].ev
              /\ job'[w].status = job[w].row.status
         \/ CheckReTrigger(w) /\ job[w].pc = "reread" /\ job'[w].pc = "create"
              /\ job'[w].runner = job[w].runner /\ job'[w].ev = job[w].ev
              /\ job'[w].status = job[w].status
         \/ CreateRetry(w) /\ job[w].pc = "create" /\ job'[w].pc = "submit"
              /\ job'[w].ev = job[w].ev
<1>1. w \in Worker /\ w # User /\ w \notin CompleteWorker /\ w \in DOMAIN job
  BY WorkerAssumption DEF Worker, IInv, Shape, Jobs
<1>2. ASSUME BeginStatus(w), job'[w] # job[w]
      PROVE  \E ev \in Messages(statusQ) : \E x :
              /\ ev = Head(statusQ) /\ ev \in StatusEvent /\ Exists(ev.runner)
              /\ x = UpdateWorkflow(ev, row[ev.runner])
              /\ job'[w] = [pc |-> "compute", runner |-> ev.runner, ev |-> ev, row |-> x,
                            final |-> Finished(ev.runner)]
  <2>1. statusQ # <<>> /\ statusQ \in Seq(Known(StatusEvent))
    BY <1>2 DEF BeginStatus, IInv, Shape, Queues
  <2>2. Head(statusQ) \in Known(StatusEvent) /\ Head(statusQ) \in Messages(statusQ)
    BY <2>1 DEF Messages
  <2>3. PICK ev \in Messages(statusQ) : ev = Head(statusQ)
    BY <2>2
  <2>4. PICK x : x = UpdateWorkflow(ev, row[ev.runner])
    OBVIOUS
  <2>5. job' = [job EXCEPT ![w] = [pc |-> "compute", runner |-> ev.runner, ev |-> ev, row |-> x,
                                   final |-> Finished(ev.runner)]]
    BY <1>2, <2>3, <2>4 DEF BeginStatus, StartUpdate
  <2>6. job'[w] = [pc |-> "compute", runner |-> ev.runner, ev |-> ev, row |-> x,
                   final |-> Finished(ev.runner)]
    BY <1>1, <2>5
  <2>7. ev \in StatusEvent /\ Exists(ev.runner)
    BY <2>2, <2>3 DEF Known
  <2> QED
    BY <2>3, <2>4, <2>6, <2>7
<1>3. ComputeStages(w) => /\ job[w].pc = "compute" /\ job'[w].pc = "write"
                          /\ job'[w].runner = job[w].runner /\ job'[w].ev = job[w].ev
  BY <1>1 DEF ComputeStages
<1>4. WriteRow(w) => /\ job[w].pc = "write" /\ job'[w].pc = "reread"
                     /\ job'[w].runner = job[w].runner /\ job'[w].ev = job[w].ev
                     /\ job'[w].status = job[w].row.status
  BY <1>1 DEF WriteRow
<1>5. ASSUME CheckReTrigger(w), Busy(w)'
      PROVE  /\ job[w].pc = "reread" /\ job'[w].pc = "create"
             /\ job'[w].runner = job[w].runner /\ job'[w].ev = job[w].ev
             /\ job'[w].status = job[w].status
  <2>1. job[w].pc = "reread" /\ job' = [job EXCEPT ![w] = [job[w] EXCEPT !.pc = "create"]]
    BY <1>1, <1>5 DEF CheckReTrigger, Busy, Idle
  <2>2. PICK k : k = job[w]
    OBVIOUS
  <2>3. k = [pc |-> k.pc, runner |-> k.runner, ev |-> k.ev, status |-> k.status, final |-> k.final]
    BY <1>1, <2>1, <2>2, HeldRetry DEF IInv, Shape
  <2> QED
    BY <1>1, <2>1, <2>2, <2>3
<1>6. CreateRetry(w) => /\ job[w].pc = "create" /\ job'[w].pc = "submit"
                        /\ job'[w].ev = job[w].ev
  <2>1. SUFFICES ASSUME CreateRetry(w)
                 PROVE  job[w].pc = "create" /\ job'[w].pc = "submit" /\ job'[w].ev = job[w].ev
    OBVIOUS
  <2>2. PICK new : job' = [job EXCEPT ![w] = [pc |-> "submit", runner |-> new, ev |-> job[w].ev,
                                              status |-> job[w].status, final |-> job[w].final]]
    BY <2>1 DEF CreateRetry
  <2> QED
    BY <1>1, <2>1, <2>2 DEF CreateRetry
<1>7. ASSUME RetryFails(w) \/ SubmitWorkflow(w) \/ SubmitFails(w) \/ Crash PROVE ~Busy(w)'
  BY <1>1, <1>7 DEF RetryFails, SubmitWorkflow, SubmitFails, Crash, Busy, Idle
<1> QED
  BY <1>1, <1>2, <1>3, <1>4, <1>5, <1>6, <1>7, Moves DEF StatusStep

\* A step keeps to the events.
LEMMA CarriedStep ==
  ASSUME StagesEnabled, IInv, Carried, [Next]_vars
  PROVE  Carried'
<1>1. ASSUME NEW ev \in Messages(statusQ') PROVE DeletionEvent(ev)
  <2>1. \/ ev \in Messages(statusQ)
        \/ \E r \in Runner : \E state : ev \in PodEvents(r, state)
        \/ \E w \in StatusWorker : Busy(w) /\ ev = job[w].ev
    BY QueueHolds
  <2> QED
    BY <2>1, PodEventShape DEF Carried
<1> DEFINE Keeps(j) ==
      /\ j.pc # "idle" => DeletionEvent(j.ev)
      /\ j.pc \in {"compute", "write", "reread", "create"} => j.runner = j.ev.runner
      /\ j.pc = "compute" /\ j.ev.message = "pod deleted" =>
           j.row.podStatus \in {"Failed", "Error"}
      /\ j.pc = "write" /\ j.ev.message = "pod deleted" => j.row.status \in Terminal
<1>2. ASSUME NEW w \in StatusWorker PROVE Keeps(job'[w])
  <2>1. Keeps(job[w]) /\ w \in Worker /\ w \in DOMAIN job
    BY DEF Carried, Busy, Worker, IInv, Shape, Jobs
  <2>2. CASE job'[w] = job[w]
    BY <2>1, <2>2
  <2>3. CASE ~Busy(w)'
    BY <2>3 DEF Busy
  <2>4. ASSUME NEW ev \in Messages(statusQ), NEW x, x = UpdateWorkflow(ev, row[ev.runner]),
               ev \in StatusEvent,
               job'[w] = [pc |-> "compute", runner |-> ev.runner, ev |-> ev, row |-> x,
                          final |-> Finished(ev.runner)]
        PROVE  Keeps(job'[w])
    <3>1. DeletionEvent(ev)
      BY DEF Carried
    <3>2. x.podStatus = ev.podStatus
      <4>1. row[ev.runner] \in RunnerRow
        BY <2>4 DEF IInv, Shape, Rows, StatusEvent
      <4> QED
        BY <2>4, <4>1 DEF UpdateWorkflow, RunnerRow
    <3>3. ev.message = "pod deleted" => x.podStatus \in {"Failed", "Error"}
      BY <3>1, <3>2 DEF DeletionEvent
    <3>4. PICK k : k = job'[w]
      OBVIOUS
    <3>5. k.pc = "compute" /\ k.ev = ev /\ k.runner = ev.runner /\ k.row = x
      BY <2>4, <3>4
    <3>6. Keeps(k)
      BY <3>1, <3>3, <3>5
    <3> QED
      BY <3>4, <3>6
  <2>5. CASE /\ ComputeStages(w) /\ job[w].pc = "compute" /\ job'[w].pc = "write"
             /\ job'[w].runner = job[w].runner /\ job'[w].ev = job[w].ev
    <3>1. ASSUME job[w].ev.message = "pod deleted" PROVE job'[w].row.status \in Terminal
      <4>1. PICK saved : saved = job[w].row
        OBVIOUS
      <4>2. PICK stored \in RunnerRow : stored = row[job[w].runner]
        BY <2>1, <2>5, HeldCompute DEF IInv, Shape, Rows
      <4>3. PICK upd : upd = UpdateWorkflowStages(stored, saved.status, saved.podStatus, saved.message)
        OBVIOUS
      <4>4. saved.podStatus \in {"Failed", "Error"} /\ saved \in RunnerRow /\ saved.status \in Status
        BY <2>1, <2>5, <3>1, <4>1, HeldCompute DEF IInv, Shape
      <4>5. upd.status \in Terminal
        BY <4>3, <4>4, FailureIsTerminal
      <4>6. upd \in RunnerRow
        <5>1. saved.podStatus \in PodPhase
          BY <4>4 DEF PodPhase
        <5> QED
          BY <4>3, <4>4, <5>1, UpdateTyped
      <4>7. PICK rec : rec = [upd EXCEPT !.message = saved.message, !.finished = saved.finished]
        OBVIOUS
      <4>8. rec.status = upd.status
        BY <4>6, <4>7 DEF RunnerRow
      <4>9. job' = [job EXCEPT ![w] =
              [pc |-> "write", runner |-> job[w].runner, ev |-> job[w].ev, base |-> stored,
               row |-> rec, final |-> job[w].final]]
        BY <2>5, <4>1, <4>2, <4>3, <4>7 DEF ComputeStages
      <4>10. job'[w].row = rec
        BY <2>1, <4>9
      <4> QED
        BY <4>5, <4>8, <4>10
    <3> QED
      BY <2>1, <2>5, <3>1
  <2>6. CASE /\ WriteRow(w) /\ job[w].pc = "write" /\ job'[w].pc = "reread"
             /\ job'[w].runner = job[w].runner /\ job'[w].ev = job[w].ev
    BY <2>1, <2>6
  <2>7. CASE /\ CheckReTrigger(w) /\ job[w].pc = "reread" /\ job'[w].pc = "create"
             /\ job'[w].runner = job[w].runner /\ job'[w].ev = job[w].ev
    BY <2>1, <2>7
  <2>8. CASE /\ CreateRetry(w) /\ job[w].pc = "create" /\ job'[w].pc = "submit"
             /\ job'[w].ev = job[w].ev
    BY <2>1, <2>8
  <2> HIDE DEF Keeps
  <2> QED
    BY <2>2, <2>3, <2>4, <2>5, <2>6, <2>7, <2>8, StatusJob
<1> QED
  BY <1>1, <1>2 DEF Carried, Busy

-----------------------------------------------------------------------------
(* A deletion is pursued until it is answered *)

Retried(r) ==
  \/ Cardinality(Retries(Original(r))) >= MaxRetries
  \/ \E x \in Retries(Original(r)) : x > r

\* A status worker has an event in hand that says the pod of r was deleted.
Deletion(w, r) == job[w].runner = r /\ job[w].ev.message = "pod deleted"

\* It has not written the runner yet,
Early(w, r) == job[w].pc \in {"compute", "write"} /\ Deletion(w, r)

\* or it has, and is about to start the stage again.
Late(w, r) == job[w].pc \in {"reread", "create"} /\ Deletion(w, r) /\ job[w].status = "Failed"

Queued(r) == \E ev \in Messages(statusQ) : ev.runner = r /\ ev.message = "pod deleted"

\* Nothing more is needed for the deletion of r than what a worker is about to do.
Answered(r) ==
  \/ r \in torn \cup dropped
  \/ row[r].status \in Settled
  \/ Retried(r)
  \/ \E w \in StatusWorker : Late(w, r)

\* A deletion that is not answered is in the topic or in the hands of a worker, and
\* whoever has seen it, in the runner or in a runner to be written, relies on that.
Pursued ==
  /\ \A r \in Runner : pod[r] = "deleted" =>
       Answered(r) \/ Queued(r) \/ \E w \in StatusWorker : Early(w, r)
  /\ \A r \in Runner : Exists(r) /\ row[r].message = "pod deleted" => Answered(r)
  /\ \A w \in Worker, r \in Runner :
       (/\ job[w].pc \in {"terminate", "compute", "write"}
        /\ job[w].runner = r /\ job[w].row.message = "pod deleted") =>
         Answered(r) \/ (w \in StatusWorker /\ Early(w, r))

\* Retries are not lost.
LEMMA RetriedStays ==
  ASSUME IInv, [Next]_vars, NEW r \in Runner, Exists(r), Retried(r)
  PROVE  Retried(r)'
<1>1. PICK o : o = Original(r)
  OBVIOUS
<1>2. RowsStay /\ Original(r)' = Original(r)
  BY StepRowsStay DEF RowsStay, Original
<1>3. PICK S : S = Retries(o)
  OBVIOUS
<1>4. PICK T : T = {x \in Runner : Exists(x)' /\ row'[x].ref = o}
  OBVIOUS
<1>5. S \subseteq T /\ S = Retries(Original(r)) /\ T = Retries(Original(r))'
  <2>1. S \subseteq T
    BY <1>2, <1>3, <1>4 DEF Retries, RowsStay
  <2>2. Retries(Original(r))' = {x \in Runner : Exists(x)' /\ row'[x].ref = Original(r)'}
    BY DEF Retries
  <2> QED
    BY <1>1, <1>2, <1>3, <1>4, <2>1, <2>2
<1>6. /\ IsFiniteSet(T) /\ Cardinality(S) \in Nat /\ Cardinality(T) \in Nat
      /\ Cardinality(S) <= Cardinality(T)
  <2>1. IsFiniteSet(T)
    BY <1>4, RunnerAssumption, FS_Subset
  <2> QED
    BY <1>5, <2>1, FS_Subset, FS_CardinalityType
<1>7. CASE Cardinality(S) >= MaxRetries
  BY <1>5, <1>6, <1>7, BoundsAssumption DEF Retried
<1>8. CASE \E x \in S : x > r
  BY <1>5, <1>8 DEF Retried
<1> QED
  BY <1>5, <1>7, <1>8 DEF Retried

\* An answer stays one.
LEMMA AnsweredStays ==
  ASSUME StagesEnabled, IInv, Prefix, Carried, [Next]_vars, NEW r \in Runner, Exists(r), Answered(r)
  PROVE  Answered(r)'
<1>1. CASE r \in torn' \cup dropped'
  BY <1>1 DEF Answered
<1>2. CASE row[r].status \in Settled
  BY <1>1, <1>2, SettledStays DEF Answered
<1>3. CASE Retried(r)
  BY <1>3, RetriedStays DEF Answered
<1>4. ASSUME NEW w \in StatusWorker, Late(w, r) PROVE Answered(r)'
  <2>1. /\ job[w].pc \in {"reread", "create"} /\ job[w].runner = r
        /\ job[w].ev.message = "pod deleted" /\ job[w].status = "Failed" /\ w \in Worker
    BY <1>4 DEF Late, Deletion, Worker
  <2>2. CASE job'[w] = job[w]
    BY <1>4, <2>2 DEF Late, Deletion, Answered
  <2>3. ASSUME CheckReTrigger(w), job[w].pc = "reread" PROVE Answered(r)'
    <3>1. CASE Busy(w)'
      <4>1. job'[w] = job[w] \/ (/\ job'[w].pc = "create" /\ job'[w].runner = job[w].runner
                                 /\ job'[w].ev = job[w].ev /\ job'[w].status = job[w].status)
        BY <2>3, <3>1, StatusJob DEF CheckReTrigger, BeginStatus, Busy, ComputeStages, WriteRow,
           CreateRetry
      <4> QED
        BY <2>1, <4>1 DEF Answered, Late, Deletion
    <3>2. CASE ~Busy(w)'
      <4>1. job[w].ev.phase \in {"Failed", "Error"}
        BY <2>1 DEF Carried, Busy, DeletionEvent
      <4>2. w \in DOMAIN job /\ row' = row
        BY <2>1, <2>3 DEF CheckReTrigger, IInv, Shape, Jobs
      <4>3. ~(ReTriggerRequired(job[w].status, job[w].ev.message, row[r].status)
              /\ Cardinality(Retries(Original(r))) < MaxRetries)
        <5>1. SUFFICES ASSUME ReTriggerRequired(job[w].status, job[w].ev.message, row[r].status),
                              Cardinality(Retries(Original(r))) < MaxRetries
                       PROVE  FALSE
          OBVIOUS
        <5>2. job' = [job EXCEPT ![w] = [job[w] EXCEPT !.pc = "create"]]
          BY <2>1, <2>3, <4>1, <5>1 DEF CheckReTrigger
        <5>3. PICK k : k = job[w]
          OBVIOUS
        <5>4. k = [pc |-> k.pc, runner |-> k.runner, ev |-> k.ev, status |-> k.status,
                   final |-> k.final]
          BY <2>1, <5>3, HeldRetry DEF IInv, Shape
        <5>5. job'[w].pc = "create"
          BY <4>2, <5>2, <5>3, <5>4
        <5> QED
          BY <3>2, <5>5 DEF Busy
      <4>4. CASE row[r].status \in {"CANCELLED", "Succeeded"}
        BY <1>1, <4>4, SettledStays DEF Settled, Answered
      <4>5. CASE row[r].status \notin {"CANCELLED", "Succeeded"}
        <5>1. "Aborted" # row[r].status
          BY ExistsIsStatus DEF IInv, Shape, Status, Terminal, PodPhase
        <5>2. ReTriggerRequired(job[w].status, job[w].ev.message, row[r].status)
          BY <2>1, <4>5, <5>1 DEF ReTriggerRequired
        <5>3. Cardinality(Retries(Original(r))) \in Nat
          <6>1. Retries(Original(r)) \subseteq Runner
            BY DEF Retries
          <6>2. IsFiniteSet(Retries(Original(r)))
            BY <6>1, RunnerAssumption, FS_Subset
          <6> QED
            BY <6>2, FS_CardinalityType
        <5>4. Retried(r)
          BY <4>3, <5>2, <5>3, BoundsAssumption DEF Retried
        <5> QED
          BY <5>4, RetriedStays DEF Answered
      <4> QED
        BY <4>4, <4>5
    <3> QED
      BY <3>1, <3>2
  <2>4. ASSUME CreateRetry(w) PROVE Answered(r)'
    <3>1. PICK new \in Runner, rec \in RunnerRow :
            /\ ~Exists(new) /\ \A x \in 1 .. (new - 1) : Exists(x)
            /\ rec.status \in Status /\ rec.ref = Original(r)
            /\ row' = [row EXCEPT ![new] = rec]
      BY <2>1, <2>4, CreateRetryRow
    <3>2. new > r
      <4>1. Cardinality(Runner) \in Nat
        BY RunnerAssumption, FS_CardinalityType
      <4>2. new \in Nat \ {0} /\ r \in Nat
        BY <4>1, RunnerAssumption
      <4>3. new \notin 1 .. r
        BY <3>1 DEF Prefix
      <4> QED
        BY <4>2, <4>3
    <3>3. row'[new] = rec
      BY <3>1 DEF IInv, Shape, Rows
    <3>4. Exists(new)'
      <4>1. "none" \notin Status
        BY DEF Status, Terminal, PodPhase
      <4> QED
        BY <3>1, <3>3, <4>1 DEF Exists
    <3>5. Original(r)' = Original(r)
      BY StepRowsStay DEF RowsStay, Original
    <3>6. \E x \in Retries(Original(r))' : x > r
      <4>1. new \in Retries(Original(r))'
        BY <3>1, <3>3, <3>4, <3>5 DEF Retries
      <4> QED
        BY <3>2, <4>1
    <3> QED
      BY <3>6 DEF Retried, Answered
  <2>5. CASE RetryFails(w)
    BY <2>1, <2>5 DEF RetryFails, Answered
  <2>6. CASE Crash
    BY <2>1, <2>6 DEF Crash, Answered
  <2>7. CASE BeginStatus(w) \/ ComputeStages(w) \/ WriteRow(w) \/ SubmitWorkflow(w) \/ SubmitFails(w)
    BY <2>1, <2>7 DEF BeginStatus, Busy, ComputeStages, WriteRow, SubmitWorkflow, SubmitFails
  <2>8. w # User /\ w \notin CompleteWorker
    BY WorkerAssumption
  <2>9. CASE CheckReTrigger(w)
    BY <2>3, <2>9 DEF CheckReTrigger
  <2> QED
    BY <2>1, <2>2, <2>4, <2>5, <2>6, <2>7, <2>8, <2>9, Moves DEF StatusStep
<1>5. torn \cup dropped \subseteq torn' \cup dropped'
  BY RecordsGrow
<1> QED
  BY <1>1, <1>2, <1>3, <1>4, <1>5 DEF Answered

\* What a status worker has once it has written the runner.
LEMMA StatusWrites ==
  ASSUME IInv, NEW w \in StatusWorker, WriteRow(w)
  PROVE  /\ job[w].pc = "write" /\ job'[w].pc = "reread"
         /\ job'[w].runner = job[w].runner /\ job'[w].ev = job[w].ev
         /\ job'[w].status = job[w].row.status
<1>1. w \in Worker /\ w # User /\ w \notin CompleteWorker /\ w \in DOMAIN job
  BY WorkerAssumption DEF Worker, IInv, Shape, Jobs
<1> QED
  BY <1>1 DEF WriteRow

\* A deletion in the hands of a worker stays there, is written, or comes again.
LEMMA EarlyStays ==
  ASSUME StagesEnabled, IInv, Carried, [Next]_vars, NEW r \in Runner, NEW w \in StatusWorker,
         Early(w, r)
  PROVE  \/ Early(w, r)' /\ (job'[w] = job[w] \/ ComputeStages(w))
         \/ Answered(r)' /\ WriteRow(w)
         \/ Queued(r)' /\ Crash
<1>1. /\ job[w].pc \in {"compute", "write"} /\ job[w].runner = r
      /\ job[w].ev.message = "pod deleted" /\ job[w].ev.runner = r
      /\ w \in Worker /\ Busy(w) /\ w \in DOMAIN job
  BY DEF Early, Deletion, Carried, Worker, Busy, IInv, Shape, Jobs
<1>2. CASE job'[w] = job[w]
  BY <1>1, <1>2 DEF Early, Deletion
<1>3. CASE ComputeStages(w)
  <2>1. job'[w].pc = "write" /\ job'[w].runner = job[w].runner /\ job'[w].ev = job[w].ev
    BY <1>1, <1>3 DEF ComputeStages
  <2> QED
    BY <1>1, <1>3, <2>1 DEF Early, Deletion
<1>4. CASE WriteRow(w)
  <2>1. /\ job[w].pc = "write" /\ job'[w].pc = "reread" /\ job'[w].runner = job[w].runner
        /\ job'[w].ev = job[w].ev /\ job'[w].status = job[w].row.status
    BY <1>4, StatusWrites
  <2>2. job[w].row.status \in Terminal
    BY <1>1, <2>1 DEF Carried
  <2>3. CASE job[w].row.status = "Failed"
    BY <1>1, <1>4, <2>1, <2>3 DEF Answered, Late, Deletion
  <2>4. CASE job[w].row.status \in Settled
    <3>1. row'[r] = job[w].row
      BY <1>1, <1>4 DEF WriteRow, IInv, Shape, Rows
    <3> QED
      BY <1>4, <2>4, <3>1 DEF Answered
  <2> QED
    BY <2>2, <2>3, <2>4 DEF Terminal, Settled
<1>5. CASE Crash
  <2>1. job[w].ev \in Messages(statusQ')
    BY <1>1, <1>5, QueueHolds
  <2> QED
    BY <1>1, <1>5, <2>1 DEF Queued
<1>6. ASSUME StatusStep(w) PROVE FALSE
  BY <1>1, <1>6 DEF StatusStep, BeginStatus, CheckReTrigger, CreateRetry, RetryFails,
     SubmitWorkflow, SubmitFails, Busy
<1>7. w # User /\ w \notin CompleteWorker
  BY WorkerAssumption
<1> QED
  BY <1>1, <1>2, <1>3, <1>4, <1>5, <1>6, <1>7, Moves

\* A deletion that waits in the topic is taken by a worker, which has it in hand or
\* finds that the runner already says so.
LEMMA QueuedStays ==
  ASSUME StagesEnabled, IInv, Prefix, Carried, Pursued, [Next]_vars, NEW r \in Runner, Queued(r)
  PROVE  Queued(r)' \/ Answered(r)' \/ \E w \in StatusWorker : Early(w, r)'
<1>1. PICK ev \in Messages(statusQ) : ev.runner = r /\ ev.message = "pod deleted"
  BY DEF Queued
<1>2. CASE ev \in Messages(statusQ')
  BY <1>1, <1>2 DEF Queued
<1>3. ASSUME NEW w \in StatusWorker, BeginStatus(w), ev = Head(statusQ)
      PROVE  Answered(r)' \/ Early(w, r)'
  <2>1. w \in DOMAIN job
    BY DEF Worker, IInv, Shape, Jobs
  <2>2. Exists(r)
    <3>1. ev \in Known(StatusEvent)
      <4>1. statusQ \in Seq(Known(StatusEvent))
        BY DEF IInv, Shape, Queues
      <4> QED
        BY <4>1 DEF Messages
    <3> QED
      BY <1>1, <3>1 DEF Known
  <2>3. CASE stateChanged(ev, row[r])
    <3>1. PICK x : x = UpdateWorkflow(ev, row[r])
      OBVIOUS
    <3>2. job' = [job EXCEPT ![w] = [pc |-> "compute", runner |-> r, ev |-> ev, row |-> x,
                                     final |-> Finished(r)]]
      BY <1>1, <1>3, <2>3, <3>1 DEF BeginStatus, StartUpdate
    <3>3. job'[w].pc = "compute" /\ job'[w].runner = r /\ job'[w].ev = ev
      BY <2>1, <3>2
    <3> QED
      BY <1>1, <3>3 DEF Early, Deletion
  <2>4. CASE ~stateChanged(ev, row[r])
    <3>1. row[r].message = "pod deleted"
      BY <1>1, <2>4 DEF stateChanged
    <3>2. Answered(r)
      BY <2>2, <3>1 DEF Pursued
    <3> QED
      BY <2>2, <3>2, AnsweredStays
  <2> QED
    BY <2>3, <2>4
<1> QED
  BY <1>2, <1>3, QueueHolds

\* The runner that was read says that its pod was deleted, or its event does.
LEMMA UpdatedMessage ==
  ASSUME NEW ev, NEW saved \in RunnerRow, UpdateWorkflow(ev, saved).message = "pod deleted"
  PROVE  saved.message = "pod deleted" \/ ev.message = "pod deleted"
BY DEF UpdateWorkflow, RunnerRow

\* A deletion stays pursued.
LEMMA DeletedStays ==
  ASSUME StagesEnabled, IInv, Prefix, Carried, Pursued, [Next]_vars, NEW r \in Runner,
         pod'[r] = "deleted"
  PROVE  Answered(r)' \/ Queued(r)' \/ \E w \in StatusWorker : Early(w, r)'
<1>1. CASE pod[r] = "deleted"
  <2>1. Exists(r)
    BY <1>1 DEF IInv, Shape, Pods
  <2>2. Answered(r) \/ Queued(r) \/ \E w \in StatusWorker : Early(w, r)
    BY <1>1 DEF Pursued
  <2>3. ASSUME NEW w \in StatusWorker, Early(w, r)
        PROVE  Answered(r)' \/ Queued(r)' \/ Early(w, r)'
    BY <2>3, EarlyStays
  <2> QED
    BY <2>1, <2>2, <2>3, AnsweredStays, QueuedStays
<1>2. ASSUME NEW ev \in Messages(statusQ'), ev \in PodEvents(r, "deleted")
      PROVE  Queued(r)'
  <2>1. ev.runner = r /\ ev.message = "pod deleted"
    BY <1>2, DeletedEvents
  <2> QED
    BY <1>2, <2>1 DEF Queued
<1> QED
  BY <1>1, <1>2, QueueHolds

\* So does what the runners say,
LEMMA SeenStays ==
  ASSUME StagesEnabled, IInv, Prefix, Carried, Pursued, [Next]_vars, NEW r \in Runner,
         Exists(r)', row'[r].message = "pod deleted"
  PROVE  Answered(r)'
<1>1. Rows
  BY DEF IInv, Shape
<1>2. CASE row'[r] = row[r]
  <2>1. Exists(r) /\ row[r].message = "pod deleted"
    BY <1>2 DEF Exists
  <2> QED
    BY <2>1, AnsweredStays DEF Pursued
<1>3. ASSUME NEW w \in Worker, WriteRow(w), row'[r] # row[r] PROVE Answered(r)'
  <2>1. job[w].pc = "write" /\ row' = [row EXCEPT ![job[w].runner] = job[w].row]
    BY <1>3 DEF WriteRow
  <2>2. job[w].runner = r /\ Exists(r) /\ row'[r] = job[w].row
    BY <1>1, <1>3, <2>1, HeldWrite DEF IInv, Shape, Rows
  <2>3. Answered(r) \/ (w \in StatusWorker /\ Early(w, r))
    BY <2>1, <2>2 DEF Pursued
  <2>4. ASSUME w \in StatusWorker, Early(w, r) PROVE Answered(r)'
    <3>1. job'[w].pc = "reread"
      BY <1>3, <2>4, StatusWrites
    <3>2. ~Early(w, r)'
      BY <3>1 DEF Early
    <3>3. Crash => job'[w].pc = "idle"
      <4>1. Crash => job'[w] = Idle
        BY DEF Crash
      <4>2. Idle.pc = "idle"
        BY DEF Idle
      <4> QED
        BY <4>1, <4>2
    <3> QED
      BY <2>4, <3>1, <3>2, <3>3, EarlyStays
  <2> QED
    BY <2>2, <2>3, <2>4, AnsweredStays
<1>4. ASSUME NEW w \in StatusWorker, CreateRetry(w), row'[r] # row[r] PROVE FALSE
  <2>1. PICK new \in Runner, rec \in RunnerRow :
          rec.message = "" /\ row' = [row EXCEPT ![new] = rec]
    BY <1>4, CreateRetryRow
  <2> QED
    BY <1>1, <1>4, <2>1 DEF Rows
<1>5. ASSUME NEW w \in StatusWorker, SubmitFails(w), row'[r] # row[r] PROVE FALSE
  <2>1. PICK x \in Runner, new \in RunnerRow :
          new.message = "exit" /\ row' = [row EXCEPT ![x] = new]
    BY <1>5, SubmitFailsRow
  <2> QED
    BY <1>1, <1>5, <2>1 DEF Rows
<1> QED
  BY <1>2, <1>3, <1>4, <1>5, RowMoves

\* and what the workers and the user are about to write.
LEMMA HeldStays ==
  ASSUME StagesEnabled, IInv, Prefix, Carried, Pursued, [Next]_vars, NEW w \in Worker,
         NEW o \in Runner, job'[w].runner = o,
         job'[w].pc \in {"terminate", "compute", "write"}, job'[w].row.message = "pod deleted"
  PROVE  Answered(o)' \/ (w \in StatusWorker /\ Early(w, o)')
<1> DEFINE Goal == Answered(o)' \/ (w \in StatusWorker /\ Early(w, o)')
<1>1. w \in DOMAIN job /\ Rows
  BY DEF IInv, Shape, Jobs
<1>2. ASSUME job[w].pc \in {"terminate", "compute", "write"}
      PROVE  job[w].runner \in Runner /\ Exists(job[w].runner)
  BY <1>2, CreatorHoldsRunner DEF IInv, Shape
<1>3. ASSUME NEW r \in Runner, Exists(r), row[r].message = "pod deleted" PROVE Answered(r)'
  BY <1>3, AnsweredStays DEF Pursued
<1>4. ASSUME job'[w] = job[w] PROVE Goal
  <2>1. PICK r \in Runner : r = job[w].runner /\ Exists(r)
    BY <1>2, <1>4
  <2>2. Answered(r) \/ (w \in StatusWorker /\ Early(w, r))
    BY <1>4, <2>1 DEF Pursued
  <2>3. w \in StatusWorker /\ Early(w, r) => Early(w, r)'
    BY <1>4 DEF Early, Deletion
  <2> QED
    BY <1>4, <2>1, <2>2, <2>3, AnsweredStays
<1>5. ASSUME ComputeStages(w) PROVE Goal
  <2>1. job[w].pc = "compute"
    BY <1>5 DEF ComputeStages
  <2>2. PICK r \in Runner : r = job[w].runner /\ Exists(r)
    BY <1>2, <2>1
  <2>3. PICK saved : saved = job[w].row
    OBVIOUS
  <2>4. PICK stored \in RunnerRow : stored = row[r]
    BY <1>1 DEF Rows
  <2>5. PICK upd : upd = UpdateWorkflowStages(stored, saved.status, saved.podStatus, saved.message)
    OBVIOUS
  <2>6. upd \in RunnerRow
    <3>1. saved \in RunnerRow /\ saved.status \in Status
      BY <2>1, <2>3, HeldCompute DEF IInv, Shape
    <3>2. saved.podStatus \in PodPhase
      BY <3>1 DEF RunnerRow
    <3> QED
      BY <2>5, <3>1, <3>2, UpdateTyped
  <2>7. PICK rec : rec = [upd EXCEPT !.message = saved.message, !.finished = saved.finished]
    OBVIOUS
  <2>8. rec.message = saved.message
    BY <2>6, <2>7 DEF RunnerRow
  <2>9. job' = [job EXCEPT ![w] =
          [pc |-> "write", runner |-> r, ev |-> job[w].ev, base |-> stored, row |-> rec,
           final |-> job[w].final]]
    BY <1>5, <2>2, <2>3, <2>4, <2>5, <2>7 DEF ComputeStages
  <2>10. job'[w].row = rec /\ job'[w].runner = r
    BY <1>1, <2>9
  <2>11. Answered(r) \/ (w \in StatusWorker /\ Early(w, r))
    BY <2>1, <2>2, <2>3, <2>8, <2>10 DEF Pursued
  <2>12. ASSUME w \in StatusWorker, Early(w, r) PROVE Early(w, r)'
    <3>1. job'[w].pc = "write" /\ job'[w].ev = job[w].ev
      BY <1>1, <2>9
    <3> QED
      BY <2>10, <2>12, <3>1 DEF Early, Deletion
  <2> QED
    BY <2>2, <2>10, <2>11, <2>12, AnsweredStays
<1>6. ASSUME w \in StatusWorker, NEW ev, NEW x, x = UpdateWorkflow(ev, row[ev.runner]),
             ev \in StatusEvent, Exists(ev.runner),
             job'[w] = [pc |-> "compute", runner |-> ev.runner, ev |-> ev, row |-> x,
                        final |-> Finished(ev.runner)]
      PROVE  Goal
  <2>1. PICK r \in Runner : r = ev.runner
    BY <1>6 DEF StatusEvent
  <2>2. row[r] \in RunnerRow
    BY <1>1 DEF Rows
  <2>6. PICK k : k = [pc |-> "compute", runner |-> r, ev |-> ev, row |-> x, final |-> Finished(r)]
    OBVIOUS
  <2>7. k.pc = "compute" /\ k.runner = r /\ k.ev = ev /\ k.row = x
    BY <2>6
  <2>8. job'[w] = k
    BY <1>6, <2>1, <2>6
  <2>3. row[r].message = "pod deleted" \/ ev.message = "pod deleted"
    <3>1. x = UpdateWorkflow(ev, row[r]) /\ x.message = "pod deleted"
      BY <1>6, <2>1, <2>7, <2>8
    <3> QED
      BY <2>2, <3>1, UpdatedMessage
  <2>4. job'[w].pc = "compute" /\ job'[w].runner = r /\ job'[w].ev = ev
    BY <2>7, <2>8
  <2>5. CASE ev.message = "pod deleted"
    BY <1>6, <2>4, <2>5 DEF Early, Deletion
  <2> QED
    BY <1>3, <1>6, <2>1, <2>3, <2>4, <2>5
<1>7. ASSUME BeginComplete(w) PROVE Goal
  <2>1. completeQ # <<>> /\ completeQ \in Seq(Known(CompleteEvent))
    BY <1>7 DEF BeginComplete, IInv, Shape, Queues
  <2>2. PICK ev \in Known(CompleteEvent) : ev = Head(completeQ)
    <3>1. Head(completeQ) \in Known(CompleteEvent)
      BY <2>1, HeadIn
    <3> QED
      BY <3>1
  <2>3. PICK r \in Runner : r = ev.runner /\ Exists(r)
    BY DEF Known, CompleteEvent
  <2>4. PICK saved \in RunnerRow : saved = row[r]
    BY <1>1 DEF Rows
  <2>5. CASE saved.status \in Terminal
    <3>1. job' = [job EXCEPT ![w] = [pc |-> "announce", runner |-> r, ev |-> ev]]
      BY <1>7, <2>2, <2>3, <2>4, <2>5 DEF BeginComplete
    <3>2. job'[w].pc = "announce"
      BY <1>1, <3>1
    <3> QED
      BY <3>2
  <2>6. CASE saved.status \notin Terminal
    <3>1. PICK x : x = [saved EXCEPT !.status = IF ev.failed THEN "Failed" ELSE "Succeeded"]
      OBVIOUS
    <3>2. job' = [job EXCEPT ![w] = [pc |-> "compute", runner |-> r, ev |-> ev, row |-> x,
                                     final |-> Finished(r)]]
      BY <1>7, <2>2, <2>3, <2>4, <2>6, <3>1 DEF BeginComplete, StartUpdate
    <3>3. job'[w].runner = r /\ job'[w].row = x
      BY <1>1, <3>2
    <3>4. x.message = saved.message
      BY <3>1 DEF RunnerRow
    <3> QED
      BY <1>3, <2>3, <2>4, <3>3, <3>4
  <2> QED
    BY <2>5, <2>6
<1>8. ASSUME w = User, NEW r \in Runner, BeginCancel(r) PROVE Goal
  <2>1. job' = [job EXCEPT ![w] = [pc |-> "terminate", runner |-> r, row |-> row[r]]] /\ Exists(r)
    BY <1>8 DEF BeginCancel
  <2>2. job'[w].runner = r /\ job'[w].row = row[r]
    BY <1>1, <2>1
  <2> QED
    BY <1>3, <2>1, <2>2
<1>9. ASSUME w = User, Terminate PROVE Goal
  <2>1. job[w].pc = "terminate"
    BY <1>9 DEF Terminate
  <2>2. PICK r \in Runner : r = job[w].runner /\ Exists(r)
    BY <1>2, <2>1
  <2>3. PICK saved \in RunnerRow : saved = job[w].row
    BY <2>1, HeldTerminate DEF IInv, Shape
  <2>4. PICK force \in BOOLEAN : WriteCancel(force)
    BY <1>9 DEF Terminate
  <2>5. PICK x : x = Cancelled(saved, force)
    OBVIOUS
  <2>6. job' = [job EXCEPT ![w] = Idle]
        \/ job' = [job EXCEPT ![w] = [pc |-> "compute", runner |-> r, ev |-> {}, row |-> x,
                                      final |-> Finished(r)]]
    BY <1>9, <2>2, <2>3, <2>4, <2>5 DEF WriteCancel, StartUpdate
  <2>7. CASE job' = [job EXCEPT ![w] = Idle]
    BY <1>1, <2>7 DEF Idle
  <2>8. CASE job' = [job EXCEPT ![w] = [pc |-> "compute", runner |-> r, ev |-> {}, row |-> x,
                                        final |-> Finished(r)]]
    <3>1. job'[w].runner = r /\ job'[w].row = x
      BY <1>1, <2>8
    <3>2. saved.message = "pod deleted"
      BY <2>5, <3>1 DEF Cancelled, RunnerRow
    <3>3. Answered(r)
      BY <1>9, <2>1, <2>2, <2>3, <3>2, WorkerAssumption DEF Pursued
    <3> QED
      BY <2>2, <3>1, <3>3, AnsweredStays
  <2> QED
    BY <2>6, <2>7, <2>8
<1>10. ASSUME Announce(w) \/ (w = User /\ TerminateFails) \/ Crash PROVE FALSE
  <2>1. job'[w] = Idle
    BY <1>1, <1>10 DEF Announce, TerminateFails, Crash
  <2>2. Idle.pc = "idle"
    BY DEF Idle
  <2> QED
    BY <2>1, <2>2
<1>11. ASSUME DropComplete(w) PROVE Goal
  BY <1>4, <1>11 DEF DropComplete
<1>12. CASE w \in StatusWorker
  <2> HIDE DEF Goal
  <2>1. Goal
    BY <1>4, <1>5, <1>6, <1>12, StatusJob DEF Busy
  <2> QED
    BY <2>1 DEF Goal
<1>13. CASE w \notin StatusWorker
  <2>1. ASSUME WriteRow(w) PROVE FALSE
    <3>1. job'[w].pc \in {"announce", "idle"}
      BY <1>1, <1>13, <2>1 DEF WriteRow, Idle
    <3> QED
      BY <3>1
  <2> HIDE DEF Goal
  <2>2. CompleteStep(w) => Goal
    BY <1>7, <1>10, <1>11 DEF CompleteStep
  <2>3. w = User /\ CancelStage => Goal
    BY <1>8, <1>9, <1>10 DEF CancelStage
  <2>4. Goal
    BY <1>4, <1>5, <1>10, <1>13, <2>1, <2>2, <2>3, Moves
  <2> QED
    BY <2>4 DEF Goal
<1> QED
  BY <1>12, <1>13

\* Every step keeps deletions pursued.
LEMMA PursuedStep ==
  ASSUME StagesEnabled, IInv, Prefix, Carried, Pursued, [Next]_vars
  PROVE  Pursued'
<1>1. ASSUME NEW r \in Runner, pod'[r] = "deleted"
      PROVE  Answered(r)' \/ Queued(r)' \/ \E w \in StatusWorker : Early(w, r)'
  BY <1>1, DeletedStays
<1>2. ASSUME NEW r \in Runner, Exists(r)', row'[r].message = "pod deleted"
      PROVE  Answered(r)'
  BY <1>2, SeenStays
<1>3. ASSUME NEW w \in Worker, NEW r \in Runner, job'[w].pc \in {"terminate", "compute", "write"},
             job'[w].runner = r, job'[w].row.message = "pod deleted"
      PROVE  Answered(r)' \/ (w \in StatusWorker /\ Early(w, r)')
  BY <1>3, HeldStays
<1> QED
  BY <1>1, <1>2, <1>3 DEF Pursued

\* Nothing is deleted at first.
LEMMA InitPursued ==
  ASSUME Init
  PROVE  Prefix /\ Carried /\ Pursued
<1>1. statusQ = <<>> /\ \A w \in Worker : job[w] = Idle
  BY DEF Init
<1>2. Messages(statusQ) = {}
  BY <1>1 DEF Messages
<1>3. \A w \in Worker : job[w].pc = "idle"
  BY <1>1 DEF Idle
<1>4. \A r \in Runner : row[r].message = "" /\ (Exists(r) => r = 1)
  BY DEF Init, NoRow, StartingRows, Exists
<1>5. \A r \in Runner : pod[r] # "deleted"
  BY DEF Init
<1>6. Prefix
  <2>1. \A y \in 1 .. 1 : y = 1
    OBVIOUS
  <2> QED
    BY <1>4, <2>1 DEF Prefix
<1>7. Carried
  BY <1>2, <1>3 DEF Carried, Busy, Worker
<1>8. Pursued
  BY <1>3, <1>4, <1>5 DEF Pursued
<1> QED
  BY <1>6, <1>7, <1>8

\* At rest nothing is under way, so what was pursued has been answered.
LEMMA PursuedAtRest == IInv /\ Pursued => DeletedIsRetried
<1> SUFFICES ASSUME IInv, Pursued, AtRest, NEW r \in Runner \ (torn \cup dropped),
                    pod[r] = "deleted", row[r].status = "Failed"
             PROVE  Retried(r)
  BY DEF DeletedIsRetried, Retried
<1>1. Messages(statusQ) = {}
  BY DEF AtRest, Messages
<1>2. \A w \in StatusWorker : job[w].pc = "idle"
  BY DEF AtRest, Busy, Worker
<1> QED
  BY <1>1, <1>2 DEF Pursued, Answered, Queued, Early, Late, Settled

\* Once nothing is under way, a failed runner whose pod was deleted has been retried by a
\* later runner or its original has no retry left, whatever order the events, the
\* reports, the cancellation and the crashes came in, unless its retry was given up or
\* a worker wrote it that had not seen an earlier write (CdHandler.go,
\* HandleCdStageReTrigger).
THEOREM DeletedRetried == StagesEnabled => (Spec => []DeletedIsRetried)
<1> SUFFICES ASSUME StagesEnabled PROVE Spec => []DeletedIsRetried
  OBVIOUS
<1> DEFINE Inv == Prefix /\ Carried /\ Pursued
<1>1. Init => Inv
  BY InitPursued
<1>2. IInv /\ Inv /\ [Next]_vars => Inv'
  BY PrefixStep, CarriedStep, PursuedStep
<1>3. IInv /\ Inv => DeletedIsRetried
  BY PursuedAtRest
<1> HIDE DEF Inv
<1> QED
  BY <1>1, <1>2, <1>3, Invariance, PTL DEF Spec
-----------------------------------------------------------------------------
(***************************************************************************)
(* A stage at rest.  With one status worker the events of a pod are        *)
(* applied in the order they were published, so the rows are opened        *)
(* (Started) before they are closed: an end that is applied first leaves   *)
(* "RUNNING" in them, and so does a start that is applied last.            *)
(***************************************************************************)
OneStatusWorker == \A v, w \in StatusWorker : v = w

\* The rows once the pod was seen running, and once it was seen to have ended.
Started(x) == x.prep # "RUNNING" /\ x.exec # "NOT_STARTED" /\ x.pod \notin {"NOT_STARTED", "UNKNOWN"}
Closed(x) ==
  /\ x.status \in Terminal
  /\ x.status = "CANCELLED" \/ "RUNNING" \notin {x.prep, x.exec, x.pod}

Starts(ev) == ev.phase = "Running"
Held(w, r) == Busy(w) /\ job[w].ev.runner = r
Unwritten(w) == job[w].pc \in {"compute", "write"}

\* What is still to be applied of the events of r, and what may come again.
StartNear(r) ==
  \/ \E ev \in Messages(statusQ) : ev.runner = r /\ Starts(ev)
  \/ \E w \in StatusWorker : Held(w, r) /\ Starts(job[w].ev)
StartPending(r) ==
  \/ \E ev \in Messages(statusQ) : ev.runner = r /\ Starts(ev)
  \/ \E w \in StatusWorker : Held(w, r) /\ Unwritten(w) /\ Starts(job[w].ev)
EndPending(r) ==
  \/ \E ev \in Messages(statusQ) : ev.runner = r /\ ~Starts(ev)
  \/ \E w \in StatusWorker : Held(w, r) /\ Unwritten(w) /\ ~Starts(job[w].ev)

\* An event tells of a pod that is, or was, in the state it names.
TellsOfPod(ev) ==
  /\ ev.podStatus = ev.phase /\ ev.phase # "Pending"
  /\ ev.finished = ~Starts(ev)
  /\ pod[ev.runner] \notin {"none", "pending"}
  /\ ~Starts(ev) => pod[ev.runner] \in Ended
  /\ ev.phase = "Succeeded" => pod[ev.runner] = "succeeded"
Told ==
  /\ \A ev \in Messages(statusQ) : TellsOfPod(ev)
  /\ \A w \in StatusWorker : Busy(w) => TellsOfPod(job[w].ev)

\* The events of a pod are in the order of its states, and what is in hand comes first.
Ordered(q) ==
  \A i, j \in 1 .. Len(q) : (i < j /\ q[i].runner = q[j].runner /\ Starts(q[j])) => Starts(q[i])
ComesFirst(e, q) ==
  \A ev \in Messages(q) : (ev.runner = e.runner /\ Starts(ev)) => Starts(e)
InOrder ==
  /\ Ordered(statusQ)
  /\ \A w \in StatusWorker : Busy(w) => ComesFirst(job[w].ev, statusQ)

\* A status worker updates a runner with what its event says; others say how the stage
\* ended.  A new runner has no pod before it is submitted.
Faithful ==
  /\ \A w \in StatusWorker :
       /\ job[w].pc = "compute" =>
            /\ job[w].row.podStatus = job[w].ev.phase
            /\ job[w].row.status \in {job[w].ev.phase, "CANCELLED"}
       /\ job[w].pc = "submit" => pod[job[w].runner] = "none"
  /\ \A w \in Worker \ StatusWorker :
       job[w].pc = "compute" => job[w].row.status \in {"Succeeded", "Failed", "CANCELLED"}

\* An event in the topic says the pod succeeded, and none before it that it ran.
Unopened(q, r) ==
  \E j \in 1 .. Len(q) :
    /\ q[j].runner = r /\ q[j].phase = "Succeeded"
    /\ \A i \in 1 .. j - 1 : ~(q[i].runner = r /\ Starts(q[i]))

\* A pod that was running has been seen so before anything else, or will be.
StartedFirst(r) ==
  /\ row[r].podStatus = "Running" => Started(row[r])
  /\ \A w \in Worker \ StatusWorker :
       (/\ job[w].pc \in {"terminate", "compute"} /\ job[w].runner = r
        /\ job[w].row.podStatus = "Running") => Started(row[r])
  /\ pod[r] \in {"running", "succeeded"} => Started(row[r]) \/ StartPending(r)
  /\ \A w \in StatusWorker :
       Held(w, r) /\ (job[w].ev.phase = "Succeeded" \/ (Starts(job[w].ev) /\ ~Unwritten(w))) =>
         Started(row[r])
  /\ Unopened(statusQ, r) =>
       Started(row[r]) \/ \E w \in StatusWorker : Held(w, r) /\ Unwritten(w) /\ Starts(job[w].ev)

\* What is about to be written: an update opens the rows if it says the pod runs,
\* closes them if it says it ended, and otherwise leaves them so.
Writes(w) ==
  LET x == job[w].base
      y == job[w].row
  IN /\ Started(x) => Started(y)
     /\ y.podStatus = "Running" => Started(y)
     /\ w \in StatusWorker =>
          IF Starts(job[w].ev) THEN Started(y) ELSE Closed(y)
     /\ Closed(x) /\ (w \in StatusWorker => ~Starts(job[w].ev)) => Closed(y)

\* The runner is marked finished, or somebody has read that it was.
Live(r) == pod[r] # "none" \/ \E w \in StatusWorker : job[w].pc = "submit" /\ job[w].runner = r
FinishSeen(r) ==
  \/ row[r].finished
  \/ \E w \in Worker :
       /\ job[w].pc \in {"terminate", "compute", "write"} /\ job[w].runner = r /\ job[w].row.finished
       /\ w \in StatusWorker => Starts(job[w].ev)

Over(r) == pod[r] \in Ended /\ ~StartNear(r) /\ Closed(row[r])

\* A runner that no worker has torn.
RunnerInv(r) ==
  /\ StartedFirst(r)
  /\ \A w \in Worker : job[w].pc = "write" /\ job[w].runner = r => Writes(w)
  /\ pod[r] \in Ended => EndPending(r) \/ Over(r)
  /\ Live(r) /\ FinishSeen(r) => Over(r)

SettleInv == Told /\ InOrder /\ Faithful /\ \A r \in Runner \ torn : RunnerInv(r)

\* With the one status worker s, a runner that is not torn.
Settling(s, r) ==
  /\ StagesEnabled /\ IInv /\ Carried /\ StatusWorker = {s}
  /\ Told /\ InOrder /\ Faithful
  /\ r \in Runner /\ r \notin torn /\ RunnerInv(r)

\* A reported success is with the workflow DAG, in the topic or with a worker.
Reported ==
  /\ \A w \in CompleteWorker : Busy(w) => job[w].runner = job[w].ev.runner
  /\ \A r \in Runner : report[r] = "success" =>
       \/ r \in announced
       \/ \E ev \in Messages(completeQ) : ev.runner = r /\ ~ev.failed
       \/ \E w \in CompleteWorker : Held(w, r) /\ ~job[w].ev.failed
-----------------------------------------------------------------------------
(* What one update does to the rows *)

\* The rows of a runner once the pod's row was updated.
LEMMA PodRowUpdated ==
  ASSUME NEW rows \in RunnerRow, NEW p \in PodPhase
  PROVE  \E x \in StageStatus : \E base \in RunnerRow :
           /\ x = UpdatedPodRow(rows.pod, p) /\ base = [rows EXCEPT !.pod = x]
           /\ base.status = rows.status /\ base.prep = rows.prep
           /\ base.exec = rows.exec /\ base.pod = x
<1>1. PICK x \in StageStatus : x = UpdatedPodRow(rows.pod, p)
  BY DEF UpdatedPodRow, StageStatus, RunnerRow
<1>2. PICK base : base = [rows EXCEPT !.pod = x]
  OBVIOUS
<1>3. /\ base \in RunnerRow /\ base.status = rows.status /\ base.prep = rows.prep
      /\ base.exec = rows.exec /\ base.pod = x
  BY <1>2 DEF RunnerRow
<1> QED
  BY <1>1, <1>2, <1>3

\* An update that says the pod is pending.
LEMMA UpdatedPending ==
  ASSUME StagesEnabled, NEW rows \in RunnerRow, NEW s, NEW m, NEW new,
         new = UpdateWorkflowStages(rows, s, "Pending", m),
         NEW stage, stage = ConvertStatusToDevtronStatus(s, m)
  PROVE  /\ new.podStatus = UpdatedPodStatus(rows.podStatus, "Pending")
         /\ new.status = ComputeWorkflowStatus(rows.status, s, "WaitingToStart")
         /\ new.prep = IF IsTerminal(rows.prep) \/ stage = "NOT_STARTED" THEN rows.prep ELSE stage
         /\ new.exec = rows.exec
         /\ s \in Terminal => new.pod = stage
<1>0. "Pending" \in PodPhase
  BY DEF PodPhase
<1>1. PICK x \in StageStatus : \E base \in RunnerRow :
           /\ x = UpdatedPodRow(rows.pod, "Pending") /\ base = [rows EXCEPT !.pod = x]
           /\ base.status = rows.status /\ base.prep = rows.prep
           /\ base.exec = rows.exec /\ base.pod = x
  BY <1>0, PodRowUpdated
<1>2. PICK base \in RunnerRow :
           /\ x = UpdatedPodRow(rows.pod, "Pending") /\ base = [rows EXCEPT !.pod = x]
           /\ base.status = rows.status /\ base.prep = rows.prep
           /\ base.exec = rows.exec /\ base.pod = x
  BY <1>1
<1>3. PICK st : st = ComputeWorkflowStatus(base.status, s, "WaitingToStart")
  OBVIOUS
<1>4. PICK pr : pr = IF IsTerminal(base.prep) \/ stage = "NOT_STARTED" THEN base.prep ELSE stage
  OBVIOUS
<1>5. PICK po : po = IF s \in Terminal THEN stage ELSE base.pod
  OBVIOUS
<1>6. PICK ps : ps = UpdatedPodStatus(rows.podStatus, "Pending")
  OBVIOUS
<1>7. UpdatedWorkflowRows(base, s, "Pending", m) =
        [base EXCEPT !.status = ComputeWorkflowStatus(base.status, s, "WaitingToStart"),
                     !.prep = IF IsTerminal(base.prep) \/ stage = "NOT_STARTED" THEN base.prep ELSE stage,
                     !.pod = IF s \in Terminal THEN stage ELSE base.pod]
  BY DEF UpdatedWorkflowRows
<1>8. UpdatedWorkflowRows(base, s, "Pending", m) =
        [base EXCEPT !.status = st, !.prep = pr, !.pod = po]
  BY Zenon, <1>3, <1>4, <1>5, <1>7
<1>9. new = [[base EXCEPT !.status = st, !.prep = pr, !.pod = po] EXCEPT !.podStatus = ps]
  BY <1>2, <1>6, <1>8 DEF UpdateWorkflowStages
<1>10. /\ new.podStatus = ps /\ new.status = st /\ new.prep = pr /\ new.exec = base.exec
       /\ new.pod = po
  BY <1>9 DEF RunnerRow
<1> QED
  BY <1>2, <1>3, <1>4, <1>5, <1>6, <1>10

\* An update that says the pod is running.
LEMMA UpdatedRunning ==
  ASSUME StagesEnabled, NEW rows \in RunnerRow, NEW s, NEW m, NEW new,
         new = UpdateWorkflowStages(rows, s, "Running", m),
         NEW stage, stage = ConvertStatusToDevtronStatus(s, m)
  PROVE  /\ new.podStatus = UpdatedPodStatus(rows.podStatus, "Running")
         /\ new.status = ComputeWorkflowStatus(rows.status, s, "Running")
         /\ new.prep = IF rows.prep = "RUNNING" THEN "SUCCEEDED" ELSE rows.prep
         /\ new.exec = IF rows.exec = "NOT_STARTED" THEN "RUNNING"
                       ELSE IF rows.exec = "RUNNING" /\ IsTerminal(stage) THEN stage ELSE rows.exec
         /\ new.pod = UpdatedPodRow(rows.pod, "Running")
<1>0. "Running" \in PodPhase
  BY DEF PodPhase
<1>1. PICK x \in StageStatus : \E base \in RunnerRow :
           /\ x = UpdatedPodRow(rows.pod, "Running") /\ base = [rows EXCEPT !.pod = x]
           /\ base.status = rows.status /\ base.prep = rows.prep
           /\ base.exec = rows.exec /\ base.pod = x
  BY <1>0, PodRowUpdated
<1>2. PICK base \in RunnerRow :
           /\ x = UpdatedPodRow(rows.pod, "Running") /\ base = [rows EXCEPT !.pod = x]
           /\ base.status = rows.status /\ base.prep = rows.prep
           /\ base.exec = rows.exec /\ base.pod = x
  BY <1>1
<1>3. PICK st : st = ComputeWorkflowStatus(base.status, s, "Running")
  OBVIOUS
<1>4. PICK pr : pr = IF base.prep = "RUNNING" THEN "SUCCEEDED" ELSE base.prep
  OBVIOUS
<1>5. PICK e : e = CASE base.exec = "NOT_STARTED" -> "RUNNING"
                     [] base.exec = "RUNNING" /\ IsTerminal(stage) -> stage
                     [] OTHER -> base.exec
  OBVIOUS
<1>6. PICK ps : ps = UpdatedPodStatus(rows.podStatus, "Running")
  OBVIOUS
<1>7. UpdatedWorkflowRows(base, s, "Running", m) =
        [base EXCEPT !.status = ComputeWorkflowStatus(base.status, s, "Running"),
                     !.prep = IF base.prep = "RUNNING" THEN "SUCCEEDED" ELSE base.prep,
                     !.exec = CASE base.exec = "NOT_STARTED" -> "RUNNING"
                                [] base.exec = "RUNNING" /\ IsTerminal(stage) -> stage
                                [] OTHER -> base.exec]
  BY DEF UpdatedWorkflowRows
<1>8. UpdatedWorkflowRows(base, s, "Running", m) =
        [base EXCEPT !.status = st, !.prep = pr, !.exec = e]
  BY Zenon, <1>3, <1>4, <1>5, <1>7
<1>9. new = [[base EXCEPT !.status = st, !.prep = pr, !.exec = e] EXCEPT !.podStatus = ps]
  BY <1>2, <1>6, <1>8 DEF UpdateWorkflowStages
<1>10. /\ new.podStatus = ps /\ new.status = st /\ new.prep = pr /\ new.exec = e
       /\ new.pod = base.pod
  BY <1>9 DEF RunnerRow
<1>11. e = IF base.exec = "NOT_STARTED" THEN "RUNNING"
           ELSE IF base.exec = "RUNNING" /\ IsTerminal(stage) THEN stage ELSE base.exec
  BY <1>5
<1> QED
  BY <1>2, <1>3, <1>4, <1>6, <1>10, <1>11

\* An update that says the pod succeeded.
LEMMA UpdatedSucceeded ==
  ASSUME StagesEnabled, NEW rows \in RunnerRow, NEW s, NEW m, NEW new,
         new = UpdateWorkflowStages(rows, s, "Succeeded", m)
  PROVE  /\ new.podStatus = UpdatedPodStatus(rows.podStatus, "Succeeded")
         /\ new.status = ComputeWorkflowStatus(rows.status, s, "Succeeded")
         /\ new.prep = rows.prep
         /\ new.exec = IF rows.exec = "RUNNING" THEN "SUCCEEDED" ELSE rows.exec
         /\ new.pod = UpdatedPodRow(rows.pod, "Succeeded")
<1>0. "Succeeded" \in PodPhase
  BY DEF PodPhase
<1>1. PICK x \in StageStatus : \E base \in RunnerRow :
           /\ x = UpdatedPodRow(rows.pod, "Succeeded") /\ base = [rows EXCEPT !.pod = x]
           /\ base.status = rows.status /\ base.prep = rows.prep
           /\ base.exec = rows.exec /\ base.pod = x
  BY <1>0, PodRowUpdated
<1>2. PICK base \in RunnerRow :
           /\ x = UpdatedPodRow(rows.pod, "Succeeded") /\ base = [rows EXCEPT !.pod = x]
           /\ base.status = rows.status /\ base.prep = rows.prep
           /\ base.exec = rows.exec /\ base.pod = x
  BY <1>1
<1>3. PICK st : st = ComputeWorkflowStatus(base.status, s, "Succeeded")
  OBVIOUS
<1>4. PICK e : e = IF base.exec = "RUNNING" THEN "SUCCEEDED" ELSE base.exec
  OBVIOUS
<1>5. PICK ps : ps = UpdatedPodStatus(rows.podStatus, "Succeeded")
  OBVIOUS
<1>6. UpdatedWorkflowRows(base, s, "Succeeded", m) =
        [base EXCEPT !.status = ComputeWorkflowStatus(base.status, s, "Succeeded"),
                     !.exec = IF base.exec = "RUNNING" THEN "SUCCEEDED" ELSE base.exec]
  BY DEF UpdatedWorkflowRows
<1>7. UpdatedWorkflowRows(base, s, "Succeeded", m) = [base EXCEPT !.status = st, !.exec = e]
  BY Zenon, <1>3, <1>4, <1>6
<1>8. new = [[base EXCEPT !.status = st, !.exec = e] EXCEPT !.podStatus = ps]
  BY <1>2, <1>5, <1>7 DEF UpdateWorkflowStages
<1>9. /\ new.podStatus = ps /\ new.status = st /\ new.prep = base.prep /\ new.exec = e
      /\ new.pod = base.pod
  BY <1>8 DEF RunnerRow
<1> QED
  BY <1>2, <1>3, <1>4, <1>5, <1>9

\* An update that says the pod failed.
LEMMA UpdatedFailed ==
  ASSUME StagesEnabled, NEW rows \in RunnerRow, NEW s, NEW p \in {"Failed", "Error"}, NEW m, NEW new,
         new = UpdateWorkflowStages(rows, s, p, m),
         NEW stage, stage = ConvertStatusToDevtronStatus(s, m),
         NEW failed, failed = ComputeWorkflowStatus(rows.status, s, "Failed"),
         NEW execFails, execFails = (rows.exec = "RUNNING" /\ IsTerminal(stage)),
         NEW prepFails, prepFails = (~IsTerminal(rows.prep) /\ IsTerminal(stage))
  PROVE  /\ new.podStatus = UpdatedPodStatus(rows.podStatus, p)
         /\ new.status = IF execFails \/ prepFails THEN Cause(stage, failed) ELSE failed
         /\ new.prep = IF prepFails THEN stage ELSE rows.prep
         /\ new.exec = IF execFails THEN stage ELSE rows.exec
         /\ new.pod = UpdatedPodRow(rows.pod, p)
<1>0. p \in PodPhase
  BY DEF PodPhase
<1>1. PICK x \in StageStatus : \E base \in RunnerRow :
           /\ x = UpdatedPodRow(rows.pod, p) /\ base = [rows EXCEPT !.pod = x]
           /\ base.status = rows.status /\ base.prep = rows.prep
           /\ base.exec = rows.exec /\ base.pod = x
  BY <1>0, PodRowUpdated
<1>2. PICK base \in RunnerRow :
           /\ x = UpdatedPodRow(rows.pod, p) /\ base = [rows EXCEPT !.pod = x]
           /\ base.status = rows.status /\ base.prep = rows.prep
           /\ base.exec = rows.exec /\ base.pod = x
  BY <1>1
<1>3. PICK st : st = IF execFails \/ prepFails THEN Cause(stage, failed) ELSE failed
  OBVIOUS
<1>4. PICK e : e = IF execFails THEN stage ELSE base.exec
  OBVIOUS
<1>5. PICK pr : pr = IF prepFails THEN stage ELSE base.prep
  OBVIOUS
<1>6. PICK ps : ps = UpdatedPodStatus(rows.podStatus, p)
  OBVIOUS
<1>7. UpdatedWorkflowRows(base, s, p, m) =
        [base EXCEPT
           !.status = IF (base.exec = "RUNNING" /\ IsTerminal(stage))
                         \/ (~IsTerminal(base.prep) /\ IsTerminal(stage))
                      THEN Cause(stage, ComputeWorkflowStatus(base.status, s, "Failed"))
                      ELSE ComputeWorkflowStatus(base.status, s, "Failed"),
           !.exec = IF base.exec = "RUNNING" /\ IsTerminal(stage) THEN stage ELSE base.exec,
           !.prep = IF ~IsTerminal(base.prep) /\ IsTerminal(stage) THEN stage ELSE base.prep]
  BY DEF UpdatedWorkflowRows
<1>8. st = IF (base.exec = "RUNNING" /\ IsTerminal(stage))
              \/ (~IsTerminal(base.prep) /\ IsTerminal(stage))
           THEN Cause(stage, ComputeWorkflowStatus(base.status, s, "Failed"))
           ELSE ComputeWorkflowStatus(base.status, s, "Failed")
  BY Zenon, <1>2, <1>3
<1>9. e = IF base.exec = "RUNNING" /\ IsTerminal(stage) THEN stage ELSE base.exec
  BY Zenon, <1>2, <1>4
<1>10. pr = IF ~IsTerminal(base.prep) /\ IsTerminal(stage) THEN stage ELSE base.prep
  BY Zenon, <1>2, <1>5
<1>11. UpdatedWorkflowRows(base, s, p, m) = [base EXCEPT !.status = st, !.exec = e, !.prep = pr]
  BY Zenon, <1>7, <1>8, <1>9, <1>10
<1>12. new = [[base EXCEPT !.status = st, !.exec = e, !.prep = pr] EXCEPT !.podStatus = ps]
  BY <1>2, <1>6, <1>11 DEF UpdateWorkflowStages
<1>13. /\ new.podStatus = ps /\ new.status = st /\ new.prep = pr /\ new.exec = e
       /\ new.pod = base.pod
  BY <1>12 DEF RunnerRow
<1> QED
  BY Zenon, <1>2, <1>3, <1>4, <1>5, <1>6, <1>13

\* How an update opens and closes the rows.
LEMMA UpdateSettles ==
  ASSUME StagesEnabled, NEW rows \in RunnerRow, NEW s, NEW p \in PodPhase, NEW m,
         NEW new, new = UpdateWorkflowStages(rows, s, p, m)
  PROVE  /\ p = "Running" => Started(new)
         /\ new.podStatus = "Running" => p = "Running"
         /\ (Started(rows) /\ (p = "Pending" => s \in {"Succeeded", "Failed", "CANCELLED"})) => Started(new)
         /\ (p \in {"Failed", "Error"} /\ s \in {"Failed", "Error", "CANCELLED"}) => Closed(new)
         /\ (p = "Succeeded" /\ s \in {"Succeeded", "CANCELLED"} /\ Started(rows)) => Closed(new)
         /\ (/\ Closed(rows) /\ (p = "Running" => Started(rows))
             /\ (p = "Pending" => s \in {"Succeeded", "Failed", "CANCELLED"})) => Closed(new)
<1>1. PICK stage : stage = ConvertStatusToDevtronStatus(s, m)
  OBVIOUS
<1>2. /\ s \in {"Succeeded", "Failed", "Error", "CANCELLED"} => IsTerminal(stage)
      /\ s \in {"Failed", "Error"} => stage \in {"FAILED", "TIMEOUT"}
      /\ s = "CANCELLED" => stage = "ABORTED"
      /\ s = "Succeeded" => stage = "SUCCEEDED"
  BY <1>1 DEF ConvertStatusToDevtronStatus, IsTerminal
<1>3. /\ rows.prep \in StageStatus /\ rows.exec \in StageStatus /\ rows.pod \in StageStatus
      /\ rows.podStatus \in PodPhase
      /\ p \in {"Pending", "Running", "Succeeded", "Failed", "Error"}
  BY DEF RunnerRow, PodPhase
<1>5. CASE p = "Pending"
  <2>1. /\ new.podStatus = UpdatedPodStatus(rows.podStatus, "Pending")
        /\ new.status = ComputeWorkflowStatus(rows.status, s, "WaitingToStart")
        /\ new.prep = IF IsTerminal(rows.prep) \/ stage = "NOT_STARTED" THEN rows.prep ELSE stage
        /\ new.exec = rows.exec
        /\ s \in Terminal => new.pod = stage
    BY <1>1, <1>5, UpdatedPending
  <2>2. new.podStatus # "Running" \/ rows.podStatus = "Running"
    BY <2>1 DEF UpdatedPodStatus
  <2>3. new.podStatus # "Running"
    BY <2>1 DEF UpdatedPodStatus, Terminal
  <2>4. ASSUME s \in {"Succeeded", "Failed", "CANCELLED"}
        PROVE  /\ IsTerminal(stage) /\ new.pod = stage /\ new.exec = rows.exec
               /\ new.prep = IF IsTerminal(rows.prep) THEN rows.prep ELSE stage
    BY <1>2, <2>1, <2>4 DEF Terminal, IsTerminal
  <2>5. ASSUME Started(rows), s \in {"Succeeded", "Failed", "CANCELLED"} PROVE Started(new)
    BY <2>4, <2>5 DEF Started, IsTerminal
  <2>6. ASSUME Closed(rows), s \in {"Succeeded", "Failed", "CANCELLED"} PROVE Closed(new)
    <3>1. new.status = rows.status
      BY <2>1, <2>6 DEF Closed, ComputeWorkflowStatus
    <3> QED
      BY <2>4, <2>6, <3>1 DEF Closed, IsTerminal
  <2> QED
    BY <1>5, <2>3, <2>5, <2>6
<1>6. CASE p = "Running"
  <2>1. /\ new.status = ComputeWorkflowStatus(rows.status, s, "Running")
        /\ new.prep = IF rows.prep = "RUNNING" THEN "SUCCEEDED" ELSE rows.prep
        /\ new.exec = IF rows.exec = "NOT_STARTED" THEN "RUNNING"
                      ELSE IF rows.exec = "RUNNING" /\ IsTerminal(stage) THEN stage ELSE rows.exec
        /\ new.pod = UpdatedPodRow(rows.pod, "Running")
    BY <1>1, <1>6, UpdatedRunning
  <2>2. new.pod = IF rows.pod \in {"NOT_STARTED", "UNKNOWN"} THEN "RUNNING" ELSE rows.pod
    BY <2>1 DEF UpdatedPodRow
  <2>3. Started(new)
    BY <1>3, <2>1, <2>2 DEF Started, IsTerminal
  <2>4. ASSUME Closed(rows), Started(rows) PROVE Closed(new)
    <3>1. new.status = rows.status
      BY <2>1, <2>4 DEF Closed, ComputeWorkflowStatus
    <3> QED
      BY <2>1, <2>2, <2>4, <3>1 DEF Closed, Started, IsTerminal
  <2> QED
    BY <1>6, <2>3, <2>4
<1>7. CASE p = "Succeeded"
  <2>1. /\ new.podStatus = UpdatedPodStatus(rows.podStatus, "Succeeded")
        /\ new.status = ComputeWorkflowStatus(rows.status, s, "Succeeded")
        /\ new.prep = rows.prep
        /\ new.exec = IF rows.exec = "RUNNING" THEN "SUCCEEDED" ELSE rows.exec
        /\ new.pod = UpdatedPodRow(rows.pod, "Succeeded")
    BY <1>7, UpdatedSucceeded
  <2>2. new.pod = IF rows.pod \in {"RUNNING", "UNKNOWN"} THEN "SUCCEEDED" ELSE rows.pod
    BY <2>1 DEF UpdatedPodRow
  <2>3. new.podStatus # "Running"
    BY <2>1 DEF UpdatedPodStatus, Terminal
  <2>4. Started(rows) => Started(new)
    BY <2>1, <2>2 DEF Started
  <2>5. ASSUME Started(rows), s \in {"Succeeded", "CANCELLED"} PROVE Closed(new)
    <3>1. new.status \in Terminal
      BY <2>1, <2>5 DEF ComputeWorkflowStatus, Terminal
    <3> QED
      BY <2>1, <2>2, <2>5, <3>1 DEF Closed, Started
  <2>6. ASSUME Closed(rows) PROVE Closed(new)
    <3>1. new.status = rows.status
      BY <2>1, <2>6 DEF Closed, ComputeWorkflowStatus
    <3> QED
      BY <2>1, <2>2, <2>6, <3>1 DEF Closed
  <2> QED
    BY <1>7, <2>3, <2>4, <2>5, <2>6
<1>8. CASE p \in {"Failed", "Error"}
  <2>1. PICK failed : failed = ComputeWorkflowStatus(rows.status, s, "Failed")
    OBVIOUS
  <2>2. PICK exec : exec = (rows.exec = "RUNNING" /\ IsTerminal(stage))
    OBVIOUS
  <2>3. PICK prep : prep = (~IsTerminal(rows.prep) /\ IsTerminal(stage))
    OBVIOUS
  <2>4. /\ new.podStatus = UpdatedPodStatus(rows.podStatus, p)
        /\ new.status = IF exec \/ prep THEN Cause(stage, failed) ELSE failed
        /\ new.prep = IF prep THEN stage ELSE rows.prep
        /\ new.exec = IF exec THEN stage ELSE rows.exec
        /\ new.pod = UpdatedPodRow(rows.pod, p)
    BY <1>1, <1>8, <2>1, <2>2, <2>3, UpdatedFailed
  <2>5. new.prep = IF ~IsTerminal(rows.prep) /\ IsTerminal(stage) THEN stage ELSE rows.prep
    BY Zenon, <2>3, <2>4
  <2>6. new.exec = IF rows.exec = "RUNNING" /\ IsTerminal(stage) THEN stage ELSE rows.exec
    BY Zenon, <2>2, <2>4
  <2>7. new.status = failed \/ new.status = Cause(stage, failed)
    BY Zenon, <2>4
  <2>8. new.pod = IF IsTerminal(rows.pod) THEN rows.pod ELSE "FAILED"
    BY <1>8, <2>4 DEF UpdatedPodRow
  <2>9. failed \in Terminal /\ (rows.status \in Terminal => failed = rows.status)
    BY <2>1 DEF ComputeWorkflowStatus, Terminal
  <2>10. new.status \in Terminal
    BY <2>7, <2>9 DEF Cause, Terminal
  <2>11. IsTerminal(stage) => "RUNNING" \notin {new.prep, new.exec, new.pod}
    BY <2>5, <2>6, <2>8 DEF IsTerminal
  <2>12. new.podStatus # "Running"
    BY <1>8, <2>4 DEF UpdatedPodStatus, Terminal
  <2>13. Started(rows) => Started(new)
    BY <2>5, <2>6, <2>8 DEF Started, IsTerminal
  <2>14. ASSUME Closed(rows) PROVE Closed(new)
    <3>1. CASE IsTerminal(stage)
      BY <2>10, <2>11, <3>1 DEF Closed
    <3>2. CASE ~IsTerminal(stage)
      <4>1. new.status = rows.status
        <5>1. ~exec /\ ~prep
          BY Zenon, <2>2, <2>3, <3>2
        <5> QED
          BY Zenon, <2>4, <2>9, <2>14, <5>1 DEF Closed
      <4> QED
        BY <2>5, <2>6, <2>8, <2>14, <3>2, <4>1 DEF Closed
    <3> QED
      BY <3>1, <3>2
  <2>15. s \in {"Failed", "Error", "CANCELLED"} => Closed(new)
    BY <1>2, <2>10, <2>11 DEF Closed
  <2> QED
    BY <1>8, <2>12, <2>13, <2>14, <2>15
<1> QED
  BY <1>3, <1>5, <1>6, <1>7, <1>8
-----------------------------------------------------------------------------
(* The line of the events, with one status worker *)

\* What an event of a pod tells, and of which state.
LEMMA PodTells ==
  ASSUME NEW r \in Runner, NEW state, NEW ev \in PodEvents(r, state)
  PROVE  /\ ev \in StatusEvent /\ ev.runner = r
         /\ ev.podStatus = ev.phase /\ ev.phase # "Pending"
         /\ ev.finished = ~Starts(ev)
         /\ state \in {"running"} \cup Ended
         /\ Starts(ev) <=> state = "running"
         /\ ev.phase = "Succeeded" => state = "succeeded"
<1> DEFINE Event(phase, podStatus, message, finished) ==
             [runner |-> r, phase |-> phase, podStatus |-> podStatus,
              message |-> message, finished |-> finished]
           Good(e) == /\ e.podStatus = e.phase /\ e.phase # "Pending"
                      /\ e.finished = ~Starts(e)
                      /\ state \in {"running"} \cup Ended
                      /\ Starts(e) <=> state = "running"
                      /\ e.phase = "Succeeded" => state = "succeeded"
<1>1. ASSUME NEW p, NEW m, NEW b, p # "Pending", b = (p # "Running"),
             state \in {"running"} \cup Ended, (p = "Running") <=> (state = "running"),
             p = "Succeeded" => state = "succeeded"
      PROVE  Good(Event(p, p, m, b))
  BY <1>1 DEF Starts
<1>2. CASE state = "running"
  <2>1. ev = Event("Running", "Running", "", FALSE)
    BY <1>2 DEF PodEvents
  <2> HIDE DEF Event, Good
  <2>2. Good(Event("Running", "Running", "", FALSE))
    BY <1>1, <1>2
  <2> QED
    BY <2>1, <2>2, PodEventShape DEF Good
<1>3. CASE state = "succeeded"
  <2>1. ev = Event("Succeeded", "Succeeded", "", TRUE)
    BY <1>3 DEF PodEvents
  <2> HIDE DEF Event, Good
  <2>2. Good(Event("Succeeded", "Succeeded", "", TRUE))
    BY <1>1, <1>3 DEF Ended
  <2> QED
    BY <2>1, <2>2, PodEventShape DEF Good
<1>4. CASE state = "exited"
  <2>1. ev = Event("Failed", "Failed", "exit", TRUE)
    BY <1>4 DEF PodEvents
  <2> HIDE DEF Event, Good
  <2>2. Good(Event("Failed", "Failed", "exit", TRUE))
    BY <1>1, <1>4 DEF Ended
  <2> QED
    BY <2>1, <2>2, PodEventShape DEF Good
<1>5. CASE state = "timedout"
  <2>1. ev = Event("Failed", "Failed", "timeout", TRUE)
    BY <1>5 DEF PodEvents
  <2> HIDE DEF Event, Good
  <2>2. Good(Event("Failed", "Failed", "timeout", TRUE))
    BY <1>1, <1>5 DEF Ended
  <2> QED
    BY <2>1, <2>2, PodEventShape DEF Good
<1>6. CASE state = "deleted"
  <2>1. \/ ev = Event("Failed", "Failed", "pod deleted", TRUE)
        \/ ev = Event("Error", "Error", "pod deleted", TRUE)
    <3>1. ev \in {Event(p, p, "pod deleted", TRUE) : p \in {"Failed", "Error"}}
      BY <1>6 DEF PodEvents
    <3> HIDE DEF Event
    <3> QED
      BY <3>1
  <2> HIDE DEF Event, Good
  <2>2. /\ Good(Event("Failed", "Failed", "pod deleted", TRUE))
        /\ Good(Event("Error", "Error", "pod deleted", TRUE))
    BY <1>1, <1>6 DEF Ended
  <2> QED
    BY <2>1, <2>2, PodEventShape DEF Good
<1>7. CASE state \notin {"running", "succeeded", "exited", "timedout", "deleted"}
  BY <1>7 DEF PodEvents
<1> QED
  BY <1>2, <1>3, <1>4, <1>5, <1>6, <1>7

\* With one status worker, what comes again is the event it has in hand.
LEMMA RequeuedOne ==
  ASSUME IInv, NEW s, StatusWorker = {s}, NEW V, V \cap {s} = V
  PROVE  /\ (s \in V /\ Busy(s)) => Requeued(Taken(V), statusQ) = <<job[s].ev>> \o statusQ
         /\ ~(s \in V /\ Busy(s)) => Requeued(Taken(V), statusQ) = statusQ
<1>1. statusQ \in Seq(StatusEvent)
  BY IInvTypes DEF TypeOK
<1>2. PICK taken : taken = Taken(V)
  OBVIOUS
<1>3. DOMAIN taken = {x \in V : Busy(x)} /\ \A x \in DOMAIN taken : taken[x] = job[x].ev
  BY <1>2 DEF Taken
<1>4. PICK holders : holders = SetToSeq(DOMAIN taken)
  OBVIOUS
<1>5. PICK first : first = [i \in 1 .. Len(holders) |-> taken[holders[i]]]
  OBVIOUS
<1>6. Requeued(taken, statusQ) = first \o statusQ
  BY <1>4, <1>5 DEF Requeued
<1>7. ASSUME s \in V, Busy(s)
      PROVE  first = <<job[s].ev>>
  <2>1. DOMAIN taken = {s}
    BY <1>3, <1>7
  <2>2. Cardinality({s}) = 1
    BY FS_Singleton
  <2>3. [i \in 1 .. 1 |-> s] \in [1 .. 1 -> {s}] /\ IsInjective([i \in 1 .. 1 |-> s])
    BY DEF IsInjective
  <2>4. holders \in [1 .. 1 -> {s}]
    BY <1>4, <2>1, <2>2, <2>3 DEF SetToSeq
  <2>5. Len(holders) = 1 /\ holders[1] = s
    BY <2>4
  <2>6. first = [i \in 1 .. 1 |-> job[s].ev]
    BY <1>3, <1>5, <2>1, <2>4, <2>5
  <2> QED
    BY <2>6
<1>8. ASSUME ~(s \in V /\ Busy(s))
      PROVE  first = <<>>
  <2>1. DOMAIN taken = {}
    BY <1>3, <1>8
  <2>2. Cardinality({}) = 0
    BY FS_EmptySet
  <2>3. \E f \in [1 .. 0 -> {}] : IsInjective(f)
    <3>1. [i \in 1 .. 0 |-> i] \in [1 .. 0 -> {}] /\ IsInjective([i \in 1 .. 0 |-> i])
      BY DEF IsInjective
    <3> QED
      BY <3>1
  <2>4. holders \in [1 .. 0 -> {}]
    BY <1>4, <2>1, <2>2, <2>3 DEF SetToSeq
  <2>5. Len(holders) = 0
    BY <2>4
  <2> QED
    BY <1>5, <2>5
<1>9. <<>> \o statusQ = statusQ
  BY <1>1
<1> QED
  BY <1>2, <1>6, <1>7, <1>8, <1>9
\* A pod goes on, and something of its state is published.
Shows(r, state, ev) ==
  /\ ev \in PodEvents(r, state)
  /\ statusQ' = Append(statusQ, ev)
  /\ pod' = [pod EXCEPT ![r] = state]
  /\ \/ state = pod[r]
     \/ state = "running" /\ pod[r] = "pending"
     \/ state \in Ended /\ pod[r] \in {"pending", "running", "exited"}
  /\ state = "succeeded" => pod[r] \in {"running", "succeeded"}

\* What a step does to the topic, the pods and the only status worker.
LEMMA LineMoves ==
  ASSUME IInv, [Next]_vars, NEW s, StatusWorker = {s}
  PROVE  \/ UNCHANGED <<statusQ, pod>> /\ job'[s] = job[s]
         \/ job'[s] = job[s] /\ \E r \in Runner : \E state, ev : Shows(r, state, ev)
         \/ BeginStatus(s)
         \/ /\ UNCHANGED <<statusQ, pod>>
            /\ ComputeStages(s) \/ WriteRow(s) \/ CheckReTrigger(s) \/ CreateRetry(s)
               \/ RetryFails(s) \/ SubmitFails(s)
         \/ SubmitWorkflow(s)
         \/ /\ Busy(s) /\ job'[s] = job[s] /\ UNCHANGED pod
            /\ statusQ' = <<job[s].ev>> \o statusQ
         \/ /\ ~Busy(s)' /\ UNCHANGED pod
            /\ statusQ' = IF Busy(s) THEN <<job[s].ev>> \o statusQ ELSE statusQ
<1>1. s \in Worker /\ s \in StatusWorker /\ s # User /\ s \notin CompleteWorker
      /\ pod \in [Runner -> Pod] /\ \A x \in Worker : x \in DOMAIN job
  BY WorkerAssumption DEF Worker, IInv, Shape, Pods, Jobs
<1>2. ASSUME NEW x \in Worker, x # s, NEW j, job' = [job EXCEPT ![x] = j]
      PROVE  job'[s] = job[s]
  BY <1>1, <1>2
<1>3. ASSUME NEW r \in Runner, Cluster(r)
      PROVE  \/ UNCHANGED <<statusQ, pod>> /\ job'[s] = job[s]
             \/ job'[s] = job[s] /\ \E state, ev : Shows(r, state, ev)
  <2>1. CASE PodStarts(r)
    <3>1. PICK ev \in PodEvents(r, "running") : statusQ' = Append(statusQ, ev)
      BY <2>1 DEF PodStarts, Publish
    <3>2. Shows(r, "running", ev)
      BY <2>1, <3>1 DEF PodStarts, Shows
    <3> QED
      BY <2>1, <3>2 DEF PodStarts
  <2>2. CASE RunnerReports(r)
    BY <2>2 DEF RunnerReports
  <2>3. CASE PodEnds(r)
    <3>1. PICK state \in Ended : /\ MayEnd(r, state) /\ Publish(r, state)
                                 /\ pod' = [pod EXCEPT ![r] = state]
      BY <2>3 DEF PodEnds
    <3>2. PICK ev \in PodEvents(r, state) : statusQ' = Append(statusQ, ev)
      BY <3>1 DEF Publish
    <3>3. /\ pod[r] \in {"pending", "running", "exited"}
          /\ state = "succeeded" => pod[r] = "running"
      BY <3>1 DEF MayEnd
    <3>4. Shows(r, state, ev)
      BY <3>1, <3>2, <3>3 DEF Shows
    <3> QED
      BY <2>3, <3>4 DEF PodEnds
  <2>4. CASE Resync(r)
    <3>1. PICK ev \in PodEvents(r, pod[r]) : statusQ' = Append(statusQ, ev)
      BY <2>4 DEF Resync, Publish
    <3>2. pod' = [pod EXCEPT ![r] = pod[r]]
      BY <1>1, <2>4 DEF Resync
    <3> QED
      BY <2>4, <3>1, <3>2 DEF Resync, Shows
  <2> QED
    BY <1>3, <2>1, <2>2, <2>3, <2>4 DEF Cluster
<1>4. ASSUME NEW w \in Worker, ComputeStages(w) \/ WriteRow(w)
      PROVE  /\ UNCHANGED <<statusQ, pod>>
             /\ job'[s] = job[s] \/ ComputeStages(s) \/ WriteRow(s)
  <2>1. UNCHANGED <<statusQ, pod>>
    BY <1>4 DEF ComputeStages, WriteRow
  <2>2. CASE w = s
    BY <1>4, <2>1, <2>2
  <2>3. CASE w # s
    BY <1>2, <1>4, <2>1, <2>3 DEF ComputeStages, WriteRow
  <2> QED
    BY <2>2, <2>3
<1>5. ASSUME NEW w \in Worker, Redeliver(w)
      PROVE  \/ UNCHANGED <<statusQ, pod>> /\ job'[s] = job[s]
             \/ /\ Busy(s) /\ job'[s] = job[s] /\ UNCHANGED pod
                /\ statusQ' = <<job[s].ev>> \o statusQ
  <2>1. UNCHANGED pod /\ job'[s] = job[s] /\ Busy(w)
    BY <1>5 DEF Redeliver
  <2>2. CASE w \in StatusWorker /\ statusQ' = Requeued(Taken({w}), statusQ)
    <3>1. w = s
      BY <2>2
    <3>2. {s} \cap {s} = {s}
      OBVIOUS
    <3> QED
      BY <2>1, <2>2, <3>1, <3>2, RequeuedOne
  <2>3. CASE UNCHANGED statusQ
    BY <2>1, <2>3
  <2> QED
    BY <1>5, <2>2, <2>3 DEF Redeliver
<1>6. ASSUME NEW w \in StatusWorker, StatusStep(w)
      PROVE  \/ BeginStatus(s)
             \/ SubmitWorkflow(s)
             \/ /\ UNCHANGED <<statusQ, pod>>
                /\ CheckReTrigger(s) \/ CreateRetry(s) \/ RetryFails(s) \/ SubmitFails(s)
  <2>1. w = s
    OBVIOUS
  <2> QED
    BY <1>6, <2>1 DEF StatusStep, CheckReTrigger, CreateRetry, RetryFails, SubmitFails
<1>7. ASSUME NEW w \in CompleteWorker, CompleteStep(w)
      PROVE  UNCHANGED <<statusQ, pod>> /\ job'[s] = job[s]
  <2>1. w # s /\ w \in Worker
    BY <1>1 DEF Worker
  <2> QED
    BY <1>2, <1>7, <2>1 DEF CompleteStep, BeginComplete, StartUpdate, DropComplete, Announce
<1>8. ASSUME CancelStage
      PROVE  \/ UNCHANGED <<statusQ, pod>> /\ job'[s] = job[s]
             \/ job'[s] = job[s] /\ \E r \in Runner : \E state, ev : Shows(r, state, ev)
  <2>1. User # s /\ User \in Worker
    BY <1>1 DEF Worker
  <2>2. job'[s] = job[s]
    BY <1>2, <1>8, <2>1 DEF CancelStage, BeginCancel, Terminate, WriteCancel, StartUpdate, TerminateFails
  <2>3. CASE Terminate
    <3>1. PICK r \in Runner : r = job[User].runner
      BY <2>1, <2>3, HeldTerminate DEF Terminate, IInv, Shape
    <3>2. CASE pod[r] \in {"pending", "running"}
      <4>1. PICK ev \in PodEvents(r, "exited") : statusQ' = Append(statusQ, ev)
        BY <2>3, <3>1, <3>2 DEF Terminate, Publish
      <4>2. pod' = [pod EXCEPT ![r] = "exited"]
        BY <2>3, <3>1, <3>2 DEF Terminate
      <4>3. Shows(r, "exited", ev)
        BY <3>2, <4>1, <4>2 DEF Shows, Ended
      <4> QED
        BY <2>2, <4>3
    <3>3. CASE pod[r] \notin {"pending", "running"}
      BY <2>2, <2>3, <3>1, <3>3 DEF Terminate
    <3> QED
      BY <3>2, <3>3
  <2>4. CASE ~Terminate
    BY <1>8, <2>2, <2>4 DEF CancelStage, BeginCancel, TerminateFails
  <2> QED
    BY <2>3, <2>4
<1>9. ASSUME Crash
      PROVE  /\ ~Busy(s)' /\ UNCHANGED pod
             /\ statusQ' = IF Busy(s) THEN <<job[s].ev>> \o statusQ ELSE statusQ
  <2>1. StatusWorker \cap {s} = StatusWorker
    OBVIOUS
  <2>2. statusQ' = IF Busy(s) THEN <<job[s].ev>> \o statusQ ELSE statusQ
    BY <1>1, <1>9, <2>1, RequeuedOne DEF Crash
  <2>3. job'[s] = Idle
    BY <1>1, <1>9 DEF Crash
  <2>4. ~Busy(s)'
    BY <2>3 DEF Busy, Idle
  <2> QED
    BY <1>9, <2>2, <2>4 DEF Crash
<1>10. CASE UNCHANGED vars
  BY <1>10 DEF vars
<1> QED
  BY <1>3, <1>4, <1>5, <1>6, <1>7, <1>8, <1>9, <1>10 DEF Next
\* A pod that was started does not go back, nor does one that ended.
LEMMA PodsGoOn ==
  ASSUME IInv, [Next]_vars, NEW s, StatusWorker = {s}, NEW r \in Runner
  PROVE  /\ \/ pod'[r] = pod[r]
            \/ /\ SubmitWorkflow(s) /\ job[s].pc = "submit" /\ job[s].runner = r
               /\ pod'[r] = "pending"
            \/ \E state, ev : Shows(r, state, ev) /\ pod'[r] = state
         /\ (Faithful /\ pod[r] \notin {"none", "pending"}) => pod'[r] \notin {"none", "pending"}
         /\ (Faithful /\ pod[r] \in Ended) => pod'[r] \in Ended
         /\ (Faithful /\ pod[r] = "succeeded") => pod'[r] = "succeeded"
         /\ pod[r] # "none" => pod'[r] # "none"
<1>1. pod \in [Runner -> Pod] /\ s \in StatusWorker /\ s \in Worker
  BY DEF IInv, Shape, Pods, Worker
<1>2. ASSUME UNCHANGED pod PROVE pod'[r] = pod[r]
  BY <1>2
<1>3. ASSUME NEW x \in Runner, NEW state, NEW ev, Shows(x, state, ev)
      PROVE  \/ pod'[r] = pod[r]
             \/ Shows(r, state, ev) /\ pod'[r] = state
  BY <1>1, <1>3 DEF Shows
<1>4. ASSUME SubmitWorkflow(s)
      PROVE  \/ pod'[r] = pod[r]
             \/ /\ SubmitWorkflow(s) /\ job[s].pc = "submit" /\ job[s].runner = r
                /\ pod'[r] = "pending"
  BY <1>1, <1>4 DEF SubmitWorkflow
<1>5. \/ pod'[r] = pod[r]
      \/ /\ SubmitWorkflow(s) /\ job[s].pc = "submit" /\ job[s].runner = r
         /\ pod'[r] = "pending"
      \/ \E state, ev : Shows(r, state, ev) /\ pod'[r] = state
  <2>1. BeginStatus(s) => UNCHANGED pod
    BY DEF BeginStatus
  <2> QED
    BY <1>2, <1>3, <1>4, <2>1, LineMoves
<1>6. ASSUME NEW state, NEW ev, Shows(r, state, ev), pod'[r] = state
      PROVE  /\ pod[r] \notin {"none", "pending"} => pod'[r] \notin {"none", "pending"}
             /\ pod[r] \in Ended => pod'[r] \in Ended
             /\ pod[r] = "succeeded" => pod'[r] = "succeeded"
             /\ pod'[r] # "none"
  <2>1. state \in {"running"} \cup Ended
    BY <1>6, PodTells DEF Shows
  <2> QED
    BY <1>6, <2>1 DEF Shows, Ended
<1>7. ASSUME Faithful, SubmitWorkflow(s), job[s].pc = "submit", job[s].runner = r
      PROVE  pod[r] = "none"
  BY <1>1, <1>7 DEF Faithful
<1> QED
  BY <1>5, <1>6, <1>7 DEF Ended

\* Where the events come from that are in the topic or in hand after a step.
LEMMA LineHolds ==
  ASSUME IInv, [Next]_vars, NEW s, StatusWorker = {s}
  PROVE  /\ \A ev \in Messages(statusQ') :
              \/ ev \in Messages(statusQ)
              \/ Busy(s) /\ ev = job[s].ev
              \/ \E r \in Runner : \E state : Shows(r, state, ev)
         /\ Busy(s)' =>
              \/ Busy(s) /\ job'[s].ev = job[s].ev
              \/ BeginStatus(s) /\ job'[s].ev \in Messages(statusQ)
         /\ \A ev \in Messages(statusQ) :
              \/ ev \in Messages(statusQ')
              \/ BeginStatus(s) /\ ev = Head(statusQ)
<1>1. statusQ \in Seq(StatusEvent) /\ s \in StatusWorker /\ s \in Worker
  BY IInvTypes DEF TypeOK, Worker
<1>2. ASSUME Busy(s)'
      PROVE  \/ Busy(s) /\ job'[s].ev = job[s].ev
             \/ BeginStatus(s) /\ job'[s].ev \in Messages(statusQ)
  <2>1. ASSUME BeginStatus(s), NEW ev \in Messages(statusQ), NEW x,
               job'[s] = [pc |-> "compute", runner |-> ev.runner, ev |-> ev, row |-> x,
                          final |-> Finished(ev.runner)]
        PROVE  job'[s].ev \in Messages(statusQ)
    BY <2>1
  <2>2. \/ job'[s] = job[s]
        \/ BeginStatus(s) /\ job'[s].ev \in Messages(statusQ)
        \/ job[s].pc \in {"compute", "write", "reread", "create"} /\ job'[s].ev = job[s].ev
    BY <1>1, <1>2, <2>1, StatusJob
  <2> QED
    BY <1>2, <2>2 DEF Busy
<1>3. \A ev \in Messages(statusQ) :
        \/ ev \in Messages(statusQ')
        \/ BeginStatus(s) /\ ev = Head(statusQ)
  BY <1>1, QueueHolds
<1>4. ASSUME NEW q, q = <<job[s].ev>> \o statusQ, Busy(s), NEW ev \in Messages(q)
      PROVE  ev \in Messages(statusQ) \/ ev = job[s].ev
  <2>1. job[s].ev \in StatusEvent
    BY <1>1, <1>4, TakenTyped DEF IInv, Shape, Known
  <2>2. /\ Len(q) = Len(statusQ) + 1 /\ q[1] = job[s].ev
        /\ \A i \in 1 .. Len(statusQ) : q[i + 1] = statusQ[i]
    BY <1>1, <1>4, <2>1
  <2>3. PICK i \in 1 .. Len(q) : ev = q[i]
    BY DEF Messages
  <2>4. CASE i = 1
    BY <2>2, <2>3, <2>4
  <2>5. CASE i # 1
    <3>1. i - 1 \in 1 .. Len(statusQ) /\ q[(i - 1) + 1] = statusQ[i - 1] /\ (i - 1) + 1 = i
      BY <1>1, <2>2, <2>3, <2>5
    <3> QED
      BY <2>3, <3>1 DEF Messages
  <2> QED
    BY <2>4, <2>5
<1>5. ASSUME NEW x \in Runner, NEW state, NEW e, Shows(x, state, e)
      PROVE  \A ev \in Messages(statusQ') :
               ev \in Messages(statusQ) \/ \E r \in Runner : \E st : Shows(r, st, ev)
  <2>1. PICK q : q = Append(statusQ, e)
    OBVIOUS
  <2>2. e \in StatusEvent
    BY <1>5, PodTells DEF Shows
  <2>3. Messages(q) = Messages(statusQ) \cup {e}
    BY <1>1, <2>1, <2>2, QueueEnds
  <2>4. statusQ' = q
    BY <1>5, <2>1 DEF Shows
  <2> QED
    BY <1>5, <2>3, <2>4
<1>6. ASSUME BeginStatus(s) PROVE \A ev \in Messages(statusQ') : ev \in Messages(statusQ)
  <2>1. statusQ # <<>> /\ statusQ' = Tail(statusQ)
    BY <1>6 DEF BeginStatus
  <2>2. Head(statusQ) \in StatusEvent
    BY <1>1, <2>1
  <2>3. Messages(statusQ) = Messages(Tail(statusQ)) \cup {Head(statusQ)}
    BY <1>1, <2>1, <2>2, QueueEnds
  <2> QED
    BY <2>1, <2>3
<1>7. ASSUME NEW ev \in Messages(statusQ')
      PROVE  \/ ev \in Messages(statusQ)
             \/ Busy(s) /\ ev = job[s].ev
             \/ \E r \in Runner : \E state : Shows(r, state, ev)
  <2>1. UNCHANGED statusQ => ev \in Messages(statusQ)
    BY <1>7
  <2>2. SubmitWorkflow(s) => UNCHANGED statusQ
    BY DEF SubmitWorkflow
  <2>3. (Busy(s) /\ statusQ' = <<job[s].ev>> \o statusQ) => (ev \in Messages(statusQ) \/ ev = job[s].ev)
    BY <1>4, <1>7
  <2> QED
    BY <1>5, <1>6, <1>7, <2>1, <2>2, <2>3, LineMoves
<1> QED
  BY <1>2, <1>3, <1>7

\* An event goes on telling of its pod.
LEMMA ToldStep ==
  ASSUME IInv, [Next]_vars, NEW s, StatusWorker = {s}, Told, Faithful
  PROVE  Told'
<1>0. s \in StatusWorker
  OBVIOUS
<1>1. ASSUME NEW ev \in StatusEvent, TellsOfPod(ev) PROVE TellsOfPod(ev)'
  <2>1. PICK r \in Runner : r = ev.runner
    BY DEF StatusEvent
  <2>2. /\ pod[r] \notin {"none", "pending"} => pod'[r] \notin {"none", "pending"}
        /\ pod[r] \in Ended => pod'[r] \in Ended
        /\ pod[r] = "succeeded" => pod'[r] = "succeeded"
    BY PodsGoOn
  <2> QED
    BY <1>1, <2>1, <2>2 DEF TellsOfPod
<1>2. ASSUME NEW ev, NEW r \in Runner, NEW state, Shows(r, state, ev) PROVE TellsOfPod(ev)'
  <2>1. pod'[r] = state
    BY <1>2 DEF Shows, IInv, Shape, Pods
  <2>2. ev \in PodEvents(r, state)
    BY <1>2 DEF Shows
  <2>3. /\ ev \in StatusEvent /\ ev.runner = r
        /\ ev.podStatus = ev.phase /\ ev.phase # "Pending"
        /\ ev.finished = ~Starts(ev)
        /\ state \in {"running"} \cup Ended
        /\ Starts(ev) <=> state = "running"
        /\ ev.phase = "Succeeded" => state = "succeeded"
    BY <2>2, PodTells
  <2> QED
    BY <2>1, <2>3 DEF TellsOfPod, Ended
<1>3. statusQ \in Seq(StatusEvent) /\ (Busy(s) => job[s].ev \in StatusEvent)
  BY <1>0, IInvTypes, TakenTyped DEF TypeOK, IInv, Shape, Known
<1>4. \A ev \in Messages(statusQ) : ev \in StatusEvent
  BY <1>3 DEF Messages
<1>5. \A ev \in Messages(statusQ) : TellsOfPod(ev)'
  BY <1>1, <1>4 DEF Told
<1>6. ASSUME NEW ev, Busy(s), ev = job[s].ev PROVE TellsOfPod(ev)'
  BY <1>0, <1>1, <1>3, <1>6 DEF Told
<1>7. \A ev \in Messages(statusQ') : TellsOfPod(ev)'
  BY <1>2, <1>5, <1>6, LineHolds
<1>8. ASSUME Busy(s)', NEW ev, ev = job'[s].ev PROVE TellsOfPod(ev)'
  BY <1>5, <1>6, <1>8, LineHolds
<1>9. Busy(s)' => TellsOfPod(job[s].ev)'
  <2>1. PICK ev : ev = job'[s].ev
    OBVIOUS
  <2> QED
    BY <1>8, <2>1 DEF TellsOfPod, Starts
<1> QED
  BY <1>7, <1>9 DEF Told
\* A status worker begins with the event at the head of the line.
LEMMA BeginsWithHead ==
  ASSUME IInv, NEW s \in StatusWorker, BeginStatus(s)
  PROVE  \E ev \in Messages(statusQ) : \E x \in RunnerRow :
           /\ ev = Head(statusQ) /\ ev \in StatusEvent /\ ev.runner \in Runner /\ Exists(ev.runner)
           /\ statusQ # <<>> /\ statusQ' = Tail(statusQ) /\ ~Busy(s) /\ UNCHANGED <<row, pod, torn>>
           /\ x = row[ev.runner]
           /\ \/ /\ stateChanged(ev, x)
                 /\ job' = [job EXCEPT ![s] =
                      [pc |-> "compute", runner |-> ev.runner, ev |-> ev,
                       row |-> UpdateWorkflow(ev, x), final |-> Finished(ev.runner)]]
                 /\ job'[s] = [pc |-> "compute", runner |-> ev.runner, ev |-> ev,
                               row |-> UpdateWorkflow(ev, x), final |-> Finished(ev.runner)]
                 /\ Busy(s)' /\ Unwritten(s)' /\ job'[s].ev = ev
                 /\ job'[s].pc = "compute" /\ job'[s].runner = ev.runner
              \/ ~stateChanged(ev, x) /\ UNCHANGED job
<1>1. s \in Worker /\ s \in DOMAIN job
  BY DEF Worker, IInv, Shape, Jobs
<1>2. /\ statusQ # <<>> /\ statusQ' = Tail(statusQ) /\ ~Busy(s) /\ UNCHANGED <<row, pod, torn>>
      /\ statusQ \in Seq(Known(StatusEvent))
  BY DEF BeginStatus, IInv, Shape, Queues
<1>3. Head(statusQ) \in Known(StatusEvent) /\ Head(statusQ) \in Messages(statusQ)
  BY <1>2 DEF Messages
<1>4. PICK ev \in Messages(statusQ) : ev = Head(statusQ)
  BY <1>3
<1>5. ev \in StatusEvent /\ ev.runner \in Runner /\ Exists(ev.runner)
  BY <1>3, <1>4 DEF Known, StatusEvent
<1>6. PICK x \in RunnerRow : x = row[ev.runner]
  BY <1>5 DEF IInv, Shape, Rows
<1>7. CASE stateChanged(ev, x)
  <2>1. PICK k : k = [pc |-> "compute", runner |-> ev.runner, ev |-> ev,
                      row |-> UpdateWorkflow(ev, x), final |-> Finished(ev.runner)]
    OBVIOUS
  <2>2. job' = [job EXCEPT ![s] = k]
    BY <1>4, <1>6, <1>7, <2>1 DEF BeginStatus, StartUpdate
  <2>3. job'[s] = k
    BY <1>1, <2>2
  <2>4. k.pc = "compute" /\ k.ev = ev /\ k.runner = ev.runner
    BY <2>1
  <2>5. Busy(s)' /\ Unwritten(s)' /\ job'[s].ev = ev
    BY <2>3, <2>4 DEF Busy, Unwritten
  <2> QED
    BY <1>2, <1>4, <1>5, <1>6, <1>7, <2>1, <2>2, <2>3, <2>4, <2>5
<1>8. CASE ~stateChanged(ev, x)
  <2>1. UNCHANGED job
    BY <1>4, <1>6, <1>8 DEF BeginStatus
  <2> QED
    BY <1>2, <1>4, <1>5, <1>6, <1>8, <2>1
<1> QED
  BY <1>7, <1>8
-----------------------------------------------------------------------------
(* The order of the events *)

\* What is put behind a line.
LEMMA OrderedAppend ==
  ASSUME NEW q \in Seq(StatusEvent), NEW e \in StatusEvent, NEW new, new = Append(q, e),
         Starts(e) => \A ev \in Messages(q) : ev.runner = e.runner => Starts(ev)
  PROVE  /\ Ordered(q) => Ordered(new)
         /\ \A d : /\ ComesFirst(d, q)
                   /\ (Starts(e) /\ d.runner = e.runner) => Starts(d)
                   => ComesFirst(d, new)
         /\ \A r : Unopened(new, r) =>
              \/ Unopened(q, r)
              \/ /\ e.runner = r /\ e.phase = "Succeeded"
                 /\ \A ev \in Messages(q) : ~(ev.runner = r /\ Starts(ev))
<1>1. /\ Len(q) \in Nat /\ Len(new) = Len(q) + 1 /\ new[Len(q) + 1] = e
      /\ \A i \in 1 .. Len(q) : new[i] = q[i]
      /\ 1 .. Len(new) = (1 .. Len(q)) \cup {Len(q) + 1}
  OBVIOUS
<1>2. \A i \in 1 .. Len(q) : q[i] \in Messages(q)
  BY DEF Messages
<1>3. ASSUME Ordered(q) PROVE Ordered(new)
  <2>1. ASSUME NEW i \in 1 .. Len(new), NEW j \in 1 .. Len(new),
               i < j, new[i].runner = new[j].runner, Starts(new[j])
        PROVE  Starts(new[i])
    <3>1. i \in 1 .. Len(q)
      BY <1>1, <2>1
    <3>2. CASE j \in 1 .. Len(q)
      BY <1>1, <1>3, <2>1, <3>1, <3>2 DEF Ordered
    <3>3. CASE j = Len(q) + 1
      BY <1>1, <1>2, <2>1, <3>1, <3>3
    <3> QED
      BY <1>1, <3>2, <3>3
  <2> QED
    BY <2>1 DEF Ordered
<1>4. Messages(new) = Messages(q) \cup {e}
  BY QueueEnds
<1>5. ASSUME NEW d, ComesFirst(d, q), (Starts(e) /\ d.runner = e.runner) => Starts(d)
      PROVE  ComesFirst(d, new)
  BY <1>4, <1>5 DEF ComesFirst
<1>6. ASSUME NEW r, Unopened(new, r)
      PROVE  \/ Unopened(q, r)
             \/ /\ e.runner = r /\ e.phase = "Succeeded"
                /\ \A ev \in Messages(q) : ~(ev.runner = r /\ Starts(ev))
  <2>1. PICK j \in 1 .. Len(new) :
          /\ new[j].runner = r /\ new[j].phase = "Succeeded"
          /\ \A i \in 1 .. j - 1 : ~(new[i].runner = r /\ Starts(new[i]))
    BY <1>6 DEF Unopened
  <2>2. CASE j \in 1 .. Len(q)
    <3>1. \A i \in 1 .. j - 1 : i \in 1 .. Len(q)
      BY <1>1, <2>2
    <3>2. /\ q[j].runner = r /\ q[j].phase = "Succeeded"
          /\ \A i \in 1 .. j - 1 : ~(q[i].runner = r /\ Starts(q[i]))
      BY <1>1, <2>1, <2>2, <3>1
    <3> QED
      BY <2>2, <3>2 DEF Unopened
  <2>3. CASE j = Len(q) + 1
    <3>1. 1 .. j - 1 = 1 .. Len(q)
      BY <1>1, <2>3
    <3>2. \A ev \in Messages(q) : ~(ev.runner = r /\ Starts(ev))
      BY <1>1, <2>1, <3>1 DEF Messages
    <3> QED
      BY <1>1, <2>1, <2>3, <3>2
  <2> QED
    BY <1>1, <2>2, <2>3
<1> QED
  BY <1>3, <1>5, <1>6

\* What is left of a line once its head is taken.
LEMMA OrderedTail ==
  ASSUME NEW q \in Seq(StatusEvent), q # <<>>, NEW new, new = Tail(q), NEW e, e = Head(q)
  PROVE  /\ Ordered(q) => Ordered(new) /\ ComesFirst(e, new)
         /\ \A d : ComesFirst(d, q) => ComesFirst(d, new)
         /\ \A r : Unopened(new, r) => Unopened(q, r) \/ (e.runner = r /\ Starts(e))
         /\ \A r : (e.runner = r /\ e.phase = "Succeeded") => Unopened(q, r)
<1>1. /\ Len(q) \in Nat \ {0} /\ Len(new) = Len(q) - 1 /\ e = q[1] /\ 1 \in 1 .. Len(q)
      /\ \A i \in 1 .. Len(new) : i + 1 \in 1 .. Len(q) /\ new[i] = q[i + 1]
  OBVIOUS
<1>2. \A i \in 1 .. Len(q) : q[i] \in Messages(q)
  BY DEF Messages
<1>3. \A ev \in Messages(new) : \E i \in 1 .. Len(new) : ev = q[i + 1]
  BY <1>1 DEF Messages
<1>4. ASSUME Ordered(q) PROVE Ordered(new) /\ ComesFirst(e, new)
  <2>1. ASSUME NEW i \in 1 .. Len(new), NEW j \in 1 .. Len(new),
               i < j, new[i].runner = new[j].runner, Starts(new[j])
        PROVE  Starts(new[i])
    <3>1. i + 1 < j + 1 /\ i + 1 \in 1 .. Len(q) /\ j + 1 \in 1 .. Len(q)
      BY <1>1, <2>1
    <3> QED
      BY <1>1, <1>4, <2>1, <3>1 DEF Ordered
  <2>2. ASSUME NEW ev \in Messages(new), ev.runner = e.runner, Starts(ev) PROVE Starts(e)
    <3>1. PICK i \in 1 .. Len(new) : ev = q[i + 1]
      BY <1>3
    <3>2. 1 < i + 1 /\ i + 1 \in 1 .. Len(q)
      BY <1>1
    <3> QED
      BY <1>1, <1>4, <2>2, <3>1, <3>2 DEF Ordered
  <2> QED
    BY <2>1, <2>2 DEF Ordered, ComesFirst
<1>5. \A d : ComesFirst(d, q) => ComesFirst(d, new)
  BY <1>1, <1>2, <1>3 DEF ComesFirst
<1>6. ASSUME NEW r, Unopened(new, r), ~(e.runner = r /\ Starts(e)) PROVE Unopened(q, r)
  <2>1. PICK j \in 1 .. Len(new) :
          /\ new[j].runner = r /\ new[j].phase = "Succeeded"
          /\ \A i \in 1 .. j - 1 : ~(new[i].runner = r /\ Starts(new[i]))
    BY <1>6 DEF Unopened
  <2>2. j + 1 \in 1 .. Len(q) /\ q[j + 1].runner = r /\ q[j + 1].phase = "Succeeded"
    BY <1>1, <2>1
  <2>3. ASSUME NEW i \in 1 .. (j + 1) - 1 PROVE ~(q[i].runner = r /\ Starts(q[i]))
    <3>1. CASE i = 1
      BY <1>1, <1>6, <3>1
    <3>2. CASE i # 1
      <4>1. /\ i - 1 \in 1 .. j - 1 /\ i - 1 \in 1 .. Len(new) /\ (i - 1) + 1 = i
            /\ new[i - 1] = q[(i - 1) + 1]
        BY <1>1, <3>2
      <4> QED
        BY <2>1, <4>1
    <3> QED
      BY <3>1, <3>2
  <2> QED
    BY <2>2, <2>3 DEF Unopened
<1>7. ASSUME NEW r, e.runner = r, e.phase = "Succeeded" PROVE Unopened(q, r)
  <2>1. \A i \in 1 .. 1 - 1 : ~(q[i].runner = r /\ Starts(q[i]))
    OBVIOUS
  <2> QED
    BY <1>1, <1>7, <2>1 DEF Unopened
<1> QED
  BY <1>4, <1>5, <1>6, <1>7

\* What comes again before a line.
LEMMA OrderedAgain ==
  ASSUME NEW q \in Seq(StatusEvent), NEW e \in StatusEvent, NEW new, new = <<e>> \o q
  PROVE  /\ Ordered(q) /\ ComesFirst(e, q) => Ordered(new) /\ ComesFirst(e, new)
         /\ Messages(new) = Messages(q) \cup {e}
         /\ \A r : Unopened(new, r) =>
              \/ e.runner = r /\ e.phase = "Succeeded"
              \/ Unopened(q, r) /\ ~(e.runner = r /\ Starts(e))
<1>1. /\ Len(q) \in Nat /\ Len(new) = Len(q) + 1 /\ new[1] = e /\ 1 \in 1 .. Len(new)
      /\ \A i \in 1 .. Len(q) : i + 1 \in 1 .. Len(new) /\ new[i + 1] = q[i]
  OBVIOUS
<1>2. ASSUME NEW i \in 1 .. Len(new), i # 1
      PROVE  i - 1 \in 1 .. Len(q) /\ new[i] = q[i - 1] /\ (i - 1) + 1 = i
  <2>1. i - 1 \in 1 .. Len(q) /\ (i - 1) + 1 = i
    BY <1>1, <1>2
  <2>2. new[(i - 1) + 1] = q[i - 1]
    BY <1>1, <2>1
  <2> QED
    BY <2>1, <2>2
<1>3. \A i \in 1 .. Len(q) : q[i] \in Messages(q)
  BY DEF Messages
<1>4. Messages(new) = Messages(q) \cup {e}
  <2>1. ASSUME NEW ev \in Messages(new) PROVE ev \in Messages(q) \cup {e}
    <3>1. PICK i \in 1 .. Len(new) : ev = new[i]
      BY DEF Messages
    <3> QED
      BY <1>1, <1>2, <1>3, <3>1
  <2>2. \A i \in 1 .. Len(q) : q[i] \in Messages(new)
    BY <1>1 DEF Messages
  <2>3. e \in Messages(new)
    BY <1>1 DEF Messages
  <2> QED
    BY <2>1, <2>2, <2>3 DEF Messages
<1>5. ASSUME Ordered(q), ComesFirst(e, q) PROVE Ordered(new) /\ ComesFirst(e, new)
  <2>1. ASSUME NEW i \in 1 .. Len(new), NEW j \in 1 .. Len(new),
               i < j, new[i].runner = new[j].runner, Starts(new[j])
        PROVE  Starts(new[i])
    <3>1. j # 1
      BY <2>1
    <3>2. CASE i = 1
      BY <1>1, <1>2, <1>3, <1>5, <2>1, <3>1, <3>2 DEF ComesFirst
    <3>3. CASE i # 1
      <4>1. i - 1 < j - 1
        BY <2>1
      <4> QED
        BY <1>2, <1>5, <2>1, <3>1, <3>3, <4>1 DEF Ordered
    <3> QED
      BY <3>2, <3>3
  <2> QED
    BY <1>4, <1>5, <2>1 DEF Ordered, ComesFirst
<1>6. ASSUME NEW r, Unopened(new, r), ~(e.runner = r /\ e.phase = "Succeeded")
      PROVE  Unopened(q, r) /\ ~(e.runner = r /\ Starts(e))
  <2>1. PICK j \in 1 .. Len(new) :
          /\ new[j].runner = r /\ new[j].phase = "Succeeded"
          /\ \A i \in 1 .. j - 1 : ~(new[i].runner = r /\ Starts(new[i]))
    BY <1>6 DEF Unopened
  <2>2. j # 1
    BY <1>1, <1>6, <2>1
  <2>3. j - 1 \in 1 .. Len(q) /\ new[j] = q[j - 1] /\ 1 \in 1 .. j - 1
    BY <1>1, <1>2, <2>2
  <2>4. ASSUME NEW i \in 1 .. (j - 1) - 1 PROVE ~(q[i].runner = r /\ Starts(q[i]))
    <3>1. i + 1 \in 1 .. j - 1 /\ i \in 1 .. Len(q) /\ new[i + 1] = q[i]
      BY <1>1, <2>3
    <3> QED
      BY <2>1, <3>1
  <2> QED
    BY <1>1, <2>1, <2>3, <2>4 DEF Unopened
<1> QED
  BY <1>4, <1>5, <1>6

\* The events stay in the order of the states they tell of.
LEMMA InOrderStep ==
  ASSUME IInv, [Next]_vars, NEW s, StatusWorker = {s}, Told, InOrder
  PROVE  InOrder'
<1>0. /\ s \in StatusWorker /\ s \in Worker
      /\ statusQ \in Seq(StatusEvent) /\ (Busy(s) => job[s].ev \in StatusEvent)
      /\ \A ev \in Messages(statusQ) : ev \in StatusEvent
  <2>1. s \in StatusWorker /\ s \in Worker /\ statusQ \in Seq(StatusEvent)
    BY IInvTypes DEF TypeOK, Worker
  <2> QED
    BY <2>1, TakenTyped DEF IInv, Shape, Known, Messages
<1> DEFINE First == Busy(s)' => ComesFirst(job'[s].ev, statusQ')
<1>1. ASSUME UNCHANGED statusQ, ~BeginStatus(s) PROVE Ordered(statusQ') /\ First
  <2>1. Busy(s)' => Busy(s) /\ job'[s].ev = job[s].ev
    BY <1>1, LineHolds
  <2> QED
    BY <1>0, <1>1, <2>1 DEF InOrder
<1>2. ASSUME job'[s] = job[s], NEW r \in Runner, NEW state, NEW ev, Shows(r, state, ev)
      PROVE  Ordered(statusQ') /\ First
  <2>1. PICK new : new = Append(statusQ, ev)
    OBVIOUS
  <2>2. ev \in StatusEvent /\ ev.runner = r /\ (Starts(ev) <=> state = "running")
    BY <1>2, PodTells DEF Shows
  <2>3. Starts(ev) => pod[r] \notin Ended
    BY <1>2, <2>2 DEF Shows, Ended
  <2>4. Starts(ev) => \A m \in Messages(statusQ) : m.runner = ev.runner => Starts(m)
    BY <2>2, <2>3 DEF Told, TellsOfPod
  <2>5. (Busy(s) /\ Starts(ev) /\ job[s].ev.runner = ev.runner) => Starts(job[s].ev)
    BY <1>0, <2>2, <2>3 DEF Told, TellsOfPod
  <2>6. /\ Ordered(statusQ) => Ordered(new)
        /\ \A d : /\ ComesFirst(d, statusQ)
                  /\ (Starts(ev) /\ d.runner = ev.runner) => Starts(d)
                  => ComesFirst(d, new)
    BY <1>0, <2>1, <2>2, <2>4, OrderedAppend
  <2>7. Ordered(new)
    BY <2>6 DEF InOrder
  <2>8. Busy(s) => ComesFirst(job[s].ev, new)
    BY <1>0, <2>5, <2>6 DEF InOrder
  <2>9. statusQ' = new
    BY <1>2, <2>1 DEF Shows
  <2>10. Busy(s)' => Busy(s)
    BY <1>2 DEF Busy
  <2> QED
    BY <1>2, <2>7, <2>8, <2>9, <2>10
<1>3. ASSUME BeginStatus(s) PROVE Ordered(statusQ') /\ First
  <2>1. statusQ # <<>> /\ statusQ' = Tail(statusQ) /\ ~Busy(s)
    BY <1>3 DEF BeginStatus
  <2>2. PICK e : e = Head(statusQ)
    OBVIOUS
  <2>3. PICK new : new = Tail(statusQ)
    OBVIOUS
  <2>4. Ordered(new) /\ ComesFirst(e, new)
    BY <1>0, <2>1, <2>2, <2>3, OrderedTail DEF InOrder
  <2>5. Busy(s)' => job'[s].ev = e
    BY <1>0, <2>1, <2>2, <1>3, BeginsWithHead DEF Busy
  <2> QED
    BY <2>1, <2>3, <2>4, <2>5
<1>4. ASSUME Busy(s), statusQ' = <<job[s].ev>> \o statusQ
      PROVE  /\ Ordered(statusQ')
             /\ job'[s] = job[s] => First
  <2>1. PICK e \in StatusEvent : e = job[s].ev
    BY <1>0, <1>4
  <2>2. PICK new : new = <<e>> \o statusQ
    OBVIOUS
  <2>3. Ordered(new) /\ ComesFirst(e, new)
    BY <1>0, <1>4, <2>1, <2>2, OrderedAgain DEF InOrder
  <2> QED
    BY <1>4, <2>1, <2>2, <2>3
<1>5. Ordered(statusQ') /\ First
  <2>1. SubmitWorkflow(s) => UNCHANGED statusQ
    BY DEF SubmitWorkflow
  <2> HIDE DEF First
  <2>2. ~Busy(s)' => First
    BY DEF First
  <2>3. \/ UNCHANGED statusQ
        \/ job'[s] = job[s] /\ \E r \in Runner : \E state, ev : Shows(r, state, ev)
        \/ BeginStatus(s)
        \/ /\ Busy(s) /\ job'[s] = job[s]
           /\ statusQ' = <<job[s].ev>> \o statusQ
        \/ /\ ~Busy(s)' /\ Busy(s)
           /\ statusQ' = <<job[s].ev>> \o statusQ
    BY <2>1, LineMoves
  <2> QED
    BY <1>1, <1>2, <1>3, <1>4, <2>2, <2>3
<1> QED
  BY <1>5 DEF InOrder, ComesFirst, Ordered, Busy
-----------------------------------------------------------------------------
(* What is computed and written *)

\* What an update makes of the rows it finds.
LEMMA Computed ==
  ASSUME IInv, NEW w \in Worker, ComputeStages(w)
  PROVE  \E r \in Runner, saved \in RunnerRow, upd \in RunnerRow, y \in RunnerRow :
           /\ job[w].pc = "compute" /\ r = job[w].runner /\ Exists(r) /\ saved = job[w].row
           /\ row[r] \in RunnerRow
           /\ upd = UpdateWorkflowStages(row[r], saved.status, saved.podStatus, saved.message)
           /\ y.status = upd.status /\ y.podStatus = upd.podStatus /\ y.prep = upd.prep
           /\ y.exec = upd.exec /\ y.pod = upd.pod /\ y.finished = saved.finished
           /\ job'[w].pc = "write" /\ job'[w].runner = r /\ job'[w].ev = job[w].ev
           /\ job'[w].base = row[r] /\ job'[w].row = y
<1>1. PICK r \in Runner : r = job[w].runner
  BY HeldCompute DEF ComputeStages, IInv, Shape
<1>2. PICK saved \in RunnerRow : saved = job[w].row
  BY HeldCompute DEF ComputeStages, IInv, Shape
<1>3. /\ job[w].pc = "compute" /\ Exists(r) /\ saved.status \in Status /\ row[r] \in RunnerRow
      /\ saved.podStatus \in PodPhase /\ w \in DOMAIN job
  BY <1>1, <1>2, HeldCompute DEF ComputeStages, IInv, Shape, Rows, Jobs, RunnerRow
<1>4. PICK upd : upd = UpdateWorkflowStages(row[r], saved.status, saved.podStatus, saved.message)
  OBVIOUS
<1>5. upd \in RunnerRow
  BY <1>3, <1>4, UpdateTyped
<1>6. PICK y : y = [upd EXCEPT !.message = saved.message, !.finished = saved.finished]
  OBVIOUS
<1>7. /\ y \in RunnerRow
      /\ y.status = upd.status /\ y.podStatus = upd.podStatus /\ y.prep = upd.prep
      /\ y.exec = upd.exec /\ y.pod = upd.pod /\ y.finished = saved.finished
  BY <1>5, <1>6 DEF RunnerRow
<1>8. PICK k : k = [pc |-> "write", runner |-> r, ev |-> job[w].ev, base |-> row[r],
                    row |-> y, final |-> job[w].final]
  OBVIOUS
<1>9. job' = [job EXCEPT ![w] = k]
  BY <1>1, <1>2, <1>4, <1>6, <1>8 DEF ComputeStages
<1>10. /\ job'[w] = k
       /\ k.pc = "write" /\ k.runner = r /\ k.ev = job[w].ev /\ k.base = row[r] /\ k.row = y
  BY <1>3, <1>8, <1>9
<1> QED
  BY <1>1, <1>2, <1>3, <1>4, <1>5, <1>7, <1>10

\* What becomes of a runner that is not torn.
LEMMA RunnerWritten ==
  ASSUME IInv, [Next]_vars, NEW r \in Runner, r \notin torn'
  PROVE  \/ row'[r] = row[r]
         \/ \E w \in Worker :
              /\ WriteRow(w) /\ job[w].pc = "write" /\ job[w].runner = r
              /\ row[r] = job[w].base /\ row'[r] = job[w].row
         \/ \E w \in StatusWorker : \E upd \in RunnerRow :
              /\ SubmitFails(w) /\ job[w].pc = "submit" /\ job[w].runner = r /\ Exists(r)
              /\ row[r] \in RunnerRow /\ row[r].podStatus \in PodPhase
              /\ upd = UpdateWorkflowStages(row[r], "Failed", row[r].podStatus, "exit")
              /\ row'[r].status = upd.status /\ row'[r].podStatus = upd.podStatus
              /\ row'[r].prep = upd.prep /\ row'[r].exec = upd.exec /\ row'[r].pod = upd.pod
         \/ \E w \in StatusWorker :
              /\ CreateRetry(w) /\ ~Exists(r)
              /\ row'[r].finished = FALSE /\ row'[r].podStatus = "Pending"
<1>1. row \in [Runner -> RunnerRow]
  BY DEF IInv, Shape, Rows
<1>2. ASSUME NEW w \in Worker, WriteRow(w)
      PROVE  \/ row'[r] = row[r]
             \/ /\ WriteRow(w) /\ job[w].pc = "write" /\ job[w].runner = r
                /\ row[r] = job[w].base /\ row'[r] = job[w].row
  BY <1>1, <1>2 DEF WriteRow
<1>3. ASSUME NEW w \in StatusWorker, SubmitFails(w), row'[r] # row[r]
      PROVE  \E upd \in RunnerRow :
              /\ job[w].pc = "submit" /\ job[w].runner = r /\ Exists(r)
              /\ row[r] \in RunnerRow /\ row[r].podStatus \in PodPhase
              /\ upd = UpdateWorkflowStages(row[r], "Failed", row[r].podStatus, "exit")
              /\ row'[r].status = upd.status /\ row'[r].podStatus = upd.podStatus
              /\ row'[r].prep = upd.prep /\ row'[r].exec = upd.exec /\ row'[r].pod = upd.pod
  <2>1. PICK x \in Runner : x = job[w].runner /\ Exists(x)
    BY <1>3, HeldRetry DEF SubmitFails, Worker, IInv, Shape
  <2>2. PICK upd : upd = UpdateWorkflowStages(row[x], "Failed", row[x].podStatus, "exit")
    OBVIOUS
  <2>3. row[x] \in RunnerRow /\ row[x].podStatus \in PodPhase /\ "Failed" \in Status
    BY <2>1, <1>1 DEF RunnerRow, Status, Terminal
  <2>4. upd \in RunnerRow
    BY <2>2, <2>3, UpdateTyped
  <2>5. PICK new : new = [upd EXCEPT !.message = "exit", !.finished = TRUE]
    OBVIOUS
  <2>6. /\ new.status = upd.status /\ new.podStatus = upd.podStatus
        /\ new.prep = upd.prep /\ new.exec = upd.exec /\ new.pod = upd.pod
    BY <2>4, <2>5 DEF RunnerRow
  <2>7. row' = [row EXCEPT ![x] = new]
    BY <1>3, <2>1, <2>2, <2>5 DEF SubmitFails
  <2>8. r = x /\ row'[r] = new
    BY <1>1, <1>3, <2>7
  <2> QED
    BY <1>3, <2>1, <2>2, <2>3, <2>4, <2>6, <2>8 DEF SubmitFails
<1>4. ASSUME NEW w \in StatusWorker, CreateRetry(w), row'[r] # row[r]
      PROVE  ~Exists(r) /\ row'[r].finished = FALSE /\ row'[r].podStatus = "Pending"
  <2>1. PICK new \in Runner : /\ ~Exists(new)
          /\ row' = [row EXCEPT ![new] =
               [status |-> StartingRows.status, podStatus |-> StartingRows.podStatus,
                prep |-> StartingRows.prep, exec |-> StartingRows.exec,
                pod |-> StartingRows.pod, message |-> "", finished |-> FALSE,
                ref |-> Original(job[w].runner)]]
    BY <1>4 DEF CreateRetry
  <2>2. PICK rec : rec = [status |-> StartingRows.status, podStatus |-> StartingRows.podStatus,
                prep |-> StartingRows.prep, exec |-> StartingRows.exec,
                pod |-> StartingRows.pod, message |-> "", finished |-> FALSE,
                ref |-> Original(job[w].runner)]
    OBVIOUS
  <2>3. rec.finished = FALSE /\ rec.podStatus = "Pending"
    BY <2>2 DEF StartingRows
  <2>4. row' = [row EXCEPT ![new] = rec]
    BY <2>1, <2>2
  <2>5. r = new /\ row'[r] = rec
    BY <1>1, <1>4, <2>4
  <2> QED
    BY <2>1, <2>3, <2>5
<1>5. UNCHANGED row => row'[r] = row[r]
  OBVIOUS
<1> QED
  BY <1>2, <1>3, <1>4, <1>5, RowMoves

\* What was opened stays open to be closed.
LEMMA StartedStays ==
  ASSUME StagesEnabled, IInv, [Next]_vars, NEW r \in Runner, r \notin torn', Exists(r),
         Started(row[r]), \A w \in Worker : job[w].pc = "write" /\ job[w].runner = r => Writes(w)
  PROVE  Started(row'[r])
<1>1. ASSUME NEW w \in Worker, job[w].pc = "write", job[w].runner = r,
             row[r] = job[w].base, row'[r] = job[w].row
      PROVE  Started(row'[r])
  <2>1. Writes(w)
    BY <1>1
  <2>2. PICK x, y : x = row[r] /\ y = row'[r]
    OBVIOUS
  <2> QED
    BY <1>1, <2>1 DEF Writes
<1>2. ASSUME NEW upd \in RunnerRow, row[r] \in RunnerRow, row[r].podStatus \in PodPhase,
             upd = UpdateWorkflowStages(row[r], "Failed", row[r].podStatus, "exit"),
             row'[r].prep = upd.prep, row'[r].exec = upd.exec, row'[r].pod = upd.pod
      PROVE  Started(row'[r])
  <2>1. Started(upd)
    BY <1>2, UpdateSettles
  <2> QED
    BY <1>2, <2>1 DEF Started
<1> QED
  BY <1>1, <1>2, RunnerWritten
\* What the event of a status worker makes of the runner it read.
LEMMA UpdatedByEvent ==
  ASSUME NEW ev \in StatusEvent, NEW x \in RunnerRow, NEW y, y = UpdateWorkflow(ev, x)
  PROVE  /\ y.podStatus = ev.podStatus
         /\ y.status \in {ev.phase, "CANCELLED"}
         /\ y.finished \in {x.finished, ev.finished}
<1>1. PICK m : m = IF x.podStatus \in Terminal THEN x.message ELSE ev.message
  OBVIOUS
<1>2. PICK f : f = IF x.podStatus \in Terminal \/ x.status \in Terminal THEN x.finished ELSE ev.finished
  OBVIOUS
<1>3. PICK st : st = IF x.status = "CANCELLED" THEN x.status ELSE ev.phase
  OBVIOUS
<1>4. y = [x EXCEPT !.message   = IF x.podStatus \in Terminal THEN x.message ELSE ev.message,
                    !.finished  = IF x.podStatus \in Terminal \/ x.status \in Terminal
                                  THEN x.finished ELSE ev.finished,
                    !.status    = IF x.status = "CANCELLED" THEN x.status ELSE ev.phase,
                    !.podStatus = ev.podStatus]
  BY DEF UpdateWorkflow
<1>5. y = [x EXCEPT !.message = m, !.finished = f, !.status = st, !.podStatus = ev.podStatus]
  BY Zenon, <1>1, <1>2, <1>3, <1>4
<1>6. y.podStatus = ev.podStatus /\ y.status = st /\ y.finished = f
  BY <1>5 DEF RunnerRow
<1> QED
  BY <1>2, <1>3, <1>6

\* What the others read, and what they make of it.
LEMMA OthersJob ==
  ASSUME IInv, [Next]_vars, NEW w \in Worker, w \notin StatusWorker
  PROVE  \/ job'[w] = job[w]
         \/ job'[w].pc \in {"idle", "announce"}
         \/ ComputeStages(w)
         \/ \E r \in Runner :
              /\ job'[w].pc \in {"compute", "terminate"} /\ job'[w].runner = r /\ Exists(r)
              /\ job'[w].row.podStatus = row[r].podStatus /\ job'[w].row.finished = row[r].finished
              /\ job'[w].pc = "compute" => job'[w].row.status \in {"Succeeded", "Failed"}
              /\ UNCHANGED row
         \/ /\ job[w].pc = "terminate" /\ job'[w].pc = "compute" /\ job'[w].runner = job[w].runner
            /\ job'[w].row.finished = job[w].row.finished /\ job'[w].row.status = "CANCELLED"
            /\ job'[w].row.podStatus \in {job[w].row.podStatus, "Failed"}
<1>1. w \in DOMAIN job /\ row \in [Runner -> RunnerRow]
  BY DEF IInv, Shape, Jobs, Rows
<1>2. ASSUME NEW k, job' = [job EXCEPT ![w] = k] PROVE job'[w] = k
  BY <1>1, <1>2
<1>3. Crash => job'[w].pc = "idle"
  BY DEF Crash, Idle
<1>4. ASSUME WriteRow(w) PROVE job'[w].pc \in {"idle", "announce"}
  <2>1. job'[w] = [pc |-> "announce", runner |-> job[w].runner, ev |-> job[w].ev] \/ job'[w] = Idle
    BY <1>1, <1>4 DEF WriteRow
  <2> QED
    BY <2>1 DEF Idle
<1>5. ASSUME w \in CompleteWorker, CompleteStep(w), job'[w] # job[w], job'[w].pc \notin {"idle", "announce"}
      PROVE  \E r \in Runner :
              /\ job'[w].pc = "compute" /\ job'[w].runner = r /\ Exists(r)
              /\ job'[w].row.podStatus = row[r].podStatus /\ job'[w].row.finished = row[r].finished
              /\ job'[w].row.status \in {"Succeeded", "Failed"}
              /\ UNCHANGED row
  <2>1. ~DropComplete(w)
    BY <1>5 DEF DropComplete
  <2>2. ~Announce(w)
    BY <1>2, <1>5 DEF Announce, Idle
  <2>3. BeginComplete(w)
    BY <1>5, <2>1, <2>2 DEF CompleteStep
  <2>4. PICK ev : ev = Head(completeQ)
    OBVIOUS
  <2>5. ev \in Known(CompleteEvent)
    <3>1. completeQ \in Seq(Known(CompleteEvent)) /\ completeQ # <<>>
      BY <2>3 DEF BeginComplete, IInv, Shape, Queues
    <3> QED
      BY <2>4, <3>1
  <2>6. PICK r \in Runner : r = ev.runner /\ Exists(r)
    BY <2>5 DEF Known, CompleteEvent
  <2>7. PICK x \in RunnerRow : x = row[r]
    BY <1>1
  <2>8. PICK st : st = IF ev.failed THEN "Failed" ELSE "Succeeded"
    OBVIOUS
  <2>9. PICK y : y = [x EXCEPT !.status = st]
    OBVIOUS
  <2>10. y.status = st /\ y.podStatus = x.podStatus /\ y.finished = x.finished
    BY <2>9 DEF RunnerRow
  <2>11. \/ job' = [job EXCEPT ![w] = [pc |-> "announce", runner |-> ev.runner, ev |-> ev]]
         \/ job' = [job EXCEPT ![w] = [pc |-> "compute", runner |-> r, ev |-> ev, row |-> y,
                                       final |-> Finished(r)]]
    BY <2>3, <2>4, <2>6, <2>7, <2>8, <2>9 DEF BeginComplete, StartUpdate
  <2>12. \/ job'[w] = [pc |-> "announce", runner |-> ev.runner, ev |-> ev]
         \/ job'[w] = [pc |-> "compute", runner |-> r, ev |-> ev, row |-> y, final |-> Finished(r)]
    BY <1>2, <2>11
  <2>13. job'[w] # [pc |-> "announce", runner |-> ev.runner, ev |-> ev]
    BY <1>5
  <2>14. job'[w] = [pc |-> "compute", runner |-> r, ev |-> ev, row |-> y, final |-> Finished(r)]
    BY <2>12, <2>13
  <2>15. job'[w].pc = "compute" /\ job'[w].runner = r /\ job'[w].row = y
    BY <2>14
  <2>16. UNCHANGED row
    BY <2>3 DEF BeginComplete
  <2>17. st \in {"Succeeded", "Failed"}
    BY <2>8
  <2> QED
    BY <2>6, <2>7, <2>10, <2>15, <2>16, <2>17
<1>6. ASSUME NEW r \in Runner, BeginCancel(r), w = User
      PROVE  /\ job'[w].pc = "terminate" /\ job'[w].runner = r /\ Exists(r)
             /\ job'[w].row.podStatus = row[r].podStatus /\ job'[w].row.finished = row[r].finished
             /\ UNCHANGED row
  <2>1. job'[w] = [pc |-> "terminate", runner |-> r, row |-> row[r]]
    BY <1>2, <1>6 DEF BeginCancel
  <2>2. job'[w].pc = "terminate" /\ job'[w].runner = r /\ job'[w].row = row[r]
    BY <2>1
  <2> QED
    BY <1>6, <2>2 DEF BeginCancel
<1>7. ASSUME Terminate, w = User, job'[w].pc # "idle"
      PROVE  /\ job[w].pc = "terminate" /\ job'[w].pc = "compute" /\ job'[w].runner = job[w].runner
             /\ job'[w].row.finished = job[w].row.finished /\ job'[w].row.status = "CANCELLED"
             /\ job'[w].row.podStatus \in {job[w].row.podStatus, "Failed"}
  <2>1. job[w].pc = "terminate"
    BY <1>7 DEF Terminate
  <2>2. PICK saved \in RunnerRow : saved = job[w].row
    BY <2>1, HeldTerminate DEF IInv, Shape
  <2>3. PICK force \in BOOLEAN : WriteCancel(force)
    BY <1>7 DEF Terminate
  <2>4. PICK y : y = Cancelled(saved, force)
    OBVIOUS
  <2>5. /\ y.status = "CANCELLED" /\ y.finished = saved.finished
        /\ y.podStatus \in {saved.podStatus, "Failed"}
    BY <2>4 DEF Cancelled, RunnerRow
  <2>6. \/ job' = [job EXCEPT ![w] = Idle]
        \/ job' = [job EXCEPT ![w] = [pc |-> "compute", runner |-> job[w].runner, ev |-> {}, row |-> y,
                                      final |-> Finished(job[w].runner)]]
    BY <1>7, <2>2, <2>3, <2>4 DEF WriteCancel, StartUpdate
  <2>7. job'[w] # Idle
    BY <1>7 DEF Idle
  <2>8. job'[w] = [pc |-> "compute", runner |-> job[w].runner, ev |-> {}, row |-> y,
                   final |-> Finished(job[w].runner)]
    BY <1>2, <2>6, <2>7
  <2>9. job'[w].pc = "compute" /\ job'[w].runner = job[w].runner /\ job'[w].row = y
    BY <2>8
  <2> QED
    BY <2>1, <2>2, <2>5, <2>9
<1>8. ASSUME TerminateFails, w = User PROVE job'[w].pc = "idle"
  BY <1>2, <1>8 DEF TerminateFails, Idle
<1>9. ASSUME CancelStage, w = User
      PROVE  Terminate \/ TerminateFails \/ \E r \in Runner : BeginCancel(r)
  BY <1>9 DEF CancelStage
<1> QED
  BY <1>3, <1>4, <1>5, <1>6, <1>7, <1>8, <1>9, Moves

\* The updates say what the events say, and a new runner has no pod.
LEMMA FaithfulStep ==
  ASSUME IInv, [Next]_vars, NEW s, StatusWorker = {s}, Told, Faithful
  PROVE  Faithful'
<1>1. s \in StatusWorker /\ s \in Worker
  BY DEF Worker
<1>2. ASSUME job'[s].pc = "compute"
      PROVE  /\ job'[s].row.podStatus = job'[s].ev.phase
             /\ job'[s].row.status \in {job'[s].ev.phase, "CANCELLED"}
  <2>1. CASE job'[s] = job[s]
    <3>1. job[s].pc = "compute"
      BY <1>2, <2>1
    <3>2. job[s].row.podStatus = job[s].ev.phase /\ job[s].row.status \in {job[s].ev.phase, "CANCELLED"}
      BY <1>1, <3>1 DEF Faithful
    <3> QED
      BY <2>1, <3>2
  <2>2. CASE BeginStatus(s) /\ job'[s] # job[s]
    <3>1. PICK ev \in Messages(statusQ), x \in RunnerRow :
            /\ ev \in StatusEvent
            /\ job'[s] = [pc |-> "compute", runner |-> ev.runner, ev |-> ev,
                          row |-> UpdateWorkflow(ev, x), final |-> Finished(ev.runner)]
      BY <1>1, <2>2, BeginsWithHead
    <3>2. PICK y : y = UpdateWorkflow(ev, x)
      OBVIOUS
    <3>3. y.podStatus = ev.podStatus /\ y.status \in {ev.phase, "CANCELLED"}
      BY <3>1, <3>2, UpdatedByEvent
    <3>4. job'[s].ev = ev /\ job'[s].row = y
      BY <3>1, <3>2
    <3> QED
      BY <3>3, <3>4 DEF Told, TellsOfPod
  <2> QED
    BY <1>1, <1>2, <2>1, <2>2, StatusJob DEF Busy
<1>3. ASSUME job'[s].pc = "submit" PROVE pod'[job'[s].runner] = "none"
  <2>1. CASE job'[s] = job[s]
    <3>1. PICK r \in Runner : r = job[s].runner
      BY <1>1, <1>3, <2>1, HeldRetry DEF IInv, Shape
    <3>2. pod[r] = "none"
      BY <1>1, <1>3, <2>1, <3>1 DEF Faithful
    <3>3. ~SubmitWorkflow(s)
      <4>1. SubmitWorkflow(s) => job'[s] = Idle
        BY <1>1 DEF SubmitWorkflow, IInv, Shape, Jobs
      <4> QED
        BY <1>3, <4>1 DEF Idle
    <3>4. ASSUME NEW state, NEW ev, Shows(r, state, ev) PROVE FALSE
      <4>1. state \in {"running"} \cup Ended
        BY <3>4, PodTells DEF Shows
      <4> QED
        BY <3>2, <3>4, <4>1 DEF Shows, Ended
    <3>5. pod'[r] = pod[r]
      BY <3>3, <3>4, PodsGoOn
    <3> QED
      BY <2>1, <3>1, <3>2, <3>5
  <2>2. CASE CreateRetry(s)
    <3>1. PICK new \in Runner : \E k :
            /\ ~Exists(new) /\ k.runner = new /\ job' = [job EXCEPT ![s] = k]
      BY <2>2 DEF CreateRetry
    <3>2. job'[s].runner = new
      BY <1>1, <3>1 DEF IInv, Shape, Jobs
    <3>3. pod[new] = "none" /\ UNCHANGED pod
      BY <2>2, <3>1 DEF IInv, Shape, Pods, CreateRetry
    <3> QED
      BY <3>2, <3>3
  <2>3. BeginStatus(s) => job'[s] = job[s] \/ job'[s].pc = "compute"
    BY <1>1, BeginsWithHead
  <2> QED
    BY <1>1, <1>3, <2>1, <2>2, <2>3, StatusJob DEF Busy
<1>4. ASSUME NEW w \in Worker \ StatusWorker, job'[w].pc = "compute"
      PROVE  job'[w].row.status \in {"Succeeded", "Failed", "CANCELLED"}
  <2>1. job'[w] = job[w] => job'[w].row.status \in {"Succeeded", "Failed", "CANCELLED"}
    BY <1>4 DEF Faithful
  <2>2. ~ComputeStages(w)
    BY <1>4, Computed
  <2> QED
    BY <1>4, <2>1, <2>2, OthersJob
<1> QED
  BY <1>2, <1>3, <1>4 DEF Faithful
-----------------------------------------------------------------------------
(* A runner that is not torn *)

\* The event in hand: it is being applied, was applied, or comes again.
LEMMA HandStep ==
  ASSUME IInv, [Next]_vars, NEW s, StatusWorker = {s}
  PROVE  /\ Unwritten(s) =>
              \/ Busy(s)' /\ Unwritten(s)' /\ job'[s].ev = job[s].ev
              \/ Busy(s)' /\ ~Unwritten(s)' /\ job'[s].ev = job[s].ev /\ WriteRow(s)
              \/ ~Busy(s)' /\ job[s].ev \in Messages(statusQ')
         /\ Busy(s)' =>
              \/ /\ Busy(s) /\ job'[s].ev = job[s].ev
                 /\ Unwritten(s)' => Unwritten(s)
                 /\ (Unwritten(s) /\ ~Unwritten(s)') => WriteRow(s)
              \/ /\ BeginStatus(s) /\ ~Busy(s) /\ Unwritten(s)' /\ job'[s].ev = Head(statusQ)
                 /\ Head(statusQ) \in Messages(statusQ)
<1>1. s \in StatusWorker /\ s \in Worker /\ s # User /\ s \notin CompleteWorker /\ s \in DOMAIN job
  BY WorkerAssumption DEF Worker, IInv, Shape, Jobs
<1>2. Crash => ~Busy(s)' /\ (Busy(s) => job[s].ev \in Messages(statusQ'))
  <2>1. Crash => job'[s] = Idle
    BY <1>1 DEF Crash
  <2> QED
    BY <1>1, <2>1, QueueHolds DEF Busy, Idle
<1>3. ComputeStages(s) => /\ job[s].pc = "compute" /\ job'[s].pc = "write"
                          /\ job'[s].ev = job[s].ev
  BY <1>1, Computed
<1>4. WriteRow(s) => /\ job[s].pc = "write" /\ job'[s].pc = "reread" /\ job'[s].ev = job[s].ev
  BY <1>1 DEF WriteRow
<1>5. ASSUME BeginStatus(s)
      PROVE  /\ ~Busy(s)
             /\ job'[s] # job[s] => /\ Busy(s)' /\ Unwritten(s)' /\ job'[s].ev = Head(statusQ)
                                    /\ Head(statusQ) \in Messages(statusQ)
  <2>1. \E ev \in Messages(statusQ) :
          /\ ev = Head(statusQ) /\ ~Busy(s)
          /\ (Busy(s)' /\ Unwritten(s)' /\ job'[s].ev = ev) \/ UNCHANGED job
    BY <1>1, <1>5, BeginsWithHead
  <2> QED
    BY <2>1
<1>6. ASSUME NEW w \in StatusWorker, StatusStep(w), ~BeginStatus(s)
      PROVE  /\ job[s].pc \in {"reread", "create", "submit"} /\ ~Unwritten(s)'
             /\ Busy(s)' => job'[s].ev = job[s].ev
  <2>1. w = s
    OBVIOUS
  <2>2. job[s].pc \in {"reread", "create", "submit"}
    BY <1>6, <2>1 DEF StatusStep, CheckReTrigger, CreateRetry, RetryFails, SubmitWorkflow, SubmitFails
  <2>3. RetryFails(s) \/ SubmitWorkflow(s) \/ SubmitFails(s) => job'[s] = Idle
    BY <1>1 DEF RetryFails, SubmitWorkflow, SubmitFails
  <2>4. CheckReTrigger(s) => job'[s] = Idle \/ job'[s] = [job[s] EXCEPT !.pc = "create"]
    BY <1>1 DEF CheckReTrigger
  <2>5. [job[s] EXCEPT !.pc = "create"].pc = "create" /\ [job[s] EXCEPT !.pc = "create"].ev = job[s].ev
    <3>1. PICK k : k = job[s]
      OBVIOUS
    <3>2. k = [pc |-> k.pc, runner |-> k.runner, ev |-> k.ev, status |-> k.status, final |-> k.final]
      BY <1>1, <2>2, <3>1, HeldRetry DEF IInv, Shape
    <3>3. [k EXCEPT !.pc = "create"].pc = "create" /\ [k EXCEPT !.pc = "create"].ev = k.ev
      BY <3>2
    <3> QED
      BY <3>1, <3>3
  <2>6. CreateRetry(s) => job'[s].pc = "submit" /\ job'[s].ev = job[s].ev
    <3> SUFFICES ASSUME CreateRetry(s) PROVE job'[s].pc = "submit" /\ job'[s].ev = job[s].ev
      OBVIOUS
    <3>1. PICK new : job' = [job EXCEPT ![s] = [pc |-> "submit", runner |-> new, ev |-> job[s].ev,
                                     status |-> job[s].status, final |-> job[s].final]]
      BY DEF CreateRetry
    <3> QED
      BY <1>1, <3>1
  <2>7. Idle.pc = "idle"
    BY DEF Idle
  <2>8. RetryFails(s) \/ SubmitWorkflow(s) \/ SubmitFails(s) \/ CheckReTrigger(s) \/ CreateRetry(s)
    BY <1>6, <2>1 DEF StatusStep
  <2>9. job'[s].pc \in {"idle", "create", "submit"} /\ (job'[s].pc # "idle" => job'[s].ev = job[s].ev)
    BY <2>3, <2>4, <2>5, <2>6, <2>7, <2>8
  <2> QED
    BY <2>2, <2>9 DEF Unwritten, Busy
<1> QED
  BY <1>1, <1>2, <1>3, <1>4, <1>5, <1>6, Moves DEF Busy, Unwritten

\* What a status worker writes of its event.
LEMMA StatusWritten ==
  ASSUME [Next]_vars, NEW s, NEW r, Settling(s, r), r \notin torn', WriteRow(s), Held(s, r)
  PROVE  /\ Starts(job[s].ev) => Started(row'[r])
         /\ ~Starts(job[s].ev) => Closed(row'[r])
<1>1. s \in StatusWorker /\ s \in Worker /\ job[s].pc = "write"
  BY DEF Settling, Worker, WriteRow
<1>2. job[s].runner = r
  BY <1>1 DEF Settling, Carried, Held
<1>3. row'[r] = job[s].row
  BY <1>1, <1>2 DEF WriteRow, Settling, IInv, Shape, Rows
<1>4. Writes(s)
  BY <1>1, <1>2 DEF Settling, RunnerInv
<1>5. PICK y : y = job[s].row
  OBVIOUS
<1> QED
  BY <1>1, <1>3, <1>4, <1>5 DEF Writes

\* A runner whose pod ended and whose rows are closed stays so.
LEMMA OverStays ==
  ASSUME [Next]_vars, NEW s, NEW r, Settling(s, r), r \notin torn', Over(r)
  PROVE  Over(r)'
<1> USE DEF Settling
<1>1. s \in StatusWorker /\ s \in Worker
  BY DEF Worker
<1>2. pod[r] \in Ended /\ pod'[r] \in Ended
  BY PodsGoOn DEF Over
<1>3. Exists(r)
  BY <1>2 DEF IInv, Shape, Pods, Ended
<1>4. ASSUME NEW ev \in Messages(statusQ'), ev.runner = r, Starts(ev) PROVE FALSE
  <2>1. ASSUME NEW x \in Runner, NEW state, Shows(x, state, ev) PROVE FALSE
    <3>1. ev.runner = x /\ (Starts(ev) <=> state = "running")
      BY <2>1, PodTells DEF Shows
    <3> QED
      BY <1>2, <1>4, <2>1, <3>1 DEF Shows, Ended
  <2>2. ev \in Messages(statusQ) \/ (Busy(s) /\ ev = job[s].ev)
    BY <2>1, LineHolds
  <2> QED
    BY <1>1, <1>4, <2>2 DEF Over, StartNear, Held
<1>5. ASSUME Busy(s)', NEW ev, ev = job'[s].ev, ev.runner = r, Starts(ev) PROVE FALSE
  BY <1>1, <1>5, LineHolds DEF Over, StartNear, Held
<1>6. ~StartNear(r)'
  <2>1. PICK ev : ev = job'[s].ev
    OBVIOUS
  <2>2. ~(Busy(s)' /\ ev.runner = r /\ Starts(ev))
    BY <1>5, <2>1
  <2> QED
    BY <1>4, <2>1, <2>2 DEF StartNear, Held, Starts
<1>7. Closed(row'[r])
  <2>1. CASE row'[r] = row[r]
    BY <2>1 DEF Over
  <2>2. ASSUME NEW w \in Worker, job[w].pc = "write", job[w].runner = r,
               row[r] = job[w].base, row'[r] = job[w].row
        PROVE  Closed(row'[r])
    <3>1. Writes(w)
      BY <2>2 DEF RunnerInv
    <3>2. w \in StatusWorker => ~Starts(job[w].ev)
      <4>1. w \in StatusWorker => Held(w, r)
        BY <2>2 DEF Carried, Held, Busy
      <4> QED
        BY <4>1 DEF Over, StartNear
    <3>3. PICK x, y : x = row[r] /\ y = row'[r]
      OBVIOUS
    <3> QED
      BY <2>2, <3>1, <3>2, <3>3 DEF Writes, Over
  <2>3. ASSUME NEW w \in StatusWorker, job[w].pc = "submit", job[w].runner = r PROVE FALSE
    BY <1>2, <2>3 DEF Faithful, Ended
  <2> QED
    BY <1>3, <2>1, <2>2, <2>3, RunnerWritten
<1> QED
  BY <1>2, <1>6, <1>7 DEF Over, Closed
\* What is about to be written opens and closes the rows as it should.
LEMMA WritesStep ==
  ASSUME [Next]_vars, NEW s, NEW r, Settling(s, r), r \notin torn', NEW w \in Worker,
         job'[w].pc = "write", job'[w].runner = r
  PROVE  Writes(w)'
<1> USE DEF Settling
<1>1. CASE job'[w] = job[w]
  <2>1. Writes(w)
    BY <1>1 DEF RunnerInv
  <2> QED
    BY <1>1, <2>1 DEF Writes, Started, Closed, Starts
<1>2. CASE ComputeStages(w)
  <2>1. PICK saved \in RunnerRow, upd \in RunnerRow, y \in RunnerRow, x \in RunnerRow :
           /\ job[w].pc = "compute" /\ r = job[w].runner /\ Exists(r) /\ saved = job[w].row
           /\ x = row[r]
           /\ upd = UpdateWorkflowStages(x, saved.status, saved.podStatus, saved.message)
           /\ y.status = upd.status /\ y.podStatus = upd.podStatus /\ y.prep = upd.prep
           /\ y.exec = upd.exec /\ y.pod = upd.pod
           /\ job'[w].ev = job[w].ev /\ job'[w].base = x /\ job'[w].row = y
    BY <1>2, Computed
  <2>2. PICK p, st : p \in PodPhase /\ p = saved.podStatus /\ st = saved.status
    BY <2>1 DEF RunnerRow
  <2>3. /\ p = "Running" => Started(upd)
        /\ upd.podStatus = "Running" => p = "Running"
        /\ (Started(x) /\ (p = "Pending" => st \in {"Succeeded", "Failed", "CANCELLED"})) => Started(upd)
        /\ (p \in {"Failed", "Error"} /\ st \in {"Failed", "Error", "CANCELLED"}) => Closed(upd)
        /\ (p = "Succeeded" /\ st \in {"Succeeded", "CANCELLED"} /\ Started(x)) => Closed(upd)
        /\ (/\ Closed(x) /\ (p = "Running" => Started(x))
            /\ (p = "Pending" => st \in {"Succeeded", "Failed", "CANCELLED"})) => Closed(upd)
    BY <2>1, <2>2, UpdateSettles
  <2>4. (Started(y) <=> Started(upd)) /\ (Closed(y) <=> Closed(upd))
    BY <2>1 DEF Started, Closed
  <2>5. PICK e : e = job[w].ev
    OBVIOUS
  <2>6. ASSUME w \in StatusWorker
        PROVE  /\ p = e.phase /\ st \in {e.phase, "CANCELLED"} /\ p # "Pending"
               /\ e.phase = "Succeeded" => Started(x)
    <3>1. Busy(w) /\ Held(w, r)
      BY <2>1, <2>6 DEF Busy, Held, Carried
    <3>2. p = e.phase /\ st \in {e.phase, "CANCELLED"}
      BY <2>1, <2>2, <2>5, <2>6 DEF Faithful
    <3>3. e.phase # "Pending"
      BY <2>5, <2>6, <3>1 DEF Told, TellsOfPod
    <3>4. e.phase = "Succeeded" => Started(x)
      BY <2>1, <2>5, <2>6, <3>1 DEF RunnerInv, StartedFirst
    <3> QED
      BY <3>2, <3>3, <3>4
  <2>7. ASSUME w \notin StatusWorker
        PROVE  /\ st \in {"Succeeded", "Failed", "CANCELLED"}
               /\ p = "Running" => Started(x)
    BY <2>1, <2>2, <2>7 DEF Faithful, RunnerInv, StartedFirst
  <2>8. /\ Started(x) => Started(y)
        /\ y.podStatus = "Running" => Started(y)
        /\ w \in StatusWorker => IF Starts(e) THEN Started(y) ELSE Closed(y)
        /\ Closed(x) /\ (w \in StatusWorker => ~Starts(e)) => Closed(y)
    <3>1. CASE w \in StatusWorker
      <4>1. /\ p = e.phase /\ st \in {e.phase, "CANCELLED"} /\ p # "Pending"
            /\ e.phase = "Succeeded" => Started(x)
        BY <2>6, <3>1
      <4>2. p \in {"Running", "Succeeded", "Failed", "Error"}
        BY <2>2, <4>1 DEF PodPhase
      <4>3. Started(x) => Started(y)
        BY <2>3, <2>4, <4>1
      <4>4. y.podStatus = "Running" => Started(y)
        BY <2>1, <2>3, <2>4
      <4>5. Starts(e) => Started(y)
        BY <2>3, <2>4, <4>1 DEF Starts
      <4>6. ~Starts(e) => Closed(y)
        BY <2>3, <2>4, <4>1, <4>2 DEF Starts
      <4> QED
        BY <3>1, <4>3, <4>4, <4>5, <4>6
    <3>2. CASE w \notin StatusWorker
      BY <2>1, <2>3, <2>4, <2>7, <3>2
    <3> QED
      BY <3>1, <3>2
  <2>9. job'[w].base = x /\ job'[w].row = y /\ job'[w].ev = e
    BY <2>1, <2>5
  <2> QED
    BY <2>8, <2>9 DEF Writes, Started, Closed, Starts
<1>3. job'[w] = job[w] \/ ComputeStages(w)
  <2>1. CASE w \in StatusWorker
    <3>1. BeginStatus(w) => job'[w] = job[w] \/ job'[w].pc = "compute"
      BY <2>1, BeginsWithHead
    <3>2. job'[w].pc # "idle"
      OBVIOUS
    <3> QED
      BY <2>1, <3>1, <3>2, StatusJob DEF Busy
  <2>2. CASE w \notin StatusWorker
    BY <2>2, OthersJob
  <2> QED
    BY <2>1, <2>2
<1> QED
  BY <1>1, <1>2, <1>3

\* Once the end of a pod is written, its runner is as it will stay.
LEMMA EndWritten ==
  ASSUME [Next]_vars, NEW s, NEW r, Settling(s, r), r \notin torn', WriteRow(s), Held(s, r),
         ~Starts(job[s].ev)
  PROVE  Over(r)'
<1> USE DEF Settling
<1>1. s \in StatusWorker /\ s \in Worker /\ job[s].pc = "write"
  BY DEF Worker, WriteRow
<1>2. Closed(row'[r])
  BY StatusWritten
<1>3. \A ev \in Messages(statusQ) : ~(ev.runner = r /\ Starts(ev))
  BY <1>1 DEF InOrder, ComesFirst, Held
<1>4. UNCHANGED <<statusQ, pod>> /\ pod[r] \in Ended
  BY <1>1 DEF WriteRow, Told, TellsOfPod, Held
<1>5. job'[s].ev = job[s].ev
  BY <1>1 DEF WriteRow, IInv, Shape, Jobs
<1>6. ~StartNear(r)'
  BY <1>3, <1>4, <1>5 DEF StartNear, Held, Starts, Messages
<1> QED
  BY <1>2, <1>4, <1>6 DEF Over, Closed

\* An end of a pod is still to be applied, or was.
LEMMA EndedStep ==
  ASSUME [Next]_vars, NEW s, NEW r, Settling(s, r), r \notin torn', pod'[r] \in Ended
  PROVE  EndPending(r)' \/ Over(r)'
<1> USE DEF Settling
<1>1. s \in StatusWorker /\ s \in Worker
  BY DEF Worker
<1>2. ASSUME NEW state, NEW ev, Shows(r, state, ev), pod'[r] = state PROVE EndPending(r)'
  <2>1. ev.runner = r /\ (Starts(ev) <=> state = "running") /\ ev \in StatusEvent
    BY <1>2, PodTells DEF Shows
  <2>2. ~Starts(ev)
    BY <1>2, <2>1 DEF Ended
  <2>3. PICK q : q = Append(statusQ, ev)
    OBVIOUS
  <2>4. ev \in Messages(q)
    <3>1. statusQ \in Seq(StatusEvent)
      BY IInvTypes DEF TypeOK
    <3> QED
      BY <2>1, <2>3, <3>1, QueueEnds
  <2>5. statusQ' = q
    BY <1>2, <2>3 DEF Shows
  <2> QED
    BY <2>1, <2>2, <2>4, <2>5 DEF EndPending
<1>3. ASSUME NEW ev \in Messages(statusQ), ev.runner = r, ~Starts(ev)
      PROVE  EndPending(r)' \/ Over(r)'
  <2>1. CASE ev \in Messages(statusQ')
    BY <1>3, <2>1 DEF EndPending
  <2>2. CASE BeginStatus(s) /\ ev = Head(statusQ)
    <3>1. PICK x \in RunnerRow :
            /\ x = row[r] /\ UNCHANGED row
            /\ \/ Busy(s)' /\ Unwritten(s)' /\ job'[s].ev = ev
               \/ ~stateChanged(ev, x)
      BY <1>1, <1>3, <2>2, BeginsWithHead
    <3>2. CASE Busy(s)' /\ Unwritten(s)' /\ job'[s].ev = ev
      BY <1>1, <1>3, <3>2 DEF EndPending, Held
    <3>3. CASE ~stateChanged(ev, x)
      <4>1. ev.finished
        BY <1>3 DEF Told, TellsOfPod
      <4>2. row[r].finished
        BY <3>1, <3>3, <4>1 DEF stateChanged
      <4>3. pod[r] # "none"
        BY <1>3 DEF Told, TellsOfPod
      <4>4. Over(r)
        BY <4>2, <4>3 DEF RunnerInv, Live, FinishSeen
      <4> QED
        BY <4>4, OverStays
    <3> QED
      BY <3>1, <3>2, <3>3
  <2> QED
    BY <2>1, <2>2, LineHolds
<1>4. ASSUME Held(s, r), Unwritten(s), ~Starts(job[s].ev)
      PROVE  EndPending(r)' \/ Over(r)'
  <2>1. CASE Busy(s)' /\ Unwritten(s)' /\ job'[s].ev = job[s].ev
    BY <1>1, <1>4, <2>1 DEF EndPending, Held
  <2>2. CASE WriteRow(s)
    BY <1>4, <2>2, EndWritten
  <2>3. CASE job[s].ev \in Messages(statusQ')
    BY <1>4, <2>3 DEF EndPending, Held
  <2> QED
    BY <1>4, <2>1, <2>2, <2>3, HandStep
<1>5. CASE pod[r] \in Ended
  <2>1. CASE Over(r)
    BY <2>1, OverStays
  <2>2. CASE EndPending(r)
    BY <1>1, <1>3, <1>4, <2>2 DEF EndPending
  <2> QED
    BY <1>5, <2>1, <2>2 DEF RunnerInv
<1>6. CASE pod[r] \notin Ended
  <2>1. pod'[r] # pod[r] /\ pod'[r] # "pending"
    BY <1>6 DEF Ended
  <2>2. PICK state, ev : Shows(r, state, ev) /\ pod'[r] = state
    BY <2>1, PodsGoOn
  <2> QED
    BY <1>2, <2>2
<1> QED
  BY <1>5, <1>6

\* Who has seen a runner finished has seen it settled.
LEMMA FinishedStep ==
  ASSUME [Next]_vars, NEW s, NEW r, Settling(s, r), r \notin torn', Live(r)', FinishSeen(r)'
  PROVE  Over(r)'
<1> USE DEF Settling
<1>1. s \in StatusWorker /\ s \in Worker /\ s \in DOMAIN job /\ row \in [Runner -> RunnerRow]
  BY DEF Worker, IInv, Shape, Jobs, Rows
<1>2. ASSUME job'[s].pc = "submit", job'[s].runner = r
      PROVE  \/ job[s].pc = "submit" /\ job[s].runner = r
             \/ /\ ~Exists(r) /\ row'[r].finished = FALSE
                /\ \A w \in Worker : w # s => job'[w] = job[w]
  <2>1. CASE job'[s] = job[s]
    BY <1>2, <2>1
  <2>2. CASE CreateRetry(s)
    <3>0. PICK new \in Runner :
            /\ ~Exists(new)
            /\ row' = [row EXCEPT ![new] =
                 [status |-> StartingRows.status, podStatus |-> StartingRows.podStatus,
                  prep |-> StartingRows.prep, exec |-> StartingRows.exec,
                  pod |-> StartingRows.pod, message |-> "", finished |-> FALSE,
                  ref |-> Original(job[s].runner)]]
            /\ job' = [job EXCEPT ![s] = [pc |-> "submit", runner |-> new, ev |-> job[s].ev,
                                          status |-> job[s].status, final |-> job[s].final]]
      BY <2>2 DEF CreateRetry
    <3>1. PICK k, rec :
            /\ new \in Runner /\ ~Exists(new) /\ k.runner = new /\ job' = [job EXCEPT ![s] = k]
            /\ rec.finished = FALSE /\ row' = [row EXCEPT ![new] = rec]
      <4>1. PICK k : k = [pc |-> "submit", runner |-> new, ev |-> job[s].ev,
                          status |-> job[s].status, final |-> job[s].final]
        OBVIOUS
      <4>2. PICK rec : rec = [status |-> StartingRows.status, podStatus |-> StartingRows.podStatus,
                              prep |-> StartingRows.prep, exec |-> StartingRows.exec,
                              pod |-> StartingRows.pod, message |-> "", finished |-> FALSE,
                              ref |-> Original(job[s].runner)]
        OBVIOUS
      <4>3. k.runner = new /\ rec.finished = FALSE
        BY <4>1, <4>2
      <4>4. job' = [job EXCEPT ![s] = k] /\ row' = [row EXCEPT ![new] = rec]
        BY <3>0, <4>1, <4>2
      <4> QED
        BY <3>0, <4>3, <4>4
    <3>2. new = r
      BY <1>1, <1>2, <3>1
    <3>3. row'[r] = rec /\ \A w \in Worker : w # s => job'[w] = job[w]
      BY <1>1, <3>1, <3>2
    <3> QED
      BY <3>1, <3>2, <3>3
  <2>3. BeginStatus(s) => job'[s] = job[s] \/ job'[s].pc = "compute"
    BY <1>1, BeginsWithHead
  <2> QED
    BY <1>1, <1>2, <2>1, <2>2, <2>3, StatusJob DEF Busy
<1>3. ASSUME pod[r] = "none", pod'[r] # "none" PROVE job[s].pc = "submit" /\ job[s].runner = r
  <2>1. ASSUME NEW state, NEW ev, Shows(r, state, ev) PROVE FALSE
    <3>1. state \in {"running"} \cup Ended
      BY <2>1, PodTells DEF Shows
    <3> QED
      BY <1>3, <2>1, <3>1 DEF Shows, Ended
  <2> QED
    BY <1>3, <2>1, PodsGoOn
<1>4. CASE ~Exists(r)
  <2>1. pod[r] = "none" /\ ~(job[s].pc = "submit" /\ job[s].runner = r)
    BY <1>1, <1>4, HeldRetry DEF IInv, Shape, Pods
  <2>2. job'[s].pc = "submit" /\ job'[s].runner = r
    BY <1>1, <1>3, <2>1 DEF Live
  <2>3. row'[r].finished = FALSE /\ \A w \in Worker : w # s => job'[w] = job[w]
    BY <1>2, <2>1, <2>2
  <2>4. PICK w \in Worker : job'[w].pc \in {"terminate", "compute", "write"} /\ job'[w].runner = r
    BY <2>3 DEF FinishSeen
  <2>5. w # s /\ job'[w] = job[w]
    BY <2>2, <2>3, <2>4
  <2> QED
    BY <1>4, <2>4, <2>5, HeldTerminate, HeldCompute, HeldWrite DEF IInv, Shape
<1>5. CASE Exists(r)
  <2>1. Live(r)
    BY <1>1, <1>2, <1>3, <1>5 DEF Live
  <2>2. CASE FinishSeen(r)
    BY <2>1, <2>2, OverStays DEF RunnerInv
  <2>3. ASSUME row'[r].finished, ~FinishSeen(r) PROVE Over(r)'
    <3>1. row'[r] # row[r]
      BY <2>3 DEF FinishSeen
    <3>2. ASSUME NEW w \in Worker, WriteRow(w), job[w].pc = "write", job[w].runner = r,
                 row'[r] = job[w].row
          PROVE  Over(r)'
      <4>1. w = s /\ ~Starts(job[w].ev)
        BY <2>3, <3>2 DEF FinishSeen
      <4>2. Held(s, r)
        BY <1>1, <3>2, <4>1 DEF Carried, Held, Busy
      <4> QED
        BY <3>2, <4>1, <4>2, EndWritten
    <3>3. ASSUME NEW w \in StatusWorker, SubmitFails(w), job[w].pc = "submit", job[w].runner = r
          PROVE  FALSE
      <4>1. w = s /\ pod[r] = "none" /\ UNCHANGED pod
        BY <3>3 DEF Faithful, SubmitFails
      <4>2. job'[s] = Idle
        BY <1>1, <3>3, <4>1 DEF SubmitFails
      <4> QED
        BY <4>1, <4>2 DEF Live, Idle
    <3> QED
      BY <1>5, <3>1, <3>2, <3>3, RunnerWritten
  <2>4. ASSUME NEW w \in Worker, job'[w].pc \in {"terminate", "compute", "write"},
               job'[w].runner = r, job'[w].row.finished,
               w \in StatusWorker => Starts(job'[w].ev)
        PROVE  FinishSeen(r)
    <3>1. CASE job'[w] = job[w]
      BY <2>4, <3>1 DEF FinishSeen
    <3>2. CASE ComputeStages(w)
      <4>1. /\ job[w].pc = "compute" /\ r = job[w].runner /\ job'[w].ev = job[w].ev
            /\ job[w].row.finished
        BY <2>4, <3>2, Computed
      <4> QED
        BY <2>4, <4>1 DEF FinishSeen
    <3>3. CASE w \in StatusWorker /\ BeginStatus(w) /\ job'[w] # job[w]
      <4>1. PICK ev \in Messages(statusQ), x \in RunnerRow :
              /\ ev \in StatusEvent /\ x = row[ev.runner]
              /\ job'[w] = [pc |-> "compute", runner |-> ev.runner, ev |-> ev,
                            row |-> UpdateWorkflow(ev, x), final |-> Finished(ev.runner)]
        BY <3>3, BeginsWithHead
      <4>2. PICK y : y = UpdateWorkflow(ev, x)
        OBVIOUS
      <4>3. y.finished \in {x.finished, ev.finished}
        BY <4>1, <4>2, UpdatedByEvent
      <4>4. job'[w].ev = ev /\ job'[w].row = y /\ job'[w].runner = ev.runner
        BY <4>1, <4>2
      <4>5. ev.finished = FALSE
        BY <2>4, <3>3, <4>4 DEF Told, TellsOfPod
      <4>6. x.finished /\ x = row[r]
        BY <2>4, <4>1, <4>3, <4>4, <4>5
      <4> QED
        BY <4>6 DEF FinishSeen
    <3>4. CASE w \in StatusWorker /\ ~BeginStatus(w)
      <4>1. job'[w] = job[w] \/ ComputeStages(w)
        BY <2>4, <3>4, StatusJob DEF Busy
      <4> QED
        BY <3>1, <3>2, <4>1
    <3>5. CASE w \notin StatusWorker
      <4>1. ASSUME job'[w].row.finished = row[r].finished PROVE FinishSeen(r)
        BY <2>4, <4>1 DEF FinishSeen
      <4>2. ASSUME job[w].pc = "terminate", job[w].runner = r, job[w].row.finished PROVE FinishSeen(r)
        BY <3>5, <4>2 DEF FinishSeen
      <4> QED
        BY <2>4, <3>1, <3>2, <3>5, <4>1, <4>2, OthersJob
    <3> QED
      BY <3>1, <3>3, <3>4, <3>5
  <2> QED
    BY <2>1, <2>2, <2>3, <2>4 DEF FinishSeen
<1> QED
  BY <1>4, <1>5
\* A start in the topic is there still, in hand, or was applied.
LEMMA StartKept ==
  ASSUME [Next]_vars, NEW s, NEW r, Settling(s, r), r \notin torn', Exists(r), StartPending(r)
  PROVE  Started(row'[r]) \/ StartPending(r)'
<1> USE DEF Settling
<1>1. s \in StatusWorker /\ s \in Worker
  BY DEF Worker
<1>2. Started(row[r]) => Started(row'[r])
  BY StartedStays DEF RunnerInv
<1>3. ASSUME NEW ev \in Messages(statusQ), ev.runner = r, Starts(ev)
      PROVE  Started(row'[r]) \/ StartPending(r)'
  <2>1. CASE ev \in Messages(statusQ')
    BY <1>3, <2>1 DEF StartPending
  <2>2. CASE BeginStatus(s) /\ ev = Head(statusQ)
    <3>1. PICK x \in RunnerRow :
            /\ x = row[r]
            /\ \/ Busy(s)' /\ Unwritten(s)' /\ job'[s].ev = ev
               \/ ~stateChanged(ev, x)
      BY <1>1, <1>3, <2>2, BeginsWithHead
    <3>2. CASE Busy(s)' /\ Unwritten(s)' /\ job'[s].ev = ev
      BY <1>1, <1>3, <3>2 DEF StartPending, Held
    <3>3. CASE ~stateChanged(ev, x)
      <4>1. ev.podStatus = "Running"
        BY <1>3 DEF Told, TellsOfPod, Starts
      <4>2. row[r].podStatus = "Running"
        BY <3>1, <3>3, <4>1 DEF stateChanged
      <4> QED
        BY <1>2, <4>2 DEF RunnerInv, StartedFirst
    <3> QED
      BY <3>1, <3>2, <3>3
  <2> QED
    BY <2>1, <2>2, LineHolds
<1>4. ASSUME Held(s, r), Unwritten(s), Starts(job[s].ev)
      PROVE  Started(row'[r]) \/ StartPending(r)'
  <2>1. CASE Busy(s)' /\ Unwritten(s)' /\ job'[s].ev = job[s].ev
    BY <1>1, <1>4, <2>1 DEF StartPending, Held
  <2>2. CASE WriteRow(s)
    BY <1>4, <2>2, StatusWritten
  <2>3. CASE job[s].ev \in Messages(statusQ')
    BY <1>4, <2>3 DEF StartPending, Held
  <2> QED
    BY <1>4, <2>1, <2>2, <2>3, HandStep
<1> QED
  BY <1>1, <1>3, <1>4 DEF StartPending

\* An update written or read does not say that a pod runs before the rows are opened.
LEMMA RowsOpened ==
  ASSUME [Next]_vars, NEW s, NEW r, Settling(s, r), r \notin torn'
  PROVE  /\ row'[r].podStatus = "Running" => Started(row'[r])
         /\ \A w \in Worker \ StatusWorker :
              (/\ job'[w].pc \in {"terminate", "compute"} /\ job'[w].runner = r
               /\ job'[w].row.podStatus = "Running") => Started(row'[r])
<1> USE DEF Settling
<1>1. ASSUME row'[r].podStatus = "Running" PROVE Started(row'[r])
  <2>1. CASE row'[r] = row[r]
    BY <1>1, <2>1 DEF RunnerInv, StartedFirst
  <2>2. ASSUME NEW w \in Worker, job[w].pc = "write", job[w].runner = r, row'[r] = job[w].row
        PROVE  Started(row'[r])
    <3>1. Writes(w)
      BY <2>2 DEF RunnerInv
    <3>2. PICK y : y = job[w].row
      OBVIOUS
    <3> QED
      BY <1>1, <2>2, <3>1, <3>2 DEF Writes
  <2>3. ASSUME NEW upd \in RunnerRow, row[r] \in RunnerRow, row[r].podStatus \in PodPhase,
               upd = UpdateWorkflowStages(row[r], "Failed", row[r].podStatus, "exit"),
               row'[r].podStatus = upd.podStatus,
               row'[r].prep = upd.prep, row'[r].exec = upd.exec, row'[r].pod = upd.pod
        PROVE  Started(row'[r])
    <3>1. Started(upd)
      BY <1>1, <2>3, UpdateSettles
    <3> QED
      BY <2>3, <3>1 DEF Started
  <2> QED
    BY <1>1, <2>1, <2>2, <2>3, RunnerWritten
<1>2. ASSUME NEW w \in Worker \ StatusWorker, job'[w].pc \in {"terminate", "compute"},
             job'[w].runner = r, job'[w].row.podStatus = "Running"
      PROVE  Started(row'[r])
  <2>1. ASSUME job[w].pc \in {"terminate", "compute"}, job[w].runner = r,
               job[w].row.podStatus = "Running"
        PROVE  Started(row'[r])
    <3>1. Started(row[r])
      BY <1>2, <2>1 DEF RunnerInv, StartedFirst
    <3>2. Exists(r)
      BY <1>2, <2>1, HeldCompute, HeldTerminate DEF IInv, Shape
    <3> QED
      BY <3>1, <3>2, StartedStays DEF RunnerInv
  <2>2. ASSUME job'[w].row.podStatus = row[r].podStatus, UNCHANGED row PROVE Started(row'[r])
    BY <1>1, <1>2, <2>2
  <2>3. ~ComputeStages(w)
    BY <1>2, Computed
  <2> QED
    BY <1>2, <2>1, <2>2, <2>3, OthersJob
<1> QED
  BY <1>1, <1>2

\* No success is in hand, and none comes up, before the rows are opened.
LEMMA SuccessAfterStart ==
  ASSUME [Next]_vars, NEW s, NEW r, Settling(s, r), r \notin torn'
  PROVE  /\ Held(s, r)' /\ (job'[s].ev.phase = "Succeeded" \/ (Starts(job'[s].ev) /\ ~Unwritten(s)')) =>
              Started(row'[r])
         /\ Unopened(statusQ', r) =>
              \/ Started(row'[r])
              \/ Held(s, r)' /\ Unwritten(s)' /\ Starts(job'[s].ev)
<1> USE DEF Settling
<1>1. s \in StatusWorker /\ s \in Worker
      /\ statusQ \in Seq(StatusEvent) /\ (Busy(s) => job[s].ev \in StatusEvent /\ Exists(job[s].ev.runner))
      /\ \A ev \in Messages(statusQ) : ev \in StatusEvent /\ Exists(ev.runner)
  <2>1. s \in StatusWorker /\ s \in Worker /\ statusQ \in Seq(Known(StatusEvent))
        /\ statusQ \in Seq(StatusEvent)
    BY IInvTypes DEF TypeOK, Worker, IInv, Shape, Queues
  <2>2. \A i \in 1 .. Len(statusQ) : statusQ[i] \in Known(StatusEvent)
    BY <2>1
  <2> QED
    BY <2>1, <2>2, TakenTyped DEF IInv, Shape, Known, Messages
<1>2. Exists(r) /\ Started(row[r]) => Started(row'[r])
  BY StartedStays DEF RunnerInv
<1>3. ASSUME Unopened(statusQ, r)
      PROVE  /\ Exists(r)
             /\ Started(row'[r]) \/ (Held(s, r) /\ Unwritten(s) /\ Starts(job[s].ev))
  <2>1. PICK j \in 1 .. Len(statusQ) : statusQ[j].runner = r
    BY <1>3 DEF Unopened
  <2>2. statusQ[j] \in Messages(statusQ)
    BY DEF Messages
  <2>3. Exists(r)
    BY <1>1, <2>1, <2>2
  <2> QED
    BY <1>1, <1>2, <1>3, <2>3 DEF RunnerInv, StartedFirst
<1>4. ASSUME Held(s, r)', job'[s].ev.phase = "Succeeded" \/ (Starts(job'[s].ev) /\ ~Unwritten(s)')
      PROVE  Started(row'[r])
  <2>1. ASSUME Busy(s), job'[s].ev = job[s].ev, (Unwritten(s) /\ ~Unwritten(s)') => WriteRow(s)
        PROVE  Started(row'[r])
    <3>1. Held(s, r) /\ Exists(r)
      BY <1>1, <1>4, <2>1 DEF Held
    <3>2. CASE job[s].ev.phase = "Succeeded" \/ (Starts(job[s].ev) /\ ~Unwritten(s))
      BY <1>1, <1>2, <3>1, <3>2 DEF RunnerInv, StartedFirst
    <3>3. CASE Starts(job[s].ev) /\ WriteRow(s)
      BY <3>1, <3>3, StatusWritten
    <3> QED
      BY <1>4, <2>1, <3>2, <3>3
  <2>2. ASSUME BeginStatus(s), Unwritten(s)', job'[s].ev = Head(statusQ), ~Busy(s)
        PROVE  Started(row'[r])
    <3>1. PICK e : e = Head(statusQ)
      OBVIOUS
    <3>2. statusQ # <<>>
      BY <2>2 DEF BeginStatus
    <3>3. e.runner = r /\ e.phase = "Succeeded"
      BY <1>4, <2>2, <3>1 DEF Held
    <3>4. Unopened(statusQ, r)
      <4>1. PICK q : q = Tail(statusQ)
        OBVIOUS
      <4> QED
        BY <1>1, <3>1, <3>2, <3>3, <4>1, OrderedTail
    <3> QED
      BY <1>3, <2>2, <3>4 DEF Held
  <2>3. Busy(s)'
    BY <1>4 DEF Held, Busy
  <2> QED
    BY <2>1, <2>2, <2>3, HandStep
<1> DEFINE Goal == \/ Started(row'[r])
                   \/ Held(s, r)' /\ Unwritten(s)' /\ Starts(job'[s].ev)
<1>5. ASSUME Held(s, r), Unwritten(s), Starts(job[s].ev)
      PROVE  Goal \/ (~Busy(s)' /\ job[s].ev \in Messages(statusQ'))
  <2>1. CASE Busy(s)' /\ Unwritten(s)' /\ job'[s].ev = job[s].ev
    BY <1>5, <2>1 DEF Held
  <2>2. CASE WriteRow(s)
    BY <1>5, <2>2, StatusWritten
  <2> QED
    BY <1>5, <2>1, <2>2, HandStep
<1>6. ASSUME Unopened(statusQ, r), Busy(s)' \/ ~Busy(s) PROVE Goal
  <2> HIDE DEF Goal
  <2> QED
    BY <1>3, <1>5, <1>6 DEF Held, Goal
<1>7. ASSUME NEW x \in Runner, NEW state, NEW ev, Shows(x, state, ev), Unopened(statusQ', r),
             job'[s] = job[s]
      PROVE  Goal
  <2>1. PICK new : new = Append(statusQ, ev)
    OBVIOUS
  <2>2. /\ ev \in StatusEvent /\ ev.runner = x /\ (Starts(ev) <=> state = "running")
        /\ ev.phase = "Succeeded" => state = "succeeded"
    BY <1>7, PodTells DEF Shows
  <2>3. Starts(ev) => pod[x] \notin Ended
    BY <1>7, <2>2 DEF Shows, Ended
  <2>4. Starts(ev) => \A m \in Messages(statusQ) : m.runner = ev.runner => Starts(m)
    BY <2>2, <2>3 DEF Told, TellsOfPod
  <2>5. statusQ' = new
    BY <1>7, <2>1 DEF Shows
  <2>6. \/ Unopened(statusQ, r)
        \/ /\ ev.runner = r /\ ev.phase = "Succeeded"
           /\ \A m \in Messages(statusQ) : ~(m.runner = r /\ Starts(m))
    BY <1>1, <1>7, <2>1, <2>2, <2>4, <2>5, OrderedAppend
  <2>7. Busy(s)' \/ ~Busy(s)
    BY <1>7 DEF Busy
  <2>8. CASE /\ ev.runner = r /\ ev.phase = "Succeeded"
             /\ \A m \in Messages(statusQ) : ~(m.runner = r /\ Starts(m))
    <3>1. pod[r] \in {"running", "succeeded"}
      BY <1>7, <2>2, <2>8 DEF Shows
    <3>2. Exists(r)
      BY <3>1 DEF IInv, Shape, Pods
    <3>3. Started(row[r]) \/ StartPending(r)
      BY <3>1 DEF RunnerInv, StartedFirst
    <3>4. Started(row[r]) \/ (Held(s, r) /\ Unwritten(s) /\ Starts(job[s].ev))
      BY <2>8, <3>3 DEF StartPending
    <3> HIDE DEF Goal
    <3>5. (Held(s, r) /\ Unwritten(s) /\ Starts(job[s].ev)) => Goal
      BY <1>5, <2>7 DEF Held
    <3> QED
      BY <1>2, <3>2, <3>4, <3>5 DEF Goal
  <2> HIDE DEF Goal
  <2> QED
    BY <1>6, <2>6, <2>7, <2>8
<1>8. ASSUME BeginStatus(s), Unopened(statusQ', r) PROVE Goal
  <2>1. PICK ev \in Messages(statusQ), y \in RunnerRow :
           /\ ev = Head(statusQ) /\ ev \in StatusEvent /\ Exists(ev.runner)
           /\ statusQ # <<>> /\ statusQ' = Tail(statusQ) /\ ~Busy(s) /\ UNCHANGED row
           /\ y = row[ev.runner]
           /\ (Busy(s)' /\ Unwritten(s)' /\ job'[s].ev = ev) \/ ~stateChanged(ev, y)
    BY <1>1, <1>8, BeginsWithHead
  <2>2. Unopened(statusQ, r) \/ (ev.runner = r /\ Starts(ev))
    <3>1. PICK q : q = Tail(statusQ)
      OBVIOUS
    <3> QED
      BY <1>1, <1>8, <2>1, <3>1, OrderedTail
  <2>3. ASSUME ev.runner = r, Starts(ev) PROVE Goal
    <3>1. CASE Busy(s)' /\ Unwritten(s)' /\ job'[s].ev = ev
      BY <2>3, <3>1 DEF Held
    <3>2. CASE ~stateChanged(ev, y)
      <4>1. ev.podStatus = "Running"
        BY <2>3 DEF Told, TellsOfPod, Starts
      <4>2. row[r].podStatus = "Running"
        BY <2>1, <2>3, <3>2, <4>1 DEF stateChanged
      <4> QED
        BY <1>2, <2>1, <2>3, <4>2 DEF RunnerInv, StartedFirst
    <3> QED
      BY <2>1, <3>1, <3>2
  <2> HIDE DEF Goal
  <2> QED
    BY <1>6, <2>1, <2>2, <2>3
<1>9. ASSUME Busy(s), statusQ' = <<job[s].ev>> \o statusQ, Unopened(statusQ', r) PROVE Goal
  <2>1. PICK e \in StatusEvent : e = job[s].ev
    BY <1>1, <1>9
  <2>2. PICK new : new = <<e>> \o statusQ
    OBVIOUS
  <2>3. statusQ' = new
    BY <1>9, <2>1, <2>2
  <2>4. \/ e.runner = r /\ e.phase = "Succeeded"
        \/ Unopened(statusQ, r) /\ ~(e.runner = r /\ Starts(e))
    BY <1>1, <1>9, <2>2, <2>3, OrderedAgain
  <2>5. (e.runner = r /\ e.phase = "Succeeded") => Started(row'[r])
    BY <1>1, <1>2, <1>9, <2>1 DEF RunnerInv, StartedFirst, Held
  <2>6. (Unopened(statusQ, r) /\ ~(e.runner = r /\ Starts(e))) => Started(row'[r])
    BY <1>3, <2>1 DEF Held
  <2> QED
    BY <2>4, <2>5, <2>6
<1>10. ASSUME UNCHANGED statusQ, Unopened(statusQ', r), Unwritten(s) => Busy(s)' PROVE Goal
  <2>1. Unopened(statusQ, r)
    BY <1>10
  <2>2. CASE Busy(s)'
    BY <1>6, <2>1, <2>2
  <2>3. CASE ~Unwritten(s)
    BY <1>3, <2>1, <2>3
  <2> QED
    BY <1>10, <2>2, <2>3
<1>11. Unopened(statusQ', r) => Goal
  <2> HIDE DEF Goal
  <2>1. SubmitWorkflow(s) \/ CheckReTrigger(s) \/ CreateRetry(s) \/ RetryFails(s) \/ SubmitFails(s)
          => ~Unwritten(s)
    BY DEF SubmitWorkflow, CheckReTrigger, CreateRetry, RetryFails, SubmitFails, Unwritten
  <2>2. SubmitWorkflow(s) => UNCHANGED statusQ
    BY DEF SubmitWorkflow
  <2>3. ComputeStages(s) \/ WriteRow(s) => Busy(s)'
    <3>1. ComputeStages(s) => job'[s].pc = "write"
      BY <1>1, Computed
    <3>2. WriteRow(s) => job'[s].pc = "reread"
      <4>1. s \in DOMAIN job /\ s \notin CompleteWorker
        BY <1>1, WorkerAssumption DEF IInv, Shape, Jobs
      <4> QED
        BY <1>1, <4>1 DEF WriteRow
    <3> QED
      BY <3>1, <3>2 DEF Busy
  <2>4. (job'[s] = job[s] /\ Unwritten(s)) => Busy(s)'
    BY DEF Unwritten, Busy
  <2>5. Unwritten(s) => Busy(s)
    BY DEF Unwritten, Busy
  <2>6. \/ UNCHANGED statusQ /\ (Unwritten(s) => Busy(s)')
        \/ job'[s] = job[s] /\ \E x \in Runner : \E state, ev : Shows(x, state, ev)
        \/ BeginStatus(s)
        \/ Busy(s) /\ statusQ' = <<job[s].ev>> \o statusQ
    BY <2>1, <2>2, <2>3, <2>4, <2>5, LineMoves
  <2> QED
    BY <1>7, <1>8, <1>9, <1>10, <2>6
<1> QED
  BY <1>4, <1>11
\* A pod that runs has been seen so, or will be.
LEMMA StartedFirstStep ==
  ASSUME [Next]_vars, NEW s, NEW r, Settling(s, r), r \notin torn'
  PROVE  StartedFirst(r)'
<1> USE DEF Settling
<1>1. ASSUME pod'[r] \in {"running", "succeeded"} PROVE Started(row'[r]) \/ StartPending(r)'
  <2>1. CASE pod[r] \in {"running", "succeeded"}
    <3>1. Exists(r)
      BY <2>1 DEF IInv, Shape, Pods
    <3>2. Started(row[r]) \/ StartPending(r)
      BY <2>1 DEF RunnerInv, StartedFirst
    <3>3. Started(row[r]) => Started(row'[r])
      BY <3>1, StartedStays DEF RunnerInv
    <3> QED
      BY <3>1, <3>2, <3>3, StartKept
  <2>2. CASE pod[r] \notin {"running", "succeeded"}
    <3>1. PICK state, ev : Shows(r, state, ev) /\ pod'[r] = state
      BY <1>1, <2>2, PodsGoOn
    <3>2. state = "running"
      BY <1>1, <2>2, <3>1 DEF Shows, Ended
    <3>3. ev.runner = r /\ Starts(ev) /\ ev \in StatusEvent
      BY <3>1, <3>2, PodTells DEF Shows
    <3>4. PICK q : q = Append(statusQ, ev)
      OBVIOUS
    <3>5. ev \in Messages(q)
      <4>1. statusQ \in Seq(StatusEvent)
        BY IInvTypes DEF TypeOK
      <4> QED
        BY <3>3, <3>4, <4>1, QueueEnds
    <3>6. statusQ' = q
      BY <3>1, <3>4 DEF Shows
    <3> QED
      BY <3>3, <3>5, <3>6 DEF StartPending
  <2> QED
    BY <2>1, <2>2
<1>2. /\ row'[r].podStatus = "Running" => Started(row'[r])
      /\ \A w \in Worker \ StatusWorker :
           (/\ job'[w].pc \in {"terminate", "compute"} /\ job'[w].runner = r
            /\ job'[w].row.podStatus = "Running") => Started(row'[r])
  BY RowsOpened
<1>3. /\ Held(s, r)' /\ (job'[s].ev.phase = "Succeeded" \/ (Starts(job'[s].ev) /\ ~Unwritten(s)')) =>
           Started(row'[r])
      /\ Unopened(statusQ', r) =>
           \/ Started(row'[r])
           \/ Held(s, r)' /\ Unwritten(s)' /\ Starts(job'[s].ev)
  BY SuccessAfterStart
<1>4. s \in StatusWorker /\ \A w \in StatusWorker : w = s
  OBVIOUS
<1>5. \A w \in StatusWorker :
        Held(w, r)' /\ (job'[w].ev.phase = "Succeeded" \/ (Starts(job'[w].ev) /\ ~Unwritten(w)')) =>
          Started(row'[r])
  BY <1>3, <1>4
<1>6. Unopened(statusQ', r) =>
        \/ Started(row'[r])
        \/ \E w \in StatusWorker : Held(w, r)' /\ Unwritten(w)' /\ Starts(job'[w].ev)
  BY <1>3, <1>4
<1> QED
  BY <1>1, <1>2, <1>5, <1>6 DEF StartedFirst, Started, Unopened, Starts

\* Every step keeps the invariant of the stages.
LEMMA SettleStep ==
  ASSUME StagesEnabled, OneStatusWorker, IInv, Carried, SettleInv, [Next]_vars
  PROVE  SettleInv'
<1>1. PICK s : StatusWorker = {s}
  BY WorkerAssumption DEF OneStatusWorker
<1>2. Told' /\ InOrder' /\ Faithful'
  BY <1>1, ToldStep, InOrderStep, FaithfulStep DEF SettleInv
<1>3. ASSUME NEW r \in Runner, r \notin torn' PROVE RunnerInv(r)'
  <2>1. r \notin torn
    BY <1>3, RecordsGrow
  <2>2. Settling(s, r)
    BY <1>1, <2>1 DEF Settling, SettleInv
  <2>3. StartedFirst(r)'
    BY <1>3, <2>2, StartedFirstStep
  <2>4. \A w \in Worker : job'[w].pc = "write" /\ job'[w].runner = r => Writes(w)'
    BY <1>3, <2>2, WritesStep
  <2>5. pod'[r] \in Ended => EndPending(r)' \/ Over(r)'
    BY <1>3, <2>2, EndedStep
  <2>6. Live(r)' /\ FinishSeen(r)' => Over(r)'
    BY <1>3, <2>2, FinishedStep
  <2> QED
    BY <2>3, <2>4, <2>5, <2>6 DEF RunnerInv
<1> QED
  BY <1>2, <1>3 DEF SettleInv

\* At first nothing has ended and nobody is at work.
LEMMA InitSettle == Init => SettleInv
<1> SUFFICES ASSUME Init PROVE SettleInv
  OBVIOUS
<1>1. Messages(statusQ) = {} /\ Ordered(statusQ) /\ (\A r : ~Unopened(statusQ, r)) /\ Len(statusQ) = 0
  BY DEF Init, Messages, Ordered, Unopened
<1>2. \A w \in Worker : job[w].pc = "idle" /\ ~Busy(w) /\ ~Unwritten(w)
  BY DEF Init, Idle, Busy, Unwritten
<1>3. StatusWorker \subseteq Worker
  BY DEF Worker
<1>4. Told /\ InOrder /\ Faithful
  BY <1>1, <1>2, <1>3 DEF Told, InOrder, Faithful
<1>5. ASSUME NEW r \in Runner PROVE RunnerInv(r)
  <2>1. pod[r] \in {"none", "pending"}
    BY DEF Init
  <2>2. row[r].podStatus = "Pending" /\ row[r].finished = FALSE
    <3>1. NoRow.podStatus = "Pending" /\ NoRow.finished = FALSE
      BY DEF NoRow
    <3>2. PICK first : first = [NoRow EXCEPT !.status = StartingRows.status, !.prep = StartingRows.prep]
      OBVIOUS
    <3>3. first.podStatus = "Pending" /\ first.finished = FALSE
      BY <3>2 DEF NoRow
    <3>4. row[r] = first \/ row[r] = NoRow
      BY <3>2 DEF Init
    <3> QED
      BY <3>1, <3>3, <3>4
  <2>3. StartedFirst(r)
    BY <1>1, <1>2, <1>3, <2>1, <2>2 DEF StartedFirst, Held
  <2>4. ~(pod[r] \in Ended) /\ ~FinishSeen(r)
    BY <1>2, <2>1, <2>2 DEF Ended, FinishSeen
  <2>5. \A w \in Worker : job[w].pc # "write"
    BY <1>2
  <2> QED
    BY <2>3, <2>4, <2>5 DEF RunnerInv
<1> QED
  BY <1>4, <1>5 DEF SettleInv

-----------------------------------------------------------------------------
(* A reported success *)

\* What the topic of the reports holds after a step.
LEMMA ReportsHeld ==
  ASSUME IInv, [Next]_vars
  PROVE  /\ \A ev \in Messages(completeQ) :
              \/ ev \in Messages(completeQ')
              \/ \E w \in CompleteWorker : (BeginComplete(w) \/ DropComplete(w)) /\ ev = Head(completeQ)
         /\ Crash => \A w \in CompleteWorker :
              Busy(w) => [job[w].ev EXCEPT !.again = TRUE] \in Messages(completeQ')
         /\ \A r \in Runner : report'[r] = "success" =>
              \/ report[r] = "success"
              \/ \E ev \in Messages(completeQ') : ev.runner = r /\ ~ev.failed
<1> DEFINE Kept == \A ev \in Messages(completeQ) : ev \in Messages(completeQ')
<1>1. completeQ \in Seq(CompleteEvent) /\ report \in [Runner -> {"none", "success", "failure"}]
  BY IInvTypes DEF TypeOK
<1>2. UNCHANGED completeQ => Kept
  OBVIOUS
<1>3. ASSUME NEW V, V \subseteq CompleteWorker,
             completeQ' = Requeued(Redelivered(Taken(V)), completeQ)
      PROVE  /\ Kept
             /\ \A w \in V : Busy(w) => [job[w].ev EXCEPT !.again = TRUE] \in Messages(completeQ')
  <2>1. PICK W : W = {x \in V : Busy(x)}
    OBVIOUS
  <2>2. IsFiniteSet(W)
    BY <1>3, <2>1, WorkerAssumption, FS_Subset
  <2>3. PICK taken : taken = Redelivered(Taken(V))
    OBVIOUS
  <2>4. taken = [w \in W |-> [job[w].ev EXCEPT !.again = TRUE]]
    BY <2>1, <2>3 DEF Taken, Redelivered
  <2>5. \A w \in W : [job[w].ev EXCEPT !.again = TRUE] \in CompleteEvent
    BY <1>3, <2>1, TakenTyped DEF IInv, Shape, Known
  <2>6. taken \in [W -> CompleteEvent]
    BY <2>4, <2>5
  <2>7. Messages(Requeued(taken, completeQ)) = {taken[w] : w \in W} \cup Messages(completeQ)
    BY <1>1, <2>2, <2>6, RequeuedHolds
  <2>8. completeQ' = Requeued(taken, completeQ)
    BY <1>3, <2>3
  <2> QED
    BY <2>1, <2>4, <2>7, <2>8
<1>4. ASSUME NEW r \in Runner, RunnerReports(r)
      PROVE  /\ Kept
             /\ \A x \in Runner : report'[x] = "success" =>
                  \/ report[x] = "success"
                  \/ \E ev \in Messages(completeQ') : ev.runner = x /\ ~ev.failed
  <2>1. PICK outcome \in {"success", "failure"} :
          /\ report' = [report EXCEPT ![r] = outcome]
          /\ completeQ' = Append(completeQ, [runner |-> r, failed |-> outcome = "failure",
                                             again |-> FALSE])
    BY <1>4 DEF RunnerReports
  <2>2. PICK ev : ev = [runner |-> r, failed |-> outcome = "failure", again |-> FALSE]
    OBVIOUS
  <2>3. ev \in CompleteEvent /\ ev.runner = r /\ ev.failed = (outcome = "failure")
    BY <2>2 DEF CompleteEvent
  <2>4. PICK q : q = Append(completeQ, ev)
    OBVIOUS
  <2>5. Messages(q) = Messages(completeQ) \cup {ev}
    BY <1>1, <2>3, <2>4, QueueEnds
  <2>6. completeQ' = q
    BY <2>1, <2>2, <2>4
  <2>7. \A x \in Runner : report'[x] = "success" => report[x] = "success" \/ (x = r /\ outcome = "success")
    BY <1>1, <2>1
  <2> QED
    BY <2>3, <2>5, <2>6, <2>7
<1>5. ASSUME NEW w \in CompleteWorker, BeginComplete(w) \/ DropComplete(w)
      PROVE  \A ev \in Messages(completeQ) : ev \in Messages(completeQ') \/ ev = Head(completeQ)
  <2>1. completeQ # <<>> /\ completeQ' = Tail(completeQ)
    BY <1>5 DEF BeginComplete, DropComplete
  <2>2. Head(completeQ) \in CompleteEvent
    BY <1>1, <2>1
  <2>3. Messages(completeQ) = Messages(Tail(completeQ)) \cup {Head(completeQ)}
    BY <1>1, <2>1, <2>2, QueueEnds
  <2> QED
    BY <2>1, <2>3
<1>6. \/ UNCHANGED <<completeQ, report>>
      \/ \E r \in Runner : RunnerReports(r)
      \/ UNCHANGED report /\ \E w \in CompleteWorker : BeginComplete(w) \/ DropComplete(w)
      \/ UNCHANGED report /\ \E V : V \subseteq CompleteWorker /\ completeQ' = Requeued(Redelivered(Taken(V)), completeQ)
  <2>1. CASE \E r \in Runner : Cluster(r)
    BY <2>1 DEF Cluster, PodStarts, PodEnds, Resync
  <2>2. ASSUME NEW w \in Worker, ComputeStages(w) \/ WriteRow(w)
        PROVE  UNCHANGED <<completeQ, report>>
    BY <2>2 DEF ComputeStages, WriteRow
  <2>3. ASSUME NEW w \in Worker, Redeliver(w)
        PROVE  /\ UNCHANGED report
               /\ \/ UNCHANGED completeQ
                  \/ \E V : V \subseteq CompleteWorker /\ completeQ' = Requeued(Redelivered(Taken(V)), completeQ)
    <3>1. UNCHANGED report
      BY <2>3 DEF Redeliver
    <3>2. CASE w \in CompleteWorker /\ completeQ' = Requeued(Redelivered(Taken({w})), completeQ)
      <4>1. {w} \subseteq CompleteWorker
        BY <3>2
      <4> QED
        BY <3>1, <3>2, <4>1
    <3> QED
      BY <2>3, <3>1, <3>2 DEF Redeliver
  <2>4. ASSUME NEW w \in StatusWorker, StatusStep(w)
        PROVE  UNCHANGED <<completeQ, report>>
    BY <2>4 DEF StatusStep, BeginStatus, CheckReTrigger, CreateRetry, RetryFails, SubmitWorkflow, SubmitFails
  <2>5. ASSUME NEW w \in CompleteWorker, CompleteStep(w)
        PROVE  \/ UNCHANGED <<completeQ, report>>
               \/ UNCHANGED report /\ (BeginComplete(w) \/ DropComplete(w))
    BY <2>5 DEF CompleteStep, BeginComplete, DropComplete, Announce
  <2>6. CancelStage => UNCHANGED <<completeQ, report>>
    BY DEF CancelStage, BeginCancel, Terminate, TerminateFails
  <2>7. Crash => UNCHANGED report /\ completeQ' = Requeued(Redelivered(Taken(CompleteWorker)), completeQ)
    BY DEF Crash
  <2>8. UNCHANGED vars => UNCHANGED <<completeQ, report>>
    BY DEF vars
  <2> QED
    BY <2>1, <2>2, <2>3, <2>4, <2>5, <2>6, <2>7, <2>8 DEF Next
<1>7. Crash => \A w \in CompleteWorker :
        Busy(w) => [job[w].ev EXCEPT !.again = TRUE] \in Messages(completeQ')
  BY <1>3 DEF Crash
<1> HIDE DEF Kept
<1>8. \A ev \in Messages(completeQ) :
        \/ ev \in Messages(completeQ')
        \/ \E w \in CompleteWorker : (BeginComplete(w) \/ DropComplete(w)) /\ ev = Head(completeQ)
  BY <1>2, <1>3, <1>4, <1>5, <1>6 DEF Kept
<1>9. \A r \in Runner : report'[r] = "success" =>
        \/ report[r] = "success"
        \/ \E ev \in Messages(completeQ') : ev.runner = r /\ ~ev.failed
  BY <1>4, <1>6
<1> QED
  BY <1>7, <1>8, <1>9

\* A report is kept until it is handed on.
LEMMA ReportedStep ==
  ASSUME IInv, Reported, [Next]_vars
  PROVE  Reported'
<1>1. ASSUME NEW w \in CompleteWorker
      PROVE  w \in Worker /\ w \notin StatusWorker /\ w # User /\ w \in DOMAIN job
  BY WorkerAssumption DEF Worker, IInv, Shape, Jobs
<1>2. ASSUME NEW w \in CompleteWorker, BeginComplete(w)
      PROVE  /\ ~Busy(w) /\ Busy(w)' /\ job'[w].ev = Head(completeQ)
             /\ job'[w].runner = job'[w].ev.runner
  <2>1. PICK ev : ev = Head(completeQ)
    OBVIOUS
  <2>2. PICK y : y = [row[ev.runner] EXCEPT !.status = IF ev.failed THEN "Failed" ELSE "Succeeded"]
    OBVIOUS
  <2>3. \/ job' = [job EXCEPT ![w] = [pc |-> "announce", runner |-> ev.runner, ev |-> ev]]
        \/ job' = [job EXCEPT ![w] = [pc |-> "compute", runner |-> ev.runner, ev |-> ev, row |-> y,
                                      final |-> Finished(ev.runner)]]
    BY <1>2, <2>1, <2>2 DEF BeginComplete, StartUpdate
  <2>4. \/ job'[w] = [pc |-> "announce", runner |-> ev.runner, ev |-> ev]
        \/ job'[w] = [pc |-> "compute", runner |-> ev.runner, ev |-> ev, row |-> y,
                      final |-> Finished(ev.runner)]
    BY <1>1, <2>3
  <2>5. job'[w].pc # "idle" /\ job'[w].ev = ev /\ job'[w].runner = ev.runner
    BY <2>4
  <2> QED
    BY <1>2, <2>1, <2>5 DEF Busy, BeginComplete
<1>3. ASSUME NEW w \in CompleteWorker, ComputeStages(w) \/ WriteRow(w)
      PROVE  Busy(w) /\ Busy(w)' /\ job'[w].ev = job[w].ev /\ job'[w].runner = job[w].runner
  <2>1. ComputeStages(w) => /\ job[w].pc = "compute" /\ job'[w].pc = "write"
                            /\ job'[w].ev = job[w].ev /\ job'[w].runner = job[w].runner
    BY <1>1, Computed
  <2>2. WriteRow(w) => job'[w] = [pc |-> "announce", runner |-> job[w].runner, ev |-> job[w].ev]
    BY <1>1 DEF WriteRow
  <2>3. WriteRow(w) => job[w].pc = "write"
    BY DEF WriteRow
  <2> QED
    BY <1>3, <2>1, <2>2, <2>3 DEF Busy
<1>4. ASSUME NEW w \in CompleteWorker, Announce(w)
      PROVE  /\ job'[w] = Idle
             /\ ~job[w].ev.failed => job[w].runner \in announced'
  BY <1>1, <1>4 DEF Announce
<1>5. ASSUME NEW w \in CompleteWorker
      PROVE  \/ job'[w] = job[w]
             \/ Crash /\ job'[w] = Idle
             \/ BeginComplete(w)
             \/ Busy(w) /\ Busy(w)' /\ job'[w].ev = job[w].ev /\ job'[w].runner = job[w].runner
             \/ Announce(w)
  <2>1. DropComplete(w) => job'[w] = job[w]
    BY DEF DropComplete
  <2>2. Crash => job'[w] = Idle
    BY <1>1 DEF Crash
  <2> QED
    BY <1>1, <1>3, <2>1, <2>2, Moves DEF CompleteStep
<1>6. announced \subseteq announced'
  <2>1. CASE \E w \in CompleteWorker : CompleteStep(w)
    BY <2>1 DEF CompleteStep, BeginComplete, DropComplete, Announce
  <2>2. CASE \E w \in StatusWorker : StatusStep(w)
    BY <2>2 DEF StatusStep, BeginStatus, CheckReTrigger, CreateRetry, RetryFails, SubmitWorkflow, SubmitFails
  <2>3. CASE \E r \in Runner : Cluster(r)
    BY <2>3 DEF Cluster, PodStarts, RunnerReports, PodEnds, Resync
  <2>4. CASE \E w \in Worker : ComputeStages(w) \/ WriteRow(w) \/ Redeliver(w)
    BY <2>4 DEF ComputeStages, WriteRow, Redeliver
  <2>5. CASE CancelStage \/ Crash \/ UNCHANGED vars
    BY <2>5 DEF CancelStage, BeginCancel, Terminate, TerminateFails, Crash, vars
  <2> QED
    BY <2>1, <2>2, <2>3, <2>4, <2>5 DEF Next
<1>7. ASSUME NEW w \in CompleteWorker, Busy(w)' PROVE job'[w].runner = job'[w].ev.runner
  <2>1. Busy(w) => job[w].runner = job[w].ev.runner
    BY <1>7 DEF Reported
  <2>2. job'[w] = job[w] => Busy(w)
    BY <1>7 DEF Busy
  <2>3. job'[w] # Idle
    BY <1>7 DEF Busy, Idle
  <2> QED
    BY <1>2, <1>4, <1>5, <1>7, <2>1, <2>2, <2>3
<1> DEFINE Goal(r) ==
         \/ r \in announced'
         \/ \E ev \in Messages(completeQ') : ev.runner = r /\ ~ev.failed
         \/ \E w \in CompleteWorker : Held(w, r)' /\ ~job'[w].ev.failed
<1>8. ASSUME NEW r \in Runner, NEW ev \in Messages(completeQ), ev.runner = r, ~ev.failed
      PROVE  Goal(r)
  <2>1. CASE ev \in Messages(completeQ')
    BY <1>8, <2>1
  <2>2. ASSUME NEW w \in CompleteWorker, BeginComplete(w), ev = Head(completeQ) PROVE Goal(r)
    BY <1>2, <1>8, <2>2 DEF Held, Busy
  <2>3. ASSUME NEW w \in CompleteWorker, DropComplete(w), ev = Head(completeQ) PROVE Goal(r)
    BY <1>6, <1>8, <2>3 DEF DropComplete
  <2> HIDE DEF Goal
  <2> QED
    BY <2>1, <2>2, <2>3, ReportsHeld
<1>9. ASSUME NEW r \in Runner, NEW w \in CompleteWorker, Held(w, r), ~job[w].ev.failed
      PROVE  Goal(r)
  <2>1. CASE job'[w] = job[w]
    BY <1>9, <2>1 DEF Held, Busy
  <2>2. CASE Crash
    <3>1. [job[w].ev EXCEPT !.again = TRUE] \in Messages(completeQ')
      BY <1>9, <2>2, ReportsHeld DEF Held
    <3>2. PICK ev \in CompleteEvent : ev = job[w].ev
      BY <1>1, <1>9 DEF Held, Busy, IInv, Shape, Jobs, GoodJob, JobOf, EvOf, Job, Idle
    <3>3. [ev EXCEPT !.again = TRUE].runner = ev.runner /\ [ev EXCEPT !.again = TRUE].failed = ev.failed
      BY DEF CompleteEvent
    <3> QED
      BY <1>9, <3>1, <3>2, <3>3 DEF Held
  <2>3. CASE Busy(w) /\ Busy(w)' /\ job'[w].ev = job[w].ev /\ job'[w].runner = job[w].runner
    BY <1>9, <2>3 DEF Held
  <2>4. CASE Announce(w)
    <3>1. job[w].runner = r
      BY <1>9 DEF Reported, Held
    <3> QED
      BY <1>4, <1>9, <2>4, <3>1
  <2>5. ~BeginComplete(w)
    BY <1>9 DEF BeginComplete, Held
  <2> HIDE DEF Goal
  <2> QED
    BY <1>5, <2>1, <2>2, <2>3, <2>4, <2>5
<1>10. ASSUME NEW r \in Runner, report'[r] = "success" PROVE Goal(r)
  <2>1. CASE report[r] = "success"
    <3>1. r \in announced => Goal(r)
      BY <1>6
    <3> HIDE DEF Goal
    <3> QED
      BY <1>8, <1>9, <2>1, <3>1 DEF Reported
  <2>2. CASE \E ev \in Messages(completeQ') : ev.runner = r /\ ~ev.failed
    BY <2>2
  <2> QED
    BY <1>10, <2>1, <2>2, ReportsHeld
<1> QED
  BY <1>7, <1>10 DEF Reported

\* At first nothing is reported.
LEMMA InitReported == Init => Reported
<1> SUFFICES ASSUME Init PROVE Reported
  OBVIOUS
<1>1. \A w \in CompleteWorker : ~Busy(w)
  BY DEF Init, Busy, Idle, Worker
<1>2. \A r \in Runner : report[r] = "none"
  BY DEF Init
<1> QED
  BY <1>1, <1>2 DEF Reported

\* With nothing left to be done, nothing is pending.
LEMMA SettledAtRest == IInv /\ SettleInv /\ Reported => RestIsSettled
<1> SUFFICES ASSUME IInv, SettleInv, Reported, AtRest, NEW r \in Runner
             PROVE  /\ report[r] = "success" => r \in announced
                    /\ (pod[r] \in Ended /\ r \notin torn \cup dropped) =>
                         /\ row[r].status \in Terminal
                         /\ \/ row[r].status = "CANCELLED"
                            \/ "RUNNING" \notin {row[r].prep, row[r].exec, row[r].pod}
  BY DEF RestIsSettled
<1>1. Messages(statusQ) = {} /\ Messages(completeQ) = {}
  BY DEF AtRest, Messages
<1>2. \A w \in Worker : ~Busy(w) /\ ~(\E x \in Runner : Held(w, x))
  BY DEF AtRest, Held
<1>3. report[r] = "success" => r \in announced
  BY <1>1, <1>2 DEF Reported, Worker
<1>4. ASSUME pod[r] \in Ended, r \notin torn PROVE Closed(row[r])
  <2>1. ~EndPending(r)
    BY <1>1, <1>2 DEF EndPending, Worker
  <2> QED
    BY <1>4, <2>1 DEF SettleInv, RunnerInv, Over
<1> QED
  BY <1>3, <1>4 DEF Closed

\* RestIsSettled: with stage rows kept and the status events handled by one worker
\* (SubscribeCDWorkflowStatusUpdate), a stage whose pod has ended has a terminal status
\* and no row left "RUNNING" once nothing is left to be done, and a reported success has
\* been handed to the workflow DAG, whatever crashes, comes twice or is cancelled.
THEOREM RestSettled == StagesEnabled /\ OneStatusWorker => (Spec => []RestIsSettled)
<1> SUFFICES ASSUME StagesEnabled, OneStatusWorker PROVE Spec => []RestIsSettled
  OBVIOUS
<1>1. Init => Carried /\ SettleInv /\ Reported
  BY InitSettle, InitReported, InitPursued
<1>2. IInv /\ Carried /\ SettleInv /\ Reported /\ [Next]_vars => (Carried /\ SettleInv /\ Reported)'
  BY CarriedStep, SettleStep, ReportedStep
<1>3. IInv /\ SettleInv /\ Reported => RestIsSettled
  BY SettledAtRest
<1> QED
  BY <1>1, <1>2, <1>3, Invariance, PTL DEF Spec
==============================================================================
