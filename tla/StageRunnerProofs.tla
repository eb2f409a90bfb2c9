------------------------- MODULE StageRunnerProofs -------------------------
(***************************************************************************)
(* The runners of a stage, for any number of retries, workers and          *)
(* disturbances: their types, that a stage is retried a bounded number of  *)
(* times, and that late events do not undo a terminal status.              *)
(*                                                                         *)
(* Two facts make the types inductive: whatever is in a queue or in a      *)
(* worker's hands is about a runner that exists (Known), and a worker      *)
(* writes back the original a runner refers to (KeptRow).  The bound on    *)
(* retries needs the workers that have counted and not yet created one:    *)
(* with the retries that exist they never exceed the limit (Budget).       *)
(***************************************************************************)
EXTENDS StageRunner, FiniteSetTheorems, TLAPS

-----------------------------------------------------------------------------
(* One update of a runner's rows *)

\* A stage's status is one of the seven, whatever the status it is made from.
LEMMA ConvertTyped ==
  ASSUME NEW wfStatus, NEW message
  PROVE  ConvertStatusToDevtronStatus(wfStatus, message) \in StageStatus
BY DEF ConvertStatusToDevtronStatus, StageStatus

\* The status stored for an update is one of the program's.
LEMMA ComputeTyped ==
  ASSUME NEW stored, NEW wfStatus, NEW default \in Status
  PROVE  /\ ComputeWorkflowStatus(stored, wfStatus, default) \in Status
         /\ stored \in Terminal => ComputeWorkflowStatus(stored, wfStatus, default) = stored
BY DEF ComputeWorkflowStatus, Status

\* What the rows of the workflow are updated to, and that the rest stays.
LEMMA RowsTyped ==
  ASSUME NEW rows \in RunnerRow, NEW wfStatus \in Status \cup {"none"},
         NEW podStatus \in PodPhase, NEW message
  PROVE  LET new == UpdatedWorkflowRows(rows, wfStatus, podStatus, message) IN
         /\ new \in RunnerRow
         /\ new.status \in Status
         /\ new.ref = rows.ref
         /\ rows.status \in Terminal =>
              new.status \in {rows.status, "TimedOut", "CANCELLED"}
<1> DEFINE stage == ConvertStatusToDevtronStatus(wfStatus, message)
           Stored(default) == ComputeWorkflowStatus(rows.status, wfStatus, default)
<1>1. stage \in StageStatus
  BY ConvertTyped
<1>2. \A default \in Status :
        /\ Stored(default) \in Status
        /\ rows.status \in Terminal => Stored(default) = rows.status
  BY ComputeTyped
<1>3. {"WaitingToStart", "Running", "Succeeded", "Failed", "TimedOut", "CANCELLED"}
        \subseteq Status
  BY DEF Status, Terminal, PodPhase
<1>4. \A x \in Status : Cause(stage, x) \in {x, "TimedOut", "CANCELLED"}
  BY DEF Cause
<1>5. PICK s \in StageStatus : s = stage
  BY <1>1
<1>6. PICK w, r, u, f \in Status :
        /\ w = Stored("WaitingToStart") /\ r = Stored("Running")
        /\ u = Stored("Succeeded") /\ f = Stored("Failed")
        /\ rows.status \in Terminal =>
             (w = rows.status /\ r = rows.status /\ u = rows.status /\ f = rows.status)
  BY <1>2, <1>3
<1>7. PICK c \in Status : c = Cause(s, f) /\ c \in {f, "TimedOut", "CANCELLED"}
  BY <1>4, <1>5, <1>3
<1> HIDE DEF stage, Stored
<1>8. UpdatedWorkflowRows(rows, wfStatus, podStatus, message) =
      LET execFails == rows.exec = "RUNNING" /\ IsTerminal(s)
          prepFails == ~IsTerminal(rows.prep) /\ IsTerminal(s)
      IN CASE podStatus = "Pending" ->
            [rows EXCEPT
               !.status = w,
               !.prep   = IF IsTerminal(rows.prep) \/ s = "NOT_STARTED" THEN rows.prep ELSE s,
               !.pod    = IF wfStatus \in Terminal THEN s ELSE rows.pod]
         [] podStatus = "Running" ->
            [rows EXCEPT
               !.status = r,
               !.prep   = IF rows.prep = "RUNNING" THEN "SUCCEEDED" ELSE rows.prep,
               !.exec   = CASE rows.exec = "NOT_STARTED" -> "RUNNING"
                            [] execFails         -> s
                            [] OTHER             -> rows.exec]
         [] podStatus = "Succeeded" ->
            [rows EXCEPT
               !.status = u,
               !.exec   = IF rows.exec = "RUNNING" THEN "SUCCEEDED" ELSE rows.exec]
         [] OTHER ->
            [rows EXCEPT
               !.status = IF execFails \/ prepFails THEN c ELSE f,
               !.exec   = IF execFails THEN s ELSE rows.exec,
               !.prep   = IF prepFails THEN s ELSE rows.prep]
  BY <1>5, <1>6, <1>7 DEF UpdatedWorkflowRows, stage, Stored
<1> DEFINE Good(new) == /\ new \in RunnerRow
                        /\ new.status \in Status
                        /\ new.ref = rows.ref
                        /\ rows.status \in Terminal =>
                             new.status \in {rows.status, "TimedOut", "CANCELLED"}
<1>9. /\ {"RUNNING", "SUCCEEDED"} \subseteq StageStatus
      /\ \A st \in {w, r, u, f, c} :
           rows.status \in Terminal => st \in {rows.status, "TimedOut", "CANCELLED"}
  BY <1>6, <1>7 DEF StageStatus
<1>11. ASSUME NEW st \in {w, r, u, f, c}, NEW x \in StageStatus, NEW y \in StageStatus
       PROVE  /\ Good([rows EXCEPT !.status = st, !.prep = x, !.pod = y])
              /\ Good([rows EXCEPT !.status = st, !.prep = x, !.exec = y])
              /\ Good([rows EXCEPT !.status = st, !.exec = y])
              /\ Good([rows EXCEPT !.status = st, !.exec = y, !.prep = x])
  <2>1. st \in Status /\ (rows.status \in Terminal =>
                            st \in {rows.status, "TimedOut", "CANCELLED"})
    BY <1>6, <1>7, <1>9
  <2> QED
    BY <2>1 DEF RunnerRow
<1>12. rows.prep \in StageStatus /\ rows.exec \in StageStatus /\ rows.pod \in StageStatus
  BY DEF RunnerRow
<1> DEFINE execFails == rows.exec = "RUNNING" /\ IsTerminal(s)
           prepFails == ~IsTerminal(rows.prep) /\ IsTerminal(s)
           new == UpdatedWorkflowRows(rows, wfStatus, podStatus, message)
<1> HIDE DEF Good
<1>13. ASSUME podStatus = "Pending" PROVE Good(new)
  <2> DEFINE x == IF IsTerminal(rows.prep) \/ s = "NOT_STARTED" THEN rows.prep ELSE s
             y == IF wfStatus \in Terminal THEN s ELSE rows.pod
  <2>1. new = [rows EXCEPT !.status = w, !.prep = x, !.pod = y]
    BY <1>13, <1>8
  <2>2. x \in StageStatus /\ y \in StageStatus
    BY <1>12
  <2> HIDE DEF x, y
  <2>3. Good([rows EXCEPT !.status = w, !.prep = x, !.pod = y])
    BY <2>2, <1>11
  <2> QED
    BY Zenon, <2>1, <2>3
<1>14. ASSUME podStatus = "Running" PROVE Good(new)
  <2> DEFINE x == IF rows.prep = "RUNNING" THEN "SUCCEEDED" ELSE rows.prep
             y == CASE rows.exec = "NOT_STARTED" -> "RUNNING"
                    [] execFails -> s
                    [] OTHER     -> rows.exec
  <2>1. new = [rows EXCEPT !.status = r, !.prep = x, !.exec = y]
    BY <1>14, <1>8
  <2>2. x \in StageStatus /\ y \in StageStatus
    BY <1>9, <1>12
  <2> HIDE DEF x, y
  <2>3. Good([rows EXCEPT !.status = r, !.prep = x, !.exec = y])
    BY <2>2, <1>11
  <2> QED
    BY Zenon, <2>1, <2>3
<1>15. ASSUME podStatus = "Succeeded" PROVE Good(new)
  <2> DEFINE y == IF rows.exec = "RUNNING" THEN "SUCCEEDED" ELSE rows.exec
  <2>1. new = [rows EXCEPT !.status = u, !.exec = y]
    BY <1>15, <1>8
  <2>2. y \in StageStatus
    BY <1>9, <1>12
  <2> HIDE DEF y
  <2>3. Good([rows EXCEPT !.status = u, !.exec = y])
    BY <2>2, <1>11
  <2> QED
    BY Zenon, <2>1, <2>3
<1>16. ASSUME podStatus \notin {"Pending", "Running", "Succeeded"} PROVE Good(new)
  <2> DEFINE st == IF execFails \/ prepFails THEN c ELSE f
             x == IF prepFails THEN s ELSE rows.prep
             y == IF execFails THEN s ELSE rows.exec
  <2>1. new = [rows EXCEPT !.status = st, !.exec = y, !.prep = x]
    BY <1>16, <1>8
  <2>2. x \in StageStatus /\ y \in StageStatus /\ st \in {w, r, u, f, c}
    BY <1>12
  <2> HIDE DEF x, y, st
  <2>3. Good([rows EXCEPT !.status = st, !.exec = y, !.prep = x])
    BY <2>2, <1>11
  <2> QED
    BY Zenon, <2>1, <2>3
<1> QED
  BY <1>13, <1>14, <1>15, <1>16 DEF Good
\* What UpdateWorkflowStages stores is a runner again, refers to the same original,
\* and with stage rows a terminal status stays or names the failure's cause.
LEMMA UpdateTyped ==
  ASSUME NEW rows \in RunnerRow, NEW wfStatus \in Status \cup {"none"},
         NEW podStatus \in PodPhase, NEW message
  PROVE  LET new == UpdateWorkflowStages(rows, wfStatus, podStatus, message) IN
         /\ new \in RunnerRow
         /\ wfStatus \in Status => new.status \in Status
         /\ new.ref = rows.ref
         /\ (StagesEnabled /\ rows.status \in Terminal) =>
              new.status \in {rows.status, "TimedOut", "CANCELLED"}
<1>1. PICK x \in StageStatus : x = UpdatedPodRow(rows.pod, podStatus)
  BY DEF UpdatedPodRow, StageStatus, RunnerRow
<1>2. PICK y \in PodPhase : y = UpdatedPodStatus(rows.podStatus, podStatus)
  BY DEF UpdatedPodStatus, RunnerRow
<1>3. PICK base : base = [rows EXCEPT !.pod = x]
  OBVIOUS
<1>4. base \in RunnerRow /\ base.ref = rows.ref /\ base.status = rows.status
  BY <1>3 DEF RunnerRow
<1>5. PICK upd : upd = UpdatedWorkflowRows(base, wfStatus, podStatus, message)
  OBVIOUS
<1>6. /\ upd \in RunnerRow
      /\ upd.status \in Status
      /\ upd.ref = rows.ref
      /\ rows.status \in Terminal => upd.status \in {rows.status, "TimedOut", "CANCELLED"}
  BY <1>4, <1>5, RowsTyped
<1>7. CASE StagesEnabled
  <2>1. UpdateWorkflowStages(rows, wfStatus, podStatus, message) =
          [upd EXCEPT !.podStatus = y]
    BY <1>7, <1>1, <1>2, <1>3, <1>5 DEF UpdateWorkflowStages
  <2> QED
    BY <2>1, <1>6 DEF RunnerRow
<1>8. CASE ~StagesEnabled
  BY <1>8 DEF UpdateWorkflowStages, RunnerRow
<1> QED
  BY <1>7, <1>8

-----------------------------------------------------------------------------
(* Queues *)

\* A sequence over a set is one over a larger set.
LEMMA SeqMono ==
  ASSUME NEW S, NEW T, S \subseteq T, NEW q \in Seq(S)
  PROVE  q \in Seq(T)
OBVIOUS

\* Messages that come again are put before the others, and nothing else is.
LEMMA RequeuedTyped ==
  ASSUME NEW W, IsFiniteSet(W), NEW T, NEW taken \in [W -> T], NEW queue \in Seq(T)
  PROVE  Requeued(taken, queue) \in Seq(T)
<1> DEFINE holders == SetToSeq(W)
           n == Cardinality(W)
<1>1. n \in Nat /\ ExistsBijection(1 .. n, W)
  BY FS_CardinalityType
<1>2. PICK f \in [1 .. n -> W] : IsInjective(f)
  BY <1>1 DEF ExistsBijection, Bijection, Injection, IsInjective
<1>3. holders \in [1 .. n -> W]
  BY <1>2 DEF SetToSeq
<1> HIDE DEF holders, n
<1>4. holders \in Seq(W) /\ Len(holders) = n
  BY <1>1, <1>3
<1>5. [i \in 1 .. Len(holders) |-> taken[holders[i]]] \in Seq(T)
  BY <1>1, <1>3, <1>4
<1>6. DOMAIN taken = W
  OBVIOUS
<1> QED
  BY <1>5, <1>6 DEF Requeued, holders
-----------------------------------------------------------------------------
(***************************************************************************)
(* The inductive invariant                                                 *)
(***************************************************************************)
Rows ==
  /\ row \in [Runner -> RunnerRow]
  /\ \A x \in Runner : row[x].ref # 0 =>
        Exists(row[x].ref) /\ row[row[x].ref].ref = 0

Known(Ev) == {ev \in Ev : Exists(ev.runner)}
Queues == statusQ \in Seq(Known(StatusEvent)) /\ completeQ \in Seq(Known(CompleteEvent))

Pods ==
  /\ pod \in [Runner -> Pod]
  /\ \A x \in Runner : pod[x] # "none" => Exists(x)
  /\ report \in [Runner -> {"none", "success", "failure"}]

Records ==
  /\ announced \subseteq Runner /\ torn \subseteq Runner /\ dropped \subseteq Runner
  /\ disturbed \in Nat

EvOf(w) == IF w \in StatusWorker THEN StatusEvent
           ELSE IF w \in CompleteWorker THEN CompleteEvent ELSE {{}}
JobOf(w) == Job(EvOf(w))

\* A worker's job is about runners that exist, and what it writes back refers to the
\* same original and leaves a terminal status alone.
GoodJob(w, j) ==
  /\ j \in JobOf(w)
  /\ j.pc # "idle" => Exists(j.runner)
  /\ (j.pc \notin {"idle", "terminate"} /\ w # User) => Exists(j.ev.runner)
  /\ j.pc = "terminate" => w = User
  /\ j.pc \in {"compute", "write", "terminate"} =>
       j.row.status \in Status /\ j.row.ref = row[j.runner].ref
  /\ (StagesEnabled /\ j.pc = "write" /\ j.base.status \in Terminal) =>
       j.row.status \in {j.base.status, "TimedOut", "CANCELLED"}

Jobs == job = [w \in Worker |-> job[w]] /\ \A w \in Worker : GoodJob(w, job[w])

\* The workers that have counted the retries of r and are about to add one.
Creators(r) == {w \in StatusWorker : job[w].pc = "create" /\ Original(job[w].runner) = r}

Budget ==
  \A r \in Runner :
    Cardinality(Retries(r)) + Cardinality(Creators(r)) < MaxRetries + Cardinality(StatusWorker)

Shape == Rows /\ Queues /\ Pods /\ Records /\ Jobs
IInv == Shape /\ Budget

-----------------------------------------------------------------------------
(* How the parts survive a step *)

\* Runners do not disappear and keep their original.
RowsStay == \A x \in Runner : Exists(x) => Exists(x)' /\ row'[x].ref = row[x].ref

\* Nor do new ones appear.
RowsSame ==
  \A x \in Runner : (Exists(x)' <=> Exists(x)) /\ row'[x].ref = row[x].ref

\* An existing runner that is written back with its reference.
LEMMA RowUpdated ==
  ASSUME Rows, NEW r \in Runner, Exists(r), NEW new \in RunnerRow,
         new.status \in Status, new.ref = row[r].ref,
         row' = [row EXCEPT ![r] = new]
  PROVE  Rows' /\ RowsStay /\ RowsSame
<1>1. "none" \notin Status
  BY DEF Status, Terminal, PodPhase
<1>2. \A x \in Runner : row'[x] = IF x = r THEN new ELSE row[x]
  BY DEF Rows
<1>3. RowsSame
  BY <1>1, <1>2 DEF RowsSame, Exists
<1>4. row' \in [Runner -> RunnerRow]
  BY DEF Rows
<1>5. \A x \in Runner : row[x].ref # 0 => row[x].ref \in Runner
  BY DEF Rows, RunnerRow
<1> QED
  BY <1>3, <1>4, <1>5 DEF Rows, RowsSame, RowsStay

\* Nothing is written to the runners.
LEMMA RowUnchanged ==
  ASSUME Rows, UNCHANGED row
  PROVE  Rows' /\ RowsStay /\ RowsSame
BY DEF Rows, RowsStay, RowsSame, Exists

\* A new runner, made for an original that exists.
LEMMA RowCreated ==
  ASSUME Rows, NEW new \in Runner, ~Exists(new), NEW rec \in RunnerRow,
         rec.status \in Status, rec.ref \in Runner, Exists(rec.ref), row[rec.ref].ref = 0,
         row' = [row EXCEPT ![new] = rec]
  PROVE  Rows' /\ RowsStay
<1>1. "none" \notin Status
  BY DEF Status, Terminal, PodPhase
<1>2. \A x \in Runner : row'[x] = IF x = new THEN rec ELSE row[x]
  BY DEF Rows
<1>3. RowsStay
  BY <1>1, <1>2 DEF RowsStay, Exists
<1>4. row' \in [Runner -> RunnerRow]
  BY DEF Rows
<1>5. \A x \in Runner : row[x].ref # 0 => row[x].ref \in Runner /\ row[x].ref # new
  BY DEF Rows, RunnerRow
<1>6. \A x \in Runner : Exists(x)' <=> (x = new \/ Exists(x))
  BY <1>1, <1>2 DEF Exists
<1> QED
  BY <1>2, <1>3, <1>4, <1>5, <1>6 DEF Rows

\* Events keep being about runners that exist.
LEMMA QueueStays ==
  ASSUME RowsStay, NEW Ev, \A ev \in Ev : ev.runner \in Runner
  PROVE  Known(Ev) \subseteq Known(Ev)'
BY DEF Known, RowsStay

\* Both queues, when nothing is taken or published.
LEMMA QueuesStay ==
  ASSUME Queues, RowsStay, UNCHANGED <<statusQ, completeQ>>
  PROVE  Queues'
<1>1. Known(StatusEvent) \subseteq Known(StatusEvent)' /\ Known(CompleteEvent) \subseteq Known(CompleteEvent)'
  BY QueueStays DEF StatusEvent, CompleteEvent
<1> QED
  BY <1>1, SeqMono DEF Queues

\* A job stays good.
LEMMA JobStays ==
  ASSUME RowsStay, NEW w \in Worker, NEW j, GoodJob(w, j)
  PROVE  GoodJob(w, j)'
<1>1. /\ j.pc # "idle" => j.runner \in Runner
      /\ (j.pc \notin {"idle", "terminate"} /\ w # User) => j.ev.runner \in Runner
  BY WorkerAssumption DEF GoodJob, JobOf, EvOf, Job, Idle, StatusEvent, CompleteEvent, Worker
<1> QED
  BY <1>1 DEF GoodJob, RowsStay, Exists
\* No worker does anything.
LEMMA JobsStay ==
  ASSUME Jobs, RowsStay, UNCHANGED job
  PROVE  Jobs'
<1>1. ASSUME NEW w \in Worker PROVE GoodJob(w, job[w])'
  <2>1. PICK j : j = job[w]
    OBVIOUS
  <2>2. GoodJob(w, j)'
    BY <2>1, JobStays DEF Jobs
  <2> QED
    BY <2>1, <2>2
<1> QED
  BY <1>1 DEF Jobs

\* One worker takes up a good job.
LEMMA JobSet ==
  ASSUME Jobs, RowsStay, NEW w \in Worker, NEW j, GoodJob(w, j)',
         job' = [job EXCEPT ![w] = j]
  PROVE  Jobs' /\ \A x \in Worker : job'[x] = IF x = w THEN j ELSE job[x]
<1>1. \A x \in Worker : job'[x] = IF x = w THEN j ELSE job[x]
  BY DEF Jobs
<1>2. job' = [x \in Worker |-> job'[x]]
  BY DEF Jobs
<1>3. ASSUME NEW x \in Worker PROVE GoodJob(x, job[x])'
  <2>1. PICK k : k = job'[x]
    OBVIOUS
  <2>2. CASE x = w
    BY <2>1, <2>2, <1>1
  <2>3. CASE x # w
    <3>1. GoodJob(x, k)
      BY <2>1, <2>3, <1>1 DEF Jobs
    <3> QED
      BY <2>1, <3>1, JobStays
  <2> QED
    BY <2>2, <2>3
<1> QED
  BY <1>1, <1>2, <1>3 DEF Jobs

\* An idle worker's job is good.
LEMMA IdleIsGood ==
  ASSUME NEW w \in Worker
  PROVE  GoodJob(w, Idle) /\ GoodJob(w, Idle)'
BY DEF GoodJob, JobOf, Job, Idle

-----------------------------------------------------------------------------
(* The bound on retries *)

\* Retries and originals change with no runner's reference.
LEMMA RefsStay ==
  ASSUME RowsSame
  PROVE  /\ \A r \in Runner : Retries(r)' = Retries(r)
         /\ \A x \in Runner : Original(x)' = Original(x)
<1>1. ASSUME NEW r \in Runner PROVE Retries(r)' = Retries(r)
  <2>1. \A x \in Runner : (Exists(x)' /\ row'[x].ref = r) <=> (Exists(x) /\ row[x].ref = r)
    BY DEF RowsSame
  <2> QED
    BY Zenon, <2>1 DEF Retries
<1>2. ASSUME NEW x \in Runner PROVE Original(x)' = Original(x)
  BY DEF RowsSame, Original
<1> QED
  BY <1>1, <1>2

\* The sets that are counted are finite.
LEMMA Counted ==
  ASSUME NEW r
  PROVE  /\ IsFiniteSet(Retries(r)) /\ Cardinality(Retries(r)) \in Nat
         /\ IsFiniteSet(Creators(r)) /\ Cardinality(Creators(r)) \in Nat
         /\ Cardinality(Creators(r)) <= Cardinality(StatusWorker)
         /\ Cardinality(StatusWorker) \in Nat
<1>1. Retries(r) \in SUBSET Runner /\ Creators(r) \in SUBSET StatusWorker
  BY DEF Retries, Creators
<1>2. IsFiniteSet(Runner) /\ IsFiniteSet(StatusWorker)
  BY RunnerAssumption, WorkerAssumption
<1> QED
  BY <1>1, <1>2, FS_Subset, FS_CardinalityType

\* So they are after a step.
LEMMA CountedNext ==
  ASSUME NEW r
  PROVE  /\ IsFiniteSet(Retries(r)') /\ Cardinality(Retries(r)') \in Nat
         /\ IsFiniteSet(Creators(r)') /\ Cardinality(Creators(r)') \in Nat
         /\ Cardinality(Creators(r)') <= Cardinality(StatusWorker)
<1>1. Retries(r)' \in SUBSET Runner /\ Creators(r)' \in SUBSET StatusWorker
  BY DEF Retries, Creators
<1>2. IsFiniteSet(Runner) /\ IsFiniteSet(StatusWorker)
  BY RunnerAssumption, WorkerAssumption
<1> QED
  BY <1>1, <1>2, FS_Subset, FS_CardinalityType

\* No retry was created and nobody else is about to create one.
LEMMA BudgetStays ==
  ASSUME Budget, RowsSame, \A w \in StatusWorker : job[w].pc = "create" => job[w].runner \in Runner,
         \A w \in StatusWorker : job'[w].pc = "create" => job'[w] = job[w]
  PROVE  Budget'
<1> SUFFICES ASSUME NEW r \in Runner
             PROVE  Cardinality(Retries(r)') + Cardinality(Creators(r)')
                      < MaxRetries + Cardinality(StatusWorker)
  BY DEF Budget
<1>1. Retries(r)' = Retries(r)
  BY RefsStay
<1>2. Creators(r)' \in SUBSET Creators(r)
  BY RefsStay DEF Creators
<1>3. Cardinality(Creators(r)') <= Cardinality(Creators(r))
  BY <1>2, Counted, FS_Subset
<1> QED
  BY <1>1, <1>3, Counted, CountedNext, BoundsAssumption DEF Budget
\* A worker about to create a retry holds a runner.
LEMMA CreatorHoldsRunner ==
  ASSUME Jobs, NEW w \in Worker, job[w].pc # "idle"
  PROVE  job[w].runner \in Runner /\ Exists(job[w].runner)
BY DEF Jobs, GoodJob, JobOf, Job, Idle

\* A step that leaves runners and jobs alone.
LEMMA Quiet ==
  ASSUME IInv, UNCHANGED <<row, job>>, statusQ' \in Seq(Known(StatusEvent)),
         completeQ' \in Seq(Known(CompleteEvent)), Pods', Records'
  PROVE  IInv'
<1>1. Rows' /\ RowsStay /\ RowsSame
  BY RowUnchanged DEF IInv, Shape
<1>2. /\ Known(StatusEvent) \subseteq Known(StatusEvent)'
      /\ Known(CompleteEvent) \subseteq Known(CompleteEvent)'
  BY <1>1, QueueStays DEF StatusEvent, CompleteEvent
<1>3. Queues'
  BY <1>2, SeqMono DEF Queues
<1>4. Jobs'
  BY <1>1, JobsStay DEF IInv, Shape
<1>5. Budget'
  BY <1>1, BudgetStays, CreatorHoldsRunner DEF IInv, Shape, Worker
<1> QED
  BY <1>1, <1>3, <1>4, <1>5 DEF IInv, Shape

\* A step of one worker that leaves the runners alone and is not about to create one.
LEMMA QuietJob ==
  ASSUME IInv, UNCHANGED row, statusQ' \in Seq(Known(StatusEvent)),
         completeQ' \in Seq(Known(CompleteEvent)), Pods', Records',
         NEW w \in Worker, NEW j, GoodJob(w, j), j.pc # "create",
         job' = [job EXCEPT ![w] = j]
  PROVE  IInv'
<1>1. Rows' /\ RowsStay /\ RowsSame
  BY RowUnchanged DEF IInv, Shape
<1>2. /\ Known(StatusEvent) \subseteq Known(StatusEvent)'
      /\ Known(CompleteEvent) \subseteq Known(CompleteEvent)'
  BY <1>1, QueueStays DEF StatusEvent, CompleteEvent
<1>3. Queues'
  BY <1>2, SeqMono DEF Queues
<1>4. GoodJob(w, j)'
  BY <1>1, JobStays
<1>5. Jobs' /\ \A x \in Worker : job'[x] = IF x = w THEN j ELSE job[x]
  BY <1>1, <1>4, JobSet DEF IInv, Shape
<1>6. Budget'
  BY <1>1, <1>5, BudgetStays, CreatorHoldsRunner DEF IInv, Shape, Worker
<1> QED
  BY <1>1, <1>3, <1>5, <1>6 DEF IInv, Shape

\* A step of one worker that writes an existing runner back.
LEMMA WriteBack ==
  ASSUME IInv, UNCHANGED <<statusQ, completeQ, pod, report>>, Records',
         NEW r \in Runner, Exists(r), NEW new \in RunnerRow,
         new.status \in Status, new.ref = row[r].ref, row' = [row EXCEPT ![r] = new],
         NEW w \in Worker, NEW j, GoodJob(w, j), j.pc # "create",
         job' = [job EXCEPT ![w] = j]
  PROVE  IInv'
<1>1. Rows' /\ RowsStay /\ RowsSame
  BY RowUpdated DEF IInv, Shape
<1>2. Queues'
  BY <1>1, QueuesStay DEF IInv, Shape
<1>3. Pods'
  BY <1>1 DEF IInv, Shape, Pods, RowsSame
<1>4. GoodJob(w, j)'
  BY <1>1, JobStays
<1>5. Jobs' /\ \A x \in Worker : job'[x] = IF x = w THEN j ELSE job[x]
  BY <1>1, <1>4, JobSet DEF IInv, Shape
<1>6. Budget'
  BY <1>1, <1>5, BudgetStays, CreatorHoldsRunner DEF IInv, Shape, Worker
<1> QED
  BY <1>1, <1>2, <1>3, <1>5, <1>6 DEF IInv, Shape

-----------------------------------------------------------------------------
(* The steps *)

\* The first runner of a stage that was just submitted.
LEMMA InitIInv == Init => IInv
<1> SUFFICES ASSUME Init PROVE IInv
  OBVIOUS
<1>1. 1 \in Runner /\ 0 \notin Runner
  BY RunnerAssumption, FS_CardinalityType
<1>2. row \in [Runner -> RunnerRow] /\ \A x \in Runner : row[x].ref = 0
  BY <1>1 DEF Init, NoRow, StartingRows, RunnerRow, Status, StageStatus, PodPhase, Message
<1>3. Rows
  BY <1>2 DEF Rows
<1>4. Queues
  BY DEF Init, Queues
<1>5. Pods
  <2>1. Exists(1)
    BY <1>1 DEF Init, Exists, NoRow, StartingRows
  <2> QED
    BY <2>1 DEF Init, Pods, Pod
<1>6. Records
  BY DEF Init, Records
<1>7. Jobs
  BY IdleIsGood DEF Init, Jobs
<1>8. Budget
  <2> SUFFICES ASSUME NEW r \in Runner
               PROVE  Cardinality(Retries(r)) + Cardinality(Creators(r))
                        < MaxRetries + Cardinality(StatusWorker)
    BY DEF Budget
  <2>1. Retries(r) = {}
    BY <1>1, <1>2 DEF Retries
  <2>2. Creators(r) = {}
    BY DEF Init, Creators, Idle, Worker
  <2>3. Cardinality(StatusWorker) \in Nat /\ Cardinality(StatusWorker) # 0
    BY WorkerAssumption, FS_CardinalityType, FS_EmptySet
  <2> QED
    BY <2>1, <2>2, <2>3, FS_EmptySet, BoundsAssumption
<1> QED
  BY <1>3, <1>4, <1>5, <1>6, <1>7, <1>8 DEF IInv, Shape

\* What is published of a pod is about its runner.
LEMMA PublishKnown ==
  ASSUME Queues, NEW r \in Runner, Exists(r), NEW state \in Pod, Publish(r, state)
  PROVE  statusQ' \in Seq(Known(StatusEvent))
<1>1. PICK ev \in PodEvents(r, state) : statusQ' = Append(statusQ, ev)
  BY DEF Publish
<1>2. ev \in StatusEvent /\ ev.runner = r
  <2> DEFINE Event(phase, podStatus, message, finished) ==
               [runner |-> r, phase |-> phase, podStatus |-> podStatus,
                message |-> message, finished |-> finished]
  <2>1. ASSUME NEW p \in PodPhase, NEW q \in PodPhase, NEW m \in Message, NEW b \in BOOLEAN
        PROVE  Event(p, q, m, b) \in StatusEvent /\ Event(p, q, m, b).runner = r
    BY DEF StatusEvent
  <2>2. /\ {"Running", "Succeeded", "Failed", "Error"} \subseteq PodPhase
        /\ {"", "exit", "timeout", "pod deleted"} \subseteq Message
    BY DEF PodPhase, Message
  <2>3. \/ ev = Event("Running", "Running", "", FALSE)
        \/ ev = Event("Succeeded", "Succeeded", "", TRUE)
        \/ ev = Event("Failed", "Failed", "exit", TRUE)
        \/ ev = Event("Failed", "Failed", "timeout", TRUE)
        \/ ev = Event("Failed", "Failed", "pod deleted", TRUE)
        \/ ev = Event("Error", "Error", "pod deleted", TRUE)
    <3>1. CASE state = "running"
      BY <3>1 DEF PodEvents
    <3>2. CASE state = "succeeded"
      BY <3>2 DEF PodEvents
    <3>3. CASE state = "exited"
      BY <3>3 DEF PodEvents
    <3>4. CASE state = "timedout"
      BY <3>4 DEF PodEvents
    <3>5. CASE state = "deleted"
      <4>1. ev \in {Event(p, p, "pod deleted", TRUE) : p \in {"Failed", "Error"}}
        BY <3>5 DEF PodEvents
      <4> HIDE DEF Event
      <4> QED
        BY <4>1
    <3>6. CASE state \notin {"running", "succeeded", "exited", "timedout", "deleted"}
      BY <3>6 DEF PodEvents
    <3> QED
      BY <3>1, <3>2, <3>3, <3>4, <3>5, <3>6
  <2> HIDE DEF Event
  <2>4. \E p, q \in PodPhase, m \in Message, b \in BOOLEAN : ev = Event(p, q, m, b)
    BY <2>2, <2>3
  <2> QED
    BY <2>1, <2>4
<1>3. ev \in Known(StatusEvent)
  BY <1>2 DEF Known
<1> QED
  BY <1>1, <1>3 DEF Queues

\* The cluster keeps the invariant.
LEMMA ClusterStep ==
  ASSUME IInv, NEW r \in Runner, Cluster(r)
  PROVE  IInv'
<1> USE DEF IInv, Shape
<1>1. CASE PodStarts(r)
  <2>1. Exists(r) /\ statusQ' \in Seq(Known(StatusEvent))
    BY <1>1, PublishKnown DEF PodStarts, Pods, Pod
  <2>2. Pods' /\ Records'
    BY <1>1 DEF PodStarts, Pods, Pod, Records, Exists
  <2> QED
    BY <1>1, <2>1, <2>2, Quiet DEF PodStarts, Queues
<1>2. CASE RunnerReports(r)
  <2>1. Exists(r)
    BY <1>2 DEF RunnerReports, Pods
  <2>2. completeQ' \in Seq(Known(CompleteEvent))
    BY <1>2, <2>1 DEF RunnerReports, Queues, Known, CompleteEvent
  <2>3. Pods' /\ Records'
    BY <1>2 DEF RunnerReports, Pods, Records, Exists
  <2> QED
    BY <1>2, <2>2, <2>3, Quiet DEF RunnerReports, Queues
<1>3. CASE PodEnds(r)
  <2>1. PICK state \in Ended : /\ MayEnd(r, state)
                               /\ IF state = "timedout" THEN Disturb("timeout")
                                  ELSE UNCHANGED disturbed
                               /\ pod' = [pod EXCEPT ![r] = state]
                               /\ Publish(r, state)
    BY <1>3 DEF PodEnds
  <2>2. Exists(r) /\ state \in Pod
    BY <2>1 DEF MayEnd, Pods, Pod, Ended
  <2>3. statusQ' \in Seq(Known(StatusEvent))
    BY <2>1, <2>2, PublishKnown
  <2>4. Pods' /\ Records'
    BY <1>3, <2>1, <2>2 DEF PodEnds, Pods, Records, Exists, Disturb
  <2> QED
    BY <1>3, <2>3, <2>4, Quiet DEF PodEnds, Queues
<1>4. CASE Resync(r)
  <2>1. pod[r] \in Pod /\ pod[r] # "none"
    BY <1>4 DEF Resync, Publish, PodEvents, Pods
  <2>2. statusQ' \in Seq(Known(StatusEvent))
    BY <1>4, <2>1, PublishKnown DEF Resync, Pods
  <2>3. Pods' /\ Records'
    BY <1>4 DEF Resync, Pods, Records, Exists, Disturb
  <2> QED
    BY <1>4, <2>2, <2>3, Quiet DEF Resync, Queues
<1> QED
  BY <1>1, <1>2, <1>3, <1>4 DEF Cluster
-----------------------------------------------------------------------------
(* What a worker holds, by where it is *)

\* What an update holds before its rows are computed.
LEMMA HeldCompute ==
  ASSUME Jobs, NEW w \in Worker, job[w].pc = "compute"
  PROVE  /\ job[w].runner \in Runner /\ Exists(job[w].runner)
         /\ job[w].ev \in EvOf(w) /\ (w # User => Exists(job[w].ev.runner))
         /\ job[w].row \in RunnerRow /\ job[w].row.status \in Status
         /\ job[w].row.ref = row[job[w].runner].ref
         /\ job[w].final \in BOOLEAN
BY DEF Jobs, GoodJob, JobOf, Job, Idle

\* What it holds before it is written.
LEMMA HeldWrite ==
  ASSUME Jobs, NEW w \in Worker, job[w].pc = "write"
  PROVE  /\ job[w].runner \in Runner /\ Exists(job[w].runner)
         /\ job[w].ev \in EvOf(w) /\ (w # User => Exists(job[w].ev.runner))
         /\ job[w].row \in RunnerRow /\ job[w].row.status \in Status
         /\ job[w].row.ref = row[job[w].runner].ref
         /\ job[w].final \in BOOLEAN
         /\ (StagesEnabled /\ job[w].base.status \in Terminal) =>
              job[w].row.status \in {job[w].base.status, "TimedOut", "CANCELLED"}
BY DEF Jobs, GoodJob, JobOf, Job, Idle

\* What a status worker holds once the update is written.
LEMMA HeldRetry ==
  ASSUME Jobs, NEW w \in Worker, job[w].pc \in {"reread", "create", "submit"}
  PROVE  /\ job[w].runner \in Runner /\ Exists(job[w].runner)
         /\ job[w].ev \in EvOf(w) /\ (w # User => Exists(job[w].ev.runner))
         /\ job[w].status \in Status /\ job[w].final \in BOOLEAN
         /\ job[w] = [pc |-> job[w].pc, runner |-> job[w].runner, ev |-> job[w].ev,
                      status |-> job[w].status, final |-> job[w].final]
BY DEF Jobs, GoodJob, JobOf, Job, Idle

\* What a complete worker holds before it hands a report on.
LEMMA HeldAnnounce ==
  ASSUME Jobs, NEW w \in Worker, job[w].pc = "announce"
  PROVE  job[w].runner \in Runner
BY DEF Jobs, GoodJob, JobOf, Job, Idle

\* What the user's request holds.
LEMMA HeldTerminate ==
  ASSUME Jobs, NEW w \in Worker, job[w].pc = "terminate"
  PROVE  /\ job[w].runner \in Runner /\ Exists(job[w].runner)
         /\ job[w].row \in RunnerRow /\ job[w].row.status \in Status
         /\ job[w].row.ref = row[job[w].runner].ref
BY DEF Jobs, GoodJob, JobOf, Job, Idle

\* The jobs a worker may be given.
LEMMA GoodCompute ==
  ASSUME NEW w \in Worker, NEW r \in Runner, Exists(r), NEW ev \in EvOf(w),
         w # User => Exists(ev.runner), NEW x \in RunnerRow, x.status \in Status,
         x.ref = row[r].ref, NEW f \in BOOLEAN
  PROVE  GoodJob(w, [pc |-> "compute", runner |-> r, ev |-> ev, row |-> x, final |-> f])
BY DEF GoodJob, JobOf, Job

\* The job of a worker that writes.
LEMMA GoodWrite ==
  ASSUME NEW w \in Worker, NEW r \in Runner, Exists(r), NEW ev \in EvOf(w),
         w # User => Exists(ev.runner), NEW x \in RunnerRow, x.status \in Status,
         x.ref = row[r].ref, NEW f \in BOOLEAN, NEW base \in RunnerRow,
         (StagesEnabled /\ base.status \in Terminal) =>
            x.status \in {base.status, "TimedOut", "CANCELLED"}
  PROVE  GoodJob(w, [pc |-> "write", runner |-> r, ev |-> ev, base |-> base, row |-> x,
                     final |-> f])
BY DEF GoodJob, JobOf, Job

\* The job of a worker that may retry a stage.
LEMMA GoodRetry ==
  ASSUME NEW w \in Worker, NEW r \in Runner, Exists(r), NEW ev \in EvOf(w),
         w # User => Exists(ev.runner), NEW st \in Status, NEW f \in BOOLEAN,
         NEW pc \in {"reread", "create", "submit"}
  PROVE  GoodJob(w, [pc |-> pc, runner |-> r, ev |-> ev, status |-> st, final |-> f])
BY DEF GoodJob, JobOf, Job

\* The job of a worker that hands a report on.
LEMMA GoodAnnounce ==
  ASSUME NEW w \in Worker, NEW r \in Runner, Exists(r), NEW ev \in EvOf(w),
         w # User => Exists(ev.runner)
  PROVE  GoodJob(w, [pc |-> "announce", runner |-> r, ev |-> ev])
BY DEF GoodJob, JobOf, Job

\* A runner that exists has one of the program's statuses.
LEMMA ExistsIsStatus ==
  ASSUME Rows, NEW r \in Runner, Exists(r)
  PROVE  row[r] \in RunnerRow /\ row[r].status \in Status
BY DEF Rows, RunnerRow, Exists
-----------------------------------------------------------------------------
\* Computing and writing an update keep the invariant.
LEMMA UpdateStep ==
  ASSUME IInv, NEW w \in Worker, ComputeStages(w) \/ WriteRow(w)
  PROVE  IInv'
<1> USE DEF IInv, Shape
<1>1. CASE ComputeStages(w)
  <2> DEFINE saved == job[w].row
             stored == row[job[w].runner]
             upd == UpdateWorkflowStages(stored, saved.status, saved.podStatus, saved.message)
             new == [upd EXCEPT !.message = saved.message, !.finished = saved.finished]
             j == [pc |-> "write", runner |-> job[w].runner, ev |-> job[w].ev,
                   base |-> stored, row |-> new, final |-> job[w].final]
  <2>1. job' = [job EXCEPT ![w] = j]
    BY <1>1 DEF ComputeStages
  <2>2. job[w].pc = "compute"
    BY <1>1 DEF ComputeStages
  <2>3. stored \in RunnerRow /\ saved \in RunnerRow /\ saved.status \in Status
    BY <2>2, HeldCompute DEF Rows
  <2>4. /\ upd \in RunnerRow /\ upd.status \in Status /\ upd.ref = stored.ref
        /\ (StagesEnabled /\ stored.status \in Terminal) =>
             upd.status \in {stored.status, "TimedOut", "CANCELLED"}
    <3>1. saved.podStatus \in PodPhase /\ saved.status \in Status \cup {"none"}
      BY <2>3 DEF RunnerRow
    <3> QED
      BY <2>3, <3>1, UpdateTyped
  <2> HIDE DEF upd
  <2>5. /\ new \in RunnerRow /\ new.status = upd.status /\ new.ref = upd.ref
    BY <2>3, <2>4 DEF RunnerRow
  <2> HIDE DEF new
  <2>6. GoodJob(w, j)
    BY <2>2, <2>3, <2>4, <2>5, HeldCompute, GoodWrite
  <2>7. Pods' /\ Records'
    BY <1>1 DEF ComputeStages, Pods, Records, Exists
  <2>8. j.pc # "create"
    OBVIOUS
  <2> HIDE DEF j
  <2> QED
    BY <1>1, <2>1, <2>6, <2>7, <2>8, QuietJob DEF ComputeStages, Queues
<1>2. CASE WriteRow(w)
  <2> DEFINE r == job[w].runner
  <2>1. job[w].pc = "write" /\ row' = [row EXCEPT ![r] = job[w].row]
    BY <1>2 DEF WriteRow
  <2>2. PICK j : /\ job' = [job EXCEPT ![w] = j]
                 /\ \/ /\ w \in StatusWorker
                       /\ j = [pc |-> "reread", runner |-> r, ev |-> job[w].ev,
                               status |-> job[w].row.status, final |-> job[w].final]
                    \/ /\ w \in CompleteWorker
                       /\ j = [pc |-> "announce", runner |-> r, ev |-> job[w].ev]
                    \/ j = Idle
    <3>1. CASE w \in StatusWorker
      BY <1>2, <3>1, WorkerAssumption DEF WriteRow
    <3>2. CASE w \in CompleteWorker
      BY <1>2, <3>2, WorkerAssumption DEF WriteRow
    <3>3. CASE w \notin StatusWorker \cup CompleteWorker
      BY <1>2, <3>3 DEF WriteRow
    <3> QED
      BY <3>1, <3>2, <3>3
  <2>3. GoodJob(w, j) /\ j.pc # "create"
    <3>1. CASE j = [pc |-> "reread", runner |-> r, ev |-> job[w].ev,
                    status |-> job[w].row.status, final |-> job[w].final]
      BY <2>1, <3>1, HeldWrite, GoodRetry
    <3>2. CASE j = [pc |-> "announce", runner |-> r, ev |-> job[w].ev]
      BY <2>1, <3>2, HeldWrite, GoodAnnounce
    <3>3. CASE j = Idle
      BY <3>3, IdleIsGood DEF Idle
    <3> QED
      BY <2>2, <3>1, <3>2, <3>3
  <2>4. Records'
    BY <1>2, <2>1, HeldWrite DEF WriteRow, Records
  <2> QED
    BY <1>2, <2>1, <2>2, <2>3, <2>4, HeldWrite, WriteBack DEF WriteRow
<1> QED
  BY <1>1, <1>2
\* A status event that is taken keeps it.
LEMMA BeginStatusStep ==
  ASSUME IInv, NEW w \in StatusWorker, BeginStatus(w)
  PROVE  IInv'
<1> USE DEF IInv, Shape
<1> DEFINE ev == Head(statusQ)
           saved == row[ev.runner]
           x == UpdateWorkflow(ev, saved)
           j == [pc |-> "compute", runner |-> ev.runner, ev |-> ev, row |-> x,
                 final |-> Finished(ev.runner)]
<1>1. statusQ # <<>> /\ statusQ' = Tail(statusQ)
  BY DEF BeginStatus
<1>2. ev \in Known(StatusEvent) /\ statusQ' \in Seq(Known(StatusEvent))
  BY <1>1 DEF Queues
<1>3. ev \in StatusEvent /\ ev.runner \in Runner /\ Exists(ev.runner)
  BY <1>2 DEF Known, StatusEvent
<1>4. job' = [job EXCEPT ![w] = j] \/ UNCHANGED job
  BY DEF BeginStatus, StartUpdate
<1>5. Pods' /\ Records'
  BY DEF BeginStatus, Pods, Records, Exists
<1>6. saved \in RunnerRow /\ saved.status \in Status
  BY <1>3, ExistsIsStatus
<1>7. x \in RunnerRow /\ x.status \in Status /\ x.ref = saved.ref
  <2>1. PICK m \in Message : m = IF saved.podStatus \in Terminal THEN saved.message ELSE ev.message
    BY <1>3, <1>6 DEF RunnerRow, StatusEvent
  <2>2. PICK b \in BOOLEAN : b = IF saved.podStatus \in Terminal \/ saved.status \in Terminal
                                 THEN saved.finished ELSE ev.finished
    BY <1>3, <1>6 DEF RunnerRow, StatusEvent
  <2>3. PICK st \in Status : st = IF saved.status = "CANCELLED" THEN saved.status ELSE ev.phase
    BY <1>3, <1>6 DEF StatusEvent, Status
  <2>4. ev.podStatus \in PodPhase
    BY <1>3 DEF StatusEvent
  <2>5. x = [saved EXCEPT !.message = m, !.finished = b, !.status = st,
                          !.podStatus = ev.podStatus]
    BY <2>1, <2>2, <2>3 DEF UpdateWorkflow
  <2> HIDE DEF ev, saved, x
  <2> QED
    BY <2>4, <2>5, <1>6 DEF RunnerRow
<1>8. GoodJob(w, j)
  <2>1. w \in Worker /\ ev \in EvOf(w) /\ Finished(ev.runner) \in BOOLEAN
    BY <1>3 DEF EvOf, Worker, Finished
  <2> HIDE DEF ev, x
  <2> QED
    BY <1>3, <1>7, <2>1, GoodCompute
<1>9. j.pc # "create"
  OBVIOUS
<1> HIDE DEF j, ev
<1> QED
  BY <1>2, <1>4, <1>5, <1>8, <1>9, Quiet, QuietJob DEF BeginStatus, Worker, Queues

\* So does the decision to retry, which counts the retries there are.
LEMMA CheckReTriggerStep ==
  ASSUME IInv, NEW w \in StatusWorker, CheckReTrigger(w)
  PROVE  IInv'
<1> USE DEF IInv, Shape
<1> DEFINE o == Original(job[w].runner)
<1>1. w \in Worker /\ job[w].pc = "reread"
  BY DEF Worker, CheckReTrigger
<1>2. Pods' /\ Records' /\ Rows' /\ RowsStay /\ RowsSame /\ Queues'
  BY RowUnchanged, QueuesStay DEF CheckReTrigger, Pods, Records, Exists
<1>3. CASE job' = [job EXCEPT ![w] = Idle]
  BY <1>1, <1>2, <1>3, IdleIsGood, QuietJob DEF CheckReTrigger, Queues, Idle
<1>4. CASE /\ Cardinality(Retries(o)) < MaxRetries
           /\ job' = [job EXCEPT ![w] = [job[w] EXCEPT !.pc = "create"]]
  <2>0. PICK j : j = [pc |-> "create", runner |-> job[w].runner, ev |-> job[w].ev,
                      status |-> job[w].status, final |-> job[w].final]
    OBVIOUS
  <2>1. j = [job[w] EXCEPT !.pc = "create"]
    <3>1. PICK k : k = job[w]
      OBVIOUS
    <3>2. k = [pc |-> k.pc, runner |-> k.runner, ev |-> k.ev, status |-> k.status,
               final |-> k.final]
      BY <1>1, <3>1, HeldRetry
    <3> QED
      BY <2>0, <3>1, <3>2
  <2>2. GoodJob(w, j)
    BY <2>0, <1>1, HeldRetry, GoodRetry
  <2>3. Jobs' /\ \A x \in Worker : job'[x] = IF x = w THEN j ELSE job[x]
    <3>1. GoodJob(w, j)'
      BY <1>1, <1>2, <2>2, JobStays
    <3>2. job' = [job EXCEPT ![w] = j]
      BY <1>4, <2>1
    <3> QED
      BY <1>1, <1>2, <3>1, <3>2, JobSet
  <2>4. ASSUME NEW r \in Runner
        PROVE  Cardinality(Retries(r)') + Cardinality(Creators(r)')
                 < MaxRetries + Cardinality(StatusWorker)
    <3>1. Retries(r)' = Retries(r)
      BY <1>2, RefsStay
    <3>2. CASE r = o
      BY <3>1, <3>2, <1>4, Counted, CountedNext, BoundsAssumption
    <3>3. CASE r # o
      <4>1. /\ job[w].runner \in Runner
            /\ \A x \in StatusWorker : job[x].pc = "create" => job[x].runner \in Runner
        BY <1>1, HeldRetry, CreatorHoldsRunner DEF Worker
      <4>3. ASSUME NEW x \in Creators(r)' PROVE x \in Creators(r)
        <5>1. /\ x \in StatusWorker /\ job'[x].pc = "create"
              /\ (IF row[job'[x].runner].ref = 0 THEN job'[x].runner
                  ELSE row[job'[x].runner].ref) = r
          BY DEF Creators, Original, CheckReTrigger
        <5>2. job'[x] = IF x = w THEN j ELSE job[x]
          BY <2>3, <5>1 DEF Worker
        <5>3. x # w
          <6> SUFFICES ASSUME x = w PROVE FALSE
            OBVIOUS
          <6>1. job'[x].runner = job[w].runner
            BY <5>2, <2>0
          <6> QED
            BY <5>1, <6>1, <3>3 DEF Original
        <5> QED
          BY <5>1, <5>2, <5>3 DEF Creators, Original
      <4>5. Creators(r)' \in SUBSET Creators(r)
        BY <4>3 DEF Creators
      <4>4. Cardinality(Creators(r)') <= Cardinality(Creators(r))
        BY <4>5, Counted, FS_Subset
      <4> QED
        BY <3>1, <4>4, Counted, CountedNext, BoundsAssumption DEF Budget
    <3> QED
      BY <3>2, <3>3
  <2>5. Budget'
    BY <2>4 DEF Budget
  <2> QED
    BY <1>2, <2>3, <2>5
<1> QED
  BY <1>3, <1>4 DEF CheckReTrigger

\* A retry that is created is one its creator had counted on.
LEMMA CreateRetryStep ==
  ASSUME IInv, NEW w \in StatusWorker, CreateRetry(w)
  PROVE  IInv'
<1> USE DEF IInv, Shape
<1>1. PICK new \in Runner :
        /\ ~Exists(new)
        /\ row' = [row EXCEPT ![new] =
             [status |-> StartingRows.status, podStatus |-> StartingRows.podStatus,
              prep |-> StartingRows.prep, exec |-> StartingRows.exec,
              pod |-> StartingRows.pod, message |-> "", finished |-> FALSE,
              ref |-> Original(job[w].runner)]]
        /\ job' = [job EXCEPT ![w] =
             [pc |-> "submit", runner |-> new, ev |-> job[w].ev,
              status |-> job[w].status, final |-> job[w].final]]
  BY DEF CreateRetry
<1>2. w \in Worker /\ job[w].pc = "create"
  BY DEF Worker, CreateRetry
<1>3. PICK o : o = Original(job[w].runner)
  OBVIOUS
<1>4. o \in Runner /\ Exists(o) /\ row[o].ref = 0
  BY <1>2, <1>3, HeldRetry DEF Original, Rows, RunnerRow
<1>5. PICK rec \in RunnerRow : /\ row' = [row EXCEPT ![new] = rec]
                               /\ rec.status \in Status /\ rec.ref = o
  <2>1. PICK rec : rec = [status |-> StartingRows.status,
                          podStatus |-> StartingRows.podStatus,
                          prep |-> StartingRows.prep, exec |-> StartingRows.exec,
                          pod |-> StartingRows.pod, message |-> "", finished |-> FALSE,
                          ref |-> o]
    OBVIOUS
  <2>2. rec \in RunnerRow /\ rec.status \in Status /\ rec.ref = o
    BY <2>1, <1>4 DEF StartingRows, RunnerRow, Status, StageStatus, PodPhase, Message
  <2> QED
    BY <1>1, <1>3, <2>1, <2>2
<1>6. Rows' /\ RowsStay
  BY <1>1, <1>4, <1>5, RowCreated
<1>7. Queues' /\ Records'
  BY <1>6, QueuesStay DEF CreateRetry, Records
<1>8. Pods'
  BY <1>6 DEF CreateRetry, Pods, RowsStay
<1>9. \A x \in Runner : row'[x] = IF x = new THEN rec ELSE row[x]
  BY <1>5 DEF Rows
<1>10. Exists(new)'
  <2>1. "none" \notin Status
    BY DEF Status, Terminal, PodPhase
  <2> QED
    BY <1>5, <1>9, <2>1 DEF Exists
<1>11. PICK j : j = [pc |-> "submit", runner |-> new, ev |-> job[w].ev,
                     status |-> job[w].status, final |-> job[w].final]
  OBVIOUS
<1>12. job' = [job EXCEPT ![w] = j]
  BY <1>1, <1>11
<1>13. Jobs' /\ \A x \in Worker : job'[x] = IF x = w THEN j ELSE job[x]
  <2>1. PICK ev \in StatusEvent : ev = job[w].ev
    BY <1>2, HeldRetry DEF EvOf
  <2>2. ev \in EvOf(w) /\ Exists(ev.runner)
    BY <1>2, <2>1, HeldRetry, WorkerAssumption DEF EvOf
  <2>3. Exists(ev.runner)'
    BY <1>6, <2>2 DEF RowsStay, StatusEvent
  <2>4. PICK st \in Status, f \in BOOLEAN : j = [pc |-> "submit", runner |-> new,
                                                 ev |-> ev, status |-> st, final |-> f]
    BY <1>2, <1>11, <2>1, HeldRetry
  <2>5. GoodJob(w, j)'
    BY <1>10, <2>2, <2>3, <2>4 DEF GoodJob, JobOf, Job
  <2> QED
    BY <1>2, <1>6, <1>12, <2>5, JobSet
<1>14. \A x \in Runner : Exists(x)' <=> (x = new \/ Exists(x))
  BY <1>9, <1>10 DEF Exists
<1>15. \A x \in Runner : x # new => row'[x].ref = row[x].ref
  BY <1>9
<1>16. ASSUME NEW r \in Runner PROVE Creators(r)' \in SUBSET Creators(r)
  <2>1. ASSUME NEW x \in Creators(r)' PROVE x \in Creators(r)
    <3>1. x \in StatusWorker /\ job'[x].pc = "create"
          /\ (IF row'[job'[x].runner].ref = 0 THEN job'[x].runner
              ELSE row'[job'[x].runner].ref) = r
      BY DEF Creators, Original
    <3>2. job'[x] = job[x]
      BY <1>11, <1>13, <3>1 DEF Worker
    <3>3. job[x].runner \in Runner /\ job[x].runner # new
      BY <1>1, <3>1, <3>2, HeldRetry DEF Worker
    <3> QED
      BY <1>15, <3>1, <3>2, <3>3 DEF Creators, Original
  <2> QED
    BY <2>1
<1>17. w \in Creators(o) /\ w \notin Creators(o)'
  <2>1. job'[w].pc = "submit"
    BY <1>2, <1>11, <1>13
  <2> QED
    BY <1>2, <1>3, <2>1 DEF Creators
<1>18. ASSUME NEW r \in Runner
       PROVE  Cardinality(Retries(r)') + Cardinality(Creators(r)')
                < MaxRetries + Cardinality(StatusWorker)
  <2>1. CASE r = o
    <3>1. Retries(r)' = Retries(r) \cup {new}
      BY <2>1, <1>5, <1>9, <1>14, <1>15 DEF Retries
    <3>2. new \notin Retries(r)
      BY <1>1 DEF Retries
    <3>3. Cardinality(Retries(r)') = Cardinality(Retries(r)) + 1
      BY <3>1, <3>2, Counted, FS_AddElement
    <3>4. Creators(r)' \in SUBSET (Creators(r) \ {w})
      BY <2>1, <1>16, <1>17
    <3>5. /\ Cardinality(Creators(r) \ {w}) = Cardinality(Creators(r)) - 1
          /\ IsFiniteSet(Creators(r) \ {w})
      BY <2>1, <1>17, Counted, FS_RemoveElement
    <3>6. Cardinality(Creators(r)') <= Cardinality(Creators(r)) - 1
      BY <3>4, <3>5, FS_Subset
    <3> QED
      BY <3>3, <3>6, Counted, CountedNext, BoundsAssumption DEF Budget
  <2>2. CASE r # o
    <3>1. Retries(r)' = Retries(r)
      BY <2>2, <1>1, <1>5, <1>9, <1>14, <1>15 DEF Retries
    <3>2. Cardinality(Creators(r)') <= Cardinality(Creators(r))
      BY <1>16, Counted, FS_Subset
    <3> QED
      BY <3>1, <3>2, Counted, CountedNext, BoundsAssumption DEF Budget
  <2> QED
    BY <2>1, <2>2
<1>19. Budget'
  BY <1>18 DEF Budget
<1> QED
  BY <1>6, <1>7, <1>8, <1>13, <1>19

\* A retry that fails, or is submitted, keeps the invariant.
LEMMA RetryEnds ==
  ASSUME IInv, NEW w \in StatusWorker, RetryFails(w) \/ SubmitWorkflow(w) \/ SubmitFails(w)
  PROVE  IInv'
<1> USE DEF IInv, Shape
<1>1. /\ w \in Worker /\ job[w].pc \in {"create", "submit"}
      /\ job' = [job EXCEPT ![w] = Idle]
  BY DEF Worker, RetryFails, SubmitWorkflow, SubmitFails
<1>2. job[w].runner \in Runner /\ Exists(job[w].runner)
  BY <1>1, HeldRetry
<1>3. GoodJob(w, Idle) /\ Idle.pc # "create"
  BY <1>1, IdleIsGood DEF Idle
<1>4. CASE RetryFails(w)
  <2>1. Pods' /\ Records'
    BY <1>2, <1>4 DEF RetryFails, Disturb, Pods, Records, Exists
  <2> QED
    BY <1>1, <1>3, <1>4, <2>1, QuietJob DEF RetryFails, Queues
<1>5. CASE SubmitWorkflow(w)
  <2>1. Pods' /\ Records'
    BY <1>2, <1>5 DEF SubmitWorkflow, Pods, Pod, Records, Exists
  <2> QED
    BY <1>1, <1>3, <1>5, <2>1, QuietJob DEF SubmitWorkflow, Queues
<1>6. CASE SubmitFails(w)
  <2>1. PICK r \in Runner : r = job[w].runner
    BY <1>2
  <2>2. PICK upd : upd = UpdateWorkflowStages(row[r], "Failed", row[r].podStatus, "exit")
    OBVIOUS
  <2>3. upd \in RunnerRow /\ upd.status \in Status /\ upd.ref = row[r].ref
    <3>1. row[r] \in RunnerRow /\ row[r].podStatus \in PodPhase
      BY ExistsIsStatus, <1>2, <2>1 DEF RunnerRow
    <3>2. "Failed" \in Status
      BY DEF Status, Terminal
    <3> QED
      BY <2>2, <3>1, <3>2, UpdateTyped
  <2>4. PICK new : new = [upd EXCEPT !.message = "exit", !.finished = TRUE]
    OBVIOUS
  <2>5. new \in RunnerRow /\ new.status \in Status /\ new.ref = row[r].ref
    BY <2>3, <2>4 DEF RunnerRow, Message
  <2>6. row' = [row EXCEPT ![r] = new]
    BY <1>6, <2>1, <2>2, <2>4 DEF SubmitFails
  <2>7. Records'
    BY <1>6 DEF SubmitFails, Disturb, Records
  <2> QED
    BY <1>1, <1>2, <1>3, <1>6, <2>1, <2>5, <2>6, <2>7, WriteBack DEF SubmitFails
<1> QED
  BY <1>4, <1>5, <1>6

\* Reports of the ci-runner, taken, dropped and handed on.
LEMMA CompleteWorkerStep ==
  ASSUME IInv, NEW w \in CompleteWorker, CompleteStep(w)
  PROVE  IInv'
<1> USE DEF IInv, Shape
<1>1. w \in Worker
  BY DEF Worker
<1>2. Pods' /\ Records'
  BY HeldAnnounce, <1>1 DEF CompleteStep, BeginComplete, DropComplete, Announce, Pods,
     Records, Exists
<1>3. CASE BeginComplete(w)
  <2>1. PICK ev : ev = Head(completeQ)
    OBVIOUS
  <2>2. ev \in Known(CompleteEvent) /\ completeQ' \in Seq(Known(CompleteEvent))
    BY <1>3, <2>1 DEF BeginComplete, Queues
  <2>3. /\ ev \in CompleteEvent /\ ev.runner \in Runner /\ Exists(ev.runner)
        /\ ev \in EvOf(w) /\ w # User
    BY <2>2, WorkerAssumption DEF Known, CompleteEvent, EvOf
  <2>4. PICK saved : saved = row[ev.runner]
    OBVIOUS
  <2>5. saved \in RunnerRow /\ saved.status \in Status
    BY <2>3, <2>4, ExistsIsStatus
  <2>6. PICK st : st = IF ev.failed THEN "Failed" ELSE "Succeeded"
    OBVIOUS
  <2>7. st \in Status
    BY <2>6 DEF Status, Terminal
  <2>8. PICK x : x = [saved EXCEPT !.status = st]
    OBVIOUS
  <2>9. x \in RunnerRow /\ x.status \in Status /\ x.ref = row[ev.runner].ref
    BY <2>4, <2>5, <2>7, <2>8 DEF RunnerRow
  <2>10. PICK j : /\ job' = [job EXCEPT ![w] = j]
                  /\ \/ j = [pc |-> "announce", runner |-> ev.runner, ev |-> ev]
                     \/ j = [pc |-> "compute", runner |-> ev.runner, ev |-> ev, row |-> x,
                             final |-> Finished(ev.runner)]
    BY <1>3, <2>1, <2>4, <2>6, <2>8 DEF BeginComplete, StartUpdate
  <2>11. GoodJob(w, j) /\ j.pc # "create"
    <3>1. Finished(ev.runner) \in BOOLEAN
      BY DEF Finished
    <3>2. CASE j = [pc |-> "announce", runner |-> ev.runner, ev |-> ev]
      BY <1>1, <2>3, <3>2, GoodAnnounce
    <3>3. CASE j = [pc |-> "compute", runner |-> ev.runner, ev |-> ev, row |-> x,
                    final |-> Finished(ev.runner)]
      BY <1>1, <2>3, <2>9, <3>1, <3>3, GoodCompute
    <3> QED
      BY <2>10, <3>2, <3>3
  <2> QED
    BY <1>1, <1>2, <1>3, <2>2, <2>10, <2>11, QuietJob DEF BeginComplete, Queues
<1>4. CASE DropComplete(w)
  BY <1>2, <1>4, Quiet DEF DropComplete, Queues
<1>5. CASE Announce(w)
  <2>1. GoodJob(w, Idle) /\ Idle.pc # "create"
    BY <1>1, IdleIsGood DEF Idle
  <2> QED
    BY <1>1, <1>2, <1>5, <2>1, QuietJob DEF Announce, Queues
<1> QED
  BY <1>3, <1>4, <1>5 DEF CompleteStep

\* The steps of a user who cancels the stage.
LEMMA CancelStep ==
  ASSUME IInv, CancelStage
  PROVE  IInv'
<1> USE DEF IInv, Shape
<1>1. User \in Worker /\ GoodJob(User, Idle) /\ Idle.pc # "create"
  BY IdleIsGood DEF Worker, Idle
<1>2. ASSUME NEW r \in Runner, BeginCancel(r) PROVE IInv'
  <2>1. PICK j : j = [pc |-> "terminate", runner |-> r, row |-> row[r]]
    OBVIOUS
  <2>2. GoodJob(User, j) /\ j.pc # "create"
    BY <1>2, <2>1, ExistsIsStatus DEF BeginCancel, GoodJob, JobOf, Job
  <2>3. Pods' /\ Records'
    BY <1>2 DEF BeginCancel, Disturb, Pods, Records, Exists
  <2> QED
    BY <1>1, <1>2, <2>1, <2>2, <2>3, QuietJob DEF BeginCancel, Queues
<1>3. CASE Terminate
  <2>1. PICK r \in Runner : r = job[User].runner /\ Exists(r)
    BY <1>1, <1>3, HeldTerminate DEF Terminate
  <2>2. PICK saved \in RunnerRow : /\ saved = job[User].row /\ saved.status \in Status
                                   /\ saved.ref = row[r].ref
    BY <1>1, <1>3, <2>1, HeldTerminate DEF Terminate
  <2>3. PICK force \in BOOLEAN : WriteCancel(force)
    BY <1>3 DEF Terminate
  <2>4. PICK x : x = Cancelled(saved, force)
    OBVIOUS
  <2>5. x \in RunnerRow /\ x.status \in Status /\ x.ref = row[r].ref
    BY <2>2, <2>4 DEF Cancelled, RunnerRow, Status, Terminal, PodPhase, Message
  <2>6. PICK j : /\ job' = [job EXCEPT ![User] = j]
                 /\ \/ j = Idle
                    \/ j = [pc |-> "compute", runner |-> r, ev |-> {}, row |-> x,
                            final |-> Finished(r)]
    BY <2>1, <2>2, <2>3, <2>4 DEF WriteCancel, StartUpdate
  <2>7. GoodJob(User, j) /\ j.pc # "create"
    <3>1. {} \in EvOf(User) /\ Finished(r) \in BOOLEAN
      BY WorkerAssumption DEF EvOf, Finished
    <3>2. CASE j = [pc |-> "compute", runner |-> r, ev |-> {}, row |-> x,
                    final |-> Finished(r)]
      BY <1>1, <2>1, <2>5, <3>1, <3>2, GoodCompute
    <3> QED
      BY <1>1, <2>6, <3>2
  <2>8. statusQ' \in Seq(Known(StatusEvent)) /\ Pods'
    <3>1. CASE pod[r] \in {"pending", "running"}
      <4>1. pod' = [pod EXCEPT ![r] = "exited"] /\ Publish(r, "exited") /\ "exited" \in Pod
        BY <1>3, <2>1, <3>1 DEF Terminate, Pod
      <4> QED
        BY <1>3, <2>1, <4>1, PublishKnown DEF Terminate, Pods, Exists
    <3>2. CASE pod[r] \notin {"pending", "running"}
      BY <1>3, <2>1, <3>2 DEF Terminate, Pods, Exists, Queues
    <3> QED
      BY <3>1, <3>2
  <2>9. Records'
    BY <1>3 DEF Terminate, Records
  <2> QED
    BY <1>1, <1>3, <2>6, <2>7, <2>8, <2>9, QuietJob DEF Terminate, Queues
<1>4. CASE TerminateFails
  <2>1. Pods' /\ Records'
    BY <1>4 DEF TerminateFails, Pods, Records, Exists
  <2> QED
    BY <1>1, <1>4, <2>1, QuietJob DEF TerminateFails, Queues
<1> QED
  BY <1>2, <1>3, <1>4 DEF CancelStage

\* The messages workers hold are messages about runners that exist.
LEMMA TakenTyped ==
  ASSUME Jobs
  PROVE  /\ \A w \in StatusWorker : Busy(w) => job[w].ev \in Known(StatusEvent)
         /\ \A w \in CompleteWorker : Busy(w) =>
              [job[w].ev EXCEPT !.again = TRUE] \in Known(CompleteEvent)
<1>1. ASSUME NEW w \in Worker, w # User, Busy(w)
      PROVE  job[w].ev \in EvOf(w) /\ Exists(job[w].ev.runner)
  BY <1>1 DEF Busy, Jobs, GoodJob, JobOf, Job, Idle
<1>2. ASSUME NEW w \in StatusWorker, Busy(w) PROVE job[w].ev \in Known(StatusEvent)
  BY <1>1, <1>2, WorkerAssumption DEF Worker, EvOf, Known
<1>3. ASSUME NEW w \in CompleteWorker, Busy(w)
      PROVE  [job[w].ev EXCEPT !.again = TRUE] \in Known(CompleteEvent)
  <2>1. PICK ev \in CompleteEvent : ev = job[w].ev /\ Exists(ev.runner)
    BY <1>1, <1>3, WorkerAssumption DEF Worker, EvOf
  <2>2. [ev EXCEPT !.again = TRUE] \in CompleteEvent
    BY DEF CompleteEvent
  <2>3. [ev EXCEPT !.again = TRUE].runner = ev.runner
    BY DEF CompleteEvent
  <2> QED
    BY <2>1, <2>2, <2>3 DEF Known
<1> QED
  BY <1>2, <1>3

\* A message that comes again keeps the invariant.
LEMMA RedeliverStep ==
  ASSUME IInv, NEW w \in Worker, Redeliver(w)
  PROVE  IInv'
<1> USE DEF IInv, Shape
<1>1. Pods' /\ Records'
  BY DEF Redeliver, Disturb, Pods, Records, Exists
<1>2. \A x \in {w} : Busy(x)
  BY DEF Redeliver
<1>3. {x \in {w} : Busy(x)} = {w} /\ IsFiniteSet({w})
  BY <1>2, FS_Singleton
<1>4. CASE w \in StatusWorker /\ statusQ' = Requeued(Taken({w}), statusQ) /\ UNCHANGED completeQ
  <2>1. Taken({w}) \in [{w} -> Known(StatusEvent)]
    BY <1>3, <1>4, TakenTyped DEF Taken
  <2>2. statusQ' \in Seq(Known(StatusEvent))
    BY <1>3, <1>4, <2>1, RequeuedTyped DEF Queues
  <2> QED
    BY <1>1, <1>4, <2>2, Quiet DEF Redeliver, Queues
<1>5. CASE /\ w \in CompleteWorker
           /\ completeQ' = Requeued(Redelivered(Taken({w})), completeQ)
           /\ UNCHANGED statusQ
  <2>1. Redelivered(Taken({w})) \in [{w} -> Known(CompleteEvent)]
    BY <1>3, <1>5, TakenTyped DEF Taken, Redelivered
  <2>2. completeQ' \in Seq(Known(CompleteEvent))
    BY <1>3, <1>5, <2>1, RequeuedTyped DEF Queues
  <2> QED
    BY <1>1, <1>5, <2>2, Quiet DEF Redeliver, Queues
<1> QED
  BY <1>4, <1>5 DEF Redeliver

\* So does a crash: every message that was taken comes again.
LEMMA CrashStep ==
  ASSUME IInv, Crash
  PROVE  IInv'
<1> USE DEF IInv, Shape
<1>1. Rows' /\ RowsStay /\ RowsSame
  BY RowUnchanged DEF Crash
<1>2. \A w \in Worker : job'[w] = Idle
  BY DEF Crash
<1>3. Jobs'
  BY <1>2, IdleIsGood DEF Crash, Jobs
<1>4. Budget'
  BY <1>1, <1>2, BudgetStays, CreatorHoldsRunner DEF Idle, Worker
<1>5. Pods'
  BY DEF Crash, Pods, Exists
<1>6. Records'
  BY CreatorHoldsRunner DEF Crash, Disturb, Records, Worker
<1>7. statusQ' \in Seq(Known(StatusEvent))
  <2>1. PICK W : W = {w \in StatusWorker : Busy(w)}
    OBVIOUS
  <2>2. IsFiniteSet(W)
    BY <2>1, WorkerAssumption, FS_Subset
  <2>3. Taken(StatusWorker) \in [W -> Known(StatusEvent)]
    BY <2>1, TakenTyped DEF Taken
  <2> QED
    BY <2>2, <2>3, RequeuedTyped DEF Crash, Queues
<1>8. completeQ' \in Seq(Known(CompleteEvent))
  <2>1. PICK W : W = {w \in CompleteWorker : Busy(w)}
    OBVIOUS
  <2>2. IsFiniteSet(W)
    BY <2>1, WorkerAssumption, FS_Subset
  <2>3. Redelivered(Taken(CompleteWorker)) \in [W -> Known(CompleteEvent)]
    BY <2>1, TakenTyped DEF Taken, Redelivered
  <2> QED
    BY <2>2, <2>3, RequeuedTyped DEF Crash, Queues
<1>9. Queues'
  <2>1. /\ Known(StatusEvent) \subseteq Known(StatusEvent)'
        /\ Known(CompleteEvent) \subseteq Known(CompleteEvent)'
    BY <1>1, QueueStays DEF StatusEvent, CompleteEvent
  <2> QED
    BY <1>7, <1>8, <2>1, SeqMono DEF Queues
<1> QED
  BY <1>1, <1>3, <1>4, <1>5, <1>6, <1>9

\* Every step keeps the invariant.
LEMMA NextIInv == IInv /\ [Next]_vars => IInv'
<1> SUFFICES ASSUME IInv, [Next]_vars PROVE IInv'
  OBVIOUS
<1>1. ASSUME NEW r \in Runner, Cluster(r) PROVE IInv'
  BY <1>1, ClusterStep
<1>2. ASSUME NEW w \in Worker, ComputeStages(w) \/ WriteRow(w) \/ Redeliver(w) PROVE IInv'
  BY <1>2, UpdateStep, RedeliverStep
<1>3. ASSUME NEW w \in StatusWorker, StatusStep(w) PROVE IInv'
  BY <1>3, BeginStatusStep, CheckReTriggerStep, CreateRetryStep, RetryEnds DEF StatusStep
<1>4. ASSUME NEW w \in CompleteWorker, CompleteStep(w) PROVE IInv'
  BY <1>4, CompleteWorkerStep
<1>5. CASE UNCHANGED vars
  <2>1. Pods' /\ Records'
    BY <1>5 DEF IInv, Shape, vars, Pods, Records, Exists
  <2> QED
    BY <1>5, <2>1, Quiet DEF vars, IInv, Shape, Queues
<1> QED
  BY <1>1, <1>2, <1>3, <1>4, <1>5, CancelStep, CrashStep DEF Next

-----------------------------------------------------------------------------
(* What it implies *)

\* The invariant types the state.
LEMMA IInvTypes == IInv => TypeOK
<1> SUFFICES ASSUME IInv PROVE TypeOK
  OBVIOUS
<1> USE DEF IInv, Shape
<1>1. statusQ \in Seq(StatusEvent) /\ completeQ \in Seq(CompleteEvent)
  <2>1. Known(StatusEvent) \subseteq StatusEvent /\ Known(CompleteEvent) \subseteq CompleteEvent
    BY DEF Known
  <2> QED
    BY <2>1, SeqMono DEF Queues
<1>2. ASSUME NEW w \in Worker
      PROVE  job[w] \in IF w \in StatusWorker THEN Job(StatusEvent)
                       ELSE IF w \in CompleteWorker THEN Job(CompleteEvent) ELSE Job({{}})
  <2>1. job[w] \in JobOf(w)
    BY DEF Jobs, GoodJob
  <2> QED
    BY <2>1, Zenon DEF JobOf, EvOf
<1>3. job = [w \in Worker |-> job[w]]
  BY DEF Jobs
<1> QED
  BY <1>1, <1>2, <1>3 DEF TypeOK, Rows, Pods, Records

\* The budget and the runners' references bound the retries.
LEMMA IInvBounds == IInv => RetriesBounded
<1> SUFFICES ASSUME IInv, NEW r \in Runner
             PROVE  /\ Cardinality(Retries(r)) < MaxRetries + Cardinality(StatusWorker)
                    /\ Retries(r) # {} => row[r].ref = 0
  BY DEF RetriesBounded
<1>1. Cardinality(Retries(r)) < MaxRetries + Cardinality(StatusWorker)
  BY Counted, BoundsAssumption DEF IInv, Budget
<1>2. 0 \notin Runner
  BY RunnerAssumption, FS_CardinalityType
<1> QED
  BY <1>1, <1>2 DEF IInv, Shape, Rows, Retries

\* The invariant holds throughout.
LEMMA Invariance == Spec => []IInv
BY InitIInv, NextIInv, PTL DEF Spec

\* Runners, pods, queues and jobs have the values the code gives them, for any number
\* of workers, runners and disturbances.
THEOREM TypeCorrect == Spec => []TypeOK
BY Invariance, IInvTypes, PTL

\* A stage is retried fewer than MaxRetries times plus the number of status workers,
\* and only the original runner is ever referred to.
THEOREM RetryBound == Spec => []RetriesBounded
BY Invariance, IInvBounds, PTL

-----------------------------------------------------------------------------
(* Terminal statuses *)

\* A terminal status only ever changes to the cause of a failure, unless the runner
\* was written by a worker that had not seen an earlier write.
KeepsTerminal ==
  \A r \in Runner :
    (row[r].status \in Terminal /\ r \notin torn') =>
      row'[r].status \in {row[r].status, "TimedOut", "CANCELLED"}

\* Each of the three steps that write to a runner keeps what is terminal.
LEMMA StepKeepsTerminal ==
  ASSUME StagesEnabled, IInv, [Next]_vars
  PROVE  KeepsTerminal
<1> USE DEF IInv, Shape
<1>1. ASSUME UNCHANGED row PROVE KeepsTerminal
  BY <1>1 DEF KeepsTerminal
<1>2. ASSUME NEW w \in Worker, WriteRow(w) PROVE KeepsTerminal
  <2> SUFFICES ASSUME NEW r \in Runner, row[r].status \in Terminal, r \notin torn'
               PROVE  row'[r].status \in {row[r].status, "TimedOut", "CANCELLED"}
    BY DEF KeepsTerminal
  <2>1. job[w].pc = "write" /\ row' = [row EXCEPT ![job[w].runner] = job[w].row]
    BY <1>2 DEF WriteRow
  <2>2. CASE r = job[w].runner
    <3>1. row[r] = job[w].base
      BY <1>2, <2>2 DEF WriteRow
    <3>2. row'[r] = job[w].row
      BY <2>1, <2>2 DEF Rows
    <3> QED
      BY <2>1, <3>1, <3>2, HeldWrite
  <2>3. CASE r # job[w].runner
    BY <2>1, <2>3 DEF Rows
  <2> QED
    BY <2>2, <2>3
<1>3. ASSUME NEW w \in StatusWorker, CreateRetry(w) PROVE KeepsTerminal
  <2>0. PICK new \in Runner :
          /\ ~Exists(new)
          /\ row' = [row EXCEPT ![new] =
               [status |-> StartingRows.status, podStatus |-> StartingRows.podStatus,
                prep |-> StartingRows.prep, exec |-> StartingRows.exec,
                pod |-> StartingRows.pod, message |-> "", finished |-> FALSE,
                ref |-> Original(job[w].runner)]]
    BY <1>3 DEF CreateRetry
  <2>1. PICK rec : ~Exists(new) /\ row' = [row EXCEPT ![new] = rec]
    BY <2>0
  <2>2. row[new].status \notin Terminal
    BY <2>1 DEF Exists, Terminal
  <2> QED
    BY <2>1, <2>2 DEF KeepsTerminal, Rows
<1>4. ASSUME NEW w \in StatusWorker, SubmitFails(w) PROVE KeepsTerminal
  <2>1. PICK x \in Runner : x = job[w].runner /\ Exists(x)
    <3>1. w \in Worker /\ job[w].pc = "submit"
      BY <1>4 DEF SubmitFails, Worker
    <3> QED
      BY <3>1, HeldRetry
  <2>2. PICK upd : upd = UpdateWorkflowStages(row[x], "Failed", row[x].podStatus, "exit")
    OBVIOUS
  <2>3. /\ upd \in RunnerRow
        /\ row[x].status \in Terminal => upd.status \in {row[x].status, "TimedOut", "CANCELLED"}
    <3>1. row[x] \in RunnerRow /\ row[x].podStatus \in PodPhase
      BY ExistsIsStatus, <2>1 DEF RunnerRow
    <3>2. "Failed" \in Status
      BY DEF Status, Terminal
    <3> QED
      BY <2>2, <3>1, <3>2, UpdateTyped
  <2>4. PICK new : new = [upd EXCEPT !.message = "exit", !.finished = TRUE]
    OBVIOUS
  <2>5. new.status = upd.status
    BY <2>3, <2>4 DEF RunnerRow
  <2>6. row' = [row EXCEPT ![x] = new]
    BY <1>4, <2>1, <2>2, <2>4 DEF SubmitFails
  <2> QED
    BY <2>3, <2>5, <2>6 DEF KeepsTerminal, Rows
<1> USE DEF Next
<1>5. CASE \E r \in Runner : Cluster(r)
  BY <1>1, <1>5 DEF Cluster, PodStarts, RunnerReports, PodEnds, Resync
<1>6. CASE \E w \in Worker : ComputeStages(w) \/ WriteRow(w) \/ Redeliver(w)
  BY <1>1, <1>2, <1>6 DEF ComputeStages, Redeliver
<1>7. CASE \E w \in StatusWorker : StatusStep(w)
  BY <1>1, <1>3, <1>4, <1>7 DEF StatusStep, BeginStatus, CheckReTrigger, RetryFails,
     SubmitWorkflow
<1>8. CASE \E w \in CompleteWorker : CompleteStep(w)
  BY <1>1, <1>8 DEF CompleteStep, BeginComplete, DropComplete, Announce
<1>9. CASE CancelStage \/ Crash \/ UNCHANGED vars
  BY <1>1, <1>9 DEF CancelStage, BeginCancel, Terminate, TerminateFails, Crash, vars
<1> QED
  BY <1>5, <1>6, <1>7, <1>8, <1>9

\* With stage rows kept, late, repeated and reordered events leave a terminal status
\* alone, whatever the events and the workers.
THEOREM TerminalStays == StagesEnabled => (Spec => TerminalIsFinal)
<1> SUFFICES ASSUME StagesEnabled PROVE Spec => TerminalIsFinal
  OBVIOUS
<1>1. IInv /\ [Next]_vars => [KeepsTerminal]_vars
  BY StepKeepsTerminal
<1> QED
  BY <1>1, Invariance, PTL DEF Spec, TerminalIsFinal, KeepsTerminal
=============================================================================
