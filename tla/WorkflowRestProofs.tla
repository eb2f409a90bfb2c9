------------------------ MODULE WorkflowRestProofs ------------------------
(***************************************************************************)
(* What the workflow graph has left undone at rest, for any pipelines,     *)
(* builds, users and faults: nothing that a success was to trigger, and no *)
(* healthy deployment without its status.                                  *)
(*                                                                         *)
(* At rest there is no one left to do it, so each invariant follows a      *)
(* success on its whole way.                                               *)
(*   - Lettered: messages and what they say.  The check of what was        *)
(*     triggered already goes by ids, so that an id has to mean one thing. *)
(*   - Thorough: what a handler still has in its list, with what was       *)
(*     started, covers all that is due.                                    *)
(*   - Pursued: a success has been followed up, or its message waits and   *)
(*     will not be dropped, or a handler has it.                           *)
(*   - Released, Proven: what an application runs, and the deployments of  *)
(*     which its health is a proof.                                        *)
(*   - HealthInv: a healthy deployment is passed over for a reason, or     *)
(*     somebody is about to record it.                                     *)
(***************************************************************************)
EXTENDS WorkflowDagProofs

\* What WorkflowDagProofs proves to hold always.
Sound == TypeOK /\ Automatic /\ Grounded /\ OnceInv

-----------------------------------------------------------------------------
(* Messages and their ids *)

\* What a topic or its worker holds.
Carries(t, m) == InQueue(t, m) \/ (~At(t, "idle") /\ Msg(t) = m)

\* Two messages that say the same.
Same(m, n) == m.subject = n.subject /\ m.good = n.good /\ m.pipeline = n.pipeline

\* Ids are given out in turn, and runners refer to them; users have none.
Numbered ==
  /\ \A t \in Topic, m \in Message : Carries(t, m) => m.id \in 1 .. sent
  /\ \A r \in DOMAIN runner : runner[r].ref <= sent
  /\ Msg("user").id = 0

\* An id stands for one thing that was said on one topic.
OneMeaning == \A t, u \in Topic, m, n \in Message :
  Carries(t, m) /\ Carries(u, n) /\ m.id = n.id => t = u /\ Same(m, n)

\* A worker that took a message goes by what it says.
Reads == \A t \in Topic \ {"sync"} :
  ~At(t, "idle") => handler[t].subject = Msg(t).subject /\ handler[t].good = Msg(t).good

Lettered == Numbered /\ OneMeaning /\ Reads

\* A message that is published.
LEMMA PublishLetters ==
  ASSUME TypeOK, NEW u \in Topic, NEW p \in Pipeline \cup {Source}, NEW s \in Nat,
         NEW good \in BOOLEAN, Publish(u, p, s, good), UNCHANGED handler
  PROVE  /\ sent' = sent + 1
         /\ \E k \in Message :
              /\ k.id = sent + 1 /\ k.subject = s /\ k.good = good /\ k.pipeline = p
              /\ InQueue(u, k)'
              /\ \A t \in Topic, m \in Message :
                   /\ InQueue(t, m) => InQueue(t, m)'
                   /\ Carries(t, m)' => Carries(t, m) \/ (t = u /\ m = k)
<1>1. sent \in Nat /\ queue \in [Topic -> Seq(Message)]
  BY DEF TypeOK, QueueOK
<1>2. PICK k : k = [id |-> sent + 1, pipeline |-> p, subject |-> s,
                    good |-> good, again |-> FALSE]
  OBVIOUS
<1>3. k \in Message /\ k.id = sent + 1 /\ k.subject = s /\ k.good = good /\ k.pipeline = p
  BY <1>1, <1>2 DEF Message
<1>4. sent' = sent + 1 /\ queue' = [queue EXCEPT ![u] = Append(queue[u], k)]
  BY <1>2 DEF Publish, Published
<1>5. PICK old \in Seq(Message) : old = queue[u]
  BY <1>1
<1>12. PICK new : new = Append(old, k)
  OBVIOUS
<1>6. \A t \in Topic : queue'[t] = IF t = u THEN new ELSE queue[t]
  BY <1>1, <1>4, <1>5, <1>12
<1>7. \A i \in DOMAIN new : (i \in DOMAIN old /\ new[i] = old[i]) \/ new[i] = k
  BY <1>3, <1>5, <1>12, AppendIn
<1>8. /\ \A i \in DOMAIN old : i \in DOMAIN new /\ new[i] = old[i]
      /\ Len(old) + 1 \in DOMAIN new /\ new[Len(old) + 1] = k
  BY <1>3, <1>5, <1>12
<1>9. \A t \in Topic, m \in Message :
        /\ InQueue(t, m) => InQueue(t, m)'
        /\ InQueue(t, m)' => InQueue(t, m) \/ (t = u /\ m = k)
  BY <1>5, <1>6, <1>7, <1>8 DEF InQueue
<1>10. InQueue(u, k)'
  BY <1>6, <1>8 DEF InQueue
<1>11. \A t \in Topic : (At(t, "idle")' <=> At(t, "idle")) /\ Msg(t)' = Msg(t)
  BY DEF At, Msg
<1> QED
  BY <1>3, <1>4, <1>9, <1>10, <1>11 DEF Carries

\* A message that is taken, or dropped.
LEMMA TakeLetters ==
  ASSUME TypeOK, NEW u \in Topic, Take(u)
  PROVE  \E k \in Message :
           /\ InQueue(u, k) /\ k = Head(queue[u]) /\ At(u, "idle")
           /\ \A t \in Topic, m \in Message :
                /\ InQueue(t, m) => InQueue(t, m)' \/ (t = u /\ m = k)
                /\ InQueue(t, m)' => InQueue(t, m)
           /\ \A w \in Worker \ {u} : handler'[w] = handler[w]
           /\ \/ k.again /\ AlreadyTriggered(k) /\ handler' = handler
              \/ \E pc \in {"begin", "check"} :
                   /\ pc = IF u = "app" THEN "check" ELSE "begin"
                   /\ handler'[u] = Taken(pc, k)
<1>1. queue \in [Topic -> Seq(Message)] /\ queue[u] # <<>> /\ At(u, "idle")
  BY DEF TypeOK, QueueOK, Take
<1>2. PICK old \in Seq(Message) : old = queue[u] /\ old # <<>>
  BY <1>1
<1>3. PICK k \in Message : k = Head(old)
  BY <1>2
<1>4. PICK rest : rest = Tail(old)
  OBVIOUS
<1>13. /\ \A i \in DOMAIN rest : i + 1 \in DOMAIN old /\ rest[i] = old[i + 1]
       /\ \A i \in DOMAIN old : i # 1 => i - 1 \in DOMAIN rest /\ rest[i - 1] = old[i]
       /\ 1 \in DOMAIN old /\ k = old[1]
  BY <1>2, <1>3, <1>4
<1>5. \A i \in DOMAIN old : old[i] = k \/ \E j \in DOMAIN rest : rest[j] = old[i]
  BY <1>13
<1>6. \A t \in Topic : queue'[t] = IF t = u THEN rest ELSE queue[t]
  BY <1>1, <1>2, <1>4 DEF Take
<1>7. InQueue(u, k)
  BY <1>2, <1>13 DEF InQueue
<1>8. \A t \in Topic, m \in Message :
        /\ InQueue(t, m) => InQueue(t, m)' \/ (t = u /\ m = k)
        /\ InQueue(t, m)' => InQueue(t, m)
  BY <1>2, <1>13, <1>5, <1>6 DEF InQueue
<1>9. u \in Worker /\ handler \in [Worker -> Handler]
  BY DEF Worker, TypeOK, HandlersOK
<1>10. PICK pc \in {"begin", "check"} : pc = IF u = "app" THEN "check" ELSE "begin"
  OBVIOUS
<1>11. \/ k.again /\ AlreadyTriggered(k) /\ handler' = handler
       \/ handler' = [handler EXCEPT ![u] = Taken(pc, k)]
  BY <1>2, <1>3, <1>10 DEF Take, Taken
<1>12. /\ \A w \in Worker \ {u} : handler'[w] = handler[w]
       /\ \/ k.again /\ AlreadyTriggered(k) /\ handler' = handler
          \/ handler'[u] = Taken(pc, k)
  BY <1>9, <1>11
<1> QED
  BY <1>1, <1>2, <1>3, <1>7, <1>8, <1>10, <1>12

\* A message that is delivered again says what it said.
LEMMA AgainSame ==
  ASSUME NEW x \in Message
  PROVE  \E m \in Message : m = [x EXCEPT !.again = TRUE] /\ m.id = x.id /\ Same(m, x)
<1>1. PICK m \in Message : m = [x EXCEPT !.again = TRUE]
  BY DEF Message
<1>2. m.id = x.id /\ m.subject = x.subject /\ m.good = x.good /\ m.pipeline = x.pipeline
  BY <1>1 DEF Message
<1> QED
  BY <1>1, <1>2 DEF Same

\* A message in hand that is delivered again.
LEMMA RedeliverLetters ==
  ASSUME TypeOK, NEW u \in Topic, Redeliver(u)
  PROVE  \A t \in Topic, m \in Message :
           /\ InQueue(t, m) => InQueue(t, m)'
           /\ Carries(t, m)' => \E n \in Message : Carries(t, n) /\ n.id = m.id /\ Same(m, n)
<1>1. queue \in [Topic -> Seq(Message)] /\ ~At(u, "idle")
  BY DEF TypeOK, QueueOK, Redeliver
<1>2. PICK x \in Message : x = Msg(u)
  BY HandlerFacts DEF TypeOK, Worker, Msg
<1>3. PICK k \in Message : k = [x EXCEPT !.again = TRUE] /\ k.id = x.id /\ Same(k, x)
  BY AgainSame
<1>4. PICK old \in Seq(Message) : old = queue[u]
  BY <1>1
<1>13. PICK new : new = Append(old, k)
  OBVIOUS
<1>5. queue' = [queue EXCEPT ![u] = new] /\ handler' = handler
  BY <1>2, <1>3, <1>4, <1>13 DEF Redeliver
<1>6. \A t \in Topic : queue'[t] = IF t = u THEN new ELSE queue[t]
  BY <1>1, <1>5
<1>7. \A i \in DOMAIN new : (i \in DOMAIN old /\ new[i] = old[i]) \/ new[i] = k
  BY <1>3, <1>4, <1>13, AppendIn
<1>8. \A i \in DOMAIN old : i \in DOMAIN new /\ new[i] = old[i]
  BY <1>3, <1>4, <1>13
<1>9. \A t \in Topic, m \in Message :
        /\ InQueue(t, m) => InQueue(t, m)'
        /\ InQueue(t, m)' => InQueue(t, m) \/ (t = u /\ m = k)
  BY <1>4, <1>6, <1>7, <1>8 DEF InQueue
<1>10. \A t \in Topic : (At(t, "idle")' <=> At(t, "idle")) /\ Msg(t)' = Msg(t)
  BY <1>5 DEF At, Msg
<1>11. \A m \in Message : Same(m, m)
  BY DEF Same
<1>12. Carries(u, x)
  BY <1>1, <1>2 DEF Carries
<1> QED
  BY <1>3, <1>9, <1>10, <1>11, <1>12 DEF Carries

\* What a crash interrupts is put back, or is on its topic already.
LEMMA CrashLetters ==
  ASSUME TypeOK, Crash
  PROVE  /\ \A w \in Worker : handler'[w] = Idle
         /\ \A t \in Topic, m \in Message :
              /\ InQueue(t, m) => InQueue(t, m)'
              /\ Carries(t, m)' => \E n \in Message : Carries(t, n) /\ n.id = m.id /\ Same(m, n)
         /\ \A t \in Topic : ~At(t, "idle") =>
              \E n \in Message : InQueue(t, n)' /\ n.id = Msg(t).id /\ (InQueue(t, n) \/ Same(n, Msg(t)))
<1>1. queue \in [Topic -> Seq(Message)] /\ queue' = Requeued /\ handler' = [w \in Worker |-> Idle]
  BY DEF TypeOK, QueueOK, Crash
<1>2. \A w \in Worker : handler'[w] = Idle
  BY <1>1
<1>3. ASSUME NEW t \in Topic
      PROVE  /\ \A m \in Message :
                  /\ InQueue(t, m) => InQueue(t, m)'
                  /\ InQueue(t, m)' => \E n \in Message : Carries(t, n) /\ n.id = m.id /\ Same(m, n)
             /\ ~At(t, "idle") =>
                  \E n \in Message : InQueue(t, n)' /\ n.id = Msg(t).id /\ (InQueue(t, n) \/ Same(n, Msg(t)))
  <2>1. PICK x \in Message : x = Msg(t)
    BY HandlerFacts DEF TypeOK, Worker, Msg
  <2>2. PICK k \in Message : k = [x EXCEPT !.again = TRUE] /\ k.id = x.id /\ Same(k, x)
    BY AgainSame
  <2>3. PICK old \in Seq(Message) : old = queue[t]
    BY <1>1
  <2>4. \A m \in Message : Same(m, m)
    BY DEF Same
  <2>5. CASE Interrupted(t)
    <3>1. PICK new : new = <<k>> \o old
      OBVIOUS
    <3>2. queue'[t] = new
      BY <1>1, <2>1, <2>2, <2>3, <2>5, <3>1 DEF Requeued
    <3>3. \A i \in DOMAIN new : new[i] = k \/ (i - 1 \in DOMAIN old /\ new[i] = old[i - 1])
      BY <3>1
    <3>4. \A i \in DOMAIN old : i + 1 \in DOMAIN new /\ new[i + 1] = old[i]
      BY <3>1
    <3>5. 1 \in DOMAIN new /\ new[1] = k
      BY <3>1
    <3>6. \A m \in Message :
            /\ InQueue(t, m) => InQueue(t, m)'
            /\ InQueue(t, m)' => InQueue(t, m) \/ m = k
      BY <2>3, <3>2, <3>3, <3>4 DEF InQueue
    <3>7. InQueue(t, k)'
      BY <3>2, <3>5 DEF InQueue
    <3>8. Carries(t, x)
      BY <2>1, <2>5 DEF Carries, Interrupted
    <3> QED
      BY <2>1, <2>2, <2>4, <3>6, <3>7, <3>8 DEF Carries
  <2>6. CASE ~Interrupted(t)
    <3>1. queue'[t] = queue[t]
      BY <1>1, <2>6 DEF Requeued
    <3>2. \A m \in Message : InQueue(t, m)' <=> InQueue(t, m)
      BY <3>1 DEF InQueue
    <3>3. ASSUME ~At(t, "idle")
          PROVE  \E n \in Message : InQueue(t, n) /\ n.id = Msg(t).id
      <4>1. PICK i \in DOMAIN old : old[i].id = Msg(t).id
        BY <2>3, <2>6, <3>3 DEF Interrupted
      <4>2. old[i] \in Message /\ InQueue(t, old[i])
        BY <2>3, <4>1 DEF InQueue
      <4> QED
        BY <4>1, <4>2
    <3> QED
      BY <2>4, <3>2, <3>3 DEF Carries
  <2> QED
    BY <2>5, <2>6
<1>4. \A t \in Topic : At(t, "idle")'
  BY <1>2, IdleTyped DEF At, Worker
<1>5. \A t \in Topic, m \in Message :
        /\ InQueue(t, m) => InQueue(t, m)'
        /\ Carries(t, m)' => \E n \in Message : Carries(t, n) /\ n.id = m.id /\ Same(m, n)
  <2> SUFFICES ASSUME NEW t \in Topic, NEW m \in Message
               PROVE  /\ InQueue(t, m) => InQueue(t, m)'
                      /\ Carries(t, m)' => \E n \in Message : Carries(t, n) /\ n.id = m.id /\ Same(m, n)
    OBVIOUS
  <2>1. Carries(t, m)' => InQueue(t, m)'
    BY <1>4 DEF Carries
  <2> QED
    BY <1>3, <2>1
<1> QED
  BY <1>2, <1>3, <1>5

\* A worker that goes on keeps its message and what it reads from it.
LEMMA WorkerKeeps ==
  ASSUME TypeOK, NEW w \in Worker, Handle(w)
  PROVE  \/ handler'[w] = Idle
         \/ /\ handler'[w].msg = handler[w].msg
            /\ \/ w = "sync" /\ At(w, "begin")
               \/ handler'[w].subject = handler[w].subject /\ handler'[w].good = handler[w].good
<1>1. handler \in [Worker -> Handler]
  BY DEF TypeOK, HandlersOK
<1>2. PICK h \in Handler : h = handler[w]
  BY <1>1
<1> DEFINE Keeps(k) == k.msg = h.msg /\ k.subject = h.subject /\ k.good = h.good
<1>3. ASSUME NEW k, handler' = [handler EXCEPT ![w] = k] PROVE handler'[w] = k
  BY <1>1, <1>3
<1>4. ASSUME NEW todo, Continue(w, todo)
      PROVE  handler'[w] = Idle \/ Keeps(handler'[w])
  <2>1. PICK k : k = [h EXCEPT !.pc = "trigger", !.todo = todo, !.made = 0]
    OBVIOUS
  <2>2. Keeps(k)
    BY <2>1 DEF Handler
  <2>3. handler' = [handler EXCEPT ![w] = IF todo = <<>> THEN Idle ELSE k]
    BY <1>2, <1>4, <2>1 DEF Continue
  <2>4. handler'[w] = IF todo = <<>> THEN Idle ELSE k
    BY <1>3, <2>3
  <2> QED
    BY <2>2, <2>4
<1>5. CASE Create(w)
  <2>1. PICK k : k = [h EXCEPT !.pc = "submit", !.todo = Tail(h.todo), !.made = Len(runner) + 1]
    OBVIOUS
  <2>2. Keeps(k)
    BY <2>1 DEF Handler
  <2>3. handler' = [handler EXCEPT ![w] = k]
    BY <1>2, <1>5, <2>1 DEF Create
  <2> QED
    BY <1>2, <1>3, <2>2, <2>3
<1>6. ASSUME NEW pc, handler' = [handler EXCEPT ![w] = [h EXCEPT !.pc = pc]]
      PROVE  Keeps(handler'[w])
  <2>1. PICK k : k = [h EXCEPT !.pc = pc]
    OBVIOUS
  <2>2. Keeps(k)
    BY <2>1 DEF Handler
  <2>3. handler'[w] = k
    BY <1>3, <1>6, <2>1
  <2> QED
    BY <2>2, <2>3
<1>7. CASE ReportStage(w)
  <2>1. CASE h.good
    BY <1>2, <1>6, <1>7, <2>1 DEF ReportStage
  <2>2. CASE ~h.good
    BY <1>2, <1>3, <1>7, <2>2 DEF ReportStage
  <2> QED
    BY <2>1, <2>2
<1>8. CASE CheckApp(w)
  <2>1. PICK pc : pc = IF h.good THEN "timeline" ELSE "recheck"
    OBVIOUS
  <2>2. \/ handler' = [handler EXCEPT ![w] = Idle]
        \/ handler' = [handler EXCEPT ![w] = [h EXCEPT !.pc = pc]]
    BY <1>2, <1>8, <2>1 DEF CheckApp
  <2> QED
    BY <1>2, <1>3, <1>6, <2>2
<1>9. CASE SaveTimeline(w)
  <2>1. handler' = [handler EXCEPT ![w] = [h EXCEPT !.pc = "recheck"]]
    BY <1>2, <1>9 DEF SaveTimeline
  <2> QED
    BY <1>2, <1>6, <2>1
<1>15. CASE RecheckApp(w)
  <2>1. \/ handler' = [handler EXCEPT ![w] = Idle]
        \/ handler' = [handler EXCEPT ![w] = [h EXCEPT !.pc = "status"]]
    BY <1>2, <1>15 DEF RecheckApp
  <2> QED
    BY <1>2, <1>3, <1>6, <2>1
<1>10. CASE FetchApp(w)
  <2>1. w = "sync" /\ At(w, "begin")
    BY <1>10 DEF FetchApp
  <2>2. PICK r, good : r = app[Msg(w).pipeline].subject /\ good = app[Msg(w).pipeline].healthy
    OBVIOUS
  <2>3. PICK k : k = [h EXCEPT !.pc = "check", !.subject = r, !.good = good]
    OBVIOUS
  <2>4. k.msg = h.msg
    BY <2>3 DEF Handler
  <2>5. handler' = [handler EXCEPT ![w] = Idle] \/ handler' = [handler EXCEPT ![w] = k]
    BY <1>2, <1>10, <2>2, <2>3 DEF FetchApp
  <2> QED
    BY <1>2, <1>3, <2>1, <2>4, <2>5
<1>11. CASE \E todo : Continue(w, todo)
  BY <1>2, <1>4, <1>11
<1>12. SaveCopies(w) => \E todo : Continue(w, todo)
  BY DEF SaveCopies
<1>13. WriteStatus(w) => \E todo : Continue(w, todo)
  BY DEF WriteStatus
<1>14. Skip(w) \/ SubmitStage(w) \/ Release(w) \/ SubmitFails(w) \/ HandleCiSuccess(w) =>
         \E todo : Continue(w, todo)
  BY DEF Skip, SubmitStage, Release, SubmitFails, HandleCiSuccess
<1> HIDE DEF Keeps
<1> QED
  BY <1>5, <1>7, <1>8, <1>9, <1>10, <1>11, <1>12, <1>13, <1>14, <1>15 DEF Handle

\* What a step does to the topics, if it is none of these.
LEMMA OtherLetters ==
  ASSUME TypeOK, [Next]_vars, ~Crash, \A t \in Topic : ~Take(t)
  PROVE  /\ \A t \in Topic, m \in Message : InQueue(t, m) => InQueue(t, m)'
         /\ \A t \in Topic : handler'[t] = handler[t] \/ Handle(t)
         /\ \/ /\ sent' = sent
               /\ \A t \in Topic, m \in Message :
                    Carries(t, m)' => \E n \in Message : Carries(t, n) /\ n.id = m.id /\ Same(m, n)
            \/ /\ sent' = sent + 1
               /\ \E u \in Topic, k \in Message :
                    /\ k.id = sent + 1
                    /\ \A t \in Topic, m \in Message :
                         Carries(t, m)' => Carries(t, m) \/ (t = u /\ m = k)
<1>1. handler \in [Worker -> Handler] /\ \A t \in Topic : t \in Worker /\ t # "user"
  BY DEF TypeOK, HandlersOK, Worker, Topic
<1>2. \A m \in Message : Same(m, m)
  BY DEF Same
<1>3. ASSUME NEW u \in Topic, NEW p \in Pipeline \cup {Source}, NEW s \in Nat, NEW good \in BOOLEAN,
             Publish(u, p, s, good), UNCHANGED handler
      PROVE  /\ \A t \in Topic, m \in Message : InQueue(t, m) => InQueue(t, m)'
             /\ \A t \in Topic : handler'[t] = handler[t]
             /\ sent' = sent + 1
             /\ \E k \in Message :
                  /\ k.id = sent + 1
                  /\ \A t \in Topic, m \in Message :
                       Carries(t, m)' => Carries(t, m) \/ (t = u /\ m = k)
  BY <1>3, PublishLetters
<1>4. CASE BuildSucceeds
  <2>1. PICK n \in Nat : n = builds + 1
    BY DEF TypeOK, ClusterOK
  <2>2. Publish("ci", Source, n, TRUE) /\ UNCHANGED handler
    BY <1>4, <2>1 DEF BuildSucceeds
  <2> QED
    BY <1>3, <2>2 DEF Topic
<1>5. ASSUME NEW r \in running, NEW good \in BOOLEAN, StageEnds(r, good)
      PROVE  \E u \in Topic, p \in Pipeline \cup {Source}, s \in Nat, g \in BOOLEAN :
               Publish(u, p, s, g) /\ UNCHANGED handler
  <2>1. r \in Nat /\ PipelineOf(r) \in Pipeline
    BY RunnerFacts DEF TypeOK, ClusterOK
  <2> QED
    BY <1>5, <2>1 DEF StageEnds, Topic
<1>6. ASSUME NEW p \in Pipeline, AppHealthy(p) \/ Resend(p) \/ SyncByCron(p)
      PROVE  \E u \in Topic, s \in Nat, g \in BOOLEAN : Publish(u, p, s, g) /\ UNCHANGED handler
  <2>1. app[p].subject \in Nat /\ app[p].healthy \in BOOLEAN
    <3>1. app[p] \in [subject: Rows(runner), healthy: BOOLEAN]
      BY DEF TypeOK, ClusterOK
    <3>2. Rows(runner) \subseteq Nat
      BY DEF TypeOK, RowsOK, Rows
    <3> QED
      BY <3>1, <3>2
  <2>2. AppHealthy(p) => Publish("app", p, app[p].subject, TRUE) /\ UNCHANGED handler
    BY DEF AppHealthy
  <2>3. Resend(p) => Publish("app", p, app[p].subject, app[p].healthy) /\ UNCHANGED handler
    BY DEF Resend
  <2>4. SyncByCron(p) => Publish("sync", p, 0, FALSE) /\ UNCHANGED handler
    BY DEF SyncByCron
  <2> QED
    BY <1>6, <2>1, <2>2, <2>3, <2>4 DEF Topic
<1>7. ASSUME NEW u \in Topic, Redeliver(u)
      PROVE  UNCHANGED <<sent, handler>>
  BY <1>7 DEF Redeliver
<1>8. ASSUME UNCHANGED <<queue, sent>>, \A t \in Topic : handler'[t] = handler[t] \/ Handle(t)
      PROVE  /\ \A t \in Topic, m \in Message : InQueue(t, m) => InQueue(t, m)'
             /\ \A t \in Topic, m \in Message :
                  Carries(t, m)' => \E n \in Message : Carries(t, n) /\ n.id = m.id /\ Same(m, n)
  <2>1. \A t \in Topic, m \in Message : InQueue(t, m)' <=> InQueue(t, m)
    BY <1>8 DEF InQueue
  <2>2. ASSUME NEW t \in Topic, NEW m \in Message, ~At(t, "idle")', Msg(t)' = m
        PROVE  Carries(t, m)
    <3>1. CASE handler'[t] = handler[t]
      BY <2>2, <3>1 DEF Carries, At, Msg
    <3>2. CASE Handle(t)
      <4>1. ~At(t, "idle")
        BY <1>1, <3>2, HandleOnward
      <4>2. handler'[t] # Idle
        BY <2>2, IdleTyped DEF At
      <4>3. Msg(t)' = Msg(t)
        BY <1>1, <3>2, <4>2, WorkerKeeps DEF Msg
      <4> QED
        BY <2>2, <4>1, <4>3 DEF Carries
    <3> QED
      BY <1>8, <3>1, <3>2
  <2> QED
    BY <1>2, <2>1, <2>2 DEF Carries
<1>9. ASSUME NEW w \in Worker, Handle(w)
      PROVE  UNCHANGED <<queue, sent>> /\ \A t \in Topic : handler'[t] = handler[t] \/ Handle(t)
  <2>1. UNCHANGED <<queue, sent>>
    BY <1>9 DEF Handle, Skip, Create, SubmitStage, Release, SubmitFails, HandleCiSuccess,
                ReportStage, SaveCopies, FetchApp, CheckApp, SaveTimeline, RecheckApp, WriteStatus
  <2>2. \A v \in Worker \ {w} : handler'[v] = handler[v]
    BY <1>9, HandleOnward
  <2> QED
    BY <1>1, <1>9, <2>1, <2>2
<1>10. ASSUME NEW r \in DOMAIN runner, RetryStage(r)
       PROVE  UNCHANGED <<queue, sent, handler>>
  BY <1>10 DEF RetryStage
<1>11. ASSUME NEW p, NEW s, NEW a, NEW wf, UserTriggers(p, s, a, wf)
       PROVE  UNCHANGED <<queue, sent>> /\ \A t \in Topic : handler'[t] = handler[t]
  <2>1. UNCHANGED <<queue, sent>>
    BY <1>11 DEF UserTriggers
  <2>2. PICK k : handler' = [handler EXCEPT !["user"] = k]
    BY <1>11 DEF UserTriggers, Continue
  <2> QED
    BY <1>1, <2>1, <2>2
<1>12. CASE UNCHANGED <<queue, sent>> /\ \A t \in Topic : handler'[t] = handler[t] \/ Handle(t)
  BY <1>8, <1>12
<1>13. CASE \E u \in Topic, p \in Pipeline \cup {Source}, s \in Nat, g \in BOOLEAN :
               Publish(u, p, s, g) /\ UNCHANGED handler
  <2>1. PICK u \in Topic, p \in Pipeline \cup {Source}, s \in Nat, g \in BOOLEAN :
          Publish(u, p, s, g) /\ UNCHANGED handler
    BY <1>13
  <2> QED
    BY <1>3, <2>1
<1>14. CASE \E u \in Topic : Redeliver(u)
  <2>1. PICK u \in Topic : Redeliver(u)
    BY <1>14
  <2> QED
    BY <1>7, <2>1, RedeliverLetters
<1>15. UNCHANGED vars => UNCHANGED <<queue, sent, handler>>
  BY DEF vars
<1> QED
  BY <1>4, <1>5, <1>6, <1>9, <1>10, <1>11, <1>12, <1>13, <1>14, <1>15 DEF Next, Cluster

\* A runner refers to a message that some worker has in hand, or to none.
LEMMA NewRefs ==
  ASSUME TypeOK, Automatic, Grounded, [Next]_vars, NEW r \in DOMAIN runner'
  PROVE  \/ r \in DOMAIN runner /\ runner'[r].ref = runner[r].ref
         \/ runner'[r].ref = 0
         \/ \E w \in Worker : Create(w) /\ runner'[r].ref = Msg(w).id
<1>1. RowsKept
  BY NextRows
<1>2. r \in DOMAIN runner => runner'[r].ref = runner[r].ref
  BY <1>1 DEF RowsKept
<1>3. CASE DOMAIN runner' = DOMAIN runner
  BY <1>2, <1>3
<1>4. ASSUME NEW w \in Worker, Create(w)
      PROVE  r \in DOMAIN runner \/ runner'[r].ref = Msg(w).id
  BY <1>4, CreatesRun
<1>5. ASSUME NEW x \in DOMAIN runner, RetryStage(x)
      PROVE  r \in DOMAIN runner \/ runner'[r].ref = 0
  <2>1. PICK old : /\ old = [runner EXCEPT ![x].status = "Failed"]
                   /\ old \in Seq(Runner) /\ DOMAIN old = DOMAIN runner
    BY RetriedRow
  <2>2. PICK y \in Runner : y = runner[x]
    BY RunnerFacts DEF TypeOK
  <2>3. PICK new : new = [y EXCEPT !.ref = 0]
    OBVIOUS
  <2>4. new.ref = 0
    BY <2>3 DEF Runner
  <2>5. runner' = Append(old, new)
    BY <1>5, <2>1, <2>2, <2>3 DEF RetryStage
  <2>6. DOMAIN runner' = DOMAIN old \cup {Len(old) + 1} /\ runner'[Len(old) + 1] = new
    BY <2>1, <2>5
  <2> QED
    BY <2>1, <2>4, <2>6
<1> QED
  BY <1>2, <1>3, <1>4, <1>5, NextRows

\* Nobody tells a user anything.
LEMMA UserUntold ==
  ASSUME TypeOK, Msg("user").id = 0, [Next]_vars
  PROVE  Msg("user").id' = 0
<1>1. handler \in [Worker -> Handler] /\ "user" \in Worker /\ \A t \in Topic : t # "user"
  BY DEF TypeOK, HandlersOK, Worker, Topic
<1>2. Idle.msg.id = 0
  BY DEF Idle, NoMessage
<1>3. CASE handler'["user"] = handler["user"]
  BY <1>3 DEF Msg
<1>4. CASE handler'["user"] = Idle
  BY <1>2, <1>4 DEF Msg
<1>5. ASSUME NEW w \in Worker, Handle(w)
      PROVE  Msg("user").id' = 0
  <2>1. CASE w = "user"
    <3>1. handler'["user"] = Idle \/ handler'["user"].msg = handler["user"].msg
      BY <1>5, <2>1, WorkerKeeps
    <3> QED
      BY <1>4, <3>1 DEF Msg
  <2>2. CASE w # "user"
    <3>1. handler'["user"] = handler["user"]
      BY <1>1, <1>5, <2>2, HandleOnward
    <3> QED
      BY <1>3, <3>1
  <2> QED
    BY <2>1, <2>2
<1>6. ASSUME NEW p, NEW s, NEW a, NEW wf, UserTriggers(p, s, a, wf)
      PROVE  Msg("user").id' = 0
  <2>1. PICK todo : Continue("user", todo)
    BY <1>6 DEF UserTriggers
  <2>2. PICK h \in Handler : h = handler["user"]
    BY <1>1
  <2>3. PICK k : k = [h EXCEPT !.pc = "trigger", !.todo = todo, !.made = 0]
    OBVIOUS
  <2>4. k.msg = h.msg
    BY <2>3 DEF Handler
  <2>5. handler' = [handler EXCEPT !["user"] = IF todo = <<>> THEN Idle ELSE k]
    BY <2>1, <2>2, <2>3 DEF Continue
  <2>6. handler'["user"] = IF todo = <<>> THEN Idle ELSE k
    BY <1>1, <2>5
  <2> QED
    BY <1>4, <2>2, <2>4, <2>6 DEF Msg
<1>7. ASSUME NEW t \in Topic, Take(t)
      PROVE  handler'["user"] = handler["user"]
  BY <1>1, <1>7, TakeLetters
<1>8. ASSUME NEW t \in Topic, Redeliver(t)
      PROVE  handler'["user"] = handler["user"]
  BY <1>8 DEF Redeliver
<1>9. Crash => handler'["user"] = Idle
  BY <1>1, CrashLetters
<1>10. Cluster \/ (\E r \in DOMAIN runner : RetryStage(r)) \/ (\E p \in Pipeline : SyncByCron(p))
         \/ UNCHANGED vars => handler' = handler
  BY DEF Cluster, BuildSucceeds, StageEnds, AppHealthy, Resend, RetryStage, SyncByCron, vars
<1> QED
  BY <1>3, <1>4, <1>5, <1>6, <1>7, <1>8, <1>9, <1>10 DEF Next

\* What is carried after a step was carried before it, or was published by it.
LEMMA LettersStep ==
  ASSUME TypeOK, [Next]_vars
  PROVE  \/ /\ sent' = sent
            /\ \A t \in Topic, m \in Message :
                 Carries(t, m)' => \E n \in Message : Carries(t, n) /\ n.id = m.id /\ Same(m, n)
         \/ /\ sent' = sent + 1
            /\ \E u \in Topic, k \in Message :
                 /\ k.id = sent + 1
                 /\ \A t \in Topic, m \in Message :
                      Carries(t, m)' => Carries(t, m) \/ (t = u /\ m = k)
<1>1. ASSUME NEW u \in Topic, Take(u)
      PROVE  /\ sent' = sent
             /\ \A t \in Topic, m \in Message : Carries(t, m)' => Carries(t, m)
  <2>1. PICK k \in Message :
           /\ InQueue(u, k)
           /\ \A t \in Topic, m \in Message : InQueue(t, m)' => InQueue(t, m)
           /\ \A w \in Worker \ {u} : handler'[w] = handler[w]
           /\ \/ handler' = handler
              \/ \E pc \in {"begin", "check"} : handler'[u] = Taken(pc, k)
    BY <1>1, TakeLetters
  <2>2. ASSUME NEW t \in Topic, NEW m \in Message, ~At(t, "idle")', Msg(t)' = m
        PROVE  Carries(t, m)
    <3>1. CASE handler'[t] = handler[t]
      BY <2>2, <3>1 DEF Carries, At, Msg
    <3>2. CASE handler'[t] # handler[t]
      <4>1. t = u
        BY <2>1, <3>2 DEF Worker
      <4>2. PICK pc \in {"begin", "check"} : handler'[u] = Taken(pc, k)
        BY <2>1, <3>2, <4>1
      <4>3. Msg(u)' = k
        BY <4>2 DEF Taken, Msg
      <4> QED
        BY <2>1, <2>2, <4>1, <4>3 DEF Carries
    <3> QED
      BY <3>1, <3>2
  <2>3. sent' = sent
    BY <1>1 DEF Take
  <2> QED
    BY <2>1, <2>2, <2>3 DEF Carries
<1>2. Crash => sent' = sent
  BY DEF Crash
<1>3. \A m \in Message : Same(m, m)
  BY DEF Same
<1> QED
  BY <1>1, <1>2, <1>3, CrashLetters, OtherLetters

\* Ids are used once.
LEMMA NextNumbered ==
  ASSUME TypeOK, Automatic, Grounded, Numbered, [Next]_vars
  PROVE  Numbered'
<1>1. sent \in Nat /\ sent' \in Nat /\ sent <= sent'
  BY LettersStep DEF TypeOK, QueueOK
<1>2. ASSUME NEW t \in Topic, NEW m \in Message, Carries(t, m)'
      PROVE  m.id \in 1 .. sent'
  <2>1. (\E n \in Message : Carries(t, n) /\ n.id = m.id) \/ (m.id = sent + 1 /\ sent' = sent + 1)
    BY <1>2, LettersStep
  <2> QED
    BY <1>1, <2>1 DEF Numbered
<1>3. ASSUME NEW w \in Worker, Create(w) PROVE Msg(w).id <= sent
  <2>1. CASE w = "user"
    BY <1>1, <2>1 DEF Numbered
  <2>2. CASE w # "user"
    <3>1. w \in Topic /\ Msg(w) \in Message /\ ~At(w, "idle")
      BY <1>3, <2>2, HandlerFacts DEF Worker, Msg, TypeOK, Create, At
    <3>2. Carries(w, Msg(w))
      BY <3>1 DEF Carries
    <3> QED
      BY <1>1, <3>1, <3>2 DEF Numbered
  <2> QED
    BY <2>1, <2>2
<1>4. ASSUME NEW r \in DOMAIN runner' PROVE runner'[r].ref <= sent'
  <2>1. r \in DOMAIN runner => runner[r].ref <= sent /\ runner[r].ref \in Nat
    BY RunnerFacts DEF Numbered, TypeOK, Runner
  <2>2. ASSUME NEW w \in Worker, Create(w) PROVE Msg(w).id \in Nat
    BY HandlerFacts DEF TypeOK, Msg, Message
  <2>3. PICK id : id = runner'[r].ref
    OBVIOUS
  <2>4. id \in Nat /\ id <= sent
    BY <1>1, <1>3, <2>1, <2>2, <2>3, NewRefs
  <2> QED
    BY <1>1, <2>3, <2>4
<1> QED
  BY <1>2, <1>4, UserUntold DEF Numbered

\* An id keeps its meaning.
LEMMA NextOneMeaning ==
  ASSUME TypeOK, Numbered, OneMeaning, [Next]_vars
  PROVE  OneMeaning'
<1> SUFFICES ASSUME NEW t \in Topic, NEW u \in Topic, NEW m \in Message, NEW n \in Message,
                    Carries(t, m)', Carries(u, n)', m.id = n.id
             PROVE  t = u /\ Same(m, n)
  BY DEF OneMeaning, Same
<1>1. sent \in Nat /\ \A x \in Topic, k \in Message : Carries(x, k) => k.id # sent + 1
  BY DEF TypeOK, QueueOK, Numbered
<1>2. CASE /\ \E a \in Message : Carries(t, a) /\ a.id = m.id /\ Same(m, a)
           /\ \E b \in Message : Carries(u, b) /\ b.id = n.id /\ Same(n, b)
  BY <1>2 DEF OneMeaning, Same
<1>3. \A x \in Message : Same(x, x)
  BY DEF Same
<1>4. ASSUME NEW v \in Topic, NEW k \in Message, k.id = sent + 1,
             \A x \in Topic, y \in Message : Carries(x, y)' => Carries(x, y) \/ (x = v /\ y = k)
      PROVE  t = u /\ Same(m, n)
  <2>1. Carries(t, m) \/ (t = v /\ m = k)
    BY <1>4
  <2>2. Carries(u, n) \/ (u = v /\ n = k)
    BY <1>4
  <2> QED
    BY <1>1, <1>2, <1>3, <1>4, <2>1, <2>2
<1> QED
  BY <1>2, <1>4, LettersStep

\* A worker goes by its message.
LEMMA NextReads ==
  ASSUME TypeOK, Reads, [Next]_vars
  PROVE  Reads'
<1> SUFFICES ASSUME NEW t \in Topic, t # "sync", ~At(t, "idle")'
             PROVE  handler'[t].subject = Msg(t).subject' /\ handler'[t].good = Msg(t).good'
  BY DEF Reads
<1>1. t \in Worker
  BY DEF Worker
<1>2. handler'[t] # Idle
  BY IdleTyped DEF At
<1>3. CASE handler'[t] = handler[t]
  BY <1>3 DEF Reads, At, Msg
<1>4. CASE Handle(t)
  <2>1. ~At(t, "idle")
    BY <1>1, <1>4, HandleOnward
  <2>2. /\ handler'[t].msg = handler[t].msg
        /\ handler'[t].subject = handler[t].subject /\ handler'[t].good = handler[t].good
    BY <1>1, <1>2, <1>4, WorkerKeeps
  <2> QED
    BY <2>1, <2>2 DEF Reads, Msg
<1>5. ASSUME NEW u \in Topic, Take(u)
      PROVE  \/ handler'[t] = handler[t]
             \/ handler'[t].subject = Msg(t).subject' /\ handler'[t].good = Msg(t).good'
  <2>1. PICK k \in Message :
           /\ \A w \in Worker \ {u} : handler'[w] = handler[w]
           /\ \/ handler' = handler
              \/ \E pc \in {"begin", "check"} : handler'[u] = Taken(pc, k)
    BY <1>5, TakeLetters
  <2>2. ASSUME NEW pc, handler'[t] = Taken(pc, k)
        PROVE  handler'[t].subject = Msg(t).subject' /\ handler'[t].good = Msg(t).good'
    BY <2>2 DEF Taken, Msg
  <2> QED
    BY <1>1, <2>1, <2>2
<1> QED
  BY <1>1, <1>2, <1>3, <1>4, <1>5, CrashLetters, OtherLetters

\* Every step keeps the messages apart.
LEMMA NextLettered ==
  ASSUME TypeOK, Automatic, Grounded, Lettered, [Next]_vars
  PROVE  Lettered'
BY NextNumbered, NextOneMeaning, NextReads DEF Lettered

\* At first there are no messages.
LEMMA InitLettered == Init => Lettered
<1> SUFFICES ASSUME Init PROVE Lettered
  OBVIOUS
<1>1. \A t \in Topic : DOMAIN queue[t] = {} /\ At(t, "idle")
  BY IdleTyped DEF Init, At, Worker
<1>2. \A t \in Topic, m \in Message : ~Carries(t, m)
  BY <1>1 DEF Carries, InQueue
<1>3. DOMAIN runner = {}
  BY DEF Init
<1>4. Msg("user").id = 0
  BY DEF Init, Msg, Worker, Idle, NoMessage
<1> QED
  BY <1>1, <1>2, <1>3, <1>4 DEF Lettered, Numbered, OneMeaning, Reads

-----------------------------------------------------------------------------
(* What a handler leaves to do *)

\* What follows a success by itself, and whether it was started.
Due(c, p, s) ==
  /\ P!IsAutomatic(p, s)
  /\ IF c.kind = "build" THEN P!Follows(Source, "BUILD", p, s)
     ELSE P!Follows(PipelineOf(c.id), runner[c.id].stage, p, s)
DeployedBefore(c) ==
  c.kind = "runner" /\ runner[c.id].stage = "PRE" /\ RunnersOf(runner[c.id].workflow, "DEPLOY") # {}
Met(c, p, s) == FollowedUp(c, p, s) \/ DeployedBefore(c)

\* A request for a stage.
Asks(q, p, s) ==
  /\ q.pipeline = p
  /\ \/ q.act = "auto" /\ FirstStage(p) = s
     \/ q.act = "deploy" /\ s = "DEPLOY"
     \/ q.act = "post" /\ s = "POST"

\* What is not yet started is asked for, and a deployment is asked for by the pre
\* stage of its workflow.
Covers(c, todo) == \A p \in Pipeline, s \in Stage :
  Due(c, p, s) => Met(c, p, s) \/ \E i \in DOMAIN todo : Asks(todo[i], p, s)
Direct(c, todo) == \A i \in DOMAIN todo : todo[i].act = "deploy" =>
  c.kind = "runner" /\ runner[c.id].stage = "PRE" /\ todo[i].workflow = runner[c.id].workflow

Thorough == \A w \in Topic, c \in Cause, todo \in Seq(Request) :
  Triggers(w) /\ CauseOf(w) = c /\ handler[w].todo = todo => Covers(c, todo) /\ Direct(c, todo)

Known(c) == c.kind = "runner" => c.id \in DOMAIN runner
Followed(c) == \A p \in Pipeline, s \in Stage : Due(c, p, s) => Met(c, p, s)

\* What is due stays due, and what was met stays met.
LEMMA DueStays ==
  ASSUME TypeOK, Grown, NEW c, c.kind \in {"build", "runner"}, Known(c),
         NEW p \in Pipeline, NEW s \in Stage
  PROVE  /\ Due(c, p, s)' <=> Due(c, p, s)
         /\ Met(c, p, s) => Met(c, p, s)'
<1>1. Due(c, p, s)' <=> Due(c, p, s)
  <2>1. CASE c.kind = "build"
    BY <2>1 DEF Due, P!IsAutomatic, P!Follows
  <2>2. CASE c.kind = "runner"
    <3>1. PICK r \in DOMAIN runner : r = c.id
      BY <2>2 DEF Known
    <3>2. PipelineOf(r)' = PipelineOf(r) /\ runner'[r].stage = runner[r].stage
      BY RunnerSame DEF TypeOK, Grown
    <3> QED
      BY <2>2, <3>1, <3>2 DEF Due, P!IsAutomatic, P!Follows
  <2> QED
    BY <2>1, <2>2
<1>2. FollowedUp(c, p, s) => FollowedUp(c, p, s)'
  <2> SUFFICES ASSUME NEW r \in DOMAIN runner,
                      cause[r] = c /\ PipelineOf(r) = p /\ runner[r].stage = s
               PROVE  FollowedUp(c, p, s)'
    BY DEF FollowedUp
  <2>1. PipelineOf(r)' = p
    BY RunnerSame DEF TypeOK
  <2>2. r \in DOMAIN runner' /\ cause'[r] = c /\ runner'[r].stage = s
    BY DEF Grown
  <2> QED
    BY <2>1, <2>2 DEF FollowedUp
<1>3. DeployedBefore(c) => DeployedBefore(c)'
  <2> SUFFICES ASSUME DeployedBefore(c) PROVE DeployedBefore(c)'
    OBVIOUS
  <2>1. PICK x \in DOMAIN runner : runner[x].workflow = runner[c.id].workflow /\ runner[x].stage = "DEPLOY"
    BY DEF DeployedBefore, RunnersOf
  <2>2. /\ x \in DOMAIN runner' /\ runner'[x].workflow = runner[x].workflow
        /\ runner'[x].stage = "DEPLOY"
    BY <2>1 DEF Grown
  <2>3. runner'[c.id].workflow = runner[c.id].workflow /\ runner'[c.id].stage = runner[c.id].stage
    BY DEF Grown, DeployedBefore, Known
  <2> QED
    BY <2>1, <2>2, <2>3 DEF DeployedBefore, RunnersOf
<1> QED
  BY <1>1, <1>2, <1>3 DEF Met

\* The same of all that is due at once.
LEMMA CoversStays ==
  ASSUME TypeOK, Grown, NEW c, c.kind \in {"build", "runner"}, Known(c), NEW todo
  PROVE  /\ Covers(c, todo) => Covers(c, todo)'
         /\ Direct(c, todo) => Direct(c, todo)'
         /\ Followed(c) => Followed(c)'
<1>1. Covers(c, todo) => Covers(c, todo)'
  BY DueStays DEF Covers, Asks, FirstStage
<1>2. Followed(c) => Followed(c)'
  BY DueStays DEF Followed
<1>3. Direct(c, todo) => Direct(c, todo)'
  BY DEF Direct, Grown, Known
<1> QED
  BY <1>1, <1>2, <1>3

\* The requests for the pipelines below one cover what is due there.
LEMMA ChildrenCover ==
  ASSUME NEW c, NEW q \in Pipeline \cup {Source}, NEW a \in Nat,
         \A p \in Pipeline, s \in Stage : Due(c, p, s) =>
           /\ P!IsAutomatic(p, s) /\ Below(q, p)
           /\ s = IF p \in PreStage THEN "PRE" ELSE "DEPLOY"
  PROVE  \E todo \in Seq(Request) :
           todo = ChildRequests(q, a) /\ Covers(c, todo) /\ Direct(c, todo)
<1>1. PICK todo \in Seq(Request) : todo = ChildRequests(q, a)
  BY ChildrenTyped
<1>2. \A i \in DOMAIN todo :
        todo[i].act = "auto" /\ todo[i].pipeline = Children[q][i]
  BY <1>1 DEF ChildRequests, AutoRequest
<1>3. DOMAIN todo = DOMAIN Children[q]
  BY <1>1 DEF ChildRequests
<1>4. Direct(c, todo)
  BY <1>2 DEF Direct
<1>5. ASSUME NEW p \in Pipeline, NEW s \in Stage, Due(c, p, s)
      PROVE  \E i \in DOMAIN todo : Asks(todo[i], p, s)
  <2>1. PICK i \in DOMAIN Children[q] : Children[q][i] = p
    BY <1>5 DEF Below
  <2>2. FirstStage(p) = s
    BY <1>5 DEF P!IsAutomatic, FirstStage
  <2> QED
    BY <1>2, <1>3, <2>1, <2>2 DEF Asks
<1> QED
  BY <1>1, <1>4, <1>5 DEF Covers

\* One request covers what is due if that is what it asks for.
LEMMA OneCovers ==
  ASSUME NEW c, NEW q \in Request,
         \A p \in Pipeline, s \in Stage : Due(c, p, s) => Asks(q, p, s),
         q.act = "deploy" => /\ c.kind = "runner" /\ runner[c.id].stage = "PRE"
                             /\ q.workflow = runner[c.id].workflow
  PROVE  \E todo \in Seq(Request) : todo = <<q>> /\ Covers(c, todo) /\ Direct(c, todo)
<1>1. PICK todo \in Seq(Request) : todo = <<q>>
  BY OneSpread
<1>2. DOMAIN todo = {1} /\ todo[1] = q
  BY <1>1
<1>3. Covers(c, todo)
  BY <1>2 DEF Covers
<1>4. Direct(c, todo)
  BY <1>2 DEF Direct
<1> QED
  BY <1>1, <1>3, <1>4

\* What follows a build: the first stages of the pipelines below it.
LEMMA DueAfterBuild ==
  ASSUME NEW c, c.kind = "build", NEW p \in Pipeline, NEW s \in Stage, Due(c, p, s)
  PROVE  /\ P!IsAutomatic(p, s) /\ Below(Source, p)
         /\ s = IF p \in PreStage THEN "PRE" ELSE "DEPLOY"
<1>1. Source \notin Pipeline
  BY PipelineAssumption
<1> QED
  BY <1>1 DEF Due, P!Follows, Below

\* What follows a stage or a deployment.
LEMMA DueAfterRun ==
  ASSUME TypeOK, NEW c, c.kind = "runner", NEW r \in DOMAIN runner, c.id = r,
         NEW p \in Pipeline, NEW s \in Stage, Due(c, p, s)
  PROVE  /\ P!IsAutomatic(p, s)
         /\ \/ /\ Below(PipelineOf(r), p) /\ s = IF p \in PreStage THEN "PRE" ELSE "DEPLOY"
               /\ runner[r].stage = IF PipelineOf(r) \in PostStage THEN "POST" ELSE "DEPLOY"
            \/ p = PipelineOf(r) /\ runner[r].stage = "PRE" /\ s = "DEPLOY"
            \/ p = PipelineOf(r) /\ runner[r].stage = "DEPLOY" /\ s = "POST" /\ p \in PostStage
<1>1. PipelineOf(r) \in Pipeline /\ Source \notin Pipeline
  BY RunnerFacts, PipelineAssumption DEF TypeOK
<1>2. c.kind # "build"
  OBVIOUS
<1>3. P!IsAutomatic(p, s) /\ P!Follows(PipelineOf(r), runner[r].stage, p, s)
  BY <1>2 DEF Due
<1>4. PipelineOf(r) # Source
  BY <1>1
<1> QED
  BY <1>3, <1>4 DEF P!Follows, Below

\* A worker that starts to trigger asks for all that is due.
LEMMA StartCovers ==
  ASSUME TypeOK, Grounded, Steered, NEW w \in Topic,
         HandleCiSuccess(w) \/ SaveCopies(w) \/ (WriteStatus(w) /\ handler[w].good)
  PROVE  \E c \in Cause, todo \in Seq(Request) :
           /\ c = CauseOf(w) /\ c.kind \in {"build", "runner"} /\ Known(c)
           /\ Continue(w, todo) /\ Covers(c, todo) /\ Direct(c, todo)
<1>0. w \in Worker
  BY DEF Worker
<1>1. PICK c \in Cause : c = CauseOf(w)
  BY <1>0, CauseTyped DEF TypeOK
<1>2. CASE HandleCiSuccess(w)
  <2>1. c.kind = "build"
    BY <1>1, <1>2 DEF HandleCiSuccess, CauseOf
  <2>2. Len(artifact) + 1 \in Nat
    BY DEF TypeOK, RowsOK
  <2>3. PICK todo \in Seq(Request) : /\ todo = ChildRequests(Source, Len(artifact) + 1)
                                     /\ Covers(c, todo) /\ Direct(c, todo)
    BY <2>1, <2>2, ChildrenCover, DueAfterBuild
  <2>4. Continue(w, todo)
    BY <1>2, <2>3 DEF HandleCiSuccess
  <2> QED
    BY <1>1, <2>1, <2>3, <2>4 DEF Known
<1>3. CASE SaveCopies(w)
  <2>1. PICK h \in Handler : h = handler[w] /\ Steady(w, h)
    BY <1>0, NowSteady
  <2>2. w = "stage" /\ h.subject \in DOMAIN runner /\ runner[h.subject].stage # "DEPLOY"
    BY <1>3, <2>1 DEF SaveCopies, At, Steady, Places
  <2>3. PICK r \in DOMAIN runner : r = handler[w].subject /\ runner[r].stage # "DEPLOY"
    BY <2>1, <2>2
  <2>4. c.kind = "runner" /\ c.id = r
    BY <1>1, <2>2, <2>3 DEF CauseOf
  <2>5. PICK a : a = IF NewCopies(r) = {} THEN ArtifactOf(r) ELSE Len(artifact) + 1
    OBVIOUS
  <2>6. /\ PipelineOf(r) \in Pipeline /\ ArtifactOf(r) \in DOMAIN artifact
        /\ runner[r].workflow \in DOMAIN workflow /\ runner[r] \in Runner
        /\ artifact \in Seq(Artifact) /\ workflow \in Seq(Workflow)
    BY RunnerFacts DEF TypeOK, RowsOK
  <2>7. a \in Nat /\ runner[r].workflow \in Nat
    BY <2>5, <2>6
  <2>8. CASE runner[r].stage = "PRE"
    <3>1. PICK q \in Request : q = [act |-> "deploy", pipeline |-> PipelineOf(r), artifact |-> a,
                                    workflow |-> runner[r].workflow]
      BY <2>6, <2>7 DEF Request
    <3>2. /\ q.act = "deploy" /\ q.pipeline = PipelineOf(r)
          /\ q.workflow = runner[r].workflow
      BY <3>1
    <3>3. ASSUME NEW p \in Pipeline, NEW s \in Stage, Due(c, p, s)
          PROVE  Asks(q, p, s)
      BY <2>4, <2>8, <3>2, <3>3, DueAfterRun DEF Asks
    <3>4. PICK todo \in Seq(Request) : todo = <<q>> /\ Covers(c, todo) /\ Direct(c, todo)
      BY <2>4, <2>8, <3>2, <3>3, OneCovers
    <3>5. Continue(w, todo)
      BY <1>3, <2>3, <2>5, <2>8, <3>1, <3>4 DEF SaveCopies
    <3> QED
      BY <1>1, <2>4, <3>4, <3>5 DEF Known
  <2>9. CASE runner[r].stage # "PRE"
    <3>1. \A p \in Pipeline, s \in Stage : Due(c, p, s) =>
            /\ P!IsAutomatic(p, s) /\ Below(PipelineOf(r), p)
            /\ s = IF p \in PreStage THEN "PRE" ELSE "DEPLOY"
      BY <2>3, <2>4, <2>9, DueAfterRun
    <3>2. PICK todo \in Seq(Request) : /\ todo = ChildRequests(PipelineOf(r), a)
                                       /\ Covers(c, todo) /\ Direct(c, todo)
      BY <2>6, <2>7, <3>1, ChildrenCover
    <3>3. Continue(w, todo)
      BY <1>3, <2>3, <2>5, <2>9, <3>2 DEF SaveCopies
    <3> QED
      BY <1>1, <2>4, <3>2, <3>3 DEF Known
  <2> QED
    BY <2>8, <2>9
<1>4. CASE WriteStatus(w) /\ handler[w].good
  <2>1. PICK h \in Handler : h = handler[w] /\ Steady(w, h)
    BY <1>0, NowSteady
  <2>2. w \in Observer /\ h.subject \in DOMAIN runner /\ runner[h.subject].stage = "DEPLOY"
    BY <1>4, <2>1 DEF WriteStatus, At, Steady, Places, Observer, Topic
  <2>3. PICK r \in DOMAIN runner : r = handler[w].subject /\ runner[r].stage = "DEPLOY"
    BY <2>1, <2>2
  <2>4. c.kind = "runner" /\ c.id = r
    BY <1>1, <2>2, <2>3 DEF CauseOf, Observer
  <2>5. Continue(w, AfterDeployment(r))
    BY <1>4, <2>3 DEF WriteStatus
  <2>6. /\ PipelineOf(r) \in Pipeline /\ ArtifactOf(r) \in DOMAIN artifact
        /\ runner[r].workflow \in DOMAIN workflow
        /\ artifact \in Seq(Artifact) /\ workflow \in Seq(Workflow)
    BY RunnerFacts DEF TypeOK, RowsOK
  <2>7. ArtifactOf(r) \in Nat /\ runner[r].workflow \in Nat
    BY <2>6
  <2>8. CASE PipelineOf(r) \notin PostStage
    <3>1. \A p \in Pipeline, s \in Stage : Due(c, p, s) =>
            /\ P!IsAutomatic(p, s) /\ Below(PipelineOf(r), p)
            /\ s = IF p \in PreStage THEN "PRE" ELSE "DEPLOY"
      BY <2>3, <2>4, <2>8, DueAfterRun
    <3>2. PICK todo \in Seq(Request) : /\ todo = ChildRequests(PipelineOf(r), ArtifactOf(r))
                                       /\ Covers(c, todo) /\ Direct(c, todo)
      BY <2>6, <2>7, <3>1, ChildrenCover
    <3> QED
      BY <1>1, <2>4, <2>5, <2>8, <3>2 DEF Known, AfterDeployment
  <2>9. CASE PipelineOf(r) \in PostStage /\ PipelineOf(r) \in AutoPost
    <3>1. PICK q \in Request : q = [act |-> "post", pipeline |-> PipelineOf(r),
                                    artifact |-> ArtifactOf(r), workflow |-> runner[r].workflow]
      BY <2>6, <2>7 DEF Request
    <3>2. q.act = "post" /\ q.pipeline = PipelineOf(r)
      BY <3>1
    <3>3. ASSUME NEW p \in Pipeline, NEW s \in Stage, Due(c, p, s)
          PROVE  Asks(q, p, s)
      BY <2>3, <2>4, <2>9, <3>2, <3>3, DueAfterRun DEF Asks
    <3>4. PICK todo \in Seq(Request) : todo = <<q>> /\ Covers(c, todo) /\ Direct(c, todo)
      BY <3>2, <3>3, OneCovers
    <3> QED
      BY <1>1, <2>4, <2>5, <2>9, <3>1, <3>4 DEF Known, AfterDeployment
  <2>10. CASE PipelineOf(r) \in PostStage /\ PipelineOf(r) \notin AutoPost
    <3>1. PICK todo \in Seq(Request) : todo = <<>>
      BY NoneSpread
    <3>2. \A p \in Pipeline, s \in Stage : ~Due(c, p, s)
      BY <2>3, <2>4, <2>10, DueAfterRun DEF P!IsAutomatic
    <3>3. Covers(c, todo) /\ Direct(c, todo)
      BY <3>1, <3>2 DEF Covers, Direct
    <3>4. Continue(w, todo)
      BY <2>5, <2>10, <3>1 DEF AfterDeployment
    <3> QED
      BY <1>1, <2>4, <3>3, <3>4 DEF Known
  <2> QED
    BY <2>8, <2>9, <2>10
<1> QED
  BY <1>2, <1>3, <1>4

\* The first request is worked off: what it asked for was started, or is left out.
LEMMA TailCovers ==
  ASSUME TypeOK, Automatic, Grounded, NEW w \in Topic, Skip(w) \/ Create(w),
         NEW c, c = CauseOf(w), c.kind \in {"build", "runner"}, Known(c),
         NEW old \in Seq(Request), old = handler[w].todo, Covers(c, old), Direct(c, old)
  PROVE  \E todo \in Seq(Request) :
           /\ todo = Tail(handler[w].todo) /\ Covers(c, todo)' /\ Direct(c, todo)'
<1>0. w \in Worker /\ w # "user" /\ At(w, "trigger")
  BY DEF Worker, Topic, Skip, Create
<1>1. Grown
  BY <1>0, HandleGrows DEF Handle
<1>2. PICK q \in Request, todo \in Seq(Request) :
        q = Head(handler[w].todo) /\ todo = Tail(handler[w].todo)
  BY <1>0, TailSpread
<1>3. HandlerOK(w, handler[w])
  BY <1>0, HandlerFacts DEF TypeOK
<1>4. old # <<>> /\ q = old[1] /\ todo = Tail(old)
  BY <1>0, <1>2, <1>3 DEF HandlerOK, At
<1>5. 1 \in DOMAIN old /\ \A i \in DOMAIN old : i = 1 \/ \E j \in DOMAIN todo : todo[j] = old[i]
  <2>1. Len(old) \in Nat /\ Len(old) # 0 /\ DOMAIN old = 1 .. Len(old)
    BY <1>4
  <2>2. Len(todo) = Len(old) - 1 /\ DOMAIN todo = 1 .. Len(todo)
    BY <1>4, <2>1
  <2>3. \A j \in 1 .. Len(todo) : todo[j] = old[j + 1]
    BY <1>4, <2>1, <2>2
  <2>4. ASSUME NEW i \in DOMAIN old, i # 1
        PROVE  \E j \in DOMAIN todo : todo[j] = old[i]
    <3>1. i - 1 \in 1 .. Len(todo) /\ (i - 1) + 1 = i
      BY <2>1, <2>2, <2>4
    <3> QED
      BY <2>2, <2>3, <3>1
  <2> QED
    BY <2>1, <2>4
<1>6. \A j \in DOMAIN todo : \E i \in DOMAIN old : todo[j] = old[i]
  <2>1. Len(old) \in Nat /\ Len(old) # 0 /\ DOMAIN old = 1 .. Len(old)
    BY <1>4
  <2>2. Len(todo) = Len(old) - 1 /\ DOMAIN todo = 1 .. Len(todo)
    BY <1>4, <2>1
  <2>3. \A j \in 1 .. Len(todo) : todo[j] = old[j + 1] /\ j + 1 \in 1 .. Len(old)
    BY <1>4, <2>1, <2>2
  <2> QED
    BY <2>1, <2>2, <2>3
<1>7. Direct(c, todo)
  BY <1>6 DEF Direct
<1>8. ASSUME NEW p \in Pipeline, NEW s \in Stage, Due(c, p, s), Asks(q, p, s)
      PROVE  Met(c, p, s)'
  <2>1. s # "none"
    BY DEF Stage
  <2>2. StageFor(q) # "none" => StageFor(q) = s
    BY <1>8 DEF StageFor, Asks
  <2>3. CASE Skip(w)
    <3>1. StageFor(q) = "none"
      BY <1>2, <2>3 DEF Skip
    <3>2. q.act = "deploy" /\ s = "DEPLOY" /\ p = q.pipeline
      BY <1>8, <2>1, <3>1 DEF StageFor, Asks
    <3>3. p \in AutoDeploy
      BY <1>8, <3>2 DEF Due, P!IsAutomatic
    <3>4. DeploymentTriggered(q.workflow)
      BY <3>1, <3>2, <3>3 DEF StageFor
    <3>5. RunnersOf(q.workflow, "DEPLOY") # {}
      <4>1. Cardinality({}) = 0
        BY FS_EmptySet
      <4>2. Cardinality(RunnersOf(q.workflow, "DEPLOY")) = 1
        BY <3>4 DEF DeploymentTriggered
      <4>3. 1 # 0
        OBVIOUS
      <4> QED
        BY <4>1, <4>2, <4>3, Zenon
    <3>6. DeployedBefore(c)
      BY <1>4, <1>5, <3>2, <3>5 DEF Direct, DeployedBefore
    <3> QED
      BY <1>1, <3>6, DueStays DEF Met
  <2>4. CASE Create(w)
    <3>1. PICK r \in Request, n \in Nat :
            /\ r = Head(handler[w].todo) /\ StageFor(r) # "none"
            /\ DOMAIN runner' = DOMAIN runner \cup {n}
            /\ runner'[n].stage = StageFor(r) /\ cause'[n] = CauseOf(w)
            /\ PipelineOf(n)' = r.pipeline
      BY <1>0, <1>1, <2>4, CreatedRun
    <3>2. r = q
      BY <1>2, <3>1
    <3>3. n \in DOMAIN runner' /\ cause'[n] = c /\ PipelineOf(n)' = p /\ runner'[n].stage = s
      BY <1>8, <2>2, <3>1, <3>2 DEF Asks
    <3> QED
      BY <3>3 DEF Met, FollowedUp
  <2> QED
    BY <2>3, <2>4
<1>9. ASSUME NEW p \in Pipeline, NEW s \in Stage, Due(c, p, s)'
      PROVE  Met(c, p, s)' \/ \E i \in DOMAIN todo : Asks(todo[i], p, s)
  <2>1. Due(c, p, s) /\ (Met(c, p, s) => Met(c, p, s)')
    BY <1>1, <1>9, DueStays
  <2>2. Met(c, p, s) \/ \E i \in DOMAIN old : Asks(old[i], p, s)
    BY <2>1 DEF Covers
  <2>3. ASSUME NEW i \in DOMAIN old, Asks(old[i], p, s)
        PROVE  Met(c, p, s)' \/ \E j \in DOMAIN todo : Asks(todo[j], p, s)
    <3>1. CASE i = 1
      BY <1>4, <1>8, <2>1, <2>3, <3>1
    <3>2. CASE i # 1
      BY <1>5, <2>3, <3>2
    <3> QED
      BY <3>1, <3>2
  <2> QED
    BY <2>1, <2>2, <2>3
<1>10. Covers(c, todo)'
  BY <1>9 DEF Covers, Asks, FirstStage
<1>11. Direct(c, todo)'
  BY <1>1, <1>7, CoversStays
<1> QED
  BY <1>2, <1>10, <1>11

\* A worker that goes on asks for all that is due, or is done with it; what an error
\* keeps it from asking for is lost.
LEMMA CoversOn ==
  ASSUME TypeOK, Automatic, Grounded, Steered, Thorough, NEW w \in Topic, Handle(w),
         NEW c \in Cause, c = CauseOf(w),
         \/ HandleCiSuccess(w) \/ SaveCopies(w) \/ (WriteStatus(w) /\ handler[w].good)
         \/ Triggers(w)
  PROVE  /\ c.kind \in {"build", "runner"} /\ Known(c)
         /\ \/ handler'[w] = Idle /\ (Followed(c)' \/ c \in lost')
            \/ \E todo \in Seq(Request) :
                 /\ Triggers(w)' /\ handler'[w].todo = todo /\ handler'[w].subject = handler[w].subject
                 /\ Covers(c, todo)' /\ Direct(c, todo)'
<1>0. w \in Worker /\ w # "user" /\ Grown /\ ~At(w, "idle")
  BY HandleGrows, HandleOnward DEF Worker, Topic
<1>1. ASSUME NEW todo \in Seq(Request), Continue(w, todo), Covers(c, todo)', Direct(c, todo)'
      PROVE  \/ handler'[w] = Idle /\ Followed(c)'
             \/ \E k \in Seq(Request) :
                  /\ Triggers(w)' /\ handler'[w].todo = k /\ handler'[w].subject = handler[w].subject
                  /\ Covers(c, k)' /\ Direct(c, k)'
  <2>1. CASE handler'[w] = Idle /\ todo = <<>>
    <3>1. DOMAIN todo = {}
      BY <2>1
    <3>2. Followed(c)'
      BY <1>1, <3>1 DEF Covers, Followed
    <3> QED
      BY <2>1, <3>2
  <2>2. CASE /\ At(w, "trigger")' /\ handler'[w].todo = todo
             /\ handler'[w].subject = handler[w].subject
    BY <1>1, <2>2 DEF At, Triggers
  <2> QED
    BY <1>0, <1>1, <2>1, <2>2, ContinueOnward
<1>2. CASE HandleCiSuccess(w) \/ SaveCopies(w) \/ (WriteStatus(w) /\ handler[w].good)
  <2>1. PICK d \in Cause, todo \in Seq(Request) :
           /\ d = CauseOf(w) /\ d.kind \in {"build", "runner"} /\ Known(d)
           /\ Continue(w, todo) /\ Covers(d, todo) /\ Direct(d, todo)
    BY <1>2, StartCovers
  <2>2. d = c
    BY <2>1
  <2>3. Covers(c, todo)' /\ Direct(c, todo)'
    BY <1>0, <2>1, <2>2, CoversStays
  <2> QED
    BY <1>1, <2>1, <2>2, <2>3
<1>3. CASE Triggers(w)
  <2>1. PICK old \in Seq(Request) : old = handler[w].todo
    BY <1>0, HandlerFacts DEF TypeOK
  <2>2. Covers(c, old) /\ Direct(c, old)
    BY <1>3, <2>1 DEF Thorough
  <2>3. c.kind \in {"build", "runner"} /\ Known(c)
    <3>1. PICK d \in Cause :
             /\ d = CauseOf(w)
             /\ (w = "ci" => d.kind = "build")
             /\ (w \in {"stage", "app", "sync"} => d.kind = "runner" /\ d.id \in DOMAIN runner)
      BY <1>0, <1>3, CauseKnown
    <3>2. d = c
      BY <3>1
    <3> QED
      BY <3>1, <3>2 DEF Topic, Known
  <2>4. Covers(c, old)' /\ Direct(c, old)'
    BY <1>0, <2>2, <2>3, CoversStays
  <2>5. CASE Skip(w)
    <3>1. PICK todo \in Seq(Request) :
             todo = Tail(handler[w].todo) /\ Covers(c, todo)' /\ Direct(c, todo)'
      BY <2>1, <2>2, <2>3, <2>5, TailCovers
    <3>2. Continue(w, todo)
      BY <2>5, <3>1 DEF Skip
    <3> QED
      BY <1>1, <2>3, <3>1, <3>2
  <2>6. CASE Create(w)
    <3>1. PICK todo \in Seq(Request) :
             todo = Tail(handler[w].todo) /\ Covers(c, todo)' /\ Direct(c, todo)'
      BY <2>1, <2>2, <2>3, <2>6, TailCovers
    <3>2. PICK q \in Request, rest \in Seq(Request), n \in Nat :
             /\ handler'[w].pc = "submit" /\ handler'[w].todo = rest
             /\ handler'[w].subject = handler[w].subject
      BY <1>0, <2>6, CreatesRun
    <3>3. handler'[w].todo = Tail(handler[w].todo)
      BY <1>0, <2>6 DEF Create, TypeOK, HandlersOK, Handler
    <3>4. handler'[w].todo = todo
      BY <3>1, <3>3
    <3> QED
      BY <2>3, <3>1, <3>2, <3>4 DEF Triggers
  <2>7. CASE SubmitStage(w) \/ Release(w)
    <3>1. Continue(w, old)
      BY <2>1, <2>7 DEF SubmitStage, Release
    <3> QED
      BY <1>1, <2>3, <2>4, <3>1
  <2>8. CASE SubmitFails(w)
    <3>1. CASE w = "ci" \/ old = <<>>
      <4>1. Continue(w, old)
        BY <2>1, <2>8, <3>1 DEF SubmitFails, GoesOn
      <4> QED
        BY <1>1, <2>3, <2>4, <4>1
    <3>2. CASE w # "ci" /\ old # <<>>
      <4>1. c \in lost'
        BY <2>1, <2>8, <3>2 DEF SubmitFails
      <4>2. PICK none \in Seq(Request) : none = <<>>
        BY NoneSpread
      <4>3. Continue(w, none)
        BY <2>8, <3>2, <4>2 DEF SubmitFails, GoesOn
      <4>4. handler'[w] = Idle
        BY <1>0, <4>2, <4>3, ContinueOnward
      <4> QED
        BY <2>3, <4>1, <4>4
    <3> QED
      BY <3>1, <3>2
  <2>9. CASE /\ ~Skip(w) /\ ~Create(w) /\ ~SubmitStage(w) /\ ~Release(w) /\ ~SubmitFails(w)
    <3>1. FALSE
      BY <1>3, <2>9 DEF Handle, HandleCiSuccess, ReportStage, SaveCopies, FetchApp, CheckApp,
           SaveTimeline, RecheckApp, WriteStatus, At, Triggers
    <3> QED
      BY <3>1
  <2> QED
    BY <2>5, <2>6, <2>7, <2>8, <2>9
<1> QED
  BY <1>2, <1>3

\* A worker does not forget what it has to ask for.
LEMMA NextThorough ==
  ASSUME TypeOK, Automatic, Grounded, Steered, Thorough, [Next]_vars
  PROVE  Thorough'
<1> SUFFICES ASSUME NEW w \in Topic, NEW c \in Cause, NEW todo \in Seq(Request),
                    Triggers(w)', CauseOf(w)' = c, handler'[w].todo = todo
             PROVE  Covers(c, todo)' /\ Direct(c, todo)'
  BY DEF Thorough
<1>0. w \in Worker /\ Grown
  BY NextRows DEF Worker
<1>1. CASE handler'[w] = handler[w]
  <2>1. Triggers(w) /\ CauseOf(w) = c /\ handler[w].todo = todo
    BY <1>1 DEF Triggers, CauseOf
  <2>2. Covers(c, todo) /\ Direct(c, todo)
    BY <2>1 DEF Thorough
  <2>3. PICK d \in Cause :
           /\ d = CauseOf(w)
           /\ (w = "ci" => d.kind = "build")
           /\ (w \in {"stage", "app", "sync"} => d.kind = "runner" /\ d.id \in DOMAIN runner)
    BY <1>0, <2>1, CauseKnown
  <2>4. c.kind \in {"build", "runner"} /\ Known(c)
    BY <2>1, <2>3 DEF Topic, Known
  <2> QED
    BY <1>0, <2>2, <2>4, CoversStays
<1>2. CASE Handle(w)
  <2>1. CASE \/ HandleCiSuccess(w) \/ SaveCopies(w) \/ (WriteStatus(w) /\ handler[w].good)
             \/ Triggers(w)
    <3>1. PICK d \in Cause : d = CauseOf(w)
      BY <1>0, CauseTyped DEF TypeOK
    <3>2. handler'[w] # Idle
      BY IdleTyped DEF Triggers
    <3>3. /\ handler'[w].subject = handler[w].subject
          /\ Covers(d, todo)' /\ Direct(d, todo)'
      BY <1>2, <2>1, <3>1, <3>2, CoversOn
    <3>4. d = c
      BY <3>1, <3>3 DEF CauseOf
    <3> QED
      BY <3>3, <3>4
  <2>2. CASE ReportStage(w) \/ FetchApp(w) \/ CheckApp(w) \/ SaveTimeline(w) \/ RecheckApp(w)
    BY <1>0, <2>2, LooksOn DEF Triggers
  <2>3. CASE WriteStatus(w) /\ ~handler[w].good
    <3>1. PICK none \in Seq(Request) : none = <<>>
      BY NoneSpread
    <3>2. Continue(w, none) /\ ~At(w, "idle")
      BY <2>3, <3>1 DEF WriteStatus, At
    <3>3. At(w, "idle")'
      BY <1>0, <3>1, <3>2, ContinueOnward
    <3> QED
      BY <3>3 DEF At, Triggers
  <2>4. CASE Skip(w) \/ Create(w) \/ SubmitStage(w) \/ Release(w) \/ SubmitFails(w)
    <3>1. Triggers(w)
      BY <2>4 DEF Skip, Create, SubmitStage, Release, SubmitFails, At, Triggers
    <3> QED
      BY <2>1, <3>1
  <2> QED
    BY <1>2, <2>1, <2>2, <2>3, <2>4 DEF Handle
<1> QED
  BY <1>1, <1>2, TriggersItself

-----------------------------------------------------------------------------
(* What has succeeded is pursued *)

\* What has succeeded, and is known to have; a worker that knows of it.
Happened(c) ==
  \/ c.kind = "build" /\ c.id \in 1 .. builds
  \/ /\ c.kind = "runner" /\ c.id \in DOMAIN runner
     /\ IF runner[c.id].stage = "DEPLOY" THEN runner[c.id].healthy > 0 ELSE c.id \in succeeded
On(t, c) ==
  /\ CauseOf(t) = c
  /\ IF t \in Told THEN ~At(t, "idle") /\ handler[t].good ELSE Past(t, c.id)

\* The news of it have not been taken, and will not be dropped.
Waits(t, m, c) ==
  InQueue(t, m) /\ m.subject = c.id /\ m.good /\ ~AlreadyTriggered(m)
Waiting(c) == \E t \in Told : News(t, c) /\ \E m \in Message : Waits(t, m, c)

Pursued == \A c \in Cause :
  Happened(c) /\ c \notin lost => Followed(c) \/ Waiting(c) \/ \E t \in Topic : On(t, c)

\* A message stays where it is unless its worker takes it.
LEMMA MessageKept ==
  ASSUME TypeOK, [Next]_vars, NEW t \in Topic, NEW m \in Message, InQueue(t, m)
  PROVE  \/ InQueue(t, m)'
         \/ Take(t) /\ m.again /\ AlreadyTriggered(m)
         \/ Take(t) /\ \E pc \in {"begin", "check"} :
              pc = (IF t = "app" THEN "check" ELSE "begin") /\ handler'[t] = Taken(pc, m)
<1>1. ASSUME NEW u \in Topic, Take(u), ~InQueue(t, m)'
      PROVE  \/ Take(t) /\ m.again /\ AlreadyTriggered(m)
             \/ Take(t) /\ \E pc \in {"begin", "check"} :
                  pc = (IF t = "app" THEN "check" ELSE "begin") /\ handler'[t] = Taken(pc, m)
  <2>1. PICK k \in Message :
           /\ \A x \in Topic, n \in Message : InQueue(x, n) => InQueue(x, n)' \/ (x = u /\ n = k)
           /\ \/ k.again /\ AlreadyTriggered(k) /\ handler' = handler
              \/ \E pc \in {"begin", "check"} :
                   /\ pc = IF u = "app" THEN "check" ELSE "begin"
                   /\ handler'[u] = Taken(pc, k)
    BY <1>1, TakeLetters
  <2>2. t = u /\ m = k
    BY <1>1, <2>1
  <2> QED
    BY <1>1, <2>1, <2>2
<1> QED
  BY <1>1, CrashLetters, OtherLetters

\* A runner that refers to a message comes from the worker that has it.
LEMMA NewlyTriggered ==
  ASSUME TypeOK, Automatic, Grounded, Lettered, [Next]_vars, NEW t \in Topic, NEW m \in Message,
         Carries(t, m), AlreadyTriggered(m)', ~AlreadyTriggered(m)
  PROVE  Create(t) /\ Same(Msg(t), m)
<1>1. PICK r \in DOMAIN runner' : runner'[r].ref = m.id
  BY DEF AlreadyTriggered
<1>2. m.id \in 1 .. sent /\ sent \in Nat
  BY DEF Lettered, Numbered, TypeOK, QueueOK
<1>3. PICK w \in Worker : Create(w) /\ Msg(w).id = m.id
  <2>1. m.id # 0
    BY <1>2
  <2>2. ~(r \in DOMAIN runner /\ runner'[r].ref = runner[r].ref)
    BY <1>1 DEF AlreadyTriggered
  <2>3. PICK id : id = runner'[r].ref
    OBVIOUS
  <2>4. \E w \in Worker : Create(w) /\ id = Msg(w).id
    BY <1>1, <2>1, <2>2, <2>3, NewRefs
  <2> QED
    BY <1>1, <2>3, <2>4
<1>4. w # "user"
  BY <1>2, <1>3 DEF Lettered, Numbered
<1>5. w \in Topic /\ Msg(w) \in Message /\ ~At(w, "idle")
  BY <1>3, <1>4, HandlerFacts DEF Worker, Msg, TypeOK, Create, At
<1>6. Carries(w, Msg(w))
  BY <1>5 DEF Carries
<1>7. w = t /\ Same(Msg(w), m)
  BY <1>3, <1>5, <1>6 DEF Lettered, OneMeaning
<1> QED
  BY <1>3, <1>7

\* News that wait go on waiting or are taken up.
LEMMA WaitingStep ==
  ASSUME TypeOK, Automatic, Grounded, Lettered, [Next]_vars, NEW c \in Cause, Known(c), Waiting(c)
  PROVE  Waiting(c)' \/ \E t \in Topic : On(t, c)'
<1>1. PICK t \in Told : News(t, c) /\ \E m \in Message : Waits(t, m, c)
  BY DEF Waiting
<1>2. PICK m \in Message : Waits(t, m, c)
  BY <1>1
<1>3. t \in Topic /\ t \in Worker /\ t # "user" /\ t # "sync" /\ t # "app"
  BY DEF Told, Topic, Worker
<1>4. Grown
  BY NextRows
<1>5. News(t, c)'
  BY <1>1, <1>4 DEF News, Grown, Known
<1>6. c.kind = (IF t = "ci" THEN "build" ELSE "runner")
  BY <1>1 DEF News
<1>7. CauseOf(t)' = [kind |-> IF t = "ci" THEN "build" ELSE "runner", id |-> handler'[t].subject]
  BY <1>3 DEF CauseOf
<1>8. c = [kind |-> IF t = "ci" THEN "build" ELSE "runner", id |-> c.id]
  BY <1>6 DEF Cause
<1>9. CASE Take(t) /\ m.again /\ AlreadyTriggered(m)
  BY <1>2, <1>9 DEF Waits
<1>10. CASE Take(t) /\ \E pc \in {"begin", "check"} :
              pc = (IF t = "app" THEN "check" ELSE "begin") /\ handler'[t] = Taken(pc, m)
  <2>1. PICK pc \in {"begin", "check"} : handler'[t] = Taken(pc, m)
    BY <1>10
  <2>2. handler'[t].pc # "idle" /\ handler'[t].subject = c.id /\ handler'[t].good
    BY <1>2, <2>1 DEF Waits, Taken
  <2>3. CauseOf(t)' = c
    BY <1>7, <1>8, <2>2
  <2> QED
    BY <1>3, <2>2, <2>3 DEF On, At
<1>11. CASE InQueue(t, m)'
  <2>1. CASE ~AlreadyTriggered(m)'
    <3>1. Waits(t, m, c)'
      BY <1>2, <1>11, <2>1 DEF Waits
    <3> QED
      BY <1>5, <3>1 DEF Waiting
  <2>2. CASE AlreadyTriggered(m)'
    <3>1. Carries(t, m) /\ ~AlreadyTriggered(m)
      BY <1>2 DEF Waits, Carries
    <3>2. Create(t) /\ Same(Msg(t), m)
      BY <1>3, <2>2, <3>1, NewlyTriggered
    <3>3. handler[t].subject = Msg(t).subject /\ handler[t].good = Msg(t).good
      BY <1>3, <3>2 DEF Create, At, Lettered, Reads
    <3>4. PICK q \in Request, rest \in Seq(Request), n \in Nat :
             handler'[t].pc = "submit" /\ handler'[t].subject = handler[t].subject
      BY <1>3, <3>2, CreatesRun
    <3>5. handler'[t].good = handler[t].good
      <4>1. Handle(t) /\ handler'[t] # Idle /\ t # "sync"
        BY <1>3, <3>2, <3>4, IdleTyped DEF Handle
      <4> QED
        BY <1>3, <4>1, WorkerKeeps
    <3>6. handler'[t].subject = c.id /\ handler'[t].good
      BY <1>2, <3>2, <3>3, <3>4, <3>5 DEF Same, Waits
    <3>7. CauseOf(t)' = c
      BY <1>7, <1>8, <3>6
    <3> QED
      BY <1>3, <3>4, <3>6, <3>7 DEF On, At
  <2> QED
    BY <2>1, <2>2
<1> QED
  BY <1>2, <1>3, <1>9, <1>10, <1>11, MessageKept DEF Waits

\* What a step may do to a runner's status and timelines.
Written(r) ==
  \/ runner'[r] = runner[r]
  \/ /\ runner'[r].healthy # runner[r].healthy
     /\ runner'[r].status = runner[r].status /\ runner'[r].failed = runner[r].failed
     /\ \E w \in Worker : SaveTimeline(w) /\ handler[w].subject = r
  \/ /\ runner'[r].healthy = runner[r].healthy
     /\ \/ /\ runner'[r].failed = runner[r].failed
           /\ \E w \in Worker :
                \/ /\ WriteStatus(w) /\ handler[w].subject = r
                   /\ runner'[r].status = IF handler[w].good THEN "Succeeded" ELSE "Progressing"
                \/ ReportStage(w) /\ handler[w].subject = r
        \/ \E w \in Worker : SubmitFails(w) /\ Makes(w, r)
        \/ /\ runner'[r].failed = runner[r].failed /\ runner'[r].status = "Progressing"
           /\ \E w \in Worker : Release(w) /\ Makes(w, r) /\ ~runner[r].failed
        \/ /\ ~Terminal(r)
           /\ \E w \in Worker : Release(w) /\ ~Makes(w, r) /\ ~runner[handler[w].made].failed
                                /\ r \in Deployments(PipelineOf(handler[w].made))
        \/ RetryStage(r)

LEMMA FieldsWritten ==
  ASSUME NEW x \in Runner, NEW s, NEW b, NEW n \in Nat
  PROVE  /\ [x EXCEPT !.status = s].status = s
         /\ [x EXCEPT !.status = s].failed = x.failed
         /\ [x EXCEPT !.status = s].healthy = x.healthy
         /\ [x EXCEPT !.status = s, !.failed = b].healthy = x.healthy
         /\ [x EXCEPT !.healthy = x.healthy + 1].healthy # x.healthy
         /\ [x EXCEPT !.healthy = x.healthy + 1].status = x.status
         /\ [x EXCEPT !.healthy = x.healthy + 1].failed = x.failed
<1>1. x.healthy \in Nat /\ [x EXCEPT !.healthy = x.healthy + 1].healthy = x.healthy + 1
  BY DEF Runner
<1>2. x.healthy + 1 # x.healthy
  BY <1>1
<1> QED
  BY <1>1, <1>2 DEF Runner

\* A worker writes what its step says.
LEMMA HandleWrites ==
  ASSUME TypeOK, NEW w \in Worker, Handle(w), NEW r \in DOMAIN runner
  PROVE  Written(r)
<1>0. PICK x \in Runner : x = runner[r]
  BY RunnerFacts DEF TypeOK
<1>a. runner \in Seq(Runner) /\ DOMAIN runner = 1 .. Len(runner)
  BY DEF TypeOK, RowsOK
<1>1. CASE UNCHANGED runner
  BY <1>1 DEF Written
<1>2. CASE Create(w)
  <2>1. PICK new : runner' = Append(runner, new)
    BY <1>2 DEF Create
  <2> QED
    BY <1>a, <2>1 DEF Written
<1>3. CASE Skip(w) \/ SubmitStage(w) \/ HandleCiSuccess(w) \/ SaveCopies(w) \/ FetchApp(w)
           \/ CheckApp(w) \/ RecheckApp(w)
  BY <1>1, <1>3 DEF Skip, SubmitStage, HandleCiSuccess, SaveCopies, FetchApp, CheckApp,
                    RecheckApp, rows
<1>4. CASE Release(w)
  <2>1. CASE runner[handler[w].made].failed
    BY <1>1, <1>4, <2>1 DEF Release
  <2>2. CASE ~runner[handler[w].made].failed
    <3>1. CASE handler[w].made = r
      <4>1. runner'[r] = [x EXCEPT !.status = "Progressing"]
        BY <1>0, <1>4, <2>2, <3>1 DEF Release
      <4>2. Makes(w, r)
        BY <1>4, <3>1 DEF Release, Makes
      <4> QED
        BY <1>0, <1>4, <2>2, <3>1, <4>1, <4>2, FieldsWritten DEF Written
    <3>2. CASE handler[w].made # r
      <4>1. CASE r \in Deployments(PipelineOf(handler[w].made)) /\ r < handler[w].made /\ ~Terminal(r)
        <5>1. runner'[r] = [x EXCEPT !.status = "Failed", !.failed = TRUE]
          BY <1>0, <1>4, <2>2, <3>2, <4>1 DEF Release
        <5>2. ~Makes(w, r)
          BY <3>2 DEF Makes
        <5>3. runner'[r].healthy = runner[r].healthy
          BY <1>0, <5>1, FieldsWritten
        <5> QED
          BY <1>4, <2>2, <4>1, <5>2, <5>3 DEF Written
      <4>2. CASE ~(r \in Deployments(PipelineOf(handler[w].made)) /\ r < handler[w].made /\ ~Terminal(r))
        <5>1. runner'[r] = runner[r]
          BY <1>4, <2>2, <3>2, <4>2 DEF Release
        <5> QED
          BY <5>1 DEF Written
      <4> QED
        BY <4>1, <4>2
    <3> QED
      BY <3>1, <3>2
  <2> QED
    BY <2>1, <2>2
<1>5. CASE SubmitFails(w)
  <2>1. PICK b : b = (runner[handler[w].made].stage = "DEPLOY")
    OBVIOUS
  <2>2. PICK new : new = [runner[handler[w].made] EXCEPT !.status = "Failed", !.failed = b]
    OBVIOUS
  <2>3. runner' = [runner EXCEPT ![handler[w].made] = new]
    BY <1>5, <2>1, <2>2 DEF SubmitFails
  <2>4. CASE handler[w].made = r
    <3>1. runner'[r] = new /\ new = [x EXCEPT !.status = "Failed", !.failed = b]
      BY <1>0, <1>a, <2>2, <2>3, <2>4
    <3>2. runner'[r].healthy = runner[r].healthy
      BY <1>0, <3>1, FieldsWritten
    <3>3. Makes(w, r)
      BY <1>5, <2>4 DEF SubmitFails, Makes
    <3> QED
      BY <1>5, <3>2, <3>3 DEF Written
  <2>5. CASE handler[w].made # r
    <3>1. runner'[r] = runner[r]
      BY <1>a, <2>3, <2>5
    <3> QED
      BY <3>1 DEF Written
  <2> QED
    BY <2>4, <2>5
<1>6. CASE WriteStatus(w)
  <2>1. PICK s : s = IF handler[w].good THEN "Succeeded" ELSE "Progressing"
    OBVIOUS
  <2>2. runner' = [runner EXCEPT ![handler[w].subject].status = s]
    BY <1>6, <2>1 DEF WriteStatus
  <2>3. CASE handler[w].subject = r
    <3>1. runner'[r] = [x EXCEPT !.status = s]
      BY <1>0, <1>a, <2>2, <2>3
    <3> QED
      BY <1>0, <1>6, <2>1, <2>3, <3>1, FieldsWritten DEF Written
  <2>4. CASE handler[w].subject # r
    <3>1. runner'[r] = runner[r]
      BY <1>a, <2>2, <2>4
    <3> QED
      BY <3>1 DEF Written
  <2> QED
    BY <2>3, <2>4
<1>7. CASE ReportStage(w)
  <2>1. PICK s : s = IF handler[w].good THEN "Succeeded" ELSE "Failed"
    OBVIOUS
  <2>2. UNCHANGED runner \/ runner' = [runner EXCEPT ![handler[w].subject].status = s]
    BY <1>7, <2>1 DEF ReportStage
  <2>3. CASE handler[w].subject = r /\ ~UNCHANGED runner
    <3>1. runner'[r] = [x EXCEPT !.status = s]
      BY <1>0, <1>a, <2>2, <2>3
    <3> QED
      BY <1>0, <1>7, <2>3, <3>1, FieldsWritten DEF Written
  <2>4. CASE handler[w].subject # r /\ ~UNCHANGED runner
    <3>1. runner'[r] = runner[r]
      BY <1>a, <2>2, <2>4
    <3> QED
      BY <3>1 DEF Written
  <2> QED
    BY <1>1, <2>3, <2>4
<1>8. CASE SaveTimeline(w)
  <2>1. runner' = [runner EXCEPT ![handler[w].subject].healthy = runner[handler[w].subject].healthy + 1]
    BY <1>8 DEF SaveTimeline
  <2>2. CASE handler[w].subject = r
    <3>1. runner'[r] = [x EXCEPT !.healthy = x.healthy + 1]
      BY <1>0, <1>a, <2>1, <2>2
    <3> QED
      BY <1>0, <1>8, <2>2, <3>1, FieldsWritten DEF Written
  <2>3. CASE handler[w].subject # r
    <3>1. runner'[r] = runner[r]
      BY <1>a, <2>1, <2>3
    <3> QED
      BY <3>1 DEF Written
  <2> QED
    BY <2>2, <2>3
<1> QED
  BY <1>2, <1>3, <1>4, <1>5, <1>6, <1>7, <1>8 DEF Handle

\* So does every step.
LEMMA NextWrites ==
  ASSUME TypeOK, [Next]_vars, NEW r \in DOMAIN runner
  PROVE  Written(r)
<1>1. CASE UNCHANGED runner
  BY <1>1 DEF Written
<1>2. ASSUME NEW w \in Worker, Handle(w) PROVE Written(r)
  BY <1>2, HandleWrites
<1>3. ASSUME NEW x \in DOMAIN runner, RetryStage(x) PROVE Written(r)
  <2>1. PICK old : /\ old = [runner EXCEPT ![x].status = "Failed"]
                   /\ old \in Seq(Runner) /\ DOMAIN old = DOMAIN runner
    BY RetriedRow
  <2>2. PICK new : runner' = Append(old, new)
    BY <1>3, <2>1 DEF RetryStage
  <2>3. runner'[r] = old[r]
    BY <2>1, <2>2
  <2>4. CASE x = r
    <3>1. PICK y \in Runner : y = runner[r]
      BY RunnerFacts DEF TypeOK
    <3>2. runner'[r] = [y EXCEPT !.status = "Failed"]
      BY <2>1, <2>3, <2>4, <3>1 DEF TypeOK, RowsOK
    <3> QED
      BY <1>3, <2>4, <3>1, <3>2, FieldsWritten DEF Written
  <2>5. CASE x # r
    <3>1. runner'[r] = runner[r]
      BY <2>1, <2>3, <2>5
    <3> QED
      BY <3>1 DEF Written
  <2> QED
    BY <2>4, <2>5
<1> QED
  BY <1>1, <1>2, <1>3 DEF Next, Cluster, BuildSucceeds, StageEnds, AppHealthy, Resend, Take,
     Redeliver, SyncByCron, UserTriggers, Crash, vars, rows

\* Only a new timeline tells that a deployment is healthy.
LEMMA HealthyKept ==
  ASSUME TypeOK, [Next]_vars, NEW r \in DOMAIN runner, \A w \in Worker : ~SaveTimeline(w)
  PROVE  runner'[r].healthy = runner[r].healthy
BY NextWrites DEF Written

\* A worker that goes on with a success is done with it only when all was asked for.
LEMMA HandleOn ==
  ASSUME TypeOK, Automatic, Grounded, Steered, Thorough, NEW w \in Topic, Handle(w),
         NEW c \in Cause, On(w, c), c \notin lost'
  PROVE  Followed(c)' \/ On(w, c)'
<1>0. w \in Worker /\ CauseOf(w) = c
  BY DEF Worker, On
<1>1. PICK h \in Handler : h = handler[w] /\ Steady(w, h)
  BY <1>0, NowSteady
<1>2. CASE \/ HandleCiSuccess(w) \/ SaveCopies(w) \/ (WriteStatus(w) /\ handler[w].good)
           \/ Triggers(w)
  <2>1. \/ handler'[w] = Idle /\ Followed(c)'
        \/ Triggers(w)' /\ handler'[w].subject = handler[w].subject
    BY <1>0, <1>2, CoversOn
  <2>2. ASSUME Triggers(w)', handler'[w].subject = handler[w].subject
        PROVE  On(w, c)'
    <3>1. CauseOf(w)' = c
      BY <1>0, <2>2 DEF CauseOf
    <3>2. ~At(w, "idle")'
      BY <2>2 DEF Triggers, At
    <3>3. CASE w \in Told
      <4>1. handler'[w] # Idle
        BY <3>2, IdleTyped DEF At
      <4>2. handler'[w].good = handler[w].good
        BY <1>0, <3>3, <4>1, WorkerKeeps DEF Told
      <4> QED
        BY <3>1, <3>2, <3>3, <4>2 DEF On
    <3>4. CASE w \notin Told
      BY <2>2, <3>1, <3>4 DEF On, Past, Found, Triggers
    <3> QED
      BY <3>3, <3>4
  <2> QED
    BY <2>1, <2>2
<1>3. CASE /\ ~HandleCiSuccess(w) /\ ~SaveCopies(w) /\ ~(WriteStatus(w) /\ handler[w].good)
           /\ ~Triggers(w)
  <2>1. ~Skip(w) /\ ~Create(w) /\ ~SubmitStage(w) /\ ~Release(w) /\ ~SubmitFails(w)
    BY <1>3 DEF Skip, Create, SubmitStage, Release, SubmitFails, At, Triggers
  <2>2. CASE w \in Told
    <3>1. handler[w].good /\ h.pc \notin {"check", "timeline", "recheck", "status"}
      BY <1>1, <2>2 DEF On, Steady, Places, Told
    <3>2. ReportStage(w)
      BY <1>1, <1>3, <2>1, <2>2, <3>1 DEF Handle, FetchApp, CheckApp, SaveTimeline, RecheckApp, WriteStatus,
         At, Told
    <3>3. handler'[w] = [handler[w] EXCEPT !.pc = "copy"]
      BY <1>0, <3>1, <3>2 DEF ReportStage, TypeOK, HandlersOK
    <3>4. /\ handler'[w].pc = "copy" /\ handler'[w].good = handler[w].good
          /\ handler'[w].subject = handler[w].subject
      BY <1>1, <3>3 DEF Handler
    <3>5. CauseOf(w)' = c
      BY <1>0, <3>4 DEF CauseOf
    <3> QED
      BY <2>2, <3>1, <3>4, <3>5 DEF On, At
  <2>3. CASE w \notin Told
    <3>1. Found(w) /\ handler[w].subject = c.id
      BY <1>3, <2>3 DEF On, Past
    <3>2. RecheckApp(w)
      BY <1>3, <2>1, <3>1 DEF Found, Handle, ReportStage, FetchApp, CheckApp, SaveTimeline, At
    <3>3. handler' = [handler EXCEPT ![w] = [h EXCEPT !.pc = "status"]]
      BY <1>0, <1>1, <3>1, <3>2 DEF Found, RecheckApp
    <3>4. handler'[w] = [h EXCEPT !.pc = "status"]
      BY <1>0, <3>3 DEF TypeOK, HandlersOK
    <3>5. /\ handler'[w].pc = "status" /\ handler'[w].good = h.good
          /\ handler'[w].subject = h.subject
      BY <3>4 DEF Handler
    <3>6. CauseOf(w)' = c /\ Past(w, c.id)'
      BY <1>0, <1>1, <3>1, <3>5 DEF CauseOf, Past, Found
    <3> QED
      BY <2>3, <3>6 DEF On
  <2> QED
    BY <2>2, <2>3
<1> QED
  BY <1>2, <1>3

\* A crash puts it back, or it is lost.
LEMMA CrashOn ==
  ASSUME TypeOK, Lettered, Steered, Crash, NEW w \in Topic, NEW c \in Cause, On(w, c),
         c \notin lost'
  PROVE  Waiting(c)'
<1>0. w \in Worker /\ CauseOf(w) = c /\ lost' = lost \cup {CauseOf(t) : t \in {x \in Topic : InVain(x)}}
  BY DEF Worker, On, Crash
<1>1. ~InVain(w)
  BY <1>0
<1>2. ~At(w, "idle")
  BY DEF On, Past, Found, Triggers, At
<1>3. ~AlreadyTriggered(Msg(w))
  BY <1>1, <1>2 DEF InVain
<1>4. w \in Told
  <2>1. CASE w \notin Told
    <3>1. w \in {"app", "sync"}
      BY <2>1 DEF Topic, Told
    <3>2. handler[w].pc \notin {"begin", "check", "timeline"}
      BY <2>1 DEF On, Past, Found, Triggers, At
    <3> QED
      BY <1>1, <1>2, <3>1, <3>2 DEF InVain
  <2> QED
    BY <2>1
<1>5. PICK n \in Message : InQueue(w, n)' /\ n.id = Msg(w).id /\ (InQueue(w, n) \/ Same(n, Msg(w)))
  BY <1>2, CrashLetters
<1>6. Msg(w) \in Message
  BY <1>0, HandlerFacts DEF TypeOK, Msg
<1>7. Same(n, Msg(w))
  <2>1. Carries(w, Msg(w))
    BY <1>2 DEF Carries
  <2>2. InQueue(w, n) => Carries(w, n)
    BY DEF Carries
  <2> QED
    BY <1>5, <1>6, <2>1, <2>2 DEF Lettered, OneMeaning
<1>8. handler[w].subject = Msg(w).subject /\ handler[w].good = Msg(w).good
  BY <1>2, <1>4 DEF Lettered, Reads, Told
<1>9. c.id = handler[w].subject /\ c.kind = (IF w = "ci" THEN "build" ELSE "runner")
  BY <1>0, <1>4 DEF CauseOf, Told
<1>10. ~AlreadyTriggered(n)'
  <2>1. runner' = runner
    BY DEF Crash, rows
  <2> QED
    BY <1>3, <1>5, <2>1 DEF AlreadyTriggered
<1>11. Waits(w, n, c)'
  BY <1>4, <1>5, <1>7, <1>8, <1>9, <1>10 DEF Waits, Same, On
<1>12. News(w, c)'
  <2>1. PICK h \in Handler : h = handler[w] /\ Steady(w, h)
    BY <1>0, NowSteady
  <2>2. w = "stage" => runner[h.subject].stage # "DEPLOY"
    BY <1>2, <2>1 DEF Steady, At
  <2>3. runner' = runner
    BY DEF Crash, rows
  <2> QED
    BY <1>4, <1>9, <2>1, <2>2, <2>3 DEF News, Told
<1> QED
  BY <1>4, <1>11, <1>12 DEF Waiting

\* A worker that knows of a success goes on with it.
LEMMA OnStep ==
  ASSUME TypeOK, Automatic, Grounded, Lettered, Steered, Thorough, [Next]_vars,
         NEW w \in Topic, NEW c \in Cause, On(w, c), c \notin lost'
  PROVE  Followed(c)' \/ Waiting(c)' \/ On(w, c)'
<1>0. w \in Worker /\ ~At(w, "idle")
  BY DEF Worker, On, Past, Found, Triggers, At
<1>1. CASE handler'[w] = handler[w]
  BY <1>1 DEF On, CauseOf, Past, Found, Triggers, At
<1>2. CASE Handle(w)
  BY <1>2, HandleOn
<1>3. CASE Crash
  BY <1>3, CrashOn
<1>4. ASSUME NEW u \in Topic, Take(u) PROVE handler'[w] = handler[w]
  <2>1. PICK k \in Message : At(u, "idle") /\ \A x \in Worker \ {u} : handler'[x] = handler[x]
    BY <1>4, TakeLetters
  <2> QED
    BY <1>0, <2>1
<1> QED
  BY <1>1, <1>2, <1>3, <1>4, OtherLetters

\* News of a success, once they are published, wait for the worker.
LEMMA PublishWaits ==
  ASSUME TypeOK, Lettered, NEW t \in Told, NEW p \in Pipeline \cup {Source}, NEW s \in Nat,
         NEW good \in BOOLEAN, Publish(t, p, s, good), UNCHANGED handler,
         UNCHANGED rows, NEW c, c.id = s, News(t, c)
  PROVE  good => Waiting(c)'
<1>1. t \in Topic
  BY DEF Told, Topic
<1>2. PICK k \in Message : k.id = sent + 1 /\ k.subject = s /\ k.good = good /\ InQueue(t, k)'
  BY <1>1, PublishLetters
<1>3. runner' = runner
  BY DEF rows
<1>4. ~AlreadyTriggered(k)'
  <2>1. \A r \in DOMAIN runner : runner[r].ref <= sent /\ runner[r].ref \in Nat
    BY RunnerFacts DEF Lettered, Numbered, TypeOK, Runner
  <2>2. \A r \in DOMAIN runner : runner[r].ref # sent + 1
    BY <2>1 DEF TypeOK, QueueOK
  <2> QED
    BY <1>2, <1>3, <2>2 DEF AlreadyTriggered
<1>5. good => Waits(t, k, c)'
  BY <1>2, <1>4 DEF Waits
<1>6. News(t, c)'
  BY <1>3 DEF News
<1> QED
  BY <1>5, <1>6 DEF Waiting

\* What succeeds is told of.
LEMMA HappensStep ==
  ASSUME TypeOK, Automatic, Grounded, Lettered, Steered, [Next]_vars, NEW c \in Cause,
         ~Happened(c), Happened(c)'
  PROVE  Waiting(c)' \/ \E t \in Topic : On(t, c)'
<1>0. Grown /\ sent \in Nat
  BY NextRows DEF TypeOK, QueueOK
<1>1. ASSUME NEW t \in Told, NEW p \in Pipeline \cup {Source}, NEW s \in Nat, NEW good \in BOOLEAN,
             Publish(t, p, s, good), UNCHANGED handler, UNCHANGED rows, c.id = s, News(t, c)
      PROVE  good => Waiting(c)'
  BY <1>1, PublishWaits
<1>2. CASE c.kind = "build"
  <2>1. c.id \in Nat /\ builds \in Nat /\ c.id \in 1 .. builds' /\ c.id \notin 1 .. builds
    BY <1>2 DEF Happened, TypeOK, ClusterOK, Cause
  <2>2. builds' # builds
    BY <2>1
  <2>3. BuildSucceeds
    BY <2>2 DEF Next, Cluster, StageEnds, AppHealthy, Resend, Take, Redeliver, Handle, Skip,
       Create, SubmitStage, Release, SubmitFails, HandleCiSuccess, ReportStage, SaveCopies,
       FetchApp, CheckApp, SaveTimeline, RecheckApp, WriteStatus, RetryStage, SyncByCron, UserTriggers,
       Crash, vars, cluster
  <2>4. PICK n \in Nat : n = builds + 1
    BY <2>1
  <2>5. Publish("ci", Source, n, TRUE) /\ UNCHANGED handler /\ UNCHANGED rows /\ builds' = n
    BY <2>3, <2>4 DEF BuildSucceeds
  <2>6. c.id = n
    BY <2>1, <2>4, <2>5
  <2>7. "ci" \in Told /\ News("ci", c)
    BY <1>2 DEF Told, News
  <2> QED
    BY <1>1, <2>5, <2>6, <2>7
<1>3. CASE c.kind = "runner"
  <2>1. PICK r \in DOMAIN runner' :
          /\ r = c.id
          /\ IF runner'[r].stage = "DEPLOY" THEN runner'[r].healthy > 0 ELSE r \in succeeded'
    BY <1>3 DEF Happened
  <2>2. c = [kind |-> "runner", id |-> r]
    BY <1>3, <2>1 DEF Cause
  <2>3. r \in DOMAIN runner
    <3>1. ASSUME NEW w \in Worker, Create(w) PROVE r \in DOMAIN runner
      <4>1. PICK q \in Request, rest \in Seq(Request), n \in Nat :
               DOMAIN runner' = DOMAIN runner \cup {n} /\ runner'[n].healthy = 0
        BY <3>1, CreatesRun
      <4>2. succeeded' = succeeded
        BY <3>1 DEF Create, cluster
      <4>3. succeeded \subseteq DOMAIN runner
        BY DEF TypeOK, ClusterOK
      <4>4. ~(0 > 0)
        OBVIOUS
      <4> QED
        BY <2>1, <4>1, <4>2, <4>3, <4>4
    <3>2. ASSUME NEW x \in DOMAIN runner, RetryStage(x) PROVE r \in DOMAIN runner
      <4>1. PICK n \in Nat :
               /\ DOMAIN runner' = DOMAIN runner \cup {n}
               /\ runner'[n].stage = runner[x].stage /\ runner[x].stage # "DEPLOY"
        BY <3>2, RetriesRun
      <4>2. succeeded' = succeeded
        BY <3>2 DEF RetryStage
      <4>3. succeeded \subseteq DOMAIN runner
        BY DEF TypeOK, ClusterOK
      <4> QED
        BY <2>1, <4>1, <4>2, <4>3
    <3> QED
      BY <3>1, <3>2, NextRows
  <2>4. runner'[r].stage = runner[r].stage
    BY <1>0, <2>3 DEF Grown
  <2>5. IF runner[r].stage = "DEPLOY" THEN ~(runner[r].healthy > 0) ELSE r \notin succeeded
    BY <1>3, <2>1, <2>3 DEF Happened
  <2>6. CASE runner[r].stage # "DEPLOY"
    <3>1. succeeded' # succeeded
      BY <2>1, <2>4, <2>5, <2>6
    <3>2. \/ \E x \in running, good \in BOOLEAN : StageEnds(x, good)
          \/ \E p \in Pipeline : AppHealthy(p)
      BY <3>1 DEF Next, Cluster, BuildSucceeds, Resend, Take, Redeliver, Handle, Skip,
         Create, SubmitStage, Release, SubmitFails, HandleCiSuccess, ReportStage, SaveCopies,
         FetchApp, CheckApp, SaveTimeline, RecheckApp, WriteStatus, RetryStage, SyncByCron, UserTriggers,
         Crash, vars, cluster
    <3>3. ASSUME NEW p \in Pipeline, AppHealthy(p) PROVE FALSE
      <4>1. PICK x \in Nat : x = app[p].subject
        BY DEF TypeOK, ClusterOK, Rows, RowsOK
      <4>2. x # 0 /\ succeeded' = succeeded \cup {x}
        BY <3>3, <4>1 DEF AppHealthy
      <4>3. app[p].healthy \in BOOLEAN
        BY DEF TypeOK, ClusterOK
      <4>4. runner[x].stage = "DEPLOY"
        BY <4>1, <4>2, <4>3 DEF Grounded, Deployed, DeployNews
      <4> QED
        BY <2>1, <2>4, <2>5, <2>6, <4>2, <4>4
    <3>4. PICK x \in running, good \in BOOLEAN : StageEnds(x, good)
      BY <3>2, <3>3
    <3>5. x = r /\ good
      BY <2>1, <2>4, <2>5, <2>6, <3>4 DEF StageEnds
    <3>6. Publish("stage", PipelineOf(r), r, good) /\ UNCHANGED handler /\ UNCHANGED rows
      BY <3>4, <3>5 DEF StageEnds
    <3>7. PipelineOf(r) \in Pipeline \cup {Source} /\ r \in Nat
      BY <2>3, RunnerFacts DEF TypeOK
    <3>8. News("stage", c) /\ "stage" \in Told
      BY <2>2, <2>6 DEF News, Told
    <3> QED
      BY <1>1, <2>1, <3>5, <3>6, <3>7, <3>8
  <2>7. CASE runner[r].stage = "DEPLOY"
    <3>1. runner'[r].healthy # runner[r].healthy
      BY <2>1, <2>4, <2>5, <2>7
    <3>2. PICK w \in Worker : SaveTimeline(w)
      BY <2>3, <3>1, HealthyKept
    <3>3. PICK x \in DOMAIN runner :
             /\ x = handler[w].subject /\ w \in Observer
             /\ \A y \in DOMAIN runner \ {x} : runner'[y].healthy = runner[y].healthy
             /\ handler'[w].subject = x
      BY <3>2, SavesPast
    <3>4. x = r
      BY <2>3, <3>1, <3>3
    <3>5. PICK h \in Handler : h = handler[w] /\ Steady(w, h)
      BY <3>2, NowSteady
    <3>6. h.good /\ handler' = [handler EXCEPT ![w].pc = "recheck"]
      BY <3>2, <3>5 DEF SaveTimeline, Steady, At
    <3>7. handler'[w] = [h EXCEPT !.pc = "recheck"]
      BY <3>5, <3>6 DEF TypeOK, HandlersOK
    <3>8. handler'[w].pc = "recheck" /\ handler'[w].good
      BY <3>6, <3>7 DEF Handler
    <3>9. CauseOf(w)' = c
      BY <2>2, <3>3, <3>4 DEF CauseOf, Observer
    <3> QED
      BY <2>2, <3>3, <3>4, <3>8, <3>9 DEF On, Past, Found, At, Observer, Told, Topic
  <2> QED
    BY <2>6, <2>7
<1> QED
  BY <1>2, <1>3 DEF Happened

\* Each success is pursued until all that is due was asked for.
LEMMA NextPursued ==
  ASSUME TypeOK, Automatic, Grounded, Lettered, Steered, Thorough, Pursued, [Next]_vars
  PROVE  Pursued'
<1> SUFFICES ASSUME NEW c \in Cause, Happened(c)', c \notin lost'
             PROVE  Followed(c)' \/ Waiting(c)' \/ \E t \in Topic : On(t, c)'
  BY DEF Pursued
<1>1. CASE Happened(c)
  <2>1. Grown
    BY NextRows
  <2>2. lost \subseteq lost'
    BY DEF Next, Cluster, BuildSucceeds, StageEnds, AppHealthy, Resend, Take, Redeliver, Handle,
       Skip, Create, SubmitStage, Release, SubmitFails, HandleCiSuccess, ReportStage, SaveCopies,
       FetchApp, CheckApp, SaveTimeline, RecheckApp, WriteStatus, RetryStage, SyncByCron, UserTriggers,
       Crash, vars
  <2>3. c.kind \in {"build", "runner"} /\ Known(c)
    BY <1>1 DEF Happened, Known
  <2>4. Followed(c) \/ Waiting(c) \/ \E t \in Topic : On(t, c)
    BY <1>1, <2>2 DEF Pursued
  <2>5. CASE Followed(c)
    BY <2>1, <2>3, <2>5, CoversStays
  <2>6. CASE Waiting(c)
    BY <2>3, <2>6, WaitingStep
  <2>7. ASSUME NEW t \in Topic, On(t, c)
        PROVE  Followed(c)' \/ Waiting(c)' \/ On(t, c)'
    BY <2>7, OnStep
  <2> QED
    BY <2>4, <2>5, <2>6, <2>7
<1>2. CASE ~Happened(c)
  BY <1>2, HappensStep
<1> QED
  BY <1>1, <1>2

\* At first nothing has succeeded, and nobody triggers anything.
LEMMA InitPursued == Init => Thorough /\ Pursued
<1> SUFFICES ASSUME Init PROVE Thorough /\ Pursued
  OBVIOUS
<1>1. \A w \in Topic : ~Triggers(w)
  BY IdleTyped DEF Init, Triggers, Worker
<1>2. \A c \in Cause : ~Happened(c)
  BY DEF Init, Happened
<1> QED
  BY <1>1, <1>2 DEF Thorough, Pursued

\* When nothing is under way any more, nothing is left to be pursued.
LEMMA RestFollowed ==
  ASSUME TypeOK, Pursued
  PROVE  EverySuccessIsFollowedUp
<1> SUFFICES ASSUME AtRest PROVE EverySuccessIsFollowedUp
  BY DEF EverySuccessIsFollowedUp
<1>1. \A t \in Topic : DOMAIN queue[t] = {} /\ At(t, "idle")
  BY DEF AtRest, Worker
<1>2. ASSUME NEW c \in Cause, Happened(c), c \notin lost
      PROVE  Followed(c)
  <2>1. ~Waiting(c)
    BY <1>1 DEF Waiting, Waits, InQueue, Told, Topic
  <2>2. \A t \in Topic : ~On(t, c)
    BY <1>1 DEF On, Past, Found, Triggers, At
  <2> QED
    BY <1>2, <2>1, <2>2 DEF Pursued
<1>3. ASSUME NEW p \in Pipeline, NEW s \in {"PRE", "DEPLOY", "POST"}, P!IsAutomatic(p, s),
             NEW n \in 1 .. builds,
             P!Follows(Source, "BUILD", p, s), [kind |-> "build", id |-> n] \notin lost
      PROVE  FollowedUp([kind |-> "build", id |-> n], p, s)
  <2>1. PICK c : c = [kind |-> "build", id |-> n]
    OBVIOUS
  <2>2. c \in Cause /\ c.kind = "build" /\ c.id = n
    <3>1. n \in Nat
      BY DEF TypeOK, ClusterOK
    <3> QED
      BY <2>1, <3>1 DEF Cause
  <2>3. Followed(c)
    BY <1>2, <1>3, <2>1, <2>2 DEF Happened
  <2>4. Due(c, p, s)
    BY <1>3, <2>2 DEF Due
  <2>5. Met(c, p, s) /\ ~DeployedBefore(c)
    BY <2>2, <2>3, <2>4 DEF Followed, Stage, DeployedBefore
  <2> QED
    BY <2>1, <2>5 DEF Met
<1>4. ASSUME NEW p \in Pipeline, NEW s \in {"PRE", "DEPLOY", "POST"}, P!IsAutomatic(p, s),
             NEW r \in succeeded, P!Follows(PipelineOf(r), runner[r].stage, p, s),
             runner[r].stage = "DEPLOY" => runner[r].healthy > 0,
             [kind |-> "runner", id |-> r] \notin lost
      PROVE  \/ FollowedUp([kind |-> "runner", id |-> r], p, s)
             \/ runner[r].stage = "PRE" /\ RunnersOf(runner[r].workflow, "DEPLOY") # {}
  <2>1. PICK c : c = [kind |-> "runner", id |-> r]
    OBVIOUS
  <2>2. c \in Cause /\ c.kind = "runner" /\ c.id = r /\ r \in DOMAIN runner
    <3>1. r \in DOMAIN runner /\ r \in Nat
      BY RunnerFacts DEF TypeOK, ClusterOK
    <3> QED
      BY <2>1, <3>1 DEF Cause
  <2>3. Happened(c)
    BY <1>4, <2>2 DEF Happened
  <2>4. Followed(c)
    BY <1>2, <1>4, <2>1, <2>2, <2>3
  <2>5. Due(c, p, s)
    BY <1>4, <2>2 DEF Due
  <2>6. Met(c, p, s)
    BY <2>4, <2>5 DEF Followed, Stage
  <2> QED
    BY <2>1, <2>2, <2>6 DEF Met, DeployedBefore
<1> QED
  BY <1>3, <1>4 DEF EverySuccessIsFollowedUp

\* Everything that succeeds is followed up: when no message, worker, pod or
\* synchronisation is under way any more, what a build, a stage or a deployment with a
\* timeline triggers automatically was triggered, unless an error or a crash cut it off
\* or a newer release came between the timeline and the second look at the release
\* counter (the callbacks of WorkflowEventProcessorService, the handlers of
\* WorkflowDagExecutor, UpdateDeploymentStatusForGitOpsPipelines).
THEOREM SuccessesFollowedUp == DistinctChildren => (Spec => []EverySuccessIsFollowedUp)
<1> SUFFICES ASSUME DistinctChildren PROVE Spec => []EverySuccessIsFollowedUp
  OBVIOUS
<1> DEFINE Inv == Sound /\ Lettered /\ Thorough /\ Pursued
<1>1. Init => Inv
  <2> SUFFICES ASSUME Init PROVE Inv
    OBVIOUS
  <2>1. Automatic
    BY IdleTyped DEF Init, Automatic, AutoTodo
  <2> QED
    BY <2>1, InitTyped, InitGrounded, InitOnceInv, InitLettered, InitPursued DEF Sound
<1>2. Inv /\ [Next]_vars => Inv'
  <2> SUFFICES ASSUME Inv, [Next]_vars PROVE Inv'
    OBVIOUS
  <2>1. Sound'
    BY NextTyped, NextAuto, NextGrounded, NextOnceInv DEF Sound
  <2>2. Lettered'
    BY NextLettered DEF Sound
  <2>3. Thorough' /\ Pursued'
    BY NextThorough, NextPursued DEF Sound, OnceInv
  <2> QED
    BY <2>1, <2>2, <2>3
<1>3. Inv => EverySuccessIsFollowedUp
  BY RestFollowed DEF Sound
<1> QED
  BY <1>1, <1>2, <1>3, PTL DEF Spec

-----------------------------------------------------------------------------
(* The deployment that is on the cluster *)

\* A deployment has timelines once it is healthy on the cluster, and it gets there
\* after it was made.
Proven == \A r \in DOMAIN runner :
  /\ runner[r].stage = "DEPLOY" /\ runner[r].healthy > 0 => r \in succeeded
  /\ (\E w \in Worker : Makes(w, r)) => r \notin succeeded

\* What an application runs: a deployment that was released and not superseded.
Live(p, r) ==
  /\ r \in DOMAIN runner /\ PipelineOf(r) = p /\ runner[r].stage = "DEPLOY"
  /\ runner[r].status \in {"Progressing", "Succeeded"} /\ ~runner[r].failed
  /\ \A w \in Worker : ~Makes(w, r)
Released == \A p \in Pipeline, r \in Nat \ {0} : app[p].subject = r => Live(p, r)

\* A release: the deployment becomes what the application runs.
Releases(w, p, r) ==
  /\ Release(w) /\ Makes(w, r) /\ r \in DOMAIN runner /\ ~runner[r].failed
  /\ PipelineOf(r) = p /\ runner[r].stage = "DEPLOY"
  /\ app'[p].subject = r /\ app'[p].healthy = FALSE /\ override'[p] = r
  /\ runner'[r].status = "Progressing"

LEMMA ReleaseSets ==
  ASSUME TypeOK, NEW w \in Worker, Release(w), NEW p \in Pipeline
  PROVE  \/ app'[p] = app[p] /\ override'[p] = override[p]
         \/ \E r \in DOMAIN runner : Releases(w, p, r)
<1>1. PICK r \in DOMAIN runner : r = handler[w].made
  BY HandlerFacts DEF TypeOK, HandlerOK, Release, At
<1>2. CASE runner[r].failed
  BY <1>1, <1>2 DEF Release
<1>3. CASE ~runner[r].failed
  <2>1. PICK q \in Pipeline : q = PipelineOf(r)
    BY RunnerFacts DEF TypeOK
  <2>2. /\ override' = [override EXCEPT ![q] = r]
        /\ app' = [app EXCEPT ![q] = [subject |-> r, healthy |-> FALSE]]
    BY <1>1, <1>3, <2>1 DEF Release
  <2>3. CASE p # q
    BY <2>2, <2>3 DEF TypeOK, ClusterOK, RowsOK
  <2>4. CASE p = q
    <3>1. app'[p] = [subject |-> r, healthy |-> FALSE] /\ override'[p] = r
      BY <2>2, <2>4 DEF TypeOK, ClusterOK, RowsOK
    <3>2. app'[p].subject = r /\ app'[p].healthy = FALSE
      BY <3>1
    <3>3. Makes(w, r) /\ runner[r].stage = "DEPLOY"
      BY <1>1 DEF Release, Makes
    <3>4. PICK x \in Runner : x = runner[r]
      BY RunnerFacts DEF TypeOK
    <3>5. runner'[r] = [x EXCEPT !.status = "Progressing"]
      BY <1>1, <1>3, <3>4 DEF Release
    <3>6. runner'[r].status = "Progressing"
      BY <3>4, <3>5, FieldsWritten
    <3> QED
      BY <1>3, <2>1, <2>4, <3>1, <3>2, <3>3, <3>6 DEF Releases
  <2> QED
    BY <2>3, <2>4
<1> QED
  BY <1>2, <1>3

\* An application changes when it becomes healthy and when it gets a new deployment.
LEMMA AppStep ==
  ASSUME TypeOK, [Next]_vars, NEW p \in Pipeline
  PROVE  \/ app'[p] = app[p]
         \/ AppHealthy(p) /\ app'[p].subject = app[p].subject
         \/ \E w \in Worker, r \in DOMAIN runner : Releases(w, p, r)
<1>1. CASE UNCHANGED app
  BY <1>1
<1>2. ASSUME NEW w \in Worker, Release(w)
      PROVE  app'[p] = app[p] \/ \E r \in DOMAIN runner : Releases(w, p, r)
  BY <1>2, ReleaseSets
<1>3. ASSUME NEW q \in Pipeline, AppHealthy(q)
      PROVE  app'[p] = app[p] \/ (AppHealthy(p) /\ app'[p].subject = app[p].subject)
  <2>1. app' = [app EXCEPT ![q].healthy = TRUE]
    BY <1>3 DEF AppHealthy
  <2>2. CASE p # q
    BY <2>1, <2>2 DEF TypeOK, ClusterOK
  <2>3. CASE p = q
    <3>1. app'[p] = [app[p] EXCEPT !.healthy = TRUE]
      BY <2>1, <2>3 DEF TypeOK, ClusterOK
    <3>2. app[p] \in [subject: Rows(runner), healthy: BOOLEAN]
      BY DEF TypeOK, ClusterOK
    <3>3. app'[p].subject = app[p].subject
      BY <3>1, <3>2
    <3> QED
      BY <1>3, <2>3, <3>3
  <2> QED
    BY <2>2, <2>3
<1> QED
  BY <1>1, <1>2, <1>3 DEF Next, Cluster, BuildSucceeds, StageEnds, Resend, Take, Redeliver, Handle,
     Skip, Create, SubmitStage, SubmitFails, HandleCiSuccess, ReportStage, SaveCopies,
     FetchApp, CheckApp, SaveTimeline, RecheckApp, WriteStatus, RetryStage, SyncByCron, UserTriggers,
     Crash, vars, cluster

\* An override is saved for the deployment that is being made.
LEMMA OverrideStep ==
  ASSUME TypeOK, [Next]_vars, NEW p \in Pipeline, NEW r, override'[p] = r
  PROVE  override[p] = r \/ \E w \in Worker : Makes(w, r)
<1>1. CASE UNCHANGED override
  BY <1>1
<1>2. ASSUME NEW w \in Worker, Release(w)
      PROVE  override[p] = r \/ Makes(w, r)
  BY <1>2, ReleaseSets DEF Releases
<1>3. ASSUME NEW w \in Worker, SubmitFails(w)
      PROVE  override[p] = r \/ Makes(w, r)
  <2>1. UNCHANGED override \/ override' = [override EXCEPT ![PipelineOf(handler[w].made)] = handler[w].made]
    BY <1>3 DEF SubmitFails
  <2>2. override[p] = r \/ handler[w].made = r
    BY <2>1 DEF TypeOK, RowsOK
  <2> QED
    BY <1>3, <2>2 DEF SubmitFails, Makes
<1> QED
  BY <1>1, <1>2, <1>3 DEF Next, Cluster, BuildSucceeds, StageEnds, AppHealthy, Resend, Take,
     Redeliver, Handle, Skip, Create, SubmitStage, HandleCiSuccess, ReportStage, SaveCopies,
     FetchApp, CheckApp, SaveTimeline, RecheckApp, WriteStatus, RetryStage, SyncByCron, UserTriggers,
     Crash, vars, rows

\* What comes to succeed ends on the cluster or is found healthy there.
LEMMA SucceedsStep ==
  ASSUME TypeOK, [Next]_vars, NEW r \in succeeded', r \notin succeeded
  PROVE  \/ r \in running
         \/ \E p \in Pipeline : AppHealthy(p) /\ app[p].subject = r
<1>1. CASE UNCHANGED succeeded
  BY <1>1
<1>2. ASSUME NEW x \in running, NEW good \in BOOLEAN, StageEnds(x, good)
      PROVE  r \in running
  BY <1>2 DEF StageEnds
<1>3. ASSUME NEW p \in Pipeline, AppHealthy(p)
      PROVE  app[p].subject = r
  BY <1>3 DEF AppHealthy
<1> QED
  BY <1>1, <1>2, <1>3 DEF Next, Cluster, BuildSucceeds, Resend, Take, Redeliver, Handle,
     Skip, Create, SubmitStage, Release, SubmitFails, HandleCiSuccess, ReportStage, SaveCopies,
     FetchApp, CheckApp, SaveTimeline, RecheckApp, WriteStatus, RetryStage, SyncByCron, UserTriggers,
     Crash, vars, cluster

\* A timeline is saved of what is healthy on the cluster.
LEMMA NextProven ==
  ASSUME TypeOK, Automatic, Grounded, Steered, MadeOnce, Released, Proven, [Next]_vars
  PROVE  Proven'
<1> SUFFICES ASSUME NEW r \in DOMAIN runner'
             PROVE  /\ runner'[r].stage = "DEPLOY" /\ runner'[r].healthy > 0 => r \in succeeded'
                    /\ (\E w \in Worker : Makes(w, r)') => r \notin succeeded'
  BY DEF Proven
<1>0. Grown /\ succeeded \subseteq DOMAIN runner
  BY NextRows DEF TypeOK, ClusterOK
<1>1. CASE r \in DOMAIN runner
  <2>1. runner'[r].stage = runner[r].stage /\ succeeded \subseteq succeeded'
    BY <1>0, <1>1 DEF Grown
  <2>2. ASSUME runner'[r].stage = "DEPLOY", runner'[r].healthy > 0
        PROVE  r \in succeeded'
    <3>1. CASE runner'[r].healthy = runner[r].healthy
      BY <1>1, <2>1, <2>2, <3>1 DEF Proven
    <3>2. CASE runner'[r].healthy # runner[r].healthy
      <4>1. PICK w \in Worker : SaveTimeline(w) /\ handler[w].subject = r
        BY <1>1, <3>2, NextWrites DEF Written
      <4>2. PICK h \in Handler :
               /\ h = handler[w]
               /\ h.pc \in {"check", "timeline", "recheck", "status"} => DeployNews(h.subject, h.good)
        BY KnownSubject DEF Grounded
      <4>3. PICK g \in Handler : g = handler[w] /\ Steady(w, g)
        BY NowSteady
      <4>4. h.pc = "timeline" /\ h.good
        BY <4>1, <4>2, <4>3 DEF SaveTimeline, At, Steady
      <4> QED
        BY <2>1, <4>1, <4>2, <4>4 DEF DeployNews
    <3> QED
      BY <3>1, <3>2
  <2>3. ASSUME NEW w \in Worker, Makes(w, r)'
        PROVE  r \notin succeeded'
    <3>1. Makes(w, r)
      BY <1>1, <2>3, NextMakes
    <3>2. r \notin succeeded /\ r \notin running
      BY <1>1, <3>1 DEF Proven, MadeOnce
    <3>3. ASSUME NEW p \in Pipeline, AppHealthy(p), app[p].subject = r PROVE FALSE
      <4>1. r \in Nat \ {0}
        BY <1>1, RunnerFacts DEF TypeOK
      <4> QED
        BY <3>1, <3>3, <4>1 DEF Released, Live
    <3> QED
      BY <3>2, <3>3, SucceedsStep
  <2> QED
    BY <2>2, <2>3
<1>2. CASE r \notin DOMAIN runner
  <2>1. ASSUME NEW w \in Worker, Create(w) PROVE runner'[r].healthy = 0 /\ r \notin succeeded'
    <3>1. \E n \in Nat : DOMAIN runner' = DOMAIN runner \cup {n} /\ runner'[n].healthy = 0
      BY <2>1, CreatesRun
    <3>2. succeeded' = succeeded
      BY <2>1 DEF Create, cluster
    <3> QED
      BY <1>0, <1>2, <3>1, <3>2
  <2>2. ASSUME NEW x \in DOMAIN runner, RetryStage(x)
        PROVE  runner'[r].stage # "DEPLOY" /\ r \notin succeeded'
    <3>1. \E n \in Nat : /\ DOMAIN runner' = DOMAIN runner \cup {n}
                         /\ runner'[n].stage = runner[x].stage /\ runner[x].stage # "DEPLOY"
      BY <2>2, RetriesRun
    <3>2. succeeded' = succeeded
      BY <2>2 DEF RetryStage
    <3> QED
      BY <1>0, <1>2, <3>1, <3>2
  <2>3. ~(0 > 0)
    OBVIOUS
  <2> QED
    BY <1>2, <2>1, <2>2, <2>3, NextRows
<1> QED
  BY <1>1, <1>2

\* What an application runs stays what it is.
LEMMA NextReleased ==
  ASSUME TypeOK, Automatic, Grounded, Steered, MadeOnce, Released, [Next]_vars
  PROVE  Released'
<1> SUFFICES ASSUME NEW p \in Pipeline, NEW r \in Nat \ {0}, app'[p].subject = r
             PROVE  Live(p, r)'
  BY DEF Released
<1>0. Grown
  BY NextRows
<1>1. ASSUME r \in DOMAIN runner, PipelineOf(r) = p, runner[r].stage = "DEPLOY"
      PROVE  r \in DOMAIN runner' /\ PipelineOf(r)' = p /\ runner'[r].stage = "DEPLOY"
  BY <1>0, <1>1, RunnerSame DEF Grown, TypeOK
<1>2. ASSUME NEW w \in Worker, NEW x \in DOMAIN runner, Releases(w, p, x)
      PROVE  Live(p, r)'
  <2>1. x = r
    BY <1>2 DEF Releases
  <2>2. r \in DOMAIN runner /\ PipelineOf(r) = p /\ runner[r].stage = "DEPLOY" /\ Makes(w, r)
    BY <1>2, <2>1 DEF Releases
  <2>3. \A v \in Worker : ~Makes(v, r)'
    <3>1. Handle(w)
      BY <1>2 DEF Releases, Handle
    <3> QED
      BY <2>2, <3>1, HandleMakes DEF MadeOnce
  <2>4. runner'[r].status = "Progressing" /\ ~runner[r].failed
    BY <1>2, <2>1 DEF Releases
  <2>5. ~runner'[r].failed
    <3>1. PICK y \in Runner : y = runner[r]
      BY <2>2, RunnerFacts DEF TypeOK
    <3>2. r = handler[w].made
      BY <2>2 DEF Makes
    <3>3. runner'[r] = [y EXCEPT !.status = "Progressing"]
      BY <1>2, <2>2, <2>4, <3>1, <3>2 DEF Releases, Release
    <3> QED
      BY <2>4, <3>1, <3>3, FieldsWritten
  <2> QED
    BY <1>1, <2>2, <2>3, <2>4, <2>5 DEF Live
<1>3. ASSUME app[p].subject = r, \A w \in Worker, x \in DOMAIN runner : ~Releases(w, p, x)
      PROVE  Live(p, r)'
  <2>1. /\ r \in DOMAIN runner /\ PipelineOf(r) = p /\ runner[r].stage = "DEPLOY"
        /\ runner[r].status \in {"Progressing", "Succeeded"} /\ ~runner[r].failed
        /\ \A w \in Worker : ~Makes(w, r)
    BY <1>3 DEF Released, Live
  <2>2. \A w \in Worker : ~Makes(w, r)'
    BY <2>1, NextMakes
  <2>3. ASSUME NEW w \in Worker, ReportStage(w), handler[w].subject = r PROVE FALSE
    <3>1. PICK h \in Handler : h = handler[w] /\ Steady(w, h)
      BY NowSteady
    <3> QED
      BY <2>1, <2>3, <3>1 DEF ReportStage, At, Steady
  <2>4. ASSUME NEW w \in Worker, Release(w), ~runner[handler[w].made].failed,
               r \in Deployments(PipelineOf(handler[w].made))
        PROVE  FALSE
    <3>1. PICK x \in DOMAIN runner : x = handler[w].made
      BY <2>4, HandlerFacts DEF TypeOK, HandlerOK, Release, At
    <3>2. PipelineOf(x) = p
      BY <2>1, <2>4, <3>1 DEF Deployments
    <3>3. PICK y \in DOMAIN runner : Releases(w, p, y) \/ (app'[p] = app[p] /\ override'[p] = override[p])
      BY <2>4, <3>1, ReleaseSets
    <3>4. app'[p].subject = x
      <4>1. app' = [app EXCEPT ![p] = [subject |-> x, healthy |-> FALSE]]
        BY <2>4, <3>1, <3>2 DEF Release
      <4>2. app'[p] = [subject |-> x, healthy |-> FALSE]
        BY <4>1 DEF TypeOK, ClusterOK
      <4> QED
        BY <4>2
    <3>5. Makes(w, r)
      BY <2>4, <3>1, <3>4 DEF Release, Makes
    <3> QED
      BY <2>1, <3>5
  <2>5. ~RetryStage(r)
    BY <2>1 DEF RetryStage
  <2>6. runner'[r].status \in {"Progressing", "Succeeded"} /\ ~runner'[r].failed
    BY <2>1, <2>3, <2>4, <2>5, NextWrites DEF Written
  <2> QED
    BY <1>1, <2>1, <2>2, <2>6 DEF Live
<1> QED
  BY <1>2, <1>3, AppStep

\* A healthy deployment is left alone for a reason, or has been recorded.
Passed(p, r) ==
  \/ override[p] # r
  \/ Cardinality(RunnersOf(runner[r].workflow, "DEPLOY")) # 1
  \/ [kind |-> "runner", id |-> r] \in lost
  \/ r \in overwritten
  \/ runner[r].status = "Succeeded"

\* The worker of the application's events looks at it; they tell of it.
Looks(p, r) ==
  /\ handler["app"].pc \in {"check", "timeline"} /\ handler["app"].subject = r
  /\ handler["app"].good /\ Msg("app").pipeline = p
Tells(m, p, r) ==
  /\ InQueue("app", m) /\ m.subject = r /\ m.good /\ m.pipeline = p /\ ~AlreadyTriggered(m)

\* What is done about it: before its first timeline, and between that and its status.
Recording(p, r) ==
  IF runner[r].healthy > 0 THEN \E w \in Observer : Reporting(w, r)
  ELSE app[p].healthy => Looks(p, r) \/ \E m \in Message : Tells(m, p, r)

HealthInv == \A p \in Pipeline, r \in Nat \ {0} :
  app[p].subject = r => Passed(p, r) \/ Recording(p, r)

\* A reason stays one as long as the application runs the deployment.
LEMMA PassedStays ==
  ASSUME TypeOK, Automatic, Grounded, Steered, Released, [Next]_vars,
         NEW p \in Pipeline, NEW r \in Nat \ {0}, app[p].subject = r, app'[p].subject = r,
         Passed(p, r)
  PROVE  Passed(p, r)'
<1>0. Grown /\ Live(p, r)
  BY NextRows DEF Released
<1>1. CASE override[p] # r
  <2>1. override'[p] # r
    BY <1>0, <1>1, OverrideStep DEF Live
  <2> QED
    BY <2>1 DEF Passed
<1>2. CASE Cardinality(RunnersOf(runner[r].workflow, "DEPLOY")) # 1
  <2>1. PICK wf : wf = runner[r].workflow
    OBVIOUS
  <2>2. r \in DOMAIN runner /\ runner'[r].workflow = wf
    BY <1>0, <2>1 DEF Grown, Live
  <2>3. PICK S : S = RunnersOf(wf, "DEPLOY")
    OBVIOUS
  <2>4. PICK T : T = RunnersOf(wf, "DEPLOY")'
    OBVIOUS
  <2>5. S \subseteq T
    BY <1>0, <2>3, <2>4 DEF RunnersOf, Grown
  <2>6. r \in S
    BY <1>0, <2>1, <2>2, <2>3 DEF RunnersOf, Live
  <2>7. IsFiniteSet(S)
    BY <2>3, RunnersFinite DEF TypeOK
  <2>8. IsFiniteSet(T)
    <3>1. TypeOK'
      BY NextTyped
    <3>2. RowsOK'
      BY <3>1 DEF TypeOK
    <3>3. IsFiniteSet(RunnersOf(wf, "DEPLOY")')
      <4>1. DOMAIN runner' = 1 .. Len(runner') /\ Len(runner') \in Nat
        BY <3>2 DEF RowsOK
      <4>2. IsFiniteSet(1 .. Len(runner'))
        BY <4>1, FS_Interval
      <4>3. RunnersOf(wf, "DEPLOY")' \subseteq 1 .. Len(runner')
        BY <4>1 DEF RunnersOf
      <4> QED
        BY <4>2, <4>3, FS_Subset
    <3> QED
      BY <2>4, <3>3
  <2>9. Cardinality(S) # 1 /\ Cardinality(S) \in Nat
    BY <1>2, <2>1, <2>3, <2>7, FS_CardinalityType
  <2>10. Cardinality(T) # 1
    <3>1. ASSUME Cardinality(T) = 1 PROVE FALSE
      <4>1. Cardinality(S) <= Cardinality(T) /\ (Cardinality(S) = Cardinality(T) => S = T)
        BY <2>5, <2>8, FS_Subset
      <4>2. Cardinality(S) = 0
        BY <2>9, <3>1, <4>1
      <4>3. S = {}
        BY <2>7, <4>2, FS_EmptySet
      <4> QED
        BY <2>6, <4>3
    <3> QED
      BY <3>1
  <2>11. Cardinality(RunnersOf(runner[r].workflow, "DEPLOY"))' # 1
    <3>1. RunnersOf(runner[r].workflow, "DEPLOY")' = RunnersOf(wf, "DEPLOY")'
      BY <2>2 DEF RunnersOf
    <3> QED
      BY <2>4, <2>10, <3>1
  <2> QED
    BY <2>11 DEF Passed
<1>3. CASE [kind |-> "runner", id |-> r] \in lost \/ r \in overwritten
  <2>1. lost \subseteq lost' /\ overwritten \subseteq overwritten'
    BY DEF Next, Cluster, BuildSucceeds, StageEnds, AppHealthy, Resend, Take, Redeliver, Handle,
       Skip, Create, SubmitStage, Release, SubmitFails, HandleCiSuccess, ReportStage, SaveCopies,
       FetchApp, CheckApp, SaveTimeline, RecheckApp, WriteStatus, RetryStage, SyncByCron, UserTriggers,
       Crash, vars
  <2> QED
    BY <1>3, <2>1 DEF Passed
<1>4. CASE runner[r].status = "Succeeded"
  <2>1. /\ r \in DOMAIN runner /\ runner[r].stage = "DEPLOY" /\ Terminal(r)
        /\ \A w \in Worker : ~Makes(w, r)
    BY <1>0, <1>4 DEF Live, Terminal
  <2>2. ASSUME NEW w \in Worker, ReportStage(w), handler[w].subject = r PROVE FALSE
    <3>1. PICK h \in Handler : h = handler[w] /\ Steady(w, h)
      BY NowSteady
    <3> QED
      BY <2>1, <2>2, <3>1 DEF ReportStage, At, Steady
  <2>3. ~RetryStage(r)
    BY <2>1 DEF RetryStage
  <2>4. \/ runner'[r].status = "Succeeded"
        \/ \E w \in Worker : WriteStatus(w) /\ handler[w].subject = r /\ ~handler[w].good
    BY <1>4, <2>1, <2>2, <2>3, NextWrites DEF Written
  <2>5. ASSUME NEW w \in Worker, WriteStatus(w), handler[w].subject = r, ~handler[w].good
        PROVE  r \in overwritten'
    BY <2>1, <2>5 DEF WriteStatus
  <2> QED
    BY <2>4, <2>5 DEF Passed
<1> QED
  BY <1>1, <1>2, <1>3, <1>4 DEF Passed

\* News of a healthy application, once they are published, tell of it.
LEMMA PublishTells ==
  ASSUME TypeOK, Lettered, NEW p \in Pipeline, NEW r \in Nat,
         NEW good \in BOOLEAN, Publish("app", p, r, good), UNCHANGED handler, UNCHANGED rows
  PROVE  good => \E m \in Message : Tells(m, p, r)'
<1>1. "app" \in Topic /\ p \in Pipeline \cup {Source}
  BY DEF Topic
<1>2. PICK k \in Message : /\ k.id = sent + 1 /\ k.subject = r /\ k.good = good /\ k.pipeline = p
                           /\ InQueue("app", k)'
  BY <1>1, PublishLetters
<1>3. runner' = runner
  BY DEF rows
<1>4. ~AlreadyTriggered(k)'
  <2>1. \A x \in DOMAIN runner : runner[x].ref <= sent /\ runner[x].ref \in Nat
    BY RunnerFacts DEF Lettered, Numbered, TypeOK, Runner
  <2>2. \A x \in DOMAIN runner : runner[x].ref # sent + 1
    BY <2>1 DEF TypeOK, QueueOK
  <2> QED
    BY <1>2, <1>3, <2>2 DEF AlreadyTriggered
<1> QED
  BY <1>2, <1>4 DEF Tells

\* A worker that has saved the timeline writes the status, unless the process crashes
\* or a newer release comes in between.
LEMMA ReportingStep ==
  ASSUME TypeOK, Steered, [Next]_vars, NEW w \in Observer, NEW r \in DOMAIN runner, Reporting(w, r)
  PROVE  \/ Reporting(w, r)'
         \/ runner'[r].status = "Succeeded"
         \/ [kind |-> "runner", id |-> r] \in lost'
<1>0. w \in Worker /\ w \in Topic /\ w \in {"app", "sync"} /\ ~At(w, "idle")
  BY DEF Worker, Topic, Observer, Reporting, Found, At
<1>1. CASE handler'[w] = handler[w]
  BY <1>1 DEF Reporting, Found, At
<1>2. CASE Handle(w)
  <2>1. WriteStatus(w) \/ RecheckApp(w)
    BY <1>0, <1>2 DEF Reporting, Found, Handle, Skip, Create, SubmitStage, Release, SubmitFails,
       HandleCiSuccess, ReportStage, SaveCopies, FetchApp, CheckApp, SaveTimeline, At
  <2>2. handler[w].good /\ handler[w].subject = r
    BY DEF Reporting, Found
  <2>3. CASE WriteStatus(w)
    <3>1. runner' = [runner EXCEPT ![r].status = "Succeeded"]
      BY <2>2, <2>3 DEF WriteStatus
    <3>2. PICK x \in Runner : x = runner[r]
      BY RunnerFacts DEF TypeOK
    <3>3. runner'[r] = [x EXCEPT !.status = "Succeeded"]
      BY <3>1, <3>2 DEF TypeOK, RowsOK
    <3> QED
      BY <3>3, FieldsWritten
  <2>4. CASE RecheckApp(w)
    <3>1. CauseOf(w) = [kind |-> "runner", id |-> r]
      BY <1>0, <2>2 DEF CauseOf
    <3>2. CASE handler' = [handler EXCEPT ![w] = [handler[w] EXCEPT !.pc = "status"]]
      <4>1. PICK h \in Handler : h = handler[w]
        BY <1>0, HandlerFacts DEF TypeOK
      <4>2. handler'[w] = [h EXCEPT !.pc = "status"]
        BY <1>0, <3>2, <4>1 DEF TypeOK, HandlersOK
      <4>3. handler'[w].pc = "status" /\ handler'[w].good = h.good /\ handler'[w].subject = h.subject
        BY <4>2 DEF Handler
      <4> QED
        BY <2>2, <4>1, <4>3 DEF Reporting, Found
    <3> QED
      BY <2>2, <2>4, <3>1, <3>2 DEF RecheckApp
  <2> QED
    BY <2>1, <2>3, <2>4
<1>3. CASE Crash
  <2>1. InVain(w)
    BY <1>0 DEF InVain, Reporting, Found, At
  <2>2. CauseOf(w) = [kind |-> "runner", id |-> r]
    BY <1>0 DEF CauseOf, Reporting
  <2> QED
    BY <1>0, <1>3, <2>1, <2>2 DEF Crash
<1>4. ASSUME NEW u \in Topic, Take(u) PROVE handler'[w] = handler[w]
  <2>1. PICK k \in Message : At(u, "idle") /\ \A x \in Worker \ {u} : handler'[x] = handler[x]
    BY <1>4, TakeLetters
  <2> QED
    BY <1>0, <2>1
<1> QED
  BY <1>0, <1>1, <1>2, <1>3, <1>4, OtherLetters

\* A worker that saves the timeline goes on to the status.
LEMMA SavesReporting ==
  ASSUME TypeOK, Steered, NEW w \in Worker, SaveTimeline(w), NEW r \in DOMAIN runner,
         handler[w].subject = r
  PROVE  w \in Observer /\ Reporting(w, r)' /\ runner'[r].healthy > 0
<1>1. /\ w \in Observer /\ handler'[w].subject = r
      /\ runner'[r].healthy = runner[r].healthy + 1
  BY SavesPast
<1>2. PICK h \in Handler : h = handler[w] /\ Steady(w, h)
  BY NowSteady
<1>3. h.good /\ handler' = [handler EXCEPT ![w].pc = "recheck"]
  BY <1>2 DEF SaveTimeline, Steady, At
<1>4. handler'[w] = [h EXCEPT !.pc = "recheck"]
  BY <1>2, <1>3 DEF TypeOK, HandlersOK
<1>5. handler'[w].pc = "recheck" /\ handler'[w].good
  BY <1>3, <1>4 DEF Handler
<1>6. runner[r].healthy \in Nat
  BY RunnerFacts DEF TypeOK, Runner
<1>7. runner[r].healthy + 1 > 0
  BY <1>6
<1> QED
  BY <1>1, <1>5, <1>7 DEF Reporting, Found, At

\* A worker that looks at a healthy deployment finds its event valid, unless there is
\* a reason to leave it alone.
LEMMA LooksStep ==
  ASSUME TypeOK, Lettered, Steered, Released, [Next]_vars,
         NEW p \in Pipeline, NEW r \in Nat \ {0}, app[p].subject = r, ~Passed(p, r), ~Passed(p, r)',
         runner[r].healthy = 0, runner'[r].healthy = 0, Looks(p, r)
  PROVE  Looks(p, r)' \/ \E m \in Message : Tells(m, p, r)'
<1>0. "app" \in Topic /\ "app" \in Worker /\ ~At("app", "idle") /\ Live(p, r)
  BY DEF Topic, Worker, Looks, At, Released
<1>1. CASE handler'["app"] = handler["app"]
  BY <1>1 DEF Looks, Msg
<1>2. CASE Handle("app")
  <2>1. CheckApp("app") \/ SaveTimeline("app")
    BY <1>0, <1>2 DEF Looks, Handle, Skip, Create, SubmitStage, Release, SubmitFails,
       HandleCiSuccess, ReportStage, SaveCopies, FetchApp, RecheckApp, WriteStatus, At
  <2>2. CASE CheckApp("app")
    <3>1. r = override[p] /\ Cardinality(RunnersOf(runner[r].workflow, "DEPLOY")) = 1
      BY DEF Passed
    <3>2. ~Terminal(r) /\ ~runner[r].failed
      BY <1>0 DEF Passed, Live, Terminal
    <3>3. IsValid(Msg("app").pipeline, handler["app"].subject)
      BY <3>1, <3>2 DEF IsValid, Looks
    <3>4. handler' = [handler EXCEPT !["app"] = [handler["app"] EXCEPT !.pc = "timeline"]]
      BY <2>2, <3>3 DEF CheckApp, Looks
    <3>5. PICK h \in Handler : h = handler["app"]
      BY <1>0, HandlerFacts DEF TypeOK
    <3>6. handler'["app"] = [h EXCEPT !.pc = "timeline"]
      BY <1>0, <3>4, <3>5 DEF TypeOK, HandlersOK
    <3>7. /\ handler'["app"].pc = "timeline" /\ handler'["app"].subject = h.subject
          /\ handler'["app"].good = h.good /\ handler'["app"].msg = h.msg
      BY <3>6 DEF Handler
    <3> QED
      BY <3>5, <3>7 DEF Looks, Msg
  <2>3. CASE SaveTimeline("app")
    <3>1. handler["app"].subject = r /\ r \in DOMAIN runner
      BY <1>0 DEF Looks, Live
    <3>2. runner'[r].healthy > 0
      BY <1>0, <2>3, <3>1, SavesReporting
    <3> QED
      BY <3>2
  <2> QED
    BY <2>1, <2>2, <2>3
<1>3. CASE Crash
  <2>1. CauseOf("app") = [kind |-> "runner", id |-> r]
    BY DEF CauseOf, Looks
  <2>2. ~InVain("app")
    BY <1>0, <1>3, <2>1 DEF Crash, Passed
  <2>3. ~AlreadyTriggered(Msg("app"))
    BY <1>0, <2>2 DEF InVain
  <2>4. PICK n \in Message :
           InQueue("app", n)' /\ n.id = Msg("app").id /\ (InQueue("app", n) \/ Same(n, Msg("app")))
    BY <1>0, <1>3, CrashLetters
  <2>5. Msg("app") \in Message
    BY <1>0, HandlerFacts DEF TypeOK, Msg
  <2>6. Same(n, Msg("app"))
    <3>1. Carries("app", Msg("app"))
      BY <1>0 DEF Carries
    <3>2. InQueue("app", n) => Carries("app", n)
      BY DEF Carries
    <3> QED
      BY <1>0, <2>4, <2>5, <3>1, <3>2 DEF Lettered, OneMeaning
  <2>7. handler["app"].subject = Msg("app").subject /\ handler["app"].good = Msg("app").good
    BY <1>0 DEF Lettered, Reads
  <2>8. runner' = runner
    BY <1>3 DEF Crash, rows
  <2>9. ~AlreadyTriggered(n)'
    BY <2>3, <2>4, <2>8 DEF AlreadyTriggered
  <2>10. Tells(n, p, r)'
    BY <2>4, <2>6, <2>7, <2>9 DEF Tells, Same, Looks
  <2> QED
    BY <2>10
<1>4. ASSUME NEW u \in Topic, Take(u) PROVE handler'["app"] = handler["app"]
  <2>1. PICK k \in Message : At(u, "idle") /\ \A x \in Worker \ {u} : handler'[x] = handler[x]
    BY <1>4, TakeLetters
  <2> QED
    BY <1>0, <2>1
<1> QED
  BY <1>0, <1>1, <1>2, <1>3, <1>4, OtherLetters

\* News of a healthy application are taken up.
LEMMA TellsStep ==
  ASSUME TypeOK, Automatic, Grounded, Lettered, Observed, Released, [Next]_vars,
         NEW p \in Pipeline, NEW r \in Nat \ {0}, app[p].subject = r, runner[r].healthy = 0,
         NEW m \in Message, Tells(m, p, r)
  PROVE  Looks(p, r)' \/ \E n \in Message : Tells(n, p, r)'
<1>0. "app" \in Topic /\ "app" \in Worker /\ Live(p, r)
  BY DEF Topic, Worker, Released
<1>1. CASE Take("app") /\ m.again /\ AlreadyTriggered(m)
  BY <1>1 DEF Tells
<1>2. CASE Take("app") /\ \E pc \in {"begin", "check"} : pc = "check" /\ handler'["app"] = Taken(pc, m)
  <2>1. handler'["app"] = Taken("check", m)
    BY <1>2
  <2>2. /\ handler'["app"].pc = "check" /\ handler'["app"].subject = m.subject
        /\ handler'["app"].good = m.good /\ handler'["app"].msg = m
    BY <2>1 DEF Taken
  <2> QED
    BY <2>2 DEF Looks, Tells, Msg
<1>3. CASE InQueue("app", m)'
  <2>1. CASE ~AlreadyTriggered(m)'
    BY <1>3, <2>1 DEF Tells
  <2>2. CASE AlreadyTriggered(m)'
    <3>1. Carries("app", m) /\ ~AlreadyTriggered(m)
      BY DEF Tells, Carries
    <3>2. Create("app") /\ Same(Msg("app"), m)
      BY <1>0, <2>2, <3>1, NewlyTriggered
    <3>3. handler["app"].subject = r /\ At("app", "trigger")
      BY <1>0, <3>2 DEF Create, At, Lettered, Reads, Same, Tells
    <3>4. Past("app", r)
      BY <3>3 DEF Past, Found, Triggers, At
    <3>5. runner[r].healthy >= 1
      BY <1>0, <3>4 DEF Observed, Seen, Observer, Live
    <3>6. ~(0 >= 1)
      OBVIOUS
    <3> QED
      BY <3>5, <3>6
  <2> QED
    BY <2>1, <2>2
<1>4. \/ InQueue("app", m)'
      \/ Take("app") /\ m.again /\ AlreadyTriggered(m)
      \/ Take("app") /\ \E pc \in {"begin", "check"} :
           pc = (IF "app" = "app" THEN "check" ELSE "begin") /\ handler'["app"] = Taken(pc, m)
  BY <1>0, MessageKept DEF Tells
<1> QED
  BY <1>1, <1>2, <1>3, <1>4

\* Recording goes on until it is done or there is a reason to leave it.
LEMMA RecordingStep ==
  ASSUME TypeOK, Automatic, Grounded, Lettered, Steered, Observed, Released, [Next]_vars,
         NEW p \in Pipeline, NEW r \in Nat \ {0}, app[p].subject = r,
         app'[p] = app[p] \/ AppHealthy(p),
         ~Passed(p, r), ~Passed(p, r)', Recording(p, r)
  PROVE  Recording(p, r)'
<1>0. r \in DOMAIN runner /\ Live(p, r)
  BY DEF Released, Live
<1>1. runner[r].healthy \in Nat /\ runner'[r].healthy \in Nat /\ runner[r].healthy <= runner'[r].healthy
  BY <1>0, NextRows DEF RowsKept
<1>2. CASE runner[r].healthy > 0
  <2>1. runner'[r].healthy > 0
    BY <1>1, <1>2
  <2>2. PICK w \in Observer : Reporting(w, r)
    BY <1>2 DEF Recording
  <2>3. runner'[r].status # "Succeeded" /\ [kind |-> "runner", id |-> r] \notin lost'
    BY DEF Passed
  <2>4. Reporting(w, r)'
    BY <1>0, <2>2, <2>3, ReportingStep
  <2> QED
    BY <2>1, <2>4 DEF Recording
<1>3. CASE ~(runner[r].healthy > 0) /\ runner'[r].healthy > 0
  <2>1. PICK w \in Worker : SaveTimeline(w) /\ handler[w].subject = r
    <3>1. runner'[r].healthy # runner[r].healthy
      BY <1>3
    <3> QED
      BY <1>0, <3>1, NextWrites DEF Written
  <2>2. w \in Observer /\ Reporting(w, r)'
    BY <1>0, <2>1, SavesReporting
  <2> QED
    BY <1>3, <2>2 DEF Recording
<1>4. CASE ~(runner[r].healthy > 0) /\ ~(runner'[r].healthy > 0)
  <2>1. runner[r].healthy = 0 /\ runner'[r].healthy = 0
    BY <1>1, <1>4
  <2>2. CASE AppHealthy(p)
    <3>1. r \in Nat /\ Publish("app", p, r, TRUE) /\ UNCHANGED handler /\ UNCHANGED rows
      BY <2>2 DEF AppHealthy
    <3>2. \E m \in Message : Tells(m, p, r)'
      BY <3>1, PublishTells
    <3> QED
      BY <1>4, <3>2 DEF Recording
  <2>3. CASE app'[p] = app[p] /\ app[p].healthy
    <3>1. Looks(p, r) \/ \E m \in Message : Tells(m, p, r)
      BY <1>4, <2>3 DEF Recording
    <3>2. Looks(p, r)' \/ \E m \in Message : Tells(m, p, r)'
      BY <2>1, <3>1, LooksStep, TellsStep
    <3> QED
      BY <1>4, <3>2 DEF Recording
  <2>4. CASE app'[p] = app[p] /\ ~app[p].healthy
    BY <1>4, <2>4 DEF Recording
  <2> QED
    BY <2>2, <2>3, <2>4
<1> QED
  BY <1>2, <1>3, <1>4

\* A healthy deployment is on its way to be recorded.
LEMMA NextHealthInv ==
  ASSUME TypeOK, Automatic, Grounded, Lettered, Steered, Observed, MadeOnce, Released, Proven,
         HealthInv, [Next]_vars
  PROVE  HealthInv'
<1> SUFFICES ASSUME NEW p \in Pipeline, NEW r \in Nat \ {0}, app'[p].subject = r, ~Passed(p, r)'
             PROVE  Recording(p, r)'
  BY DEF HealthInv
<1>1. ASSUME app[p].subject = r, app'[p] = app[p] \/ AppHealthy(p)
      PROVE  Recording(p, r)'
  <2>1. ~Passed(p, r)
    BY <1>1, PassedStays
  <2>2. Recording(p, r)
    BY <1>1, <2>1 DEF HealthInv
  <2> QED
    BY <1>1, <2>1, <2>2, RecordingStep
<1>2. ASSUME NEW w \in Worker, NEW x \in DOMAIN runner, Releases(w, p, x)
      PROVE  Recording(p, r)'
  <2>1. x = r /\ app'[p].healthy = FALSE
    BY <1>2 DEF Releases
  <2>2. r \in DOMAIN runner' /\ runner'[r].stage = "DEPLOY"
    <3>1. Grown
      BY NextRows
    <3> QED
      BY <1>2, <2>1, <3>1 DEF Releases, Grown
  <2>3. succeeded' = succeeded /\ r \notin succeeded
    BY <1>2, <2>1 DEF Releases, Release, Proven
  <2>4. Proven'
    BY NextProven
  <2>5. ~(runner'[r].healthy > 0)
    BY <2>2, <2>3, <2>4 DEF Proven
  <2> QED
    BY <2>1, <2>5 DEF Recording
<1> QED
  BY <1>1, <1>2, AppStep

\* At first no application runs anything.
LEMMA InitHealth == Init => Released /\ Proven /\ HealthInv
<1> SUFFICES ASSUME Init PROVE Released /\ Proven /\ HealthInv
  OBVIOUS
<1>1. \A p \in Pipeline : app[p].subject = 0
  BY DEF Init
<1>2. DOMAIN runner = {}
  BY DEF Init
<1> QED
  BY <1>1, <1>2 DEF Released, Proven, HealthInv

\* When nothing is under way any more, it has been recorded.
LEMMA RestRecorded ==
  ASSUME TypeOK, HealthInv
  PROVE  HealthyIsRecorded
<1> SUFFICES ASSUME AtRest, NEW p \in Pipeline, NEW r, r = app[p].subject,
                    r # 0, r = override[p],
                    Cardinality(RunnersOf(runner[r].workflow, "DEPLOY")) = 1,
                    [kind |-> "runner", id |-> r] \notin lost, r \notin overwritten
             PROVE  runner[r].status = "Succeeded"
  BY DEF HealthyIsRecorded
<1>1. r \in Nat \ {0} /\ app[p].healthy
  <2>1. app[p] \in [subject: Rows(runner), healthy: BOOLEAN]
    BY DEF TypeOK, ClusterOK
  <2>2. Rows(runner) \subseteq Nat
    BY DEF TypeOK, RowsOK, Rows
  <2> QED
    BY <2>1, <2>2 DEF AtRest
<1>2. Passed(p, r) \/ Recording(p, r)
  BY <1>1 DEF HealthInv
<1>3. ~Recording(p, r)
  <2>1. \A w \in Worker : At(w, "idle")
    BY DEF AtRest
  <2>2. \A w \in Observer : ~Reporting(w, r)
    BY <2>1 DEF Reporting, Found, At, Observer, Worker, Topic
  <2>3. ~Looks(p, r)
    BY <2>1 DEF Looks, At, Worker, Topic
  <2>4. queue["app"] = <<>>
    BY DEF AtRest, Topic
  <2>5. \A m \in Message : ~Tells(m, p, r)
    BY <2>4 DEF Tells, InQueue
  <2> QED
    BY <1>1, <2>2, <2>3, <2>5 DEF Recording
<1> QED
  BY <1>2, <1>3 DEF Passed

\* A deployment that the cluster reports healthy is recorded as succeeded: when no
\* message, worker, pod or synchronisation is under way any more, the runner that the
\* application of a pipeline runs has that status, unless a crash came between its
\* timeline and its status, a slower worker wrote over it, or it is not the one the
\* events are looked up for (CheckIfPipelineUpdateEventIsValid,
\* UpdatePipelineStatusTimelineForApplicationChanges, UpdateCdWorkflowRunnerByACDObject).
THEOREM HealthyRecorded == DistinctChildren => (Spec => []HealthyIsRecorded)
<1> SUFFICES ASSUME DistinctChildren PROVE Spec => []HealthyIsRecorded
  OBVIOUS
<1> DEFINE Inv == Sound /\ Lettered /\ Released /\ Proven /\ HealthInv
<1>1. Init => Inv
  <2> SUFFICES ASSUME Init PROVE Inv
    OBVIOUS
  <2>1. Automatic
    BY IdleTyped DEF Init, Automatic, AutoTodo
  <2> QED
    BY <2>1, InitTyped, InitGrounded, InitOnceInv, InitLettered, InitHealth DEF Sound
<1>2. Inv /\ [Next]_vars => Inv'
  <2> SUFFICES ASSUME Inv, [Next]_vars PROVE Inv'
    OBVIOUS
  <2>1. Sound'
    BY NextTyped, NextAuto, NextGrounded, NextOnceInv DEF Sound
  <2>2. Lettered'
    BY NextLettered DEF Sound
  <2>3. Released' /\ Proven'
    BY NextReleased, NextProven DEF Sound, OnceInv
  <2>4. HealthInv'
    BY NextHealthInv DEF Sound, OnceInv
  <2> QED
    BY <2>1, <2>2, <2>3, <2>4
<1>3. Inv => HealthyIsRecorded
  BY RestRecorded DEF Sound
<1> QED
  BY <1>1, <1>2, <1>3, PTL DEF Spec
===========================================================================
