---------------------------- MODULE EnforcerCache ----------------------------
(***************************************************************************)
(* The decision cache of the Casbin enforcer (pkg/auth/authorisation/      *)
(* casbin/rbac.go).  Every user has a CacheData: a read-write lock, a      *)
(* counter of the requests in flight and a flag that an invalidation       *)
(* raises.  A request reads the cache under the read lock and counts       *)
(* itself; a miss is decided by Casbin, and the decision is stored unless  *)
(* the flag is up.  The request that brings the counter to zero lowers     *)
(* the flag.                                                               *)
(*                                                                         *)
(* An item stands for a resource, an action and a resource item together.  *)
(* A step here is a critical section of the user's lock, or one call of    *)
(* Casbin, which takes none of these locks.  Whoever changes policies is   *)
(* an Editor; UserAccess puts the handlers of user requests in its place.  *)
(* An editor invalidates the users it changed, unless a panic stops it     *)
(* first or it does not know whom it changed: such a user is owed an       *)
(* invalidation that nobody is about to make.                              *)
(***************************************************************************)
EXTENDS AccessTypes

CONSTANT Editor   \* goroutines that change policies

VARIABLES
  grants,    \* the items Casbin allows each user
  cache,     \* the cached decision about each item, or "none"
  counter,   \* enforceReqCounter
  flag,      \* cacheCleaningFlag
  req,       \* the requests in flight
  edit,      \* the users an editor has still to invalidate
  owed       \* history: users whose policies changed that no editor has in hand

vars == <<grants, cache, counter, flag, req, edit, owed>>

Idle == [pc |-> "idle", user |-> NoUser, items |-> {}, todo |-> {},
         got |-> [i \in Item |-> "none"]]
RequestType == [pc: {"idle", "hit", "miss", "batch"}, user: User \cup {NoUser},
                items: SUBSET Item, todo: SUBSET Item,
                got: [Item -> Verdict \cup {"none"}]]

TypeOK ==
  /\ grants \in [User -> SUBSET Item]
  /\ cache \in [User -> [Item -> Verdict \cup {"none"}]]
  /\ counter \in [User -> Nat]
  /\ flag \in [User -> BOOLEAN]
  /\ req \in [Request \cup Batch -> RequestType]
  /\ edit \in [Editor -> SUBSET User]
  /\ owed \in SUBSET User

Init ==
  /\ grants \in [User -> SUBSET Item]
  /\ cache = [u \in User |-> [i \in Item |-> "none"]]
  /\ counter = [u \in User |-> 0]
  /\ flag = [u \in User |-> FALSE]
  /\ req = [r \in Request \cup Batch |-> Idle]
  /\ edit = [e \in Editor |-> {}]
  /\ owed = {}

InFlight(u) == {r \in Request \cup Batch : req[r].user = u}
\* The policies of the user changed after its last invalidation.
Edited(u) == u \in owed \/ \E e \in Editor : u \in edit[e]

\* Casbin's decision.
enforcerEnforce(u, i) == IF i \in grants[u] THEN "allow" ELSE "deny"

\* What the cache knows of the items.
Lookup(u, items) == [i \in Item |-> IF i \in items THEN cache[u][i] ELSE "none"]

\* The cache after the decisions were merged into the user's entry.
Stored(u, got) ==
  [cache EXCEPT ![u] = [i \in Item |-> IF got[i] \in Verdict THEN got[i] ELSE cache[u][i]]]

(***************************************************************************)
(* A request leaves: it counts itself out, and the last one lowers the     *)
(* flag.  (Slip: any request lowers it.)                                   *)
(***************************************************************************)
LeaveAnyLowers(r) ==
  LET u == req[r].user IN
  /\ counter' = [counter EXCEPT ![u] = @ - 1]
  /\ flag' = [flag EXCEPT ![u] = FALSE]
  /\ req' = [req EXCEPT ![r] = Idle]

Leave(r) ==
  LET u == req[r].user IN
  /\ counter' = [counter EXCEPT ![u] = @ - 1]
  /\ flag' = [flag EXCEPT ![u] = @ /\ counter[u] # 1]
  /\ req' = [req EXCEPT ![r] = Idle]

(***************************************************************************)
(* One decision.                                                           *)
(***************************************************************************)
\* The cache is read and the request counted under the read lock.  (Slip:
\* only a miss is counted.)
enforceFromCacheUncounted(r, u, i) ==
  /\ req[r].pc = "idle"
  /\ req' = [req EXCEPT ![r] = IF cache[u][i] = "none"
                               THEN [Idle EXCEPT !.pc = "miss", !.user = u, !.items = {i}]
                               ELSE [Idle EXCEPT !.pc = "hit", !.user = u]]
  /\ counter' = [counter EXCEPT ![u] = IF cache[u][i] = "none" THEN @ + 1 ELSE @]
  /\ UNCHANGED <<grants, cache, flag, edit, owed>>

enforceFromCache(r, u, i) ==
  /\ req[r].pc = "idle"
  /\ counter' = [counter EXCEPT ![u] = @ + 1]
  /\ req' = [req EXCEPT ![r] = IF cache[u][i] = "none"
                               THEN [Idle EXCEPT !.pc = "miss", !.user = u, !.items = {i}]
                               ELSE [Idle EXCEPT !.pc = "hit", !.user = u]]
  /\ UNCHANGED <<grants, cache, flag, edit, owed>>

enforceHit(r) ==
  /\ req[r].pc = "hit"
  /\ Leave(r)
  /\ UNCHANGED <<grants, cache, edit, owed>>

\* A miss is decided and stored with the lock held.  A policy may change
\* between the decision and the store; that is the change after the store,
\* since a change takes no lock and nothing else can look in between.  A
\* decision that failed is not stored.
enforceAndUpdateCache(r) ==
  /\ req[r].pc = "miss"
  /\ Leave(r)
  /\ LET u == req[r].user
         decided == [i \in Item |-> IF i \in req[r].items THEN enforcerEnforce(u, i)
                                                          ELSE "none"]
     IN  \/ cache' = IF flag[u] THEN cache ELSE Stored(u, decided)
         \/ cache' = cache
  /\ UNCHANGED <<grants, edit, owed>>

(***************************************************************************)
(* A batch of decisions; one batch of a user at a time (batchRequestLock). *)
(* The items the cache does not know are dealt to goroutines in equal      *)
(* slices: a remainder is in no slice.                                     *)
(***************************************************************************)
AtMost(a, b) == IF a <= b THEN a ELSE b
\* (Slip: the loop ends one slice early.)
SlicedShort(n) ==
  IF n = 0 THEN 0 ELSE (AtMost(BatchSize, n) - 1) * (n \div AtMost(BatchSize, n))
Sliced(n) == IF n = 0 THEN 0 ELSE AtMost(BatchSize, n) * (n \div AtMost(BatchSize, n))

batchEnforceFromCache(r, u, items) ==
  /\ req[r].pc = "idle"
  /\ counter' = [counter EXCEPT ![u] = @ + 1]
  /\ \A q \in InFlight(u) : req[q].pc # "batch"
  /\ LET missing == {i \in items : cache[u][i] = "none"}
     IN  \E todo \in SUBSET missing :
           /\ Cardinality(todo) = Sliced(Cardinality(missing))
           /\ req' = [req EXCEPT ![r] = [pc |-> "batch", user |-> u, items |-> items,
                                         todo |-> todo, got |-> Lookup(u, items)]]
  /\ UNCHANGED <<grants, cache, flag, edit, owed>>

\* A goroutine asks Casbin about one item; no lock of the user is held.  An
\* item that failed is left out of the answer.
enforceByEmailInBatchSync(r, i) ==
  /\ req[r].pc = "batch"
  /\ i \in req[r].todo
  /\ LET answer == [req[r].got EXCEPT ![i] = enforcerEnforce(req[r].user, i)]
     IN  \/ req' = [req EXCEPT ![r] = [req[r] EXCEPT !.todo = @ \ {i}, !.got = answer]]
         \/ req' = [req EXCEPT ![r] = [req[r] EXCEPT !.todo = @ \ {i}, !.items = @ \ {i}]]
  /\ UNCHANGED <<grants, cache, counter, flag, edit, owed>>

EnforceByEmailInBatch(r) ==
  /\ req[r].pc = "batch"
  /\ req[r].todo = {}
  /\ Leave(r)
  /\ cache' = IF flag[req[r].user] THEN cache ELSE Stored(req[r].user, req[r].got)
  /\ UNCHANGED <<grants, edit, owed>>

(***************************************************************************)
(* The editors.  Policies change first, the users named in them are        *)
(* invalidated one by one afterwards.  An entry also expires by itself.    *)
(***************************************************************************)
\* A change of policies, of which the editor will invalidate the users us; it
\* changes what others may do as well when Casbin rebuilds or reloads all.
ChangePolicy(e, us, others) ==
  /\ UNCHANGED <<cache, counter, flag, req>>
  /\ edit' = [edit EXCEPT ![e] = @ \cup us]
  /\ owed' = owed \cup others
  /\ grants' \in [User -> SUBSET Item]
  /\ \A u \in User \ (us \cup others) : grants'[u] = grants[u]

\* A panic of Casbin ends the call before anybody is invalidated.
GiveUp(e) ==
  /\ UNCHANGED <<grants, cache, counter, flag, req>>
  /\ edit' = [edit EXCEPT ![e] = {}]
  /\ owed' = owed \cup edit[e]

InvalidateCache(e, u) ==
  /\ UNCHANGED <<grants, counter, req>>
  /\ flag' = [flag EXCEPT ![u] = TRUE]
  /\ cache' = [cache EXCEPT ![u] = [i \in Item |-> "none"]]
  /\ edit' = [edit EXCEPT ![e] = @ \ {u}]
  /\ owed' = owed \ {u}

Expire(u) ==
  /\ \E i \in Item : cache[u][i] # "none"
  /\ UNCHANGED <<grants, counter, flag, req, edit, owed>>
  /\ cache' = [cache EXCEPT ![u] = [i \in Item |-> "none"]]

\* The process restarts: the policies are those of the database, the rest is
\* gone.
Restart ==
  /\ grants' \in [User -> SUBSET Item]
  /\ cache' = [u \in User |-> [i \in Item |-> "none"]]
  /\ counter' = [u \in User |-> 0]
  /\ flag' = [u \in User |-> FALSE]
  /\ req' = [r \in Request \cup Batch |-> Idle]
  /\ edit' = [e \in Editor |-> {}]
  /\ owed' = {}

Enforce ==
  \/ \E r \in Request :
    \/ \E u \in User, i \in Item : enforceFromCache(r, u, i)
    \/ enforceHit(r)
    \/ enforceAndUpdateCache(r)
  \/ \E r \in Batch :
    \/ \E u \in User, items \in Asked : batchEnforceFromCache(r, u, items)
    \/ \E i \in Item : enforceByEmailInBatchSync(r, i)
    \/ EnforceByEmailInBatch(r)

Edit ==
  \E e \in Editor :
    \/ \E us, others \in SUBSET User : ChangePolicy(e, us, others)
    \/ GiveUp(e)
    \/ \E u \in User : InvalidateCache(e, u)

Next == Enforce \/ Edit \/ (\E u \in User : Expire(u)) \/ Restart

Spec == Init /\ [][Next]_vars

(***************************************************************************)
(* Properties.                                                             *)
(***************************************************************************)
\* Once whatever changed has been invalidated, the cache answers as Casbin
\* does: no decision taken before a change is cached after the
\* invalidation that followed it (the flag and the counter of rbac.go).
CacheAgrees ==
  \A u \in User : ~Edited(u) => \A i \in Item : cache[u][i] \in {"none", enforcerEnforce(u, i)}

\* When the goroutines of a batch have ended, fewer of the items asked for are
\* without an answer than there may be goroutines, besides those that failed:
\* the slices are equal, and the rest of the division, which is in none of
\* them, is all that is left out (rbac.go, 214-230).
Unanswered(r) == {i \in req[r].items : req[r].got[i] = "none"}

FewLeftUnanswered ==
  \A r \in Batch :
    req[r].pc = "batch" /\ req[r].todo = {} => Cardinality(Unanswered(r)) < BatchSize

(***************************************************************************)
(* Why CacheAgrees holds: the counter is the number of requests in flight, *)
(* so the flag an invalidation raises stays up until each of them has left *)
(* and a stale decision can only be in the hands of a flagged request.     *)
(***************************************************************************)
CounterIsInFlight == \A u \in User : counter[u] = Cardinality(InFlight(u))

StaleIsFlagged ==
  \A r \in Batch :
    LET u == req[r].user IN
    req[r].pc = "batch" /\ ~Edited(u) /\ ~flag[u] =>
      \A i \in Item : req[r].got[i] \in {"none", enforcerEnforce(u, i)}

IdleHasNoUser == \A r \in Request \cup Batch : req[r].pc = "idle" <=> req[r].user = NoUser

IInv == TypeOK /\ CacheAgrees /\ CounterIsInFlight /\ StaleIsFlagged /\ IdleHasNoUser
=============================================================================
