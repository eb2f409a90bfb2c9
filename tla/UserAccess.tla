------------------------------ MODULE UserAccess ------------------------------
(***************************************************************************)
(* Requests that change what users may do (pkg/auth/user/UserService.go),  *)
(* over the decision cache of module EnforcerCache.                        *)
(*                                                                         *)
(* UpdateUser takes a lock per user and refuses a request that finds it    *)
(* taken; DeleteUser and BulkDeleteUsers take none.  Each changes the rows *)
(* of the user (user_roles, users) in one transaction and, in the middle   *)
(* of it, the policies of Casbin, which are not part of the transaction.   *)
(* Rows that a transaction has deleted or updated are locked until it      *)
(* ends.  A role stands for the item it gives access to.                   *)
(*                                                                         *)
(* Casbin keeps its policies three times: in its table (stored), in the    *)
(* rules of the model in memory (rules) and in the links it decides by     *)
(* (grants).  Which of its two versions runs is read from the environment  *)
(* at the start.  Version 1 writes the rules before the table and panics   *)
(* when the table fails; version 2 writes the table first and returns the  *)
(* error.                                                                  *)
(***************************************************************************)
EXTENDS AccessTypes

CONSTANTS
  Handler,      \* requests that change users and may be served together
  Wanted,       \* the sets of roles that an update may ask for
  FailsAgain,   \* bound: whether Casbin's table may fail again for a user
  MaxServed,    \* bound: how many requests of any kind are served together
  Faults        \* what may go wrong: a subset of {"casbin", "database", "restart"}

ASSUME WantedAssumption == Wanted \subseteq SUBSET Item

VARIABLES
  grants, cache, counter, flag, req, owed,   \* of EnforcerCache
  casbinVersion, \* USE_CASBIN_V2
  rules,         \* the grouping policies in Casbin's model
  stored,        \* the grouping policies in Casbin's table
  roles,         \* user_roles: the committed rows of each user
  active,        \* users.active, as committed
  userReqState,  \* the users an update has locked
  handler,       \* the requests being served
  scar           \* history: what happened to a user that may part rows and policies

cacheVars == <<grants, cache, counter, flag, req, owed>>
casbinVars == <<casbinVersion, rules, stored>>
rowVars == <<roles, active>>
vars == <<cacheVars, casbinVars, rowVars, userReqState, handler, scar>>

\* A handler has to invalidate the user whose policies it changed.
PendingEdit == [h \in Handler |-> IF handler[h].dirty THEN {handler[h].user} ELSE {}]
EC == INSTANCE EnforcerCache WITH Editor <- Handler, edit <- PendingEdit

UpdatePC == {"lock", "load", "apply", "read", "rows", "remove", "add", "row", "commit",
             "reload", "reapply", "unlock"}
Locked == UpdatePC \ {"lock"}
DeletePC == {"dread", "drows", "drow", "droles", "drevoke", "dinvalidate"}
\* From the row of users to the end of the transaction.
RowHeld == {"commit", "droles", "drevoke", "dinvalidate"}
\* From the rows of user_roles to the end of the transaction.
RolesHeld == RowHeld \cup {"remove", "add", "row", "drow"}

\* Policies may have changed in a transaction that has not ended.
InCasbin == {"remove", "add", "row", "commit", "drevoke", "dinvalidate"}

NoSnap == [u \in User |-> {}]
Free == [pc |-> "idle", user |-> NoUser, rows |-> {}, new |-> {}, adds |-> {}, todo |-> {},
         dirty |-> FALSE, snap |-> NoSnap]
HandlerType == [pc: {"idle"} \cup UpdatePC \cup DeletePC, user: User \cup {NoUser},
                rows: SUBSET Item,    \* rows of user_roles to delete
                new: SUBSET Item,     \* rows to insert
                adds: SUBSET Item,    \* policies to add: also of roles already held
                todo: SUBSET Item,    \* policies still to change
                dirty: BOOLEAN,       \* a policy changed since the last invalidation
                snap: [User -> SUBSET Item]]   \* what a reload has read of the table

TypeOK ==
  /\ EC!TypeOK
  /\ casbinVersion \in {"V1", "V2"}
  /\ rules \in [User -> SUBSET Item]
  /\ stored \in [User -> SUBSET Item]
  /\ roles \in [User -> SUBSET Item]
  /\ active \in [User -> BOOLEAN]
  /\ userReqState \in [User -> BOOLEAN]
  /\ handler \in [Handler -> HandlerType]
  /\ scar \in [User -> {"none", "overlap", "torn"}]

Init ==
  /\ handler = [h \in Handler |-> Free]
  /\ roles \in [User -> Wanted]
  /\ EC!Init
  /\ grants = roles
  /\ casbinVersion \in {"V1", "V2"}
  /\ rules = grants
  /\ stored = grants
  /\ active = [u \in User |-> TRUE]
  /\ userReqState = [u \in User |-> FALSE]
  /\ scar = [u \in User |-> "none"]

Serving(u) == {h \in Handler : handler[h].user = u}
Others(h) == Serving(handler[h].user) \ {h}
Updating(u) == {h \in Serving(u) : handler[h].pc \in Locked}
Deleting(u) == {h \in Serving(u) : handler[h].pc \in DeletePC}
\* A request that starts is one of at most MaxServed.
Room == Cardinality({h \in Handler : handler'[h].pc # "idle"} \cup
                    {r \in Request \cup Batch : req'[r].pc # "idle"}) <= MaxServed
\* The worst that happened to the user stays on record.
Scar(u, s) == scar' = [scar EXCEPT ![u] = IF @ = "torn" \/ s = "none" THEN @ ELSE s]
Goto(h, pc) == handler' = [handler EXCEPT ![h].pc = pc]

(***************************************************************************)
(* UpdateUser: the lock.                                                   *)
(***************************************************************************)
\* A request that finds the user locked is answered 409 and does nothing.
UpdateUser(h, u) ==
  /\ handler[h].pc = "idle"
  /\ ~userReqState[u]
  /\ handler' = [handler EXCEPT ![h] = [Free EXCEPT !.pc = "lock", !.user = u]]
  /\ UNCHANGED <<cacheVars, casbinVars, rowVars, userReqState, scar>>
  /\ Room

\* The state is looked at again under the mutex.
\* (Slip: a request that lost unlocks the user on its way out.)
lockUserReqStateUnlocking(h) ==
  LET u == handler[h].user IN
  /\ handler[h].pc = "lock"
  /\ Goto(h, IF userReqState[u] THEN "unlock" ELSE "load")
  /\ userReqState' = [userReqState EXCEPT ![u] = TRUE]
  /\ Scar(u, IF userReqState[u] \/ Deleting(u) = {} THEN "none" ELSE "overlap")
  /\ UNCHANGED <<cacheVars, casbinVars, rowVars>>

lockUserReqState(h) ==
  LET u == handler[h].user IN
  /\ handler[h].pc = "lock"
  /\ IF userReqState[u]
     THEN /\ handler' = [handler EXCEPT ![h] = Free]
          /\ UNCHANGED <<userReqState, scar>>
     ELSE /\ userReqState' = [userReqState EXCEPT ![u] = TRUE]
          /\ Goto(h, "load")
          /\ Scar(u, IF Deleting(u) = {} THEN "none" ELSE "overlap")
  /\ UNCHANGED <<cacheVars, casbinVars, rowVars>>

\* The deferred unlock, after commit or rollback.
unlockUserReqState(h) ==
  /\ handler[h].pc = "unlock"
  /\ userReqState' = [userReqState EXCEPT ![handler[h].user] = FALSE]
  /\ handler' = [handler EXCEPT ![h] = Free]
  /\ UNCHANGED <<cacheVars, casbinVars, rowVars, scar>>

(***************************************************************************)
(* Casbin.  A change of the rules rebuilds the links of everybody; a user  *)
(* changed by it whom h is not about to invalidate is owed that.           *)
(***************************************************************************)
Rebuild(h, new) ==
  /\ rules' = new
  /\ grants' = new
  /\ owed' = owed \cup {u \in User : /\ new[u] # grants[u]
                                     /\ ~(u = handler'[h].user /\ handler'[h].dirty)}

\* What h's user has when policy i of its is added or removed.
With(h, i, adding) ==
  LET u == handler[h].user IN IF adding THEN rules[u] \cup {i} ELSE rules[u] \ {i}
Alters(h, i, adding) == With(h, i, adding) # rules[handler[h].user]

\* A policy that is there, or is not there, is not written again; only a
\* removal of version 2 goes to the table in any case.
GoesToTable(h, i, adding) ==
  Alters(h, i, adding) \/ (casbinVersion = "V2" /\ ~adding)

\* The answer: to add what is there is no success in version 1.  (Slip: an
\* addition never counts.)
SuccessOfRemoval(h, i, adding) == Alters(h, i, adding) /\ ~adding

Success(h, i, adding) == Alters(h, i, adding) \/ (casbinVersion = "V2" /\ adding)

Write(h, i, adding) ==
  LET u == handler[h].user IN
  /\ stored' = [stored EXCEPT ![u] = IF ~GoesToTable(h, i, adding) THEN @
                                     ELSE IF adding THEN @ \cup {i} ELSE @ \ {i}]
  /\ Rebuild(h, [rules EXCEPT ![u] = With(h, i, adding)])
  /\ UNCHANGED <<casbinVersion, scar>>

\* The table fails.  Version 1 has changed its rules by then, and panics before
\* it comes to the links; version 2 has changed nothing.
WriteFails(h, i, adding) ==
  LET u == handler[h].user IN
  /\ "casbin" \in Faults /\ GoesToTable(h, i, adding)
  /\ scar[u] = "torn" => FailsAgain
  /\ rules' = IF casbinVersion = "V1" THEN [rules EXCEPT ![u] = With(h, i, adding)] ELSE rules
  /\ Scar(u, "torn")
  /\ UNCHANGED <<grants, stored, casbinVersion>>

\* UpdateUser reloads the policies before it reads the roles and after its
\* commit.  Version 2 reads the table first and replaces its rules later, with
\* whatever they have become; version 1 does both in one critical section.
ReadTable(h) ==
  /\ casbinVersion = "V2"
  /\ handler[h].pc \in {"load", "reload"}
  /\ handler' = [handler EXCEPT ![h] =
       [handler[h] EXCEPT !.pc = IF @ = "load" THEN "apply" ELSE "reapply", !.snap = stored]]
  /\ UNCHANGED <<cacheVars, casbinVars, rowVars, userReqState, scar>>

LoadPolicy(h) ==
  LET new == IF casbinVersion = "V1" THEN stored ELSE handler[h].snap IN
  /\ handler[h].pc \in IF casbinVersion = "V1" THEN {"load", "reload"} ELSE {"apply", "reapply"}
  /\ handler' = [handler EXCEPT ![h] =
       [handler[h] EXCEPT !.pc = IF @ \in {"load", "apply"} THEN "read" ELSE "unlock",
                 !.snap = NoSnap]]
  /\ Rebuild(h, new)
  /\ scar' = [u \in User |-> IF new[u] # grants[u] THEN "torn" ELSE scar[u]]
  /\ UNCHANGED <<cache, counter, flag, req, casbinVersion, stored, rowVars, userReqState>>

(***************************************************************************)
(* UpdateUser: the rows.                                                   *)
(***************************************************************************)
\* The user's roles as committed, against those the request wants.
ReadRoles(h, wanted) ==
  LET u == handler[h].user IN
  /\ handler[h].pc = "read"
  /\ handler' = [handler EXCEPT ![h] =
       [handler[h] EXCEPT !.pc = "rows", !.rows = roles[u] \ wanted, !.new = wanted \ roles[u],
                 !.adds = wanted, !.todo = roles[u] \ wanted]]
  /\ UNCHANGED <<cacheVars, casbinVars, rowVars, userReqState, scar>>

\* DELETE waits for a transaction that has deleted one of the rows.
DeleteRows(h) ==
  /\ handler[h].pc \in {"rows", "drows"}
  /\ \A o \in Others(h) : handler[o].pc \in RolesHeld => handler[o].rows \cap handler[h].rows = {}
  /\ Goto(h, IF handler[h].pc = "rows" THEN "remove" ELSE "drow")
  /\ UNCHANGED <<cacheVars, casbinVars, rowVars, userReqState, scar>>

\* checkRBACForUserUpdate refuses, or a step on the way to it fails: the
\* transaction rolls back before anything was done in Casbin.  (Slip: the
\* check follows the removal of policies.)
CheckRBACLate(h) ==
  /\ handler[h].pc \in {"load", "read", "rows", "add"}
  /\ Goto(h, "unlock")
  /\ UNCHANGED <<cacheVars, casbinVars, rowVars, userReqState, scar>>

CheckRBAC(h) ==
  /\ handler[h].pc \in {"load", "read", "rows"}
  /\ Goto(h, "unlock")
  /\ UNCHANGED <<cacheVars, casbinVars, rowVars, userReqState, scar>>

(***************************************************************************)
(* UpdateUser: the policies, one by one, then the cache of the user when   *)
(* one of them changed.                                                    *)
(***************************************************************************)
NextLoop(h) == IF handler[h].pc = "remove" THEN "add" ELSE "row"
NextTodo(h) == IF handler[h].pc = "remove" THEN handler[h].adds ELSE {}

\* Version 2 goes on with the other policies when one fails.  The panic of
\* version 1 is recovered in AddPolicy or RemovePolicy: the rest of the loop and
\* the invalidation are skipped, and UpdateUser goes on.
PolicyFails(h, i, adding) ==
  /\ WriteFails(h, i, adding)
  /\ IF casbinVersion = "V2"
     THEN /\ handler' = [handler EXCEPT ![h] = [handler[h] EXCEPT !.todo = @ \ {i}]]
          /\ UNCHANGED owed
     ELSE /\ handler' = [handler EXCEPT ![h] =
                [handler[h] EXCEPT !.pc = NextLoop(h), !.todo = NextTodo(h), !.dirty = FALSE]]
          /\ owed' = owed \cup (IF handler[h].dirty THEN {handler[h].user} ELSE {})

PolicyChanged(h, i, adding) ==
  /\ handler' = [handler EXCEPT ![h] =
       [handler[h] EXCEPT !.todo = @ \ {i}, !.dirty = @ \/ Success(h, i, adding)]]
  /\ Write(h, i, adding)

RemovePolicy(h, i) ==
  /\ handler[h].pc = "remove" /\ i \in handler[h].todo
  /\ PolicyChanged(h, i, FALSE) \/ PolicyFails(h, i, FALSE)
  /\ UNCHANGED <<cache, counter, flag, req, rowVars, userReqState>>

AddPolicy(h, i) ==
  /\ handler[h].pc = "add" /\ i \in handler[h].todo
  /\ PolicyChanged(h, i, TRUE) \/ PolicyFails(h, i, TRUE)
  /\ UNCHANGED <<cache, counter, flag, req, rowVars, userReqState>>

\* The end of RemovePolicy and of AddPolicy.  (Slip: AddPolicy forgets the
\* cache.)
PoliciesDoneUninvalidated(h) ==
  /\ handler[h].pc \in {"remove", "add"} /\ handler[h].todo = {}
  /\ handler' = [handler EXCEPT ![h] =
       [handler[h] EXCEPT !.pc = NextLoop(h), !.todo = NextTodo(h), !.dirty = FALSE]]
  /\ IF handler[h].dirty /\ handler[h].pc = "remove"
     THEN EC!InvalidateCache(h, handler[h].user)
     ELSE UNCHANGED cacheVars
  /\ UNCHANGED <<casbinVars, rowVars, userReqState, scar>>

PoliciesDone(h) ==
  /\ handler[h].pc \in {"remove", "add"} /\ handler[h].todo = {}
  /\ handler' = [handler EXCEPT ![h] =
       [handler[h] EXCEPT !.pc = NextLoop(h), !.todo = NextTodo(h), !.dirty = FALSE]]
  /\ IF handler[h].dirty THEN EC!InvalidateCache(h, handler[h].user)
                         ELSE UNCHANGED cacheVars
  /\ UNCHANGED <<casbinVars, rowVars, userReqState, scar>>

(***************************************************************************)
(* DeleteUser and BulkDeleteUsers.                                         *)
(***************************************************************************)
\* Only an active user is found.
DeleteUser(h, u) ==
  /\ handler[h].pc = "idle"
  /\ active[u]
  /\ handler' = [handler EXCEPT ![h] = [Free EXCEPT !.pc = "dread", !.user = u]]
  /\ Scar(u, IF Updating(u) = {} THEN "none" ELSE "overlap")
  /\ UNCHANGED <<cacheVars, casbinVars, rowVars, userReqState>>
  /\ Room

\* The ids of its mappings.
GetUserRoleMappingIds(h) ==
  /\ handler[h].pc = "dread"
  /\ handler' = [handler EXCEPT ![h] =
       [handler[h] EXCEPT !.pc = "drows", !.rows = roles[handler[h].user]]]
  /\ UNCHANGED <<cacheVars, casbinVars, rowVars, userReqState, scar>>

\* The roles Casbin has for the user by now; when it cannot tell, none is
\* revoked and the deletion goes on.  (Slip: the roles of the rows.)
GetRolesForUserRows(h) ==
  /\ handler[h].pc = "droles"
  /\ handler' = [handler EXCEPT ![h] = [handler[h] EXCEPT !.pc = "drevoke",
                                                 !.todo = handler[h].rows]]
  /\ UNCHANGED <<cacheVars, casbinVars, rowVars, userReqState, scar>>

GetRolesForUser(h) ==
  LET u == handler[h].user IN
  /\ handler[h].pc = "droles"
  /\ \/ /\ handler' = [handler EXCEPT ![h] =
             [handler[h] EXCEPT !.pc = "drevoke", !.todo = grants[u]]]
        /\ UNCHANGED scar
     \/ /\ "casbin" \in Faults
        /\ handler' = [handler EXCEPT ![h] = [handler[h] EXCEPT !.pc = "drevoke", !.todo = {}]]
        /\ Scar(u, "torn")
  /\ UNCHANGED <<cacheVars, casbinVars, rowVars, userReqState>>

\* The panic of version 1 ends the request, whose transaction rolls back.
DeleteRoleForUser(h, i) ==
  /\ handler[h].pc = "drevoke" /\ i \in handler[h].todo
  /\ \/ /\ handler' = [handler EXCEPT ![h] =
             [handler[h] EXCEPT !.pc = "dinvalidate", !.todo = @ \ {i}, !.dirty = TRUE]]
        /\ Write(h, i, FALSE)
     \/ /\ WriteFails(h, i, FALSE)
        /\ handler' = [handler EXCEPT ![h] =
             IF casbinVersion = "V1" THEN Free
             ELSE [handler[h] EXCEPT !.pc = "dinvalidate", !.todo = @ \ {i}]]
        /\ UNCHANGED owed
  /\ UNCHANGED <<cache, counter, flag, req, rowVars, userReqState>>

\* The cache is invalidated after each role, deleted or not.
InvalidateDeleted(h) ==
  /\ handler[h].pc = "dinvalidate"
  /\ handler' = [handler EXCEPT ![h] = [handler[h] EXCEPT !.pc = "drevoke", !.dirty = FALSE]]
  /\ EC!InvalidateCache(h, handler[h].user)
  /\ UNCHANGED <<casbinVars, rowVars, userReqState, scar>>

(***************************************************************************)
(* The row of users, and the end of the transaction.                       *)
(***************************************************************************)
\* UPDATE waits for a transaction that has updated the row.
WriteRow(h) ==
  /\ handler[h].pc \in {"row", "drow"}
  /\ \A o \in Others(h) : handler[o].pc \notin RowHeld
  /\ Goto(h, IF handler[h].pc = "row" THEN "commit" ELSE "droles")
  /\ UNCHANGED <<cacheVars, casbinVars, rowVars, userReqState, scar>>

\* The rows that go are those a handler found by their ids; a row another
\* transaction deleted first is none of them any more.
Commit(h) ==
  LET u == handler[h].user IN
  /\ \/ handler[h].pc = "commit"
     \/ handler[h].pc = "drevoke" /\ handler[h].todo = {}
  /\ roles' = [roles EXCEPT ![u] = (@ \ handler[h].rows) \cup handler[h].new]
  /\ active' = [active EXCEPT ![u] = handler[h].pc = "commit"]
  /\ handler' = [o \in Handler |->
       IF o = h THEN IF handler[h].pc = "commit" THEN [handler[h] EXCEPT !.pc = "reload"] ELSE Free
       ELSE IF o \in Others(h) THEN [handler[o] EXCEPT !.rows = @ \ handler[h].rows]
       ELSE handler[o]]
  /\ UNCHANGED <<cacheVars, casbinVars, userReqState, scar>>

\* An error of the database; what was done in Casbin stays.
Rollback(h) ==
  LET u == handler[h].user IN
  /\ "database" \in Faults
  /\ handler[h].pc \in {"row", "commit", "dread", "drows", "drow", "droles", "drevoke"}
  /\ IF handler[h].pc \in DeletePC
     THEN handler' = [handler EXCEPT ![h] = Free]
     ELSE Goto(h, "unlock")
  /\ Scar(u, IF handler[h].pc \in InCasbin THEN "torn" ELSE "none")
  /\ UNCHANGED <<cacheVars, casbinVars, rowVars, userReqState>>

Restart ==
  /\ "restart" \in Faults
  /\ handler' = [h \in Handler |-> Free]
  /\ userReqState' = [u \in User |-> FALSE]
  /\ scar' = [u \in User |-> IF \E h \in Serving(u) : handler[h].pc \in InCasbin
                             THEN "torn" ELSE scar[u]]
  /\ grants' = stored
  /\ rules' = stored
  /\ EC!Restart
  /\ UNCHANGED <<casbinVersion, stored, rowVars>>

\* The requests for decisions, and the expiry of what is cached.
Decide ==
  /\ UNCHANGED <<casbinVars, rowVars, userReqState, handler, scar>>
  /\ EC!Enforce \/ (\E u \in User : EC!Expire(u))
  /\ Room

Update(h) ==
  \/ \E u \in User : UpdateUser(h, u)
  \/ lockUserReqState(h)
  \/ ReadTable(h)
  \/ LoadPolicy(h)
  \/ \E wanted \in Wanted : ReadRoles(h, wanted)
  \/ CheckRBAC(h)
  \/ \E i \in Item : RemovePolicy(h, i) \/ AddPolicy(h, i)
  \/ PoliciesDone(h)
  \/ unlockUserReqState(h)

Delete(h) ==
  \/ \E u \in User : DeleteUser(h, u)
  \/ GetUserRoleMappingIds(h)
  \/ GetRolesForUser(h)
  \/ \E i \in Item : DeleteRoleForUser(h, i)
  \/ InvalidateDeleted(h)

Transaction(h) == DeleteRows(h) \/ WriteRow(h) \/ Commit(h) \/ Rollback(h)

Next == (\E h \in Handler : Update(h) \/ Delete(h) \/ Transaction(h)) \/ Decide \/ Restart

Spec == Init /\ [][Next]_vars

(***************************************************************************)
(* Properties.                                                             *)
(***************************************************************************)
Quiet(u) == Serving(u) = {}

\* The handlers of user requests are editors of EnforcerCache: they change a
\* policy first, invalidate its user later unless Casbin panics in between, and
\* touch the cache in no other way (Adapter.go, AddPolicy, RemovePolicy,
\* DeleteRoleForUser).
ImplementsEnforcerCache == EC!Spec

\* When no request for a user is being served, the cache answers about the
\* user as Casbin does: no decision outlives the invalidation (rbac.go,
\* InvalidateCache), and the handlers return only after they invalidated all
\* they changed.  Excepted is a user whose policies changed where the code
\* invalidates nobody: before a panic of Casbin (Adapter.go, handlePanic), or
\* by a rebuild or reload of all policies in the course of another change.
QuietCacheAgrees ==
  \A u \in User : Quiet(u) /\ u \notin owed =>
    \A i \in Item : cache[u][i] \in {"none", EC!enforcerEnforce(u, i)}

\* Nobody is owed an invalidation while all is well: it takes a failing write
\* of Casbin's table or a reload that undoes a change (Adapter.go, 142, 189).
OwedIsTorn == \A u \in owed : scar[u] = "torn"

\* A batch leaves fewer items unanswered than it has goroutines, besides those
\* that failed: the rest of an uneven division (rbac.go, 214-230).
FewLeftUnanswered == EC!FewLeftUnanswered

\* A user is locked exactly while one update of it is served: a request that
\* lost the race for the lock neither works on the user nor unlocks it
\* (UserService.go, lockUnlockUserReqState).
OneUpdatePerUser ==
  \A u \in User : Cardinality(Updating(u)) = IF userReqState[u] THEN 1 ELSE 0

\* When no request for a user is being served, its rows and its policies say
\* the same, unless a deletion overlapped an update or a step after the first
\* change in Casbin failed, or a reload put back older policies: that is what
\* the lock per user is for.
RolesAgree ==
  \A u \in User : Quiet(u) /\ scar[u] = "none" =>
    /\ grants[u] = roles[u] /\ stored[u] = roles[u]
    /\ active[u] \/ roles[u] = {}

\* A deleted user has no policies, also when updates overlapped the deletion:
\* it revokes what Casbin knows by the time it has the row of the user, not
\* the rows it found (UserService_ent.go, deleteUserCasbinPolices).
DeletedIsPowerless ==
  \A u \in User : Quiet(u) /\ ~active[u] /\ scar[u] # "torn" =>
    grants[u] = {} /\ stored[u] = {}
=============================================================================
