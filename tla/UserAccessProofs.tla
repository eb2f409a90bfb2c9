-------------------------- MODULE UserAccessProofs --------------------------
(***************************************************************************)
(* The requests that change users, for any users, items, requests and      *)
(* handlers: their types, that they implement EnforcerCache, that a cached *)
(* decision outlives none of them, that one update of a user is served at  *)
(* a time, and, in the second half, what they leave behind at rest.        *)
(*                                                                         *)
(* Shape says where a handler may be with a user, and where with a policy  *)
(* it has still to invalidate.  It makes a step that ends a request a      *)
(* stutter of the cache: nothing is left to invalidate then.               *)
(***************************************************************************)
EXTENDS UserAccess, FiniteSetTheorems, TLAPS

P == INSTANCE EnforcerCacheProofs WITH Editor <- Handler, edit <- PendingEdit

Rows ==
  /\ casbinVersion \in {"V1", "V2"}
  /\ rules \in [User -> SUBSET Item]
  /\ stored \in [User -> SUBSET Item]
  /\ roles \in [User -> SUBSET Item]
  /\ active \in [User -> BOOLEAN]
  /\ userReqState \in [User -> BOOLEAN]
  /\ handler \in [Handler -> HandlerType]
  /\ scar \in [User -> {"none", "overlap", "torn"}]

Shape ==
  \A h \in Handler :
    /\ handler[h].pc = "idle" <=> handler[h].user = NoUser
    /\ handler[h].dirty => handler[h].pc \in {"remove", "add", "dinvalidate"}

LocalInv == Rows /\ Shape
IInv == LocalInv /\ EC!IInv

-----------------------------------------------------------------------------
\* What is proved of the cache is proved of the cache the handlers use.
LEMMA SameIInv == EC!IInv <=> P!IInv
BY Zenon DEF EC!IInv, P!IInv, EC!TypeOK, P!TypeOK, EC!RequestType, P!RequestType,
             EC!CacheAgrees, P!CacheAgrees, EC!Edited, P!Edited,
             EC!enforcerEnforce, P!enforcerEnforce,
             EC!CounterIsInFlight, P!CounterIsInFlight, EC!InFlight, P!InFlight,
             EC!StaleIsFlagged, P!StaleIsFlagged, EC!IdleHasNoUser, P!IdleHasNoUser,
             EC!Verdict, P!Verdict, EC!Cardinality, P!Cardinality
\* So are its initial states,
LEMMA SameInit == EC!Init <=> P!Init
BY Zenon DEF EC!Init, P!Init, EC!Idle, P!Idle
\* and its steps.
LEMMA SameNext == [EC!Next]_(EC!vars) <=> [P!Next]_(P!vars)
BY Zenon DEF EC!Next, P!Next, EC!Enforce, P!Enforce, EC!Edit, P!Edit, EC!Expire, P!Expire,
             EC!Restart, P!Restart, EC!ChangePolicy, P!ChangePolicy,
             EC!GiveUp, P!GiveUp,
             EC!InvalidateCache, P!InvalidateCache, EC!enforceFromCache, P!enforceFromCache,
             EC!enforceHit, P!enforceHit, EC!enforceAndUpdateCache, P!enforceAndUpdateCache,
             EC!batchEnforceFromCache, P!batchEnforceFromCache,
             EC!enforceByEmailInBatchSync, P!enforceByEmailInBatchSync,
             EC!EnforceByEmailInBatch, P!EnforceByEmailInBatch, EC!Leave, P!Leave,
             EC!Lookup, P!Lookup, EC!Stored, P!Stored, EC!Sliced, P!Sliced,
             EC!AtMost, P!AtMost, EC!InFlight, P!InFlight, EC!Idle, P!Idle,
             EC!Cardinality, P!Cardinality, EC!Verdict, P!Verdict, EC!enforcerEnforce, P!enforcerEnforce, EC!vars, P!vars

-----------------------------------------------------------------------------
(***************************************************************************)
(* Steps of one handler that leave the cache alone.                        *)
(***************************************************************************)
ShapeOf(rec) ==
  /\ rec \in HandlerType
  /\ rec.pc = "idle" <=> rec.user = NoUser
  /\ rec.dirty => rec.pc \in {"remove", "add", "dinvalidate"}

\* A free handler has its shape.
LEMMA FreeShape == ShapeOf(Free) /\ Free.user = NoUser /\ ~Free.dirty /\ Free.pc = "idle"
BY DEF Free, NoSnap, ShapeOf, HandlerType

\* A handler that is changed to a shape keeps the types and shapes of all.
LEMMA HandlerKeeps ==
  ASSUME LocalInv, NEW h \in Handler, NEW rec, ShapeOf(rec),
         handler' = [handler EXCEPT ![h] = rec]
  PROVE  handler' \in [Handler -> HandlerType] /\ Shape'
BY DEF LocalInv, Rows, Shape, ShapeOf

\* With nothing to invalidate before and after, the editor did nothing.
LEMMA CalmStep ==
  ASSUME LocalInv, NEW h \in Handler, NEW rec, ShapeOf(rec),
         handler' = [handler EXCEPT ![h] = rec], UNCHANGED cacheVars,
         \/ ~handler[h].dirty /\ ~rec.dirty
         \/ handler[h].dirty = rec.dirty /\ handler[h].user = rec.user
  PROVE  UNCHANGED EC!vars
<1>1. handler \in [Handler -> HandlerType]
  BY DEF LocalInv, Rows
<1>2. PendingEdit' = PendingEdit
  BY <1>1 DEF PendingEdit
<1>3. QED
  BY <1>2 DEF EC!vars, cacheVars

\* A handler that goes on with the same request.
LEMMA GotoStep ==
  ASSUME LocalInv, NEW h \in Handler, NEW pc \in UpdatePC \cup DeletePC, Goto(h, pc),
         handler[h].pc # "idle", ~handler[h].dirty, UNCHANGED cacheVars
  PROVE  handler' \in [Handler -> HandlerType] /\ Shape' /\ UNCHANGED EC!vars
<1> DEFINE rec == [handler[h] EXCEPT !.pc = pc]
<1>1. handler[h] \in HandlerType
  BY DEF LocalInv, Rows
<1>2. handler' = [handler EXCEPT ![h] = rec]
  BY DEF Goto
<1>3. ShapeOf(rec) /\ ~rec.dirty
  BY <1>1 DEF LocalInv, Shape, ShapeOf, HandlerType, UpdatePC, DeletePC
<1>4. QED
  BY <1>2, <1>3, HandlerKeeps, CalmStep

-----------------------------------------------------------------------------
(***************************************************************************)
(* Each action keeps types and shapes, and is a step of the cache or a     *)
(* stutter.                                                                *)
(***************************************************************************)
\* A request is taken up, locked out or unlocked.
LEMMA LockSteps ==
  ASSUME IInv, NEW h \in Handler,
         (\E u \in User : UpdateUser(h, u)) \/ lockUserReqState(h) \/ unlockUserReqState(h)
  PROVE  LocalInv' /\ UNCHANGED EC!vars
<1>1. handler[h] \in HandlerType /\ LocalInv
  BY DEF IInv, LocalInv, Rows
<1>2. ASSUME NEW u \in User, UpdateUser(h, u)
      PROVE  LocalInv' /\ UNCHANGED EC!vars
  <2> DEFINE rec == [Free EXCEPT !.pc = "lock", !.user = u]
  <2>1. ShapeOf(rec) /\ ~rec.dirty
    BY NoUserAssumption DEF Free, NoSnap, ShapeOf, HandlerType, UpdatePC
  <2>2. handler' = [handler EXCEPT ![h] = rec] /\ UNCHANGED cacheVars
        /\ UNCHANGED <<casbinVersion, rules, stored, roles, active, userReqState, scar>>
        /\ ~handler[h].dirty
    BY <1>1, <1>2 DEF UpdateUser, LocalInv, Shape, casbinVars, rowVars
  <2>3. QED
    BY <1>1, <2>1, <2>2, HandlerKeeps, CalmStep DEF LocalInv, Rows
<1>3. CASE lockUserReqState(h)
  <2>1. /\ handler[h].pc = "lock" /\ ~handler[h].dirty
        /\ UNCHANGED <<casbinVersion, rules, stored, roles, active>>
        /\ UNCHANGED cacheVars /\ handler[h].user \in User
    BY <1>1, <1>3 DEF lockUserReqState, LocalInv, Shape, HandlerType, casbinVars, rowVars
  <2>2. CASE userReqState[handler[h].user]
    <3>1. handler' = [handler EXCEPT ![h] = Free] /\ UNCHANGED <<userReqState, scar>>
      BY <1>3, <2>2 DEF lockUserReqState
    <3>2. QED
      BY <1>1, <2>1, <3>1, FreeShape, HandlerKeeps, CalmStep DEF LocalInv, Rows
  <2>3. CASE ~userReqState[handler[h].user]
    <3>1. /\ Goto(h, "load")
          /\ userReqState' = [userReqState EXCEPT ![handler[h].user] = TRUE]
          /\ \E s \in {"none", "overlap"} : Scar(handler[h].user, s)
      BY <1>3, <2>3 DEF lockUserReqState
    <3>2. handler' \in [Handler -> HandlerType] /\ Shape' /\ UNCHANGED EC!vars
      BY <1>1, <2>1, <3>1, GotoStep DEF UpdatePC
    <3>3. QED
      BY <1>1, <2>1, <3>1, <3>2 DEF LocalInv, Rows, Scar
  <2>4. QED
    BY <2>2, <2>3
<1>4. CASE unlockUserReqState(h)
  <2>1. /\ ~handler[h].dirty /\ UNCHANGED cacheVars
        /\ UNCHANGED <<casbinVersion, rules, stored, roles, active, scar>>
        /\ handler' = [handler EXCEPT ![h] = Free]
        /\ userReqState' = [userReqState EXCEPT ![handler[h].user] = FALSE]
    BY <1>1, <1>4 DEF unlockUserReqState, LocalInv, Shape, casbinVars, rowVars
  <2>2. QED
    BY <1>1, <2>1, FreeShape, HandlerKeeps, CalmStep DEF LocalInv, Rows
<1>5. QED
  BY <1>2, <1>3, <1>4

\* Rows are read or deleted, the request is refused, the row is written.
LEMMA RowSteps ==
  ASSUME IInv, NEW h \in Handler,
         \/ \E wanted \in Wanted : ReadRoles(h, wanted)
         \/ ReadTable(h) \/ GetUserRoleMappingIds(h)
         \/ CheckRBAC(h) \/ DeleteRows(h) \/ WriteRow(h) \/ GetRolesForUser(h)
  PROVE  LocalInv' /\ UNCHANGED EC!vars
<1>1. /\ handler[h] \in HandlerType /\ LocalInv
      /\ UNCHANGED cacheVars /\ UNCHANGED <<casbinVersion, rules, stored>>
      /\ UNCHANGED <<roles, active, userReqState>>
  BY DEF IInv, LocalInv, Rows, ReadRoles, ReadTable, GetUserRoleMappingIds, CheckRBAC,
         DeleteRows, WriteRow, GetRolesForUser, casbinVars, rowVars
<1>2. ASSUME NEW wanted \in Wanted, ReadRoles(h, wanted)
      PROVE  LocalInv' /\ UNCHANGED EC!vars
  <2> DEFINE u == handler[h].user
             rec == [handler[h] EXCEPT !.pc = "rows", !.rows = roles[u] \ wanted,
                                       !.new = wanted \ roles[u], !.adds = wanted,
                                       !.todo = roles[u] \ wanted]
  <2>1. /\ handler[h].pc = "read" /\ handler' = [handler EXCEPT ![h] = rec] /\ UNCHANGED scar
    BY <1>2 DEF ReadRoles
  <2>2. ~handler[h].dirty /\ u \in User
    BY <1>1, <2>1 DEF LocalInv, Shape, HandlerType
  <2>3. roles[u] \in SUBSET Item /\ wanted \in SUBSET Item
    BY <1>1, <2>2, WantedAssumption DEF LocalInv, Rows
  <2>4. ShapeOf(rec) /\ ~rec.dirty
    BY <1>1, <2>2, <2>3, NoUserAssumption DEF ShapeOf, HandlerType, UpdatePC
  <2>5. QED
    BY <1>1, <2>1, <2>2, <2>4, HandlerKeeps, CalmStep DEF LocalInv, Rows
<1>3. ASSUME CheckRBAC(h) \/ DeleteRows(h) \/ WriteRow(h)
      PROVE  LocalInv' /\ UNCHANGED EC!vars
  <2>1. PICK pc \in UpdatePC \cup DeletePC : Goto(h, pc)
    BY <1>3 DEF CheckRBAC, DeleteRows, WriteRow, UpdatePC, DeletePC
  <2>2. handler[h].pc \in {"load", "read", "rows", "drows", "row", "drow"} /\ UNCHANGED scar
    BY <1>3 DEF CheckRBAC, DeleteRows, WriteRow
  <2>3. ~handler[h].dirty /\ handler[h].pc # "idle"
    BY <1>1, <2>2 DEF LocalInv, Shape
  <2>4. QED
    BY <1>1, <2>1, <2>2, <2>3, GotoStep DEF LocalInv, Rows
<1>4. ASSUME GetRolesForUser(h)
      PROVE  LocalInv' /\ UNCHANGED EC!vars
  <2> DEFINE rec(todo) == [handler[h] EXCEPT !.pc = "drevoke", !.todo = todo]
  <2>1. /\ handler[h].pc = "droles"
        /\ UNCHANGED scar \/ Scar(handler[h].user, "torn")
    BY <1>4 DEF GetRolesForUser
  <2>2. ~handler[h].dirty /\ handler[h].user \in User
    BY <1>1, <2>1 DEF LocalInv, Shape, HandlerType
  <2>3. grants[handler[h].user] \in SUBSET Item
    BY <2>2 DEF IInv, EC!IInv, EC!TypeOK
  <2>4. PICK todo \in SUBSET Item : handler' = [handler EXCEPT ![h] = rec(todo)]
    BY <1>4, <2>3 DEF GetRolesForUser
  <2>5. ShapeOf(rec(todo)) /\ ~rec(todo).dirty
    BY <1>1, <2>2, NoUserAssumption DEF ShapeOf, HandlerType, DeletePC
  <2>6. scar' \in [User -> {"none", "overlap", "torn"}]
    BY <1>1, <2>1 DEF LocalInv, Rows, Scar
  <2>7. QED
    BY <1>1, <2>1, <2>2, <2>4, <2>5, <2>6, HandlerKeeps, CalmStep DEF LocalInv, Rows
<1>5. ASSUME ReadTable(h)
      PROVE  LocalInv' /\ UNCHANGED EC!vars
  <2> DEFINE rec == [handler[h] EXCEPT !.pc = IF @ = "load" THEN "apply" ELSE "reapply",
                                       !.snap = stored]
  <2>1. /\ handler[h].pc \in {"load", "reload"} /\ handler' = [handler EXCEPT ![h] = rec]
        /\ UNCHANGED scar
    BY <1>5 DEF ReadTable
  <2>2. ~handler[h].dirty /\ stored \in [User -> SUBSET Item]
    BY <1>1, <2>1 DEF LocalInv, Shape, Rows
  <2>3. ShapeOf(rec) /\ ~rec.dirty
    BY <1>1, <2>1, <2>2 DEF LocalInv, Shape, ShapeOf, HandlerType, UpdatePC
  <2>4. QED
    BY <1>1, <2>1, <2>2, <2>3, HandlerKeeps, CalmStep DEF LocalInv, Rows
<1>6. ASSUME GetUserRoleMappingIds(h)
      PROVE  LocalInv' /\ UNCHANGED EC!vars
  <2> DEFINE rec == [handler[h] EXCEPT !.pc = "drows", !.rows = roles[handler[h].user]]
  <2>1. handler[h].pc = "dread" /\ handler' = [handler EXCEPT ![h] = rec] /\ UNCHANGED scar
    BY <1>6 DEF GetUserRoleMappingIds
  <2>2. ~handler[h].dirty /\ handler[h].user \in User
    BY <1>1, <2>1 DEF LocalInv, Shape, HandlerType
  <2>3. roles[handler[h].user] \in SUBSET Item
    BY <1>1, <2>2 DEF LocalInv, Rows
  <2>4. ShapeOf(rec) /\ ~rec.dirty
    BY <1>1, <2>2, <2>3, NoUserAssumption DEF ShapeOf, HandlerType, DeletePC
  <2>5. QED
    BY <1>1, <2>1, <2>2, <2>4, HandlerKeeps, CalmStep DEF LocalInv, Rows
<1>7. QED
  BY <1>2, <1>3, <1>4, <1>5, <1>6

\* A deletion begins; a transaction ends.
LEMMA TransactionSteps ==
  ASSUME IInv, NEW h \in Handler,
         (\E u \in User : DeleteUser(h, u)) \/ Commit(h) \/ Rollback(h)
  PROVE  LocalInv' /\ UNCHANGED EC!vars
<1>1. /\ handler[h] \in HandlerType /\ LocalInv
      /\ UNCHANGED cacheVars /\ UNCHANGED <<casbinVersion, rules, stored, userReqState>>
  BY DEF IInv, LocalInv, Rows, DeleteUser, Commit, Rollback, casbinVars
<1>2. ASSUME NEW u \in User, DeleteUser(h, u)
      PROVE  LocalInv' /\ UNCHANGED EC!vars
  <2> DEFINE rec == [Free EXCEPT !.pc = "dread", !.user = u]
  <2>1. /\ handler[h].pc = "idle" /\ handler' = [handler EXCEPT ![h] = rec]
        /\ UNCHANGED <<roles, active>> /\ \E s \in {"none", "overlap"} : Scar(u, s)
    BY <1>2 DEF DeleteUser, rowVars
  <2>2. ShapeOf(rec) /\ ~rec.dirty
    BY <1>1, NoUserAssumption DEF Free, NoSnap, ShapeOf, HandlerType, DeletePC, LocalInv, Rows
  <2>3. ~handler[h].dirty
    BY <1>1, <2>1 DEF LocalInv, Shape
  <2>4. QED
    BY <1>1, <2>1, <2>2, <2>3, HandlerKeeps, CalmStep DEF LocalInv, Rows, Scar
<1>3. ASSUME Commit(h)
      PROVE  LocalInv' /\ UNCHANGED EC!vars
  <2>1. handler[h].pc \in {"commit", "drevoke"} /\ UNCHANGED scar
    BY <1>3 DEF Commit
  <2>2. ~handler[h].dirty /\ handler[h].user \in User
    BY <1>1, <2>1 DEF LocalInv, Shape, HandlerType
  <2> DEFINE last == IF handler[h].pc = "commit" THEN [handler[h] EXCEPT !.pc = "reload"] ELSE Free
             less(o) == [handler[o] EXCEPT !.rows = @ \ handler[h].rows]
  <2>3. handler' = [o \in Handler |-> IF o = h THEN last
                                      ELSE IF o \in Others(h) THEN less(o) ELSE handler[o]]
    BY <1>3 DEF Commit
  <2>4. ShapeOf(last) /\ ~last.dirty
    BY <1>1, <2>1, <2>2, FreeShape, NoUserAssumption DEF ShapeOf, HandlerType, UpdatePC
  <2>5. \A o \in Handler : /\ ShapeOf(handler[o]) /\ ShapeOf(less(o))
                           /\ less(o).dirty = handler[o].dirty /\ less(o).user = handler[o].user
    BY <1>1 DEF LocalInv, Rows, Shape, ShapeOf, HandlerType
  <2>6. \A o \in Handler : /\ ShapeOf(handler'[o])
                           /\ o # h => handler'[o].dirty = handler[o].dirty
                                       /\ handler'[o].user = handler[o].user
    BY <2>3, <2>4, <2>5
  <2>7. handler' \in [Handler -> HandlerType] /\ Shape'
    BY <2>3, <2>6 DEF Shape, ShapeOf
  <2>8. PendingEdit' = PendingEdit
    BY <1>1, <2>2, <2>3, <2>4, <2>6 DEF PendingEdit
  <2>9. UNCHANGED EC!vars
    BY <1>1, <2>8 DEF EC!vars, cacheVars
  <2>10. roles' \in [User -> SUBSET Item] /\ active' \in [User -> BOOLEAN]
    BY <1>1, <1>3 DEF Commit, LocalInv, Rows, HandlerType
  <2>11. QED
    BY <1>1, <2>1, <2>7, <2>9, <2>10 DEF LocalInv, Rows
<1>4. ASSUME Rollback(h)
      PROVE  LocalInv' /\ UNCHANGED EC!vars
  <2>1. /\ handler[h].pc \in {"row", "commit", "dread", "drows", "drow", "droles", "drevoke"}
        /\ UNCHANGED <<roles, active>>
        /\ \E s \in {"none", "torn"} : Scar(handler[h].user, s)
        /\ handler' = [handler EXCEPT ![h] = Free] \/ Goto(h, "unlock")
    BY <1>4 DEF Rollback, rowVars
  <2>2. ~handler[h].dirty
    BY <1>1, <2>1 DEF LocalInv, Shape
  <2>3. handler' \in [Handler -> HandlerType] /\ Shape' /\ UNCHANGED EC!vars
    BY <1>1, <2>1, <2>2, FreeShape, HandlerKeeps, CalmStep, GotoStep DEF UpdatePC
  <2>4. QED
    BY <1>1, <2>1, <2>3 DEF LocalInv, Rows, Scar
<1>5. QED
  BY <1>2, <1>3, <1>4

\* All rules are built into links again: a change of policies by a handler that
\* has to invalidate its user from then on, or a change of others.
LEMMA EditStep ==
  ASSUME IInv, NEW h \in Handler, NEW new \in [User -> SUBSET Item], NEW rec, ShapeOf(rec),
         handler[h].pc # "idle", rec.user = handler[h].user,
         handler[h].dirty => rec.dirty,
         handler' = [handler EXCEPT ![h] = rec], Rebuild(h, new),
         UNCHANGED <<cache, counter, flag, req>>
  PROVE  EC!Next
<1>1. handler \in [Handler -> HandlerType] /\ grants \in [User -> SUBSET Item]
      /\ grants' \in [User -> SUBSET Item] /\ handler'[h] = rec
  BY DEF IInv, LocalInv, Rows, EC!IInv, EC!TypeOK, Rebuild
<1>2. PICK u \in User : handler[h].user = u
  BY <1>1 DEF IInv, LocalInv, Shape, HandlerType
<1>3. PICK us \in SUBSET User : us = IF rec.dirty THEN {u} ELSE {}
  BY <1>2
<1>4. PICK others \in SUBSET User :
        others = {v \in User : new[v] # grants[v] /\ ~(v = u /\ rec.dirty)}
  OBVIOUS
<1>5. PendingEdit' = [PendingEdit EXCEPT ![h] = @ \cup us]
  BY <1>1, <1>2, <1>3 DEF PendingEdit
<1>6. owed' = owed \cup others
  BY <1>1, <1>2, <1>4 DEF Rebuild
<1>7. \A v \in User \ (us \cup others) : grants'[v] = grants[v]
  BY <1>3, <1>4 DEF Rebuild
<1>8. EC!ChangePolicy(h, us, others)
  BY <1>1, <1>5, <1>6, <1>7, ZenonT(40) DEF EC!ChangePolicy
<1>9. QED
  BY <1>3, <1>4, <1>8 DEF EC!Next, EC!Edit

\* A policy of the user is written.
LEMMA WriteStep ==
  ASSUME IInv, NEW h \in Handler, NEW i \in Item, NEW adding \in BOOLEAN, NEW rec, ShapeOf(rec),
         handler[h].pc # "idle", rec.user = handler[h].user,
         handler[h].dirty => rec.dirty,
         handler' = [handler EXCEPT ![h] = rec], Write(h, i, adding),
         UNCHANGED <<cache, counter, flag, req, roles, active, userReqState>>
  PROVE  LocalInv' /\ EC!Next
<1>1. LocalInv /\ handler[h] \in HandlerType
  BY DEF IInv, LocalInv, Rows
<1>2. PICK u \in User : handler[h].user = u
  BY <1>1 DEF LocalInv, Shape, HandlerType
<1>3. PICK own \in SUBSET Item : own = With(h, i, adding)
  BY <1>1, <1>2 DEF With, LocalInv, Rows
<1>4. PICK new \in [User -> SUBSET Item] : new = [rules EXCEPT ![u] = own]
  BY <1>1, <1>2, <1>3 DEF LocalInv, Rows
<1>5. Rebuild(h, new) /\ rules' = new /\ UNCHANGED <<casbinVersion, scar>>
  BY <1>2, <1>3, <1>4 DEF Write, Rebuild
<1>6. stored' \in [User -> SUBSET Item]
  BY <1>1, <1>2 DEF Write, LocalInv, Rows
<1>7. LocalInv'
  BY <1>1, <1>4, <1>5, <1>6, HandlerKeeps DEF LocalInv, Rows
<1>8. QED
  BY <1>5, <1>7, EditStep

\* The table fails: the links and the cache stay as they are.
LEMMA WriteFailsStep ==
  ASSUME IInv, NEW h \in Handler, NEW i \in Item, NEW adding \in BOOLEAN, NEW rec, ShapeOf(rec),
         handler[h].pc # "idle",
         handler' = [handler EXCEPT ![h] = rec], WriteFails(h, i, adding),
         UNCHANGED <<cache, counter, flag, req, roles, active, userReqState>>,
         \/ UNCHANGED owed /\ (\/ ~handler[h].dirty /\ ~rec.dirty
                               \/ handler[h].dirty = rec.dirty /\ handler[h].user = rec.user)
         \/ ~rec.dirty /\ owed' = owed \cup IF handler[h].dirty THEN {handler[h].user} ELSE {}
  PROVE  LocalInv' /\ (EC!Next \/ UNCHANGED EC!vars)
<1>1. LocalInv /\ handler[h] \in HandlerType /\ handler \in [Handler -> HandlerType]
  BY DEF IInv, LocalInv, Rows
<1>2. PICK u \in User : handler[h].user = u
  BY <1>1 DEF LocalInv, Shape, HandlerType
<1>3. UNCHANGED <<grants, stored, casbinVersion>> /\ Scar(u, "torn")
  BY <1>2 DEF WriteFails
<1>4. rules' \in [User -> SUBSET Item]
  BY <1>1, <1>2 DEF WriteFails, With, LocalInv, Rows
<1>5. LocalInv'
  BY <1>1, <1>2, <1>3, <1>4, HandlerKeeps DEF LocalInv, Rows, Scar
<1>6. CASE UNCHANGED owed /\ (\/ ~handler[h].dirty /\ ~rec.dirty
                              \/ handler[h].dirty = rec.dirty /\ handler[h].user = rec.user)
  BY <1>1, <1>3, <1>5, <1>6, CalmStep DEF cacheVars
<1>7. CASE ~rec.dirty /\ owed' = owed \cup IF handler[h].dirty THEN {handler[h].user} ELSE {}
  <2>1. PendingEdit[h] = IF handler[h].dirty THEN {handler[h].user} ELSE {}
    BY DEF PendingEdit
  <2>2. PendingEdit' = [PendingEdit EXCEPT ![h] = {}]
    BY <1>1, <1>7 DEF PendingEdit
  <2>3. EC!GiveUp(h)
    BY <1>3, <1>7, <2>1, <2>2 DEF EC!GiveUp
  <2>4. QED
    BY <1>5, <2>3 DEF EC!Next, EC!Edit
<1>8. QED
  BY <1>6, <1>7

\* A policy is removed, added or revoked, or the call fails.
LEMMA PolicySteps ==
  ASSUME IInv, NEW h \in Handler, NEW i \in Item,
         RemovePolicy(h, i) \/ AddPolicy(h, i) \/ DeleteRoleForUser(h, i)
  PROVE  LocalInv' /\ (EC!Next \/ UNCHANGED EC!vars)
<1>1. handler[h] \in HandlerType /\ LocalInv
  BY DEF IInv, LocalInv, Rows
<1>2. /\ handler[h].pc \in {"remove", "add", "drevoke"} /\ handler[h].pc # "idle"
      /\ UNCHANGED <<cache, counter, flag, req, roles, active, userReqState>>
  BY DEF RemovePolicy, AddPolicy, DeleteRoleForUser, rowVars
<1>3. handler[h].user \in User
  BY <1>1, <1>2 DEF LocalInv, Shape, HandlerType
<1>4. ASSUME NEW adding \in BOOLEAN, handler[h].pc \in {"remove", "add"}, PolicyChanged(h, i, adding)
      PROVE  LocalInv' /\ (EC!Next \/ UNCHANGED EC!vars)
  <2> DEFINE changed == Success(h, i, adding)
             rec == [handler[h] EXCEPT !.todo = @ \ {i}, !.dirty = @ \/ changed]
  <2>1. changed \in BOOLEAN
    BY DEF Success, Alters
  <2> HIDE DEF changed
  <2>2. ShapeOf(rec) /\ rec.user = handler[h].user /\ (handler[h].dirty => rec.dirty)
    BY <1>1, <1>3, <1>4, <2>1, NoUserAssumption DEF ShapeOf, HandlerType, LocalInv, Shape
  <2>3. handler' = [handler EXCEPT ![h] = rec] /\ Write(h, i, adding)
    BY <1>4 DEF PolicyChanged, changed
  <2> HIDE DEF rec
  <2>4. QED
    BY <1>2, <2>2, <2>3, WriteStep
<1>5. ASSUME NEW adding \in BOOLEAN, handler[h].pc \in {"remove", "add"}, PolicyFails(h, i, adding)
      PROVE  LocalInv' /\ (EC!Next \/ UNCHANGED EC!vars)
  <2> DEFINE same == [handler[h] EXCEPT !.todo = @ \ {i}]
             over == [handler[h] EXCEPT !.pc = NextLoop(h), !.todo = NextTodo(h), !.dirty = FALSE]
  <2>1. /\ ShapeOf(same) /\ same.user = handler[h].user /\ same.dirty = handler[h].dirty
        /\ ShapeOf(over) /\ ~over.dirty
    BY <1>1, <1>3, <1>5, NoUserAssumption
       DEF ShapeOf, HandlerType, LocalInv, Shape, NextLoop, NextTodo, UpdatePC
  <2>2. /\ WriteFails(h, i, adding)
        /\ \/ UNCHANGED owed /\ handler' = [handler EXCEPT ![h] = same]
           \/ /\ handler' = [handler EXCEPT ![h] = over]
              /\ owed' = owed \cup IF handler[h].dirty THEN {handler[h].user} ELSE {}
    BY <1>5 DEF PolicyFails
  <2> HIDE DEF same, over
  <2>3. QED
    BY <1>2, <2>1, <2>2, WriteFailsStep
<1>6. ASSUME DeleteRoleForUser(h, i)
      PROVE  LocalInv' /\ (EC!Next \/ UNCHANGED EC!vars)
  <2> DEFINE rec == [handler[h] EXCEPT !.pc = "dinvalidate", !.todo = @ \ {i}, !.dirty = TRUE]
             same == [handler[h] EXCEPT !.pc = "dinvalidate", !.todo = @ \ {i}]
  <2>1. ~handler[h].dirty
    BY <1>1, <1>6 DEF DeleteRoleForUser, LocalInv, Shape
  <2>2. /\ ShapeOf(rec) /\ rec.user = handler[h].user /\ rec.dirty
        /\ ShapeOf(same) /\ ~same.dirty
    BY <1>1, <1>3, <2>1, NoUserAssumption DEF ShapeOf, HandlerType, LocalInv, Shape, DeletePC
  <2>3. CASE handler' = [handler EXCEPT ![h] = rec] /\ Write(h, i, FALSE)
    <3> HIDE DEF rec
    <3>1. QED
      BY <1>2, <2>2, <2>3, WriteStep
  <2>4. CASE /\ WriteFails(h, i, FALSE) /\ UNCHANGED owed
             /\ \/ handler' = [handler EXCEPT ![h] = same]
                \/ handler' = [handler EXCEPT ![h] = Free]
    <3> HIDE DEF same
    <3>1. QED
      BY <1>2, <2>1, <2>2, <2>4, FreeShape, WriteFailsStep
  <2>5. QED
    BY <1>6, <2>3, <2>4 DEF DeleteRoleForUser
<1>7. QED
  BY <1>2, <1>4, <1>5, <1>6 DEF RemovePolicy, AddPolicy

\* The policies are loaded again.
LEMMA ReloadStep ==
  ASSUME IInv, NEW h \in Handler, LoadPolicy(h)
  PROVE  LocalInv' /\ EC!Next
<1>1. handler[h] \in HandlerType /\ LocalInv
  BY DEF IInv, LocalInv, Rows
<1>2. /\ handler[h].pc \in {"load", "apply", "reload", "reapply"}
      /\ UNCHANGED <<cache, counter, flag, req, casbinVersion, stored, roles, active, userReqState>>
  BY DEF LoadPolicy, rowVars
<1> DEFINE rec == [handler[h] EXCEPT !.pc = IF @ \in {"load", "apply"} THEN "read" ELSE "unlock",
                                     !.snap = NoSnap]
<1>3. handler' = [handler EXCEPT ![h] = rec] /\ ~handler[h].dirty /\ handler[h].pc # "idle"
  BY <1>1, <1>2 DEF LoadPolicy, LocalInv, Shape
<1>4. ShapeOf(rec) /\ rec.user = handler[h].user
  BY <1>1, <1>2, <1>3 DEF LocalInv, Shape, ShapeOf, HandlerType, UpdatePC, NoSnap
<1> HIDE DEF rec
<1>5. PICK new \in [User -> SUBSET Item] :
        /\ Rebuild(h, new)
        /\ scar' = [u \in User |-> IF new[u] # grants[u] THEN "torn" ELSE scar[u]]
  BY <1>1 DEF LoadPolicy, LocalInv, Rows, HandlerType
<1>6. LocalInv'
  BY <1>1, <1>2, <1>3, <1>4, <1>5, HandlerKeeps DEF LocalInv, Rows, Rebuild
<1>7. QED
  BY <1>2, <1>3, <1>4, <1>5, <1>6, EditStep

\* The cache of the user is invalidated when there is something to.
LEMMA InvalidationSteps ==
  ASSUME IInv, NEW h \in Handler, PoliciesDone(h) \/ InvalidateDeleted(h)
  PROVE  LocalInv' /\ (EC!Next \/ UNCHANGED EC!vars)
<1>1. handler[h] \in HandlerType /\ LocalInv /\ handler \in [Handler -> HandlerType]
  BY DEF IInv, LocalInv, Rows
<1>2. /\ handler[h].pc \in {"remove", "add", "dinvalidate"}
      /\ UNCHANGED <<casbinVersion, rules, stored, roles, active, userReqState, scar>>
  BY DEF PoliciesDone, InvalidateDeleted, casbinVars, rowVars
<1>3. handler[h].user \in User
  BY <1>1, <1>2 DEF LocalInv, Shape, HandlerType
<1>4. ASSUME EC!InvalidateCache(h, handler[h].user)
      PROVE  EC!Next
  BY <1>3, <1>4 DEF EC!Next, EC!Edit
<1>5. CASE PoliciesDone(h)
  <2> DEFINE rec == [handler[h] EXCEPT !.pc = NextLoop(h), !.todo = NextTodo(h), !.dirty = FALSE]
  <2>1. handler' = [handler EXCEPT ![h] = rec]
    BY <1>5 DEF PoliciesDone
  <2>2. ShapeOf(rec) /\ ~rec.dirty
    BY <1>1, <1>3, NoUserAssumption DEF ShapeOf, HandlerType, UpdatePC, NextLoop, NextTodo
  <2>3. LocalInv'
    BY <1>1, <1>2, <2>1, <2>2, HandlerKeeps DEF LocalInv, Rows
  <2>4. CASE handler[h].dirty
    BY <1>4, <1>5, <2>3, <2>4 DEF PoliciesDone
  <2>5. CASE ~handler[h].dirty
    BY <1>1, <1>5, <2>1, <2>2, <2>3, <2>5, CalmStep DEF PoliciesDone
  <2>6. QED
    BY <2>4, <2>5
<1>6. CASE InvalidateDeleted(h)
  <2> DEFINE rec == [handler[h] EXCEPT !.pc = "drevoke", !.dirty = FALSE]
  <2>1. handler' = [handler EXCEPT ![h] = rec] /\ EC!InvalidateCache(h, handler[h].user)
    BY <1>6 DEF InvalidateDeleted
  <2>2. ShapeOf(rec)
    BY <1>1, <1>3, NoUserAssumption DEF ShapeOf, HandlerType, DeletePC
  <2>3. QED
    BY <1>1, <1>2, <1>4, <2>1, <2>2, HandlerKeeps DEF LocalInv, Rows
<1>7. QED
  BY <1>5, <1>6

\* A restart forgets the requests and what they had to invalidate.
LEMMA RestartStep ==
  ASSUME IInv, Restart
  PROVE  LocalInv' /\ EC!Next
<1>1. /\ handler' = [h \in Handler |-> Free] /\ userReqState' = [u \in User |-> FALSE]
      /\ UNCHANGED <<casbinVersion, stored, roles, active>> /\ EC!Restart /\ rules' = stored
      /\ scar' = [u \in User |-> IF \E h \in Serving(u) : handler[h].pc \in InCasbin
                                 THEN "torn" ELSE scar[u]]
  BY DEF Restart, rowVars
<1>2. handler' \in [Handler -> HandlerType] /\ Shape'
  BY <1>1, FreeShape DEF Shape, ShapeOf
<1>3. QED
  BY <1>1, <1>2 DEF IInv, LocalInv, Rows, EC!Next

\* A decision is a step of the cache.
LEMMA DecideStep ==
  ASSUME IInv, Decide
  PROVE  LocalInv' /\ EC!Next
BY DEF Decide, EC!Next, IInv, LocalInv, Rows, Shape, casbinVars, rowVars

\* Every step of the requests is a step of the cache or leaves it alone.
LEMMA StepImplements ==
  ASSUME IInv, [Next]_vars
  PROVE  LocalInv' /\ [EC!Next]_(EC!vars)
<1>1. CASE UNCHANGED vars
  <2>1. UNCHANGED EC!vars
    BY <1>1 DEF vars, EC!vars, PendingEdit, cacheVars
  <2>2. QED
    BY <1>1, <2>1 DEF vars, IInv, LocalInv, Rows, Shape, casbinVars, rowVars
<1>2. CASE Decide
  BY <1>2, DecideStep
<1>3. CASE Restart
  BY <1>3, RestartStep
<1>4. ASSUME NEW h \in Handler, Update(h)
      PROVE  LocalInv' /\ [EC!Next]_(EC!vars)
  BY <1>4, LockSteps, RowSteps, PolicySteps, ReloadStep, InvalidationSteps DEF Update
<1>5. ASSUME NEW h \in Handler, Delete(h)
      PROVE  LocalInv' /\ [EC!Next]_(EC!vars)
  BY <1>5, TransactionSteps, RowSteps, PolicySteps, InvalidationSteps DEF Delete
<1>6. ASSUME NEW h \in Handler, Transaction(h)
      PROVE  LocalInv' /\ [EC!Next]_(EC!vars)
  BY <1>6, TransactionSteps, RowSteps DEF Transaction
<1>7. QED
  BY <1>1, <1>2, <1>3, <1>4, <1>5, <1>6 DEF Next

\* The invariant of the cache is kept by what the requests do to it.
LEMMA StepInv ==
  ASSUME IInv, [Next]_vars
  PROVE  IInv'
<1>1. LocalInv' /\ [P!Next]_(P!vars)
  BY StepImplements, SameNext
<1>2. P!IInv
  BY SameIInv DEF IInv
<1>3. P!IInv'
  BY <1>1, <1>2, P!NextInv, AskedAssumption, BatchSizeAssumption, ItemAssumption, NoUserAssumption,
     RequestAssumption DEF IsFiniteSet, P!IsFiniteSet
<1>4. EC!IInv'
  BY <1>3, SameIInv, PTL
<1>5. QED
  BY <1>1, <1>4 DEF IInv

\* No request is served and nothing is cached at first.
LEMMA InitInv ==
  ASSUME Init
  PROVE  IInv
<1>1. EC!Init /\ handler = [h \in Handler |-> Free]
  BY DEF Init
<1>2. EC!IInv
  BY <1>1, SameInit, SameIInv, P!InitInv, AskedAssumption, BatchSizeAssumption, ItemAssumption,
     NoUserAssumption, RequestAssumption DEF IsFiniteSet, P!IsFiniteSet
<1>3. handler \in [Handler -> HandlerType] /\ Shape
  BY <1>1, FreeShape DEF Shape, ShapeOf
<1>4. QED
  BY <1>1, <1>2, <1>3, WantedAssumption DEF Init, IInv, LocalInv, Rows, EC!Init

\* The invariant holds of every run.
LEMMA Safety == Spec => []IInv
BY InitInv, StepInv, PTL DEF Spec

-----------------------------------------------------------------------------
\* The types of the requests, and of the cache below them, in particular that
\* no counter of requests in flight falls below zero (rbac.go,
\* enforceReqCounter).
THEOREM TypeCorrect == Spec => []TypeOK
<1>1. IInv => TypeOK
  BY DEF IInv, EC!IInv, LocalInv, Rows, TypeOK
<1>2. QED
  BY <1>1, Safety, PTL

\* The requests that change users edit policies the way EnforcerCache expects
\* of its editors: change first, invalidate later (Adapter.go, UserService.go).
THEOREM Implements == Spec => ImplementsEnforcerCache
<1>1. Init => EC!Init
  BY DEF Init
<1>2. IInv /\ [Next]_vars => [EC!Next]_(EC!vars)
  BY StepImplements
<1>3. QED
  BY <1>1, <1>2, Safety, PTL DEF Spec, ImplementsEnforcerCache, EC!Spec

\* When no request for a user is being served the cache answers about the
\* user as Casbin does, for any number of requests, items and batches
\* (rbac.go, InvalidateCache, enforceAndUpdateCache).
THEOREM QuietAgrees == Spec => []QuietCacheAgrees
<1>1. IInv => QuietCacheAgrees
  <2> SUFFICES ASSUME IInv, NEW u \in User, Quiet(u), u \notin owed, NEW i \in Item
               PROVE  cache[u][i] \in {"none", EC!enforcerEnforce(u, i)}
    BY DEF QuietCacheAgrees
  <2>1. ~EC!Edited(u)
    BY DEF EC!Edited, PendingEdit, Quiet, Serving
  <2>2. QED
    BY <2>1 DEF IInv, EC!IInv, EC!CacheAgrees
<1>2. QED
  BY <1>1, Safety, PTL

-----------------------------------------------------------------------------
(***************************************************************************)
(* The lock of a user and the update that holds it.                        *)
(***************************************************************************)
LockInv ==
  \A u \in User : IF userReqState[u] THEN \E h \in Handler : Updating(u) = {h}
                                     ELSE Updating(u) = {}

\* A step of a handler that neither takes nor gives up a user's lock.
LEMMA Unmoved ==
  ASSUME LocalInv, LockInv, UNCHANGED userReqState, NEW h \in Handler, NEW rec,
         handler' = [handler EXCEPT ![h] = rec],
         rec.pc \in Locked <=> handler[h].pc \in Locked,
         rec.pc \in Locked => rec.user = handler[h].user
  PROVE  LockInv'
<1>1. handler \in [Handler -> HandlerType]
  BY DEF LocalInv, Rows
<1>2. ASSUME NEW u \in User
      PROVE  Updating(u)' = Updating(u)
  BY <1>1 DEF Updating, Serving
<1>3. QED
  BY <1>2 DEF LockInv

\* The same, when only the phase changes.
LEMMA UnmovedGoto ==
  ASSUME LocalInv, LockInv, UNCHANGED userReqState, NEW h \in Handler,
         NEW pc \in UpdatePC \cup DeletePC, Goto(h, pc),
         pc \in Locked <=> handler[h].pc \in Locked
  PROVE  LockInv'
<1> DEFINE rec == [handler[h] EXCEPT !.pc = pc]
<1>1. handler[h] \in HandlerType
  BY DEF LocalInv, Rows
<1>2. handler' = [handler EXCEPT ![h] = rec] /\ rec.pc = pc /\ rec.user = handler[h].user
  BY <1>1 DEF Goto, HandlerType
<1>3. QED
  BY <1>2, Unmoved

\* The lock is taken by a request that found it free, and given up by the
\* request that holds it.
LEMMA LockMoves ==
  ASSUME LocalInv, LockInv, NEW h \in Handler, lockUserReqState(h) \/ unlockUserReqState(h)
  PROVE  LockInv'
<1> DEFINE u == handler[h].user
<1>1. /\ handler \in [Handler -> HandlerType] /\ userReqState \in [User -> BOOLEAN]
      /\ handler[h].pc \in {"lock", "unlock"} /\ u \in User
  BY DEF LocalInv, Rows, Shape, HandlerType, lockUserReqState, unlockUserReqState
<1>2. CASE lockUserReqState(h) /\ userReqState[u]
  <2>1. handler' = [handler EXCEPT ![h] = Free] /\ UNCHANGED userReqState
        /\ handler[h].pc = "lock"
    BY <1>2 DEF lockUserReqState
  <2>2. Free.pc \notin Locked /\ handler[h].pc \notin Locked
    BY <2>1 DEF Free, Locked, UpdatePC
  <2>3. QED
    BY <2>1, <2>2, Unmoved
<1>3. CASE lockUserReqState(h) /\ ~userReqState[u]
  <2>1. /\ userReqState' = [userReqState EXCEPT ![u] = TRUE]
        /\ handler' = [handler EXCEPT ![h].pc = "load"] /\ handler[h].pc = "lock"
    BY <1>3 DEF lockUserReqState, Goto
  <2>2. Updating(u) = {}
    BY <1>1, <1>3 DEF LockInv
  <2>3. ASSUME NEW v \in User
        PROVE  Updating(v)' = IF v = u THEN Updating(v) \cup {h} ELSE Updating(v)
    BY <1>1, <2>1 DEF Updating, Serving, Locked, UpdatePC
  <2>4. QED
    BY <1>1, <2>1, <2>2, <2>3 DEF LockInv
<1>4. CASE unlockUserReqState(h)
  <2>1. /\ userReqState' = [userReqState EXCEPT ![u] = FALSE]
        /\ handler' = [handler EXCEPT ![h] = Free] /\ handler[h].pc = "unlock"
    BY <1>4 DEF unlockUserReqState
  <2>2. h \in Updating(u)
    BY <2>1 DEF Updating, Serving, Locked, UpdatePC
  <2>3. Updating(u) = {h}
    BY <1>1, <2>2 DEF LockInv
  <2>4. ASSUME NEW v \in User
        PROVE  Updating(v)' = IF v = u THEN {} ELSE Updating(v)
    BY <1>1, <2>1, <2>3, FreeShape, NoUserAssumption DEF Updating, Serving
  <2>5. QED
    BY <1>1, <2>1, <2>4 DEF LockInv
<1>5. QED
  BY <1>2, <1>3, <1>4

\* The other steps of an update, and those of a deletion, leave every lock
\* where it is.
LEMMA LockStays ==
  ASSUME LocalInv, LockInv, NEW h \in Handler,
         Update(h) \/ Delete(h) \/ Transaction(h),
         ~lockUserReqState(h), ~unlockUserReqState(h)
  PROVE  LockInv'
<1>1. handler \in [Handler -> HandlerType] /\ handler[h] \in HandlerType
  BY DEF LocalInv, Rows
<1>2. Free.pc \notin Locked
  BY FreeShape DEF Locked, UpdatePC
<1>3. ASSUME NEW u \in User, UpdateUser(h, u) \/ DeleteUser(h, u)
      PROVE  LockInv'
  <2> DEFINE taken == [Free EXCEPT !.pc = "lock", !.user = u]
             found == [Free EXCEPT !.pc = "dread", !.user = u]
  <2>1. /\ UNCHANGED userReqState /\ handler[h].pc \notin Locked
        /\ handler' = [handler EXCEPT ![h] = taken] \/ handler' = [handler EXCEPT ![h] = found]
    BY <1>3 DEF UpdateUser, DeleteUser, Locked, UpdatePC
  <2>2. taken.pc \notin Locked /\ found.pc \notin Locked
    BY DEF Free, Locked, UpdatePC
  <2>3. QED
    BY <2>1, <2>2, Unmoved
<1>4. ASSUME CheckRBAC(h) \/ DeleteRows(h) \/ WriteRow(h)
      PROVE  LockInv'
  <2>1. UNCHANGED userReqState
    BY <1>4 DEF CheckRBAC, DeleteRows, WriteRow
  <2>2. PICK pc \in UpdatePC \cup DeletePC : Goto(h, pc) /\ (pc \in Locked <=> handler[h].pc \in Locked)
    BY <1>4 DEF CheckRBAC, DeleteRows, WriteRow, Locked, UpdatePC, DeletePC
  <2>3. QED
    BY <2>1, <2>2, UnmovedGoto
<1>5. ASSUME \/ \E wanted \in Wanted : ReadRoles(h, wanted)
             \/ ReadTable(h) \/ LoadPolicy(h) \/ GetUserRoleMappingIds(h)
             \/ \E i \in Item : RemovePolicy(h, i) \/ AddPolicy(h, i) \/ DeleteRoleForUser(h, i)
             \/ PoliciesDone(h) \/ GetRolesForUser(h) \/ InvalidateDeleted(h)
      PROVE  LockInv'
  <2>1. UNCHANGED userReqState
    BY <1>5 DEF ReadRoles, ReadTable, LoadPolicy, GetUserRoleMappingIds, RemovePolicy, AddPolicy, DeleteRoleForUser, PoliciesDone,
                GetRolesForUser, InvalidateDeleted
  <2>2. ASSUME NEW rec, handler' = [handler EXCEPT ![h] = rec],
               rec.pc \in Locked => rec.user = handler[h].user,
               rec.pc \in Locked <=> handler[h].pc \in Locked
        PROVE  LockInv'
    BY <2>1, <2>2, Unmoved
  <2>3. ASSUME NEW wanted \in Wanted, ReadRoles(h, wanted)
        PROVE  LockInv'
    <3> DEFINE u == handler[h].user
               rec == [handler[h] EXCEPT !.pc = "rows", !.rows = roles[u] \ wanted,
                                         !.new = wanted \ roles[u], !.adds = wanted,
                                         !.todo = roles[u] \ wanted]
    <3>1. handler' = [handler EXCEPT ![h] = rec] /\ handler[h].pc = "read"
      BY <2>3 DEF ReadRoles
    <3>2. rec.user = handler[h].user /\ rec.pc \in Locked /\ handler[h].pc \in Locked
      BY <1>1, <3>1 DEF HandlerType, Locked, UpdatePC
    <3>3. QED
      BY <2>2, <3>1, <3>2
  <2>4. ASSUME NEW i \in Item, RemovePolicy(h, i) \/ AddPolicy(h, i)
        PROVE  LockInv'
    <3> DEFINE changed(adding) == Success(h, i, adding)
               rec(adding) == [handler[h] EXCEPT !.todo = @ \ {i}, !.dirty = @ \/ changed(adding)]
               same == [handler[h] EXCEPT !.todo = @ \ {i}]
               over == [handler[h] EXCEPT !.pc = NextLoop(h), !.todo = NextTodo(h), !.dirty = FALSE]
    <3>1. /\ \/ handler' = [handler EXCEPT ![h] = rec(TRUE)]
             \/ handler' = [handler EXCEPT ![h] = rec(FALSE)]
             \/ handler' = [handler EXCEPT ![h] = same]
             \/ handler' = [handler EXCEPT ![h] = over]
          /\ handler[h].pc \in Locked
      BY <2>4 DEF RemovePolicy, AddPolicy, PolicyChanged, PolicyFails, Locked, UpdatePC
    <3>2. /\ \A adding \in BOOLEAN :
               rec(adding).user = handler[h].user /\ rec(adding).pc = handler[h].pc
          /\ same.user = handler[h].user /\ same.pc = handler[h].pc
          /\ over.user = handler[h].user /\ over.pc \in Locked
      BY <1>1 DEF HandlerType, NextLoop, Locked, UpdatePC
    <3> HIDE DEF rec, same, over
    <3>3. QED
      BY <2>2, <3>1, <3>2
  <2>5. ASSUME NEW i \in Item, DeleteRoleForUser(h, i)
        PROVE  LockInv'
    <3> DEFINE rec == [handler[h] EXCEPT !.pc = "dinvalidate", !.todo = @ \ {i}, !.dirty = TRUE]
               same == [handler[h] EXCEPT !.pc = "dinvalidate", !.todo = @ \ {i}]
    <3>1. /\ \/ handler' = [handler EXCEPT ![h] = rec] \/ handler' = [handler EXCEPT ![h] = same]
             \/ handler' = [handler EXCEPT ![h] = Free]
          /\ handler[h].pc \notin Locked
      BY <2>5 DEF DeleteRoleForUser, Locked, UpdatePC
    <3>2. /\ rec.user = handler[h].user /\ same.user = handler[h].user
          /\ rec.pc \notin Locked /\ same.pc \notin Locked
      BY <1>1 DEF HandlerType, Locked, UpdatePC
    <3> HIDE DEF rec, same
    <3>3. QED
      BY <1>2, <2>2, <3>1, <3>2
  <2>6. CASE PoliciesDone(h)
    <3> DEFINE rec == [handler[h] EXCEPT !.pc = NextLoop(h), !.todo = NextTodo(h), !.dirty = FALSE]
    <3>1. handler' = [handler EXCEPT ![h] = rec] /\ handler[h].pc \in Locked
      BY <2>6 DEF PoliciesDone, Locked, UpdatePC
    <3>2. rec.user = handler[h].user /\ rec.pc \in Locked
      BY <1>1 DEF HandlerType, NextLoop, Locked, UpdatePC
    <3>3. QED
      BY <2>2, <3>1, <3>2
  <2>7. CASE GetRolesForUser(h)
    <3>1. PICK todo \in {grants[handler[h].user], {}} :
            handler' = [handler EXCEPT ![h] = [handler[h] EXCEPT !.pc = "drevoke", !.todo = todo]]
      BY <2>7 DEF GetRolesForUser
    <3> DEFINE rec == [handler[h] EXCEPT !.pc = "drevoke", !.todo = todo]
    <3>2. /\ rec.user = handler[h].user /\ rec.pc \notin Locked /\ handler[h].pc \notin Locked
      BY <1>1, <2>7 DEF GetRolesForUser, HandlerType, Locked, UpdatePC
    <3>3. QED
      BY <2>2, <3>1, <3>2
  <2>8. CASE InvalidateDeleted(h)
    <3> DEFINE rec == [handler[h] EXCEPT !.pc = "drevoke", !.dirty = FALSE]
    <3>1. handler' = [handler EXCEPT ![h] = rec] /\ handler[h].pc \notin Locked
      BY <2>8 DEF InvalidateDeleted, Locked, UpdatePC
    <3>2. rec.user = handler[h].user /\ rec.pc \notin Locked
      BY <1>1 DEF HandlerType, Locked, UpdatePC
    <3>3. QED
      BY <2>2, <3>1, <3>2
  <2>9. CASE ReadTable(h) \/ LoadPolicy(h)
    <3> DEFINE read == [handler[h] EXCEPT !.pc = IF @ = "load" THEN "apply" ELSE "reapply",
                                          !.snap = stored]
               loaded == [handler[h] EXCEPT !.pc = IF @ \in {"load", "apply"} THEN "read"
                                                                            ELSE "unlock",
                                            !.snap = NoSnap]
    <3>1. /\ \/ handler' = [handler EXCEPT ![h] = read]
             \/ handler' = [handler EXCEPT ![h] = loaded]
          /\ handler[h].pc \in {"load", "apply", "reload", "reapply"}
      BY <2>9 DEF ReadTable, LoadPolicy
    <3>2. handler[h].pc \in Locked
      BY <3>1 DEF Locked, UpdatePC
    <3>3. /\ read.user = handler[h].user /\ read.pc \in Locked
          /\ loaded.user = handler[h].user /\ loaded.pc \in Locked
      BY <1>1 DEF HandlerType, Locked, UpdatePC
    <3> HIDE DEF read, loaded
    <3>4. QED
      BY <2>2, <3>1, <3>2, <3>3
  <2>10. CASE GetUserRoleMappingIds(h)
    <3> DEFINE rec == [handler[h] EXCEPT !.pc = "drows", !.rows = roles[handler[h].user]]
    <3>1. handler' = [handler EXCEPT ![h] = rec] /\ handler[h].pc \notin Locked
      BY <2>10 DEF GetUserRoleMappingIds, Locked, UpdatePC
    <3>2. rec.user = handler[h].user /\ rec.pc \notin Locked
      BY <1>1 DEF HandlerType, Locked, UpdatePC
    <3>3. QED
      BY <2>2, <3>1, <3>2
  <2>11. QED
    BY <1>5, <2>3, <2>4, <2>5, <2>6, <2>7, <2>8, <2>9, <2>10
<1>6. ASSUME Commit(h)
      PROVE  LockInv'
  <2>1. UNCHANGED userReqState /\ handler[h].pc \in {"commit", "drevoke"}
    BY <1>6 DEF Commit
  <2>2. ASSUME NEW o \in Handler
        PROVE  /\ handler'[o].pc \in Locked <=> handler[o].pc \in Locked
               /\ handler'[o].pc \in Locked => handler'[o].user = handler[o].user
    BY <1>1, <1>2, <1>6, <2>1 DEF Commit, HandlerType, Locked, UpdatePC
  <2>3. ASSUME NEW u \in User
        PROVE  Updating(u)' = Updating(u)
    BY <2>2 DEF Updating, Serving
  <2>4. QED
    BY <2>1, <2>3 DEF LockInv
<1>7. ASSUME Rollback(h)
      PROVE  LockInv'
  <2>1. UNCHANGED userReqState
        /\ handler[h].pc \in {"row", "commit", "dread", "drows", "drow", "droles", "drevoke"}
    BY <1>7 DEF Rollback
  <2>2. CASE handler[h].pc \in DeletePC
    <3>1. handler' = [handler EXCEPT ![h] = Free] /\ handler[h].pc \notin Locked
      BY <1>7, <2>2 DEF Rollback, Locked, UpdatePC, DeletePC
    <3>2. QED
      BY <1>2, <2>1, <3>1, Unmoved
  <2>3. CASE handler[h].pc \notin DeletePC
    <3>1. Goto(h, "unlock") /\ handler[h].pc \in Locked
      BY <1>7, <2>1, <2>3 DEF Rollback, Locked, UpdatePC, DeletePC
    <3>2. "unlock" \in Locked /\ "unlock" \in UpdatePC
      BY DEF Locked, UpdatePC
    <3>3. QED
      BY <2>1, <3>1, <3>2, UnmovedGoto
  <2>4. QED
    BY <2>2, <2>3
<1>8. QED
  BY <1>3, <1>4, <1>5, <1>6, <1>7 DEF Update, Delete, Transaction

\* The lock of a user and the update that holds it go together.
LEMMA LockSafety == Spec => []LockInv
<1>1. Init => LockInv
  BY FreeShape, NoUserAssumption DEF Init, LockInv, Updating, Serving, Locked, UpdatePC
<1>2. LocalInv /\ LockInv /\ [Next]_vars => LockInv'
  <2> SUFFICES ASSUME LocalInv, LockInv, [Next]_vars PROVE LockInv'
    OBVIOUS
  <2>1. CASE Restart
    <3>1. \A u \in User : Updating(u)' = {} /\ ~userReqState'[u]
      BY <2>1, FreeShape DEF Restart, Updating, Serving, Locked, UpdatePC
    <3>2. QED
      BY <3>1 DEF LockInv
  <2>2. CASE Decide \/ UNCHANGED vars
    <3>1. UNCHANGED <<handler, userReqState>>
      BY <2>2 DEF Decide, vars
    <3>2. QED
      BY <3>1 DEF LockInv, Updating, Serving
  <2>3. ASSUME NEW h \in Handler, Update(h) \/ Delete(h) \/ Transaction(h)
        PROVE  LockInv'
    BY <2>3, LockMoves, LockStays
  <2>4. QED
    BY <2>1, <2>2, <2>3 DEF Next
<1>3. IInv => LocalInv
  BY DEF IInv
<1>4. QED
  BY <1>1, <1>2, <1>3, Safety, PTL DEF Spec

\* A user is locked exactly while one update of it is served, for any number
\* of handlers (UserService.go, lockUnlockUserReqState).
THEOREM OneUpdate == Spec => []OneUpdatePerUser
<1>1. ASSUME LockInv, NEW u \in User
      PROVE  Cardinality(Updating(u)) = IF userReqState[u] THEN 1 ELSE 0
  BY <1>1, FS_EmptySet, FS_Singleton DEF LockInv
<1>2. LockInv => OneUpdatePerUser
  BY <1>1 DEF OneUpdatePerUser
<1>3. QED
  BY <1>2, LockSafety, PTL

-----------------------------------------------------------------------------
\* A batch leaves fewer items unanswered than it may have goroutines, besides
\* those that failed, whatever the requests that change users do meanwhile, for
\* any batch size and any batch (rbac.go, 214-230).
THEOREM BatchAnswered == Spec => []FewLeftUnanswered
<1>1. Init => P!FewLeftOut
  BY DEF Init, EC!Init, EC!Idle, P!FewLeftOut
<1>2. IInv /\ P!FewLeftOut /\ [Next]_vars => P!FewLeftOut'
  <2> SUFFICES ASSUME IInv, P!FewLeftOut, [Next]_vars PROVE P!FewLeftOut'
    OBVIOUS
  <2>1. [P!Next]_(P!vars) /\ P!IInv
    BY StepImplements, SameNext, SameIInv DEF IInv
  <2>2. QED
    BY <2>1, P!NextLeftOut, AskedAssumption, BatchSizeAssumption, ItemAssumption,
       NoUserAssumption, RequestAssumption DEF IsFiniteSet, P!IsFiniteSet
<1>3. P!FewLeftOut => FewLeftUnanswered
  <2>1. \A r \in Batch : req[r].todo = {} => EC!Unanswered(r) = P!LeftOut(req[r])
    BY DEF EC!Unanswered, P!LeftOut
  <2>2. QED
    BY <2>1 DEF P!FewLeftOut, P!Few, FewLeftUnanswered, EC!FewLeftUnanswered,
                EC!Cardinality, P!Cardinality
<1>4. QED
  BY <1>1, <1>2, <1>3, Safety, PTL DEF Spec

-----------------------------------------------------------------------------
(***************************************************************************)
(* Casbin's three copies of the policies.  They differ only for a user of  *)
(* whom a write has failed, or whose links a reload has moved: what a      *)
(* rebuild of the links changes is on record as torn.                      *)
(***************************************************************************)
Agreed(u) == grants[u] = rules[u] /\ rules[u] = stored[u]
PolicyInv == OwedIsTorn /\ \A u \in User : scar[u] # "torn" => Agreed(u)

\* A torn user stays torn, and the others keep or change all three together.
LEMMA PolicyKeeps ==
  ASSUME PolicyInv, owed' \subseteq owed \cup {u \in User : scar'[u] = "torn"},
         \A u \in User : scar'[u] # "torn" => scar[u] # "torn" /\ Agreed(u)',
         EC!TypeOK
  PROVE  PolicyInv'
<1>1. OwedIsTorn'
  BY DEF PolicyInv, OwedIsTorn, EC!TypeOK
<1>2. QED
  BY <1>1 DEF PolicyInv

\* A policy that is written is written in all three.
LEMMA WriteEffect ==
  ASSUME IInv, PolicyInv, NEW h \in Handler, NEW u \in User, handler[h].user = u,
         NEW i \in Item, NEW adding \in BOOLEAN, Write(h, i, adding),
         handler'[h].user = u, Success(h, i, adding) => handler'[h].dirty
  PROVE  /\ PolicyInv' /\ UNCHANGED scar
         /\ \A v \in User \ {u} : scar[v] # "torn" => grants'[v] = grants[v]
         /\ scar[u] # "torn" =>
              grants'[u] = IF adding THEN grants[u] \cup {i} ELSE grants[u] \ {i}
<1> DEFINE own == With(h, i, adding)
<1>1. /\ grants \in [User -> SUBSET Item] /\ rules \in [User -> SUBSET Item]
      /\ stored \in [User -> SUBSET Item] /\ EC!TypeOK /\ owed \subseteq User
  BY DEF IInv, LocalInv, Rows, EC!IInv, EC!TypeOK
<1>2. /\ own = IF adding THEN rules[u] \cup {i} ELSE rules[u] \ {i}
      /\ Alters(h, i, adding) <=> own # rules[u]
  BY DEF With, Alters
<1>3. /\ rules' = [rules EXCEPT ![u] = own] /\ grants' = [rules EXCEPT ![u] = own]
      /\ stored' = [stored EXCEPT ![u] = IF ~GoesToTable(h, i, adding) THEN @
                                         ELSE IF adding THEN @ \cup {i} ELSE @ \ {i}]
      /\ UNCHANGED scar
      /\ owed' = owed \cup {v \in User : [rules EXCEPT ![u] = own][v] # grants[v]
                                         /\ ~(v = u /\ handler'[h].dirty)}
  BY DEF Write, Rebuild
<1> HIDE DEF own
<1>4. \A v \in User \ {u} : /\ rules'[v] = rules[v] /\ grants'[v] = rules[v]
                            /\ stored'[v] = stored[v]
  BY <1>1, <1>3
<1>5. rules'[u] = own /\ grants'[u] = own
  BY <1>1, <1>3
<1>6. scar[u] # "torn" => Agreed(u) /\ stored'[u] = own
  <2>1. Alters(h, i, adding) => GoesToTable(h, i, adding)
    BY DEF GoesToTable
  <2>2. QED
    BY <1>1, <1>2, <1>3, <2>1 DEF PolicyInv, Agreed
<1>7. \A v \in User : scar[v] # "torn" => Agreed(v)'
  BY <1>4, <1>5, <1>6 DEF PolicyInv, Agreed
<1>8. ASSUME NEW v \in User, [rules EXCEPT ![u] = own][v] # grants[v],
             ~(v = u /\ handler'[h].dirty), scar[v] # "torn"
      PROVE  FALSE
  <2>1. CASE v # u
    BY <1>1, <1>8, <2>1 DEF PolicyInv, Agreed
  <2>2. CASE v = u
    <3>1. own # grants[u] /\ ~Success(h, i, adding)
      BY <1>1, <1>8, <2>2
    <3>2. own = rules[u]
      BY <1>2, <3>1 DEF Success
    <3>3. QED
      BY <1>8, <2>2, <3>1, <3>2 DEF PolicyInv, Agreed
  <2>3. QED
    BY <2>1, <2>2
<1>9. owed' \subseteq owed \cup {v \in User : scar'[v] = "torn"}
  BY <1>3, <1>8
<1>10. PolicyInv'
  BY <1>1, <1>3, <1>7, <1>9, PolicyKeeps, Zenon
<1>11. QED
  BY <1>2, <1>3, <1>4, <1>5, <1>6, <1>10 DEF PolicyInv, Agreed

\* A failing write leaves its user torn.
LEMMA FailEffect ==
  ASSUME IInv, PolicyInv, NEW h \in Handler, NEW u \in User, handler[h].user = u,
         NEW i \in Item, NEW adding \in BOOLEAN, WriteFails(h, i, adding),
         owed' \subseteq owed \cup {u}
  PROVE  /\ PolicyInv' /\ UNCHANGED grants /\ scar'[u] = "torn"
         /\ \A v \in User \ {u} : scar'[v] = scar[v]
<1>1. /\ rules \in [User -> SUBSET Item] /\ scar \in [User -> {"none", "overlap", "torn"}]
      /\ EC!TypeOK
  BY DEF IInv, LocalInv, Rows, EC!IInv
<1>2. UNCHANGED <<grants, stored>> /\ scar' = [scar EXCEPT ![u] = "torn"]
  BY <1>1 DEF WriteFails, Scar
<1>3. \A v \in User \ {u} : rules'[v] = rules[v]
  BY <1>1 DEF WriteFails
<1>4. \A v \in User : scar'[v] # "torn" => scar[v] # "torn" /\ Agreed(v)'
  BY <1>1, <1>2, <1>3 DEF PolicyInv, Agreed
<1>5. owed' \subseteq owed \cup {v \in User : scar'[v] = "torn"}
  BY <1>1, <1>2
<1>6. PolicyInv'
  BY <1>1, <1>4, <1>5, PolicyKeeps
<1>7. QED
  BY <1>1, <1>2, <1>6

\* A reload leaves torn whose links it moves.
LEMMA LoadEffect ==
  ASSUME IInv, PolicyInv, NEW h \in Handler, LoadPolicy(h)
  PROVE  /\ PolicyInv'
         /\ \A v \in User : scar'[v] # "torn" => scar'[v] = scar[v] /\ grants'[v] = grants[v]
<1>1. PICK new : /\ Rebuild(h, new) /\ UNCHANGED stored
                 /\ scar' = [v \in User |-> IF new[v] # grants[v] THEN "torn" ELSE scar[v]]
  BY DEF LoadPolicy
<1>2. rules' = new /\ grants' = new /\ EC!TypeOK
  BY <1>1 DEF Rebuild, IInv, EC!IInv
<1>3. owed' \subseteq owed \cup {v \in User : scar'[v] = "torn"}
  BY <1>1 DEF Rebuild
<1>4. \A v \in User : scar'[v] # "torn" => scar'[v] = scar[v] /\ new[v] = grants[v]
  BY <1>1
<1>5. \A v \in User : scar'[v] # "torn" => scar[v] # "torn" /\ Agreed(v)'
  BY <1>1, <1>2, <1>4 DEF PolicyInv, Agreed
<1>6. PolicyInv'
  BY <1>2, <1>3, <1>5, PolicyKeeps
<1>7. QED
  BY <1>2, <1>4, <1>6

\* The other steps leave the policies as they are, or are a restart.
LEMMA PolicyRest ==
  ASSUME IInv, PolicyInv, UNCHANGED <<grants, rules, stored>>, owed' \subseteq owed,
         \A u \in User : scar'[u] # "torn" => scar[u] # "torn"
  PROVE  PolicyInv'
<1>1. \A u \in User : scar'[u] # "torn" => scar[u] # "torn" /\ Agreed(u)'
  BY DEF PolicyInv, Agreed
<1>2. owed' \subseteq owed \cup {v \in User : scar'[v] = "torn"} /\ EC!TypeOK
  BY DEF IInv, EC!IInv
<1>3. QED
  BY <1>1, <1>2, PolicyKeeps

\* What a handler does to the policies of a user: nothing, ...
LEMMA PolicyCalm ==
  ASSUME IInv, PolicyInv, NEW h \in Handler,
         \/ \E u \in User : UpdateUser(h, u) \/ DeleteUser(h, u)
         \/ lockUserReqState(h) \/ unlockUserReqState(h) \/ ReadTable(h)
         \/ \E wanted \in Wanted : ReadRoles(h, wanted)
         \/ CheckRBAC(h) \/ PoliciesDone(h) \/ GetUserRoleMappingIds(h) \/ GetRolesForUser(h)
         \/ InvalidateDeleted(h) \/ Transaction(h)
  PROVE  PolicyInv'
<1>1. UNCHANGED <<grants, rules, stored>>
  BY DEF UpdateUser, DeleteUser, lockUserReqState, unlockUserReqState, ReadTable, ReadRoles,
         CheckRBAC, PoliciesDone, GetUserRoleMappingIds, GetRolesForUser, InvalidateDeleted,
         Transaction, DeleteRows, WriteRow, Commit, Rollback, EC!InvalidateCache, cacheVars, casbinVars
<1>2. owed' \subseteq owed
  BY DEF UpdateUser, DeleteUser, lockUserReqState, unlockUserReqState, ReadTable, ReadRoles,
         CheckRBAC, PoliciesDone, GetUserRoleMappingIds, GetRolesForUser, InvalidateDeleted,
         Transaction, DeleteRows, WriteRow, Commit, Rollback, EC!InvalidateCache, cacheVars
<1>3. UNCHANGED scar \/ \E u, s : Scar(u, s)
  BY DEF UpdateUser, DeleteUser, lockUserReqState, unlockUserReqState, ReadTable, ReadRoles,
         CheckRBAC, PoliciesDone, GetUserRoleMappingIds, GetRolesForUser, InvalidateDeleted,
         Transaction, DeleteRows, WriteRow, Commit, Rollback
<1>4. \A u \in User : scar'[u] # "torn" => scar[u] # "torn"
  BY <1>3 DEF Scar, IInv, LocalInv, Rows
<1>5. QED
  BY <1>1, <1>2, <1>4, PolicyRest

\* ... or a write.
LEMMA PolicyWrites ==
  ASSUME IInv, PolicyInv, NEW h \in Handler, NEW i \in Item,
         RemovePolicy(h, i) \/ AddPolicy(h, i) \/ DeleteRoleForUser(h, i)
  PROVE  PolicyInv'
<1>1. handler \in [Handler -> HandlerType] /\ handler[h] \in HandlerType
  BY DEF IInv, LocalInv, Rows
<1>2. PICK u \in User : handler[h].user = u
  BY <1>1 DEF RemovePolicy, AddPolicy, DeleteRoleForUser, IInv, LocalInv, Shape, HandlerType
<1>3. ASSUME NEW adding \in BOOLEAN, PolicyChanged(h, i, adding)
      PROVE  PolicyInv'
  <2>1. handler'[h].user = u /\ (Success(h, i, adding) => handler'[h].dirty)
    BY <1>1, <1>2, <1>3 DEF PolicyChanged, HandlerType
  <2>2. QED
    BY <1>2, <1>3, <2>1, WriteEffect DEF PolicyChanged
<1>4. ASSUME NEW adding \in BOOLEAN, PolicyFails(h, i, adding)
      PROVE  PolicyInv'
  BY <1>2, <1>4, FailEffect DEF PolicyFails
<1>5. ASSUME DeleteRoleForUser(h, i)
      PROVE  PolicyInv'
  <2>1. CASE /\ Write(h, i, FALSE)
             /\ handler' = [handler EXCEPT ![h] = [handler[h] EXCEPT !.pc = "dinvalidate",
                                                     !.todo = @ \ {i}, !.dirty = TRUE]]
    <3>1. handler'[h].user = u /\ handler'[h].dirty
      BY <1>1, <1>2, <2>1 DEF HandlerType
    <3>2. QED
      BY <1>2, <2>1, <3>1, WriteEffect
  <2>2. CASE WriteFails(h, i, FALSE) /\ UNCHANGED owed
    BY <1>2, <2>2, FailEffect
  <2>3. QED
    BY <1>5, <2>1, <2>2 DEF DeleteRoleForUser
<1>6. QED
  BY <1>3, <1>4, <1>5 DEF RemovePolicy, AddPolicy

\* The invariant holds of every run.
LEMMA PolicySafety == Spec => []PolicyInv
<1>1. Init => PolicyInv
  BY DEF Init, EC!Init, PolicyInv, OwedIsTorn, Agreed
<1>2. IInv /\ PolicyInv /\ [Next]_vars => PolicyInv'
  <2> SUFFICES ASSUME IInv, PolicyInv, [Next]_vars PROVE PolicyInv'
    OBVIOUS
  <2>1. CASE Restart
    BY <2>1 DEF Restart, EC!Restart, PolicyInv, OwedIsTorn, Agreed
  <2>2. CASE Decide \/ UNCHANGED vars
    <3>1. UNCHANGED <<grants, rules, stored, owed, scar>>
      BY <2>2 DEF Decide, vars, cacheVars, casbinVars, EC!Enforce, EC!Expire,
             EC!enforceFromCache, EC!enforceHit, EC!enforceAndUpdateCache,
             EC!batchEnforceFromCache, EC!enforceByEmailInBatchSync, EC!EnforceByEmailInBatch
    <3>2. QED
      BY <3>1, PolicyRest
  <2>3. ASSUME NEW h \in Handler, Update(h) \/ Delete(h) \/ Transaction(h)
        PROVE  PolicyInv'
    BY <2>3, PolicyCalm, PolicyWrites, LoadEffect DEF Update, Delete
  <2>4. QED
    BY <2>1, <2>2, <2>3 DEF Next
<1>3. QED
  BY <1>1, <1>2, Safety, PTL DEF Spec

\* Nobody is owed an invalidation while Casbin's table does not fail and no
\* reload undoes a change, for any number of requests: what the handlers change
\* they invalidate themselves (Adapter.go, AddPolicy, RemovePolicy).
THEOREM OwedAreTorn == Spec => []OwedIsTorn
<1>1. PolicyInv => OwedIsTorn
  BY DEF PolicyInv
<1>2. QED
  BY <1>1, PolicySafety, PTL

-----------------------------------------------------------------------------
(***************************************************************************)
(* What the requests that change users leave behind, for any users, items  *)
(* and handlers: rows and policies that say the same, unless a request     *)
(* overlapped a deletion or failed in the middle, and no policies of a     *)
(* deleted user.                                                           *)
(*                                                                         *)
(* Clean follows a user through an update or a deletion that nothing       *)
(* disturbs: at each point the policies are the rows before the request    *)
(* with what it has changed so far.  Powerless is what still holds when a  *)
(* deletion and an update overlap: what Casbin has for the user is still   *)
(* to be revoked, or an update has added it that will write the row of the *)
(* user after the deletion.                                                *)
(***************************************************************************)

\* One transaction at a time has updated the row of a user.
OneRow(u) ==
  \A h, o \in Handler :
    (/\ handler[h].user = u /\ handler[h].pc \in RowHeld
     /\ handler[o].user = u /\ handler[o].pc \in RowHeld) => h = o

\* No deletion is served beside an update that has the lock.
Apart(u) ==
  \A h, o \in Handler :
    ~(/\ handler[h].user = u /\ handler[h].pc \in Locked
      /\ handler[o].user = u /\ handler[o].pc \in DeletePC)

\* An update has changed of the policies g what it no longer has to do.
UpdateOf(rec, g, r) ==
  /\ rec.pc \in {"rows", "remove", "add"} => rec.adds = (r \ rec.rows) \cup rec.new
  /\ rec.pc = "rows" => rec.todo = rec.rows
  /\ rec.pc = "remove" => rec.todo \subseteq rec.rows /\ g = r \ (rec.rows \ rec.todo)
  /\ rec.pc = "add" => rec.todo \subseteq rec.adds /\ g = (r \ rec.rows) \cup (rec.new \ rec.todo)
  /\ rec.pc \in {"row", "commit"} => g = (r \ rec.rows) \cup rec.new

\* A deletion has still to revoke what there is.
DeleteOf(rec, g, r) ==
  /\ rec.pc \in DeletePC => rec.new = {}
  /\ rec.pc \in DeletePC \ {"dread"} => rec.rows = r
  /\ rec.pc \in {"drevoke", "dinvalidate"} => g = rec.todo

Untouched(u) == \A h \in Handler : handler[h].user = u => handler[h].pc \notin InCasbin

Clean(u) ==
  /\ Apart(u)
  /\ \A h \in Handler : handler[h].user = u =>
       UpdateOf(handler[h], grants[u], roles[u]) /\ DeleteOf(handler[h], grants[u], roles[u])
  /\ Untouched(u) => grants[u] = roles[u]
  /\ active[u] \/ roles[u] = {}

\* An update may have added policies, and has not committed.
Adding(u) == \E h \in Handler : handler[h].user = u /\ handler[h].pc \in {"add", "row", "commit"}

Powerless(u) ==
  /\ active[u] \/ grants[u] = {} \/ Adding(u)
  /\ \A h \in Handler :
       handler[h].user = u /\ handler[h].pc \in {"drevoke", "dinvalidate"} =>
         grants[u] \subseteq handler[h].todo \/ Adding(u)

RolesInv ==
  \A u \in User :
    OneRow(u) /\ (scar[u] = "none" => Clean(u)) /\ (scar[u] # "torn" => Powerless(u))

-----------------------------------------------------------------------------
\* No request for the user moves, nor do its rows.
LEMMA OtherUser ==
  ASSUME NEW u \in User, roles'[u] = roles[u], active'[u] = active[u],
         \A o \in Handler : handler'[o].user = u \/ handler[o].user = u => handler'[o] = handler[o]
  PROVE  /\ OneRow(u) => OneRow(u)'
         /\ grants'[u] = grants[u] => (Clean(u) => Clean(u)') /\ (Powerless(u) => Powerless(u)')
<1>1. OneRow(u) => OneRow(u)'
  BY DEF OneRow
<1>2. Apart(u) => Apart(u)'
  BY DEF Apart
<1>3. Untouched(u) <=> Untouched(u)'
  BY DEF Untouched
<1>4. Adding(u) <=> Adding(u)'
  BY DEF Adding
<1>5. ASSUME grants'[u] = grants[u]
      PROVE  Clean(u) => Clean(u)'
  BY <1>2, <1>3, <1>5 DEF Clean
<1>6. ASSUME grants'[u] = grants[u]
      PROVE  Powerless(u) => Powerless(u)'
  BY <1>4, <1>6 DEF Powerless
<1>7. QED
  BY <1>1, <1>5, <1>6

-----------------------------------------------------------------------------
(***************************************************************************)
(* Steps of one handler h for a user u: they do nothing to the other       *)
(* users, apart from the policies of those that are torn.                  *)
(***************************************************************************)
\* Only handler h has moved, for user u alone.
StepFor(h, u, rec) ==
  /\ rec \in HandlerType
  /\ handler' = [handler EXCEPT ![h] = rec]
  /\ handler[h].user \in {u, NoUser} /\ rec.user \in {u, NoUser}
  /\ \A v \in User \ {u} :
       /\ roles'[v] = roles[v] /\ active'[v] = active[v]
       /\ scar'[v] # "torn" => scar'[v] = scar[v] /\ grants'[v] = grants[v]

\* It is enough to look at the user served.
LEMMA OneUser ==
  ASSUME LocalInv, RolesInv, NEW h \in Handler, NEW u \in User, NEW rec, StepFor(h, u, rec),
         OneRow(u)', scar'[u] = "none" => Clean(u)', scar'[u] # "torn" => Powerless(u)'
  PROVE  RolesInv'
<1>1. handler \in [Handler -> HandlerType]
  BY DEF LocalInv, Rows
<1>2. ASSUME NEW v \in User, v # u
      PROVE  /\ OneRow(v)'
             /\ scar'[v] = "none" => Clean(v)'
             /\ scar'[v] # "torn" => Powerless(v)'
  <2>1. \A o \in Handler : handler'[o].user = v \/ handler[o].user = v => handler'[o] = handler[o]
    BY <1>1, <1>2, NoUserAssumption DEF StepFor
  <2>2. /\ roles'[v] = roles[v] /\ active'[v] = active[v]
        /\ scar'[v] # "torn" => scar'[v] = scar[v] /\ grants'[v] = grants[v]
    BY <1>2 DEF StepFor
  <2>3. OneRow(v) /\ (scar[v] = "none" => Clean(v)) /\ (scar[v] # "torn" => Powerless(v))
    BY DEF RolesInv
  <2>4. QED
    BY <2>1, <2>2, <2>3, OtherUser
<1>3. QED
  BY <1>2 DEF RolesInv

\* The update with the lock is one.
LEMMA OneLocked ==
  ASSUME LocalInv, LockInv, NEW u \in User, NEW h \in Handler, NEW o \in Handler,
         handler[h].user = u, handler[o].user = u, handler[h].pc \in Locked, handler[o].pc \in Locked
  PROVE  h = o
<1>1. h \in Updating(u) /\ o \in Updating(u)
  BY DEF Updating, Serving
<1>2. QED
  BY <1>1 DEF LockInv

\* The handler goes on without a change of rows or policies.
Onward ==
  {<<"rows", "remove">>, <<"drows", "drow">>, <<"load", "unlock">>, <<"read", "unlock">>,
   <<"rows", "unlock">>, <<"row", "commit">>, <<"drow", "droles">>, <<"dinvalidate", "drevoke">>}

\* So what it has still to do stays as it is.
LEMMA OnwardKeeps ==
  ASSUME LocalInv, LockInv, RolesInv, NEW h \in Handler, NEW u \in User, NEW rec,
         StepFor(h, u, rec), handler[h].user = u, rec.user = u,
         UNCHANGED <<grants, roles, active, scar>>,
         rec.rows = handler[h].rows, rec.new = handler[h].new, rec.todo = handler[h].todo,
         rec.adds = handler[h].adds,
         NEW from, NEW to, <<from, to>> \in Onward, handler[h].pc = from, rec.pc = to,
         (from = "row" \/ from = "drow") =>
           \A o \in Handler : o # h /\ handler[o].user = u => handler[o].pc \notin RowHeld
  PROVE  RolesInv'
<1>1. handler \in [Handler -> HandlerType]
  BY DEF LocalInv, Rows
<1>2. \A o \in Handler : handler'[o] = IF o = h THEN rec ELSE handler[o]
  BY <1>1 DEF StepFor
<1>3. \/ from = "rows" /\ to \in {"remove", "unlock"}
      \/ from = "drows" /\ to = "drow"
      \/ from \in {"load", "read"} /\ to = "unlock"
      \/ from = "row" /\ to = "commit"
      \/ from = "drow" /\ to = "droles"
      \/ from = "dinvalidate" /\ to = "drevoke"
  BY DEF Onward
<1>4. OneRow(u)'
  BY <1>2, <1>3 DEF RolesInv, OneRow, RowHeld
<1>5. ASSUME scar'[u] = "none" PROVE Clean(u)'
  <2>1. Clean(u) /\ Apart(u)
    BY <1>5 DEF RolesInv, Clean
  <2>2. Apart(u)'
    BY <1>2, <1>3, <2>1 DEF Apart, Locked, UpdatePC, DeletePC
  <2>3. Untouched(u)' => grants[u] = roles[u]
    BY <1>2, <1>3, <2>1 DEF Clean, Untouched, InCasbin
  <2>4. from = "rows" => Untouched(u)
    <3> SUFFICES ASSUME from = "rows", NEW o \in Handler, handler[o].user = u
                 PROVE  handler[o].pc \notin InCasbin
      BY DEF Untouched
    <3>1. handler[h].pc \in Locked
      BY DEF Locked, UpdatePC
    <3>2. handler[o].pc \in Locked => o = h
      BY <3>1, OneLocked
    <3>3. handler[o].pc \notin DeletePC
      BY <2>1, <3>1 DEF Apart
    <3>4. QED
      BY <3>2, <3>3 DEF InCasbin, Locked, UpdatePC, DeletePC
  <2>5. UpdateOf(rec, grants[u], roles[u]) /\ DeleteOf(rec, grants[u], roles[u])
    BY <1>3, <2>1, <2>4 DEF Clean, UpdateOf, DeleteOf, DeletePC
  <2>6. QED
    BY <1>2, <2>1, <2>2, <2>3, <2>5 DEF Clean
<1>6. ASSUME scar'[u] # "torn" PROVE Powerless(u)'
  <2>1. Powerless(u)
    BY <1>6 DEF RolesInv
  <2>2. Adding(u) => Adding(u)'
    BY <1>2, <1>3 DEF Adding
  <2>3. QED
    BY <1>2, <1>3, <2>1, <2>2 DEF Powerless
<1>7. QED
  BY <1>4, <1>5, <1>6, OneUser
\* A handler that has not changed a policy leaves the user, or fails.
LEMMA LeaveKeeps ==
  ASSUME LocalInv, RolesInv, NEW h \in Handler, NEW u \in User, StepFor(h, u, Free),
         handler[h].user = u, UNCHANGED <<grants, roles, active>>,
         \/ handler[h].pc \notin InCasbin /\ scar'[u] = scar[u]
         \/ scar'[u] = "torn"
  PROVE  RolesInv'
<1>1. handler \in [Handler -> HandlerType]
  BY DEF LocalInv, Rows
<1>2. \A o \in Handler : handler'[o] = IF o = h THEN Free ELSE handler[o]
  BY <1>1 DEF StepFor
<1>3. Free.user # u
  BY FreeShape, NoUserAssumption
<1>4. OneRow(u)'
  BY <1>2, <1>3 DEF RolesInv, OneRow
<1>5. ASSUME scar'[u] = "none" PROVE Clean(u)'
  <2>1. Clean(u) /\ Apart(u) /\ handler[h].pc \notin InCasbin
    BY <1>5 DEF RolesInv, Clean
  <2>2. Apart(u)'
    BY <1>2, <1>3, <2>1 DEF Apart
  <2>3. Untouched(u)' => Untouched(u)
    BY <1>2, <1>3, <2>1 DEF Untouched
  <2>4. QED
    BY <1>2, <1>3, <2>1, <2>2, <2>3 DEF Clean
<1>6. ASSUME scar'[u] # "torn" PROVE Powerless(u)'
  <2>1. Powerless(u) /\ handler[h].pc \notin InCasbin
    BY <1>6 DEF RolesInv
  <2>2. Adding(u) => Adding(u)'
    BY <1>2, <1>3, <2>1 DEF Adding, InCasbin
  <2>3. QED
    BY <1>2, <1>3, <2>1, <2>2 DEF Powerless
<1>7. QED
  BY <1>4, <1>5, <1>6, OneUser

\* A step that fails while policies may have changed leaves the user torn.
LEMMA TornKeeps ==
  ASSUME LocalInv, RolesInv, NEW h \in Handler, NEW u \in User, NEW rec, StepFor(h, u, rec),
         handler[h].user = u, rec.pc \in RowHeld => handler[h].pc \in RowHeld, scar'[u] = "torn"
  PROVE  RolesInv'
<1>1. handler \in [Handler -> HandlerType]
  BY DEF LocalInv, Rows
<1>2. \A o \in Handler : handler'[o] = IF o = h THEN rec ELSE handler[o]
  BY <1>1 DEF StepFor
<1>3. OneRow(u)'
  BY <1>2 DEF RolesInv, OneRow
<1>4. QED
  BY <1>3, OneUser

\* A request for a user is taken up, before its lock.
LEMMA TakeKeeps ==
  ASSUME LocalInv, RolesInv, NEW h \in Handler, NEW u \in User, NEW rec, StepFor(h, u, rec),
         handler[h].user = NoUser, rec.user = u, rec.pc = "lock",
         UNCHANGED <<grants, roles, active, scar>>
  PROVE  RolesInv'
<1>1. handler \in [Handler -> HandlerType]
  BY DEF LocalInv, Rows
<1>2. \A o \in Handler : handler'[o] = IF o = h THEN rec ELSE handler[o]
  BY <1>1 DEF StepFor
<1>3. OneRow(u)'
  BY <1>2 DEF RolesInv, OneRow, RowHeld
<1>4. ASSUME scar'[u] = "none" PROVE Clean(u)'
  <2>1. Clean(u) /\ Apart(u)
    BY <1>4 DEF RolesInv, Clean
  <2>2. Apart(u)'
    BY <1>2, <2>1 DEF Apart, Locked, UpdatePC, DeletePC
  <2>3. Untouched(u)' => Untouched(u)
    BY <1>2, NoUserAssumption DEF Untouched
  <2>4. QED
    BY <1>2, <2>1, <2>2, <2>3 DEF Clean, UpdateOf, DeleteOf, DeletePC
<1>5. ASSUME scar'[u] # "torn" PROVE Powerless(u)'
  <2>1. Powerless(u)
    BY <1>5 DEF RolesInv
  <2>2. Adding(u) => Adding(u)'
    BY <1>2, NoUserAssumption DEF Adding
  <2>3. QED
    BY <1>2, <2>1, <2>2 DEF Powerless
<1>6. QED
  BY <1>3, <1>4, <1>5, OneUser

\* The lock is taken; a deletion that is served beside it is on record.
LEMMA LockKeeps ==
  ASSUME LocalInv, RolesInv, NEW h \in Handler, NEW u \in User, NEW rec, StepFor(h, u, rec),
         handler[h].user = u, handler[h].pc = "lock", rec.user = u, rec.pc = "load",
         UNCHANGED <<grants, roles, active>>, scar'[u] # "torn" => scar[u] # "torn",
         scar'[u] = "none" => scar[u] = "none" /\ Deleting(u) = {}
  PROVE  RolesInv'
<1>1. handler \in [Handler -> HandlerType] /\ scar[u] \in {"none", "overlap", "torn"}
  BY DEF LocalInv, Rows
<1>2. \A o \in Handler : handler'[o] = IF o = h THEN rec ELSE handler[o]
  BY <1>1 DEF StepFor
<1>3. OneRow(u)'
  BY <1>2 DEF RolesInv, OneRow, RowHeld
<1>4. ASSUME scar'[u] = "none" PROVE Clean(u)'
  <2>1. Clean(u) /\ Deleting(u) = {}
    BY <1>4 DEF RolesInv
  <2>2. Apart(u)'
    BY <1>2, <2>1 DEF Apart, Deleting, Serving, Locked, UpdatePC, DeletePC
  <2>3. Untouched(u)' => Untouched(u)
    BY <1>2 DEF Untouched, InCasbin
  <2>4. QED
    BY <1>2, <2>1, <2>2, <2>3 DEF Clean, UpdateOf, DeleteOf, DeletePC
<1>5. ASSUME scar'[u] # "torn", scar[u] # "torn" PROVE Powerless(u)'
  <2>1. Powerless(u)
    BY <1>5 DEF RolesInv
  <2>2. Adding(u) => Adding(u)'
    BY <1>2 DEF Adding
  <2>3. QED
    BY <1>2, <2>1, <2>2 DEF Powerless
<1>7. QED
  BY <1>3, <1>4, <1>5, OneUser

\* The handler h, which serves u, goes from one record to another: what has to
\* hold of the record, and what the others must leave room for.
LEMMA WorkKeeps ==
  ASSUME LocalInv, RolesInv, NEW h \in Handler, NEW u \in User, NEW rec, StepFor(h, u, rec),
         handler[h].user = u, rec.user = u, UNCHANGED <<roles, active>>,
         scar'[u] = scar[u],
         rec.pc \in RowHeld => handler[h].pc \in RowHeld,
         rec.pc \in Locked => handler[h].pc \in Locked,
         rec.pc \in DeletePC => handler[h].pc \in DeletePC,
         \/ rec.pc \in InCasbin
         \/ handler[h].pc \notin InCasbin /\ grants'[u] = grants[u],
         scar[u] = "none" /\ Clean(u) =>
           /\ UpdateOf(rec, grants'[u], roles[u]) /\ DeleteOf(rec, grants'[u], roles[u])
           /\ grants'[u] = grants[u] \/ \A o \in Handler :
                o # h /\ handler[o].user = u => handler[o].pc \notin InCasbin,
         handler[h].pc \in {"add", "row", "commit"} => rec.pc \in {"add", "row", "commit"},
         scar[u] # "torn" => grants'[u] \subseteq grants[u] \/ rec.pc \in {"add", "row", "commit"},
         rec.pc \in {"drevoke", "dinvalidate"} /\ scar[u] # "torn" /\ Powerless(u) =>
           grants'[u] \subseteq rec.todo \/ Adding(u)
  PROVE  RolesInv'
<1>1. handler \in [Handler -> HandlerType]
  BY DEF LocalInv, Rows
<1>2. \A o \in Handler : handler'[o] = IF o = h THEN rec ELSE handler[o]
  BY <1>1 DEF StepFor
<1>3. OneRow(u)'
  BY <1>2 DEF RolesInv, OneRow
<1>4. ASSUME scar'[u] = "none" PROVE Clean(u)'
  <2>1. Clean(u) /\ Apart(u)
    BY <1>4 DEF RolesInv, Clean
  <2>2. Apart(u)'
    BY <1>2, <2>1 DEF Apart
  <2>3. Untouched(u)' => grants'[u] = roles'[u]
    BY <1>2, <2>1 DEF Clean, Untouched
  <2>4. ASSUME NEW o \in Handler, handler'[o].user = u
        PROVE  /\ UpdateOf(handler'[o], grants'[u], roles'[u])
               /\ DeleteOf(handler'[o], grants'[u], roles'[u])
    <3>1. CASE o = h
      BY <1>2, <1>4, <2>1, <3>1
    <3>2. CASE o # h /\ grants'[u] = grants[u]
      BY <1>2, <2>1, <2>4, <3>2 DEF Clean
    <3>3. CASE o # h /\ handler[o].pc \notin InCasbin
      BY <1>2, <2>1, <2>4, <3>3 DEF Clean, UpdateOf, DeleteOf, InCasbin
    <3>4. QED
      BY <1>2, <1>4, <2>1, <2>4, <3>1, <3>2, <3>3
  <2>5. QED
    BY <2>1, <2>2, <2>3, <2>4 DEF Clean
<1>5. ASSUME scar'[u] # "torn" PROVE Powerless(u)'
  <2>1. Powerless(u)
    BY <1>5 DEF RolesInv
  <2>2. Adding(u) => Adding(u)'
    BY <1>2 DEF Adding
  <2>3. rec.pc \in {"add", "row", "commit"} => Adding(u)'
    BY <1>2 DEF Adding
  <2>4. QED
    BY <1>2, <1>5, <2>1, <2>2, <2>3 DEF Powerless
<1>6. QED
  BY <1>3, <1>4, <1>5, OneUser

\* In a clean user nobody else changes policies beside an update that has the
\* lock, or beside a deletion that has written the row.
LEMMA Alone ==
  ASSUME LocalInv, LockInv, RolesInv, NEW u \in User, Clean(u), NEW h \in Handler, NEW o \in Handler,
         o # h, handler[h].user = u, handler[o].user = u,
         handler[h].pc \in Locked \/ handler[h].pc \in RowHeld
  PROVE  handler[o].pc \notin InCasbin
<1>1. Apart(u) /\ OneRow(u)
  BY DEF Clean, RolesInv
<1>2. CASE handler[h].pc \in Locked
  <2>1. handler[o].pc \notin DeletePC /\ handler[o].pc \notin Locked
    BY <1>1, <1>2, OneLocked DEF Apart
  <2>2. QED
    BY <2>1 DEF InCasbin, DeletePC, Locked, UpdatePC
<1>3. CASE handler[h].pc \notin Locked
  <2>1. handler[h].pc \in RowHeld /\ handler[h].pc \in DeletePC
    BY <1>3 DEF RowHeld, Locked, UpdatePC, DeletePC
  <2>2. handler[o].pc \notin RowHeld /\ handler[o].pc \notin Locked
    BY <1>1, <2>1 DEF OneRow, Apart
  <2>3. QED
    BY <2>2 DEF InCasbin, RowHeld, Locked, UpdatePC
<1>4. QED
  BY <1>2, <1>3

\* A deletion begins; an update served beside it is on record.
LEMMA DeleteKeeps ==
  ASSUME LocalInv, RolesInv, NEW h \in Handler, NEW u \in User, NEW rec, StepFor(h, u, rec),
         handler[h].user = NoUser, rec.user = u, rec.pc = "dread", rec.new = {},
         UNCHANGED <<grants, roles, active>>, scar'[u] # "torn" => scar[u] # "torn",
         scar'[u] = "none" => scar[u] = "none" /\ Updating(u) = {}
  PROVE  RolesInv'
<1>1. handler \in [Handler -> HandlerType]
  BY DEF LocalInv, Rows
<1>2. \A o \in Handler : handler'[o] = IF o = h THEN rec ELSE handler[o]
  BY <1>1 DEF StepFor
<1>3. OneRow(u)'
  BY <1>2 DEF RolesInv, OneRow, RowHeld
<1>4. ASSUME scar'[u] = "none" PROVE Clean(u)'
  <2>1. Clean(u) /\ Updating(u) = {}
    BY <1>4 DEF RolesInv
  <2>2. Apart(u)'
    BY <1>2, <2>1 DEF Apart, Updating, Serving, Locked, UpdatePC, DeletePC
  <2>3. Untouched(u)' => Untouched(u)
    BY <1>2, NoUserAssumption DEF Untouched
  <2>4. QED
    BY <1>2, <2>1, <2>2, <2>3 DEF Clean, UpdateOf, DeleteOf, DeletePC
<1>5. ASSUME scar'[u] # "torn" PROVE Powerless(u)'
  <2>1. Powerless(u)
    BY <1>5 DEF RolesInv
  <2>2. Adding(u) => Adding(u)'
    BY <1>2, NoUserAssumption DEF Adding
  <2>3. QED
    BY <1>2, <2>1, <2>2 DEF Powerless
<1>6. QED
  BY <1>3, <1>4, <1>5, OneUser

-----------------------------------------------------------------------------
(***************************************************************************)
(* The actions.                                                            *)
(***************************************************************************)
\* What Scar does to the user it names, and to the others.
LEMMA ScarEffect ==
  ASSUME LocalInv, NEW u \in User, NEW s \in {"none", "overlap", "torn"}, Scar(u, s)
  PROVE  /\ \A v \in User \ {u} : scar'[v] = scar[v]
         /\ s = "none" => scar'[u] = scar[u]
         /\ s = "torn" => scar'[u] = "torn"
         /\ s # "torn" => (scar'[u] # "torn" => scar[u] # "torn")
         /\ scar'[u] = "none" => scar[u] = "none" /\ s = "none"
BY DEF LocalInv, Rows, Scar

\* A request is taken up, locked out or unlocked.
LEMMA RolesLock ==
  ASSUME IInv, LockInv, RolesInv, NEW h \in Handler,
         (\E u \in User : UpdateUser(h, u)) \/ lockUserReqState(h) \/ unlockUserReqState(h)
  PROVE  RolesInv'
<1>1. handler[h] \in HandlerType /\ handler \in [Handler -> HandlerType] /\ LocalInv
  BY DEF IInv, LocalInv, Rows
<1>2. Free \in HandlerType /\ Free.user = NoUser
  BY FreeShape DEF ShapeOf
<1>3. ASSUME NEW u \in User, UpdateUser(h, u)
      PROVE  RolesInv'
  <2> DEFINE rec == [Free EXCEPT !.pc = "lock", !.user = u]
  <2>1. rec \in HandlerType /\ rec.pc = "lock" /\ rec.user = u
    BY DEF Free, NoSnap, HandlerType, UpdatePC
  <2>2. handler' = [handler EXCEPT ![h] = rec] /\ UNCHANGED <<grants, roles, active, scar>>
    BY <1>3 DEF UpdateUser, cacheVars, rowVars
  <2>3. handler[h].user = NoUser
    BY <1>1, <1>3 DEF UpdateUser, LocalInv, Shape
  <2> HIDE DEF rec
  <2>4. StepFor(h, u, rec)
    BY <2>1, <2>2, <2>3 DEF StepFor
  <2>5. QED
    BY <1>1, <2>1, <2>2, <2>3, <2>4, TakeKeeps
<1>4. ASSUME lockUserReqState(h) \/ unlockUserReqState(h)
      PROVE  RolesInv'
  <2>1. PICK u \in User : handler[h].user = u
    BY <1>1, <1>4 DEF lockUserReqState, unlockUserReqState, LocalInv, Shape, HandlerType
  <2>2. UNCHANGED <<grants, roles, active>> /\ handler[h].pc \in {"lock", "unlock"}
    BY <1>4 DEF lockUserReqState, unlockUserReqState, cacheVars, rowVars
  <2>3. CASE handler' = [handler EXCEPT ![h] = Free] /\ UNCHANGED scar
    <3>1. StepFor(h, u, Free)
      BY <1>2, <2>1, <2>2, <2>3 DEF StepFor
    <3>2. handler[h].pc \notin InCasbin
      BY <2>2 DEF InCasbin
    <3>3. QED
      BY <1>1, <2>1, <2>2, <2>3, <3>1, <3>2, LeaveKeeps
  <2>4. CASE /\ handler[h].pc = "lock" /\ Goto(h, "load")
             /\ Scar(u, IF Deleting(u) = {} THEN "none" ELSE "overlap")
    <3> DEFINE rec == [handler[h] EXCEPT !.pc = "load"]
    <3>1. rec \in HandlerType /\ rec.user = u /\ rec.pc = "load"
      BY <1>1, <2>1 DEF HandlerType, UpdatePC
    <3>2. handler' = [handler EXCEPT ![h] = rec]
      BY <2>4 DEF Goto
    <3> HIDE DEF rec
    <3>3. /\ \A v \in User \ {u} : scar'[v] = scar[v]
          /\ scar'[u] # "torn" => scar[u] # "torn"
          /\ scar'[u] = "none" => scar[u] = "none" /\ Deleting(u) = {}
      <4>1. PICK s \in {"none", "overlap", "torn"} :
              s = IF Deleting(u) = {} THEN "none" ELSE "overlap"
        OBVIOUS
      <4>2. Scar(u, s)
        BY <2>4, <4>1
      <4>3. QED
        BY <1>1, <4>1, <4>2, ScarEffect
    <3>4. StepFor(h, u, rec)
      BY <2>1, <2>2, <3>1, <3>2, <3>3 DEF StepFor
    <3>5. QED
      BY <1>1, <2>1, <2>2, <2>4, <3>1, <3>3, <3>4, LockKeeps
  <2>5. QED
    BY <1>4, <2>1, <2>3, <2>4 DEF lockUserReqState, unlockUserReqState
<1>5. QED
  BY <1>3, <1>4

\* The roles, the ids of the rows or the table of Casbin are read.
LEMMA RolesRead ==
  ASSUME IInv, LockInv, RolesInv, NEW h \in Handler,
         \/ \E wanted \in Wanted : ReadRoles(h, wanted)
         \/ GetUserRoleMappingIds(h) \/ ReadTable(h)
  PROVE  RolesInv'
<1>1. handler[h] \in HandlerType /\ LocalInv /\ roles \in [User -> SUBSET Item]
      /\ stored \in [User -> SUBSET Item]
  BY DEF IInv, LocalInv, Rows
<1>2. PICK u \in User : handler[h].user = u
  BY <1>1 DEF ReadRoles, GetUserRoleMappingIds, ReadTable, LocalInv, Shape, HandlerType
<1>3. UNCHANGED <<grants, roles, active, scar>>
  BY DEF ReadRoles, GetUserRoleMappingIds, ReadTable, cacheVars, rowVars
<1>4. ASSUME NEW rec \in HandlerType, handler' = [handler EXCEPT ![h] = rec], rec.user = u,
             rec.pc \notin RowHeld, handler[h].pc \notin InCasbin, rec.pc # "drevoke",
             rec.pc # "dinvalidate",
             rec.pc \in Locked <=> handler[h].pc \in Locked,
             rec.pc \in DeletePC => handler[h].pc \in DeletePC,
             Clean(u) => UpdateOf(rec, grants[u], roles[u]) /\ DeleteOf(rec, grants[u], roles[u])
      PROVE  RolesInv'
  <2>1. StepFor(h, u, rec)
    BY <1>2, <1>3, <1>4 DEF StepFor
  <2>2. handler[h].pc \notin {"add", "row", "commit"}
    BY <1>4 DEF InCasbin
  <2>3. QED
    BY <1>1, <1>2, <1>3, <1>4, <2>1, <2>2, WorkKeeps
<1>5. ASSUME NEW wanted \in Wanted, ReadRoles(h, wanted)
      PROVE  RolesInv'
  <2> DEFINE rec == [handler[h] EXCEPT !.pc = "rows", !.rows = roles[u] \ wanted,
                                       !.new = wanted \ roles[u], !.adds = wanted,
                                       !.todo = roles[u] \ wanted]
  <2>1. handler' = [handler EXCEPT ![h] = rec] /\ handler[h].pc = "read"
    BY <1>2, <1>5 DEF ReadRoles
  <2>2. wanted \in SUBSET Item
    BY WantedAssumption
  <2>3. /\ rec \in HandlerType /\ rec.user = u /\ rec.pc = "rows" /\ rec.todo = rec.rows
        /\ rec.rows = roles[u] \ wanted /\ rec.new = wanted \ roles[u] /\ rec.adds = wanted
    BY <1>1, <1>2, <2>2 DEF HandlerType, UpdatePC
  <2> HIDE DEF rec
  <2>4. UpdateOf(rec, grants[u], roles[u]) /\ DeleteOf(rec, grants[u], roles[u])
    BY <2>3 DEF UpdateOf, DeleteOf, DeletePC
  <2>5. QED
    BY <1>4, <2>1, <2>3, <2>4 DEF Locked, UpdatePC, DeletePC, RowHeld, InCasbin
<1>6. CASE GetUserRoleMappingIds(h)
  <2> DEFINE rec == [handler[h] EXCEPT !.pc = "drows", !.rows = roles[handler[h].user]]
  <2>1. handler' = [handler EXCEPT ![h] = rec] /\ handler[h].pc = "dread"
    BY <1>6 DEF GetUserRoleMappingIds
  <2>2. /\ rec \in HandlerType /\ rec.user = u /\ rec.pc = "drows" /\ rec.rows = roles[u]
        /\ rec.new = handler[h].new
    BY <1>1, <1>2 DEF HandlerType, DeletePC
  <2> HIDE DEF rec
  <2>3. ASSUME Clean(u)
        PROVE  UpdateOf(rec, grants[u], roles[u]) /\ DeleteOf(rec, grants[u], roles[u])
    <3>1. DeleteOf(handler[h], grants[u], roles[u])
      BY <1>2, <2>3 DEF Clean
    <3>2. QED
      BY <2>1, <2>2, <3>1 DEF UpdateOf, DeleteOf, DeletePC
  <2>4. QED
    BY <1>4, <2>1, <2>2, <2>3 DEF Locked, UpdatePC, DeletePC, RowHeld, InCasbin
<1>7. CASE ReadTable(h)
  <2> DEFINE rec == [handler[h] EXCEPT !.pc = IF @ = "load" THEN "apply" ELSE "reapply",
                                       !.snap = stored]
  <2>1. handler' = [handler EXCEPT ![h] = rec] /\ handler[h].pc \in {"load", "reload"}
    BY <1>7 DEF ReadTable
  <2>2. rec \in HandlerType /\ rec.user = u /\ rec.pc \in {"apply", "reapply"}
    BY <1>1, <1>2 DEF HandlerType, UpdatePC
  <2> HIDE DEF rec
  <2>3. UpdateOf(rec, grants[u], roles[u]) /\ DeleteOf(rec, grants[u], roles[u])
    BY <2>2 DEF UpdateOf, DeleteOf, DeletePC
  <2>4. QED
    BY <1>4, <2>1, <2>2, <2>3 DEF Locked, UpdatePC, DeletePC, RowHeld, InCasbin
<1>8. QED
  BY <1>5, <1>6, <1>7

\* The policies are loaded again: who is moved by that is torn.
LEMMA RolesReload ==
  ASSUME IInv, PolicyInv, RolesInv, NEW h \in Handler, LoadPolicy(h)
  PROVE  RolesInv'
<1>1. handler[h] \in HandlerType /\ LocalInv
  BY DEF IInv, LocalInv, Rows
<1>2. PICK u \in User : handler[h].user = u
  BY <1>1 DEF LoadPolicy, LocalInv, Shape, HandlerType
<1>3. UNCHANGED <<roles, active>> /\ handler[h].pc \in {"load", "apply", "reload", "reapply"}
  BY DEF LoadPolicy, rowVars
<1> DEFINE rec == [handler[h] EXCEPT !.pc = IF @ \in {"load", "apply"} THEN "read" ELSE "unlock",
                                     !.snap = NoSnap]
<1>4. /\ handler' = [handler EXCEPT ![h] = rec]
      /\ rec \in HandlerType /\ rec.user = u /\ rec.pc \in {"read", "unlock"}
  BY <1>1, <1>2 DEF LoadPolicy, HandlerType, UpdatePC, NoSnap
<1> HIDE DEF rec
<1>5. StepFor(h, u, rec)
  BY <1>2, <1>3, <1>4, LoadEffect DEF StepFor
<1>6. /\ UpdateOf(rec, grants'[u], roles[u]) /\ DeleteOf(rec, grants'[u], roles[u])
      /\ rec.pc \in Locked /\ handler[h].pc \in Locked /\ rec.pc \notin RowHeld
      /\ rec.pc \notin DeletePC /\ handler[h].pc \notin InCasbin
  BY <1>3, <1>4 DEF UpdateOf, DeleteOf, Locked, UpdatePC, DeletePC, RowHeld, InCasbin
<1>7. CASE scar'[u] = "torn"
  BY <1>1, <1>2, <1>5, <1>6, <1>7, TornKeeps
<1>8. CASE scar'[u] # "torn"
  <2>1. scar'[u] = scar[u] /\ grants'[u] = grants[u]
    BY <1>8, LoadEffect
  <2>2. rec.pc \notin {"drevoke", "dinvalidate"} /\ handler[h].pc \notin {"add", "row", "commit"}
    BY <1>3, <1>4
  <2>3. QED
    BY <1>1, <1>2, <1>3, <1>4, <1>5, <1>6, <2>1, <2>2, WorkKeeps
<1>9. QED
  BY <1>7, <1>8

\* Rows are deleted, the update is refused, the row of the user is written,
\* the cache is invalidated after a revoked role.
LEMMA RolesOnward ==
  ASSUME IInv, LockInv, RolesInv, NEW h \in Handler,
         DeleteRows(h) \/ CheckRBAC(h) \/ WriteRow(h) \/ InvalidateDeleted(h)
  PROVE  RolesInv'
<1>1. handler[h] \in HandlerType /\ LocalInv
  BY DEF IInv, LocalInv, Rows
<1>2. PICK u \in User : handler[h].user = u
  BY <1>1 DEF DeleteRows, CheckRBAC, WriteRow, InvalidateDeleted, LocalInv, Shape, HandlerType
<1>3. UNCHANGED <<grants, roles, active, scar>>
  BY DEF DeleteRows, CheckRBAC, WriteRow, InvalidateDeleted, cacheVars, rowVars, EC!InvalidateCache
<1>4. ASSUME NEW to, NEW rec \in HandlerType, handler' = [handler EXCEPT ![h] = rec],
             rec.pc = to, rec.user = u, <<handler[h].pc, to>> \in Onward,
             rec.rows = handler[h].rows, rec.new = handler[h].new, rec.todo = handler[h].todo,
             rec.adds = handler[h].adds,
             handler[h].pc \in {"row", "drow"} => WriteRow(h)
      PROVE  RolesInv'
  <2>1. StepFor(h, u, rec)
    BY <1>2, <1>3, <1>4 DEF StepFor
  <2>2. handler[h].pc \in {"row", "drow"} =>
          \A o \in Handler : o # h /\ handler[o].user = u => handler[o].pc \notin RowHeld
    BY <1>2, <1>4 DEF WriteRow, Others, Serving
  <2>3. QED
    BY <1>1, <1>2, <1>3, <1>4, <2>1, <2>2, OnwardKeeps
<1>5. ASSUME NEW to \in UpdatePC \cup DeletePC, Goto(h, to), <<handler[h].pc, to>> \in Onward,
             handler[h].pc \in {"row", "drow"} => WriteRow(h)
      PROVE  RolesInv'
  <2> DEFINE rec == [handler[h] EXCEPT !.pc = to]
  <2>1. /\ rec \in HandlerType /\ rec.pc = to /\ rec.user = u
        /\ rec.rows = handler[h].rows /\ rec.new = handler[h].new /\ rec.todo = handler[h].todo
        /\ rec.adds = handler[h].adds
    BY <1>1, <1>2 DEF HandlerType
  <2>2. handler' = [handler EXCEPT ![h] = rec]
    BY <1>5 DEF Goto
  <2> HIDE DEF rec
  <2>3. QED
    BY <1>4, <1>5, <2>1, <2>2
<1>6. CASE DeleteRows(h) \/ CheckRBAC(h) \/ WriteRow(h)
  <2>1. PICK to \in UpdatePC \cup DeletePC : Goto(h, to) /\ <<handler[h].pc, to>> \in Onward
    BY <1>6 DEF DeleteRows, CheckRBAC, WriteRow, Onward, UpdatePC, DeletePC
  <2>2. handler[h].pc \in {"row", "drow"} => WriteRow(h)
    BY <1>6 DEF DeleteRows, CheckRBAC
  <2>3. QED
    BY <1>5, <2>1, <2>2
<1>7. CASE InvalidateDeleted(h)
  <2> DEFINE rec == [handler[h] EXCEPT !.pc = "drevoke", !.dirty = FALSE]
  <2>1. /\ rec \in HandlerType /\ rec.pc = "drevoke" /\ rec.user = u
        /\ rec.rows = handler[h].rows /\ rec.new = handler[h].new /\ rec.todo = handler[h].todo
        /\ rec.adds = handler[h].adds
    BY <1>1, <1>2 DEF HandlerType, DeletePC
  <2>2. handler' = [handler EXCEPT ![h] = rec] /\ handler[h].pc = "dinvalidate"
    BY <1>7 DEF InvalidateDeleted
  <2> HIDE DEF rec
  <2>3. <<handler[h].pc, "drevoke">> \in Onward
    BY <2>2 DEF Onward
  <2>4. QED
    BY <1>4, <2>1, <2>2, <2>3
<1>8. QED
  BY <1>6, <1>7

\* A policy is removed or added, or Casbin fails.
LEMMA RolesPolicy ==
  ASSUME IInv, PolicyInv, LockInv, RolesInv, NEW h \in Handler, NEW i \in Item,
         RemovePolicy(h, i) \/ AddPolicy(h, i)
  PROVE  RolesInv'
<1>1. handler[h] \in HandlerType /\ LocalInv /\ handler \in [Handler -> HandlerType]
  BY DEF IInv, LocalInv, Rows
<1>2. PICK u \in User : handler[h].user = u
  BY <1>1 DEF RemovePolicy, AddPolicy, LocalInv, Shape, HandlerType
<1>3. /\ handler[h].pc \in {"remove", "add"} /\ UNCHANGED <<roles, active>> /\ i \in handler[h].todo
      /\ handler[h].pc \in Locked
  BY DEF RemovePolicy, AddPolicy, rowVars, Locked, UpdatePC
<1>4. PICK adding \in BOOLEAN :
        /\ PolicyChanged(h, i, adding) \/ PolicyFails(h, i, adding)
        /\ handler[h].pc = IF adding THEN "add" ELSE "remove"
  BY DEF RemovePolicy, AddPolicy
<1>5. CASE PolicyChanged(h, i, adding)
  <2> DEFINE changed == Success(h, i, adding)
             done == [handler[h] EXCEPT !.todo = @ \ {i}, !.dirty = @ \/ changed]
  <2>1. changed \in BOOLEAN
    BY DEF Success, Alters
  <2> HIDE DEF changed
  <2>2. /\ done \in HandlerType /\ done.pc = handler[h].pc /\ done.user = u
        /\ done.rows = handler[h].rows /\ done.new = handler[h].new
        /\ done.adds = handler[h].adds /\ done.todo = handler[h].todo \ {i}
        /\ changed => done.dirty
    BY <1>1, <1>2, <2>1 DEF HandlerType
  <2>3. handler' = [handler EXCEPT ![h] = done] /\ Write(h, i, adding)
    BY <1>5 DEF PolicyChanged, changed
  <2> HIDE DEF done
  <2>4. handler'[h] = done
    BY <1>1, <2>3
  <2>5. /\ UNCHANGED scar
        /\ \A v \in User \ {u} : scar[v] # "torn" => grants'[v] = grants[v]
        /\ scar[u] # "torn" =>
             grants'[u] = IF adding THEN grants[u] \cup {i} ELSE grants[u] \ {i}
    BY <1>2, <2>2, <2>3, <2>4, WriteEffect DEF changed
  <2>6. StepFor(h, u, done)
    BY <1>2, <1>3, <2>2, <2>3, <2>5 DEF StepFor
  <2>7. ASSUME scar[u] = "none", Clean(u)
        PROVE  /\ UpdateOf(done, grants'[u], roles[u]) /\ DeleteOf(done, grants'[u], roles[u])
               /\ \A o \in Handler : o # h /\ handler[o].user = u => handler[o].pc \notin InCasbin
    <3>1. UpdateOf(handler[h], grants[u], roles[u])
      BY <1>2, <2>7 DEF Clean
    <3>2. ASSUME adding
          PROVE  UpdateOf(done, grants'[u], roles[u]) /\ DeleteOf(done, grants'[u], roles[u])
      <4>1. /\ handler[h].pc = "add" /\ grants'[u] = grants[u] \cup {i}
            /\ grants[u] = (roles[u] \ done.rows) \cup (done.new \ handler[h].todo)
            /\ done.adds = (roles[u] \ done.rows) \cup done.new
            /\ handler[h].todo \subseteq done.adds /\ i \in done.adds
        BY <1>3, <1>4, <2>2, <2>5, <2>7, <3>1, <3>2 DEF UpdateOf
      <4>2. grants'[u] = (roles[u] \ done.rows) \cup (done.new \ done.todo)
        BY <2>2, <4>1
      <4>3. done.todo \subseteq done.adds /\ done.pc = "add"
        BY <2>2, <4>1
      <4>4. done.pc \notin {"rows", "remove", "row", "commit"} \cup DeletePC
        BY <4>3 DEF DeletePC
      <4>5. QED
        BY <4>1, <4>2, <4>3, <4>4 DEF UpdateOf, DeleteOf, DeletePC
    <3>3. ASSUME ~adding
          PROVE  UpdateOf(done, grants'[u], roles[u]) /\ DeleteOf(done, grants'[u], roles[u])
      <4>1. /\ handler[h].pc = "remove" /\ grants'[u] = grants[u] \ {i}
            /\ grants[u] = roles[u] \ (done.rows \ handler[h].todo)
            /\ handler[h].todo \subseteq done.rows
            /\ done.adds = (roles[u] \ done.rows) \cup done.new
        BY <1>3, <1>4, <2>2, <2>5, <2>7, <3>1, <3>3 DEF UpdateOf
      <4>2. grants'[u] = roles[u] \ (done.rows \ done.todo)
        BY <1>3, <2>2, <4>1
      <4>3. done.todo \subseteq done.rows /\ done.pc = "remove"
        BY <2>2, <4>1
      <4>4. done.pc \notin {"rows", "add", "row", "commit"} \cup DeletePC
        BY <4>3 DEF DeletePC
      <4>5. QED
        BY <4>1, <4>2, <4>3, <4>4 DEF UpdateOf, DeleteOf, DeletePC
    <3>4. QED
      BY <1>1, <1>2, <1>3, <2>7, <3>2, <3>3, Alone
  <2>8. done.pc \in InCasbin /\ done.pc \notin DeletePC /\ done.pc \notin RowHeld
    BY <1>3, <2>2 DEF InCasbin, DeletePC, RowHeld
  <2>9. scar[u] # "torn" => grants'[u] \subseteq grants[u] \/ done.pc \in {"add", "row", "commit"}
    BY <1>4, <2>2, <2>5
  <2>10. QED
    BY <1>1, <1>2, <1>3, <2>2, <2>5, <2>6, <2>7, <2>8, <2>9, WorkKeeps DEF DeletePC
<1>6. CASE PolicyFails(h, i, adding)
  <2> DEFINE same == [handler[h] EXCEPT !.todo = @ \ {i}]
             over == [handler[h] EXCEPT !.pc = NextLoop(h), !.todo = NextTodo(h), !.dirty = FALSE]
  <2>1. /\ same \in HandlerType /\ same.pc \notin RowHeld /\ same.user = u
        /\ over \in HandlerType /\ over.pc \notin RowHeld /\ over.user = u
    BY <1>1, <1>2, <1>3 DEF HandlerType, NextLoop, NextTodo, UpdatePC, RowHeld
  <2>2. PICK rec \in {same, over} : handler' = [handler EXCEPT ![h] = rec]
    BY <1>6 DEF PolicyFails
  <2>3. rec \in HandlerType /\ rec.pc \notin RowHeld /\ rec.user = u
    BY <2>1
  <2> HIDE DEF same, over
  <2>4. WriteFails(h, i, adding) /\ owed' \subseteq owed \cup {u}
    BY <1>2, <1>6 DEF PolicyFails
  <2>5. UNCHANGED grants /\ scar'[u] = "torn" /\ \A v \in User \ {u} : scar'[v] = scar[v]
    BY <1>2, <2>4, FailEffect
  <2>6. StepFor(h, u, rec)
    BY <1>2, <1>3, <2>2, <2>3, <2>5 DEF StepFor
  <2>7. QED
    BY <1>1, <1>2, <2>3, <2>5, <2>6, TornKeeps
<1>7. QED
  BY <1>4, <1>5, <1>6

\* The policies to remove, or to add, are done.
LEMMA RolesDone ==
  ASSUME IInv, LockInv, RolesInv, NEW h \in Handler, PoliciesDone(h)
  PROVE  RolesInv'
<1>1. handler[h] \in HandlerType /\ LocalInv
  BY DEF IInv, LocalInv, Rows
<1>2. PICK u \in User : handler[h].user = u
  BY <1>1 DEF PoliciesDone, LocalInv, Shape, HandlerType
<1>3. /\ handler[h].pc \in {"remove", "add"} /\ handler[h].todo = {}
      /\ UNCHANGED <<grants, roles, active, scar>>
  BY DEF PoliciesDone, cacheVars, rowVars, EC!InvalidateCache
<1> DEFINE rec == [handler[h] EXCEPT !.pc = NextLoop(h), !.todo = NextTodo(h), !.dirty = FALSE]
<1>4. /\ rec \in HandlerType /\ rec.user = u
      /\ rec.rows = handler[h].rows /\ rec.new = handler[h].new /\ rec.adds = handler[h].adds
      /\ rec.pc = IF handler[h].pc = "remove" THEN "add" ELSE "row"
      /\ rec.todo = IF handler[h].pc = "remove" THEN handler[h].adds ELSE {}
  BY <1>1, <1>2 DEF HandlerType, UpdatePC, NextLoop, NextTodo
<1>5. handler' = [handler EXCEPT ![h] = rec]
  BY DEF PoliciesDone
<1> HIDE DEF rec
<1>6. StepFor(h, u, rec)
  BY <1>2, <1>3, <1>4, <1>5 DEF StepFor
<1>7. ASSUME Clean(u)
      PROVE  UpdateOf(rec, grants[u], roles[u]) /\ DeleteOf(rec, grants[u], roles[u])
  <2>1. UpdateOf(handler[h], grants[u], roles[u])
    BY <1>2, <1>7 DEF Clean
  <2>2. QED
    BY <1>3, <1>4, <2>1 DEF UpdateOf, DeleteOf, DeletePC
<1>8. /\ rec.pc \in InCasbin /\ rec.pc \notin DeletePC /\ rec.pc \notin RowHeld
      /\ handler[h].pc \in Locked /\ rec.pc \in {"add", "row", "commit"}
  BY <1>3, <1>4 DEF InCasbin, DeletePC, RowHeld, Locked, UpdatePC
<1>9. QED
  BY <1>1, <1>2, <1>3, <1>4, <1>6, <1>7, <1>8, WorkKeeps

\* The roles to revoke are asked for, or one is revoked, or Casbin fails.
LEMMA RolesRevoke ==
  ASSUME IInv, PolicyInv, LockInv, RolesInv, NEW h \in Handler,
         GetRolesForUser(h) \/ \E i \in Item : DeleteRoleForUser(h, i)
  PROVE  RolesInv'
<1>1. /\ handler[h] \in HandlerType /\ LocalInv /\ grants \in [User -> SUBSET Item]
      /\ handler \in [Handler -> HandlerType]
  BY DEF IInv, LocalInv, Rows, EC!IInv, EC!TypeOK
<1>2. PICK u \in User : handler[h].user = u
  BY <1>1 DEF GetRolesForUser, DeleteRoleForUser, LocalInv, Shape, HandlerType
<1>3. /\ handler[h].pc \in {"droles", "drevoke"} /\ UNCHANGED <<roles, active>>
      /\ handler[h].pc \in DeletePC /\ handler[h].pc \in RowHeld /\ handler[h].pc \notin Locked
  BY DEF GetRolesForUser, DeleteRoleForUser, rowVars, DeletePC, RowHeld, Locked, UpdatePC
<1>4. Clean(u) => DeleteOf(handler[h], grants[u], roles[u])
  BY <1>2 DEF Clean
<1>5. ASSUME NEW rec \in HandlerType, handler' = [handler EXCEPT ![h] = rec], rec.user = u,
             rec.pc \in {"drevoke", "dinvalidate"},
             scar'[u] = "torn", \A v \in User \ {u} : scar'[v] = scar[v], UNCHANGED grants
      PROVE  RolesInv'
  <2>1. StepFor(h, u, rec)
    BY <1>2, <1>3, <1>5 DEF StepFor
  <2>2. QED
    BY <1>1, <1>2, <1>3, <1>5, <2>1, TornKeeps
<1>6. ASSUME NEW rec \in HandlerType, handler' = [handler EXCEPT ![h] = rec], rec.user = u,
             rec.pc \in {"drevoke", "dinvalidate"}, UNCHANGED scar,
             rec.rows = handler[h].rows, rec.new = handler[h].new, NEW gone \in SUBSET Item,
             \A v \in User \ {u} : scar[v] # "torn" => grants'[v] = grants[v],
             scar[u] # "torn" => grants'[u] = grants[u] \ gone,
             \/ handler[h].pc = "droles" /\ rec.todo = grants[u] /\ UNCHANGED grants
             \/ handler[h].pc = "drevoke" /\ rec.todo = handler[h].todo \ gone
      PROVE  RolesInv'
  <2>1. StepFor(h, u, rec)
    BY <1>2, <1>3, <1>6 DEF StepFor
  <2>2. scar[u] = "none" /\ Clean(u) =>
          UpdateOf(rec, grants'[u], roles[u]) /\ DeleteOf(rec, grants'[u], roles[u])
    BY <1>3, <1>4, <1>6 DEF UpdateOf, DeleteOf, DeletePC
  <2>3. Clean(u) => \A o \in Handler : o # h /\ handler[o].user = u => handler[o].pc \notin InCasbin
    BY <1>1, <1>2, <1>3, Alone
  <2>4. rec.pc \in InCasbin /\ rec.pc \notin Locked
    BY <1>6 DEF InCasbin, Locked, UpdatePC
  <2>5. scar[u] # "torn" /\ Powerless(u) => grants'[u] \subseteq rec.todo \/ Adding(u)
    BY <1>2, <1>6 DEF Powerless
  <2>6. QED
    BY <1>1, <1>2, <1>3, <1>6, <2>1, <2>2, <2>3, <2>4, <2>5, WorkKeeps
<1>7. CASE GetRolesForUser(h)
  <2> DEFINE rec(todo) == [handler[h] EXCEPT !.pc = "drevoke", !.todo = todo]
  <2>1. ASSUME NEW todo \in SUBSET Item
        PROVE  /\ rec(todo) \in HandlerType /\ rec(todo).user = u /\ rec(todo).pc = "drevoke"
               /\ rec(todo).rows = handler[h].rows /\ rec(todo).new = handler[h].new
               /\ rec(todo).todo = todo
    BY <1>1, <1>2 DEF HandlerType, DeletePC
  <2>2. handler[h].pc = "droles" /\ UNCHANGED grants
    BY <1>7 DEF GetRolesForUser, cacheVars
  <2>3. CASE handler' = [handler EXCEPT ![h] = rec(grants[u])] /\ UNCHANGED scar
    <3>1. PICK new \in SUBSET Item : new = grants[u]
      BY <1>1
    <3>2. PICK q \in HandlerType : q = rec(new)
      BY <2>1
    <3>3. /\ q.user = u /\ q.pc = "drevoke" /\ q.todo = grants[u]
          /\ q.rows = handler[h].rows /\ q.new = handler[h].new
      BY <2>1, <3>1, <3>2
    <3>4. handler' = [handler EXCEPT ![h] = q]
      BY <2>3, <3>1, <3>2
    <3> HIDE DEF rec
    <3>5. PICK gone \in SUBSET Item : gone = {}
      OBVIOUS
    <3>6. grants'[u] = grants[u] \ gone
      BY <2>2, <3>5
    <3>7. QED
      BY <1>6, <2>2, <2>3, <3>3, <3>4, <3>6
  <2>4. CASE handler' = [handler EXCEPT ![h] = rec({})] /\ Scar(u, "torn")
    <3>1. PICK q \in HandlerType : q = rec({})
      BY <2>1
    <3>2. scar'[u] = "torn" /\ \A v \in User \ {u} : scar'[v] = scar[v]
      BY <1>1, <2>4, ScarEffect
    <3>3. QED
      BY <1>5, <2>1, <2>2, <2>4, <3>1, <3>2
  <2>5. QED
    BY <1>2, <1>7, <2>3, <2>4 DEF GetRolesForUser
<1>8. ASSUME NEW i \in Item, DeleteRoleForUser(h, i)
      PROVE  RolesInv'
  <2> DEFINE done == [handler[h] EXCEPT !.pc = "dinvalidate", !.todo = @ \ {i}, !.dirty = TRUE]
             failed == [handler[h] EXCEPT !.pc = "dinvalidate", !.todo = @ \ {i}]
  <2>1. /\ done \in HandlerType /\ done.user = u /\ done.pc = "dinvalidate" /\ done.dirty
        /\ done.rows = handler[h].rows /\ done.new = handler[h].new
        /\ done.todo = handler[h].todo \ {i}
    BY <1>1, <1>2 DEF HandlerType, DeletePC
  <2>2. failed \in HandlerType /\ failed.user = u /\ failed.pc = "dinvalidate"
    BY <1>1, <1>2 DEF HandlerType, DeletePC
  <2>3. handler[h].pc = "drevoke"
    BY <1>8 DEF DeleteRoleForUser
  <2>4. CASE Write(h, i, FALSE) /\ handler' = [handler EXCEPT ![h] = done]
    <3> HIDE DEF done
    <3>1. handler'[h].user = u /\ handler'[h].dirty
      BY <1>1, <2>1, <2>4
    <3>2. PICK adding \in BOOLEAN : adding = FALSE
      OBVIOUS
    <3>3. Write(h, i, adding)
      BY <2>4, <3>2
    <3>4. /\ UNCHANGED scar
          /\ \A v \in User \ {u} : scar[v] # "torn" => grants'[v] = grants[v]
          /\ scar[u] # "torn" => grants'[u] = grants[u] \ {i}
      <4>1. scar[u] # "torn" =>
              grants'[u] = IF adding THEN grants[u] \cup {i} ELSE grants[u] \ {i}
        BY <1>2, <3>1, <3>2, <3>3, WriteEffect
      <4>2. /\ UNCHANGED scar
            /\ \A v \in User \ {u} : scar[v] # "torn" => grants'[v] = grants[v]
        BY <1>2, <3>1, <3>2, <3>3, WriteEffect
      <4>3. QED
        BY <3>2, <4>1, <4>2
    <3>5. QED
      BY <1>6, <2>1, <2>3, <2>4, <3>4
  <2>5. ASSUME WriteFails(h, i, FALSE), UNCHANGED owed
        PROVE  UNCHANGED grants /\ scar'[u] = "torn" /\ \A v \in User \ {u} : scar'[v] = scar[v]
    BY <1>2, <2>5, FailEffect
  <2>6. CASE WriteFails(h, i, FALSE) /\ UNCHANGED owed /\ handler' = [handler EXCEPT ![h] = failed]
    <3> HIDE DEF failed
    <3>1. QED
      BY <1>5, <2>2, <2>5, <2>6
  <2>7. CASE WriteFails(h, i, FALSE) /\ UNCHANGED owed /\ handler' = [handler EXCEPT ![h] = Free]
    <3>1. Free \in HandlerType /\ Free.user = NoUser
      BY FreeShape DEF ShapeOf
    <3>2. StepFor(h, u, Free)
      BY <1>2, <1>3, <2>5, <2>7, <3>1 DEF StepFor
    <3>3. QED
      BY <1>1, <1>2, <1>3, <2>5, <2>7, <3>2, LeaveKeeps
  <2>8. \/ Write(h, i, FALSE) /\ handler' = [handler EXCEPT ![h] = done]
        \/ /\ WriteFails(h, i, FALSE) /\ UNCHANGED owed
           /\ \/ handler' = [handler EXCEPT ![h] = failed]
              \/ handler' = [handler EXCEPT ![h] = Free]
    BY <1>8 DEF DeleteRoleForUser
  <2>9. QED
    BY <2>4, <2>6, <2>7, <2>8
<1>9. QED
  BY <1>7, <1>8

\* A deletion begins.
LEMMA RolesDelete ==
  ASSUME IInv, LockInv, RolesInv, NEW h \in Handler, NEW u \in User, DeleteUser(h, u)
  PROVE  RolesInv'
<1>1. handler[h] \in HandlerType /\ LocalInv /\ roles \in [User -> SUBSET Item]
  BY DEF IInv, LocalInv, Rows
<1> DEFINE rec == [Free EXCEPT !.pc = "dread", !.user = u]
<1>2. rec \in HandlerType /\ rec.pc = "dread" /\ rec.user = u /\ rec.new = {}
  BY <1>1 DEF Free, NoSnap, HandlerType, DeletePC
<1>3. /\ handler' = [handler EXCEPT ![h] = rec] /\ UNCHANGED <<grants, roles, active>>
      /\ handler[h].user = NoUser
  BY <1>1 DEF DeleteUser, cacheVars, rowVars, LocalInv, Shape
<1> HIDE DEF rec
<1>4. /\ \A v \in User \ {u} : scar'[v] = scar[v]
      /\ scar'[u] # "torn" => scar[u] # "torn"
      /\ scar'[u] = "none" => scar[u] = "none" /\ Updating(u) = {}
  <2>1. PICK s \in {"none", "overlap", "torn"} :
          s = IF Updating(u) = {} THEN "none" ELSE "overlap"
    OBVIOUS
  <2>2. Scar(u, s)
    BY <2>1 DEF DeleteUser
  <2>3. QED
    BY <1>1, <2>1, <2>2, ScarEffect
<1>5. StepFor(h, u, rec)
  BY <1>2, <1>3, <1>4 DEF StepFor
<1>6. QED
  BY <1>1, <1>2, <1>3, <1>4, <1>5, DeleteKeeps

\* The database fails: before the first change in Casbin nothing has changed.
LEMMA RolesRollback ==
  ASSUME IInv, LockInv, RolesInv, NEW h \in Handler, Rollback(h)
  PROVE  RolesInv'
<1>1. handler[h] \in HandlerType /\ LocalInv
  BY DEF IInv, LocalInv, Rows
<1>2. PICK u \in User : handler[h].user = u
  BY <1>1 DEF Rollback, LocalInv, Shape, HandlerType
<1>3. /\ UNCHANGED <<grants, roles, active>>
      /\ handler[h].pc \in {"row", "commit", "dread", "drows", "drow", "droles", "drevoke"}
  BY DEF Rollback, cacheVars, rowVars
<1>4. /\ \A v \in User \ {u} : scar'[v] = scar[v]
      /\ handler[h].pc \in InCasbin => scar'[u] = "torn"
      /\ handler[h].pc \notin InCasbin => scar'[u] = scar[u]
  <2>1. PICK s \in {"none", "overlap", "torn"} :
          s = IF handler[h].pc \in InCasbin THEN "torn" ELSE "none"
    OBVIOUS
  <2>2. Scar(u, s)
    BY <1>2, <2>1 DEF Rollback
  <2>3. QED
    BY <1>1, <2>1, <2>2, ScarEffect
<1>5. CASE handler[h].pc \in DeletePC
  <2>1. handler' = [handler EXCEPT ![h] = Free] /\ Free \in HandlerType /\ Free.user = NoUser
    BY <1>5, FreeShape DEF Rollback, ShapeOf
  <2>2. StepFor(h, u, Free)
    BY <1>2, <1>3, <1>4, <2>1 DEF StepFor
  <2>3. QED
    BY <1>1, <1>2, <1>3, <1>4, <2>2, LeaveKeeps
<1>6. CASE handler[h].pc \notin DeletePC
  <2> DEFINE rec == [handler[h] EXCEPT !.pc = "unlock"]
  <2>1. rec \in HandlerType /\ rec.pc = "unlock" /\ rec.user = u
    BY <1>1, <1>2 DEF HandlerType, UpdatePC
  <2>2. handler' = [handler EXCEPT ![h] = rec]
    BY <1>6 DEF Rollback, Goto
  <2> HIDE DEF rec
  <2>3. StepFor(h, u, rec)
    BY <1>2, <1>3, <1>4, <2>1, <2>2 DEF StepFor
  <2>4. rec.pc \notin RowHeld /\ handler[h].pc \in InCasbin
    BY <1>3, <1>6, <2>1 DEF RowHeld, InCasbin, DeletePC
  <2>5. QED
    BY <1>1, <1>2, <1>4, <2>3, <2>4, TornKeeps
<1>7. QED
  BY <1>5, <1>6

\* A transaction commits: the rows that go are those it found and others have
\* not deleted, and whoever waits for the row finds what it says.
LEMMA RolesCommit ==
  ASSUME IInv, LockInv, RolesInv, NEW h \in Handler, Commit(h)
  PROVE  RolesInv'
<1>1. /\ handler \in [Handler -> HandlerType] /\ handler[h] \in HandlerType /\ LocalInv
      /\ roles \in [User -> SUBSET Item] /\ active \in [User -> BOOLEAN]
  BY DEF IInv, LocalInv, Rows
<1>2. PICK u \in User : handler[h].user = u
  BY <1>1 DEF Commit, LocalInv, Shape, HandlerType
<1>3. /\ UNCHANGED <<grants, scar>>
      /\ handler[h].pc \in {"commit", "drevoke"} /\ handler[h].pc \in RowHeld
      /\ roles'[u] = (roles[u] \ handler[h].rows) \cup handler[h].new
      /\ active'[u] = (handler[h].pc = "commit")
      /\ \A v \in User \ {u} : roles'[v] = roles[v] /\ active'[v] = active[v]
  BY <1>1, <1>2 DEF Commit, cacheVars, RowHeld
<1>4. /\ handler'[h].user \in {u, NoUser} /\ handler'[h].pc \in {"reload", "idle"}
      /\ \A o \in Handler : o # h /\ handler[o].user # u => handler'[o] = handler[o]
  BY <1>1, <1>2, FreeShape DEF Commit, Others, Serving, HandlerType
<1>5. ASSUME NEW o \in Handler, o # h
      PROVE  /\ handler'[o].user = handler[o].user /\ handler'[o].pc = handler[o].pc
             /\ handler'[o].new = handler[o].new /\ handler'[o].todo = handler[o].todo
             /\ handler[o].user = u => handler'[o].rows = handler[o].rows \ handler[h].rows
  <2>1. handler[o] \in HandlerType
    BY <1>1
  <2>2. handler'[o] = IF handler[o].user = u
                      THEN [handler[o] EXCEPT !.rows = @ \ handler[h].rows] ELSE handler[o]
    BY <1>2, <1>5 DEF Commit, Others, Serving
  <2>3. QED
    BY <2>1, <2>2 DEF HandlerType
<1>6. ASSUME NEW v \in User, v # u
      PROVE  /\ OneRow(v)'
             /\ scar'[v] = "none" => Clean(v)'
             /\ scar'[v] # "torn" => Powerless(v)'
  <2>1. \A o \in Handler : handler'[o].user = v \/ handler[o].user = v => handler'[o] = handler[o]
    BY <1>2, <1>4, <1>5, <1>6, NoUserAssumption
  <2>2. QED
    BY <1>3, <1>6, <2>1, OtherUser DEF RolesInv
<1>7. OneRow(u)'
  BY <1>4, <1>5 DEF RolesInv, OneRow, RowHeld
<1>8. ASSUME scar'[u] = "none" PROVE Clean(u)'
  <2>1. Clean(u) /\ Apart(u)
    BY <1>3, <1>8 DEF RolesInv, Clean
  <2>2. Apart(u)'
    <3>1. \A o \in Handler : handler'[o].user = u /\ handler'[o].pc \in DeletePC =>
            o # h /\ handler[o].user = u /\ handler[o].pc \in DeletePC
      BY <1>4, <1>5 DEF DeletePC
    <3>2. \A o \in Handler : handler'[o].user = u /\ handler'[o].pc \in Locked =>
            \/ handler[o].user = u /\ handler[o].pc \in Locked
            \/ o = h /\ handler'[h].pc = "reload" /\ handler[h].pc = "commit"
      BY <1>2, <1>3, <1>4, <1>5, FreeShape, NoUserAssumption DEF Commit
    <3>3. handler[h].pc = "commit" => handler[h].pc \in Locked
      BY DEF Locked, UpdatePC
    <3>4. QED
      BY <1>2, <2>1, <3>1, <3>2, <3>3 DEF Apart
  <2>3. /\ UpdateOf(handler[h], grants[u], roles[u]) /\ DeleteOf(handler[h], grants[u], roles[u])
    BY <1>2, <2>1 DEF Clean
  <2>4. grants'[u] = roles'[u] /\ (active'[u] \/ roles'[u] = {})
    <3>1. CASE handler[h].pc = "commit"
      BY <1>3, <2>3, <3>1 DEF UpdateOf
    <3>2. CASE handler[h].pc = "drevoke"
      <4>1. handler[h].todo = {}
        BY <3>2 DEF Commit
      <4>2. QED
        BY <1>3, <2>3, <3>2, <4>1 DEF DeleteOf, DeletePC
    <3>3. QED
      BY <1>3, <3>1, <3>2
  <2>5. ASSUME NEW o \in Handler, handler'[o].user = u
        PROVE  /\ UpdateOf(handler'[o], grants'[u], roles'[u])
               /\ DeleteOf(handler'[o], grants'[u], roles'[u])
    <3>1. CASE o = h
      BY <1>4, <3>1 DEF UpdateOf, DeleteOf, DeletePC
    <3>2. CASE o # h
      <4>1. /\ handler[o].user = u /\ handler'[o].pc = handler[o].pc
            /\ handler'[o].new = handler[o].new /\ handler'[o].todo = handler[o].todo
            /\ handler'[o].rows = handler[o].rows \ handler[h].rows
        BY <1>5, <2>5, <3>2
      <4>2. handler[o].pc \notin InCasbin
        BY <1>1, <1>2, <1>3, <2>1, <3>2, <4>1, Alone
      <4>3. handler[o].pc # "rows"
        <5>1. CASE handler[h].pc = "commit"
          BY <1>1, <1>2, <3>2, <4>1, <5>1, OneLocked DEF Locked, UpdatePC
        <5>2. CASE handler[h].pc = "drevoke"
          BY <1>2, <2>1, <4>1, <5>2 DEF Apart, Locked, UpdatePC, DeletePC
        <5>3. QED
          BY <1>3, <5>1, <5>2
      <4>4. UpdateOf(handler'[o], grants'[u], roles'[u])
        BY <4>1, <4>2, <4>3 DEF UpdateOf, InCasbin
      <4>5. DeleteOf(handler[o], grants[u], roles[u])
        BY <2>1, <4>1 DEF Clean
      <4>6. handler[o].pc \in DeletePC => handler[h].pc = "drevoke"
        BY <1>2, <1>3, <2>1, <4>1 DEF Apart, Locked, UpdatePC
      <4>7. handler[h].pc = "drevoke" => handler[h].rows = roles[u] /\ handler[h].new = {}
        BY <2>3 DEF DeleteOf, DeletePC
      <4>8. DeleteOf(handler'[o], grants'[u], roles'[u])
        BY <1>3, <4>1, <4>2, <4>5, <4>6, <4>7 DEF DeleteOf, InCasbin
      <4>9. QED
        BY <4>4, <4>8
    <3>3. QED
      BY <3>1, <3>2
  <2>6. QED
    BY <2>2, <2>4, <2>5 DEF Clean
<1>9. ASSUME scar'[u] # "torn" PROVE Powerless(u)'
  <2>1. Powerless(u)
    BY <1>3, <1>9 DEF RolesInv
  <2>2. \A o \in Handler : o # h /\ handler[o].user = u => handler[o].pc \notin RowHeld
    BY <1>2, <1>3 DEF RolesInv, OneRow
  <2>3. \A o \in Handler : handler'[o].user = u => handler'[o].pc \notin {"drevoke", "dinvalidate"}
    BY <1>4, <1>5, <2>2 DEF RowHeld
  <2>4. active'[u] \/ grants'[u] = {} \/ Adding(u)'
    <3>1. CASE handler[h].pc = "commit"
      BY <1>3, <3>1
    <3>2. CASE handler[h].pc = "drevoke"
      <4>1. handler[h].todo = {}
        BY <3>2 DEF Commit
      <4>2. grants[u] = {} \/ Adding(u)
        BY <1>2, <2>1, <3>2, <4>1 DEF Powerless
      <4>3. Adding(u) => Adding(u)'
        BY <1>5, <3>2 DEF Adding
      <4>4. QED
        BY <1>3, <4>2, <4>3
    <3>3. QED
      BY <1>3, <3>1, <3>2
  <2>5. QED
    BY <2>3, <2>4 DEF Powerless
<1>10. QED
  BY <1>6, <1>7, <1>8, <1>9 DEF RolesInv

\* A restart ends every request; one that may have changed policies leaves its
\* user torn.
LEMMA RolesRestart ==
  ASSUME IInv, PolicyInv, RolesInv, Restart
  PROVE  RolesInv'
<1>1. /\ handler' = [h \in Handler |-> Free] /\ UNCHANGED <<roles, active>> /\ grants' = stored
      /\ scar' = [u \in User |-> IF \E h \in Serving(u) : handler[h].pc \in InCasbin
                                 THEN "torn" ELSE scar[u]]
  BY DEF Restart, rowVars
<1>2. \A u \in User, h \in Handler : handler'[h].user # u
  BY <1>1, FreeShape, NoUserAssumption
<1>3. \A u \in User : scar'[u] # "torn" => /\ scar'[u] = scar[u] /\ Untouched(u)
                                          /\ grants'[u] = grants[u]
  BY <1>1 DEF Untouched, Serving, PolicyInv, Agreed
<1>4. SUFFICES ASSUME NEW u \in User
               PROVE  /\ OneRow(u)'
                      /\ scar'[u] = "none" => Clean(u)'
                      /\ scar'[u] # "torn" => Powerless(u)'
  BY DEF RolesInv
<1>5. OneRow(u)' /\ Apart(u)'
  BY <1>2 DEF OneRow, Apart
<1>6. ASSUME scar'[u] = "none" PROVE Clean(u)'
  <2>1. Clean(u) /\ Untouched(u)
    BY <1>3, <1>6 DEF RolesInv
  <2>2. QED
    BY <1>1, <1>2, <1>3, <1>5, <1>6, <2>1 DEF Clean
<1>7. ASSUME scar'[u] # "torn" PROVE Powerless(u)'
  <2>1. Powerless(u) /\ Untouched(u)
    BY <1>3, <1>7 DEF RolesInv
  <2>2. ~Adding(u)
    BY <2>1 DEF Adding, Untouched, InCasbin
  <2>3. QED
    BY <1>1, <1>2, <1>3, <1>7, <2>1, <2>2 DEF Powerless
<1>8. QED
  BY <1>5, <1>6, <1>7

\* A decision changes neither rows nor policies.
LEMMA RolesDecide ==
  ASSUME RolesInv, Decide \/ UNCHANGED vars
  PROVE  RolesInv'
<1>1. UNCHANGED <<grants, roles, active, handler, scar>>
  BY DEF Decide, vars, cacheVars, rowVars, EC!Enforce, EC!Expire, EC!enforceFromCache, EC!enforceHit,
         EC!enforceAndUpdateCache, EC!batchEnforceFromCache, EC!enforceByEmailInBatchSync,
         EC!EnforceByEmailInBatch
<1>2. QED
  BY <1>1, OtherUser DEF RolesInv

\* At first the rows say what the policies say, and everybody is active.
LEMMA RolesInit ==
  ASSUME Init
  PROVE  RolesInv
<1>1. \A u \in User, h \in Handler : handler[h].user # u
  BY FreeShape, NoUserAssumption DEF Init
<1>2. \A u \in User : roles[u] = grants[u] /\ active[u]
  BY DEF Init
<1>3. QED
  BY <1>1, <1>2 DEF RolesInv, OneRow, Apart, Clean, Powerless

\* The invariant holds of every run.
LEMMA RolesSafety == Spec => [](PolicyInv /\ RolesInv)
<1>1. Init => RolesInv
  BY RolesInit
<1>2. IInv /\ PolicyInv /\ LockInv /\ RolesInv /\ [Next]_vars => RolesInv'
  <2> SUFFICES ASSUME IInv, PolicyInv, LockInv, RolesInv, [Next]_vars PROVE RolesInv'
    OBVIOUS
  <2>1. CASE Restart
    BY <2>1, RolesRestart
  <2>2. CASE Decide \/ UNCHANGED vars
    BY <2>2, RolesDecide
  <2>3. ASSUME NEW h \in Handler, Update(h)
        PROVE  RolesInv'
    BY <2>3, RolesLock, RolesRead, RolesReload, RolesOnward, RolesPolicy, RolesDone DEF Update
  <2>4. ASSUME NEW h \in Handler, Delete(h)
        PROVE  RolesInv'
    BY <2>4, RolesDelete, RolesRead, RolesRevoke, RolesOnward DEF Delete
  <2>5. ASSUME NEW h \in Handler, Transaction(h)
        PROVE  RolesInv'
    BY <2>5, RolesOnward, RolesCommit, RolesRollback DEF Transaction
  <2>6. QED
    BY <2>1, <2>2, <2>3, <2>4, <2>5 DEF Next
<1>3. QED
  BY <1>1, <1>2, Safety, PolicySafety, LockSafety, PTL DEF Spec

-----------------------------------------------------------------------------
\* When no request for a user is being served its rows and its policies say
\* the same, unless a deletion overlapped an update, a step failed after the
\* first change in Casbin or a reload put back older policies, for any number of requests (UserService.go,
\* lockUnlockUserReqState and the transaction of UpdateUser).
THEOREM RolesAgreeAtRest == Spec => []RolesAgree
<1>1. PolicyInv /\ RolesInv => RolesAgree
  <2> SUFFICES ASSUME PolicyInv, RolesInv, NEW u \in User, Quiet(u), scar[u] = "none"
               PROVE  /\ grants[u] = roles[u] /\ stored[u] = roles[u]
                      /\ active[u] \/ roles[u] = {}
    BY DEF RolesAgree
  <2>1. Clean(u) /\ Untouched(u)
    BY DEF RolesInv, Untouched, Quiet, Serving
  <2>2. Agreed(u)
    BY DEF PolicyInv
  <2>3. QED
    BY <2>1, <2>2 DEF Clean, Agreed
<1>2. QED
  BY <1>1, RolesSafety, PTL

\* A deleted user has no policies when no request for it is being served, also
\* when updates overlapped the deletion, for any number of requests
\* (UserService_ent.go, deleteUserCasbinPolices).
THEOREM DeletedHasNothing == Spec => []DeletedIsPowerless
<1>1. PolicyInv /\ RolesInv => DeletedIsPowerless
  <2> SUFFICES ASSUME PolicyInv, RolesInv, NEW u \in User, Quiet(u), ~active[u], scar[u] # "torn"
               PROVE  grants[u] = {} /\ stored[u] = {}
    BY DEF DeletedIsPowerless
  <2>1. Powerless(u) /\ ~Adding(u)
    BY DEF RolesInv, Adding, Quiet, Serving
  <2>2. Agreed(u)
    BY DEF PolicyInv
  <2>3. QED
    BY <2>1, <2>2 DEF Powerless, Agreed
<1>2. QED
  BY <1>1, RolesSafety, PTL
=============================================================================
