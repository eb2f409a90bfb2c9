------------------------ MODULE EnforcerCacheProofs ------------------------
(***************************************************************************)
(* The decision cache agrees with Casbin, for any users, items, editors    *)
(* and requests in flight.                                                 *)
(*                                                                         *)
(* The argument is IInv of EnforcerCache.  A decision goes stale in the    *)
(* hands of a batch only while some editor has the user still to           *)
(* invalidate; the invalidation raises the flag, and because the counter   *)
(* is the number of requests in flight, the flag cannot fall before that   *)
(* batch has left without storing anything.                                *)
(***************************************************************************)
EXTENDS EnforcerCache, FiniteSetTheorems, TLAPS

All == Request \cup Batch

-----------------------------------------------------------------------------
\* The requests in flight for a user are finitely many.
LEMMA InFlightFinite ==
  ASSUME NEW u \in User
  PROVE  IsFiniteSet(InFlight(u)) /\ Cardinality(InFlight(u)) \in Nat
<1>1. IsFiniteSet(Request \cup Batch)
  BY FS_Union, RequestAssumption
<1>2. InFlight(u) \in SUBSET (Request \cup Batch)
  BY DEF InFlight
<1>3. IsFiniteSet(InFlight(u))
  BY <1>1, <1>2, FS_Subset
<1>4. QED
  BY <1>3, FS_CardinalityType

\* A request that enters is counted.
LEMMA Enters ==
  ASSUME IInv, NEW r \in All, NEW u \in User, NEW rec \in RequestType,
         req[r].pc = "idle", rec.user = u, rec.pc # "idle",
         req' = [req EXCEPT ![r] = rec], counter' = [counter EXCEPT ![u] = @ + 1]
  PROVE  /\ counter' \in [User -> Nat]
         /\ req' \in [All -> RequestType]
         /\ CounterIsInFlight'
         /\ IdleHasNoUser'
<1>1. req \in [All -> RequestType] /\ counter \in [User -> Nat]
  BY DEF IInv, TypeOK, All
<1>2. counter' \in [User -> Nat] /\ req' \in [All -> RequestType]
  BY <1>1
<1>3. req[r].user = NoUser
  BY DEF IInv, IdleHasNoUser, All
<1>4. ASSUME NEW v \in User
      PROVE  counter'[v] = Cardinality(InFlight(v)')
  <2>1. counter[v] = Cardinality(InFlight(v)) /\ IsFiniteSet(InFlight(v))
    BY InFlightFinite DEF IInv, CounterIsInFlight
  <2>2. CASE v = u
    <3>1. r \notin InFlight(u)
      BY <1>3, NoUserAssumption DEF InFlight
    <3>2. InFlight(u)' = InFlight(u) \cup {r}
      BY <1>1 DEF InFlight, All
    <3>3. Cardinality(InFlight(u) \cup {r}) = Cardinality(InFlight(u)) + 1
      BY <2>1, <2>2, <3>1, FS_AddElement
    <3>4. QED
      BY <1>1, <2>1, <2>2, <3>2, <3>3
  <2>3. CASE v # u
    <3>1. InFlight(v)' = InFlight(v)
      BY <1>1, <1>3, <2>3, NoUserAssumption DEF InFlight, All
    <3>2. QED
      BY <1>1, <2>1, <2>3, <3>1
  <2>4. QED
    BY <2>2, <2>3
<1>5. IdleHasNoUser'
  BY <1>1, NoUserAssumption DEF IInv, IdleHasNoUser, All
<1>6. QED
  BY <1>2, <1>4, <1>5 DEF CounterIsInFlight

\* A request in flight has a user.
LEMMA HasUser ==
  ASSUME IInv, NEW r \in All, req[r].pc # "idle"
  PROVE  req[r].user \in User
BY DEF IInv, TypeOK, IdleHasNoUser, All, RequestType

\* The idle request is well typed and counts for nobody.
LEMMA IdleFields == Idle \in RequestType /\ Idle.pc = "idle" /\ Idle.user = NoUser
BY DEF Idle, RequestType, Verdict

\* A request that leaves is counted out, and a flag falls only with the last
\* request in flight.
LEMMA Leaves ==
  ASSUME IInv, NEW r \in All, NEW u \in User, req[r].user = u, req[r].pc # "idle", Leave(r)
  PROVE  /\ counter' \in [User -> Nat]
         /\ flag' \in [User -> BOOLEAN]
         /\ req' \in [All -> RequestType]
         /\ CounterIsInFlight'
         /\ IdleHasNoUser'
         /\ \A v \in User : flag[v] /\ ~flag'[v] => InFlight(v)' = {}
<1>1. req \in [All -> RequestType] /\ counter \in [User -> Nat] /\ flag \in [User -> BOOLEAN]
  BY DEF IInv, TypeOK, All
<1>4. /\ counter' = [counter EXCEPT ![u] = @ - 1]
      /\ flag' = [flag EXCEPT ![u] = @ /\ counter[u] # 1]
      /\ req' = [req EXCEPT ![r] = Idle]
  BY DEF Leave
<1>5. flag' \in [User -> BOOLEAN] /\ req' \in [All -> RequestType]
  BY <1>1, <1>4, IdleFields
<1>6. r \in InFlight(u) /\ InFlight(u)' = InFlight(u) \ {r}
  BY <1>1, <1>4, IdleFields, NoUserAssumption DEF InFlight, All
<1>7. \A v \in User \ {u} : InFlight(v)' = InFlight(v)
  BY <1>1, <1>4, IdleFields, NoUserAssumption DEF InFlight, All
<1>8. IsFiniteSet(InFlight(u)) /\ counter[u] = Cardinality(InFlight(u)) /\ counter[u] \in Nat
  BY <1>1, InFlightFinite DEF IInv, CounterIsInFlight
<1>9. Cardinality(InFlight(u)') = counter[u] - 1
  BY <1>6, <1>8, FS_RemoveElement
<1>10. counter[u] # 0
  BY <1>6, <1>8, FS_EmptySet
<1>11. counter' \in [User -> Nat]
  BY <1>1, <1>4, <1>8, <1>10
<1>12. CounterIsInFlight'
  <2>1. ASSUME NEW v \in User
        PROVE  counter'[v] = Cardinality(InFlight(v)')
    <3>1. CASE v = u
      BY <1>1, <1>4, <1>9, <3>1
    <3>2. CASE v # u
      BY <1>1, <1>4, <1>7, <3>2 DEF IInv, CounterIsInFlight
    <3>3. QED
      BY <3>1, <3>2
  <2>2. QED
    BY <2>1 DEF CounterIsInFlight
<1>13. IdleHasNoUser'
  BY <1>1, <1>4, IdleFields DEF IInv, IdleHasNoUser, All
<1>14. ASSUME NEW v \in User, flag[v], ~flag'[v]
       PROVE  InFlight(v)' = {}
  <2>1. v = u /\ counter[u] = 1
    BY <1>1, <1>4, <1>14
  <2>2. IsFiniteSet(InFlight(u)') /\ Cardinality(InFlight(u)') = 0
    BY <1>6, <1>8, <1>9, <2>1, FS_RemoveElement
  <2>3. QED
    BY <2>1, <2>2, FS_EmptySet
<1>15. QED
  BY <1>5, <1>11, <1>12, <1>13, <1>14

\* A batch that held a stale decision, and was flagged, still is when another
\* request has left.
LEMMA LeavesFlagged ==
  ASSUME IInv, NEW r \in All, req[r].pc # "idle", Leave(r), UNCHANGED <<grants, edit, owed>>
  PROVE  StaleIsFlagged'
<1>1. /\ req' = [req EXCEPT ![r] = Idle]
      /\ req \in [All -> RequestType]
  BY DEF Leave, IInv, TypeOK, All
<1>2. ASSUME NEW q \in Batch, NEW v \in User, req'[q].pc = "batch", req'[q].user = v,
             ~Edited(v)', ~flag'[v], NEW i \in Item
      PROVE  req'[q].got[i] \in {"none", enforcerEnforce(v, i)'}
  <2>1. q # r /\ req'[q] = req[q] /\ q \in All
    BY <1>1, <1>2, IdleFields DEF All
  <2>2. q \in InFlight(v)'
    BY <1>2, <2>1 DEF InFlight, All
  <2>3. ~flag[v]
    <3>1. PICK u \in User : req[r].user = u
      BY HasUser
    <3>2. \A x \in User : flag[x] /\ ~flag'[x] => InFlight(x)' = {}
      BY <3>1, Leaves
    <3>3. QED
      BY <1>2, <2>2, <3>2
  <2>4. ~Edited(v)
    BY <1>2 DEF Edited
  <2>5. req[q].got[i] \in {"none", enforcerEnforce(v, i)}
    BY <1>2, <2>1, <2>3, <2>4 DEF IInv, StaleIsFlagged
  <2>6. QED
    BY <2>1, <2>5 DEF enforcerEnforce
<1>3. \A q \in Batch : req'[q].pc = "batch" => req'[q].user \in User
  <2>1. \A q \in All : req[q].pc # "idle" => req[q].user \in User
    BY HasUser
  <2>2. QED
    BY <1>1, <2>1, IdleFields DEF All
<1>4. QED
  BY <1>2, <1>3 DEF StaleIsFlagged

-----------------------------------------------------------------------------
\* The invariant holds at the start.
LEMMA InitInv == Init => IInv
<1> SUFFICES ASSUME Init PROVE IInv
  OBVIOUS
<1>1. Idle \in RequestType /\ Idle.pc = "idle" /\ Idle.user = NoUser
  BY IdleFields
<1>2. TypeOK
  BY <1>1 DEF Init, TypeOK, Verdict
<1>3. CacheAgrees
  BY DEF Init, CacheAgrees
<1>4. CounterIsInFlight
  <2>1. \A u \in User : InFlight(u) = {}
    BY <1>1, NoUserAssumption DEF Init, InFlight
  <2>2. QED
    BY <2>1, FS_EmptySet DEF Init, CounterIsInFlight
<1>5. StaleIsFlagged
  BY <1>1 DEF Init, StaleIsFlagged
<1>6. IdleHasNoUser
  BY <1>1 DEF Init, IdleHasNoUser
<1>7. QED
  BY <1>2, <1>3, <1>4, <1>5, <1>6 DEF IInv

-----------------------------------------------------------------------------
(***************************************************************************)
(* Every step keeps the invariant.                                         *)
(***************************************************************************)
\* Storing decisions keeps the type of the cache.
LEMMA StoredType ==
  ASSUME TypeOK, NEW u \in User, NEW got \in [Item -> Verdict \cup {"none"}]
  PROVE  Stored(u, got) \in [User -> [Item -> Verdict \cup {"none"}]]
BY DEF TypeOK, Stored

\* A decision is found in the cache, or not.
LEMMA KeepsEnforceFromCache ==
  ASSUME IInv, NEW r \in Request, NEW u \in User, NEW i \in Item, enforceFromCache(r, u, i)
  PROVE  IInv'
<1> DEFINE miss == [Idle EXCEPT !.pc = "miss", !.user = u, !.items = {i}]
           hit == [Idle EXCEPT !.pc = "hit", !.user = u]
<1>1. /\ miss \in RequestType /\ miss.user = u /\ miss.pc = "miss"
      /\ hit \in RequestType /\ hit.user = u /\ hit.pc = "hit"
  BY DEF Idle, RequestType, Verdict
<1>2. PICK rec \in RequestType : rec.user = u /\ rec.pc \in {"miss", "hit"}
                                 /\ req' = [req EXCEPT ![r] = rec]
  BY <1>1 DEF enforceFromCache
<1>3. /\ req[r].pc = "idle" /\ r \in All
      /\ counter' = [counter EXCEPT ![u] = @ + 1]
      /\ UNCHANGED <<grants, cache, flag, edit, owed>>
  BY DEF enforceFromCache, All
<1>4. /\ counter' \in [User -> Nat]
      /\ req' \in [All -> RequestType]
      /\ CounterIsInFlight'
      /\ IdleHasNoUser'
  BY <1>2, <1>3, Enters
<1>5. TypeOK'
  BY <1>3, <1>4 DEF IInv, TypeOK, All
<1>6. CacheAgrees'
  BY <1>3 DEF IInv, CacheAgrees, Edited, enforcerEnforce
<1>7. StaleIsFlagged'
  BY <1>2, <1>3 DEF IInv, TypeOK, All, StaleIsFlagged, Edited, enforcerEnforce
<1>8. QED
  BY <1>4, <1>5, <1>6, <1>7 DEF IInv

\* A hit leaves.
LEMMA KeepsEnforceHit ==
  ASSUME IInv, NEW r \in Request, enforceHit(r)
  PROVE  IInv'
<1>1. r \in All /\ req[r].pc # "idle" /\ Leave(r) /\ UNCHANGED <<grants, cache, edit, owed>>
  BY DEF enforceHit, All
<1>2. PICK u \in User : req[r].user = u
  BY <1>1, HasUser
<1>3. /\ counter' \in [User -> Nat] /\ flag' \in [User -> BOOLEAN]
      /\ req' \in [All -> RequestType] /\ CounterIsInFlight' /\ IdleHasNoUser'
  BY <1>1, <1>2, Leaves
<1>4. TypeOK'
  BY <1>1, <1>3 DEF IInv, TypeOK, All
<1>5. CacheAgrees'
  BY <1>1 DEF IInv, CacheAgrees, Edited, enforcerEnforce
<1>6. StaleIsFlagged'
  BY <1>1, LeavesFlagged
<1>7. QED
  BY <1>3, <1>4, <1>5, <1>6 DEF IInv

\* A miss is decided now, so what it stores agrees with Casbin.
LEMMA KeepsEnforceAndUpdateCache ==
  ASSUME IInv, NEW r \in Request, enforceAndUpdateCache(r)
  PROVE  IInv'
<1>1. r \in All /\ req[r].pc # "idle" /\ Leave(r) /\ UNCHANGED <<grants, edit, owed>>
  BY DEF enforceAndUpdateCache, All
<1>2. PICK u \in User : req[r].user = u
  BY <1>1, HasUser
<1>3. /\ counter' \in [User -> Nat] /\ flag' \in [User -> BOOLEAN]
      /\ req' \in [All -> RequestType] /\ CounterIsInFlight' /\ IdleHasNoUser'
  BY <1>1, <1>2, Leaves
<1> DEFINE decided == [i \in Item |-> IF i \in req[r].items THEN enforcerEnforce(u, i)
                                                            ELSE "none"]
<1>4. cache' \in {cache, Stored(u, decided)}
  BY <1>2 DEF enforceAndUpdateCache
<1>5. decided \in [Item -> Verdict \cup {"none"}]
  BY DEF enforcerEnforce, Verdict
<1>6. cache' \in [User -> [Item -> Verdict \cup {"none"}]]
  BY <1>4, <1>5, StoredType DEF IInv, TypeOK
<1>7. TypeOK'
  BY <1>1, <1>3, <1>6 DEF IInv, TypeOK, All
<1>8. CacheAgrees'
  <2>1. ASSUME NEW v \in User, ~Edited(v)', NEW i \in Item
        PROVE  cache'[v][i] \in {"none", enforcerEnforce(v, i)'}
    <3>1. cache[v][i] \in {"none", enforcerEnforce(v, i)}
      BY <1>1, <2>1 DEF IInv, CacheAgrees, Edited
    <3>2. enforcerEnforce(v, i)' = enforcerEnforce(v, i)
      BY <1>1 DEF enforcerEnforce
    <3>3. Stored(u, decided)[v][i] \in {cache[v][i], enforcerEnforce(v, i)}
      BY DEF Stored, IInv, TypeOK, Verdict
    <3>4. QED
      BY <1>4, <3>1, <3>2, <3>3
  <2>2. QED
    BY <2>1 DEF CacheAgrees
<1>9. StaleIsFlagged'
  BY <1>1, LeavesFlagged
<1>10. QED
  BY <1>3, <1>7, <1>8, <1>9 DEF IInv

\* A batch takes over what the cache knows.
LEMMA KeepsBatchEnforceFromCache ==
  ASSUME IInv, NEW r \in Batch, NEW u \in User, NEW items \in SUBSET Item,
         batchEnforceFromCache(r, u, items)
  PROVE  IInv'
<1>1. /\ req[r].pc = "idle" /\ r \in All
      /\ counter' = [counter EXCEPT ![u] = @ + 1]
      /\ UNCHANGED <<grants, cache, flag, edit, owed>>
  BY DEF batchEnforceFromCache, All
<1>2. PICK todo \in SUBSET Item :
        req' = [req EXCEPT ![r] = [pc |-> "batch", user |-> u, items |-> items, todo |-> todo,
                                   got |-> Lookup(u, items)]]
  BY DEF batchEnforceFromCache
<1> DEFINE rec == [pc |-> "batch", user |-> u, items |-> items, todo |-> todo,
                   got |-> Lookup(u, items)]
<1>3. Lookup(u, items) \in [Item -> Verdict \cup {"none"}]
  BY DEF Lookup, IInv, TypeOK
<1>4. rec \in RequestType /\ rec.user = u /\ rec.pc = "batch" /\ rec.got = Lookup(u, items)
  BY <1>3 DEF RequestType
<1>5. /\ counter' \in [User -> Nat]
      /\ req' \in [All -> RequestType]
      /\ CounterIsInFlight'
      /\ IdleHasNoUser'
  BY <1>1, <1>2, <1>4, Enters
<1>6. TypeOK'
  BY <1>1, <1>5 DEF IInv, TypeOK, All
<1>7. CacheAgrees'
  BY <1>1 DEF IInv, CacheAgrees, Edited, enforcerEnforce
<1>8. StaleIsFlagged'
  <2>1. ~Edited(u) => \A i \in Item : Lookup(u, items)[i] \in {"none", enforcerEnforce(u, i)}
    BY DEF IInv, CacheAgrees, Lookup
  <2>2. /\ req'[r].user = u /\ req'[r].got = Lookup(u, items)
        /\ \A q \in Batch : q # r => req'[q] = req[q]
    BY <1>1, <1>2 DEF IInv, TypeOK, All
  <2>3. QED
    BY <1>1, <2>1, <2>2 DEF IInv, StaleIsFlagged, Edited, enforcerEnforce
<1>9. QED
  BY <1>5, <1>6, <1>7, <1>8 DEF IInv

\* What a goroutine of a batch adds is Casbin's present decision.
LEMMA KeepsBatchDecision ==
  ASSUME IInv, NEW r \in Batch, NEW i \in Item, enforceByEmailInBatchSync(r, i)
  PROVE  IInv'
<1>1. /\ req[r].pc = "batch" /\ r \in All
      /\ UNCHANGED <<grants, cache, counter, flag, edit, owed>>
      /\ req \in [All -> RequestType]
  BY DEF enforceByEmailInBatchSync, IInv, TypeOK, All
<1>2. PICK u \in User : req[r].user = u
  BY <1>1, HasUser
<1> DEFINE answer == [req[r].got EXCEPT ![i] = enforcerEnforce(u, i)]
           answered == [req[r] EXCEPT !.todo = @ \ {i}, !.got = answer]
           failed == [req[r] EXCEPT !.todo = @ \ {i}, !.items = @ \ {i}]
<1>3. req' \in {[req EXCEPT ![r] = answered], [req EXCEPT ![r] = failed]}
  BY <1>1, <1>2 DEF enforceByEmailInBatchSync
<1>4. req[r] \in RequestType /\ enforcerEnforce(u, i) \in Verdict
  BY <1>1 DEF enforcerEnforce, Verdict
<1>5. answered \in RequestType /\ failed \in RequestType
  BY <1>4 DEF RequestType
<1>6. /\ answered.user = u /\ failed.user = u
      /\ answered.pc = "batch" /\ failed.pc = "batch"
      /\ failed.got = req[r].got
      /\ answered.got = [req[r].got EXCEPT ![i] = enforcerEnforce(u, i)]
  BY <1>1, <1>2, <1>4 DEF RequestType
<1>7. PICK rec \in {answered, failed} : req' = [req EXCEPT ![r] = rec]
  BY <1>3
<1>8. rec \in RequestType /\ rec.user = u /\ rec.pc = "batch"
  BY <1>5, <1>6
<1>9. TypeOK'
  BY <1>1, <1>7, <1>8 DEF IInv, TypeOK, All
<1>10. CacheAgrees'
  BY <1>1 DEF IInv, CacheAgrees, Edited, enforcerEnforce
<1>11. CounterIsInFlight'
  <2>1. \A v \in User : InFlight(v)' = InFlight(v)
    BY <1>1, <1>2, <1>7, <1>8 DEF InFlight, All
  <2>2. QED
    BY <1>1, <2>1 DEF IInv, CounterIsInFlight
<1>12. IdleHasNoUser'
  BY <1>1, <1>2, <1>7, <1>8, NoUserAssumption DEF IInv, IdleHasNoUser, All
<1>13. StaleIsFlagged'
  <2>1. /\ req'[r] = rec
        /\ \A q \in Batch : q # r => req'[q] = req[q]
    BY <1>1, <1>7 DEF All
  <2>2. ~Edited(u) /\ ~flag[u] => \A k \in Item : req[r].got[k] \in {"none", enforcerEnforce(u, k)}
    BY <1>1, <1>2 DEF IInv, StaleIsFlagged
  <2>3. \A k \in Item : rec.got[k] \in {req[r].got[k], enforcerEnforce(u, k)}
    <3>1. req[r].got \in [Item -> Verdict \cup {"none"}]
      BY <1>4 DEF RequestType
    <3>2. CASE rec = failed
      BY <1>6, <3>2
    <3>3. CASE rec = answered
      BY <1>6, <3>1, <3>3
    <3>4. QED
      BY <1>7, <3>2, <3>3
  <2>4. ~Edited(u) /\ ~flag[u] => \A k \in Item : rec.got[k] \in {"none", enforcerEnforce(u, k)}
    BY <2>2, <2>3
  <2>5. QED
    BY <1>1, <1>8, <2>1, <2>4 DEF IInv, StaleIsFlagged, Edited, enforcerEnforce
<1>14. QED
  BY <1>9, <1>10, <1>11, <1>12, <1>13 DEF IInv

\* A batch stores what it got only when it is not flagged.
LEMMA KeepsEnforceByEmailInBatch ==
  ASSUME IInv, NEW r \in Batch, EnforceByEmailInBatch(r)
  PROVE  IInv'
<1>1. /\ req[r].pc = "batch" /\ r \in All /\ Leave(r) /\ UNCHANGED <<grants, edit, owed>>
  BY DEF EnforceByEmailInBatch, All
<1>2. PICK u \in User : req[r].user = u
  BY <1>1, HasUser
<1>3. /\ counter' \in [User -> Nat] /\ flag' \in [User -> BOOLEAN]
      /\ req' \in [All -> RequestType] /\ CounterIsInFlight' /\ IdleHasNoUser'
  BY <1>1, <1>2, Leaves
<1>4. cache' = IF flag[u] THEN cache ELSE Stored(u, req[r].got)
  BY <1>2 DEF EnforceByEmailInBatch
<1>5. req[r].got \in [Item -> Verdict \cup {"none"}]
  BY <1>1 DEF IInv, TypeOK, RequestType, All
<1>6. cache' \in [User -> [Item -> Verdict \cup {"none"}]]
  BY <1>4, <1>5, StoredType DEF IInv, TypeOK
<1>7. TypeOK'
  BY <1>1, <1>3, <1>6 DEF IInv, TypeOK, All
<1>8. CacheAgrees'
  <2>1. ASSUME NEW v \in User, ~Edited(v)', NEW i \in Item
        PROVE  cache'[v][i] \in {"none", enforcerEnforce(v, i)'}
    <3>1. cache[v][i] \in {"none", enforcerEnforce(v, i)} /\ ~Edited(v)
      BY <1>1, <2>1 DEF IInv, CacheAgrees, Edited
    <3>2. enforcerEnforce(v, i)' = enforcerEnforce(v, i)
      BY <1>1 DEF enforcerEnforce
    <3>3. ASSUME ~flag[u], v = u
          PROVE  req[r].got[i] \in {"none", enforcerEnforce(v, i)}
      BY <1>1, <1>2, <3>1, <3>3 DEF IInv, StaleIsFlagged
    <3>4. CASE ~flag[u] /\ v = u
      <4>1. cache'[v][i] \in {cache[v][i], req[r].got[i]}
        BY <1>4, <1>5, <3>4 DEF Stored, IInv, TypeOK
      <4>2. QED
        BY <3>1, <3>2, <3>3, <3>4, <4>1
    <3>5. CASE flag[u] \/ v # u
      <4>1. cache'[v][i] = cache[v][i]
        BY <1>4, <3>5 DEF Stored, IInv, TypeOK
      <4>2. QED
        BY <3>1, <3>2, <4>1
    <3>6. QED
      BY <3>4, <3>5
  <2>2. QED
    BY <2>1 DEF CacheAgrees
<1>9. StaleIsFlagged'
  BY <1>1, LeavesFlagged
<1>10. QED
  BY <1>3, <1>7, <1>8, <1>9 DEF IInv

\* A policy changes: whose decisions change is edited from then on.
LEMMA KeepsChangePolicy ==
  ASSUME IInv, NEW e \in Editor, NEW us \in SUBSET User, NEW others \in SUBSET User,
         ChangePolicy(e, us, others)
  PROVE  IInv'
<1>1. /\ grants' \in [User -> SUBSET Item]
      /\ \A u \in User \ (us \cup others) : grants'[u] = grants[u]
      /\ edit' = [edit EXCEPT ![e] = @ \cup us]
      /\ owed' = owed \cup others
      /\ UNCHANGED <<cache, counter, flag, req>>
  BY DEF ChangePolicy
<1>2. TypeOK'
  BY <1>1 DEF IInv, TypeOK
<1>3. ASSUME NEW v \in User, ~Edited(v)'
      PROVE  ~Edited(v) /\ grants'[v] = grants[v]
  <2>1. edit'[e] = edit[e] \cup us /\ \A d \in Editor : edit[d] \subseteq edit'[d]
    BY <1>1 DEF IInv, TypeOK
  <2>2. v \notin us /\ v \notin others /\ ~Edited(v)
    BY <1>1, <1>3, <2>1 DEF Edited
  <2>3. QED
    BY <1>1, <2>2
<1>4. CacheAgrees'
  BY <1>1, <1>3 DEF IInv, CacheAgrees, enforcerEnforce
<1>5. StaleIsFlagged'
  <2>1. \A q \in Batch : req[q].pc = "batch" => req[q].user \in User
    BY HasUser DEF All
  <2>2. ASSUME NEW q \in Batch, NEW v \in User, req[q].pc = "batch", req[q].user = v,
               ~Edited(v)', ~flag[v], NEW i \in Item
        PROVE  req[q].got[i] \in {"none", enforcerEnforce(v, i)'}
    BY <1>3, <2>2 DEF IInv, StaleIsFlagged, enforcerEnforce
  <2>3. QED
    BY <1>1, <2>1, <2>2 DEF StaleIsFlagged
<1>6. QED
  BY <1>1, <1>2, <1>4, <1>5 DEF IInv, CounterIsInFlight, InFlight, IdleHasNoUser

\* An editor that gives up leaves the users it changed edited.
LEMMA KeepsGiveUp ==
  ASSUME IInv, NEW e \in Editor, GiveUp(e)
  PROVE  IInv'
<1>1. /\ edit' = [edit EXCEPT ![e] = {}]
      /\ owed' = owed \cup edit[e]
      /\ UNCHANGED <<grants, cache, counter, flag, req>>
  BY DEF GiveUp
<1>2. TypeOK'
  BY <1>1 DEF IInv, TypeOK
<1>3. \A v \in User : Edited(v) => Edited(v)'
  BY <1>1 DEF IInv, TypeOK, Edited
<1>4. CacheAgrees'
  BY <1>1, <1>3 DEF IInv, CacheAgrees, enforcerEnforce
<1>5. StaleIsFlagged'
  <2>1. \A q \in Batch : req[q].pc = "batch" => req[q].user \in User
    BY HasUser DEF All
  <2>2. QED
    BY <1>1, <1>3, <2>1 DEF IInv, StaleIsFlagged, enforcerEnforce
<1>6. QED
  BY <1>1, <1>2, <1>4, <1>5 DEF IInv, CounterIsInFlight, InFlight, IdleHasNoUser

\* An invalidation empties the cache of the user and raises its flag.
LEMMA KeepsInvalidateCache ==
  ASSUME IInv, NEW e \in Editor, NEW u \in User, InvalidateCache(e, u)
  PROVE  IInv'
<1>1. /\ flag' = [flag EXCEPT ![u] = TRUE]
      /\ cache' = [cache EXCEPT ![u] = [i \in Item |-> "none"]]
      /\ edit' = [edit EXCEPT ![e] = @ \ {u}]
      /\ owed' = owed \ {u}
      /\ UNCHANGED <<grants, counter, req>>
  BY DEF InvalidateCache
<1>2. TypeOK'
  BY <1>1 DEF IInv, TypeOK
<1>3. \A v \in User : v # u /\ Edited(v) => Edited(v)'
  BY <1>1 DEF IInv, TypeOK, Edited
<1>4. flag'[u] /\ \A v \in User : v # u => flag'[v] = flag[v] /\ cache'[v] = cache[v]
  BY <1>1 DEF IInv, TypeOK
<1>5. \A i \in Item : cache'[u][i] = "none"
  BY <1>1 DEF IInv, TypeOK
<1>6. CacheAgrees'
  BY <1>1, <1>3, <1>4, <1>5 DEF IInv, CacheAgrees, enforcerEnforce
<1>7. StaleIsFlagged'
  <2>1. \A q \in Batch : req[q].pc = "batch" => req[q].user \in User
    BY HasUser DEF All
  <2>2. ASSUME NEW q \in Batch, NEW v \in User, req[q].pc = "batch", req[q].user = v,
               ~Edited(v)', ~flag'[v], NEW i \in Item
        PROVE  req[q].got[i] \in {"none", enforcerEnforce(v, i)'}
    <3>1. v # u /\ ~Edited(v) /\ ~flag[v]
      BY <1>3, <1>4, <2>2
    <3>2. QED
      BY <1>1, <2>2, <3>1 DEF IInv, StaleIsFlagged, enforcerEnforce
  <2>3. QED
    BY <1>1, <2>1, <2>2 DEF StaleIsFlagged
<1>8. QED
  BY <1>1, <1>2, <1>6, <1>7 DEF IInv, CounterIsInFlight, InFlight, IdleHasNoUser

\* An entry that expires is no longer there to disagree.
LEMMA KeepsExpire ==
  ASSUME IInv, NEW u \in User, Expire(u)
  PROVE  IInv'
<1>1. /\ cache' = [cache EXCEPT ![u] = [i \in Item |-> "none"]]
      /\ UNCHANGED <<grants, counter, flag, req, edit, owed>>
  BY DEF Expire
<1>2. TypeOK'
  BY <1>1 DEF IInv, TypeOK
<1>3. \A v \in User, i \in Item : cache'[v][i] \in {"none", cache[v][i]}
  BY <1>1 DEF IInv, TypeOK
<1>4. CacheAgrees'
  BY <1>1, <1>3 DEF IInv, CacheAgrees, Edited, enforcerEnforce
<1>5. StaleIsFlagged'
  BY <1>1 DEF IInv, StaleIsFlagged, Edited, enforcerEnforce
<1>6. QED
  BY <1>1, <1>2, <1>4, <1>5 DEF IInv, CounterIsInFlight, InFlight, IdleHasNoUser

\* After a restart nothing is cached and nobody is in flight.
LEMMA KeepsRestart ==
  ASSUME IInv, Restart
  PROVE  IInv'
<1>1. /\ cache' = [u \in User |-> [i \in Item |-> "none"]]
      /\ counter' = [u \in User |-> 0]
      /\ flag' = [u \in User |-> FALSE]
      /\ req' = [r \in Request \cup Batch |-> Idle]
      /\ edit' = [e \in Editor |-> {}]
      /\ owed' = {}
      /\ grants' \in [User -> SUBSET Item]
  BY DEF Restart
<1>2. TypeOK'
  BY <1>1, IdleFields DEF IInv, TypeOK
<1>3. CacheAgrees'
  BY <1>1 DEF CacheAgrees
<1>4. CounterIsInFlight'
  <2>1. \A u \in User : InFlight(u)' = {}
    BY <1>1, IdleFields, NoUserAssumption DEF InFlight
  <2>2. QED
    BY <1>1, <2>1, FS_EmptySet DEF CounterIsInFlight
<1>5. StaleIsFlagged' /\ IdleHasNoUser'
  BY <1>1, IdleFields DEF StaleIsFlagged, IdleHasNoUser
<1>6. QED
  BY <1>2, <1>3, <1>4, <1>5 DEF IInv

\* The invariant is inductive.
LEMMA NextInv == IInv /\ [Next]_vars => IInv'
<1> SUFFICES ASSUME IInv, [Next]_vars PROVE IInv'
  OBVIOUS
<1>1. CASE Enforce
  <2>1. CASE \E r \in Request : \/ \E u \in User, i \in Item : enforceFromCache(r, u, i)
                                \/ enforceHit(r)
                                \/ enforceAndUpdateCache(r)
    BY <2>1, KeepsEnforceFromCache, KeepsEnforceHit, KeepsEnforceAndUpdateCache
  <2>2. CASE \E r \in Batch :
               \/ \E u \in User, items \in Asked : batchEnforceFromCache(r, u, items)
               \/ \E i \in Item : enforceByEmailInBatchSync(r, i)
               \/ EnforceByEmailInBatch(r)
    BY <2>2, AskedAssumption, KeepsBatchEnforceFromCache, KeepsBatchDecision, KeepsEnforceByEmailInBatch
  <2>3. QED
    BY <1>1, <2>1, <2>2 DEF Enforce
<1>2. CASE Edit
  BY <1>2, KeepsChangePolicy, KeepsGiveUp, KeepsInvalidateCache DEF Edit
<1>3. CASE \E u \in User : Expire(u)
  BY <1>3, KeepsExpire
<1>4. CASE Restart
  BY <1>4, KeepsRestart
<1>5. CASE UNCHANGED vars
  BY <1>5 DEF vars, IInv, TypeOK, CacheAgrees, CounterIsInFlight, StaleIsFlagged, IdleHasNoUser,
              InFlight, Edited, enforcerEnforce
<1>6. QED
  BY <1>1, <1>2, <1>3, <1>4, <1>5 DEF Next

\* Whatever happens, the invariant holds: in particular the counter is the
\* number of requests in flight, and the cache agrees with Casbin once the
\* editors have invalidated what they changed (rbac.go).
THEOREM Safety == Spec => []IInv
<1>1. Init => IInv
  BY InitInv
<1>2. IInv /\ [Next]_vars => IInv'
  BY NextInv
<1>3. QED
  BY <1>1, <1>2, PTL DEF Spec

\* The cache never contradicts Casbin about a user nobody has still to
\* invalidate: the flag and the counter keep out every stale decision.
THEOREM Agrees == Spec => []CacheAgrees
<1>1. IInv => CacheAgrees
  BY DEF IInv
<1>2. QED
  BY <1>1, Safety, PTL

-----------------------------------------------------------------------------
(***************************************************************************)
(* The items of a batch.  The goroutines take equal slices; what remains   *)
(* of the division is less than their number.                              *)
(***************************************************************************)
\* Nobody has answered these items of a batch, and nobody is going to.
LeftOut(rec) == {i \in rec.items : rec.got[i] = "none" /\ i \notin rec.todo}
Few(items) == IsFiniteSet(items) /\ Cardinality(items) < BatchSize
FewLeftOut == \A r \in Batch : req[r].pc = "batch" => Few(LeftOut(req[r]))

\* Equal slices of n items leave out less than there are slices.
LEMMA SlicedMost ==
  ASSUME NEW n \in Nat
  PROVE  Sliced(n) \in Nat /\ Sliced(n) <= n /\ n - Sliced(n) < BatchSize
<1>1. CASE n = 0
  BY <1>1, BatchSizeAssumption DEF Sliced
<1>2. CASE n # 0
  <2> DEFINE b == AtMost(BatchSize, n)
             q == n \div b
  <2>1. b \in Nat /\ b > 0 /\ b <= BatchSize
    BY <1>2, BatchSizeAssumption DEF AtMost
  <2>2. Sliced(n) = b * q
    BY <1>2 DEF Sliced
  <2> HIDE DEF b
  <2>3. q \in Nat /\ b * q <= n /\ n < b * q + b
    BY <2>1, SMTT(30)
  <2> HIDE DEF q
  <2>4. b * q \in Nat
    BY <2>1, <2>3
  <2>5. QED
    BY <2>1, <2>2, <2>3, <2>4, BatchSizeAssumption
<1>3. QED
  BY <1>1, <1>2

\* Part of few is few.
LEMMA FewerAreFew ==
  ASSUME NEW items, Few(items), NEW part \in SUBSET items
  PROVE  Few(part)
BY FS_Subset, FS_CardinalityType, BatchSizeAssumption DEF Few

\* What is in no slice is few.
LEMMA SlicedFew ==
  ASSUME NEW missing \in SUBSET Item, NEW todo \in SUBSET missing,
         Cardinality(todo) = Sliced(Cardinality(missing))
  PROVE  Few(missing \ todo)
<1>1. IsFiniteSet(missing) /\ Cardinality(missing) \in Nat
  BY FS_Subset, FS_CardinalityType, ItemAssumption
<1>2. IsFiniteSet(todo) /\ IsFiniteSet(missing \ todo) /\ missing \cap todo = todo
  BY <1>1, FS_Subset, FS_Difference
<1>3. Cardinality(missing \ todo) = Cardinality(missing) - Cardinality(todo)
  BY <1>1, <1>2, FS_Difference
<1>4. QED
  BY <1>1, <1>2, <1>3, SlicedMost DEF Few

\* Only what a request does to its own record matters.
LEMMA LeftOutElsewhere ==
  ASSUME IInv, FewLeftOut, NEW q \in All, NEW rec, req' = [req EXCEPT ![q] = rec],
         q \in Batch /\ rec.pc = "batch" => Few(LeftOut(rec))
  PROVE  FewLeftOut'
<1>1. \A r \in Batch : req'[r] = IF r = q THEN rec ELSE req[r]
  BY DEF IInv, TypeOK, All
<1>2. QED
  BY <1>1 DEF FewLeftOut

\* A request that leaves takes no batch with it.
LEMMA LeftOutLeaves ==
  ASSUME IInv, FewLeftOut, NEW r \in All, Leave(r)
  PROVE  FewLeftOut'
BY IdleFields, LeftOutElsewhere DEF Leave

\* Requests for one decision are no batches.
LEMMA LeftOutRequest ==
  ASSUME IInv, FewLeftOut, NEW r \in Request,
         \/ \E u \in User, i \in Item : enforceFromCache(r, u, i)
         \/ enforceHit(r)
         \/ enforceAndUpdateCache(r)
  PROVE  FewLeftOut'
<1>1. r \in All /\ r \notin Batch
  BY RequestAssumption DEF All
<1>2. PICK rec : req' = [req EXCEPT ![r] = rec]
  BY DEF enforceFromCache, enforceHit, enforceAndUpdateCache, Leave
<1>3. QED
  BY <1>1, <1>2, LeftOutElsewhere

\* A batch takes over what the cache knows and deals out most of the rest.
LEMMA LeftOutBatch ==
  ASSUME IInv, FewLeftOut, NEW r \in Batch, NEW u \in User, NEW items \in SUBSET Item,
         batchEnforceFromCache(r, u, items)
  PROVE  FewLeftOut'
<1> DEFINE missing == {i \in items : cache[u][i] = "none"}
<1>1. PICK todo \in SUBSET missing :
        /\ Cardinality(todo) = Sliced(Cardinality(missing))
        /\ req' = [req EXCEPT ![r] = [pc |-> "batch", user |-> u, items |-> items,
                                      todo |-> todo, got |-> Lookup(u, items)]]
  BY DEF batchEnforceFromCache
<1>2. Few(missing \ todo)
  BY <1>1, SlicedFew
<1> DEFINE rec == [pc |-> "batch", user |-> u, items |-> items,
                   todo |-> todo, got |-> Lookup(u, items)]
<1>3. LeftOut(rec) \subseteq missing \ todo
  BY DEF LeftOut, Lookup
<1>4. req' = [req EXCEPT ![r] = rec] /\ r \in All
  BY <1>1 DEF All
<1> HIDE DEF rec, missing
<1>5. QED
  BY <1>2, <1>3, <1>4, FewerAreFew, LeftOutElsewhere

\* An item of a batch is answered, or fails and is no longer asked for.
LEMMA LeftOutSync ==
  ASSUME IInv, FewLeftOut, NEW r \in Batch, NEW i \in Item, enforceByEmailInBatchSync(r, i)
  PROVE  FewLeftOut'
<1>1. /\ req[r].pc = "batch" /\ r \in All /\ req[r] \in RequestType
      /\ Few(LeftOut(req[r]))
  BY DEF enforceByEmailInBatchSync, IInv, TypeOK, All, FewLeftOut
<1> DEFINE verdict == enforcerEnforce(req[r].user, i)
           answer == [req[r].got EXCEPT ![i] = verdict]
           answered == [req[r] EXCEPT !.todo = @ \ {i}, !.got = answer]
           failed == [req[r] EXCEPT !.todo = @ \ {i}, !.items = @ \ {i}]
<1>2. /\ answered.items = req[r].items /\ answered.todo = req[r].todo \ {i} /\ answered.got = answer
      /\ failed.items = req[r].items \ {i} /\ failed.todo = req[r].todo \ {i} /\ failed.got = req[r].got
  BY <1>1 DEF RequestType
<1>3. \A k \in Item : answer[k] = IF k = i THEN verdict ELSE req[r].got[k]
  BY <1>1 DEF RequestType
<1>4. verdict # "none" /\ req[r].items \subseteq Item
  BY <1>1 DEF enforcerEnforce, RequestType
<1>5. CASE req' = [req EXCEPT ![r] = answered]
  <2>1. LeftOut(answered) \subseteq LeftOut(req[r])
    BY <1>2, <1>3, <1>4 DEF LeftOut
  <2> HIDE DEF answered
  <2>2. QED
    BY <1>1, <1>5, <2>1, FewerAreFew, LeftOutElsewhere
<1>6. CASE req' = [req EXCEPT ![r] = failed]
  <2>1. LeftOut(failed) \subseteq LeftOut(req[r])
    BY <1>2 DEF LeftOut
  <2> HIDE DEF failed
  <2>2. QED
    BY <1>1, <1>6, <2>1, FewerAreFew, LeftOutElsewhere
<1>7. QED
  BY <1>5, <1>6 DEF enforceByEmailInBatchSync

\* However a batch goes on, what it leaves out stays few.
LEMMA NextLeftOut ==
  ASSUME IInv, FewLeftOut, [Next]_vars
  PROVE  FewLeftOut'
<1>1. CASE Enforce
  <2>1. CASE \E r \in Request : \/ \E u \in User, i \in Item : enforceFromCache(r, u, i)
                                \/ enforceHit(r)
                                \/ enforceAndUpdateCache(r)
    BY <2>1, LeftOutRequest
  <2>2. ASSUME NEW r \in Batch, EnforceByEmailInBatch(r)
        PROVE  FewLeftOut'
    BY <2>2, LeftOutLeaves DEF EnforceByEmailInBatch, All
  <2>3. QED
    BY <1>1, <2>1, <2>2, AskedAssumption, LeftOutBatch, LeftOutSync DEF Enforce
<1>2. CASE Restart
  BY <1>2, IdleFields DEF Restart, FewLeftOut
<1>3. CASE Edit \/ (\E u \in User : Expire(u)) \/ UNCHANGED vars
  <2>1. req' = req
    BY <1>3 DEF Edit, ChangePolicy, GiveUp, InvalidateCache, Expire, vars
  <2>2. QED
    BY <2>1 DEF FewLeftOut
<1>4. QED
  BY <1>1, <1>2, <1>3 DEF Next

\* A batch leaves fewer items unanswered than it may have goroutines, besides
\* those that failed: however many items are asked for and whatever of them is
\* cached, the slices drop the rest of one division and no more (rbac.go,
\* 214-230).  With one goroutine, as shipped, that is none.
THEOREM Answered == Spec => []FewLeftUnanswered
<1>1. Init => FewLeftOut
  BY IdleFields DEF Init, FewLeftOut
<1>2. IInv /\ FewLeftOut /\ [Next]_vars => FewLeftOut'
  BY NextLeftOut
<1>3. FewLeftOut => FewLeftUnanswered
  <2>1. \A r \in Batch : req[r].todo = {} => Unanswered(r) = LeftOut(req[r])
    BY DEF Unanswered, LeftOut
  <2>2. QED
    BY <2>1 DEF FewLeftOut, FewLeftUnanswered, Few
<1>4. QED
  BY <1>1, <1>2, <1>3, Safety, PTL DEF Spec
==============================================================================
