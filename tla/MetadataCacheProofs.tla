------------------------ MODULE MetadataCacheProofs ------------------------
(***************************************************************************)
(* Proofs about MetadataCache for any set of calls, ids and values and any *)
(* number of faults.                                                       *)
(***************************************************************************)
EXTENDS MetadataCache, FiniteSetTheorems, TLAPS

(***************************************************************************)
(* Type correctness                                                        *)
(***************************************************************************)

(* What every step does to the fault bookkeeping keeps its type. *)
LEMMA FaultsTyped ==
  ASSUME TypeOK, NEW r \in Requests,
         RedisRuns(r) \/ RedisFails(r) \/ RedisUnacknowledged(r)
           \/ QueryRuns(r) \/ QueryFails(r) \/ QueryUnacknowledged(r) \/ InjectFault
  PROVE  faults' \in 0 .. MaxFaults /\ cancelled' \in SUBSET Requests
BY MaxFaultsAssumption
   DEF TypeOK, RedisRuns, RedisFails, RedisUnacknowledged, QueryRuns, QueryFails,
       QueryUnacknowledged, InjectFault, envVars

(* The records the model builds are of the types it declares. *)
LEMMA RecordsTyped ==
  /\ NoCall \in Calls
  /\ \A id \in Ids : Get(id) \in Calls
  /\ \A id \in Ids, m \in Metadata : Put(id, m) \in Calls
  /\ {NoResult, NotFound, OtherError} \subseteq Results
  /\ \A m \in Value : Data(m) \in Results
  /\ {NoAnswer, Unavailable, Invalid} \subseteq Answers
  /\ \A res \in Results : Answer(res) \in Answers
BY DEF NoCall, Get, Put, Calls, NoResult, NotFound, OtherError, Data, Result, Results,
       NoAnswer, Unavailable, Invalid, Answer, Answers, Value

(* Returning from a handler keeps the types of what it changes. *)
LEMMA ReturnTyped ==
  ASSUME TypeOK, NEW r \in Requests, NEW res \in Results, Return(r, res)
  PROVE  /\ pc' \in [Requests -> {"idle", "done"} \cup GetPcs \cup PutPcs]
         /\ call' \in [Requests -> Calls]
         /\ result' \in [Requests -> Results]
         /\ answer' \in [Requests -> Answers]
BY RecordsTyped DEF TypeOK, Return, Goto

(* A handler at work serves a call with an id; a put also has a value. *)
LEMMA CallsTyped ==
  ASSUME IInv, NEW r \in Requests
  PROVE  /\ pc[r] \in GetPcs => call[r].op = "get" /\ call[r].id \in Ids
         /\ pc[r] \in PutPcs \/ r \in detached =>
              call[r].op = "put" /\ call[r].id \in Ids /\ call[r].val \in Metadata
BY DEF IInv, HandlersFit, Gets, Puts, Get, Put

LEMMA TypeStep ==
  ASSUME IInv, [Next]_vars
  PROVE  TypeOK'
PROOF
  <1> USE DEF TypeOK, Goto, GetPcs, PutPcs, dbVars, redisVars
  <1>0. TypeOK
    BY DEF IInv
  <1>1. ASSUME NEW r \in Requests, Start(r) PROVE TypeOK'
    BY <1>0, <1>1, RecordsTyped DEF Start, StartGet, StartPut, RejectEmpty, envVars
  <1>2. ASSUME NEW r \in Requests, GetStep(r) PROVE TypeOK'
    <2>1. CASE \/ CacheMiss(r) \/ CacheGetFails(r) \/ LockBusy(r) \/ SetNXFails(r) \/ Wake(r)
               \/ FillFails(r)
      BY <1>0, <2>1, FaultsTyped DEF CacheMiss, CacheGetFails, LockBusy, SetNXFails, Wake, FillFails,
         envVars
    <2>2. CASE CacheHit(r)
      BY <1>0, <2>2, FaultsTyped, RecordsTyped, ReturnTyped, CallsTyped DEF CacheHit
    <2>3. CASE Acquire(r) \/ SetNXUnacknowledged(r)
      BY <1>0, <2>3, FaultsTyped, CallsTyped DEF Acquire, SetNXUnacknowledged
    <2>4. CASE LoadFound(r) \/ LoadMissing(r) \/ LoadFails(r)
      BY <1>0, <2>4, FaultsTyped, RecordsTyped, CallsTyped DEF LoadFound, LoadMissing, LoadFails, Keep
    <2>5. CASE Fill(r)
      BY <1>0, <2>5, FaultsTyped DEF Fill, CacheSet, Results
    <2>6. CASE Unlock(r) \/ UnlockFails(r)
      BY <1>0, <2>6, FaultsTyped, ReturnTyped DEF Unlock, UnlockFails
    <2>7. CASE UnlockRetried(r)
      BY <1>0, <2>7, FaultsTyped DEF UnlockRetried, LoseLocks, reqVars
    <2> QED
      BY <1>2, <2>1, <2>2, <2>3, <2>4, <2>5, <2>6, <2>7 DEF GetStep
  <1>3. ASSUME NEW r \in Requests, PutStep(r) PROVE TypeOK'
    <2>1. CASE Insert(r)
      BY <1>0, <2>1, FaultsTyped, CallsTyped DEF Insert, Value
    <2>2. CASE InsertDuplicate(r) \/ InsertFails(r) \/ WarmFails(r)
      BY <1>0, <2>2, FaultsTyped, RecordsTyped, ReturnTyped DEF InsertDuplicate, InsertFails, WarmFails
    <2>3. CASE InsertUnacknowledged(r)
      BY <1>0, <2>3, FaultsTyped, RecordsTyped, ReturnTyped DEF InsertUnacknowledged
    <2>4. CASE Warm(r) \/ WarmUnacknowledged(r)
      BY <1>0, <2>4, FaultsTyped, RecordsTyped, ReturnTyped, CallsTyped
         DEF Warm, WarmUnacknowledged, CacheSet, Value
    <2> QED
      BY <1>3, <2>1, <2>2, <2>3, <2>4 DEF PutStep
  <1>4. CASE Environment
    <2>1. ASSUME NEW r \in Requests, Cancel(r) PROVE TypeOK'
      BY <1>0, <2>1, MaxFaultsAssumption DEF Cancel, reqVars
    <2>2. ASSUME NEW r \in Requests, InsertLate(r) PROVE TypeOK'
      BY <1>0, <2>2, CallsTyped DEF InsertLate, reqVars, envVars, Value
    <2>3. ASSUME NEW id \in Ids, ExpireLock(id) \/ ExpireCache(id) PROVE TypeOK'
      BY <1>0, <2>3 DEF ExpireLock, ExpireCache, LoseLocks, CacheSet, reqVars, envVars, Value
    <2>4. CASE CrashRedis
      <3>1. redisUp' \in BOOLEAN
        BY <2>4 DEF CrashRedis
      <3>2. faults' \in 0 .. MaxFaults /\ cancelled' \in SUBSET Requests
        BY <1>0, <2>4, MaxFaultsAssumption DEF CrashRedis, InjectFault
      <3> QED
        BY <1>0, <2>4, <3>1, <3>2 DEF CrashRedis, reqVars
    <2>5. CASE RestartRedis
      BY <1>0, <2>5 DEF RestartRedis, LoseLocks, reqVars, envVars, Value
    <2>6. CASE CrashService
      BY <1>0, <2>6, MaxFaultsAssumption, RecordsTyped DEF CrashService, InjectFault
    <2> QED
      BY <1>4, <2>1, <2>2, <2>3, <2>4, <2>5, <2>6 DEF Environment
  <1>5. CASE UNCHANGED vars
    BY <1>0, <1>5 DEF vars, reqVars, envVars
  <1> QED
    BY <1>1, <1>2, <1>3, <1>4, <1>5 DEF Next, Step, AllAnswered

(***************************************************************************)
(* The inductive invariant                                                 *)
(***************************************************************************)

(* Rows are written once: no step changes or removes one. *)
LEMMA RowsStay ==
  ASSUME IInv, [Next]_vars, NEW id \in Ids, movies[id] # NoMetadata
  PROVE  movies'[id] = movies[id]
PROOF
  <1> USE DEF dbVars
  <1>0. TypeOK
    BY DEF IInv
  <1>1. ASSUME NEW r \in Requests, Start(r) PROVE movies' = movies
    BY <1>1 DEF Start, StartGet, StartPut, RejectEmpty
  <1>2. ASSUME NEW r \in Requests, GetStep(r) PROVE movies' = movies
    BY <1>2 DEF GetStep, CacheHit, CacheMiss, CacheGetFails, Acquire, LockBusy, SetNXFails,
       SetNXUnacknowledged, Wake, LoadFound, LoadMissing, LoadFails, Keep, Fill, FillFails,
       Unlock, UnlockFails, UnlockRetried
  <1>3. ASSUME NEW r \in Requests, PutStep(r) PROVE movies'[id] = movies[id]
    <2>1. CASE Insert(r)
      BY <1>0, <2>1 DEF Insert, TypeOK
    <2> QED
      BY <1>3, <2>1 DEF PutStep, InsertDuplicate, InsertFails, InsertUnacknowledged, Warm,
         WarmFails, WarmUnacknowledged
  <1>4. CASE Environment
    <2>1. ASSUME NEW r \in Requests, InsertLate(r) PROVE movies'[id] = movies[id]
      BY <1>0, <2>1 DEF InsertLate, TypeOK
    <2> QED
      BY <1>4, <2>1 DEF Environment, Cancel, ExpireLock, ExpireCache, CrashRedis, RestartRedis,
         CrashService
  <1> QED
    BY <1>1, <1>2, <1>3, <1>4 DEF Next, Step, AllAnswered, vars

LEMMA HandlersFitStep ==
  ASSUME IInv, [Next]_vars
  PROVE  HandlersFit'
PROOF
  <1> USE DEF HandlersFit, Goto, GetPcs, PutPcs, dbVars
  <1>0. TypeOK /\ HandlersFit
    BY DEF IInv
  <1>1. ASSUME NEW r \in Requests, Start(r) PROVE HandlersFit'
    <2>1. CASE StartGet(r)
      BY <1>0, <2>1 DEF StartGet, TypeOK, Gets
    <2>2. CASE StartPut(r)
      BY <1>0, <2>2 DEF StartPut, TypeOK, Puts
    <2>3. CASE RejectEmpty(r)
      BY <1>0, <2>3 DEF RejectEmpty, TypeOK
    <2> QED
      BY <1>1, <2>1, <2>2, <2>3 DEF Start
  <1>2. ASSUME NEW r \in Requests, GetStep(r) PROVE HandlersFit'
    <2>1. CASE CacheHit(r) \/ Unlock(r) \/ UnlockFails(r)
      BY <1>0, <2>1 DEF CacheHit, Unlock, UnlockFails, Return, TypeOK
    <2> QED
      BY <1>0, <1>2, <2>1 DEF TypeOK, GetStep, CacheMiss, CacheGetFails, Acquire, LockBusy, SetNXFails,
         SetNXUnacknowledged, Wake, LoadFound, LoadMissing, LoadFails, Keep, Fill, FillFails,
         UnlockRetried, reqVars
  <1>3. ASSUME NEW r \in Requests, PutStep(r) PROVE HandlersFit'
    <2>1. CASE Insert(r)
      BY <1>0, <2>1 DEF Insert, TypeOK
    <2>2. CASE InsertUnacknowledged(r)
      BY <1>0, <2>2 DEF InsertUnacknowledged, Return, TypeOK
    <2> QED
      BY <1>0, <1>3, <2>1, <2>2 DEF TypeOK, PutStep, InsertDuplicate, InsertFails, Warm,
         WarmFails, WarmUnacknowledged, Return
  <1>4. CASE Environment
    <2>1. ASSUME NEW r \in Requests, InsertLate(r) PROVE HandlersFit'
      BY <1>0, <2>1 DEF InsertLate, reqVars
    <2>2. CASE CrashService
      BY <1>0, <2>2 DEF CrashService, TypeOK, Active
    <2> QED
      BY <1>0, <1>4, <2>1, <2>2 DEF Environment, Cancel, ExpireLock, ExpireCache, CrashRedis,
         RestartRedis, reqVars
  <1> QED
    BY <1>0, <1>1, <1>2, <1>3, <1>4 DEF Next, Step, AllAnswered, vars, reqVars

LEMMA CacheMatchesDatabaseStep ==
  ASSUME IInv, [Next]_vars
  PROVE  CacheMatchesDatabase'
PROOF
  <1> USE DEF CacheMatchesDatabase, redisVars
  <1>0. TypeOK /\ CacheMatchesDatabase
    BY DEF IInv
  <1>1. ASSUME cache' = cache PROVE CacheMatchesDatabase'
    BY <1>0, <1>1, RowsStay
  <1>2. ASSUME NEW r \in Requests, Fill(r) PROVE CacheMatchesDatabase'
    BY <1>0, <1>2 DEF Fill, CacheSet, dbVars, IInv, LoadsMatchDatabase, IsRow, Data, Result, TypeOK
  <1>3. ASSUME NEW r \in Requests, Warm(r) \/ WarmUnacknowledged(r) PROVE CacheMatchesDatabase'
    BY <1>0, <1>3 DEF Warm, WarmUnacknowledged, CacheSet, dbVars, IInv, WarmedPutIsStored, TypeOK
  <1>4. ASSUME NEW id \in Ids, ExpireCache(id) PROVE CacheMatchesDatabase'
    BY <1>0, <1>4 DEF ExpireCache, CacheSet, dbVars, TypeOK
  <1>5. CASE RestartRedis
    BY <1>0, <1>5 DEF RestartRedis, dbVars
  <1>6. ASSUME NEW r \in Requests, GetStep(r) PROVE CacheMatchesDatabase'
    BY <1>1, <1>2, <1>6 DEF GetStep, CacheHit, CacheMiss, CacheGetFails, Acquire, LockBusy, SetNXFails,
       SetNXUnacknowledged, Wake, LoadFound, LoadMissing, LoadFails, Keep, FillFails,
       Unlock, UnlockFails, UnlockRetried
  <1>7. ASSUME NEW r \in Requests, Start(r) \/ PutStep(r) PROVE CacheMatchesDatabase'
    BY <1>1, <1>3, <1>7 DEF Start, StartGet, StartPut, RejectEmpty, PutStep, Insert, InsertDuplicate,
       InsertFails, InsertUnacknowledged, WarmFails
  <1>8. CASE Environment
    BY <1>1, <1>4, <1>5, <1>8 DEF Environment, Cancel, InsertLate, ExpireLock, CrashRedis, CrashService
  <1> QED
    BY <1>1, <1>6, <1>7, <1>8 DEF Next, Step, AllAnswered, vars

(* A handler's step leaves the other handlers where they are. *)
LEMMA OthersStay ==
  ASSUME TypeOK, NEW r \in Requests, Start(r) \/ Step(r), NEW s \in Requests \ {r}
  PROVE  pc'[s] = pc[s] /\ call'[s] = call[s] /\ result'[s] = result[s] /\ answer'[s] = answer[s]
PROOF
  <1> USE DEF TypeOK, Goto, Return
  <1>1. CASE Start(r)
    BY <1>1 DEF Start, StartGet, StartPut, RejectEmpty
  <1>2. CASE GetStep(r)
    BY <1>2 DEF GetStep, CacheHit, CacheMiss, CacheGetFails, Acquire, LockBusy, SetNXFails,
       SetNXUnacknowledged, Wake, LoadFound, LoadMissing, LoadFails, Keep, Fill, FillFails,
       Unlock, UnlockFails, UnlockRetried, reqVars
  <1>3. CASE PutStep(r)
    BY <1>3 DEF PutStep, Insert, InsertDuplicate, InsertFails, InsertUnacknowledged, Warm,
       WarmFails, WarmUnacknowledged
  <1> QED
    BY <1>1, <1>2, <1>3 DEF Step

(* A step of the environment leaves a handler where it is, or answers it   *)
(* Unavailable.                                                            *)
LEMMA EnvironmentAnswers ==
  ASSUME TypeOK, Environment \/ UNCHANGED vars, NEW s \in Requests
  PROVE  /\ call'[s] = call[s]
         /\ \/ pc'[s] = pc[s] /\ result'[s] = result[s] /\ answer'[s] = answer[s]
            \/ pc'[s] = "done" /\ answer'[s] = Unavailable
            \/ pc'[s] = pc[s] /\ pc[s] \in {"idle", "done"} /\ answer'[s] = answer[s]
PROOF
  <1>1. CASE CrashService
    BY <1>1 DEF CrashService, TypeOK, Active
  <1> QED
    BY <1>1 DEF Environment, Cancel, InsertLate, ExpireLock, ExpireCache, CrashRedis,
       RestartRedis, vars, reqVars

LEMMA LoadsMatchDatabaseStep ==
  ASSUME IInv, [Next]_vars
  PROVE  LoadsMatchDatabase'
PROOF
  <1> DEFINE Fits(s) == /\ pc[s] = "fill" => IsRow(s)
                        /\ pc[s] = "unlock" => IsRow(s) \/ result[s] \in {NotFound, OtherError}
  <1>0. TypeOK /\ \A s \in Requests : Fits(s)
    BY DEF IInv, LoadsMatchDatabase
  <1>1. ASSUME NEW s \in Requests, pc'[s] = pc[s], call'[s] = call[s], result'[s] = result[s]
        PROVE  Fits(s)'
    BY <1>0, <1>1, RowsStay, CallsTyped DEF IsRow, GetPcs
  <1>2. ASSUME NEW r \in Requests, Start(r) PROVE Fits(r)'
    BY <1>0, <1>2 DEF Start, StartGet, StartPut, RejectEmpty, TypeOK, Goto
  <1>3. ASSUME NEW r \in Requests, GetStep(r) PROVE Fits(r)'
    <2> USE DEF Goto, Return, TypeOK
    <2>1. CASE LoadFound(r)
      BY <1>0, <2>1 DEF LoadFound, Keep, IsRow, dbVars
    <2>2. CASE LoadMissing(r) \/ LoadFails(r)
      BY <1>0, <2>2 DEF LoadMissing, LoadFails, Keep
    <2>3. CASE Fill(r) \/ FillFails(r) \/ UnlockRetried(r)
      BY <1>0, <2>3 DEF Fill, FillFails, UnlockRetried, IsRow, dbVars, reqVars
    <2> QED
      BY <1>0, <1>3, <2>1, <2>2, <2>3 DEF GetStep, CacheHit, CacheMiss, CacheGetFails, Acquire,
         LockBusy, SetNXFails, SetNXUnacknowledged, Wake, Unlock, UnlockFails
  <1>4. ASSUME NEW r \in Requests, PutStep(r) PROVE Fits(r)'
    BY <1>0, <1>4 DEF PutStep, Insert, InsertDuplicate, InsertFails, InsertUnacknowledged, Warm,
       WarmFails, WarmUnacknowledged, Goto, Return, TypeOK
  <1>5. ASSUME NEW s \in Requests, Environment \/ UNCHANGED vars PROVE Fits(s)'
    BY <1>0, <1>1, <1>5, EnvironmentAnswers
  <1>6. \A s \in Requests : Fits(s)'
    BY <1>0, <1>1, <1>2, <1>3, <1>4, <1>5, OthersStay DEF Next, Step, AllAnswered
  <1> QED
    BY <1>6 DEF LoadsMatchDatabase

LEMMA PutsAreStoredStep ==
  ASSUME IInv, [Next]_vars
  PROVE  WarmedPutIsStored' /\ AcknowledgedPutIsStored'
PROOF
  <1> DEFINE Stored(s) == movies[call[s].id] = call[s].val
             Warming(s) == pc[s] = "warm"
             Acknowledged(s) == call[s].op = "put" /\ answer[s].code = "OK"
  <1>0. TypeOK /\ HandlersFit /\ \A s \in Requests : Warming(s) \/ Acknowledged(s) => Stored(s)
    BY DEF IInv, WarmedPutIsStored, AcknowledgedPutIsStored
  <1>1. ASSUME NEW s \in Requests, Warming(s) \/ Acknowledged(s), call'[s] = call[s]
        PROVE  Stored(s)'
    <2>1. call[s] \in Puts
      BY <1>0, <1>1 DEF HandlersFit, PutPcs, Gets, Get, NoCall
    <2>2. call[s].id \in Ids /\ call[s].val \in Metadata
      BY <2>1 DEF Puts, Put
    <2> QED
      BY <1>0, <1>1, <2>2, RowsStay, MetadataAssumption
  <1>2. ASSUME NEW r \in Requests, Start(r) PROVE ~ Warming(r)' /\ ~ Acknowledged(r)'
    BY <1>0, <1>2 DEF Start, StartGet, StartPut, RejectEmpty, TypeOK, HandlersFit, Goto, NoAnswer,
       Invalid
  <1>3. ASSUME NEW r \in Requests, GetStep(r) PROVE ~ Warming(r)' /\ ~ Acknowledged(r)'
    <2>1. call'[r] = call[r] /\ call[r].op = "get"
      BY <1>0, <1>3, CallsTyped DEF GetPcs, GetStep, CacheHit, CacheMiss, CacheGetFails, Acquire, LockBusy,
         SetNXFails, SetNXUnacknowledged, Wake, LoadFound, LoadMissing, LoadFails, Keep, Fill,
         FillFails, Unlock, UnlockFails, UnlockRetried, Return, reqVars
    <2>2. pc'[r] # "warm"
      BY <1>0, <1>3 DEF TypeOK, Goto, GetStep, CacheHit, CacheMiss, CacheGetFails, Acquire, LockBusy,
         SetNXFails, SetNXUnacknowledged, Wake, LoadFound, LoadMissing, LoadFails, Keep, Fill,
         FillFails, Unlock, UnlockFails, UnlockRetried, Return, reqVars
    <2> QED
      BY <2>1, <2>2
  <1>4. ASSUME NEW r \in Requests, PutStep(r)
        PROVE  Warming(r)' \/ Acknowledged(r)' => Stored(r)'
    <2> USE DEF TypeOK, Goto
    <2>1. CASE Insert(r)
      BY <1>0, <2>1, CallsTyped DEF Insert, PutPcs
    <2>2. CASE Warm(r)
      BY <1>0, <1>1, <2>2 DEF Warm, Return
    <2> QED
      BY <1>0, <1>4, <2>1, <2>2 DEF PutStep, InsertDuplicate, InsertFails, InsertUnacknowledged,
         WarmFails, WarmUnacknowledged, Return, Answer, OtherError, Result
  <1>5. ASSUME NEW s \in Requests, Environment \/ UNCHANGED vars
        PROVE  Warming(s)' \/ Acknowledged(s)' => Stored(s)'
    BY <1>0, <1>1, <1>5, EnvironmentAnswers DEF Unavailable
  <1>6. \A s \in Requests : Warming(s)' \/ Acknowledged(s)' => Stored(s)'
    BY <1>0, <1>1, <1>2, <1>3, <1>4, <1>5, OthersStay DEF Next, Step, AllAnswered
  <1> QED
    BY <1>6 DEF WarmedPutIsStored, AcknowledgedPutIsStored

LEMMA InitIInv == Init => IInv
PROOF
  <1> SUFFICES ASSUME Init PROVE IInv
    OBVIOUS
  <1>1. TypeOK
    BY RecordsTyped, MaxFaultsAssumption DEF Init, TypeOK, Value
  <1>2. HandlersFit /\ WarmedPutIsStored /\ AcknowledgedPutIsStored /\ LoadsMatchDatabase
    BY DEF Init, HandlersFit, GetPcs, PutPcs, WarmedPutIsStored, AcknowledgedPutIsStored,
       LoadsMatchDatabase, NoCall, NoAnswer
  <1>3. CacheMatchesDatabase
    BY DEF Init, CacheMatchesDatabase
  <1> QED
    BY <1>1, <1>2, <1>3 DEF IInv

LEMMA InductiveInvariant == Spec => []IInv
PROOF
  <1>1. IInv /\ [Next]_vars => IInv'
    BY TypeStep, HandlersFitStep, CacheMatchesDatabaseStep, LoadsMatchDatabaseStep,
       PutsAreStoredStep DEF IInv
  <1> QED
    BY <1>1, InitIInv, PTL DEF Spec

(* Every variable keeps its type, whatever fails. *)
THEOREM TypeCorrect == Spec => []TypeOK
BY InductiveInvariant, PTL DEF IInv

(* The cache of redis.go never holds anything but the row of MySQL. *)
THEOREM CacheCorrect == Spec => []CacheMatchesDatabase
BY InductiveInvariant, PTL DEF IInv

(* A put that was answered OK is stored. *)
THEOREM PutsCorrect == Spec => []AcknowledgedPutIsStored
BY InductiveInvariant, PTL DEF IInv

(***************************************************************************)
(* How many loads run at once                                              *)
(***************************************************************************)

(* The locks of id that exist or were lost. *)
Tickets(id) == lost[id] + (IF id \in locks THEN 1 ELSE 0)

LEMMA LoadersFinite ==
  ASSUME NEW id \in Ids
  PROVE  /\ IsFiniteSet(Loaders(id))
         /\ Cardinality(Loaders(id)) \in Nat
BY RequestsAssumption, FS_Subset, FS_CardinalityType DEF Loaders

(* The loaders of the next state, where they are no more than now. *)
LEMMA FewerLoaders ==
  ASSUME TypeOK, TypeOK', NEW id \in Ids,
         Cardinality(Loaders(id)) <= Tickets(id),
         Loaders(id)' \subseteq Loaders(id), Tickets(id)' >= Tickets(id)
  PROVE  Cardinality(Loaders(id))' <= Tickets(id)'
PROOF
  <1>1. Cardinality(Loaders(id)') <= Cardinality(Loaders(id))
    BY LoadersFinite, FS_Subset
  <1>2. Cardinality(Loaders(id)') \in Nat
    BY LoadersFinite, FS_Subset, FS_CardinalityType
  <1>3. Tickets(id) \in Nat /\ Tickets(id)' \in Nat
    BY DEF Tickets, TypeOK
  <1> QED
    BY <1>1, <1>2, <1>3, LoadersFinite

LEMMA LoadsBoundedStep ==
  ASSUME IInv, IInv', [Next]_vars, LoadsBoundedByLostLocks
  PROVE  LoadsBoundedByLostLocks'
PROOF
  <1> SUFFICES ASSUME NEW id \in Ids PROVE Cardinality(Loaders(id))' <= Tickets(id)'
    BY DEF LoadsBoundedByLostLocks, Tickets
  <1> USE DEF Goto
  <1>0. /\ TypeOK /\ TypeOK'
        /\ Cardinality(Loaders(id)) <= Tickets(id)
    BY DEF IInv, LoadsBoundedByLostLocks, Tickets
  <1>1. ASSUME NEW r \in Requests, Start(r) PROVE Cardinality(Loaders(id))' <= Tickets(id)'
    <2>1. Loaders(id)' \subseteq Loaders(id)
      BY <1>0, <1>1, OthersStay DEF Start, StartGet, StartPut, RejectEmpty, Loaders, TypeOK
    <2>2. Tickets(id)' = Tickets(id)
      BY <1>1 DEF Start, StartGet, StartPut, RejectEmpty, Tickets, redisVars
    <2> QED
      BY <1>0, <2>1, <2>2, FewerLoaders DEF Tickets, TypeOK
  <1>2. ASSUME NEW r \in Requests, GetStep(r) PROVE Cardinality(Loaders(id))' <= Tickets(id)'
    <2>0. call'[r] = call[r]
      BY <1>2 DEF GetStep, CacheHit, CacheMiss, CacheGetFails, Acquire, LockBusy, SetNXFails,
         SetNXUnacknowledged, Wake, LoadFound, LoadMissing, LoadFails, Keep, Fill, FillFails,
         Unlock, UnlockFails, UnlockRetried, Return, reqVars
    <2>1. CASE Acquire(r)
      <3>1. CASE call[r].id = id
        <4>1. Loaders(id)' = Loaders(id) \cup {r} /\ r \notin Loaders(id)
          BY <1>0, <1>2, <2>0, <2>1, <3>1, OthersStay DEF Step, Acquire, Loaders, TypeOK
        <4>2. Cardinality(Loaders(id)') = Cardinality(Loaders(id)) + 1
          BY <4>1, LoadersFinite, FS_AddElement
        <4>3. Tickets(id)' = Tickets(id) + 1
          BY <1>0, <2>1, <3>1 DEF Acquire, Tickets, TypeOK
        <4> QED
          BY <1>0, <4>2, <4>3, LoadersFinite DEF Tickets, TypeOK
      <3>2. CASE call[r].id # id
        <4>1. Loaders(id)' = Loaders(id)
          BY <1>0, <1>2, <2>0, <2>1, <3>2, OthersStay DEF Step, Acquire, Loaders, TypeOK
        <4>2. Tickets(id)' = Tickets(id)
          BY <1>0, <2>1, <3>2 DEF Acquire, Tickets, TypeOK
        <4> QED
          BY <1>0, <4>1, <4>2
      <3> QED
        BY <3>1, <3>2
    <2>2. CASE Unlock(r)
      <3>1. CASE call[r].id = id
        <4>1. Loaders(id)' = Loaders(id) \ {r} /\ r \in Loaders(id)
          BY <1>0, <1>2, <2>0, <2>2, <3>1, OthersStay DEF Step, Unlock, Return, Loaders, TypeOK
        <4>2. Cardinality(Loaders(id)') = Cardinality(Loaders(id)) - 1
          BY <4>1, LoadersFinite, FS_RemoveElement
        <4>3. Tickets(id)' >= Tickets(id) - 1
          BY <1>0, <2>2, <3>1 DEF Unlock, Tickets, TypeOK
        <4> QED
          BY <1>0, <4>2, <4>3, LoadersFinite DEF Tickets, TypeOK
      <3>2. CASE call[r].id # id
        <4>1. Loaders(id)' \subseteq Loaders(id)
          BY <1>0, <1>2, <2>0, <2>2, <3>2, OthersStay DEF Step, Unlock, Loaders, TypeOK
        <4>2. Tickets(id)' = Tickets(id)
          BY <1>0, <2>2, <3>2 DEF Unlock, Tickets, TypeOK
        <4> QED
          BY <1>0, <4>1, <4>2, FewerLoaders DEF Tickets, TypeOK
      <3> QED
        BY <3>1, <3>2
    <2>3. CASE UnlockRetried(r)
      <3>1. Loaders(id)' = Loaders(id)
        BY <2>3 DEF UnlockRetried, reqVars, Loaders
      <3>2. Tickets(id)' = Tickets(id)
        BY <1>0, <2>3 DEF UnlockRetried, LoseLocks, Tickets, TypeOK
      <3> QED
        BY <1>0, <3>1, <3>2
    <2>4. CASE ~ (Acquire(r) \/ Unlock(r) \/ UnlockRetried(r))
      <3>1. Loaders(id)' \subseteq Loaders(id)
        BY <1>0, <1>2, <2>0, <2>4, OthersStay DEF Step, GetStep, CacheHit, CacheMiss, CacheGetFails,
           LockBusy, SetNXFails, SetNXUnacknowledged, Wake, LoadFound, LoadMissing, LoadFails, Keep,
           Fill, FillFails, UnlockFails, Return, Loaders, TypeOK
      <3>2. lost' = lost /\ locks \subseteq locks'
        BY <1>2, <2>4 DEF GetStep, CacheHit, CacheMiss, CacheGetFails, LockBusy, SetNXFails,
           SetNXUnacknowledged, Wake, LoadFound, LoadMissing, LoadFails, Keep, Fill, FillFails,
           UnlockFails, CacheSet, redisVars
      <3>3. Tickets(id)' >= Tickets(id)
        BY <1>0, <3>2 DEF Tickets, TypeOK
      <3> QED
        BY <1>0, <3>1, <3>3, FewerLoaders
    <2> QED
      BY <2>1, <2>2, <2>3, <2>4
  <1>3. ASSUME NEW r \in Requests, PutStep(r) PROVE Cardinality(Loaders(id))' <= Tickets(id)'
    <2>1. Loaders(id)' \subseteq Loaders(id)
      BY <1>0, <1>3, OthersStay DEF Step, PutStep, Insert, InsertDuplicate, InsertFails,
         InsertUnacknowledged, Warm, WarmFails, WarmUnacknowledged, Return, Loaders, TypeOK
    <2>2. Tickets(id)' = Tickets(id)
      BY <1>3 DEF PutStep, Insert, InsertDuplicate, InsertFails, InsertUnacknowledged, Warm,
         WarmFails, WarmUnacknowledged, CacheSet, Tickets, redisVars
    <2> QED
      BY <1>0, <2>1, <2>2, FewerLoaders DEF Tickets, TypeOK
  <1>4. CASE Environment \/ UNCHANGED vars
    <2>1. Loaders(id)' \subseteq Loaders(id)
      BY <1>0, <1>4, EnvironmentAnswers DEF Loaders, TypeOK
    <2>2. Tickets(id)' = Tickets(id)
      BY <1>0, <1>4 DEF Environment, Cancel, InsertLate, ExpireLock, ExpireCache, CacheSet, CrashRedis,
         RestartRedis, LoseLocks, CrashService, vars, redisVars, Tickets, TypeOK
    <2> QED
      BY <1>0, <2>1, <2>2, FewerLoaders DEF Tickets, TypeOK
  <1> QED
    BY <1>1, <1>2, <1>3, <1>4 DEF Next, Step, AllAnswered

(* At most one load of an id runs for each lock of it that exists or was   *)
(* lost: the lock of redis.go bounds the queries that a miss sends to      *)
(* MySQL, although DEL does not check who holds it.                        *)
THEOREM LoadsBounded == Spec => []LoadsBoundedByLostLocks
PROOF
  <1>1. Init => LoadsBoundedByLostLocks
    <2> SUFFICES ASSUME Init, NEW id \in Ids PROVE Cardinality(Loaders(id)) <= Tickets(id)
      BY DEF LoadsBoundedByLostLocks, Tickets
    <2>1. Loaders(id) = {}
      BY DEF Init, Loaders
    <2>2. Tickets(id) = 0
      BY DEF Init, Tickets
    <2> QED
      BY <2>1, <2>2, FS_EmptySet
  <1> QED
    BY <1>1, InductiveInvariant, LoadsBoundedStep, PTL DEF Spec

(***************************************************************************)
(* The order of calls and answers                                          *)
(***************************************************************************)

(* A get told OK was told the row. *)
AnsweredGet(s)  == call[s].op = "get" /\ answer[s].code = "OK"
RowAnswered(s)  == /\ movies[call[s].id] # NoMetadata
                   /\ answer[s].val = movies[call[s].id]
AnswersAreRows  == \A s \in Requests : AnsweredGet(s) => RowAnswered(s)

LEMMA AnswerCodes ==
  /\ \A m : Answer(Data(m)) = [code |-> "OK", val |-> m]
  /\ Answer(NotFound) = [code |-> "NotFound", val |-> NoMetadata]
  /\ Answer(OtherError) = [code |-> "Internal", val |-> NoMetadata]
BY DEF Answer, Data, NotFound, OtherError, Result

(* A get returns the row, or an error: what the last step of it answers. *)
LEMMA GetAnswers ==
  ASSUME IInv, NEW r \in Requests, GetStep(r)
  PROVE  /\ call'[r] = call[r] /\ call[r] \in Gets /\ answer[r] = NoAnswer
         /\ \/ answer'[r] = NoAnswer
            \/ /\ movies[call[r].id] # NoMetadata
               /\ answer'[r] = Answer(Data(movies[call[r].id]))
            \/ /\ pc[r] = "unlock" /\ result[r] = NotFound
               /\ answer'[r] = Answer(NotFound)
            \/ answer'[r] = Answer(OtherError)
PROOF
  <1> USE DEF Goto, Return, GetPcs
  <1>0. TypeOK /\ HandlersFit /\ LoadsMatchDatabase /\ CacheMatchesDatabase
    BY DEF IInv
  <1>1. pc[r] \in GetPcs
    BY DEF GetStep, CacheHit, CacheMiss, CacheGetFails, Acquire, LockBusy, SetNXFails,
       SetNXUnacknowledged, Wake, LoadFound, LoadMissing, LoadFails, Fill, FillFails,
       Unlock, UnlockFails, UnlockRetried
  <1>2. call[r] \in Gets /\ answer[r] = NoAnswer
    BY <1>0, <1>1 DEF HandlersFit
  <1>3. CASE CacheHit(r)
    <2>1. cache[call[r].id] = movies[call[r].id] /\ movies[call[r].id] # NoMetadata
      BY <1>0, <1>2, <1>3 DEF CacheHit, CacheMatchesDatabase, Gets, Get
    <2> QED
      BY <1>0, <1>2, <1>3, <2>1 DEF CacheHit, TypeOK
  <1>4. CASE Unlock(r) \/ UnlockFails(r)
    BY <1>0, <1>2, <1>4 DEF Unlock, UnlockFails, LoadsMatchDatabase, IsRow, TypeOK
  <1>5. CASE ~ (CacheHit(r) \/ Unlock(r) \/ UnlockFails(r))
    BY <1>2, <1>5 DEF GetStep, CacheMiss, CacheGetFails, Acquire, LockBusy, SetNXFails,
       SetNXUnacknowledged, Wake, LoadFound, LoadMissing, LoadFails, Keep, Fill, FillFails,
       UnlockRetried, reqVars
  <1> QED
    BY <1>2, <1>3, <1>4, <1>5

(* A handler at work on a put stays one. *)
LEMMA PutKeepsCall ==
  ASSUME IInv, NEW r \in Requests, PutStep(r)
  PROVE  call'[r] = call[r] /\ call[r] \in Puts
BY DEF IInv, HandlersFit, PutStep, PutPcs, Insert, InsertDuplicate, InsertFails,
   InsertUnacknowledged, Warm, WarmFails, WarmUnacknowledged, Return

(* A call that starts is not answered, unless it is refused. *)
LEMMA StartAnswers ==
  ASSUME IInv, NEW r \in Requests, Start(r)
  PROVE  answer'[r] \in {NoAnswer, Invalid} /\ pc'[r] # "unlock"
BY DEF IInv, TypeOK, HandlersFit, Start, StartGet, StartPut, RejectEmpty, Goto

LEMMA AnswersAreRowsStep ==
  ASSUME IInv, [Next]_vars, AnswersAreRows
  PROVE  AnswersAreRows'
PROOF
  <1>0. TypeOK
    BY DEF IInv
  <1>1. ASSUME NEW s \in Requests, call'[s] = call[s], answer'[s] = answer[s], AnsweredGet(s)
        PROVE  RowAnswered(s)'
    <2>1. call[s].id \in Ids
      BY <1>1 DEF AnsweredGet, IInv, HandlersFit, NoCall, Gets, Puts, Get, Put
    <2> QED
      BY <1>1, <2>1, RowsStay DEF AnswersAreRows, RowAnswered
  <1>2. ASSUME NEW r \in Requests, Start(r) \/ PutStep(r) PROVE ~ AnsweredGet(r)'
    BY <1>2, StartAnswers, PutKeepsCall DEF AnsweredGet, NoAnswer, Invalid, Puts, Put
  <1>3. ASSUME NEW r \in Requests, GetStep(r), AnsweredGet(r)' PROVE RowAnswered(r)'
    <2>1. call'[r] = call[r] /\ call[r].id \in Ids
      BY <1>3, GetAnswers DEF Gets, Get
    <2>2. movies[call[r].id] # NoMetadata /\ answer'[r].val = movies[call[r].id]
      BY <1>3, GetAnswers, AnswerCodes DEF AnsweredGet, NoAnswer
    <2> QED
      BY <2>1, <2>2, RowsStay DEF RowAnswered
  <1>4. ASSUME NEW s \in Requests, Environment \/ UNCHANGED vars, AnsweredGet(s)'
        PROVE  RowAnswered(s)'
    BY <1>0, <1>1, <1>4, EnvironmentAnswers DEF AnsweredGet, Unavailable
  <1>5. ASSUME NEW s \in Requests, AnsweredGet(s)' PROVE RowAnswered(s)'
    BY <1>0, <1>1, <1>2, <1>3, <1>4, <1>5, OthersStay DEF Next, Step, AllAnswered, AnsweredGet
  <1> QED
    BY <1>5 DEF AnswersAreRows

(* From the moment v is public: it is the row, and a get of id that had    *)
(* not started is on its way to it.                                        *)
GoodGet(r, id, v) ==
  call[r] = Get(id) =>
    /\ pc[r] = "unlock" => result[r] # NotFound
    /\ answer[r].code # "NotFound"
    /\ answer[r].code = "OK" => answer[r].val = v
OnItsWay(r, id, v) == movies[id] = v /\ GoodGet(r, id, v)

LEMMA PublicIsOnItsWay ==
  ASSUME IInv, AnswersAreRows, NEW r \in Requests, NEW id \in Ids, NEW v \in Metadata,
         pc[r] = "idle", Told(id, v)
  PROVE  OnItsWay(r, id, v)
PROOF
  <1>1. movies[id] = v
    <2>1. PICK q \in Requests : /\ call[q].id = id /\ answer[q].code = "OK"
                                /\ v = IF call[q].op = "put" THEN call[q].val ELSE answer[q].val
      BY DEF Told
    <2>2. call[q] \in Gets \cup Puts
      BY <2>1, IdsAssumption DEF IInv, HandlersFit, NoCall
    <2>3. CASE call[q] \in Gets
      BY <2>1, <2>3, MetadataAssumption DEF Gets, Get, AnswersAreRows, AnsweredGet, RowAnswered
    <2>4. CASE call[q] \in Puts
      BY <2>1, <2>4, MetadataAssumption DEF Puts, Put, IInv, AcknowledgedPutIsStored
    <2> QED
      BY <2>2, <2>3, <2>4
  <1>2. call[r] # Get(id)
    BY DEF IInv, HandlersFit, NoCall, Get
  <1> QED
    BY <1>1, <1>2 DEF OnItsWay, GoodGet

LEMMA OnItsWayStep ==
  ASSUME IInv, [Next]_vars, NEW r \in Requests, NEW id \in Ids, NEW v \in Metadata,
         OnItsWay(r, id, v)
  PROVE  OnItsWay(r, id, v)'
PROOF
  <1>0. TypeOK /\ movies[id] = v /\ movies'[id] = v
    BY RowsStay, MetadataAssumption DEF IInv, OnItsWay
  <1>1. ASSUME call'[r] = call[r], answer'[r] = answer[r],
               pc'[r] = "unlock" => pc[r] = "unlock" /\ result'[r] = result[r]
        PROVE  GoodGet(r, id, v)'
    BY <1>1 DEF OnItsWay, GoodGet
  <1>2. ASSUME Start(r) PROVE GoodGet(r, id, v)'
    BY <1>2, StartAnswers DEF GoodGet, NoAnswer, Invalid
  <1>3. ASSUME PutStep(r) PROVE GoodGet(r, id, v)'
    BY <1>3, PutKeepsCall DEF GoodGet, Puts, Put, Get
  <1>4. ASSUME GetStep(r), call[r] = Get(id) PROVE GoodGet(r, id, v)'
    <2>0. pc[r] = "unlock" => result[r] # NotFound
      BY <1>4 DEF OnItsWay, GoodGet
    <2>1. answer'[r].code # "NotFound" /\ (answer'[r].code = "OK" => answer'[r].val = v)
      BY <1>0, <1>4, GetAnswers, AnswerCodes, <2>0 DEF Get, NoAnswer
    <2>2. pc'[r] = "unlock" => result'[r] # NotFound
      <3>1. CASE LoadFails(r)
        BY <1>0, <3>1 DEF LoadFails, Keep, TypeOK, OtherError, NotFound, Result
      <3>2. CASE Fill(r) \/ FillFails(r) \/ UnlockRetried(r)
        <4>1. result'[r] = result[r]
          BY <3>2 DEF Fill, FillFails, UnlockRetried, reqVars
        <4>2. pc[r] = "fill" => result[r] # NotFound
          <5>1. pc[r] = "fill" => result[r] = Data(movies[call[r].id])
            BY DEF IInv, LoadsMatchDatabase, IsRow
          <5>2. \A m : Data(m) # NotFound
            BY DEF Data, NotFound, Result
          <5> QED
            BY <5>1, <5>2
        <4> QED
          BY <2>0, <3>2, <4>1, <4>2 DEF Fill, FillFails, UnlockRetried
      <3>3. ~ LoadMissing(r)
        BY <1>0, <1>4, MetadataAssumption DEF LoadMissing, Get
      <3> QED
        BY <1>0, <1>4, <3>1, <3>2, <3>3 DEF TypeOK, Goto, GetStep, CacheHit, CacheMiss, CacheGetFails,
           Acquire, LockBusy, SetNXFails, SetNXUnacknowledged, Wake, LoadFound, Keep, Unlock,
           UnlockFails, Return
    <2> QED
      BY <2>1, <2>2 DEF GoodGet
  <1>5. ASSUME GetStep(r), call[r] # Get(id) PROVE GoodGet(r, id, v)'
    BY <1>5, GetAnswers DEF GoodGet
  <1>6. ASSUME NEW s \in Requests \ {r}, Start(s) \/ Step(s) PROVE GoodGet(r, id, v)'
    BY <1>0, <1>1, <1>6, OthersStay
  <1>7. ASSUME Environment \/ UNCHANGED vars PROVE GoodGet(r, id, v)'
    BY <1>0, <1>1, <1>7, EnvironmentAnswers DEF Unavailable, GoodGet
  <1>8. GoodGet(r, id, v)'
    BY <1>2, <1>3, <1>4, <1>5, <1>6, <1>7 DEF Next, Step, AllAnswered
  <1> QED
    BY <1>0, <1>8 DEF OnItsWay

(* Clients agree and never see time go backwards: once one of them was     *)
(* told of an id's metadata, a get of the id that starts later, on another *)
(* connection or after a restart, is told the same or of a failure.        *)
THEOREM LaterGetsCorrect == Spec => LaterGetsAgree
PROOF
  <1> DEFINE Good(r, id, v) == /\ answer[r].code # "NotFound"
                               /\ answer[r].code = "OK" => answer[r].val = v
  <1>1. Spec => []AnswersAreRows
    <2>1. Init => AnswersAreRows
      BY DEF Init, AnswersAreRows, AnsweredGet, NoAnswer
    <2> QED
      BY <2>1, InductiveInvariant, AnswersAreRowsStep, PTL DEF Spec
  <1>2. ASSUME NEW r \in Requests, NEW id \in Ids, NEW v \in Metadata
        PROVE  Spec => [](pc[r] = "idle" /\ Told(id, v) => [](call[r] = Get(id) => Good(r, id, v)))
    <2>1. IInv /\ AnswersAreRows /\ pc[r] = "idle" /\ Told(id, v) => OnItsWay(r, id, v)
      BY PublicIsOnItsWay
    <2>2. IInv /\ [Next]_vars /\ OnItsWay(r, id, v) => OnItsWay(r, id, v)'
      BY OnItsWayStep
    <2>3. OnItsWay(r, id, v) => (call[r] = Get(id) => Good(r, id, v))
      BY DEF OnItsWay, GoodGet
    <2> QED
      BY <1>1, <2>1, <2>2, <2>3, InductiveInvariant, PTL DEF Spec
  <1> QED
    BY <1>2 DEF LaterGetsAgree

(***************************************************************************)
(* The service implements MetadataStore                                    *)
(***************************************************************************)
Phases == [r \in Requests |-> Phase(r)]

(* A handler's step moves its own phase only. *)
LEMMA PhaseMoves ==
  ASSUME TypeOK, NEW r \in Requests, Start(r) \/ Step(r)
  PROVE  Phases' = [Phases EXCEPT ![r] = Phase(r)']
BY OthersStay DEF Phases, Phase

LEMMA StartImplements ==
  ASSUME IInv, NEW r \in Requests, Start(r)
  PROVE  Store!Next
PROOF
  <1> USE DEF Goto, dbVars, redisVars, envVars
  <1>0. TypeOK
    BY DEF IInv
  <1>1. Phases' = [Phases EXCEPT ![r] = Phase(r)'] /\ Phases[r] = "idle" /\ movies' = movies
    BY <1>0, PhaseMoves DEF Phases, Phase, Start, StartGet, StartPut, RejectEmpty
  <1>2. CASE StartGet(r)
    <2>1. Phase(r)' = "called"
      BY <1>0, <1>2 DEF StartGet, Phase, TypeOK
    <2>2. Store!CallGet(r)
      BY <1>1, <1>2, <2>1 DEF StartGet, Store!CallGet, Store!Goto, Store!Get, Get, Phases
    <2> QED
      BY <2>2 DEF Store!Next
  <1>3. CASE StartPut(r)
    <2>1. Phase(r)' = "called"
      BY <1>0, <1>3 DEF StartPut, Phase, TypeOK
    <2>2. Store!CallPut(r)
      BY <1>1, <1>3, <2>1 DEF StartPut, Store!CallPut, Store!Goto, Store!Put, Put, Phases
    <2> QED
      BY <2>2 DEF Store!Next
  <1>4. CASE RejectEmpty(r)
    <2>1. Phase(r)' = "done"
      BY <1>0, <1>4 DEF RejectEmpty, Phase, TypeOK
    <2>2. Store!Refuse(r)
      BY <1>1, <1>4, <2>1 DEF RejectEmpty, Store!Refuse, Store!Goto, Store!Tell, Store!Refused, Invalid,
         Phases
    <2> QED
      BY <2>2 DEF Store!Next
  <1> QED
    BY <1>2, <1>3, <1>4 DEF Start

(* A handler that is open returns an error: it fails alone. *)
LEMMA ErrorImplements ==
  ASSUME IInv, NEW r \in Requests, Step(r), Active(r), Return(r, OtherError), movies' = movies
  PROVE  Store!Next
PROOF
  <1>0. TypeOK
    BY DEF IInv
  <1>1. Phases' = [s \in Requests |-> IF s \in {r} THEN "done" ELSE Phases[s]]
    <2>1. Phase(r)' = "done"
      BY <1>0 DEF Return, Goto, Phase, TypeOK
    <2> QED
      BY <1>0, <2>1, PhaseMoves DEF Phases
  <1>2. Phases[r] \notin {"idle", "done"}
    BY DEF Phases, Phase, Active, GetPcs, PutPcs
  <1>3. answer' = [s \in Requests |-> IF s \in {r} THEN Answer(OtherError) ELSE answer[s]]
    BY <1>0 DEF Return, TypeOK
  <1>4. Answer(OtherError) \in Store!Failures
    BY DEF Answer, OtherError, Result, Store!Failures
  <1>5. call' = call
    BY DEF Return
  <1>6. Store!Fail({r})
    BY <1>1, <1>2, <1>3, <1>4, <1>5 DEF Store!Fail, Phases
  <1> QED
    BY <1>6 DEF Store!Next

LEMMA GetStepImplements ==
  ASSUME IInv, NEW r \in Requests, GetStep(r)
  PROVE  Store!Next \/ UNCHANGED Store!vars
PROOF
  <1>0. TypeOK /\ Step(r) /\ movies' = movies
    BY DEF IInv, Step, GetStep, CacheHit, CacheMiss, CacheGetFails, Acquire, LockBusy, SetNXFails,
       SetNXUnacknowledged, Wake, LoadFound, LoadMissing, LoadFails, Keep, Fill, FillFails,
       Unlock, UnlockFails, UnlockRetried, dbVars
  <1>1. Phases' = [Phases EXCEPT ![r] = Phase(r)']
    BY <1>0, PhaseMoves
  <1>2. ASSUME Phase(r) = "called", Return(r, Data(movies[call[r].id])), call[r].op = "get",
               movies[call[r].id] # NoMetadata
        PROVE  Store!Next
    <2>1. Phase(r)' = "done"
      BY <1>0, <1>2 DEF Return, Goto, Phase, TypeOK
    <2>2. Store!AnswerFound(r)
      BY <1>0, <1>1, <1>2, <2>1 DEF Return, Store!AnswerFound, Store!Goto, Store!Tell, Store!Found, Answer,
         Data, Result, Phases
    <2> QED
      BY <2>2 DEF Store!Next
  <1>3. CASE CacheHit(r)
    <2>1. Phase(r) = "called" /\ call[r].op = "get" /\ call[r].id \in Ids
      BY <1>3, CallsTyped DEF CacheHit, Phase, GetPcs
    <2>2. cache[call[r].id] = movies[call[r].id] /\ movies[call[r].id] # NoMetadata
      BY <1>3, <2>1 DEF CacheHit, IInv, CacheMatchesDatabase
    <2> QED
      BY <1>2, <1>3, <2>1, <2>2 DEF CacheHit
  <1>4. CASE LoadMissing(r)
    <2>1. Phase(r) = "called" /\ call[r].op = "get"
      BY <1>4, CallsTyped DEF LoadMissing, Phase, GetPcs
    <2>2. Phase(r)' = "missing"
      BY <1>0, <1>4 DEF LoadMissing, Keep, Goto, Phase, NotFound, Result, TypeOK
    <2>3. Store!SeeMissing(r)
      BY <1>0, <1>1, <1>4, <2>1, <2>2 DEF LoadMissing, Keep, Store!SeeMissing, Store!Goto, Phases
    <2> QED
      BY <2>3 DEF Store!Next
  <1>5. CASE Unlock(r) \/ UnlockFails(r)
    <2>0. pc[r] = "unlock" /\ Return(r, result[r]) /\ call[r].op = "get"
      BY <1>5, CallsTyped DEF Unlock, UnlockFails, GetPcs
    <2>1. CASE IsRow(r)
      <3>1. Phase(r) = "called"
        BY <2>0, <2>1 DEF Phase, IsRow, Data, Result
      <3> QED
        BY <1>2, <2>0, <2>1, <3>1 DEF IsRow
    <2>2. CASE result[r] = NotFound
      <3>1. Phase(r) = "missing"
        BY <2>0, <2>2 DEF Phase, NotFound, Result
      <3>2. Phase(r)' = "done"
        BY <1>0, <2>0 DEF Return, Goto, Phase, TypeOK
      <3>3. Store!AnswerMissing(r)
        BY <1>0, <1>1, <2>0, <2>2, <3>1, <3>2 DEF Return, Store!AnswerMissing, Store!Goto, Store!Tell,
           Store!Missing, Answer, NotFound, Result, Phases
      <3> QED
        BY <3>3 DEF Store!Next
    <2>3. CASE result[r] = OtherError
      BY <1>0, <2>0, <2>3, ErrorImplements DEF Active, GetPcs
    <2> QED
      BY <2>0, <2>1, <2>2, <2>3 DEF IInv, LoadsMatchDatabase
  <1>6. ASSUME Phase(r)' = Phase(r), call' = call, answer' = answer
        PROVE  UNCHANGED Store!vars
    BY <1>0, <1>1, <1>6 DEF Store!vars, Phases
  <1>7. CASE ~ (CacheHit(r) \/ LoadMissing(r) \/ Unlock(r) \/ UnlockFails(r))
    <2>1. call' = call /\ answer' = answer
      BY <1>7 DEF GetStep, CacheMiss, CacheGetFails, Acquire, LockBusy, SetNXFails,
         SetNXUnacknowledged, Wake, LoadFound, LoadFails, Keep, Fill, FillFails, UnlockRetried, reqVars
    <2>2. CASE Fill(r) \/ FillFails(r)
      <3>1. result[r].err = "nil" /\ pc[r] = "fill" /\ pc'[r] = "unlock" /\ result' = result
        BY <1>0, <2>2 DEF Fill, FillFails, IInv, LoadsMatchDatabase, IsRow, Data, Result, Goto, TypeOK
      <3>2. Phase(r)' = Phase(r)
        BY <3>1 DEF Phase
      <3> QED
        BY <1>6, <2>1, <3>2
    <2>3. CASE LoadFound(r) \/ LoadFails(r)
      <3>1. Phase(r)' = Phase(r)
        BY <1>0, <2>3 DEF LoadFound, LoadFails, Keep, Goto, Phase, OtherError, Result, TypeOK
      <3> QED
        BY <1>6, <2>1, <3>1
    <2>4. CASE UnlockRetried(r)
      <3>1. Phase(r)' = Phase(r)
        BY <2>4 DEF UnlockRetried, reqVars, Phase
      <3> QED
        BY <1>6, <2>1, <3>1
    <2>5. CASE ~ (Fill(r) \/ FillFails(r) \/ LoadFound(r) \/ LoadFails(r) \/ UnlockRetried(r))
      <3>1. Phase(r)' = Phase(r)
        BY <1>0, <1>7, <2>5 DEF GetStep, CacheMiss, CacheGetFails, Acquire, LockBusy, SetNXFails,
           SetNXUnacknowledged, Wake, Goto, Phase, TypeOK
      <3> QED
        BY <1>6, <2>1, <3>1
    <2> QED
      BY <2>2, <2>3, <2>4, <2>5
  <1> QED
    BY <1>3, <1>4, <1>5, <1>7

LEMMA PutStepImplements ==
  ASSUME IInv, NEW r \in Requests, PutStep(r)
  PROVE  Store!Next
PROOF
  <1>0. TypeOK /\ Step(r) /\ Active(r) /\ call[r].op = "put"
    BY CallsTyped DEF IInv, Step, Active, PutPcs, PutStep, Insert, InsertDuplicate, InsertFails,
       InsertUnacknowledged, Warm, WarmFails, WarmUnacknowledged
  <1>1. Phases' = [Phases EXCEPT ![r] = Phase(r)']
    BY <1>0, PhaseMoves
  <1>2. CASE Insert(r)
    <2>1. Phase(r) = "called" /\ Phase(r)' = "stored"
      BY <1>0, <1>2 DEF Insert, Phase, Goto, TypeOK
    <2>2. Store!Insert(r)
      BY <1>0, <1>1, <1>2, <2>1 DEF Insert, Store!Insert, Store!Take, Store!Goto, Phases
    <2> QED
      BY <2>2 DEF Store!Next
  <1>3. CASE Warm(r)
    <2>1. Phase(r) = "stored" /\ Phase(r)' = "done"
      BY <1>0, <1>3 DEF Warm, Return, Phase, Goto, TypeOK
    <2>2. Store!AnswerStored(r)
      BY <1>0, <1>1, <1>3, <2>1 DEF Warm, Return, Store!AnswerStored, Store!Goto, Store!Tell, Store!Stored,
         Answer, Data, Result, Phases, dbVars
    <2> QED
      BY <2>2 DEF Store!Next
  <1>4. CASE ~ (Insert(r) \/ Warm(r))
    <2>1. Return(r, OtherError) /\ movies' = movies
      BY <1>4 DEF PutStep, InsertDuplicate, InsertFails, InsertUnacknowledged, WarmFails,
         WarmUnacknowledged, dbVars
    <2> QED
      BY <1>0, <2>1, ErrorImplements
  <1> QED
    BY <1>2, <1>3, <1>4

LEMMA EnvironmentImplements ==
  ASSUME IInv, Environment \/ UNCHANGED vars
  PROVE  Store!Next \/ UNCHANGED Store!vars
PROOF
  <1>0. TypeOK
    BY DEF IInv
  <1>1. ASSUME movies' = movies, UNCHANGED reqVars PROVE UNCHANGED Store!vars
    BY <1>1 DEF reqVars, Store!vars, Phase
  <1>2. ASSUME NEW r \in Requests, InsertLate(r) PROVE Store!Next \/ UNCHANGED Store!vars
    <2>1. CASE movies[call[r].id] # NoMetadata
      BY <1>1, <1>2, <2>1 DEF InsertLate
    <2>2. CASE movies[call[r].id] = NoMetadata
      <3>1. pc[r] = "done" /\ call[r].op = "put" /\ answer[r] \in Store!Failures
        BY <1>2, CallsTyped DEF InsertLate, IInv, HandlersFit, Answer, OtherError, Result, Unavailable,
           Store!Failures
      <3>2. Phases[r] = "done" /\ UNCHANGED Phases
        BY <1>2, <3>1 DEF InsertLate, reqVars, Phases, Phase
      <3>3. Store!InsertLate(r)
        BY <1>2, <2>2, <3>1, <3>2 DEF InsertLate, reqVars, Store!InsertLate, Store!Take, Phases
      <3> QED
        BY <3>3 DEF Store!Next
    <2> QED
      BY <2>1, <2>2
  <1>3. CASE CrashService
    <2> DEFINE R == {r \in Requests : Active(r)}
    <2>1. Phases' = [r \in Requests |-> IF r \in R THEN "done" ELSE Phases[r]]
      BY <1>0, <1>3 DEF CrashService, Phases, Phase, Active, TypeOK, GetPcs, PutPcs
    <2>2. \A r \in R : Phases[r] \notin {"idle", "done"}
      BY DEF Phases, Phase, Active, GetPcs, PutPcs
    <2>3. answer' = [r \in Requests |-> IF r \in R THEN Unavailable ELSE answer[r]]
      BY <1>3 DEF CrashService
    <2>4. Unavailable \in Store!Failures
      BY DEF Unavailable, Store!Failures
    <2>5. Store!Fail(R)
      BY <1>3, <2>1, <2>2, <2>3, <2>4 DEF CrashService, Store!Fail, Phases
    <2> QED
      BY <2>5 DEF Store!Next
  <1>4. CASE UNCHANGED vars
    BY <1>1, <1>4 DEF vars, dbVars
  <1> QED
    BY <1>1, <1>2, <1>3, <1>4 DEF Environment, Cancel, ExpireLock, ExpireCache, CacheSet, CrashRedis,
       RestartRedis, dbVars

(* The metadata service of redis.go, mysql.go and the gRPC handler is a    *)
(* write-once map: each operation takes effect at one instant between its  *)
(* call and its answer.                                                    *)
THEOREM Implementation == Spec => ImplementsStore
PROOF
  <1>1. Init => Store!Init
    BY DEF Init, Store!Init, Phase, Store!NoCall, NoCall, Store!NoAnswer, NoAnswer
  <1>2. IInv /\ [Next]_vars => [Store!Next]_(Store!vars)
    BY StartImplements, GetStepImplements, PutStepImplements, EnvironmentImplements
       DEF Next, Step, AllAnswered
  <1> QED
    BY <1>1, <1>2, InductiveInvariant, PTL DEF Spec, ImplementsStore, Store!Spec

=============================================================================
