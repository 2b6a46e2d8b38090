--------------------------- MODULE MetadataCache ---------------------------
(***************************************************************************)
(* The metadata service (src/metadata): gRPC handler, controller, the      *)
(* Redis read-through cache of internal/repository/redis/redis.go and the  *)
(* MySQL table `movies` it falls back to.                                  *)
(*                                                                         *)
(* Every member of Requests is one gRPC call, served by a goroutine of its *)
(* own.  A goroutine is interleaved with the others at each call it makes  *)
(* to Redis or to MySQL.  Metadata is an opaque value: the JSON written to *)
(* Redis is read back unchanged.                                           *)
(*                                                                         *)
(* The environment may crash and restart the service and Redis, cancel the *)
(* context of a call (the client has gone), fail a single command or       *)
(* statement, lose the reply to one that was applied, and let a lock or a  *)
(* cache entry reach its TTL.  MySQL keeps what it has committed.          *)
(***************************************************************************)
EXTENDS Naturals, FiniteSets

CONSTANTS Requests,     \* the calls clients make
          Ids,          \* movie ids
          NoId,         \* the empty id
          Metadata,     \* what is stored of a movie
          NoMetadata,   \* no row, no cache entry
          MaxFaults     \* bound: faults the environment may inject

ASSUME RequestsAssumption == IsFiniteSet(Requests)
ASSUME IdsAssumption == NoId \notin Ids
ASSUME MetadataAssumption == NoMetadata \notin Metadata
ASSUME MaxFaultsAssumption == MaxFaults \in Nat

VARIABLES
  movies,     \* MySQL: the row of each id
  cache,      \* Redis: the value of metadata:<id>
  locks,      \* Redis: the ids whose lock:metadata:<id> exists
  redisUp,    \* whether Redis answers
  pc,         \* where each handler is
  call,       \* the request each handler serves
  result,     \* what the fallback repository gave a get
  answer,     \* what the client is told
  cancelled,  \* the calls whose context is cancelled
  detached,   \* the puts whose INSERT MySQL may still apply
  faults,     \* faults injected so far
  lost        \* history: locks of each id gone other than by their last Del

dbVars    == <<movies, detached>>
redisVars == <<cache, locks, redisUp, lost>>
reqVars   == <<pc, call, result, answer>>
envVars   == <<cancelled, faults>>
vars      == <<dbVars, redisVars, reqVars, envVars>>

(***************************************************************************)
(* Calls, results and answers                                              *)
(***************************************************************************)
NoCall     == [op |-> "none", id |-> NoId, val |-> NoMetadata]
Get(id)    == [op |-> "get", id |-> id, val |-> NoMetadata]
Put(id, m) == [op |-> "put", id |-> id, val |-> m]

(* What a repository returns: an error kind, or nil and perhaps a value. *)
Result(err, m) == [err |-> err, val |-> m]
NoResult       == Result("none", NoMetadata)
Data(m)        == Result("nil", m)
NotFound       == Result("ErrNotFound", NoMetadata)
OtherError     == Result("error", NoMetadata)

NoAnswer    == [code |-> "none", val |-> NoMetadata]
Unavailable == [code |-> "Unavailable", val |-> NoMetadata]
Invalid     == [code |-> "InvalidArgument", val |-> NoMetadata]

(* Mutant: the handler returns the error without a status. *)
AnswerWithoutStatus(res) ==
  [code |-> IF res.err = "nil" THEN "OK" ELSE "Unknown", val |-> res.val]

(* The gRPC status of what the repository returned: the controller keeps   *)
(* ErrNotFound apart from other errors, the handler gives each its code.   *)
Answer(res) ==
  [code |-> CASE res.err = "nil"         -> "OK"
              [] res.err = "ErrNotFound" -> "NotFound"
              [] OTHER                   -> "Internal",
   val  |-> res.val]

(***************************************************************************)
(* Program counters.  A get is at                                          *)
(*   get     about to read the cache      (redis.go:44)                    *)
(*   setnx   about to take the lock       (redis.go:51)                    *)
(*   sleep   about to sleep and start again (redis.go:70)                  *)
(*   load    about to query MySQL         (redis.go:53)                    *)
(*   fill    about to write the cache     (redis.go:64)                    *)
(*   unlock  about to delete the lock     (redis.go:55, 66)                *)
(* and a put is at                                                         *)
(*   insert  about to insert the row      (redis.go:77)                    *)
(*   warm    about to write the cache     (redis.go:87)                    *)
(***************************************************************************)
GetPcs  == {"get", "setnx", "sleep", "load", "fill", "unlock"}
PutPcs  == {"insert", "warm"}
Active(r) == pc[r] \in GetPcs \cup PutPcs

(* The handlers between taking the lock of id and giving it back. *)
Loaders(id) == {r \in Requests : pc[r] \in {"load", "fill", "unlock"} /\ call[r].id = id}

Goto(r, to) == pc' = [pc EXCEPT ![r] = to]
Return(r, res) ==
  /\ Goto(r, "done")
  /\ answer' = [answer EXCEPT ![r] = Answer(res)]
  /\ result' = [result EXCEPT ![r] = NoResult]
  /\ UNCHANGED call

(***************************************************************************)
(* Commands and statements.  One that fails was not applied; one that is   *)
(* unacknowledged was sent, and its error hides whether it was applied.    *)
(***************************************************************************)
InjectFault == faults < MaxFaults /\ faults' = faults + 1 /\ UNCHANGED cancelled

RedisRuns(r)  == redisUp /\ r \notin cancelled /\ UNCHANGED envVars
RedisFails(r) == IF redisUp /\ r \notin cancelled THEN InjectFault ELSE UNCHANGED envVars
RedisUnacknowledged(r) == redisUp /\ r \notin cancelled /\ InjectFault

QueryRuns(r)  == r \notin cancelled /\ UNCHANGED envVars
QueryFails(r) == IF r \notin cancelled THEN InjectFault ELSE UNCHANGED envVars
QueryUnacknowledged(r) == r \notin cancelled /\ InjectFault

CacheSet(id, m) ==
  /\ cache' = [cache EXCEPT ![id] = m]
  /\ UNCHANGED <<locks, redisUp, lost>>

(* A lock goes while the handler that took it may still be loading. *)
LoseLocks(L) == lost' = [id \in Ids |-> IF id \in L THEN lost[id] + 1 ELSE lost[id]]

(***************************************************************************)
(* gRPC handlers                                                           *)
(***************************************************************************)
Init ==
  /\ movies = [id \in Ids |-> NoMetadata]
  /\ cache = [id \in Ids |-> NoMetadata]
  /\ locks = {}
  /\ redisUp = TRUE
  /\ pc = [r \in Requests |-> "idle"]
  /\ call = [r \in Requests |-> NoCall]
  /\ result = [r \in Requests |-> NoResult]
  /\ answer = [r \in Requests |-> NoAnswer]
  /\ cancelled = {}
  /\ detached = {}
  /\ faults = 0
  /\ lost = [id \in Ids |-> 0]

StartGet(r) ==
  /\ pc[r] = "idle"
  /\ \E id \in Ids : call' = [call EXCEPT ![r] = Get(id)]
  /\ Goto(r, "get")
  /\ UNCHANGED <<dbVars, redisVars, envVars, result, answer>>

StartPut(r) ==
  /\ pc[r] = "idle"
  /\ \E id \in Ids, m \in Metadata : call' = [call EXCEPT ![r] = Put(id, m)]
  /\ Goto(r, "insert")
  /\ UNCHANGED <<dbVars, redisVars, envVars, result, answer>>

(* A nil request, or one with an empty id, is refused by the handler. *)
RejectEmpty(r) ==
  /\ pc[r] = "idle"
  /\ Goto(r, "done")
  /\ answer' = [answer EXCEPT ![r] = Invalid]
  /\ UNCHANGED <<dbVars, redisVars, envVars, call, result>>

(***************************************************************************)
(* Get                                                                     *)
(***************************************************************************)
CacheHit(r) ==
  /\ pc[r] = "get"
  /\ RedisRuns(r)
  /\ cache[call[r].id] # NoMetadata
  /\ Return(r, Data(cache[call[r].id]))
  /\ UNCHANGED <<dbVars, redisVars>>

(* Mutant: what is not in the cache is taken to be nowhere. *)
CacheMissIsNotFound(r) ==
  /\ pc[r] = "get"
  /\ RedisRuns(r)
  /\ cache[call[r].id] = NoMetadata
  /\ Return(r, NotFound)
  /\ UNCHANGED <<dbVars, redisVars>>

CacheMiss(r) ==
  /\ pc[r] = "get"
  /\ RedisRuns(r)
  /\ cache[call[r].id] = NoMetadata
  /\ Goto(r, "setnx")
  /\ UNCHANGED <<dbVars, redisVars, call, result, answer>>

(* Any error of the cache is taken for a miss. *)
CacheGetFails(r) ==
  /\ pc[r] = "get"
  /\ RedisFails(r)
  /\ Goto(r, "setnx")
  /\ UNCHANGED <<dbVars, redisVars, call, result, answer>>

Acquire(r) ==
  /\ pc[r] = "setnx"
  /\ RedisRuns(r)
  /\ call[r].id \notin locks
  /\ locks' = locks \cup {call[r].id}
  /\ Goto(r, "load")
  /\ UNCHANGED <<dbVars, cache, redisUp, lost, call, result, answer>>

(* Mutant: SETNX without looking at its reply. *)
LockBusyIgnored(r) ==
  /\ pc[r] = "setnx"
  /\ RedisRuns(r)
  /\ call[r].id \in locks
  /\ Goto(r, "load")
  /\ UNCHANGED <<dbVars, redisVars, call, result, answer>>

LockBusy(r) ==
  /\ pc[r] = "setnx"
  /\ RedisRuns(r)
  /\ call[r].id \in locks
  /\ Goto(r, "sleep")
  /\ UNCHANGED <<dbVars, redisVars, call, result, answer>>

SetNXFails(r) ==
  /\ pc[r] = "setnx"
  /\ RedisFails(r)
  /\ Goto(r, "sleep")
  /\ UNCHANGED <<dbVars, redisVars, call, result, answer>>

(* The lock is taken and nobody knows: it stays until its TTL. *)
SetNXUnacknowledged(r) ==
  /\ pc[r] = "setnx"
  /\ RedisUnacknowledged(r)
  /\ call[r].id \notin locks
  /\ locks' = locks \cup {call[r].id}
  /\ Goto(r, "sleep")
  /\ UNCHANGED <<dbVars, cache, redisUp, lost, call, result, answer>>

(* Sleep, then Get calls itself; the context is not looked at. *)
Wake(r) ==
  /\ pc[r] = "sleep"
  /\ Goto(r, "get")
  /\ UNCHANGED <<dbVars, redisVars, envVars, call, result, answer>>

Keep(r, res, to) ==
  /\ result' = [result EXCEPT ![r] = res]
  /\ Goto(r, to)
  /\ UNCHANGED <<dbVars, redisVars, call, answer>>

LoadFound(r) ==
  /\ pc[r] = "load"
  /\ QueryRuns(r)
  /\ movies[call[r].id] # NoMetadata
  /\ Keep(r, Data(movies[call[r].id]), "fill")

LoadMissing(r) ==
  /\ pc[r] = "load"
  /\ QueryRuns(r)
  /\ movies[call[r].id] = NoMetadata
  /\ Keep(r, NotFound, "unlock")

LoadFails(r) ==
  /\ pc[r] = "load"
  /\ QueryFails(r)
  /\ Keep(r, OtherError, "unlock")

Fill(r) ==
  /\ pc[r] = "fill"
  /\ RedisRuns(r)
  /\ CacheSet(call[r].id, result[r].val)
  /\ Goto(r, "unlock")
  /\ UNCHANGED <<dbVars, call, result, answer>>

(* The error of SET is ignored. *)
FillFails(r) ==
  /\ pc[r] = "fill"
  /\ RedisFails(r)
  /\ Goto(r, "unlock")
  /\ UNCHANGED <<dbVars, redisVars, call, result, answer>>

(* DEL does not ask whose lock it deletes. *)
Unlock(r) ==
  /\ pc[r] = "unlock"
  /\ RedisRuns(r)
  /\ locks' = locks \ {call[r].id}
  /\ Return(r, result[r])
  /\ UNCHANGED <<dbVars, cache, redisUp, lost>>

(* The error of DEL is ignored too: the lock stays until its TTL. *)
UnlockFails(r) ==
  /\ pc[r] = "unlock"
  /\ RedisFails(r)
  /\ Return(r, result[r])
  /\ UNCHANGED <<dbVars, redisVars>>

(* The client library sends DEL again when it missed the reply. *)
UnlockRetried(r) ==
  /\ pc[r] = "unlock"
  /\ RedisUnacknowledged(r)
  /\ call[r].id \in locks
  /\ locks' = locks \ {call[r].id}
  /\ LoseLocks({call[r].id})
  /\ UNCHANGED <<dbVars, cache, redisUp, reqVars>>

(***************************************************************************)
(* Put                                                                     *)
(***************************************************************************)
Insert(r) ==
  /\ pc[r] = "insert"
  /\ QueryRuns(r)
  /\ movies[call[r].id] = NoMetadata
  /\ movies' = [movies EXCEPT ![call[r].id] = call[r].val]
  /\ Goto(r, "warm")
  /\ UNCHANGED <<redisVars, detached, call, result, answer>>

(* Mutant: REPLACE INTO. *)
InsertReplaces(r) ==
  /\ pc[r] = "insert"
  /\ QueryRuns(r)
  /\ movies[call[r].id] # NoMetadata
  /\ movies' = [movies EXCEPT ![call[r].id] = call[r].val]
  /\ Goto(r, "warm")
  /\ UNCHANGED <<redisVars, detached, call, result, answer>>

(* Mutant: INSERT IGNORE. *)
InsertIgnores(r) ==
  /\ pc[r] = "insert"
  /\ QueryRuns(r)
  /\ movies[call[r].id] # NoMetadata
  /\ Return(r, Data(NoMetadata))
  /\ UNCHANGED <<dbVars, redisVars>>

(* id is the primary key of movies. *)
InsertDuplicate(r) ==
  /\ pc[r] = "insert"
  /\ QueryRuns(r)
  /\ movies[call[r].id] # NoMetadata
  /\ Return(r, OtherError)
  /\ UNCHANGED <<dbVars, redisVars>>

InsertFails(r) ==
  /\ pc[r] = "insert"
  /\ QueryFails(r)
  /\ Return(r, OtherError)
  /\ UNCHANGED <<dbVars, redisVars>>

InsertUnacknowledged(r) ==
  /\ pc[r] = "insert"
  /\ QueryUnacknowledged(r)
  /\ detached' = detached \cup {r}
  /\ Return(r, OtherError)
  /\ UNCHANGED <<movies, redisVars>>

Warm(r) ==
  /\ pc[r] = "warm"
  /\ RedisRuns(r)
  /\ CacheSet(call[r].id, call[r].val)
  /\ Return(r, Data(NoMetadata))
  /\ UNCHANGED dbVars

(* The row is stored, and the client is told that the put failed. *)
WarmFails(r) ==
  /\ pc[r] = "warm"
  /\ RedisFails(r)
  /\ Return(r, OtherError)
  /\ UNCHANGED <<dbVars, redisVars>>

WarmUnacknowledged(r) ==
  /\ pc[r] = "warm"
  /\ RedisUnacknowledged(r)
  /\ CacheSet(call[r].id, call[r].val)
  /\ Return(r, OtherError)
  /\ UNCHANGED dbVars

(***************************************************************************)
(* The environment                                                         *)
(***************************************************************************)
Cancel(r) ==
  /\ Active(r)
  /\ r \notin cancelled
  /\ faults < MaxFaults
  /\ cancelled' = cancelled \cup {r}
  /\ faults' = faults + 1
  /\ UNCHANGED <<dbVars, redisVars, reqVars>>

(* MySQL reaches an INSERT whose sender has gone. *)
InsertLate(r) ==
  /\ r \in detached
  /\ detached' = detached \ {r}
  /\ movies' = IF movies[call[r].id] = NoMetadata
               THEN [movies EXCEPT ![call[r].id] = call[r].val]
               ELSE movies
  /\ UNCHANGED <<redisVars, reqVars, envVars>>

(* Mutant: the lock is taken without a TTL. *)
ExpireLockNever(id) == FALSE

(* Five seconds after SETNX, whether or not the load is over. *)
ExpireLock(id) ==
  /\ redisUp
  /\ id \in locks
  /\ locks' = locks \ {id}
  /\ LoseLocks({id})
  /\ UNCHANGED <<dbVars, cache, redisUp, reqVars, envVars>>

(* Four hours after SET. *)
ExpireCache(id) ==
  /\ redisUp
  /\ cache[id] # NoMetadata
  /\ CacheSet(id, NoMetadata)
  /\ UNCHANGED <<dbVars, reqVars, envVars>>

CrashRedis ==
  /\ redisUp
  /\ InjectFault
  /\ redisUp' = FALSE
  /\ UNCHANGED <<dbVars, cache, locks, lost, reqVars>>

(* Redis comes back with some of its keys. *)
RestartRedis ==
  /\ ~redisUp
  /\ redisUp' = TRUE
  /\ \E kept \in SUBSET Ids :
       cache' = [id \in Ids |-> IF id \in kept THEN cache[id] ELSE NoMetadata]
  /\ \E kept \in SUBSET locks :
       /\ locks' = kept
       /\ LoseLocks(locks \ kept)
  /\ UNCHANGED <<dbVars, reqVars, envVars>>

(* Every open call fails; an INSERT that was sent may still be applied. *)
CrashService ==
  /\ \E r \in Requests : Active(r)
  /\ InjectFault
  /\ \E D \in SUBSET {r \in Requests : pc[r] = "insert"} : detached' = detached \cup D
  /\ pc' = [r \in Requests |-> IF Active(r) THEN "done" ELSE pc[r]]
  /\ answer' = [r \in Requests |-> IF Active(r) THEN Unavailable ELSE answer[r]]
  /\ result' = [r \in Requests |-> NoResult]
  /\ UNCHANGED <<movies, redisVars, call>>

AllAnswered == (\A r \in Requests : pc[r] = "done") /\ UNCHANGED vars

(***************************************************************************)
(* Specification                                                           *)
(***************************************************************************)
Start(r)    == StartGet(r) \/ StartPut(r) \/ RejectEmpty(r)
GetStep(r)  == \/ CacheHit(r) \/ CacheMiss(r) \/ CacheGetFails(r)
               \/ Acquire(r) \/ LockBusy(r) \/ SetNXFails(r) \/ SetNXUnacknowledged(r)
               \/ Wake(r)
               \/ LoadFound(r) \/ LoadMissing(r) \/ LoadFails(r)
               \/ Fill(r) \/ FillFails(r)
               \/ Unlock(r) \/ UnlockFails(r) \/ UnlockRetried(r)
PutStep(r)  == \/ Insert(r) \/ InsertDuplicate(r) \/ InsertFails(r) \/ InsertUnacknowledged(r)
               \/ Warm(r) \/ WarmFails(r) \/ WarmUnacknowledged(r)
Step(r)     == GetStep(r) \/ PutStep(r)
Environment == \/ \E r \in Requests : Cancel(r) \/ InsertLate(r)
               \/ \E id \in Ids : ExpireLock(id) \/ ExpireCache(id)
               \/ CrashRedis \/ RestartRedis \/ CrashService

Next == \/ \E r \in Requests : Start(r) \/ Step(r)
        \/ Environment
        \/ AllAnswered

Spec == Init /\ [][Next]_vars

(* Goroutines are scheduled, a lock reaches its TTL, Redis comes back.     *)
(* Nobody has to call, to cancel or to crash.                              *)
Fairness ==
  /\ \A r \in Requests : WF_vars(Step(r))
  /\ \A id \in Ids : WF_vars(ExpireLock(id))
  /\ WF_vars(RestartRedis)

FairSpec == Spec /\ Fairness

(***************************************************************************)
(* Properties                                                              *)
(***************************************************************************)
Value   == Metadata \cup {NoMetadata}
Calls   == [op : {"none", "get", "put"}, id : Ids \cup {NoId}, val : Value]
Results == [err : {"none", "nil", "ErrNotFound", "error"}, val : Value]
Answers == [code : {"none", "OK", "NotFound", "Internal", "Unavailable", "InvalidArgument"},
            val : Value]

(* Every variable keeps its type. *)
TypeOK ==
  /\ movies \in [Ids -> Value]
  /\ cache \in [Ids -> Value]
  /\ locks \in SUBSET Ids
  /\ redisUp \in BOOLEAN
  /\ pc \in [Requests -> {"idle", "done"} \cup GetPcs \cup PutPcs]
  /\ call \in [Requests -> Calls]
  /\ result \in [Requests -> Results]
  /\ answer \in [Requests -> Answers]
  /\ cancelled \in SUBSET Requests
  /\ detached \in SUBSET Requests
  /\ faults \in 0 .. MaxFaults
  /\ lost \in [Ids -> Nat]

(* The cache never holds anything but the row of MySQL, although fills and *)
(* warm-ups write it without a transaction, entries expire, and Redis may  *)
(* come back with old keys.                                                *)
CacheMatchesDatabase ==
  \A id \in Ids : cache[id] # NoMetadata => cache[id] = movies[id]

(* A client told OK of a put has its metadata in MySQL, whatever other     *)
(* puts of the id raced with it.                                           *)
AcknowledgedPutIsStored ==
  \A r \in Requests :
    call[r].op = "put" /\ answer[r].code = "OK" => movies[call[r].id] = call[r].val

(* Metadata v is public once somebody was told OK of it: by a put that     *)
(* stored it, or by a get that returned it.                                *)
Told(id, v) ==
  \E q \in Requests : /\ call[q].id = id
                      /\ answer[q].code = "OK"
                      /\ v = IF call[q].op = "put" THEN call[q].val ELSE answer[q].val

(* Clients never see time go backwards: a get that starts after somebody   *)
(* was told of an id's metadata is not told NotFound, nor other metadata.  *)
LaterGetsAgree ==
  \A r \in Requests, id \in Ids, v \in Metadata :
    [](pc[r] = "idle" /\ Told(id, v) =>
         [](call[r] = Get(id) =>
              /\ answer[r].code # "NotFound"
              /\ answer[r].code = "OK" => answer[r].val = v))

(* The lock keeps misses from stampeding: besides the one load that holds  *)
(* it, there is at most one load of an id for each time its lock expired   *)
(* or was lost.  DEL does not check the owner, so one lost lock is not     *)
(* forgotten when its load ends: the bound counts all that ever were lost. *)
LoadsBoundedByLostLocks ==
  \A id \in Ids : Cardinality(Loaders(id)) <= lost[id] + (IF id \in locks THEN 1 ELSE 0)

(* The strengthening that makes these inductive.  A handler is answered    *)
(* once, serves a call that fits where it is, and a detached INSERT is one *)
(* whose client was told of a failure.                                     *)
Gets == {Get(id) : id \in Ids}
Puts == {Put(id, m) : id \in Ids, m \in Metadata}

HandlersFit ==
  \A r \in Requests :
    /\ call[r] \in {NoCall} \cup Gets \cup Puts
    /\ pc[r] # "done" => answer[r] = NoAnswer
    /\ pc[r] = "idle" => call[r] = NoCall
    /\ pc[r] \in GetPcs => call[r] \in Gets
    /\ pc[r] \in PutPcs => call[r] \in Puts
    /\ r \in detached =>
         /\ pc[r] = "done"
         /\ call[r] \in Puts
         /\ answer[r] \in {Answer(OtherError), Unavailable}

(* What a load has read is still the row when it is written to the cache   *)
(* and returned.                                                           *)
IsRow(r) == /\ movies[call[r].id] # NoMetadata
            /\ result[r] = Data(movies[call[r].id])

LoadsMatchDatabase ==
  \A r \in Requests :
    /\ pc[r] = "fill" => IsRow(r)
    /\ pc[r] = "unlock" => IsRow(r) \/ result[r] \in {NotFound, OtherError}

(* A put that warms the cache has its row. *)
WarmedPutIsStored ==
  \A r \in Requests : pc[r] = "warm" => movies[call[r].id] = call[r].val

IInv == /\ TypeOK
        /\ HandlersFit
        /\ CacheMatchesDatabase
        /\ LoadsMatchDatabase
        /\ WarmedPutIsStored
        /\ AcknowledgedPutIsStored

(* The service is a write-once map whose operations take effect at one     *)
(* instant between the call and the answer.                                *)
Phase(r) == CASE pc[r] = "idle" -> "idle"
              [] pc[r] = "done" -> "done"
              [] pc[r] = "warm" -> "stored"
              [] pc[r] = "unlock" /\ result[r].err = "ErrNotFound" -> "missing"
              [] OTHER -> "called"

Store == INSTANCE MetadataStore WITH store <- movies, phase <- [r \in Requests |-> Phase(r)]

ImplementsStore == Store!Spec

(* A call whose context is not cancelled is answered. *)
LiveCallReturns ==
  \A r \in Requests : Active(r) ~> (pc[r] = "done" \/ r \in cancelled)

(* "Get retrieves movie metadata" (redis.go:38): every get that begins     *)
(* ends, also one whose context is cancelled.                              *)
GetReturns == \A r \in Requests : pc[r] \in GetPcs ~> pc[r] = "done"
=============================================================================
