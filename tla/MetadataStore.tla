--------------------------- MODULE MetadataStore ---------------------------
(***************************************************************************)
(* What the metadata service promises its clients: a write-once map from   *)
(* movie ids to metadata, whose reads and writes each take effect at one   *)
(* instant between the call and the answer.                                *)
(*                                                                         *)
(* It knows nothing of MySQL, of Redis or of the lock that guards a cache  *)
(* fill.  Module MetadataCache implements it.                              *)
(***************************************************************************)
CONSTANTS Requests, Ids, NoId, Metadata, NoMetadata

VARIABLES store,    \* the map: id -> metadata, NoMetadata where there is none
          phase,    \* how far each request is
          call,     \* what each request asks
          answer    \* what each request was told

vars == <<store, phase, call, answer>>

NoCall    == [op |-> "none", id |-> NoId, val |-> NoMetadata]
Get(id)   == [op |-> "get", id |-> id, val |-> NoMetadata]
Put(id, m) == [op |-> "put", id |-> id, val |-> m]

NoAnswer  == [code |-> "none", val |-> NoMetadata]
Refused   == [code |-> "InvalidArgument", val |-> NoMetadata]
Stored    == [code |-> "OK", val |-> NoMetadata]
Missing   == [code |-> "NotFound", val |-> NoMetadata]
Found(m)  == [code |-> "OK", val |-> m]
Failures  == [code : {"Internal", "Unavailable"}, val : {NoMetadata}]

Init ==
  /\ store = [id \in Ids |-> NoMetadata]
  /\ phase = [r \in Requests |-> "idle"]
  /\ call = [r \in Requests |-> NoCall]
  /\ answer = [r \in Requests |-> NoAnswer]

Goto(r, p)  == phase' = [phase EXCEPT ![r] = p]
Tell(r, a)  == answer' = [answer EXCEPT ![r] = a]

(* A put takes effect: only a free id can be written. *)
Take(r) ==
  /\ call[r].op = "put"
  /\ store[call[r].id] = NoMetadata
  /\ store' = [store EXCEPT ![call[r].id] = call[r].val]

CallGet(r) ==
  /\ phase[r] = "idle"
  /\ Goto(r, "called")
  /\ \E id \in Ids : call' = [call EXCEPT ![r] = Get(id)]
  /\ UNCHANGED <<store, answer>>

CallPut(r) ==
  /\ phase[r] = "idle"
  /\ Goto(r, "called")
  /\ \E id \in Ids, m \in Metadata : call' = [call EXCEPT ![r] = Put(id, m)]
  /\ UNCHANGED <<store, answer>>

(* A request without an id is refused before it reaches the map. *)
Refuse(r) ==
  /\ phase[r] = "idle"
  /\ Goto(r, "done")
  /\ Tell(r, Refused)
  /\ UNCHANGED <<store, call>>

Insert(r) ==
  /\ phase[r] = "called"
  /\ Take(r)
  /\ Goto(r, "stored")
  /\ UNCHANGED <<call, answer>>

(* A put that is told it failed may still take effect, at any later time. *)
InsertLate(r) ==
  /\ phase[r] = "done"
  /\ answer[r] \in Failures
  /\ Take(r)
  /\ UNCHANGED <<phase, call, answer>>

(* A get takes effect at the moment it sees that there is no metadata, or  *)
(* at the moment it is answered with the metadata that is there.           *)
SeeMissing(r) ==
  /\ phase[r] = "called"
  /\ call[r].op = "get"
  /\ store[call[r].id] = NoMetadata
  /\ Goto(r, "missing")
  /\ UNCHANGED <<store, call, answer>>

AnswerMissing(r) ==
  /\ phase[r] = "missing"
  /\ Goto(r, "done")
  /\ Tell(r, Missing)
  /\ UNCHANGED <<store, call>>

AnswerFound(r) ==
  /\ phase[r] = "called"
  /\ call[r].op = "get"
  /\ store[call[r].id] # NoMetadata
  /\ Goto(r, "done")
  /\ Tell(r, Found(store[call[r].id]))
  /\ UNCHANGED <<store, call>>

AnswerStored(r) ==
  /\ phase[r] = "stored"
  /\ Goto(r, "done")
  /\ Tell(r, Stored)
  /\ UNCHANGED <<store, call>>

(* Any set of open requests fails together when the service stops. *)
Fail(R) ==
  /\ \A r \in R : phase[r] \notin {"idle", "done"}
  /\ phase' = [r \in Requests |-> IF r \in R THEN "done" ELSE phase[r]]
  /\ \E a \in Failures :
       answer' = [r \in Requests |-> IF r \in R THEN a ELSE answer[r]]
  /\ UNCHANGED <<store, call>>

Next ==
  \/ \E r \in Requests :
       \/ CallGet(r) \/ CallPut(r) \/ Refuse(r)
       \/ Insert(r) \/ InsertLate(r)
       \/ SeeMissing(r) \/ AnswerMissing(r) \/ AnswerFound(r) \/ AnswerStored(r)
  \/ \E R \in SUBSET Requests : Fail(R)

Spec == Init /\ [][Next]_vars
=============================================================================
