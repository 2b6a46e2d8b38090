-------------------------- MODULE InMemoryServices --------------------------
(***************************************************************************)
(* The services as the integration test wires them: one process, with the  *)
(* repositories and the registry in memory.  The registry and the metadata *)
(* repository hold a mutex in each operation.  The rating repository holds *)
(* none, although gRPC runs every call in a goroutine of its own: it is a  *)
(* map, by record type, of maps, by record, of slices, and each of its     *)
(* lookups and assignments is a step of its own here.                      *)
(*                                                                         *)
(* Two accesses to a map that overlap, one of them a write, are a data     *)
(* race.  Go's map ends the process when it notices, and otherwise they    *)
(* take effect in some order.  Two puts that append to one slice with room *)
(* to spare write one element, so that a rating that raced may stand for   *)
(* the other's: no property tells the two apart.  Slices torn between      *)
(* their words are left out.  All ratings have one record type.            *)
(***************************************************************************)
EXTENDS Naturals, FiniteSets

CONSTANTS Puts,      \* calls of PutRating, each with a rating of its own
          Gets,      \* calls of GetMovieDetails
          Movies, NoMovie,
          NoMap      \* where the record type is not in the outer map

ASSUME NothingAssumption == NoMovie \notin Movies /\ NoMap \notin Puts
ASSUME CallsAssumption == Puts \cap Gets = {}

Services == {"metadata", "rating"}

VARIABLES
  up,          \* the process runs
  registered,  \* registry: the services it has an instance of
  active,      \* registry: those whose instance was last active within five seconds
  stored,      \* the movies whose metadata is stored
  inner,       \* the inner map that the outer one holds, by the call that made it
  maps,        \* maps[p][m]: the slice of movie m in the inner map that p made
  stage,       \* where each call is
  movie,       \* what it is about
  target,      \* the inner map it is going to assign to
  slice,       \* the slice it read; of a get, the ratings it got the mean of
  code,        \* what a get was told
  raced,       \* history: puts that overlapped with another
  atStart,     \* history: what was stored, and rated without a race, at the start of a get
  unresolved   \* history: gets that found a service without an instance

repository == <<stored, inner, maps>>
registry   == <<registered, active>>
call       == <<stage, movie, target, slice, code>>
history    == <<raced, atStart, unresolved>>
vars == <<up, registered, active, stored, inner, maps, stage, movie, target, slice, code,
          raced, atStart, unresolved>>

Ratings(m) == IF inner = NoMap THEN {} ELSE maps[inner][m]
Putting    == {p \in Puts : stage[p] \notin {"idle", "done"}}
Counted(m) == {p \in Puts \ raced : stage[p] = "done" /\ movie[p] = m}

Init ==
  /\ up = TRUE
  /\ registered = {}
  /\ active = {}
  /\ stored = {}
  /\ inner = NoMap
  /\ maps = [p \in Puts |-> [m \in Movies |-> {}]]
  /\ stage = [c \in Puts \cup Gets |-> "idle"]
  /\ movie = [c \in Puts \cup Gets |-> NoMovie]
  /\ target = [p \in Puts |-> NoMap]
  /\ slice = [c \in Puts \cup Gets |-> {}]
  /\ code = [g \in Gets |-> "none"]
  /\ raced = {}
  /\ atStart = [g \in Gets |-> [stored |-> FALSE, rated |-> {}]]
  /\ unresolved = {}

Goto(c, to) == stage' = [stage EXCEPT ![c] = to]
Tell(g, status) == Goto(g, "done") /\ code' = [code EXCEPT ![g] = status]

-----------------------------------------------------------------------------
(* The registry and the metadata *)

Register(s) ==
  /\ up
  /\ registered' = registered \cup {s}
  /\ active' = active \cup {s}
  /\ UNCHANGED <<up, repository, call, history>>

Deregister(s) ==
  /\ up
  /\ registered' = registered \ {s}
  /\ active' = active \ {s}
  /\ UNCHANGED <<up, repository, call, history>>

(* An instance that is not registered gets an error. *)
ReportHealthyState(s) ==
  /\ up /\ s \in registered
  /\ active' = active \cup {s}
  /\ UNCHANGED <<up, registered, repository, call, history>>

(* Five seconds without a report. *)
FallSilent(s) ==
  /\ up
  /\ active' = active \ {s}
  /\ UNCHANGED <<up, registered, repository, call, history>>

PutMetadata(m) ==
  /\ up
  /\ stored' = stored \cup {m}
  /\ UNCHANGED <<up, registry, inner, maps, call, history>>

-----------------------------------------------------------------------------
(* PutRating *)

StartPut(p, m) ==
  /\ up /\ stage[p] = "idle"
  /\ movie' = [movie EXCEPT ![p] = m]
  /\ Goto(p, "check")
  /\ raced' = IF Putting = {} THEN raced ELSE raced \cup Putting \cup {p}
  /\ UNCHANGED <<up, registry, repository, target, slice, code, atStart, unresolved>>

(* Mutant: the inner map is never made. *)
CheckNeverCreates(p) ==
  /\ up /\ stage[p] = "check"
  /\ Goto(p, "look")
  /\ UNCHANGED <<up, registry, repository, movie, target, slice, code, history>>

(* Mutant: it is made by every put. *)
CheckAlwaysCreates(p) ==
  /\ up /\ stage[p] = "check"
  /\ Goto(p, "create")
  /\ UNCHANGED <<up, registry, repository, movie, target, slice, code, history>>

Check(p) ==
  /\ up /\ stage[p] = "check"
  /\ \/ inner = NoMap /\ Goto(p, "create")
     \/ inner # NoMap /\ Goto(p, "look")
  /\ UNCHANGED <<up, registry, repository, movie, target, slice, code, history>>

Create(p) ==
  /\ up /\ stage[p] = "create"
  /\ inner' = p
  /\ Goto(p, "look")
  /\ UNCHANGED <<up, registry, stored, maps, movie, target, slice, code, history>>

(* The inner map that is assigned to is looked up, and then that whose     *)
(* slice is appended to.                                                   *)
Look(p) ==
  /\ up /\ stage[p] = "look"
  /\ target' = [target EXCEPT ![p] = inner]
  /\ Goto(p, "read")
  /\ UNCHANGED <<up, registry, repository, movie, slice, code, history>>

Read(p) ==
  /\ up /\ stage[p] = "read"
  /\ slice' = [slice EXCEPT ![p] = Ratings(movie[p])]
  /\ Goto(p, "assign")
  /\ UNCHANGED <<up, registry, repository, movie, target, code, history>>

(* Mutant: the slice that was read is not appended to. *)
AssignAlone(p) ==
  /\ up /\ stage[p] = "assign"
  /\ maps' = [maps EXCEPT ![target[p]][movie[p]] = {p}]
  /\ Goto(p, "done")
  /\ UNCHANGED <<up, registry, stored, inner, movie, target, slice, code, history>>

Assign(p) ==
  /\ up /\ stage[p] = "assign"
  /\ maps' = [maps EXCEPT ![target[p]][movie[p]] = slice[p] \cup {p}]
  /\ Goto(p, "done")
  /\ UNCHANGED <<up, registry, stored, inner, movie, target, slice, code, history>>

PutRating(p) == Check(p) \/ Create(p) \/ Look(p) \/ Read(p) \/ Assign(p)

-----------------------------------------------------------------------------
(* GetMovieDetails, and GetAggregatedRating behind it *)

Ask(g, m) ==
  /\ up /\ stage[g] = "idle"
  /\ movie' = [movie EXCEPT ![g] = m]
  /\ atStart' = [atStart EXCEPT ![g] = [stored |-> m \in stored, rated |-> Counted(m)]]
  /\ Goto(g, "metadata")
  /\ UNCHANGED <<up, registry, repository, target, slice, code, raced, unresolved>>

(* A service that never registered, or deregistered. *)
Unresolved(g) ==
  /\ up /\ stage[g] \in Services /\ stage[g] \notin registered
  /\ Tell(g, "Internal")
  /\ unresolved' = unresolved \cup {g}
  /\ UNCHANGED <<up, registry, repository, movie, target, slice, raced, atStart>>

(* An instance that is silent is left out of the list, and the list is     *)
(* returned empty: rand.IntN(0) panics.                                    *)
NoAddress(g) ==
  /\ up /\ stage[g] \in registered \ active
  /\ up' = FALSE
  /\ UNCHANGED <<registry, repository, call, history>>

GetMetadata(g) ==
  /\ up /\ stage[g] = "metadata" /\ stage[g] \in active
  /\ \/ movie[g] \in stored /\ Goto(g, "rating") /\ UNCHANGED code
     \/ movie[g] \notin stored /\ Tell(g, "Internal")
  /\ UNCHANGED <<up, registry, repository, movie, target, slice, history>>

GetRating(g) ==
  /\ up /\ stage[g] = "rating" /\ stage[g] \in active
  /\ Goto(g, "type")
  /\ UNCHANGED <<up, registry, repository, movie, target, slice, code, history>>

(* The status NotFound of the rating service is no gateway.ErrNotFound for *)
(* the movie service.                                                      *)
GetType(g) ==
  /\ up /\ stage[g] = "type"
  /\ \/ inner = NoMap /\ Tell(g, "Internal")
     \/ inner # NoMap /\ Goto(g, "record") /\ UNCHANGED code
  /\ UNCHANGED <<up, registry, repository, movie, target, slice, history>>

GetRecord(g) ==
  /\ up /\ stage[g] = "record"
  /\ slice' = [slice EXCEPT ![g] = Ratings(movie[g])]
  /\ \/ Ratings(movie[g]) = {} /\ Tell(g, "Internal")
     \/ Ratings(movie[g]) # {} /\ Tell(g, "OK")
  /\ UNCHANGED <<up, registry, repository, movie, target, history>>

GetMovieDetails(g) == \/ Unresolved(g) \/ NoAddress(g) \/ GetMetadata(g) \/ GetRating(g)
                      \/ GetType(g) \/ GetRecord(g)

-----------------------------------------------------------------------------
(* Calls that are about to access a map, and may be doing so. *)
ReadsOuter(c) == stage[c] \in {"check", "look", "read", "type", "record"}
ReadsInner(c) == stage[c] \in {"read", "record"}
Writes(p, c) ==
  \/ stage[p] = "create" /\ (stage[c] = "create" \/ ReadsOuter(c))
  \/ /\ stage[p] = "assign"
     /\ \/ c \in Puts /\ stage[c] = "assign" /\ target[c] = target[p]
        \/ ReadsInner(c) /\ inner = target[p]

(* Go's map notices that another call is writing: a fatal error. *)
ConcurrentMapAccess ==
  /\ up
  /\ \E p \in Puts, c \in Puts \cup Gets : p # c /\ Writes(p, c)
  /\ up' = FALSE
  /\ UNCHANGED <<registry, repository, call, history>>

Next ==
  \/ \E s \in Services : \/ Register(s) \/ Deregister(s)
                         \/ ReportHealthyState(s) \/ FallSilent(s)
  \/ \E m \in Movies : PutMetadata(m)
  \/ \E p \in Puts, m \in Movies : StartPut(p, m)
  \/ \E p \in Puts : PutRating(p)
  \/ \E g \in Gets, m \in Movies : Ask(g, m)
  \/ \E g \in Gets : GetMovieDetails(g)
  \/ ConcurrentMapAccess

Spec == Init /\ [][Next]_vars

(***************************************************************************)
(* Properties                                                              *)
(***************************************************************************)

PutStages == {"idle", "check", "create", "look", "read", "assign", "done"}
GetStages == {"idle", "metadata", "rating", "type", "record", "done"}

(* Every variable keeps its type; a call that assigns has a map to assign  *)
(* to.                                                                     *)
TypeOK ==
  /\ up \in BOOLEAN
  /\ registered \in SUBSET Services
  /\ active \in SUBSET registered
  /\ stored \in SUBSET Movies
  /\ inner \in Puts \cup {NoMap}
  /\ maps \in [Puts -> [Movies -> SUBSET Puts]]
  /\ stage \in [Puts \cup Gets -> PutStages \cup GetStages]
  /\ \A p \in Puts : stage[p] \in PutStages
  /\ \A g \in Gets : stage[g] \in GetStages
  /\ movie \in [Puts \cup Gets -> Movies \cup {NoMovie}]
  /\ target \in [Puts -> Puts \cup {NoMap}]
  /\ slice \in [Puts \cup Gets -> SUBSET Puts]
  /\ code \in [Gets -> {"none", "OK", "Internal"}]
  /\ raced \in SUBSET Puts
  /\ atStart \in [Gets -> [stored : BOOLEAN, rated : SUBSET Puts]]
  /\ unresolved \in SUBSET Gets
  /\ \A p \in Puts : stage[p] \in {"read", "assign"} => target[p] # NoMap

(* A rating that was put while no other put was under way stays, whatever  *)
(* races follow; one that raced with another, even of another movie, may   *)
(* be lost although its put was answered without an error.                 *)
CountedStays == \A m \in Movies : Counted(m) \subseteq Ratings(m)

(* Details carry the mean of ratings of the movie, every counted rating    *)
(* from before the get among them; and a get of a movie that was stored,   *)
(* and rated without a race, fails only when a service has no instance.    *)
GetsSeeCounted ==
  \A g \in Gets :
    /\ code[g] = "OK" => atStart[g].rated \subseteq slice[g]
                         /\ \A p \in slice[g] : movie[p] = movie[g]
    /\ code[g] = "Internal" =>
         g \in unresolved \/ ~ atStart[g].stored \/ atStart[g].rated = {}

(* The strengthening that makes these inductive.  A put that is on its way *)
(* past the first check has found or made an inner map; slices hold        *)
(* ratings of their movie that have been put; once a rating is counted,    *)
(* nobody is about to replace the map it is in, and nobody assigns a slice *)
(* without it; a put that has not raced is the only one.                   *)
Allocated ==
  \A p \in Puts :
    /\ stage[p] # "idle" => movie[p] \in Movies
    /\ stage[p] \in {"look", "read", "assign", "done"} => inner # NoMap

IsPut(q, m) == stage[q] = "done" /\ movie[q] = m

SlicesHoldPuts ==
  /\ \A p \in Puts, m \in Movies : \A q \in maps[p][m] : IsPut(q, m)
  /\ \A c \in Puts \cup Gets : \A q \in slice[c] : IsPut(q, movie[c])
  /\ \A c \in Puts \cup Gets : stage[c] = "idle" => slice[c] = {}

Safe(p) ==
  /\ stage[p] # "create"
  /\ stage[p] \in {"read", "assign"} => target[p] = inner
  /\ stage[p] = "assign" => Counted(movie[p]) \subseteq slice[p]

CountedIsSafe ==
  (\E m \in Movies : Counted(m) # {}) => \A p \in Putting : Safe(p)

Alone ==
  \A p \in Putting \ raced :
    Putting = {p} /\ (stage[p] \in {"read", "assign"} => target[p] = inner)

GetsFit ==
  \A g \in Gets :
    /\ stage[g] # "done" => code[g] = "none"
    /\ stage[g] = "idle" => atStart[g].rated = {}
    /\ stage[g] # "idle" => movie[g] \in Movies
    /\ atStart[g].rated \subseteq Counted(movie[g])
    /\ atStart[g].stored => movie[g] \in stored

(* The map never counts what was not put, and as long as no two puts have  *)
(* overlapped it counts each rating that was put, and nothing else.        *)
RatingsArePuts ==
  \A m \in Movies :
    /\ Ratings(m) \subseteq {p \in Puts : IsPut(p, m)}
    /\ raced = {} => Ratings(m) = {p \in Puts : IsPut(p, m)}

IInv == /\ TypeOK /\ Allocated /\ SlicesHoldPuts /\ CountedIsSafe /\ Alone
        /\ CountedStays /\ GetsFit /\ GetsSeeCounted
=============================================================================
