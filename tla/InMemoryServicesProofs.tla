----------------------- MODULE InMemoryServicesProofs -----------------------
(***************************************************************************)
(* Theorems about module InMemoryServices, for any calls and movies.  The  *)
(* invariant IInv of that module is inductive, in three parts: the types,  *)
(* what the puts do to the maps and to each other, and what a get sees.    *)
(***************************************************************************)
EXTENDS InMemoryServices, TLAPS

USE NothingAssumption, CallsAssumption

(* Initially nothing is put, and nobody calls. *)
LEMMA InitInv == Init => IInv
BY DEF Init, IInv, TypeOK, PutStages, GetStages, Services, Allocated, SlicesHoldPuts,
       CountedIsSafe, Safe, Alone, Putting, Counted, CountedStays, GetsFit, GetsSeeCounted

(* What the ratings of a movie are is a set of puts. *)
LEMMA RatingsType == ASSUME TypeOK, NEW m \in Movies PROVE Ratings(m) \in SUBSET Puts
BY DEF TypeOK, Ratings

(* Every step keeps the types. *)
LEMMA TypeStep == TypeOK /\ Allocated /\ GetsFit /\ [Next]_vars => TypeOK'
<1> SUFFICES ASSUME TypeOK, Allocated, GetsFit, [Next]_vars PROVE TypeOK'
  OBVIOUS
<1> USE DEF TypeOK, PutStages, GetStages, Services, Goto, Tell, repository, registry, call, history
<1>1. ASSUME NEW s \in Services,
             Register(s) \/ Deregister(s) \/ ReportHealthyState(s) \/ FallSilent(s)
      PROVE  TypeOK'
  BY <1>1 DEF Register, Deregister, ReportHealthyState, FallSilent
<1>2. ASSUME NEW m \in Movies, PutMetadata(m) PROVE TypeOK'
  BY <1>2 DEF PutMetadata
<1>3. ASSUME NEW p \in Puts, NEW m \in Movies, StartPut(p, m) PROVE TypeOK'
  BY <1>3 DEF StartPut, Putting
<1>4. ASSUME NEW p \in Puts, Check(p) \/ Create(p) PROVE TypeOK'
  BY <1>4 DEF Check, Create
<1>5. ASSUME NEW p \in Puts, Look(p) PROVE TypeOK'
  <2>1. inner # NoMap
    BY <1>5 DEF Look, Allocated
  <2> QED
    BY <1>5, <2>1 DEF Look
<1>6. ASSUME NEW p \in Puts, Read(p) PROVE TypeOK'
  <2>1. Ratings(movie[p]) \in SUBSET Puts
    BY <1>6, RatingsType DEF Read, Allocated
  <2> QED
    BY <1>6, <2>1 DEF Read
<1>7. ASSUME NEW p \in Puts, Assign(p) PROVE TypeOK'
  <2>1. target[p] \in Puts /\ movie[p] \in Movies
    BY <1>7 DEF Assign, Allocated
  <2>2. maps' \in [Puts -> [Movies -> SUBSET Puts]]
    BY <1>7, <2>1 DEF Assign
  <2> QED
    BY <1>7, <2>2 DEF Assign
<1>8. ASSUME NEW g \in Gets, NEW m \in Movies, Ask(g, m) PROVE TypeOK'
  <2>1. [stored |-> m \in stored, rated |-> Counted(m)] \in [stored : BOOLEAN, rated : SUBSET Puts]
    BY DEF Counted
  <2>2. atStart' \in [Gets -> [stored : BOOLEAN, rated : SUBSET Puts]]
    BY <1>8, <2>1 DEF Ask
  <2>3. stage' = [stage EXCEPT ![g] = "metadata"] /\ movie' = [movie EXCEPT ![g] = m]
    BY <1>8 DEF Ask
  <2>4. UNCHANGED <<up, registered, active, stored, inner, maps, target, slice, code, raced,
                    unresolved>>
    BY <1>8 DEF Ask
  <2>5. /\ stage' \in [Puts \cup Gets -> PutStages \cup GetStages]
        /\ \A p \in Puts : stage'[p] = stage[p]
        /\ \A h \in Gets : stage'[h] \in GetStages
        /\ movie' \in [Puts \cup Gets -> Movies \cup {NoMovie}]
    BY <2>3
  <2>6. \A p \in Puts : stage'[p] \in PutStages
                        /\ (stage'[p] \in {"read", "assign"} => target'[p] # NoMap)
    BY <2>4, <2>5
  <2>7. /\ up' \in BOOLEAN /\ registered' \in SUBSET Services /\ active' \in SUBSET registered'
        /\ stored' \in SUBSET Movies /\ inner' \in Puts \cup {NoMap}
        /\ maps' \in [Puts -> [Movies -> SUBSET Puts]]
        /\ target' \in [Puts -> Puts \cup {NoMap}]
        /\ slice' \in [Puts \cup Gets -> SUBSET Puts]
        /\ code' \in [Gets -> {"none", "OK", "Internal"}]
        /\ raced' \in SUBSET Puts /\ unresolved' \in SUBSET Gets
    BY <2>4
  <2> QED
    BY <2>2, <2>5, <2>6, <2>7, Zenon
<1>9. ASSUME NEW g \in Gets, Unresolved(g) PROVE TypeOK'
  BY <1>9 DEF Unresolved
<1>13. ASSUME NEW g \in Gets, NoAddress(g) PROVE TypeOK'
  BY <1>13 DEF NoAddress
<1>10. ASSUME NEW g \in Gets, GetMetadata(g) \/ GetRating(g) \/ GetType(g) PROVE TypeOK'
  BY <1>10 DEF GetMetadata, GetRating, GetType
<1>11. ASSUME NEW g \in Gets, GetRecord(g) PROVE TypeOK'
  <2>1. Ratings(movie[g]) \in SUBSET Puts
    BY <1>11, RatingsType DEF GetRecord, GetsFit
  <2>2. slice' \in [Puts \cup Gets -> SUBSET Puts]
    BY <1>11, <2>1 DEF GetRecord
  <2>3. PICK status \in {"OK", "Internal"} : code' = [code EXCEPT ![g] = status]
    BY <1>11 DEF GetRecord
  <2>4. stage' = [stage EXCEPT ![g] = "done"]
    BY <1>11 DEF GetRecord
  <2>5. UNCHANGED <<up, registered, active, stored, inner, maps, target, movie, raced, atStart,
                    unresolved>>
    BY <1>11 DEF GetRecord
  <2> QED
    BY <2>2, <2>3, <2>4, <2>5
<1>12. CASE ConcurrentMapAccess \/ UNCHANGED vars
  BY <1>12 DEF ConcurrentMapAccess, vars
<1> QED
  BY <1>1, <1>2, <1>3, <1>4, <1>5, <1>6, <1>7, <1>8, <1>9, <1>10, <1>11, <1>12, <1>13
     DEF Next, PutRating, GetMovieDetails

-----------------------------------------------------------------------------
(* What the puts rely on. *)
PutsInv == Allocated /\ SlicesHoldPuts /\ CountedIsSafe /\ Alone /\ CountedStays

(* A step that leaves the puts alone: their calls, maps and races. *)
PutsUnmoved ==
  /\ UNCHANGED <<inner, maps, target, raced>>
  /\ \A p \in Puts : stage'[p] = stage[p] /\ movie'[p] = movie[p] /\ slice'[p] = slice[p]

LEMMA PutsUnmovedInv ==
  ASSUME TypeOK, PutsInv, PutsUnmoved,
         \A g \in Gets : \A q \in slice'[g] : stage'[q] = "done" /\ movie'[q] = movie'[g],
         \A g \in Gets : stage'[g] = "idle" => slice'[g] = {}
  PROVE  PutsInv' /\ \A m \in Movies : Counted(m)' = Counted(m) /\ Ratings(m)' = Ratings(m)
<1>1. \A m : Counted(m)' = Counted(m)
  BY DEF PutsUnmoved, Counted
<1>2. \A m : Ratings(m)' = Ratings(m)
  BY DEF PutsUnmoved, Ratings
<1>3. Putting' = Putting
  BY DEF PutsUnmoved, Putting
<1>4. \A q \in Puts, m \in Movies : IsPut(q, m)' = IsPut(q, m)
  BY DEF PutsUnmoved, IsPut
<1>5. Allocated'
  BY DEF PutsInv, PutsUnmoved, Allocated
<1>6. SlicesHoldPuts'
  <2>1. ASSUME NEW p \in Puts, NEW m \in Movies, NEW q \in maps'[p][m] PROVE IsPut(q, m)'
    <3>1. q \in Puts /\ IsPut(q, m)
      BY <2>1 DEF PutsInv, PutsUnmoved, SlicesHoldPuts, TypeOK
    <3> QED
      BY <1>4, <3>1
  <2>2. ASSUME NEW p \in Puts, NEW q \in slice'[p]
        PROVE  stage'[q] = "done" /\ movie'[q] = movie'[p]
    <3>1. q \in slice[p] /\ q \in Puts
      BY <2>2 DEF PutsUnmoved, TypeOK
    <3>2. stage[q] = "done" /\ movie[q] = movie[p]
      BY <3>1 DEF PutsInv, SlicesHoldPuts, IsPut
    <3> QED
      BY <3>1, <3>2 DEF PutsUnmoved
  <2>3. \A p \in Puts : stage'[p] = "idle" => slice'[p] = {}
    BY DEF PutsInv, PutsUnmoved, SlicesHoldPuts
  <2> QED
    BY <2>1, <2>2, <2>3 DEF SlicesHoldPuts, IsPut
<1>7. CountedIsSafe'
  <2>1. \A p \in Puts : Safe(p)' = Safe(p)
    BY <1>1 DEF Safe, PutsUnmoved
  <2> QED
    BY <1>1, <1>3, <2>1 DEF PutsInv, CountedIsSafe, Putting
<1>8. Alone'
  BY <1>3 DEF PutsInv, PutsUnmoved, Alone, Putting
<1>9. CountedStays'
  BY <1>1, <1>2 DEF PutsInv, CountedStays
<1> QED
  BY <1>1, <1>2, <1>5, <1>6, <1>7, <1>8, <1>9 DEF PutsInv

(* A step of one put leaves the others where they are. *)
OnlyPut(p) ==
  /\ \A c \in (Puts \cup Gets) \ {p} :
       stage'[c] = stage[c] /\ movie'[c] = movie[c] /\ slice'[c] = slice[c]
  /\ \A q \in Puts \ {p} : target'[q] = target[q]

(* ... and counts nothing new, unless it is the last.  The slices that     *)
(* have been read stay good, as the ratings in them have been put.         *)
LEMMA PutMoves ==
  ASSUME TypeOK, PutsInv, NEW p \in Puts, stage[p] # "done", stage'[p] # "idle", OnlyPut(p),
         stage'[p] # "done", raced \subseteq raced', raced' \subseteq raced \cup Putting \cup {p},
         stage[p] = "idle" \/ movie'[p] = movie[p]
  PROVE  /\ \A m \in Movies : Counted(m)' = Counted(m)
         /\ \A q \in Puts, m \in Movies : IsPut(q, m) => IsPut(q, m)'
         /\ \A c \in (Puts \cup Gets) \ {p} : \A q \in slice'[c] :
              stage'[q] = "done" /\ movie'[q] = movie'[c]
         /\ \A c \in (Puts \cup Gets) \ {p} : stage'[c] = "idle" => slice'[c] = {}
<1>1. \A m \in Movies : Counted(m)' = Counted(m)
  BY DEF Counted, OnlyPut, Putting
<1>2. \A q \in Puts : \A m : IsPut(q, m) => IsPut(q, m)'
  BY DEF IsPut, OnlyPut
<1>3. \A c \in (Puts \cup Gets) \ {p} : \A q \in slice'[c] :
        stage'[q] = "done" /\ movie'[q] = movie'[c]
  <2> SUFFICES ASSUME NEW c \in (Puts \cup Gets) \ {p}, NEW q \in slice'[c]
               PROVE  stage'[q] = "done" /\ movie'[q] = movie'[c]
    OBVIOUS
  <2>1. q \in slice[c] /\ q \in Puts /\ movie'[c] = movie[c]
    BY DEF OnlyPut, TypeOK
  <2>2. stage[q] = "done" /\ movie[q] = movie[c]
    BY <2>1 DEF PutsInv, SlicesHoldPuts, IsPut
  <2>3. q # p
    BY <2>2
  <2> QED
    BY <2>1, <2>2, <2>3 DEF OnlyPut, IsPut
<1>4. \A c \in (Puts \cup Gets) \ {p} : stage'[c] = "idle" => slice'[c] = {}
  BY DEF OnlyPut, PutsInv, SlicesHoldPuts
<1> QED
  BY <1>1, <1>2, <1>3, <1>4

(* What a put that is starting, or past its first check, keeps. *)
LEMMA StartPutInv ==
  ASSUME TypeOK, PutsInv, NEW p \in Puts, NEW m \in Movies, StartPut(p, m)
  PROVE  PutsInv' /\ \A n \in Movies : Counted(n)' = Counted(n)
<1>1. /\ stage[p] = "idle" /\ stage' = [stage EXCEPT ![p] = "check"]
      /\ movie' = [movie EXCEPT ![p] = m]
      /\ UNCHANGED <<inner, maps, target, slice>>
  BY DEF StartPut, Goto, repository
<1>2. raced' = IF Putting = {} THEN raced ELSE raced \cup Putting \cup {p}
  BY DEF StartPut
<1>3. stage'[p] = "check" /\ movie'[p] = m /\ OnlyPut(p)
  BY <1>1 DEF TypeOK, OnlyPut
<1>4. raced \subseteq raced' /\ raced' \subseteq raced \cup Putting \cup {p}
  BY <1>2
<1>5. /\ \A n \in Movies : Counted(n)' = Counted(n)
      /\ \A q \in Puts, n \in Movies : IsPut(q, n) => IsPut(q, n)'
      /\ \A c \in (Puts \cup Gets) \ {p} : \A q \in slice'[c] :
           stage'[q] = "done" /\ movie'[q] = movie'[c]
      /\ \A c \in (Puts \cup Gets) \ {p} : stage'[c] = "idle" => slice'[c] = {}
  BY <1>1, <1>3, <1>4, PutMoves
<1>6. Putting' = Putting \cup {p} /\ p \notin Putting
  BY <1>1, <1>3 DEF Putting, OnlyPut
<1>7. Allocated'
  BY <1>1, <1>3 DEF PutsInv, Allocated, OnlyPut
<1>8. SlicesHoldPuts'
  <2>1. slice'[p] = {}
    BY <1>1 DEF PutsInv, SlicesHoldPuts
  <2>2. ASSUME NEW q \in Puts, NEW n \in Movies, NEW r \in maps'[q][n] PROVE IsPut(r, n)'
    <3>1. r \in Puts /\ IsPut(r, n)
      BY <1>1, <2>2 DEF PutsInv, SlicesHoldPuts, TypeOK
    <3> QED
      BY <1>5, <3>1
  <2> QED
    BY <1>3, <1>5, <2>1, <2>2 DEF SlicesHoldPuts, IsPut
<1>9. CountedIsSafe'
  <2> SUFFICES ASSUME NEW n \in Movies, Counted(n)' # {}, NEW q \in Putting' PROVE Safe(q)'
    BY DEF CountedIsSafe
  <2>1. CASE q = p
    BY <1>3, <2>1 DEF Safe
  <2>2. CASE q # p
    <3>1. Safe(q)
      BY <1>5, <1>6, <2>2 DEF PutsInv, CountedIsSafe
    <3>2. q \in Puts /\ stage'[q] = stage[q] /\ movie'[q] = movie[q]
      BY <1>3, <1>6, <2>2 DEF OnlyPut, Putting
    <3>3. movie[q] \in Movies
      BY <1>6, <2>2 DEF PutsInv, Allocated, Putting
    <3> QED
      BY <1>1, <1>5, <3>1, <3>2, <3>3 DEF Safe
  <2> QED
    BY <2>1, <2>2
<1>10. Alone'
  BY <1>2, <1>3, <1>6 DEF Alone
<1>11. CountedStays'
  BY <1>1, <1>5 DEF PutsInv, CountedStays, Ratings
<1> QED
  BY <1>5, <1>7, <1>8, <1>9, <1>10, <1>11 DEF PutsInv

(* A step of a put that has started and does not end. *)
Proceeds(p) ==
  /\ stage[p] \in {"check", "create", "look", "read"}
  /\ stage'[p] \in {"create", "look", "read", "assign"}
  /\ OnlyPut(p)
  /\ UNCHANGED <<maps, movie, raced>>

LEMMA ProceedsInv ==
  ASSUME TypeOK, PutsInv, NEW p \in Puts, Proceeds(p)
  PROVE  /\ Putting' = Putting /\ p \in Putting
         /\ movie[p] \in Movies /\ movie'[p] = movie[p]
         /\ \A m \in Movies : Counted(m)' = Counted(m)
         /\ (\A q \in slice'[p] : q \in Puts /\ IsPut(q, movie[p])) => SlicesHoldPuts'
         /\ ((\E m \in Movies : Counted(m) # {}) => inner' = inner /\ Safe(p)') => CountedIsSafe'
<1>1. Putting' = Putting /\ p \in Putting
  BY DEF Proceeds, OnlyPut, Putting
<1>2. movie[p] \in Movies /\ movie'[p] = movie[p]
  BY DEF Proceeds, PutsInv, Allocated
<1>3. /\ \A m \in Movies : Counted(m)' = Counted(m)
      /\ \A q \in Puts, m \in Movies : IsPut(q, m) => IsPut(q, m)'
      /\ \A c \in (Puts \cup Gets) \ {p} : \A q \in slice'[c] :
           stage'[q] = "done" /\ movie'[q] = movie'[c]
      /\ \A c \in (Puts \cup Gets) \ {p} : stage'[c] = "idle" => slice'[c] = {}
  <2>1. raced \subseteq raced' /\ raced' \subseteq raced \cup Putting \cup {p}
    BY DEF Proceeds
  <2>2. stage[p] # "done" /\ stage'[p] # "idle" /\ stage'[p] # "done"
    BY DEF Proceeds
  <2> QED
    BY <1>2, <2>1, <2>2, PutMoves DEF Proceeds
<1>4. ASSUME \A q \in slice'[p] : q \in Puts /\ IsPut(q, movie[p]) PROVE SlicesHoldPuts'
  <2>1. \A q \in slice'[p] : stage'[q] = "done" /\ movie'[q] = movie'[p]
    BY <1>2, <1>3, <1>4 DEF IsPut
  <2>2. ASSUME NEW q \in Puts, NEW n \in Movies, NEW r \in maps'[q][n] PROVE IsPut(r, n)'
    <3>1. r \in Puts /\ IsPut(r, n)
      BY <2>2 DEF Proceeds, PutsInv, SlicesHoldPuts, TypeOK
    <3> QED
      BY <1>3, <3>1
  <2>3. stage'[p] # "idle"
    BY DEF Proceeds
  <2> QED
    BY <1>3, <2>1, <2>2, <2>3 DEF SlicesHoldPuts, IsPut
<1>5. ASSUME (\E m \in Movies : Counted(m) # {}) => inner' = inner /\ Safe(p)'
      PROVE  CountedIsSafe'
  <2> SUFFICES ASSUME NEW n \in Movies, Counted(n)' # {}, NEW q \in Putting' PROVE Safe(q)'
    BY DEF CountedIsSafe
  <2>1. Counted(n) # {} /\ q \in Putting
    BY <1>1, <1>3
  <2>2. inner' = inner /\ Safe(p)'
    BY <1>5, <2>1
  <2>3. CASE q # p
    <3>1. Safe(q)
      BY <2>1 DEF PutsInv, CountedIsSafe
    <3>2. /\ q \in Puts /\ stage'[q] = stage[q] /\ movie'[q] = movie[q]
          /\ target'[q] = target[q] /\ slice'[q] = slice[q]
      BY <2>1, <2>3 DEF Proceeds, OnlyPut, Putting
    <3>3. movie[q] \in Movies
      BY <2>1 DEF PutsInv, Allocated, Putting
    <3> QED
      BY <1>3, <2>2, <3>1, <3>2, <3>3 DEF Safe
  <2> QED
    BY <2>2, <2>3
<1> QED
  BY <1>1, <1>2, <1>3, <1>4, <1>5

(* The inner map is there once a rating is counted. *)
LEMMA CountedHasMap ==
  ASSUME PutsInv, NEW m \in Movies, Counted(m) # {}
  PROVE  inner # NoMap
BY DEF PutsInv, CountedStays, Ratings

LEMMA CheckInv ==
  ASSUME TypeOK, PutsInv, NEW p \in Puts, Check(p)
  PROVE  PutsInv' /\ \A n \in Movies : Counted(n)' = Counted(n)
<1>1. /\ stage[p] = "check" /\ UNCHANGED <<inner, maps, movie, target, slice, raced>>
      /\ \/ inner = NoMap /\ stage' = [stage EXCEPT ![p] = "create"]
         \/ inner # NoMap /\ stage' = [stage EXCEPT ![p] = "look"]
  BY DEF Check, Goto, repository, history
<1>2. /\ \/ inner = NoMap /\ stage'[p] = "create"
         \/ inner # NoMap /\ stage'[p] = "look"
      /\ Proceeds(p)
  BY <1>1 DEF TypeOK, Proceeds, OnlyPut
<1>3. SlicesHoldPuts'
  <2>1. \A q \in slice'[p] : q \in Puts /\ IsPut(q, movie[p])
    BY <1>1 DEF PutsInv, SlicesHoldPuts, TypeOK
  <2> QED
    BY <1>2, <2>1, ProceedsInv
<1>4. CountedIsSafe'
  <2>1. (\E m \in Movies : Counted(m) # {}) => stage'[p] = "look"
    BY <1>2, CountedHasMap
  <2> QED
    BY <1>1, <1>2, <2>1, ProceedsInv DEF Safe
<1>5. Allocated'
  BY <1>1, <1>2 DEF PutsInv, Allocated, Proceeds, OnlyPut
<1>6. Alone'
  BY <1>1, <1>2, ProceedsInv DEF PutsInv, Alone, Proceeds, OnlyPut
<1>7. CountedStays'
  BY <1>1, <1>2, ProceedsInv DEF PutsInv, CountedStays, Ratings
<1> QED
  BY <1>2, <1>3, <1>4, <1>5, <1>6, <1>7, ProceedsInv DEF PutsInv

LEMMA CreateInv ==
  ASSUME TypeOK, PutsInv, NEW p \in Puts, Create(p)
  PROVE  PutsInv' /\ \A n \in Movies : Counted(n)' = Counted(n)
<1>1. /\ stage[p] = "create" /\ stage' = [stage EXCEPT ![p] = "look"] /\ inner' = p
      /\ UNCHANGED <<maps, movie, target, slice, raced>>
  BY DEF Create, Goto, history
<1>2. stage'[p] = "look" /\ Proceeds(p)
  BY <1>1 DEF TypeOK, Proceeds, OnlyPut
<1>3. \A m \in Movies : Counted(m) = {}
  BY <1>1, <1>2, ProceedsInv DEF PutsInv, CountedIsSafe, Safe
<1>4. SlicesHoldPuts'
  <2>1. \A q \in slice'[p] : q \in Puts /\ IsPut(q, movie[p])
    BY <1>1 DEF PutsInv, SlicesHoldPuts, TypeOK
  <2> QED
    BY <1>2, <2>1, ProceedsInv
<1>5. CountedIsSafe'
  BY <1>2, <1>3, ProceedsInv
<1>6. Allocated'
  BY <1>1, <1>2 DEF PutsInv, Allocated, Proceeds, OnlyPut
<1>7. Alone'
  BY <1>1, <1>2, ProceedsInv DEF PutsInv, Alone, Proceeds, OnlyPut
<1>8. CountedStays'
  BY <1>2, <1>3, ProceedsInv DEF CountedStays
<1> QED
  BY <1>2, <1>4, <1>5, <1>6, <1>7, <1>8, ProceedsInv DEF PutsInv

LEMMA LookInv ==
  ASSUME TypeOK, PutsInv, NEW p \in Puts, Look(p)
  PROVE  PutsInv' /\ \A n \in Movies : Counted(n)' = Counted(n)
<1>1. /\ stage[p] = "look" /\ stage' = [stage EXCEPT ![p] = "read"]
      /\ target' = [target EXCEPT ![p] = inner]
      /\ UNCHANGED <<inner, maps, movie, slice, raced>>
  BY DEF Look, Goto, repository, history
<1>2. stage'[p] = "read" /\ target'[p] = inner /\ Proceeds(p)
  BY <1>1 DEF TypeOK, Proceeds, OnlyPut
<1>3. SlicesHoldPuts'
  <2>1. \A q \in slice'[p] : q \in Puts /\ IsPut(q, movie[p])
    BY <1>1 DEF PutsInv, SlicesHoldPuts, TypeOK
  <2> QED
    BY <1>2, <2>1, ProceedsInv
<1>4. CountedIsSafe'
  BY <1>1, <1>2, ProceedsInv DEF Safe
<1>5. Allocated'
  BY <1>1, <1>2 DEF PutsInv, Allocated, Proceeds, OnlyPut
<1>6. Alone'
  BY <1>1, <1>2, ProceedsInv DEF PutsInv, Alone, Proceeds, OnlyPut
<1>7. CountedStays'
  BY <1>1, <1>2, ProceedsInv DEF PutsInv, CountedStays, Ratings
<1> QED
  BY <1>2, <1>3, <1>4, <1>5, <1>6, <1>7, ProceedsInv DEF PutsInv

LEMMA ReadInv ==
  ASSUME TypeOK, PutsInv, NEW p \in Puts, Read(p)
  PROVE  PutsInv' /\ \A n \in Movies : Counted(n)' = Counted(n)
<1>1. /\ stage[p] = "read" /\ stage' = [stage EXCEPT ![p] = "assign"]
      /\ slice' = [slice EXCEPT ![p] = Ratings(movie[p])]
      /\ UNCHANGED <<inner, maps, movie, target, raced>>
  BY DEF Read, Goto, repository, history
<1>2. stage'[p] = "assign" /\ slice'[p] = Ratings(movie[p]) /\ Proceeds(p)
  BY <1>1 DEF TypeOK, Proceeds, OnlyPut
<1>3. movie[p] \in Movies /\ inner # NoMap
  BY <1>1 DEF PutsInv, Allocated
<1>4. SlicesHoldPuts'
  <2>1. \A q \in slice'[p] : q \in Puts /\ IsPut(q, movie[p])
    BY <1>2, <1>3 DEF PutsInv, SlicesHoldPuts, TypeOK, Ratings
  <2> QED
    BY <1>2, <2>1, ProceedsInv
<1>5. CountedIsSafe'
  <2>1. Counted(movie[p])' \subseteq slice'[p]
    BY <1>2, <1>3, ProceedsInv DEF PutsInv, CountedStays
  <2>2. (\E m \in Movies : Counted(m) # {}) => target'[p] = inner
    BY <1>1, <1>2, ProceedsInv DEF PutsInv, CountedIsSafe, Safe
  <2> QED
    BY <1>1, <1>2, <2>1, <2>2, ProceedsInv DEF Safe
<1>6. Allocated'
  BY <1>1, <1>2 DEF PutsInv, Allocated, Proceeds, OnlyPut
<1>7. Alone'
  BY <1>1, <1>2, ProceedsInv DEF PutsInv, Alone, Proceeds, OnlyPut
<1>8. CountedStays'
  BY <1>1, <1>2, ProceedsInv DEF PutsInv, CountedStays, Ratings
<1> QED
  BY <1>2, <1>4, <1>5, <1>6, <1>7, <1>8, ProceedsInv DEF PutsInv

(* The last step of a put: it counts, unless it raced.  When anything is   *)
(* counted, the map that is assigned to is the one that is looked in.      *)
LEMMA AssignInv ==
  ASSUME TypeOK, PutsInv, NEW p \in Puts, Assign(p)
  PROVE  PutsInv' /\ \A n \in Movies : Counted(n) \subseteq Counted(n)'
<1>1. /\ stage[p] = "assign" /\ stage' = [stage EXCEPT ![p] = "done"]
      /\ maps' = [maps EXCEPT ![target[p]][movie[p]] = slice[p] \cup {p}]
      /\ UNCHANGED <<inner, movie, target, slice, raced>>
  BY DEF Assign, Goto, history
<1>2. stage'[p] = "done" /\ \A c \in (Puts \cup Gets) \ {p} : stage'[c] = stage[c]
  BY <1>1 DEF TypeOK
<1>3. movie[p] \in Movies /\ target[p] \in Puts /\ inner # NoMap /\ inner \in Puts
  BY <1>1 DEF PutsInv, Allocated, TypeOK
<1>4. maps'[target[p]][movie[p]] = slice[p] \cup {p}
  BY <1>1, <1>3 DEF TypeOK
<1>5. ASSUME NEW q \in Puts, NEW n \in Movies, q # target[p] \/ n # movie[p]
      PROVE  maps'[q][n] = maps[q][n]
  BY <1>1, <1>3, <1>5 DEF TypeOK
<1>6. p \in Putting /\ Putting' = Putting \ {p}
  BY <1>1, <1>2 DEF Putting
<1>7. \A n \in Movies : /\ Counted(n) \subseteq Counted(n)'
                        /\ Counted(n)' \subseteq Counted(n) \cup {p}
                        /\ p \in Counted(n)' => p \notin raced /\ n = movie[p]
                        /\ p \notin Counted(n)
  BY <1>1, <1>2 DEF Counted
<1>8. \A q \in Puts, n \in Movies : IsPut(q, n) => IsPut(q, n)'
  BY <1>1, <1>2 DEF IsPut
<1>9. IsPut(p, movie[p])'
  BY <1>1, <1>2 DEF IsPut
<1>10. Allocated'
  BY <1>1, <1>2 DEF PutsInv, Allocated
<1>11. SlicesHoldPuts'
  <2>1. ASSUME NEW q \in Puts, NEW n \in Movies, NEW r \in maps'[q][n] PROVE IsPut(r, n)'
    <3>1. CASE q = target[p] /\ n = movie[p]
      <4>1. r \in slice[p] \/ r = p
        BY <1>4, <2>1, <3>1
      <4>2. r = p => stage'[r] = "done" /\ movie'[r] = n
        BY <1>1, <1>2, <3>1
      <4>3. r \in slice[p] => stage'[r] = "done" /\ movie'[r] = n
        BY <1>1, <1>2, <3>1 DEF PutsInv, SlicesHoldPuts, TypeOK, IsPut
      <4> QED
        BY <4>1, <4>2, <4>3 DEF IsPut
    <3>2. CASE q # target[p] \/ n # movie[p]
      <4>1. r \in Puts /\ IsPut(r, n)
        BY <1>5, <2>1, <3>2 DEF PutsInv, SlicesHoldPuts, TypeOK
      <4> QED
        BY <1>8, <4>1
    <3> QED
      BY <3>1, <3>2
  <2>2. ASSUME NEW c \in Puts \cup Gets, NEW q \in slice'[c]
        PROVE  stage'[q] = "done" /\ movie'[q] = movie'[c]
    <3>1. q \in Puts /\ stage[q] = "done" /\ movie[q] = movie[c]
      BY <1>1, <2>2 DEF PutsInv, SlicesHoldPuts, TypeOK, IsPut
    <3> QED
      BY <1>1, <1>2, <3>1
  <2>3. \A c \in Puts \cup Gets : stage'[c] = "idle" => slice'[c] = {}
    BY <1>1, <1>2 DEF PutsInv, SlicesHoldPuts
  <2> QED
    BY <2>1, <2>2, <2>3 DEF SlicesHoldPuts, IsPut
<1>12. ASSUME NEW n \in Movies, Counted(n)' # {}
       PROVE  target[p] = inner /\ Counted(movie[p]) \subseteq slice[p]
  <2>1. CASE \E m \in Movies : Counted(m) # {}
    BY <1>1, <1>6, <2>1 DEF PutsInv, CountedIsSafe, Safe
  <2>2. CASE \A m \in Movies : Counted(m) = {}
    <3>1. p \notin raced
      BY <1>7, <1>12, <2>2
    <3>2. target[p] = inner
      BY <1>1, <1>6, <3>1 DEF PutsInv, Alone
    <3> QED
      BY <1>3, <2>2, <3>2
  <2> QED
    BY <2>1, <2>2
<1>13. CountedIsSafe'
  <2> SUFFICES ASSUME NEW n \in Movies, Counted(n)' # {}, NEW q \in Putting' PROVE Safe(q)'
    BY DEF CountedIsSafe
  <2>1. q \in Putting /\ q # p /\ q \in Puts
    BY <1>6 DEF Putting
  <2>2. p \in raced
    BY <1>6, <2>1 DEF PutsInv, Alone
  <2>3. \A m \in Movies : Counted(m)' = Counted(m)
    BY <1>7, <2>2
  <2>4. Safe(q)
    BY <2>1, <2>3 DEF PutsInv, CountedIsSafe
  <2>5. stage'[q] = stage[q] /\ movie[q] \in Movies
    BY <1>2, <2>1 DEF PutsInv, Allocated, Putting
  <2> QED
    BY <1>1, <2>3, <2>4, <2>5 DEF Safe
<1>14. Alone'
  BY <1>1, <1>6 DEF PutsInv, Alone
<1>15. CountedStays'
  <2> SUFFICES ASSUME NEW n \in Movies, NEW q \in Counted(n)' PROVE q \in Ratings(n)'
    BY DEF CountedStays
  <2>1. Ratings(n)' = maps'[inner][n] /\ Ratings(n) = maps[inner][n]
    BY <1>1, <1>3 DEF Ratings
  <2>2. target[p] = inner /\ Counted(movie[p]) \subseteq slice[p]
    BY <1>12
  <2>3. CASE n = movie[p]
    BY <1>4, <1>7, <2>1, <2>2, <2>3
  <2>4. CASE n # movie[p]
    <3>1. q \in Counted(n)
      BY <1>7, <2>4
    <3>2. q \in Ratings(n)
      BY <3>1 DEF PutsInv, CountedStays
    <3> QED
      BY <1>3, <1>5, <2>1, <2>4, <3>2
  <2> QED
    BY <2>3, <2>4
<1> QED
  BY <1>7, <1>10, <1>11, <1>13, <1>14, <1>15 DEF PutsInv

(* Every step keeps what the puts rely on, and what is counted. *)
LEMMA PutsStep ==
  ASSUME TypeOK, PutsInv, GetsFit, [Next]_vars
  PROVE  PutsInv' /\ \A m \in Movies : Counted(m) \subseteq Counted(m)'
<1> USE DEF Goto, Tell, repository, registry, call, history
<1>1. ASSUME UNCHANGED <<inner, maps, call, raced>>
      PROVE  PutsInv' /\ \A m \in Movies : Counted(m) \subseteq Counted(m)'
  <2>1. PutsUnmoved
    BY <1>1 DEF PutsUnmoved
  <2>2. \A g \in Gets : \A q \in slice'[g] : stage'[q] = "done" /\ movie'[q] = movie'[g]
    BY <1>1 DEF PutsInv, SlicesHoldPuts, IsPut
  <2>3. \A g \in Gets : stage'[g] = "idle" => slice'[g] = {}
    BY <1>1 DEF PutsInv, SlicesHoldPuts
  <2> QED
    BY <2>1, <2>2, <2>3, PutsUnmovedInv
<1>2. ASSUME NEW g \in Gets, UNCHANGED <<inner, maps, target, raced>>,
             NEW to \in GetStages \ {"idle"}, stage' = [stage EXCEPT ![g] = to],
             \/ UNCHANGED <<movie, slice>>
             \/ stage[g] = "idle" /\ UNCHANGED slice
                /\ \E m \in Movies : movie' = [movie EXCEPT ![g] = m]
             \/ stage[g] = "record" /\ UNCHANGED movie
                /\ slice' = [slice EXCEPT ![g] = Ratings(movie[g])]
      PROVE  PutsInv' /\ \A m \in Movies : Counted(m) \subseteq Counted(m)'
  <2>1. g \notin Puts
    OBVIOUS
  <2>2. /\ stage'[g] = to
        /\ \A c \in (Puts \cup Gets) \ {g} :
             stage'[c] = stage[c] /\ movie'[c] = movie[c] /\ slice'[c] = slice[c]
    BY <1>2 DEF TypeOK
  <2>3. PutsUnmoved
    BY <1>2, <2>1, <2>2 DEF PutsUnmoved
  <2>4. \A q \in slice'[g] : q \in Puts /\ stage[q] = "done" /\ movie[q] = movie'[g]
    <3>1. CASE UNCHANGED <<movie, slice>>
      BY <3>1 DEF PutsInv, SlicesHoldPuts, IsPut, TypeOK
    <3>2. CASE stage[g] = "idle" /\ UNCHANGED slice
      BY <3>2 DEF PutsInv, SlicesHoldPuts
    <3>3. CASE stage[g] = "record" /\ UNCHANGED movie
               /\ slice' = [slice EXCEPT ![g] = Ratings(movie[g])]
      <4>1. slice'[g] = Ratings(movie[g]) /\ movie[g] \in Movies
        BY <3>3 DEF TypeOK, GetsFit
      <4>2. inner \in Puts => Ratings(movie[g]) = maps[inner][movie[g]]
        BY DEF Ratings
      <4>3. inner \notin Puts => Ratings(movie[g]) = {}
        BY DEF Ratings, TypeOK
      <4> QED
        BY <3>3, <4>1, <4>2, <4>3 DEF PutsInv, SlicesHoldPuts, IsPut, TypeOK
    <3> QED
      BY <1>2, <3>1, <3>2, <3>3
  <2>5. \A h \in Gets : \A q \in slice'[h] : stage'[q] = "done" /\ movie'[q] = movie'[h]
    <3> SUFFICES ASSUME NEW h \in Gets, NEW q \in slice'[h]
                 PROVE  stage'[q] = "done" /\ movie'[q] = movie'[h]
      OBVIOUS
    <3>1. q \in Puts /\ stage[q] = "done" /\ movie[q] = movie'[h]
      <4>1. CASE h = g
        BY <2>4, <4>1
      <4>2. CASE h # g
        BY <2>2, <4>2 DEF PutsInv, SlicesHoldPuts, IsPut, TypeOK
      <4> QED
        BY <4>1, <4>2
    <3> QED
      BY <2>1, <2>2, <3>1
  <2>6. \A h \in Gets : stage'[h] = "idle" => slice'[h] = {}
    BY <1>2, <2>2 DEF PutsInv, SlicesHoldPuts
  <2> QED
    BY <2>3, <2>5, <2>6, PutsUnmovedInv
<1>3. ASSUME NEW s \in Services,
             Register(s) \/ Deregister(s) \/ ReportHealthyState(s) \/ FallSilent(s)
      PROVE  UNCHANGED <<inner, maps, call, raced>>
  BY <1>3 DEF Register, Deregister, ReportHealthyState, FallSilent
<1>4. ASSUME NEW m \in Movies, PutMetadata(m) PROVE UNCHANGED <<inner, maps, call, raced>>
  BY <1>4 DEF PutMetadata
<1>5. ASSUME NEW p \in Puts, PutRating(p)
      PROVE  PutsInv' /\ \A m \in Movies : Counted(m) \subseteq Counted(m)'
  BY <1>5, CheckInv, CreateInv, LookInv, ReadInv, AssignInv DEF PutRating
<1>6. ASSUME NEW p \in Puts, NEW m \in Movies, StartPut(p, m)
      PROVE  PutsInv' /\ \A n \in Movies : Counted(n) \subseteq Counted(n)'
  BY <1>6, StartPutInv
<1>7. ASSUME NEW g \in Gets, NEW m \in Movies, Ask(g, m)
      PROVE  PutsInv' /\ \A n \in Movies : Counted(n) \subseteq Counted(n)'
  BY <1>2, <1>7 DEF Ask, GetStages
<1>8. ASSUME NEW g \in Gets, Unresolved(g) \/ GetMetadata(g) \/ GetRating(g) \/ GetType(g)
      PROVE  PutsInv' /\ \A m \in Movies : Counted(m) \subseteq Counted(m)'
  BY <1>2, <1>8 DEF Unresolved, GetMetadata, GetRating, GetType, GetStages
<1>9. ASSUME NEW g \in Gets, GetRecord(g)
      PROVE  PutsInv' /\ \A m \in Movies : Counted(m) \subseteq Counted(m)'
  BY <1>2, <1>9 DEF GetRecord, GetStages
<1>10. ASSUME NEW g \in Gets, NoAddress(g) PROVE UNCHANGED <<inner, maps, call, raced>>
  BY <1>10 DEF NoAddress
<1>11. CASE ConcurrentMapAccess \/ UNCHANGED vars
  BY <1>1, <1>11 DEF ConcurrentMapAccess, vars
<1> QED
  BY <1>1, <1>3, <1>4, <1>5, <1>6, <1>7, <1>8, <1>9, <1>10, <1>11 DEF Next, GetMovieDetails

-----------------------------------------------------------------------------
(* One get at a time: what GetsFit and GetsSeeCounted say of it. *)
Fits(g) ==
  /\ stage[g] # "done" => code[g] = "none"
  /\ stage[g] = "idle" => atStart[g].rated = {}
  /\ stage[g] # "idle" => movie[g] \in Movies
  /\ atStart[g].rated \subseteq Counted(movie[g])
  /\ atStart[g].stored => movie[g] \in stored

Sees(g) ==
  /\ code[g] = "OK" => atStart[g].rated \subseteq slice[g]
  /\ code[g] = "Internal" =>
       g \in unresolved \/ ~ atStart[g].stored \/ atStart[g].rated = {}

(* A get that the step leaves alone. *)
LEMMA GetUnmoved ==
  ASSUME TypeOK, NEW g \in Gets, Fits(g), Sees(g),
         stage'[g] = stage[g], movie'[g] = movie[g], slice'[g] = slice[g], code'[g] = code[g],
         atStart'[g] = atStart[g], unresolved \subseteq unresolved', stored \subseteq stored',
         \A m \in Movies : Counted(m) \subseteq Counted(m)'
  PROVE  Fits(g)' /\ Sees(g)'
<1>1. CASE stage[g] = "idle"
  BY <1>1 DEF Fits, Sees
<1>2. CASE stage[g] # "idle"
  <2>1. movie[g] \in Movies
    BY <1>2 DEF Fits
  <2>2. Counted(movie[g]) \subseteq {p \in Puts \ raced' : stage'[p] = "done" /\ movie'[p] = movie[g]}
    BY <2>1 DEF Counted
  <2> QED
    BY <1>2, <2>1, <2>2 DEF Fits, Sees, Counted
<1> QED
  BY <1>1, <1>2

(* Every step keeps what a get has seen. *)
LEMMA GetsStep ==
  ASSUME TypeOK, PutsInv, GetsFit, GetsSeeCounted, [Next]_vars, PutsInv',
         \A m \in Movies : Counted(m) \subseteq Counted(m)'
  PROVE  GetsFit' /\ GetsSeeCounted'
<1> USE DEF Goto, Tell, repository, registry, call, history
<1>1. \A g \in Gets : Fits(g) /\ Sees(g)
  BY DEF GetsFit, GetsSeeCounted, Fits, Sees
<1>2. SUFFICES ASSUME NEW g \in Gets PROVE Fits(g)' /\ Sees(g)'
  <2>1. ASSUME NEW g \in Gets, NEW p \in slice'[g] PROVE movie'[p] = movie'[g]
    BY <2>1 DEF PutsInv, SlicesHoldPuts, IsPut
  <2> QED
    BY <1>2, <2>1 DEF GetsFit, GetsSeeCounted, Fits, Sees
<1>3. Fits(g) /\ Sees(g) /\ g \notin Puts
  BY <1>1
<1>4. ASSUME UNCHANGED <<stage, movie, slice, code, atStart, unresolved>>, stored \subseteq stored'
      PROVE  Fits(g)' /\ Sees(g)'
  BY <1>3, <1>4, GetUnmoved
<1>5. ASSUME NEW s \in Services,
             Register(s) \/ Deregister(s) \/ ReportHealthyState(s) \/ FallSilent(s)
      PROVE  Fits(g)' /\ Sees(g)'
  BY <1>4, <1>5 DEF Register, Deregister, ReportHealthyState, FallSilent
<1>6. ASSUME NEW m \in Movies, PutMetadata(m) PROVE Fits(g)' /\ Sees(g)'
  BY <1>4, <1>6 DEF PutMetadata
<1>7. ASSUME NEW p \in Puts, PutRating(p) \/ \E m \in Movies : StartPut(p, m)
      PROVE  Fits(g)' /\ Sees(g)'
  <2>1. UNCHANGED <<code, atStart, unresolved, stored>>
    BY <1>7 DEF PutRating, Check, Create, Look, Read, Assign, StartPut
  <2>2. stage'[g] = stage[g] /\ movie'[g] = movie[g] /\ slice'[g] = slice[g]
    BY <1>3, <1>7 DEF PutRating, Check, Create, Look, Read, Assign, StartPut, TypeOK
  <2> QED
    BY <1>3, <2>1, <2>2, GetUnmoved
<1>8. ASSUME NEW h \in Gets \ {g}, GetMovieDetails(h) \/ \E m \in Movies : Ask(h, m)
      PROVE  Fits(g)' /\ Sees(g)'
  <2>1. stored \subseteq stored' /\ unresolved \subseteq unresolved'
    BY <1>8 DEF GetMovieDetails, Unresolved, NoAddress, GetMetadata, GetRating, GetType,
                GetRecord, Ask
  <2>2. stage'[g] = stage[g] /\ movie'[g] = movie[g] /\ slice'[g] = slice[g]
    BY <1>8 DEF GetMovieDetails, Unresolved, NoAddress, GetMetadata, GetRating, GetType,
                GetRecord, Ask, TypeOK
  <2>3. code'[g] = code[g] /\ atStart'[g] = atStart[g]
    BY <1>8 DEF GetMovieDetails, Unresolved, NoAddress, GetMetadata, GetRating, GetType,
                GetRecord, Ask, TypeOK
  <2> QED
    BY <1>3, <2>1, <2>2, <2>3, GetUnmoved
<1>9. ASSUME NEW m \in Movies, Ask(g, m) PROVE Fits(g)' /\ Sees(g)'
  <2>1. /\ stage[g] = "idle" /\ stage'[g] = "metadata" /\ movie'[g] = m /\ code'[g] = "none"
        /\ stored' = stored
    BY <1>3, <1>9 DEF Ask, TypeOK, Fits
  <2>2. atStart'[g] = [stored |-> m \in stored, rated |-> Counted(m)]
    BY <1>9 DEF Ask, TypeOK
  <2>3. Counted(m) \subseteq {p \in Puts \ raced' : stage'[p] = "done" /\ movie'[p] = m}
    BY DEF Counted
  <2>4. atStart'[g].rated \subseteq {p \in Puts \ raced' : stage'[p] = "done" /\ movie'[p] = m}
    BY <2>2, <2>3
  <2>5. atStart'[g].stored => m \in stored'
    <3>1. CASE m \in stored
      BY <2>1, <3>1
    <3>2. CASE m \notin stored
      <4>1. atStart'[g] = [stored |-> FALSE, rated |-> Counted(m)]
        <5>1. (m \in stored) = FALSE
          BY <3>2
        <5> QED
          BY <2>2, <5>1, Zenon
      <4> QED
        BY <4>1
    <3> QED
      BY <3>1, <3>2
  <2>6. Fits(g)'
    BY <2>1, <2>4, <2>5 DEF Fits, Counted
  <2> QED
    BY <2>1, <2>6 DEF Sees
<1>10. ASSUME UNCHANGED <<movie, atStart, stored, raced>>, unresolved \subseteq unresolved',
              stage[g] # "idle", stage'[g] # "idle",
              \/ stage'[g] # "done" /\ code' = code /\ code[g] = "none"
              \/ /\ stage'[g] = "done" /\ code'[g] = "Internal"
                 /\ g \in unresolved' \/ ~ atStart[g].stored \/ atStart[g].rated = {}
              \/ /\ stage'[g] = "done" /\ code'[g] = "OK"
                 /\ atStart[g].rated \subseteq slice'[g]
       PROVE  Fits(g)' /\ Sees(g)'
  <2>1. movie[g] \in Movies
    BY <1>3, <1>10 DEF Fits
  <2>2. Counted(movie[g]) \subseteq {p \in Puts \ raced' : stage'[p] = "done" /\ movie'[p] = movie[g]}
    BY <2>1 DEF Counted
  <2>3. Fits(g)'
    BY <1>3, <1>10, <2>1, <2>2 DEF Fits, Counted
  <2> QED
    BY <1>10, <2>3 DEF Sees
<1>11. CASE Unresolved(g)
  BY <1>10, <1>11 DEF Unresolved, TypeOK, Services
<1>12. CASE NoAddress(g)
  BY <1>4, <1>12 DEF NoAddress
<1>13. CASE GetMetadata(g) \/ GetRating(g)
  BY <1>3, <1>10, <1>13 DEF GetMetadata, GetRating, TypeOK, Fits
<1>14. CASE GetType(g)
  <2>1. movie[g] \in Movies
    BY <1>3, <1>14 DEF GetType, Fits
  <2>2. inner = NoMap => atStart[g].rated = {}
    BY <1>3, <2>1, CountedHasMap DEF Fits
  <2> QED
    BY <1>3, <1>10, <1>14, <2>2 DEF GetType, TypeOK, Fits
<1>15. CASE GetRecord(g)
  <2>1. movie[g] \in Movies
    BY <1>3, <1>15 DEF GetRecord, Fits
  <2>2. atStart[g].rated \subseteq Ratings(movie[g])
    BY <1>3, <2>1 DEF Fits, PutsInv, CountedStays
  <2>3. slice'[g] = Ratings(movie[g])
    BY <1>15 DEF GetRecord, TypeOK
  <2> QED
    BY <1>10, <1>15, <2>2, <2>3 DEF GetRecord, TypeOK
<1>16. CASE ConcurrentMapAccess \/ UNCHANGED vars
  BY <1>4, <1>16 DEF ConcurrentMapAccess, vars
<1> QED
  <2>1. ASSUME NEW h \in Gets, GetMovieDetails(h) PROVE Fits(g)' /\ Sees(g)'
    BY <1>8, <1>11, <1>12, <1>13, <1>14, <1>15, <2>1 DEF GetMovieDetails
  <2>2. ASSUME NEW h \in Gets, NEW m \in Movies, Ask(h, m) PROVE Fits(g)' /\ Sees(g)'
    BY <1>8, <1>9, <2>2
  <2> QED
    BY <1>5, <1>6, <1>7, <1>16, <2>1, <2>2 DEF Next

-----------------------------------------------------------------------------
LEMMA Invariance == IInv /\ [Next]_vars => IInv'
<1> SUFFICES ASSUME IInv, [Next]_vars PROVE IInv'
  OBVIOUS
<1>1. TypeOK /\ PutsInv /\ GetsFit /\ GetsSeeCounted
  BY DEF IInv, PutsInv
<1>2. TypeOK'
  BY <1>1, TypeStep DEF PutsInv
<1>3. PutsInv' /\ \A m \in Movies : Counted(m) \subseteq Counted(m)'
  BY <1>1, PutsStep
<1>4. GetsFit' /\ GetsSeeCounted'
  BY <1>1, <1>3, GetsStep
<1> QED
  BY <1>2, <1>3, <1>4 DEF IInv, PutsInv

(* Every reachable state has the types of TypeOK. *)
THEOREM TypeCorrect == Spec => []TypeOK
<1>1. IInv => TypeOK
  BY DEF IInv
<1> QED
  BY InitInv, Invariance, <1>1, PTL DEF Spec

(* A rating put while no other put was under way is never lost, for any    *)
(* number of calls and movies and any races after it.                      *)
THEOREM CountedRatingsStay == Spec => []CountedStays
<1>1. IInv => CountedStays
  BY DEF IInv
<1> QED
  BY InitInv, Invariance, <1>1, PTL DEF Spec

(* A get sees every counted rating from before it, ratings of its movie    *)
(* only, and fails only for a reason.                                      *)
THEOREM GetsAreCorrect == Spec => []GetsSeeCounted
<1>1. IInv => GetsSeeCounted
  BY DEF IInv
<1> QED
  BY InitInv, Invariance, <1>1, PTL DEF Spec

(* Puts that never overlap lose no rating and make up none; those that do  *)
(* overlap can only lose.                                                  *)
THEOREM RatingsAreExact == Spec => []RatingsArePuts
<1>1. IInv => RatingsArePuts
  <2> SUFFICES ASSUME IInv, NEW m \in Movies
               PROVE  /\ Ratings(m) \subseteq {p \in Puts : IsPut(p, m)}
                      /\ raced = {} => Ratings(m) = {p \in Puts : IsPut(p, m)}
    BY DEF RatingsArePuts
  <2>1. Ratings(m) \subseteq {p \in Puts : IsPut(p, m)}
    BY RatingsType DEF IInv, TypeOK, SlicesHoldPuts, Ratings
  <2>2. raced = {} => {p \in Puts : IsPut(p, m)} \subseteq Ratings(m)
    BY DEF IInv, CountedStays, Counted, IsPut
  <2> QED
    BY <2>1, <2>2
<1> QED
  BY InitInv, Invariance, <1>1, PTL DEF Spec
=============================================================================
