------------------------- MODULE MovieDetailsProofs -------------------------
(***************************************************************************)
(* Theorems about module MovieDetails, for any requests, movies, users and *)
(* ratings.  The invariant IInv of that module is inductive; the three     *)
(* invariants the run checks follow from it.                               *)
(***************************************************************************)
EXTENDS MovieDetails, TLAPS

USE NothingAssumption, AttemptsAssumption, MaxFaultsAssumption

(* Rows that were read for a movie are rows it still has: a rating, once   *)
(* given, is never replaced.                                               *)
LEMMA RowsStay ==
  ASSUME TypeOK, NEW m \in Movies, NEW u \in Users, NEW v \in Values,
         PutRating(m, u, v) \/ HttpPutRating(m, u, v),
         NEW n \in Movies
  PROVE  /\ Raters(n) \subseteq Raters(n)'
         /\ \A U \in SUBSET Raters(n) : Rows(n, U) = Rows(n, U)'
<1>1. \A w \in Users : ratings[n][w] # NoRating => ratings'[n][w] = ratings[n][w]
  BY DEF PutRating, HttpPutRating, TypeOK
<1> QED
  BY <1>1 DEF Raters, Rows

(* Initially no request has begun and both tables are empty. *)
LEMMA InitInv == Init => IInv
BY DEF Init, IInv, TypeOK, Replies, RequestsFit, Fits, Asking, FailsForAReason, NoReply

(* Every step keeps the types. *)
LEMMA TypeStep == TypeOK /\ RequestsFit /\ [Next]_vars => TypeOK'
<1> SUFFICES ASSUME TypeOK, RequestsFit, [Next]_vars PROVE TypeOK'
  OBVIOUS
<1> USE DEF TypeOK, Replies, Goto, Tell, InjectFault, tables, asked, requests, history
<1>1. ASSUME NEW m \in Movies \cup {NoMovie}, PutMetadata(m) \/ HttpPutMetadata(m) PROVE TypeOK'
  BY <1>1 DEF PutMetadata, HttpPutMetadata
<1>2. ASSUME NEW m \in Movies, NEW u \in Users, NEW v \in Values,
             PutRating(m, u, v) \/ HttpPutRating(m, u, v)
      PROVE  TypeOK'
  <2>1. ratings' = [ratings EXCEPT ![m][u] = v] /\ UNCHANGED <<stored, requests, faults, history>>
    BY <1>2 DEF PutRating, HttpPutRating
  <2> QED
    BY <2>1
<1>3. ASSUME NEW r \in Requests, Ask(r) PROVE TypeOK'
  <2>1. PICK m \in Movies :
          /\ movie' = [movie EXCEPT ![r] = m]
          /\ atStart' = [atStart EXCEPT ![r] = [stored |-> stored, raters |-> Raters(m)]]
    BY <1>3 DEF Ask
  <2>2. [stored |-> stored, raters |-> Raters(m)]
          \in [stored : SUBSET (Movies \cup {NoMovie}), raters : SUBSET Users]
    BY DEF Raters
  <2>3. reply' = reply /\ read' = read
    BY <1>3 DEF Ask
  <2>4. \A s \in Requests : reply'[s] \in Replies(s)'
    BY <2>3
  <2> QED
    BY <1>3, <2>1, <2>2, <2>3, <2>4 DEF Ask
<1>4. ASSUME NEW r \in Requests,
             AskNothing(r) \/ Limited(r) \/ MetadataFound(r) \/ MetadataMissing(r) \/ HttpMetadataMissing(r)
      PROVE  TypeOK'
  BY <1>4 DEF AskNothing, Limited, MetadataFound, MetadataMissing, HttpMetadataMissing
<1>5. ASSUME NEW r \in Requests, MetadataUnavailable(r) PROVE TypeOK'
  <2>1. attempts[r] + 1 \in 0 .. MaxAttempts
    BY <1>5 DEF MetadataUnavailable, RequestsFit, Fits
  <2>2. attempts' \in [Requests -> 0 .. MaxAttempts]
    BY <1>5, <2>1 DEF MetadataUnavailable
  <2> QED
    BY <1>5, <2>2 DEF MetadataUnavailable
<1>6. ASSUME NEW r \in Requests, MetadataFails(r) \/ RatingFails(r) \/ HttpRatingUnread(r)
      PROVE  TypeOK'
  <2>1. faults' \in 0 .. MaxFaults
    BY <1>6 DEF MetadataFails, RatingFails, HttpRatingUnread
  <2>2. /\ stage' = [stage EXCEPT ![r] = "done"]
        /\ \/ reply' = [reply EXCEPT ![r] = Internal]
           \/ reply' = [reply EXCEPT ![r] = Unread]
    BY <1>6 DEF MetadataFails, RatingFails, HttpRatingUnread
  <2>3. UNCHANGED <<stored, ratings, movie, over, attempts, read, atStart, partial>>
    BY <1>6 DEF MetadataFails, RatingFails, HttpRatingUnread
  <2>4. failed' \in SUBSET Requests
    BY <1>6 DEF MetadataFails, RatingFails, HttpRatingUnread
  <2> QED
    BY <2>1, <2>2, <2>3, <2>4
<1>7. ASSUME NEW r \in Requests, ReadRatings(r) \/ ReadSomeRatings(r) PROVE TypeOK'
  <2>1. \A U \in SUBSET Raters(movie[r]) : Rows(movie[r], U) \in SUBSET (Users \X Values)
    <3>1. movie[r] \in Movies
      BY <1>7 DEF ReadRatings, ReadSomeRatings, RequestsFit, Fits, Asking
    <3> QED
      BY <3>1 DEF Rows, Raters
  <2>2. \A s \in Requests : s # r => read'[s] = read[s]
    BY <1>7 DEF ReadRatings, ReadSomeRatings
  <2>3. reply[r] \in {NoReply, Refused, Exhausted, NotFound, Internal}
    <3>1. reply[r].code = "none"
      BY <1>7 DEF ReadRatings, ReadSomeRatings, RequestsFit, Fits, Asking
    <3> QED
      BY <3>1 DEF Details, Unread
  <2>4. \A s \in Requests : reply'[s] \in Replies(s)'
    BY <1>7, <2>2, <2>3 DEF ReadRatings, ReadSomeRatings
  <2>5. read' \in [Requests -> SUBSET (Users \X Values)]
    <3>1. PICK U \in SUBSET Raters(movie[r]) : read' = [read EXCEPT ![r] = Rows(movie[r], U)]
      BY <1>7 DEF ReadRatings, ReadSomeRatings
    <3> QED
      BY <2>1, <3>1
  <2>6. faults' \in 0 .. MaxFaults /\ partial' \in SUBSET Requests
    BY <1>7 DEF ReadRatings, ReadSomeRatings
  <2>7. stage' = [stage EXCEPT ![r] = "mean"]
        /\ UNCHANGED <<stored, ratings, movie, over, attempts, reply, atStart, failed>>
    BY <1>7 DEF ReadRatings, ReadSomeRatings
  <2> QED
    BY <2>4, <2>5, <2>6, <2>7
<1>8. ASSUME NEW r \in Requests, Answer(r) \/ HttpAnswer(r) PROVE TypeOK'
  BY <1>8 DEF Answer, HttpAnswer
<1>9. CASE UNCHANGED vars
  BY <1>9 DEF vars
<1> QED
  BY <1>1, <1>2, <1>3, <1>4, <1>5, <1>6, <1>7, <1>8, <1>9 DEF Next, GetMovieDetails

(* A step of one request leaves the tables and the other requests alone.   *)
Unmoved(s) ==
  /\ stage'[s] = stage[s] /\ movie'[s] = movie[s] /\ over'[s] = over[s]
  /\ attempts'[s] = attempts[s]
  /\ read'[s] = read[s] /\ reply'[s] = reply[s] /\ atStart'[s] = atStart[s]
  /\ s \in partial' <=> s \in partial
  /\ s \in failed' <=> s \in failed

LEMMA OthersUnmoved ==
  ASSUME TypeOK, NEW r \in Requests, Ask(r) \/ AskNothing(r) \/ Limited(r) \/ GetMovieDetails(r)
  PROVE  /\ UNCHANGED <<stored, ratings>>
         /\ \A s \in Requests : s # r => Unmoved(s)
<1> USE DEF TypeOK, Goto, Tell, tables, asked, requests, history, Unmoved
<1>1. CASE Ask(r)
  BY <1>1 DEF Ask
<1>2. CASE AskNothing(r) \/ Limited(r)
  BY <1>2 DEF AskNothing, Limited
<1>3. CASE MetadataFound(r) \/ MetadataMissing(r) \/ HttpMetadataMissing(r)
  BY <1>3 DEF MetadataFound, MetadataMissing, HttpMetadataMissing
<1>4. CASE MetadataUnavailable(r)
  BY <1>4 DEF MetadataUnavailable
<1>5. CASE MetadataFails(r) \/ RatingFails(r) \/ HttpRatingUnread(r)
  BY <1>5 DEF MetadataFails, RatingFails, HttpRatingUnread
<1>6. CASE ReadRatings(r) \/ Answer(r) \/ HttpAnswer(r)
  BY <1>6 DEF ReadRatings, Answer, HttpAnswer
<1>7. CASE ReadSomeRatings(r)
  BY <1>7 DEF ReadSomeRatings
<1> QED
  BY <1>1, <1>2, <1>3, <1>4, <1>5, <1>6, <1>7 DEF GetMovieDetails

LEMMA UnmovedFits ==
  ASSUME NEW s \in Requests, Fits(s), Unmoved(s), stored \subseteq stored', ratings' = ratings
  PROVE  Fits(s)'
<1>1. Raters(movie[s])' = Raters(movie[s])
  BY DEF Raters, Unmoved
<1>2. RowsFit(s)' <=> RowsFit(s)
  BY <1>1 DEF RowsFit, Rows, Unmoved
<1>3. Asking(s)' <=> Asking(s)
  BY <1>1 DEF Asking, Unmoved
<1>4. Details(read[s])' = Details(read[s])
  BY DEF Unmoved
<1> QED
  BY <1>2, <1>3, <1>4 DEF Fits, Unmoved

(* Every step keeps what the requests rely on: the tables grow under them, *)
(* and each request moves by itself.                                       *)
LEMMA RequestStep == TypeOK /\ RequestsFit /\ [Next]_vars => RequestsFit'
<1> SUFFICES ASSUME TypeOK, RequestsFit, [Next]_vars PROVE RequestsFit'
  OBVIOUS
<1> USE DEF RequestsFit
<1>1. ASSUME NEW m \in Movies \cup {NoMovie}, PutMetadata(m) \/ HttpPutMetadata(m)
      PROVE  RequestsFit'
  <2>1. \A s \in Requests : Unmoved(s)
    BY <1>1 DEF PutMetadata, HttpPutMetadata, Unmoved, requests, history
  <2> QED
    BY <1>1, <2>1, UnmovedFits DEF PutMetadata, HttpPutMetadata
<1>2. ASSUME NEW m \in Movies, NEW u \in Users, NEW v \in Values,
             PutRating(m, u, v) \/ HttpPutRating(m, u, v)
      PROVE  RequestsFit'
  <2>1. \A n \in Movies : /\ Raters(n) \subseteq Raters(n)'
                          /\ \A U \in SUBSET Raters(n) : Rows(n, U) = Rows(n, U)'
    BY <1>2, RowsStay
  <2>2. UNCHANGED <<stored, stage, movie, attempts, read, reply, atStart, failed, partial>>
    BY <1>2 DEF PutRating, HttpPutRating, requests, history
  <2>3. ASSUME NEW s \in Requests, movie[s] \in Movies, RowsFit(s) PROVE RowsFit(s)'
    BY <2>1, <2>2, <2>3 DEF RowsFit
  <2>4. ASSUME NEW s \in Requests, Asking(s) PROVE Asking(s)'
    BY <2>1, <2>2, <2>4 DEF Asking
  <2>5. \A s \in Requests : Details(read[s])' = Details(read[s])
    BY <2>2
  <2>6. \A s \in Requests : Asking(s) => movie[s] \in Movies
    BY DEF Asking
  <2> QED
    BY <2>2, <2>3, <2>4, <2>5, <2>6 DEF Fits
<1>3. ASSUME NEW r \in Requests, Ask(r) \/ AskNothing(r) \/ Limited(r) \/ GetMovieDetails(r)
      PROVE  RequestsFit'
  <2>1. UNCHANGED <<stored, ratings>> /\ \A s \in Requests : s # r => Unmoved(s)
    BY <1>3, OthersUnmoved
  <2>2. \A s \in Requests : s # r => Fits(s)'
    BY <2>1, UnmovedFits
  <2>3. Fits(r)
    OBVIOUS
  <2>4. \A m \in Movies : Raters(m)' = Raters(m) /\ \A U : Rows(m, U)' = Rows(m, U)
    BY <2>1 DEF Raters, Rows
  <2>5. \A rows : Details(rows).code = "OK"
    BY DEF Details
  <2> USE DEF Fits, Goto, Tell, InjectFault, TypeOK, tables, asked, requests, history
  <2>6. CASE Ask(r)
    <3>1. PICK m \in Movies :
            /\ movie' = [movie EXCEPT ![r] = m]
            /\ atStart' = [atStart EXCEPT ![r] = [stored |-> stored, raters |-> Raters(m)]]
      BY <2>6 DEF Ask
    <3>2. movie'[r] = m /\ atStart'[r].stored = stored /\ atStart'[r].raters = Raters(m)
      BY <3>1
    <3>3. stage'[r] = "metadata" /\ reply'[r].code = "none" /\ attempts'[r] < MaxAttempts
      BY <2>3, <2>6 DEF Ask
    <3>4. Raters(movie[r])' = Raters(m)
      BY <2>4, <3>2
    <3>5. Asking(r)'
      BY <3>2, <3>3, <3>4 DEF Asking
    <3> QED
      BY <2>1, <2>2, <3>2, <3>3, <3>5
  <2>7. CASE \/ AskNothing(r) \/ Limited(r) \/ MetadataMissing(r) \/ HttpMetadataMissing(r)
             \/ MetadataFails(r) \/ RatingFails(r)
    <3>1. stage'[r] = "done" /\ reply'[r].code # "OK" /\ atStart'[r] = atStart[r]
      BY <2>7 DEF AskNothing, Limited, MetadataMissing, HttpMetadataMissing, MetadataFails, RatingFails,
                  Refused, Exhausted, NotFound, Internal
    <3> QED
      BY <2>1, <2>2, <2>3, <3>1
  <2>8. CASE MetadataFound(r)
    <3>1. /\ stage'[r] = "rating" /\ movie[r] \in stored
          /\ UNCHANGED <<movie, attempts, read, reply, atStart, failed, partial>>
      BY <2>8 DEF MetadataFound, Stored
    <3>2. Asking(r)
      BY <2>3, <2>8 DEF MetadataFound
    <3>3. Asking(r)'
      BY <2>4, <3>1, <3>2 DEF Asking
    <3> QED
      BY <2>1, <2>2, <2>3, <3>1, <3>2, <3>3 DEF Asking
  <2>9. CASE MetadataUnavailable(r)
    <3>1. Asking(r) /\ UNCHANGED <<movie, read, atStart, failed, partial>>
      BY <2>3, <2>9 DEF MetadataUnavailable
    <3>2. CASE stage' = stage /\ reply' = reply
      <4>1. stage[r] = "metadata" /\ attempts'[r] < MaxAttempts
        BY <2>9, <3>2 DEF MetadataUnavailable
      <4>2. Asking(r)'
        BY <2>4, <3>1, <3>2 DEF Asking
      <4> QED
        BY <2>1, <2>2, <2>3, <3>1, <3>2, <4>1, <4>2 DEF Asking
    <3>3. CASE Tell(r, Internal)
      BY <2>1, <2>2, <2>3, <3>1, <3>3 DEF Internal
    <3> QED
      BY <2>9, <3>2, <3>3 DEF MetadataUnavailable
  <2>10. CASE ReadRatings(r)
    <3>1. /\ stage'[r] = "mean" /\ read'[r] = Rows(movie[r], Raters(movie[r]))
          /\ UNCHANGED <<movie, attempts, reply, atStart, failed, partial>>
      BY <2>10 DEF ReadRatings
    <3>2. Asking(r) /\ movie[r] \in stored
      BY <2>3, <2>10 DEF ReadRatings
    <3>3. Asking(r)'
      BY <2>4, <3>1, <3>2 DEF Asking
    <3>4. RowsFit(r)'
      BY <2>4, <3>1, <3>2 DEF RowsFit, Asking
    <3> QED
      BY <2>1, <2>2, <2>3, <3>1, <3>2, <3>3, <3>4 DEF Asking
  <2>11. CASE ReadSomeRatings(r)
    <3>1. /\ stage'[r] = "mean" /\ r \in partial'
          /\ UNCHANGED <<movie, attempts, reply, atStart, failed>>
      BY <2>11 DEF ReadSomeRatings
    <3>2. Asking(r) /\ movie[r] \in stored
      BY <2>3, <2>11 DEF ReadSomeRatings
    <3>3. Asking(r)'
      BY <2>4, <3>1, <3>2 DEF Asking
    <3> QED
      BY <2>1, <2>2, <2>3, <3>1, <3>2, <3>3 DEF Asking
  <2>12. CASE Answer(r) \/ HttpAnswer(r)
    <3>1. /\ stage'[r] = "done" /\ UNCHANGED <<movie, attempts, read, atStart, failed, partial>>
          /\ \/ reply'[r] = Details(read[r]) /\ reply'[r] = Details(read[r])'
             \/ reply'[r] = Internal
      BY <2>12 DEF Answer, HttpAnswer
    <3>2. /\ movie[r] \in Movies /\ movie[r] \in stored
          /\ r \notin partial \cup failed => RowsFit(r)
      BY <2>3, <2>12 DEF Answer, HttpAnswer, Asking
    <3>3. RowsFit(r) => RowsFit(r)'
      BY <2>4, <3>1, <3>2 DEF RowsFit
    <3>4. Internal.code # "OK"
      BY DEF Internal
    <3> QED
      BY <2>1, <2>2, <2>3, <3>1, <3>2, <3>3, <3>4
  <2>13. CASE HttpRatingUnread(r)
    <3>1. /\ stage'[r] = "done" /\ r \in failed' /\ UNCHANGED <<movie, atStart>>
          /\ movie[r] \in Movies /\ movie[r] \in stored
      BY <2>3, <2>13 DEF HttpRatingUnread, Asking
    <3> QED
      BY <2>1, <2>2, <2>3, <3>1
  <2> QED
    BY <1>3, <2>6, <2>7, <2>8, <2>9, <2>10, <2>11, <2>12, <2>13 DEF GetMovieDetails
<1>4. CASE UNCHANGED vars
  <2>1. \A s \in Requests : Unmoved(s)
    BY <1>4 DEF vars, Unmoved
  <2> QED
    BY <1>4, <2>1, UnmovedFits DEF vars
<1> QED
  BY <1>1, <1>2, <1>3, <1>4 DEF Next

(* A request turns to an error because its movie is missing, now and hence *)
(* at its start, because no rating was read, because its attempts are used *)
(* up, or because of a fault.                                              *)
Excused(r) ==
  reply[r].code \in {"NotFound", "Internal"} =>
    \/ movie[r] \notin atStart[r].stored
    \/ over[r] = "http" /\ atStart[r].raters = {}
    \/ r \in failed \cup partial
    \/ attempts[r] = MaxAttempts

LEMMA FailsStep == TypeOK /\ RequestsFit /\ FailsForAReason /\ [Next]_vars => FailsForAReason'
<1> SUFFICES ASSUME TypeOK, RequestsFit, FailsForAReason, [Next]_vars
             PROVE  \A s \in Requests : Excused(s)'
  BY DEF FailsForAReason, Excused
<1>1. \A s \in Requests : Excused(s) /\ Fits(s)
  BY DEF FailsForAReason, Excused, RequestsFit
<1>2. \A s \in Requests : Unmoved(s) => Excused(s)'
  BY <1>1 DEF Excused, Unmoved
<1> USE DEF Goto, Tell, InjectFault, tables, asked, requests, history
<1>3. CASE \/ \E m \in Movies : PutMetadata(m)
           \/ \E m \in Movies \cup {NoMovie} : HttpPutMetadata(m)
           \/ \E m \in Movies, u \in Users, v \in Values :
                PutRating(m, u, v) \/ HttpPutRating(m, u, v)
           \/ UNCHANGED vars
  <2>1. \A s \in Requests : Unmoved(s)
    BY <1>3 DEF PutMetadata, HttpPutMetadata, PutRating, HttpPutRating, vars, Unmoved
  <2> QED
    BY <1>2, <2>1
<1>4. ASSUME NEW r \in Requests, Ask(r) \/ AskNothing(r) \/ Limited(r) \/ GetMovieDetails(r)
      PROVE  \A s \in Requests : Excused(s)'
  <2>1. \A s \in Requests : s # r => Excused(s)'
    BY <1>2, <1>4, OthersUnmoved
  <2>2. Fits(r)
    BY <1>1
  <2>3. CASE Ask(r) \/ AskNothing(r) \/ Limited(r)
    BY <2>1, <2>2, <2>3 DEF Ask, AskNothing, Limited, Refused, Exhausted, TypeOK, Fits, Excused
  <2>4. CASE MetadataFound(r) \/ ReadRatings(r) \/ ReadSomeRatings(r)
    <3>1. reply' = reply /\ reply[r].code = "none"
      BY <2>2, <2>4 DEF MetadataFound, ReadRatings, ReadSomeRatings, Fits, Asking
    <3> QED
      BY <2>1, <3>1 DEF Excused
  <2>5. CASE MetadataMissing(r) \/ HttpMetadataMissing(r)
    <3>1. movie[r] \notin atStart[r].stored /\ UNCHANGED <<movie, atStart>>
      BY <2>2, <2>5 DEF MetadataMissing, HttpMetadataMissing, Stored, Fits
    <3> QED
      BY <2>1, <3>1 DEF Excused
  <2>6. CASE MetadataUnavailable(r)
    <3>1. Asking(r) /\ attempts[r] < MaxAttempts /\ attempts'[r] = attempts[r] + 1
      BY <2>2, <2>6 DEF MetadataUnavailable, Fits, TypeOK
    <3>2. reply' = reply \/ attempts[r] + 1 >= MaxAttempts
      BY <2>6 DEF MetadataUnavailable
    <3>3. attempts[r] \in 0 .. MaxAttempts
      BY DEF TypeOK
    <3>4. reply'[r].code = "none" \/ attempts'[r] = MaxAttempts
      BY <3>1, <3>2, <3>3 DEF Asking
    <3> QED
      BY <2>1, <3>4 DEF Excused
  <2>7. CASE MetadataFails(r) \/ RatingFails(r) \/ HttpRatingUnread(r)
    <3>1. r \in failed'
      BY <2>7 DEF MetadataFails, RatingFails, HttpRatingUnread
    <3> QED
      BY <2>1, <3>1 DEF Excused
  <2>8. CASE Answer(r)
    BY <2>1, <2>8 DEF Answer, Details, TypeOK, Excused
  <2>9. CASE HttpAnswer(r)
    <3>1. CASE reply'[r] = Details(read[r])
      BY <2>1, <3>1 DEF Details, Excused
    <3>2. CASE read[r] = {}
      <4>1. r \notin partial \cup failed => RowsFit(r)
        BY <2>2, <2>9 DEF HttpAnswer, Fits
      <4>2. RowsFit(r) => atStart[r].raters = {}
        BY <3>2 DEF RowsFit, Rows
      <4>3. over[r] = "http" /\ UNCHANGED <<over, atStart, failed, partial>>
        BY <2>9 DEF HttpAnswer
      <4> QED
        BY <2>1, <4>1, <4>2, <4>3 DEF Excused
    <3> QED
      BY <2>9, <3>1, <3>2 DEF HttpAnswer, TypeOK
  <2> QED
    BY <1>4, <2>3, <2>4, <2>5, <2>6, <2>7, <2>8, <2>9 DEF GetMovieDetails
<1> QED
  BY <1>3, <1>4 DEF Next

LEMMA Invariance == Spec => []IInv
<1>1. IInv /\ [Next]_vars => IInv'
  BY TypeStep, RequestStep, FailsStep DEF IInv
<1> QED
  BY <1>1, InitInv, PTL DEF Spec

(* Every variable keeps its type; the gateway keeps to its attempts. *)
THEOREM TypeCorrect == Spec => []TypeOK
BY Invariance, PTL DEF IInv

(* Details give the mean of the ratings the movie had at one moment of the *)
(* request, unless the rows were not read, or not to the end.              *)
THEOREM DetailsCorrect == Spec => []DetailsAreCorrect
<1>1. IInv => DetailsAreCorrect
  <2> SUFFICES ASSUME IInv, NEW r \in Requests \ (partial \cup failed), reply[r].code = "OK"
               PROVE  Correct(r)
    BY DEF DetailsAreCorrect
  <2>1. movie[r] \in stored /\ reply[r] = Details(read[r]) /\ RowsFit(r)
    BY DEF IInv, RequestsFit, Fits
  <2>2. reply[r].rating = Mean(read[r])
    BY <2>1 DEF Details
  <2> QED
    BY <2>1, <2>2 DEF RowsFit, Correct
<1> QED
  BY <1>1, Invariance, PTL

(* A request for a movie that was stored, and rated if it comes over HTTP, *)
(* fails only for a reason.                                                *)
THEOREM FailsCorrect == Spec => []FailsForAReason
BY Invariance, PTL DEF IInv

(***************************************************************************)
(* Two requests for one movie                                              *)
(***************************************************************************)

(* A request that has not begun, or that was refused before it began. *)
Early(q) ==
  \/ stage[q] = "idle"
  \/ stage[q] = "done" /\ reply[q].code \in {"InvalidArgument", "ResourceExhausted"}

(* What p was told is of users that had rated the movie when q began. *)
Later(p, q) ==
  \E U \in SUBSET Raters(movie[p]) :
    /\ read[p] = Rows(movie[p], U)
    /\ Early(q) \/ (movie[q] = movie[p] => U \subseteq atStart[q].raters)

(* A request that was told a rating has ended. *)
LEMMA RatedIsDone ==
  ASSUME IInv, NEW p \in Requests, Rated(p)
  PROVE  /\ stage[p] = "done" /\ movie[p] \in Movies /\ RowsFit(p)
         /\ reply[p] = Details(read[p])
BY DEF Rated, IInv, TypeOK, RequestsFit, Fits, Asking

(* A step of a request is none of one that has ended, and only Ask changes *)
(* what it asks for.                                                       *)
LEMMA RequestMoves ==
  ASSUME TypeOK, NEW r \in Requests, AskNothing(r) \/ Limited(r) \/ GetMovieDetails(r)
  PROVE  /\ movie' = movie /\ atStart' = atStart
         /\ stage[r] # "done"
         /\ stage[r] = "idle" => Early(r)'
<1> USE DEF TypeOK, Goto, Tell, tables, asked, requests, history
<1>1. CASE AskNothing(r) \/ Limited(r)
  BY <1>1 DEF AskNothing, Limited, Early, Refused, Exhausted
<1>2. CASE GetMovieDetails(r)
  BY <1>2 DEF GetMovieDetails, MetadataFound, MetadataMissing, HttpMetadataMissing, MetadataUnavailable,
     MetadataFails, ReadRatings, ReadSomeRatings, RatingFails, HttpRatingUnread, Answer, HttpAnswer
<1> QED
  BY <1>1, <1>2

LEMMA LaterStep ==
  ASSUME IInv, [Next]_vars, NEW p \in Requests, NEW q \in Requests, Rated(p), Later(p, q)
  PROVE  Rated(p)' /\ Later(p, q)'
<1>0. /\ TypeOK /\ stage[p] = "done" /\ movie[p] \in Movies
  BY RatedIsDone DEF IInv
<1>1. PICK U \in SUBSET Raters(movie[p]) :
        /\ read[p] = Rows(movie[p], U)
        /\ Early(q) \/ (movie[q] = movie[p] => U \subseteq atStart[q].raters)
  BY DEF Later
<1>2. ASSUME Unmoved(p), U \in SUBSET Raters(movie[p])', Rows(movie[p], U)' = Rows(movie[p], U),
             Early(q)' \/ (movie'[q] = movie'[p] => U \subseteq atStart'[q].raters)
      PROVE  Rated(p)' /\ Later(p, q)'
  BY <1>1, <1>2 DEF Rated, Later, Unmoved
<1>3. Unmoved(q) /\ Unmoved(p) =>
        (Early(q)' \/ (movie'[q] = movie'[p] => U \subseteq atStart'[q].raters))
  BY <1>1 DEF Unmoved, Early
<1>4. ASSUME UNCHANGED <<ratings, movie>>
      PROVE  U \in SUBSET Raters(movie[p])' /\ Rows(movie[p], U)' = Rows(movie[p], U)
  BY <1>1, <1>4 DEF Raters, Rows
<1>5. CASE \/ \E m \in Movies : PutMetadata(m)
           \/ \E m \in Movies \cup {NoMovie} : HttpPutMetadata(m)
           \/ UNCHANGED vars
  <2>1. Unmoved(p) /\ Unmoved(q) /\ UNCHANGED <<ratings, movie>>
    BY <1>5 DEF PutMetadata, HttpPutMetadata, requests, history, vars, Unmoved
  <2> QED
    BY <1>2, <1>3, <1>4, <2>1
<1>6. ASSUME NEW m \in Movies, NEW u \in Users, NEW v \in Values,
             PutRating(m, u, v) \/ HttpPutRating(m, u, v)
      PROVE  Rated(p)' /\ Later(p, q)'
  <2>1. Unmoved(p) /\ Unmoved(q) /\ movie' = movie
    BY <1>6 DEF PutRating, HttpPutRating, requests, history, Unmoved
  <2>2. Raters(movie[p]) \subseteq Raters(movie[p])' /\ Rows(movie[p], U)' = Rows(movie[p], U)
    <3> DEFINE n == movie[p]
    <3>1. Raters(n) \subseteq Raters(n)' /\ Rows(n, U) = Rows(n, U)'
      <4>1. ASSUME NEW k \in Movies
            PROVE  /\ Raters(k) \subseteq Raters(k)'
                   /\ \A V \in SUBSET Raters(k) : Rows(k, V) = Rows(k, V)'
        BY <1>0, <1>6, RowsStay
      <4> QED
        BY <1>0, <1>1, <2>1, <4>1 DEF Raters, Rows
    <3> QED
      BY <3>1
  <2> QED
    BY <1>1, <1>2, <1>3, <2>1, <2>2
<1>7. ASSUME NEW r \in Requests, Ask(r) \/ AskNothing(r) \/ Limited(r) \/ GetMovieDetails(r)
      PROVE  Rated(p)' /\ Later(p, q)'
  <2>1. r # p
    BY <1>0, <1>7, RequestMoves DEF Ask
  <2>2. /\ ratings' = ratings /\ Unmoved(p)
        /\ r # q => Unmoved(q)
    BY <1>0, <1>7, <2>1, OthersUnmoved
  <2>3. U \in SUBSET Raters(movie[p])' /\ Rows(movie[p], U)' = Rows(movie[p], U)
    BY <1>1, <2>2 DEF Raters, Rows, Unmoved
  <2>4. CASE r # q
    BY <1>2, <1>3, <2>2, <2>3, <2>4
  <2>5. CASE r = q /\ ~ Ask(r)
    <3>1. movie' = movie /\ atStart' = atStart /\ stage[q] # "done" /\ (stage[q] = "idle" => Early(q)')
      BY <1>0, <1>7, <2>5, RequestMoves
    <3>2. Early(q)' \/ (movie'[q] = movie'[p] => U \subseteq atStart'[q].raters)
      BY <1>1, <3>1 DEF Early
    <3> QED
      BY <1>2, <2>2, <2>3, <3>2
  <2>6. CASE r = q /\ Ask(r)
    <3>1. PICK m \in Movies :
            /\ movie' = [movie EXCEPT ![q] = m]
            /\ atStart' = [atStart EXCEPT ![q] = [stored |-> stored, raters |-> Raters(m)]]
      BY <2>6 DEF Ask
    <3>2. movie'[q] = m /\ atStart'[q].raters = Raters(m) /\ movie'[p] = movie[p]
      BY <1>0, <2>1, <2>6, <3>1 DEF TypeOK
    <3>3. movie'[q] = movie'[p] => U \subseteq atStart'[q].raters
      BY <1>1, <3>2
    <3> QED
      BY <1>2, <2>2, <2>3, <3>3
  <2> QED
    BY <2>4, <2>5, <2>6
<1> QED
  BY <1>5, <1>6, <1>7 DEF Next

(* Ratings never go backwards: a request that begins after another was     *)
(* told a rating of the same movie is told the mean of the same rows and   *)
(* perhaps more, over either transport, whatever clients do meanwhile.     *)
THEOREM RatingsCorrect == Spec => RatingsAccumulate
<1> SUFFICES ASSUME NEW p \in Requests, NEW q \in Requests
             PROVE  Spec => [](Rated(p) /\ stage[q] = "idle" =>
                                [](Rated(q) /\ movie[q] = movie[p] =>
                                     /\ reply[p] = Details(read[p]) /\ reply[q] = Details(read[q])
                                     /\ read[p] \subseteq read[q]))
  BY DEF RatingsAccumulate
<1>1. IInv /\ Rated(p) /\ stage[q] = "idle" => Later(p, q)
  BY RatedIsDone DEF RowsFit, Later, Early
<1>2. IInv /\ [Next]_vars /\ Rated(p) /\ Later(p, q) => Rated(p)' /\ Later(p, q)'
  BY LaterStep
<1>3. IInv /\ Rated(p) /\ Later(p, q) /\ Rated(q) /\ movie[q] = movie[p] =>
        /\ reply[p] = Details(read[p]) /\ reply[q] = Details(read[q])
        /\ read[p] \subseteq read[q]
  <2> SUFFICES ASSUME IInv, Rated(p), Later(p, q), Rated(q), movie[q] = movie[p]
               PROVE  /\ reply[p] = Details(read[p]) /\ reply[q] = Details(read[q])
                      /\ read[p] \subseteq read[q]
    OBVIOUS
  <2>1. /\ reply[p] = Details(read[p]) /\ reply[q] = Details(read[q])
        /\ stage[q] = "done" /\ RowsFit(q)
    BY RatedIsDone
  <2>2. ~ Early(q)
    BY <2>1 DEF Early, Rated
  <2>3. read[p] \subseteq read[q]
    BY <2>1, <2>2 DEF Later, RowsFit, Rows
  <2> QED
    BY <2>1, <2>3
<1> QED
  BY <1>1, <1>2, <1>3, Invariance, PTL DEF Spec
=============================================================================
