---------------------------- MODULE MovieDetails ----------------------------
(***************************************************************************)
(* What movie's GetMovieDetails composes: the metadata of a movie, asked   *)
(* of the metadata service with retries, and then the mean of its ratings, *)
(* which the rating service computes from the rows of its table.           *)
(*                                                                         *)
(* The services have two stacks of handlers and gateways.  Over gRPC, no   *)
(* gateway translates the errors it gets, so the errors that the           *)
(* controller and the handler look for never match.  Over HTTP, the        *)
(* metadata gateway calls once and translates 404, but the rating handler  *)
(* looks for an error its controller does not return and answers any       *)
(* failure with 200 and the rating 0, and JSON has no NaN.                 *)
(*                                                                         *)
(* The metadata service is taken as module MetadataStore describes it: a   *)
(* movie, once stored, stays, and a get answers at one instant.  How an    *)
(* instance is found and called is module ServiceLifecycle's.              *)
(***************************************************************************)
EXTENDS Integers, FiniteSets, FiniteSetsExt

CONSTANTS Requests, Movies, Users, Values,
          Transports,   \* the stacks in use, "grpc" or "http"
          NoMovie,      \* the empty id
          NoUser,       \* the empty user id
          NoRating,     \* where a user has not rated a movie
          NaN,          \* the quotient 0 / 0
          MaxAttempts,  \* the attempts of the metadata gateway
          MaxFaults     \* bound: calls and statements that fail

ASSUME TransportsAssumption == Transports \subseteq {"grpc", "http"}
ASSUME ValuesAssumption == Values \subseteq Int
ASSUME NothingAssumption == NoMovie \notin Movies /\ NoRating \notin Values
ASSUME AttemptsAssumption == MaxAttempts \in Nat \ {0}
ASSUME MaxFaultsAssumption == MaxFaults \in Nat

VARIABLES
  stored,    \* movies whose metadata is stored
  ratings,   \* ratings[m][u]: what user u gave movie m
  stage,     \* how far each request is
  movie,     \* what it asks for
  over,      \* the transport of the request and of the calls it makes
  attempts,  \* calls to the metadata service that found it unavailable
  read,      \* the rows the rating service has read for it
  reply,     \* what it was told
  faults,
  atStart,   \* history: the movies stored, and the users that had rated it, at its start
  failed,    \* history: requests of which another call or statement failed
  partial    \* history: requests whose rows were not read to the end

tables   == <<stored, ratings>>
asked    == <<movie, over>>
requests == <<stage, movie, over, attempts, read, reply>>
history  == <<atStart, failed, partial>>
vars == <<stored, ratings, stage, movie, over, attempts, read, reply, faults, atStart, failed, partial>>

Raters(m)  == {u \in Users : ratings[m][u] # NoRating}
Rows(m, U) == {<<u, ratings[m][u]>> : u \in U}

(* The metadata of movie[r] is stored: the status of the metadata service. *)
Stored(r) == movie[r] \in stored

(* The quotient of the sum and the number of the rows, which is exact. *)
Mean(rows) ==
  IF rows = {} THEN NaN
  ELSE [sum |-> MapThenSumSet(LAMBDA row : row[2], rows), count |-> Cardinality(rows)]

NoReply   == [code |-> "none", rating |-> NaN]
Refused   == [code |-> "InvalidArgument", rating |-> NaN]
Exhausted == [code |-> "ResourceExhausted", rating |-> NaN]
NotFound  == [code |-> "NotFound", rating |-> NaN]
Internal  == [code |-> "Internal", rating |-> NaN]
Unread    == [code |-> "OK", rating |-> [sum |-> 0, count |-> 1]]
Details(rows) == [code |-> "OK", rating |-> Mean(rows)]

Init ==
  /\ stored = {}
  /\ ratings = [m \in Movies |-> [u \in Users |-> NoRating]]
  /\ stage = [r \in Requests |-> "idle"]
  /\ movie = [r \in Requests |-> NoMovie]
  /\ over \in [Requests -> Transports]
  /\ attempts = [r \in Requests |-> 0]
  /\ read = [r \in Requests |-> {}]
  /\ reply = [r \in Requests |-> NoReply]
  /\ faults = 0
  /\ atStart = [r \in Requests |-> [stored |-> {}, raters |-> {}]]
  /\ failed = {}
  /\ partial = {}

Goto(r, to) == stage' = [stage EXCEPT ![r] = to]
Tell(r, a)  == Goto(r, "done") /\ reply' = [reply EXCEPT ![r] = a]
InjectFault == faults < MaxFaults /\ faults' = faults + 1

-----------------------------------------------------------------------------
(* The other clients of the two services *)

PutMetadata(m) ==
  /\ "grpc" \in Transports
  /\ stored' = stored \cup {m}
  /\ UNCHANGED <<ratings, requests, faults, history>>

(* Over HTTP, nobody checks that the metadata has an id. *)
HttpPutMetadata(m) ==
  /\ "http" \in Transports
  /\ stored' = stored \cup {m}
  /\ UNCHANGED <<ratings, requests, faults, history>>

(* A user's second rating of a movie is refused by MySQL. *)
PutRating(m, u, v) ==
  /\ "grpc" \in Transports /\ u # NoUser
  /\ ratings[m][u] = NoRating
  /\ ratings' = [ratings EXCEPT ![m][u] = v]
  /\ UNCHANGED <<stored, requests, faults, history>>

(* Over HTTP, nobody checks that there is a user. *)
HttpPutRating(m, u, v) ==
  /\ "http" \in Transports
  /\ ratings[m][u] = NoRating
  /\ ratings' = [ratings EXCEPT ![m][u] = v]
  /\ UNCHANGED <<stored, requests, faults, history>>

-----------------------------------------------------------------------------
(* GetMovieDetails *)

Ask(r) ==
  /\ stage[r] = "idle"
  /\ \E m \in Movies :
       /\ movie' = [movie EXCEPT ![r] = m]
       /\ atStart' = [atStart EXCEPT ![r] = [stored |-> stored, raters |-> Raters(m)]]
  /\ Goto(r, "metadata")
  /\ UNCHANGED <<tables, over, attempts, read, reply, faults, failed, partial>>

AskNothing(r) ==
  /\ stage[r] = "idle"
  /\ Tell(r, Refused)
  /\ UNCHANGED <<tables, asked, attempts, read, faults, history>>

(* The limiter in front of the gRPC server has no token left.  How many it *)
(* has is left out: it may refuse any request.                             *)
Limited(r) ==
  /\ stage[r] = "idle" /\ over[r] = "grpc"
  /\ Tell(r, Exhausted)
  /\ UNCHANGED <<tables, asked, attempts, read, faults, history>>

MetadataFound(r) ==
  /\ stage[r] = "metadata" /\ Stored(r)
  /\ Goto(r, "rating")
  /\ UNCHANGED <<tables, asked, attempts, read, reply, faults, history>>

(* The status NotFound is no gateway.ErrNotFound: the handler answers      *)
(* Internal.                                                               *)
MetadataMissing(r) ==
  /\ stage[r] = "metadata" /\ over[r] = "grpc"
  /\ ~ Stored(r)
  /\ Tell(r, Internal)
  /\ UNCHANGED <<tables, asked, attempts, read, faults, history>>

(* The status 404 is translated on the way, and ends as one. *)
HttpMetadataMissing(r) ==
  /\ stage[r] = "metadata" /\ over[r] = "http"
  /\ ~ Stored(r)
  /\ Tell(r, NotFound)
  /\ UNCHANGED <<tables, asked, attempts, read, faults, history>>

(* Mutant: Unavailable is not among the codes that shouldRetry lists. *)
MetadataUnavailableOnce(r) ==
  /\ stage[r] = "metadata" /\ over[r] = "grpc"
  /\ attempts' = [attempts EXCEPT ![r] = @ + 1]
  /\ Tell(r, Internal)
  /\ UNCHANGED <<tables, asked, read, faults, history>>

(* Mutant: the gateway does not count its attempts. *)
MetadataUnavailableForEver(r) ==
  /\ stage[r] = "metadata" /\ over[r] = "grpc"
  /\ attempts' = [attempts EXCEPT ![r] = 1 - @]
  /\ UNCHANGED <<tables, stage, asked, read, reply, faults, history>>

(* Mutant: the loop of the gateway runs once more. *)
MetadataUnavailableOnceMore(r) ==
  /\ stage[r] = "metadata" /\ over[r] = "grpc"
  /\ attempts' = [attempts EXCEPT ![r] = @ + 1]
  /\ \/ attempts[r] < MaxAttempts /\ UNCHANGED <<stage, reply>>
     \/ attempts[r] >= MaxAttempts /\ Tell(r, Internal)
  /\ UNCHANGED <<tables, asked, read, faults, history>>

(* However long the service is unavailable, the gateway gives up. *)
MetadataUnavailable(r) ==
  /\ stage[r] = "metadata" /\ over[r] = "grpc"
  /\ attempts' = [attempts EXCEPT ![r] = @ + 1]
  /\ \/ attempts[r] + 1 < MaxAttempts /\ UNCHANGED <<stage, reply>>
     \/ attempts[r] + 1 >= MaxAttempts /\ Tell(r, Internal)
  /\ UNCHANGED <<tables, asked, read, faults, history>>

(* No address of the service, or an error that is not retried; over HTTP,  *)
(* none is.                                                                *)
MetadataFails(r) ==
  /\ stage[r] = "metadata"
  /\ InjectFault
  /\ Tell(r, Internal)
  /\ failed' = failed \cup {r}
  /\ UNCHANGED <<tables, asked, attempts, read, atStart, partial>>

(* Mutant: the query leaves the record out of its condition. *)
ReadAllRatings(r) ==
  /\ stage[r] = "rating"
  /\ read' = [read EXCEPT ![r] = UNION {Rows(m, Raters(m)) : m \in Movies}]
  /\ Goto(r, "mean")
  /\ UNCHANGED <<tables, asked, attempts, reply, faults, history>>

ReadRatings(r) ==
  /\ stage[r] = "rating"
  /\ read' = [read EXCEPT ![r] = Rows(movie[r], Raters(movie[r]))]
  /\ Goto(r, "mean")
  /\ UNCHANGED <<tables, asked, attempts, reply, faults, history>>

(* The connection breaks between two rows: rows.Next returns false and     *)
(* rows.Err is not asked, so the rows that arrived are taken for all.      *)
ReadSomeRatings(r) ==
  /\ stage[r] = "rating"
  /\ InjectFault
  /\ \E U \in SUBSET Raters(movie[r]) :
       /\ U # Raters(movie[r])
       /\ read' = [read EXCEPT ![r] = Rows(movie[r], U)]
  /\ Goto(r, "mean")
  /\ partial' = partial \cup {r}
  /\ UNCHANGED <<tables, asked, attempts, reply, atStart, failed>>

(* The only call to the rating service, or its statement, fails. *)
RatingFails(r) ==
  /\ stage[r] = "rating"
  /\ InjectFault
  /\ Tell(r, Internal)
  /\ failed' = failed \cup {r}
  /\ UNCHANGED <<tables, asked, attempts, read, atStart, partial>>

(* The rating handler over HTTP lets the error of a query pass and encodes *)
(* the 0 that came with it; nothing tells it from a rating.                *)
HttpRatingUnread(r) ==
  /\ stage[r] = "rating" /\ over[r] = "http"
  /\ InjectFault
  /\ Tell(r, Unread)
  /\ failed' = failed \cup {r}
  /\ UNCHANGED <<tables, asked, attempts, read, atStart, partial>>

Answer(r) ==
  /\ stage[r] = "mean" /\ over[r] = "grpc"
  /\ Tell(r, Details(read[r]))
  /\ UNCHANGED <<tables, asked, attempts, read, faults, history>>

(* JSON has no number for 0 / 0: the rating handler answers 500. *)
HttpAnswer(r) ==
  /\ stage[r] = "mean" /\ over[r] = "http"
  /\ \/ read[r] # {} /\ Tell(r, Details(read[r]))
     \/ read[r] = {} /\ Tell(r, Internal)
  /\ UNCHANGED <<tables, asked, attempts, read, faults, history>>

GetMovieDetails(r) == \/ MetadataFound(r) \/ MetadataMissing(r) \/ HttpMetadataMissing(r)
                      \/ MetadataUnavailable(r) \/ MetadataFails(r)
                      \/ ReadRatings(r) \/ ReadSomeRatings(r) \/ RatingFails(r)
                      \/ HttpRatingUnread(r) \/ Answer(r) \/ HttpAnswer(r)

Next == \/ \E m \in Movies : PutMetadata(m)
        \/ \E m \in Movies \cup {NoMovie} : HttpPutMetadata(m)
        \/ \E m \in Movies, u \in Users, v \in Values :
             PutRating(m, u, v) \/ HttpPutRating(m, u, v)
        \/ \E r \in Requests : Ask(r) \/ AskNothing(r) \/ Limited(r) \/ GetMovieDetails(r)

Spec == Init /\ [][Next]_vars

(* A request goes on: every call returns, in success or in error. *)
FairSpec == Spec /\ \A r \in Requests : WF_vars(GetMovieDetails(r))

(***************************************************************************)
(* Properties                                                              *)
(***************************************************************************)

Replies(r) == {NoReply, Refused, Exhausted, NotFound, Internal, Unread, Details(read[r])}

(* Every variable keeps its type; the gateway keeps to its attempts. *)
TypeOK ==
  /\ stored \in SUBSET (Movies \cup {NoMovie})
  /\ ratings \in [Movies -> [Users -> Values \cup {NoRating}]]
  /\ stage \in [Requests -> {"idle", "metadata", "rating", "mean", "done"}]
  /\ movie \in [Requests -> Movies \cup {NoMovie}]
  /\ over \in [Requests -> Transports]
  /\ attempts \in [Requests -> 0 .. MaxAttempts]
  /\ read \in [Requests -> SUBSET (Users \X Values)]
  /\ DOMAIN reply = Requests
  /\ \A r \in Requests : reply[r] \in Replies(r)
  /\ faults \in 0 .. MaxFaults
  /\ atStart \in [Requests -> [stored : SUBSET (Movies \cup {NoMovie}), raters : SUBSET Users]]
  /\ failed \in SUBSET Requests
  /\ partial \in SUBSET Requests

(* Details are of a stored movie, and give the mean of its ratings as they *)
(* were at one moment of the request: every rating that was acknowledged   *)
(* before the request counts, and none that nobody gave.  This is lost     *)
(* when the connection breaks between two rows, and over HTTP when the     *)
(* query fails: the details then look like any others.                     *)
Correct(r) ==
  /\ movie[r] \in stored
  /\ \E U \in SUBSET Raters(movie[r]) :
       atStart[r].raters \subseteq U /\ reply[r].rating = Mean(Rows(movie[r], U))

DetailsAreCorrect ==
  \A r \in Requests \ (partial \cup failed) : reply[r].code = "OK" => Correct(r)

(* A request for a movie that was stored before it, and rated if it comes  *)
(* over HTTP, is answered with an error only when a call of its own        *)
(* failed, or the metadata service was unavailable at each of its attempts. *)
FailsForAReason ==
  \A r \in Requests :
    reply[r].code \in {"NotFound", "Internal"} =>
      \/ movie[r] \notin atStart[r].stored
      \/ over[r] = "http" /\ atStart[r].raters = {}
      \/ r \in failed \cup partial
      \/ attempts[r] = MaxAttempts

(* The strengthening that makes these inductive: the tables only grow, a   *)
(* request reads its rating for a movie that is stored, and the rows that  *)
(* were read to the end are rows the movie has had since the request began. *)
RowsFit(r) ==
  \E U \in SUBSET Raters(movie[r]) :
    atStart[r].raters \subseteq U /\ read[r] = Rows(movie[r], U)

Asking(r) ==
  /\ movie[r] \in Movies
  /\ atStart[r].raters \subseteq Raters(movie[r])
  /\ reply[r].code = "none"

Fits(r) ==
  /\ atStart[r].stored \subseteq stored
  /\ stage[r] = "idle" => attempts[r] = 0 /\ reply[r].code = "none"
  /\ stage[r] = "metadata" => Asking(r) /\ attempts[r] < MaxAttempts
  /\ stage[r] \in {"rating", "mean"} => Asking(r) /\ movie[r] \in stored
  /\ reply[r].code = "OK" => movie[r] \in Movies /\ movie[r] \in stored
  /\ reply[r].code = "OK" /\ r \notin failed => reply[r] = Details(read[r])
  /\ (stage[r] = "mean" \/ reply[r].code = "OK") /\ r \notin partial \cup failed => RowsFit(r)

RequestsFit == \A r \in Requests : Fits(r)

IInv == TypeOK /\ RequestsFit /\ FailsForAReason

(* A request that was told a rating, of all rows there were. *)
Rated(r) == reply[r].code = "OK" /\ r \notin partial \cup failed

(* Ratings never go backwards: what a request was told counts each rating  *)
(* that an earlier one was told of the same movie counts, whichever of the *)
(* two transports either uses.                                             *)
RatingsAccumulate ==
  \A p, q \in Requests :
    [](Rated(p) /\ stage[q] = "idle" =>
         [](Rated(q) /\ movie[q] = movie[p] =>
              /\ reply[p] = Details(read[p]) /\ reply[q] = Details(read[q])
              /\ read[p] \subseteq read[q]))

(* Every request is answered, even while the metadata service stays        *)
(* unavailable.                                                            *)
RequestsEnd == \A r \in Requests : stage[r] = "metadata" ~> stage[r] = "done"

(* "returns the aggregated rating for a record or ErrNotFound if there are *)
(* no ratings for it" (rating controller.go:36): details give a number.    *)
RatingIsANumber == \A r \in Requests : reply[r].code = "OK" => reply[r].rating # NaN
=============================================================================
