-------------------------- MODULE RatingIngestion --------------------------
(***************************************************************************)
(* The ingestion of rating events (src/rating): the goroutine of           *)
(* internal/ingester/kafka/ingester.go reads the topic and sends each      *)
(* event over a channel to Controller.StartIngestion, which inserts it     *)
(* into the MySQL table `ratings`, next to the PutRating calls of clients. *)
(* main.go starts both and cancels their context at a signal.              *)
(*                                                                         *)
(* An event is named by its offset in the one partition of the topic; 0 is *)
(* no event.  The environment may crash and restart the process, fail a    *)
(* read or an INSERT, and lose the reply to an INSERT that was applied.    *)
(* Kafka and MySQL keep what they have.                                    *)
(***************************************************************************)
EXTENDS Naturals, Sequences, FiniteSets

CONSTANTS Keys,         \* (record id, record type, user id): the primary key
          Unregistered, \* the keys of users who register late, or never
          Values,       \* rating values
          NoRating,     \* no row
          Events,       \* what producers write: RatingEvents, or Malformed
          Malformed,    \* a message that is no RatingEvent
          MaxEvents,    \* bound: messages produced
          MaxFaults,    \* bound: faults the environment may inject
          MaxLives      \* bound: times the process is started

RatingEvent == [key : Keys, value : Values, type : {"put", "delete"}]

ASSUME EventsAssumption == Events \subseteq RatingEvent \cup {Malformed}
ASSUME MalformedAssumption == Malformed \notin RatingEvent
ASSUME UnregisteredAssumption == Unregistered \subseteq Keys
ASSUME NoRatingAssumption == NoRating \notin Values
ASSUME BoundsAssumption == MaxEvents \in Nat /\ MaxFaults \in Nat /\ MaxLives \in Nat \ {0}

VARIABLES
  topic,      \* Kafka: the messages of the partition
  committed,  \* Kafka: the offset committed for the consumer group
  position,   \* the last offset ReadMessage returned in this life
  ingester,   \* where the goroutine of Ingest is
  sending,    \* the event it holds
  buffer,     \* the one slot of the channel
  chClosed,   \* whether the channel is closed
  controller, \* where StartIngestion is
  putting,    \* the event it holds
  ratings,    \* MySQL: the row of each key
  ctxDone,    \* whether the context is cancelled
  running,    \* whether the process runs
  panicked,   \* history: whether a goroutine ever panicked
  faults,     \* faults injected so far
  lives,      \* times the process was started
  skipped,    \* history: offsets that could not be decoded
  attempted,  \* history: offsets PutRating was called for, to its end
  stored      \* history: offsets whose event became a row

kafkaVars   == <<topic, committed>>
ingestVars  == <<position, ingester, sending>>
channelVars == <<buffer, chClosed>>
controlVars == <<controller, putting>>
processVars == <<ctxDone, running, panicked, lives>>
historyVars == <<skipped, attempted, stored>>
vars == <<kafkaVars, ingestVars, channelVars, controlVars, ratings, processVars, faults, historyVars>>

(***************************************************************************)
(* The goroutine of Ingest is at                                           *)
(*   off      not started                                                  *)
(*   top      about to look at the context  (ingester.go:45)               *)
(*   closing  about to close the consumer   (ingester.go:49)               *)
(*   read     in ReadMessage(-1)            (ingester.go:52)               *)
(*   send     about to send the event       (ingester.go:64)               *)
(* and StartIngestion is at                                                *)
(*   start    about to subscribe            (controller.go:60)             *)
(*   recv     about to receive an event     (controller.go:65)             *)
(*   put      about to insert it            (controller.go:66)             *)
(*   returned                                                              *)
(***************************************************************************)
Offsets == 0 .. Len(topic)
Held    == {o \in {sending, buffer, putting} : o # 0}

InjectFault == faults < MaxFaults /\ faults' = faults + 1

Init ==
  /\ topic = << >>
  /\ committed = 0
  /\ position = 0
  /\ ingester = "off"
  /\ sending = 0
  /\ buffer = 0
  /\ chClosed = FALSE
  /\ controller = "start"
  /\ putting = 0
  /\ ratings = [k \in Keys |-> NoRating]
  /\ ctxDone = FALSE
  /\ running = TRUE
  /\ panicked = FALSE
  /\ faults = 0
  /\ lives = 1
  /\ skipped = {}
  /\ attempted = {}
  /\ stored = {}

(***************************************************************************)
(* Producers and clients                                                   *)
(***************************************************************************)
Produce ==
  /\ Len(topic) < MaxEvents
  /\ \E e \in Events : topic' = Append(topic, e)
  /\ UNCHANGED <<committed, ingestVars, channelVars, controlVars, ratings, processVars, faults,
                 historyVars>>

(* A client's PutRating.  One that fails changes nothing. *)
PutRating(k, v) ==
  /\ running
  /\ ratings[k] = NoRating
  /\ ratings' = [ratings EXCEPT ![k] = v]
  /\ UNCHANGED <<kafkaVars, ingestVars, channelVars, controlVars, processVars, faults, historyVars>>

(***************************************************************************)
(* The ingester                                                            *)
(***************************************************************************)
Subscribe ==
  /\ running
  /\ controller = "start"
  /\ controller' = "recv"
  /\ ingester' = "top"
  /\ UNCHANGED <<kafkaVars, position, sending, channelVars, putting, ratings, processVars, faults,
                 historyVars>>

SubscribeFails ==
  /\ running
  /\ controller = "start"
  /\ InjectFault
  /\ controller' = "returned"
  /\ UNCHANGED <<kafkaVars, ingestVars, channelVars, putting, ratings, processVars, historyVars>>

(* The context is looked at between two messages only. *)
CheckContext ==
  /\ running
  /\ ingester = "top"
  /\ ~ ctxDone
  /\ ingester' = "read"
  /\ UNCHANGED <<kafkaVars, position, sending, channelVars, controlVars, ratings, processVars, faults,
                 historyVars>>

CloseChannel ==
  /\ running
  /\ ingester = "top"
  /\ ctxDone
  /\ ~ chClosed
  /\ chClosed' = TRUE
  /\ ingester' = "closing"
  /\ UNCHANGED <<kafkaVars, position, sending, buffer, controlVars, ratings, processVars, faults,
                 historyVars>>

(* Mutant: the offset committed is the next one to read. *)
CloseConsumerAtNext ==
  /\ running
  /\ ingester = "closing"
  /\ committed' = position + 1
  /\ ingester' = "top"
  /\ UNCHANGED <<topic, position, sending, channelVars, controlVars, ratings, processVars, faults,
                 historyVars>>

(* Closing the consumer commits the offsets of the messages it returned.   *)
(* The loop then begins again.                                             *)
CloseConsumer ==
  /\ running
  /\ ingester = "closing"
  /\ \/ committed' = position /\ UNCHANGED faults
     \/ InjectFault /\ UNCHANGED committed
  /\ ingester' = "top"
  /\ UNCHANGED <<topic, position, sending, channelVars, controlVars, ratings, processVars, historyVars>>

(* The process ends: what it holds in memory is gone. *)
Die ==
  /\ running' = FALSE
  /\ ingester' = "off"
  /\ sending' = 0
  /\ buffer' = 0
  /\ controller' = "returned"
  /\ putting' = 0
  /\ UNCHANGED <<kafkaVars, position, chClosed, ratings, ctxDone, lives, historyVars>>

(* close of closed channel *)
CloseClosedChannel ==
  /\ running
  /\ ingester = "top"
  /\ ctxDone
  /\ chClosed
  /\ panicked' = TRUE
  /\ Die
  /\ UNCHANGED faults

ReadMessage ==
  /\ running
  /\ ingester = "read"
  /\ position < Len(topic)
  /\ topic[position + 1] # Malformed
  /\ position' = position + 1
  /\ sending' = position + 1
  /\ ingester' = "send"
  /\ UNCHANGED <<kafkaVars, channelVars, controlVars, ratings, processVars, faults, historyVars>>

(* Mutant: the loop ends at a message it cannot decode. *)
ReadMalformedEnds ==
  /\ running
  /\ ingester = "read"
  /\ position < Len(topic)
  /\ topic[position + 1] = Malformed
  /\ position' = position + 1
  /\ skipped' = skipped \cup {position + 1}
  /\ ingester' = "off"
  /\ UNCHANGED <<kafkaVars, sending, channelVars, controlVars, ratings, processVars, faults, attempted,
                 stored>>

ReadMalformed ==
  /\ running
  /\ ingester = "read"
  /\ position < Len(topic)
  /\ topic[position + 1] = Malformed
  /\ position' = position + 1
  /\ skipped' = skipped \cup {position + 1}
  /\ ingester' = "top"
  /\ UNCHANGED <<kafkaVars, sending, channelVars, controlVars, ratings, processVars, faults, attempted,
                 stored>>

ReadFails ==
  /\ running
  /\ ingester = "read"
  /\ InjectFault
  /\ ingester' = "top"
  /\ UNCHANGED <<kafkaVars, position, sending, channelVars, controlVars, ratings, processVars,
                 historyVars>>

(* Mutant: a full channel drops what it holds. *)
SendOverwrites ==
  /\ running
  /\ ingester = "send"
  /\ buffer' = sending
  /\ sending' = 0
  /\ ingester' = "top"
  /\ UNCHANGED <<kafkaVars, position, chClosed, controlVars, ratings, processVars, faults, historyVars>>

(* The channel has one slot. *)
Send ==
  /\ running
  /\ ingester = "send"
  /\ buffer = 0
  /\ buffer' = sending
  /\ sending' = 0
  /\ ingester' = "top"
  /\ UNCHANGED <<kafkaVars, position, chClosed, controlVars, ratings, processVars, faults, historyVars>>

(***************************************************************************)
(* StartIngestion                                                          *)
(***************************************************************************)
Receive ==
  /\ running
  /\ controller = "recv"
  /\ buffer # 0
  /\ putting' = buffer
  /\ buffer' = 0
  /\ controller' = "put"
  /\ UNCHANGED <<kafkaVars, ingestVars, chClosed, ratings, processVars, faults, historyVars>>

ReceiveClosed ==
  /\ running
  /\ controller = "recv"
  /\ buffer = 0
  /\ chClosed
  /\ controller' = "returned"
  /\ UNCHANGED <<kafkaVars, ingestVars, channelVars, putting, ratings, processVars, faults, historyVars>>

(* PutRating returns, and StartIngestion goes on or returns its error. *)
Attempted(to) ==
  /\ attempted' = attempted \cup {putting}
  /\ putting' = 0
  /\ controller' = to
  /\ UNCHANGED <<kafkaVars, ingestVars, channelVars, processVars, skipped>>

(* The event type is not looked at: a delete event is inserted as well. *)
InsertRow ==
  /\ ratings[topic[putting].key] = NoRating
  /\ ratings' = [ratings EXCEPT ![topic[putting].key] = topic[putting].value]
  /\ stored' = stored \cup {putting}

PutEvent ==
  /\ running
  /\ controller = "put"
  /\ ~ ctxDone
  /\ InsertRow
  /\ Attempted("recv")
  /\ UNCHANGED faults

(* Mutant: an upsert. *)
PutEventReplaces ==
  /\ running
  /\ controller = "put"
  /\ ~ ctxDone
  /\ ratings[topic[putting].key] # NoRating
  /\ ratings' = [ratings EXCEPT ![topic[putting].key] = topic[putting].value]
  /\ Attempted("recv")
  /\ UNCHANGED <<stored, faults>>

(* Mutant: StartIngestion goes on after an error. *)
PutEventDuplicateGoesOn ==
  /\ running
  /\ controller = "put"
  /\ ~ ctxDone
  /\ ratings[topic[putting].key] # NoRating
  /\ Attempted("recv")
  /\ UNCHANGED <<ratings, stored, faults>>

PutEventDuplicate ==
  /\ running
  /\ controller = "put"
  /\ ~ ctxDone
  /\ ratings[topic[putting].key] # NoRating
  /\ Attempted("returned")
  /\ UNCHANGED <<ratings, stored, faults>>

(* ratings.user_id references users: MySQL refuses the row of a user it    *)
(* does not know.                                                          *)
PutEventUnknownUser ==
  /\ running
  /\ controller = "put"
  /\ ~ ctxDone
  /\ topic[putting].key \in Unregistered
  /\ ratings[topic[putting].key] = NoRating
  /\ Attempted("returned")
  /\ UNCHANGED <<ratings, stored, faults>>

PutEventFails ==
  /\ running
  /\ controller = "put"
  /\ IF ctxDone THEN UNCHANGED faults ELSE InjectFault
  /\ Attempted("returned")
  /\ UNCHANGED <<ratings, stored>>

PutEventUnacknowledged ==
  /\ running
  /\ controller = "put"
  /\ ~ ctxDone
  /\ InjectFault
  /\ InsertRow
  /\ Attempted("returned")

(***************************************************************************)
(* The process and Kafka                                                   *)
(***************************************************************************)

(* Every few seconds the consumer commits the offsets it has returned. *)
AutoCommit ==
  /\ running
  /\ ingester \in {"top", "read", "send"}
  /\ ~ chClosed
  /\ committed < position
  /\ committed' = position
  /\ UNCHANGED <<topic, ingestVars, channelVars, controlVars, ratings, processVars, faults, historyVars>>

Signal ==
  /\ running
  /\ ~ ctxDone
  /\ ctxDone' = TRUE
  /\ UNCHANGED <<kafkaVars, ingestVars, channelVars, controlVars, ratings, running, panicked, lives,
                 faults, historyVars>>

(* main returns; it waits for the gRPC server, not for the ingestion. *)
Exit ==
  /\ running
  /\ ctxDone
  /\ Die
  /\ UNCHANGED <<panicked, faults>>

Crash ==
  /\ running
  /\ InjectFault
  /\ Die
  /\ UNCHANGED panicked

(* Mutant: auto.offset.reset is latest. *)
RestartAtLatest ==
  /\ ~ running
  /\ lives < MaxLives
  /\ lives' = lives + 1
  /\ running' = TRUE
  /\ ctxDone' = FALSE
  /\ chClosed' = FALSE
  /\ position' = IF committed = 0 THEN Len(topic) ELSE committed
  /\ controller' = "start"
  /\ UNCHANGED <<kafkaVars, ingester, sending, buffer, putting, ratings, panicked, faults, historyVars>>

(* A new process resumes after the committed offset, or at the earliest. *)
Restart ==
  /\ ~ running
  /\ lives < MaxLives
  /\ lives' = lives + 1
  /\ running' = TRUE
  /\ ctxDone' = FALSE
  /\ chClosed' = FALSE
  /\ position' = committed
  /\ controller' = "start"
  /\ UNCHANGED <<kafkaVars, ingester, sending, buffer, putting, ratings, panicked, faults, historyVars>>

IngesterStep == \/ CheckContext \/ CloseChannel \/ CloseConsumer \/ CloseClosedChannel
                \/ ReadMessage \/ ReadMalformed \/ ReadFails \/ Send
ControllerStep == \/ Subscribe \/ SubscribeFails \/ Receive \/ ReceiveClosed
                  \/ PutEvent \/ PutEventDuplicate \/ PutEventUnknownUser
                  \/ PutEventFails \/ PutEventUnacknowledged

(* The last life has ended: nobody starts the process again. *)
Over == ~ running /\ lives = MaxLives /\ UNCHANGED vars

Next == \/ Produce
        \/ \E k \in Keys, v \in Values : PutRating(k, v)
        \/ IngesterStep \/ ControllerStep
        \/ AutoCommit \/ Signal \/ Exit \/ Crash \/ Restart
        \/ Over

Spec == Init /\ [][Next]_vars

(* The two goroutines are scheduled, and main returns once it is told to. *)
Fairness == WF_vars(IngesterStep) /\ WF_vars(ControllerStep) /\ WF_vars(ctxDone /\ Exit)

FairSpec == Spec /\ Fairness

(***************************************************************************)
(* Properties                                                              *)
(***************************************************************************)

(* Every variable keeps its type. *)
TypeOK ==
  /\ topic \in Seq(Events)
  /\ committed \in Offsets
  /\ position \in Offsets
  /\ ingester \in {"off", "top", "closing", "read", "send"}
  /\ sending \in Offsets
  /\ buffer \in Offsets
  /\ chClosed \in BOOLEAN
  /\ controller \in {"start", "recv", "put", "returned"}
  /\ putting \in Offsets
  /\ ratings \in [Keys -> Values \cup {NoRating}]
  /\ ctxDone \in BOOLEAN
  /\ running \in BOOLEAN
  /\ panicked \in BOOLEAN
  /\ faults \in 0 .. MaxFaults
  /\ lives \in 1 .. MaxLives
  /\ skipped \in SUBSET Offsets
  /\ attempted \in SUBSET Offsets
  /\ stored \in SUBSET Offsets

(* Kafka commits an event as soon as ReadMessage returns it, so a process  *)
(* that ends loses what is between ReadMessage and PutRating: at most      *)
(* three events, one in the ingester's hands, one in the channel and one   *)
(* in StartIngestion's.  All others were inserted or refused.              *)
Lost   == {o \in 1 .. position : o \notin attempted \cup skipped \cup Held}
Deaths == IF running THEN lives - 1 ELSE lives

LossIsBounded == Cardinality(Lost) <= 3 * Deaths

(* The first event that cannot be inserted ends StartIngestion, so a life  *)
(* of the process costs three ratings at most: the one refused, and what   *)
(* the channel and the ingester hold when the process ends.  Every other   *)
(* well-formed event that ReadMessage returned became a row.               *)
Missing  == {o \in 1 .. position : topic[o] # Malformed /\ o \notin stored \cup Held}
HasEnded == running /\ controller = "returned"

MissingIsBounded ==
  Cardinality(Missing) <= 3 * Deaths + (IF HasEnded THEN 1 ELSE 0)

(* The first rating of a key stands: an event that was inserted is never   *)
(* overwritten, by a redelivery, by another event or by a client's call.   *)
FirstRatingStands ==
  \A o \in stored : ratings[topic[o].key] = topic[o].value

(* The strengthening that makes these inductive.  An event moves from the  *)
(* ingester's hands to the channel and on to StartIngestion's, so that its *)
(* place tells how old it is; a process that has ended holds nothing.      *)
Older(o, p) == o = 0 \/ p = 0 \/ o < p

HandsFit ==
  /\ committed <= position
  /\ sending = IF ingester = "send" THEN position ELSE 0
  /\ ingester = "send" => position > 0
  /\ buffer <= position
  /\ putting <= position
  /\ Older(putting, buffer) /\ Older(buffer, sending) /\ Older(putting, sending)
  /\ controller = "put" <=> putting # 0
  /\ controller = "start" => ingester = "off" /\ buffer = 0
  /\ ~ running => ingester = "off" /\ buffer = 0 /\ controller = "returned"

EventsFit ==
  /\ \A o \in Held \cup stored : o # 0 /\ topic[o] \in RatingEvent
  /\ 0 \notin attempted \cup skipped

(* The channel is closed by the loop that sends on it, once the context is *)
(* cancelled; that loop reads no message any more.                         *)
ChannelFits == chClosed => ctxDone /\ ingester \in {"top", "closing", "off"}

(* No event is sent on a closed channel: of the two panics a Go channel    *)
(* has, only the second close can happen.                                  *)
SendsOnOpenChannel == ingester = "send" => ~ chClosed

IInv == TypeOK /\ HandsFit /\ EventsFit /\ FirstRatingStands

(* The ingestion is a first-in first-out pipe of three events. *)
Pipe == INSTANCE EventPipe WITH Capacity <- 3, pending <- Held, handled <- attempted

ImplementsPipe == Pipe!Spec

(* While StartIngestion runs and nobody asks it to end, the ingestion      *)
(* catches up with the producers: it takes every event that waits, and     *)
(* each one is put into the table, refused, or found malformed.            *)
Waiting  == position < Len(topic)
CaughtUp == position = Len(topic) /\ Held = {}
Ended    == controller = "returned" \/ ctxDone \/ ~ running

EventsAreHandled == Waiting ~> (CaughtUp \/ Ended)

(* "Attempting graceful shutdown" (main.go:168): a signal does not make a  *)
(* goroutine panic.                                                        *)
NeverPanics == ~ panicked
=============================================================================
