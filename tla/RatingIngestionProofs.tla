----------------------- MODULE RatingIngestionProofs -----------------------
(***************************************************************************)
(* Proofs about RatingIngestion for any keys, values and events and any    *)
(* number of messages, faults and lives.                                   *)
(***************************************************************************)
EXTENDS RatingIngestion, FiniteSetTheorems, TLAPS

(***************************************************************************)
(* The inductive invariant                                                 *)
(***************************************************************************)

(* Only Produce changes the topic, and it leaves what is there. *)
LEMMA TopicGrows ==
  ASSUME TypeOK, [Next]_vars
  PROVE  /\ topic' \in Seq(Events)
         /\ Len(topic) \in Nat
         /\ Len(topic)' \in Nat
         /\ Len(topic) <= Len(topic)'
         /\ \A o \in 1 .. Len(topic) : topic'[o] = topic[o]
PROOF
  <1>1. CASE Produce
    BY <1>1 DEF Produce, TypeOK
  <1>2. CASE topic' = topic
    BY <1>2 DEF TypeOK
  <1> QED
    BY <1>1, <1>2 DEF Next, PutRating, IngesterStep, CheckContext, CloseChannel, CloseConsumer,
       CloseClosedChannel, Die, ReadMessage, ReadMalformed, ReadFails, Send, ControllerStep, Subscribe,
       SubscribeFails, Receive, ReceiveClosed, PutEvent, PutEventDuplicate, PutEventUnknownUser,
       PutEventFails,
       PutEventUnacknowledged, Attempted, AutoCommit, Signal, Exit, Crash, Restart, Over, vars, kafkaVars

(* An event in StartIngestion's hands has a key and a rating. *)
LEMMA PuttingTyped ==
  ASSUME IInv, controller = "put"
  PROVE  /\ putting \in 1 .. Len(topic)
         /\ putting \in Held
         /\ topic[putting].key \in Keys
         /\ topic[putting].value \in Values
PROOF
  <1>1. putting # 0 /\ putting \in Held /\ topic[putting] \in RatingEvent
    BY DEF IInv, HandsFit, EventsFit, Held
  <1>2. putting \in 1 .. Len(topic)
    BY <1>1 DEF IInv, TypeOK, Offsets
  <1> QED
    BY <1>1, <1>2 DEF RatingEvent

(* The flags and the places of the two goroutines. *)
FlagsOK ==
  /\ ingester \in {"off", "top", "closing", "read", "send"}
  /\ controller \in {"start", "recv", "put", "returned"}
  /\ {chClosed, ctxDone, running, panicked} \subseteq BOOLEAN

(* Everything that counts, or is counted in, offsets. *)
NumbersOK ==
  /\ {committed, position, sending, buffer, putting} \subseteq Offsets
  /\ skipped \cup attempted \cup stored \subseteq Offsets
  /\ faults \in 0 .. MaxFaults
  /\ lives \in 1 .. MaxLives

LEMMA TypeParts ==
  TypeOK <=> /\ topic \in Seq(Events)
             /\ ratings \in [Keys -> Values \cup {NoRating}]
             /\ FlagsOK
             /\ NumbersOK
BY DEF TypeOK, FlagsOK, NumbersOK

LEMMA FlagsStep ==
  ASSUME FlagsOK, [Next]_vars
  PROVE  FlagsOK'
PROOF
  <1> USE DEF FlagsOK, kafkaVars, ingestVars, channelVars, controlVars, processVars
  <1>1. CASE \/ Produce \/ (\E k \in Keys, v \in Values : PutRating(k, v)) \/ AutoCommit \/ Signal
             \/ UNCHANGED vars
    BY <1>1 DEF Produce, PutRating, AutoCommit, Signal, vars
  <1>2. CASE IngesterStep
    <2>1. CASE CloseClosedChannel
      BY <2>1 DEF CloseClosedChannel, Die
    <2> QED
      BY <1>2, <2>1 DEF IngesterStep, CheckContext, CloseChannel, CloseConsumer, ReadMessage, ReadMalformed,
         ReadFails, Send
  <1>3. CASE ControllerStep
    BY <1>3 DEF ControllerStep, Subscribe, SubscribeFails, Receive, ReceiveClosed, PutEvent,
       PutEventDuplicate, PutEventUnknownUser, PutEventFails, PutEventUnacknowledged, Attempted
  <1>4. CASE Exit \/ Crash
    BY <1>4 DEF Exit, Crash, Die
  <1>5. CASE Restart
    BY <1>5 DEF Restart
  <1> QED
    BY <1>1, <1>2, <1>3, <1>4, <1>5 DEF Next, Over

LEMMA NumbersStep ==
  ASSUME IInv, [Next]_vars
  PROVE  NumbersOK'
PROOF
  <1> USE DEF NumbersOK, Offsets, kafkaVars, ingestVars, channelVars, controlVars, processVars, historyVars
  <1>0. NumbersOK /\ Len(topic) \in Nat /\ Len(topic)' \in Nat /\ Len(topic) <= Len(topic)'
    BY TopicGrows, TypeParts DEF IInv
  <1>1. CASE \/ Produce \/ (\E k \in Keys, v \in Values : PutRating(k, v)) \/ AutoCommit \/ Signal
             \/ UNCHANGED vars
    BY <1>0, <1>1 DEF Produce, PutRating, AutoCommit, Signal, vars
  <1>2. CASE IngesterStep
    <2>1. CASE CheckContext \/ CloseChannel \/ CloseConsumer \/ ReadFails \/ Send
      BY <1>0, <2>1, BoundsAssumption DEF CheckContext, CloseChannel, CloseConsumer, ReadFails, Send,
         InjectFault
    <2>2. CASE CloseClosedChannel
      BY <1>0, <2>2 DEF CloseClosedChannel, Die
    <2>3. CASE ReadMessage \/ ReadMalformed
      BY <1>0, <2>3 DEF ReadMessage, ReadMalformed
    <2> QED
      BY <1>2, <2>1, <2>2, <2>3 DEF IngesterStep
  <1>3. CASE ControllerStep
    <2>1. CASE Subscribe \/ SubscribeFails \/ Receive \/ ReceiveClosed
      BY <1>0, <2>1, BoundsAssumption DEF Subscribe, SubscribeFails, Receive, ReceiveClosed, InjectFault
    <2>2. CASE PutEvent \/ PutEventDuplicate \/ PutEventUnknownUser \/ PutEventFails
               \/ PutEventUnacknowledged
      BY <1>0, <2>2, BoundsAssumption DEF PutEvent, PutEventDuplicate, PutEventUnknownUser, PutEventFails,
         PutEventUnacknowledged, InsertRow, Attempted, InjectFault
    <2> QED
      BY <1>3, <2>1, <2>2 DEF ControllerStep
  <1>4. CASE Exit \/ Crash
    BY <1>0, <1>4, BoundsAssumption DEF Exit, Crash, Die, InjectFault
  <1>5. CASE Restart
    BY <1>0, <1>5, BoundsAssumption DEF Restart
  <1> QED
    BY <1>1, <1>2, <1>3, <1>4, <1>5 DEF Next, Over

(* Rows appear, and are never changed. *)
LEMMA RatingsStep ==
  ASSUME IInv, [Next]_vars
  PROVE  /\ ratings' \in [Keys -> Values \cup {NoRating}]
         /\ \A k \in Keys : ratings[k] # NoRating => ratings'[k] = ratings[k]
PROOF
  <1>0. ratings \in [Keys -> Values \cup {NoRating}]
    BY DEF IInv, TypeOK
  <1>1. ASSUME NEW k \in Keys, NEW v \in Values, PutRating(k, v)
        PROVE  ratings[k] = NoRating /\ ratings' = [ratings EXCEPT ![k] = v]
    BY <1>1 DEF PutRating
  <1>2. CASE PutEvent \/ PutEventUnacknowledged
    <2>1. topic[putting].key \in Keys /\ topic[putting].value \in Values
      BY <1>2, PuttingTyped DEF PutEvent, PutEventUnacknowledged
    <2>2. /\ ratings[topic[putting].key] = NoRating
          /\ ratings' = [ratings EXCEPT ![topic[putting].key] = topic[putting].value]
      BY <1>2 DEF PutEvent, PutEventUnacknowledged, InsertRow
    <2> QED
      BY <1>0, <2>1, <2>2
  <1>3. CASE ratings' = ratings
    BY <1>0, <1>3
  <1>4. CASE \E k \in Keys, v \in Values : PutRating(k, v)
    BY <1>0, <1>1, <1>4
  <1> QED
    BY <1>2, <1>3, <1>4 DEF Next, Produce, IngesterStep, CheckContext, CloseChannel, CloseConsumer,
       CloseClosedChannel, Die, ReadMessage, ReadMalformed, ReadFails, Send, ControllerStep, Subscribe,
       SubscribeFails, Receive, ReceiveClosed, PutEventDuplicate, PutEventUnknownUser, PutEventFails,
       AutoCommit, Signal, Exit,
       Crash, Restart, Over, vars

LEMMA TypeStep ==
  ASSUME IInv, [Next]_vars
  PROVE  TypeOK'
PROOF
  <1>1. TypeOK
    BY DEF IInv
  <1>2. FlagsOK'
    BY <1>1, FlagsStep, TypeParts
  <1>3. /\ topic' \in Seq(Events)
        /\ ratings' \in [Keys -> Values \cup {NoRating}]
        /\ NumbersOK'
    BY <1>1, TopicGrows, RatingsStep, NumbersStep
  <1> QED
    BY <1>2, <1>3 DEF TypeOK, FlagsOK, NumbersOK

LEMMA HandsFitStep ==
  ASSUME IInv, [Next]_vars
  PROVE  HandsFit'
PROOF
  <1> USE DEF HandsFit, Older, kafkaVars, ingestVars, channelVars, controlVars, processVars
  <1>0. /\ HandsFit
        /\ {committed, position, sending, buffer, putting} \subseteq Nat
        /\ running \in BOOLEAN
    BY TopicGrows DEF IInv, TypeOK, Offsets
  <1>1. CASE Produce \/ Signal \/ UNCHANGED vars
    BY <1>0, <1>1 DEF Produce, Signal, vars
  <1>2. ASSUME NEW k \in Keys, NEW v \in Values, PutRating(k, v) PROVE HandsFit'
    BY <1>0, <1>2 DEF PutRating
  <1>3. CASE IngesterStep
    <2>1. CASE CheckContext \/ CloseChannel \/ CloseConsumer \/ ReadFails \/ Send
      BY <1>0, <2>1 DEF CheckContext, CloseChannel, CloseConsumer, ReadFails, Send
    <2>2. CASE CloseClosedChannel
      BY <1>0, <2>2 DEF CloseClosedChannel, Die
    <2>3. CASE ReadMessage \/ ReadMalformed
      BY <1>0, <2>3 DEF ReadMessage, ReadMalformed
    <2> QED
      BY <1>3, <2>1, <2>2, <2>3 DEF IngesterStep
  <1>4. CASE ControllerStep
    <2>1. CASE Subscribe \/ SubscribeFails \/ Receive \/ ReceiveClosed
      BY <1>0, <2>1 DEF Subscribe, SubscribeFails, Receive, ReceiveClosed
    <2>2. CASE PutEvent \/ PutEventDuplicate \/ PutEventUnknownUser \/ PutEventFails
               \/ PutEventUnacknowledged
      BY <1>0, <2>2 DEF PutEvent, PutEventDuplicate, PutEventUnknownUser, PutEventFails,
         PutEventUnacknowledged, Attempted
    <2> QED
      BY <1>4, <2>1, <2>2 DEF ControllerStep
  <1>5. CASE AutoCommit \/ Restart
    BY <1>0, <1>5 DEF AutoCommit, Restart
  <1>6. CASE Exit \/ Crash
    BY <1>0, <1>6 DEF Exit, Crash, Die
  <1> QED
    BY <1>1, <1>2, <1>3, <1>4, <1>5, <1>6 DEF Next, Over

LEMMA EventsFitStep ==
  ASSUME IInv, [Next]_vars
  PROVE  EventsFit'
PROOF
  <1> USE DEF kafkaVars, ingestVars, channelVars, controlVars, historyVars
  <1>0. /\ EventsFit /\ TypeOK
        /\ Held \cup stored \subseteq 1 .. Len(topic)
        /\ Len(topic) \in Nat
    <2>1. Len(topic) \in Nat /\ EventsFit /\ TypeOK
      BY TopicGrows DEF IInv
    <2>2. ASSUME NEW o \in Held \cup stored PROVE o \in 1 .. Len(topic)
      <3>1. o \in Offsets /\ o # 0
        BY <2>1, TypeParts DEF EventsFit, Held, NumbersOK
      <3> QED
        BY <2>1, <3>1 DEF Offsets
    <2> QED
      BY <2>1, <2>2
  (* Where nothing new is held or stored. *)
  <1>1. ASSUME (Held \cup stored)' \subseteq Held \cup stored,
               0 \notin (attempted \cup skipped)'
        PROVE  EventsFit'
    BY <1>0, <1>1, TopicGrows DEF EventsFit, IInv
  <1>2. CASE ReadMessage
    <2>1. topic[position + 1] \in RatingEvent /\ position + 1 # 0 /\ topic' = topic
      <3>1. position + 1 \in 1 .. Len(topic)
        BY <1>0, <1>2 DEF ReadMessage, TypeOK, Offsets
      <3> QED
        BY <1>0, <1>2, <3>1, EventsAssumption DEF ReadMessage, TypeOK
    <2>2. (Held \cup stored)' \subseteq Held \cup stored \cup {position + 1}
      BY <1>2 DEF ReadMessage, Held
    <2> QED
      BY <1>0, <1>2, <2>1, <2>2 DEF ReadMessage, EventsFit
  <1>3. CASE ReadMalformed
    BY <1>0, <1>1, <1>3 DEF ReadMalformed, Held, EventsFit, TypeOK, Offsets
  <1>4. CASE \/ Produce \/ (\E k \in Keys, v \in Values : PutRating(k, v)) \/ AutoCommit \/ Signal
             \/ UNCHANGED vars
    BY <1>0, <1>1, <1>4 DEF Produce, PutRating, AutoCommit, Signal, vars, Held, EventsFit
  <1>5. CASE CheckContext \/ CloseChannel \/ CloseConsumer \/ ReadFails \/ Send
    BY <1>0, <1>1, <1>5 DEF CheckContext, CloseChannel, CloseConsumer, ReadFails, Send, Held, EventsFit
  <1>6. CASE Subscribe \/ SubscribeFails \/ Receive \/ ReceiveClosed \/ Restart
    BY <1>0, <1>1, <1>6 DEF Subscribe, SubscribeFails, Receive, ReceiveClosed, Restart, Held, EventsFit
  <1>7. CASE PutEvent \/ PutEventDuplicate \/ PutEventUnknownUser \/ PutEventFails \/ PutEventUnacknowledged
    <2>1. controller = "put" /\ putting \in Held /\ putting # 0
      BY <1>7, PuttingTyped DEF PutEvent, PutEventDuplicate, PutEventUnknownUser, PutEventFails,
         PutEventUnacknowledged
    <2>2. (Held \cup stored)' \subseteq Held \cup stored /\ attempted' = attempted \cup {putting}
          /\ skipped' = skipped
      BY <1>7, <2>1 DEF PutEvent, PutEventDuplicate, PutEventUnknownUser, PutEventFails,
         PutEventUnacknowledged, InsertRow,
         Attempted, Held
    <2> QED
      BY <1>0, <1>1, <2>1, <2>2 DEF EventsFit
  <1>8. CASE CloseClosedChannel \/ Exit \/ Crash
    BY <1>0, <1>1, <1>8 DEF CloseClosedChannel, Exit, Crash, Die, Held, EventsFit
  <1> QED
    BY <1>1, <1>2, <1>3, <1>4, <1>5, <1>6, <1>7, <1>8 DEF Next, IngesterStep, ControllerStep, Over

LEMMA FirstRatingStandsStep ==
  ASSUME IInv, [Next]_vars
  PROVE  FirstRatingStands'
PROOF
  <1>1. ASSUME NEW o \in stored PROVE ratings'[topic'[o].key] = topic'[o].value
    <2>1. /\ topic[o] \in RatingEvent /\ o \in 1 .. Len(topic)
          /\ ratings[topic[o].key] = topic[o].value
      <3>1. Len(topic) \in Nat
        BY TopicGrows DEF IInv
      <3> QED
        BY <3>1 DEF IInv, EventsFit, FirstRatingStands, TypeOK, Offsets
    <2>2. topic'[o] = topic[o]
      BY <2>1, TopicGrows DEF IInv
    <2> QED
      BY <2>1, <2>2, RatingsStep, NoRatingAssumption DEF RatingEvent
  <1>2. CASE PutEvent \/ PutEventUnacknowledged
    <2>1. /\ topic' = topic
          /\ ratings' = [ratings EXCEPT ![topic[putting].key] = topic[putting].value]
          /\ stored' = stored \cup {putting}
      BY <1>2 DEF PutEvent, PutEventUnacknowledged, InsertRow, Attempted, kafkaVars
    <2>2. ratings'[topic[putting].key] = topic[putting].value
      BY <1>2, <2>1, PuttingTyped DEF PutEvent, PutEventUnacknowledged, IInv, TypeOK
    <2> QED
      BY <1>1, <2>1, <2>2 DEF FirstRatingStands
  <1>3. CASE stored' = stored
    BY <1>1, <1>3 DEF FirstRatingStands
  <1> QED
    BY <1>2, <1>3 DEF Next, Produce, PutRating, IngesterStep, CheckContext, CloseChannel, CloseConsumer,
       CloseClosedChannel, Die, ReadMessage, ReadMalformed, ReadFails, Send, ControllerStep, Subscribe,
       SubscribeFails, Receive, ReceiveClosed, PutEventDuplicate, PutEventUnknownUser, PutEventFails,
       AutoCommit, Signal, Exit,
       Crash, Restart, Over, vars, historyVars

LEMMA InitIInv == Init => IInv
PROOF
  <1> SUFFICES ASSUME Init PROVE IInv
    OBVIOUS
  <1>1. topic \in Seq(Events) /\ Len(topic) = 0
    BY DEF Init
  <1>2. TypeOK
    <2>1. FlagsOK
      BY DEF Init, FlagsOK
    <2>2. NumbersOK
      BY <1>1, BoundsAssumption DEF Init, NumbersOK, Offsets
    <2>3. ratings \in [Keys -> Values \cup {NoRating}]
      BY DEF Init
    <2> QED
      BY <1>1, <2>1, <2>2, <2>3, TypeParts
  <1>3. HandsFit /\ EventsFit /\ FirstRatingStands
    BY DEF Init, HandsFit, Older, EventsFit, Held, FirstRatingStands
  <1> QED
    BY <1>2, <1>3 DEF IInv

LEMMA InductiveInvariant == Spec => []IInv
PROOF
  <1>1. IInv /\ [Next]_vars => IInv'
    BY TypeStep, HandsFitStep, EventsFitStep, FirstRatingStandsStep DEF IInv
  <1> QED
    BY <1>1, InitIInv, PTL DEF Spec

(* Every variable keeps its type. *)
THEOREM TypeCorrect == Spec => []TypeOK
BY InductiveInvariant, PTL DEF IInv

(* No rating that an event put into the table is ever overwritten. *)
THEOREM RatingsStand == Spec => []FirstRatingStands
BY InductiveInvariant, PTL DEF IInv

(***************************************************************************)
(* The ingestion implements EventPipe                                      *)
(***************************************************************************)

(* There are three places for an event. *)
LEMMA ThreePlaces ==
  ASSUME NEW a, NEW b, NEW c
  PROVE  /\ IsFiniteSet({a, b, c}) /\ Cardinality({a, b, c}) <= 3
         /\ IsFiniteSet({a, b}) /\ Cardinality({a, b}) <= 2
PROOF
  <1>1. IsFiniteSet({a}) /\ Cardinality({a}) = 1
    BY FS_Singleton
  <1>2. {a, b} = {a} \cup {b} /\ {a, b, c} = {a, b} \cup {c}
    OBVIOUS
  <1>3. IsFiniteSet({a, b}) /\ Cardinality({a, b}) \in {1, 2}
    BY <1>1, <1>2, FS_AddElement
  <1>4. IsFiniteSet({a, b, c}) /\ Cardinality({a, b, c}) \in {1, 2, 3}
    BY <1>2, <1>3, FS_AddElement
  <1> QED
    BY <1>3, <1>4

LEMMA SubsetIsSmall ==
  ASSUME NEW T, IsFiniteSet(T), NEW n \in Nat, Cardinality(T) <= n, NEW S \in SUBSET T
  PROVE  IsFiniteSet(S) /\ Cardinality(S) \in Nat /\ Cardinality(S) <= n
PROOF
  <1>1. IsFiniteSet(S) /\ Cardinality(S) <= Cardinality(T)
    BY FS_Subset
  <1>2. Cardinality(S) \in Nat /\ Cardinality(T) \in Nat
    BY <1>1, FS_CardinalityType
  <1> QED
    BY <1>1, <1>2

LEMMA HeldIsSmall ==
  /\ IsFiniteSet(Held) /\ Cardinality(Held) \in Nat /\ Cardinality(Held) <= 3
  /\ sending = 0 \/ putting = 0 => Cardinality(Held) < 3
PROOF
  <1>1. IsFiniteSet(Held) /\ Cardinality(Held) \in Nat /\ Cardinality(Held) <= 3
    <2>1. Held \in SUBSET {sending, buffer, putting}
      BY DEF Held
    <2>2. IsFiniteSet({sending, buffer, putting}) /\ Cardinality({sending, buffer, putting}) <= 3
      BY ThreePlaces
    <2> QED
      BY <2>1, <2>2, SubsetIsSmall
  <1>2. ASSUME NEW p \in {sending, putting}, Held \subseteq {buffer, p}
        PROVE  Cardinality(Held) < 3
    <2>1. IsFiniteSet({buffer, p}) /\ Cardinality({buffer, p}) <= 2
      BY ThreePlaces
    <2> QED
      BY <1>1, <1>2, <2>1, SubsetIsSmall
  <1>3. /\ sending = 0 => Held \subseteq {buffer, putting}
        /\ putting = 0 => Held \subseteq {buffer, sending}
    BY DEF Held
  <1> QED
    BY <1>1, <1>2, <1>3

LEMMA StepImplements ==
  ASSUME IInv, IInv', [Next]_vars
  PROVE  Pipe!Next \/ UNCHANGED Pipe!vars
PROOF
  <1> USE DEF kafkaVars, ingestVars, channelVars, controlVars, historyVars
  <1>0. /\ {committed, position, sending, buffer, putting} \subseteq Nat
        /\ HandsFit
    BY TopicGrows, TypeParts DEF IInv, NumbersOK, Offsets
  <1>1. CASE ReadMessage
    <2>1. sending = 0
      BY <1>0, <1>1 DEF ReadMessage, HandsFit
    <2>2. Held' = Held \cup {position + 1}
      BY <1>0, <1>1, <2>1 DEF ReadMessage, Held
    <2>3. Cardinality(Held) < 3
      BY <2>1, HeldIsSmall
    <2>4. position' = position + 1 /\ UNCHANGED attempted
      BY <1>1 DEF ReadMessage
    <2>5. Pipe!Take
      BY <2>2, <2>3, <2>4 DEF Pipe!Take, Pipe!Cardinality, Cardinality
    <2> QED
      BY <2>5 DEF Pipe!Next
  <1>2. CASE ReadMalformed
    <2>1. Pipe!Skip
      BY <1>2 DEF ReadMalformed, Held, Pipe!Skip
    <2> QED
      BY <2>1 DEF Pipe!Next
  <1>3. CASE PutEvent \/ PutEventDuplicate \/ PutEventUnknownUser \/ PutEventFails \/ PutEventUnacknowledged
    <2>1. /\ controller = "put" /\ putting' = 0 /\ attempted' = attempted \cup {putting}
          /\ UNCHANGED <<position, sending, buffer>>
      BY <1>3 DEF PutEvent, PutEventDuplicate, PutEventUnknownUser, PutEventFails,
         PutEventUnacknowledged, Attempted
    <2>2. putting # 0 /\ putting # buffer /\ putting # sending
      BY <1>0, <2>1 DEF HandsFit, Older
    <2>3. putting \in Held /\ \A p \in Held : putting <= p
      BY <1>0, <2>1, <2>2 DEF Held, HandsFit, Older
    <2>4. Held' = Held \ {putting}
      BY <2>1, <2>2 DEF Held
    <2>5. Pipe!Handle
      BY <2>1, <2>3, <2>4 DEF Pipe!Handle
    <2> QED
      BY <2>5 DEF Pipe!Next
  <1>4. CASE CloseClosedChannel \/ Exit \/ Crash
    <2>1. Pipe!Drop
      BY <1>4 DEF CloseClosedChannel, Exit, Crash, Die, Held, Pipe!Drop
    <2> QED
      BY <2>1 DEF Pipe!Next
  <1>5. CASE Restart
    <2>1. Held = {} /\ Held' = {}
      BY <1>0, <1>5 DEF Restart, HandsFit, Held
    <2>2. Pipe!Rewind
      BY <1>0, <1>5, <2>1 DEF Restart, HandsFit, Pipe!Rewind
    <2> QED
      BY <2>2 DEF Pipe!Next
  <1>6. CASE Send \/ Receive
    <2>1. Held' = Held
      BY <1>0, <1>6 DEF Send, Receive, HandsFit, Held
    <2> QED
      BY <1>6, <2>1 DEF Send, Receive, Pipe!vars
  <1>7. ASSUME UNCHANGED <<position, sending, buffer, putting, attempted>>
        PROVE  UNCHANGED Pipe!vars
    BY <1>7 DEF Held, Pipe!vars
  <1> QED
    BY <1>1, <1>2, <1>3, <1>4, <1>5, <1>6, <1>7 DEF Next, Produce, PutRating, IngesterStep, CheckContext,
       CloseChannel, CloseConsumer, ReadFails, ControllerStep, Subscribe, SubscribeFails, ReceiveClosed,
       AutoCommit, Signal, Over, vars

(* Events pass from Kafka to PutRating in order, through at most three     *)
(* places: the goroutine of ingester.go, the channel, StartIngestion.      *)
THEOREM Implementation == Spec => ImplementsPipe
PROOF
  <1>1. Init => Pipe!Init
    BY DEF Init, Held, Pipe!Init
  <1>2. IInv /\ IInv' /\ [Next]_vars => [Pipe!Next]_(Pipe!vars)
    BY StepImplements
  <1> QED
    BY <1>1, <1>2, InductiveInvariant, PTL DEF Spec, ImplementsPipe, Pipe!Spec

(***************************************************************************)
(* How many events are lost                                                *)
(***************************************************************************)
LEMMA LostTyped ==
  ASSUME IInv
  PROVE  IsFiniteSet(Lost) /\ Cardinality(Lost) \in Nat /\ Deaths \in Nat /\ position \in Nat
PROOF
  <1>1. position \in Nat /\ lives \in Nat /\ lives >= 1
    BY TypeParts DEF IInv, NumbersOK, Offsets
  <1>2. Lost \in SUBSET (1 .. position)
    BY DEF Lost
  <1>3. IsFiniteSet(1 .. position)
    BY <1>1, FS_Interval
  <1>4. IsFiniteSet(Lost)
    BY <1>2, <1>3, FS_Subset
  <1> QED
    BY <1>1, <1>4, FS_CardinalityType DEF Deaths

(* As long as the process runs, or is down, what it was given stays        *)
(* accounted for.                                                          *)
LEMMA NothingIsLost ==
  ASSUME IInv, IInv', [Next]_vars, running' = running \/ Restart
  PROVE  Lost' \subseteq Lost
PROOF
  <1> USE DEF Lost, Held, kafkaVars, ingestVars, channelVars, controlVars, historyVars
  <1>0. position \in Nat /\ committed \in Nat /\ HandsFit
    BY LostTyped, TypeParts DEF IInv, NumbersOK, Offsets
  <1>1. CASE ReadMessage \/ ReadMalformed
    BY <1>0, <1>1 DEF ReadMessage, ReadMalformed, HandsFit
  <1>2. CASE PutEvent \/ PutEventDuplicate \/ PutEventUnknownUser \/ PutEventFails \/ PutEventUnacknowledged
    BY <1>2 DEF PutEvent, PutEventDuplicate, PutEventUnknownUser, PutEventFails,
       PutEventUnacknowledged, Attempted
  <1>3. CASE Send \/ Receive
    BY <1>0, <1>3 DEF Send, Receive, HandsFit
  <1>4. CASE Restart
    BY <1>0, <1>4 DEF Restart, HandsFit
  <1>5. CASE UNCHANGED <<position, sending, buffer, putting, attempted, skipped>>
    BY <1>5
  <1>6. ~ (CloseClosedChannel \/ Exit \/ Crash)
    BY <1>4 DEF CloseClosedChannel, Exit, Crash, Die, Restart
  <1> QED
    BY <1>1, <1>2, <1>3, <1>4, <1>5, <1>6 DEF Next, Produce, PutRating, IngesterStep, CheckContext,
       CloseChannel, CloseConsumer, ReadFails, ControllerStep, Subscribe, SubscribeFails, ReceiveClosed,
       AutoCommit, Signal, Over, vars

(* The process runs, or does not, as before; it ends; or it begins again. *)
LEMMA RunningMoves ==
  ASSUME [Next]_vars
  PROVE  \/ running' = running /\ lives' = lives
         \/ running /\ ~ running' /\ lives' = lives /\ (CloseClosedChannel \/ Exit \/ Crash)
         \/ Restart
BY DEF Next, Produce, PutRating, IngesterStep, CheckContext, CloseChannel, CloseConsumer,
   CloseClosedChannel,
   Die, ReadMessage, ReadMalformed, ReadFails, Send, ControllerStep, Subscribe, SubscribeFails, Receive,
   ReceiveClosed, PutEvent, PutEventDuplicate, PutEventUnknownUser, PutEventFails,
   PutEventUnacknowledged, Attempted, AutoCommit,
   Signal, Exit, Crash, Over, vars, processVars

LEMMA LossStep ==
  ASSUME IInv, IInv', [Next]_vars, LossIsBounded
  PROVE  LossIsBounded'
PROOF
  <1>0. /\ IsFiniteSet(Lost) /\ Cardinality(Lost) \in Nat /\ Deaths \in Nat
        /\ lives \in Nat /\ Cardinality(Lost) <= 3 * Deaths
    BY LostTyped, TypeParts DEF IInv, NumbersOK, LossIsBounded
  <1>1. CASE running' = running /\ lives' = lives
    <2>1. Lost' \in SUBSET Lost
      BY <1>1, NothingIsLost
    <2>2. Cardinality(Lost') <= 3 * Deaths
      BY <1>0, <2>1, SubsetIsSmall
    <2>3. Deaths' = Deaths
      BY <1>1 DEF Deaths
    <2> QED
      BY <2>2, <2>3 DEF LossIsBounded
  <1>2. CASE Restart
    <2>1. Lost' \in SUBSET Lost
      BY <1>2, NothingIsLost
    <2>2. Cardinality(Lost') <= 3 * Deaths
      BY <1>0, <2>1, SubsetIsSmall
    <2>3. Deaths' = Deaths
      BY <1>0, <1>2 DEF Restart, Deaths
    <2> QED
      BY <2>2, <2>3 DEF LossIsBounded
  <1>3. CASE running /\ ~ running' /\ lives' = lives /\ (CloseClosedChannel \/ Exit \/ Crash)
    <2>1. Lost' \in SUBSET (Lost \cup Held)
      BY <1>3 DEF CloseClosedChannel, Exit, Crash, Die, Lost, historyVars
    <2>2. /\ IsFiniteSet(Lost \cup Held)
          /\ Cardinality(Lost \cup Held) <= 3 * Deaths + 3
      <3>1. /\ IsFiniteSet(Lost \cup Held)
            /\ Cardinality(Lost \cup Held)
                 = Cardinality(Lost) + Cardinality(Held) - Cardinality(Lost \cap Held)
        BY <1>0, HeldIsSmall, FS_Union
      <3>2. Cardinality(Lost \cap Held) \in Nat
        BY <1>0, FS_Subset, FS_CardinalityType
      <3> QED
        BY <1>0, <3>1, <3>2, HeldIsSmall
    <2>3. Deaths' = Deaths + 1
      BY <1>0, <1>3 DEF Deaths
    <2>4. Cardinality(Lost') <= 3 * Deaths + 3
      BY <1>0, <2>1, <2>2, SubsetIsSmall
    <2> QED
      BY <1>0, <2>3, <2>4 DEF LossIsBounded
  <1> QED
    BY <1>1, <1>2, <1>3, RunningMoves

(* A process that ends, by a signal, a crash or a panic, loses at most     *)
(* three events: Kafka has their offsets and nobody has their ratings.     *)
THEOREM LossBounded == Spec => []LossIsBounded
PROOF
  <1>1. Init => LossIsBounded
    <2> SUFFICES ASSUME Init PROVE LossIsBounded
      OBVIOUS
    <2>1. Lost = {} /\ Deaths = 0
      BY DEF Init, Lost, Deaths
    <2> QED
      BY <2>1, FS_EmptySet DEF LossIsBounded
  <1>2. IInv /\ IInv' /\ [Next]_vars /\ LossIsBounded => LossIsBounded'
    BY LossStep
  <1> QED
    BY <1>1, <1>2, InductiveInvariant, PTL DEF Spec

(***************************************************************************)
(* How many ratings are missing                                            *)
(***************************************************************************)
Allowed == 3 * Deaths + (IF HasEnded THEN 1 ELSE 0)

LEMMA MissingTyped ==
  ASSUME IInv
  PROVE  /\ IsFiniteSet(Missing) /\ Cardinality(Missing) \in Nat
         /\ Allowed \in Nat /\ position \in Nat
PROOF
  <1>1. position \in Nat /\ Deaths \in Nat
    BY LostTyped
  <1>2. Missing \in SUBSET (1 .. position)
    BY DEF Missing
  <1>3. IsFiniteSet(1 .. position)
    BY <1>1, FS_Interval
  <1>4. IsFiniteSet(Missing)
    BY <1>2, <1>3, FS_Subset
  <1> QED
    BY <1>1, <1>4, FS_CardinalityType DEF Allowed

(* StartIngestion returns with an event in its hands that is no row. *)
Refuse == controller = "put" /\ controller' = "returned" /\ running' = running

(* As long as the process runs, or is down, no rating goes missing but the *)
(* one that ends StartIngestion.                                           *)
LEMMA MissingStays ==
  ASSUME IInv, IInv', [Next]_vars, running' = running \/ Restart, ~ Refuse
  PROVE  Missing' \subseteq Missing
PROOF
  <1> USE DEF Held, kafkaVars, ingestVars, channelVars, controlVars, processVars, historyVars
  <1>0. /\ position \in Nat /\ committed \in Nat /\ HandsFit /\ TypeOK
        /\ Len(topic) \in Nat /\ position <= Len(topic)
    <2>1. Len(topic) \in Nat /\ position \in Offsets /\ committed \in Offsets
      BY TopicGrows, TypeParts DEF IInv, NumbersOK
    <2> QED
      BY <2>1 DEF IInv, Offsets
  <1>1. \A o \in 1 .. position : topic'[o] = topic[o]
    BY <1>0, TopicGrows
  (* Where nothing leaves the hands that hold it. *)
  <1>2. ASSUME position' <= position, position' \in Nat, (stored \cup Held) \subseteq (stored \cup Held)'
        PROVE  Missing' \subseteq Missing
    <2>1. ASSUME NEW o \in 1 .. position', topic'[o] # Malformed, o \notin (stored \cup Held)'
          PROVE  o \in Missing
      <3>1. o \in 1 .. position
        BY <1>0, <1>2
      <3> QED
        BY <1>1, <1>2, <2>1, <3>1 DEF Missing
    <2> QED
      BY <2>1 DEF Missing
  <1>3. CASE ReadMessage
    <2>1. position' = position + 1 /\ topic' = topic /\ stored' = stored
          /\ Held' = Held \cup {position + 1}
      BY <1>0, <1>3 DEF ReadMessage, HandsFit
    <2>2. ASSUME NEW o \in Missing' PROVE o \in Missing
      <3>1. o \in 1 .. position + 1 /\ topic[o] # Malformed /\ o \notin stored \cup Held'
        BY <2>1, <2>2 DEF Missing
      <3>2. o # position + 1 /\ o \notin Held
        BY <2>1, <3>1
      <3>3. o \in 1 .. position
        BY <1>0, <3>1, <3>2
      <3> QED
        BY <3>1, <3>2, <3>3 DEF Missing
    <2> QED
      BY <2>2
  <1>4. CASE ReadMalformed
    <2>1. position' = position + 1 /\ topic' = topic /\ stored' = stored /\ Held' = Held
          /\ topic[position + 1] = Malformed
      BY <1>4 DEF ReadMalformed
    <2> QED
      BY <1>0, <2>1 DEF Missing
  <1>5. CASE PutEvent \/ PutEventDuplicate \/ PutEventUnknownUser \/ PutEventFails \/ PutEventUnacknowledged
    <2>1. CASE PutEvent
      BY <1>0, <1>2, <2>1 DEF PutEvent, InsertRow, Attempted
    <2>2. CASE PutEventUnacknowledged
      BY <1>0, <1>2, <2>2 DEF PutEventUnacknowledged, InsertRow, Attempted
    <2>3. CASE PutEventDuplicate \/ PutEventUnknownUser \/ PutEventFails
      BY <2>3 DEF PutEventDuplicate, PutEventUnknownUser, PutEventFails, Attempted, Refuse
    <2> QED
      BY <1>5, <2>1, <2>2, <2>3
  <1>6. CASE Send \/ Receive
    <2>1. Held' = Held
      BY <1>0, <1>6 DEF Send, Receive, HandsFit
    <2> QED
      BY <1>0, <1>2, <1>6, <2>1 DEF Send, Receive
  <1>7. CASE Restart
    <2>1. Held = {} /\ stored' = stored /\ position' = committed
      BY <1>0, <1>7 DEF Restart, HandsFit
    <2> QED
      BY <1>0, <1>2, <2>1 DEF HandsFit
  <1>8. CASE UNCHANGED <<position, sending, buffer, putting, stored>>
    BY <1>0, <1>2, <1>8
  <1>9. ~ (CloseClosedChannel \/ Exit \/ Crash)
    BY DEF CloseClosedChannel, Exit, Crash, Die, Restart
  <1> QED
    BY <1>3, <1>4, <1>5, <1>6, <1>7, <1>8, <1>9 DEF Next, Produce, PutRating, IngesterStep, CheckContext,
       CloseChannel, CloseConsumer, ReadFails, ControllerStep, Subscribe, SubscribeFails, ReceiveClosed,
       AutoCommit, Signal, Over, vars

(* A set of which a few are added to a small one is small. *)
LEMMA FewMore ==
  ASSUME NEW S, IsFiniteSet(S), NEW n \in Nat, Cardinality(S) <= n,
         NEW T, IsFiniteSet(T), NEW k \in Nat, Cardinality(T) <= k,
         NEW U \in SUBSET (S \cup T)
  PROVE  Cardinality(U) <= n + k
PROOF
  <1>1. /\ IsFiniteSet(S \cup T)
        /\ Cardinality(S \cup T) = Cardinality(S) + Cardinality(T) - Cardinality(S \cap T)
    BY FS_Union
  <1>2. Cardinality(S \cap T) \in Nat /\ Cardinality(S) \in Nat /\ Cardinality(T) \in Nat
    BY FS_Subset, FS_CardinalityType
  <1>3. Cardinality(S \cup T) <= n + k /\ n + k \in Nat
    BY <1>1, <1>2
  <1> QED
    BY <1>1, <1>3, SubsetIsSmall

(* A StartIngestion that has returned stays so as long as its process. *)
LEMMA EndedStays ==
  ASSUME [Next]_vars, HasEnded, running'
  PROVE  HasEnded'
BY DEF HasEnded, Next, Produce, PutRating, IngesterStep, CheckContext, CloseChannel, CloseConsumer,
   CloseClosedChannel, Die, ReadMessage, ReadMalformed, ReadFails, Send, ControllerStep, Subscribe,
   SubscribeFails, Receive, ReceiveClosed, PutEvent, PutEventDuplicate, PutEventUnknownUser, PutEventFails,
   PutEventUnacknowledged, AutoCommit, Signal, Exit, Crash, Restart, Over, vars, controlVars, processVars

LEMMA MissingStep ==
  ASSUME IInv, IInv', [Next]_vars, Cardinality(Missing) <= Allowed
  PROVE  Cardinality(Missing)' <= Allowed'
PROOF
  <1>0. /\ IsFiniteSet(Missing) /\ Cardinality(Missing) \in Nat /\ Allowed \in Nat
        /\ Deaths \in Nat /\ lives \in Nat /\ HandsFit /\ HandsFit' /\ running \in BOOLEAN
        /\ running' \in BOOLEAN
    <2>1. /\ HandsFit /\ HandsFit'
          /\ running \in BOOLEAN /\ lives \in 1 .. MaxLives
          /\ running' \in BOOLEAN
      BY DEF IInv, TypeOK
    <2> QED
      BY <2>1, MissingTyped, LostTyped, BoundsAssumption
  <1>1. ASSUME Missing' \subseteq Missing, Allowed' \in {Allowed, Allowed + 1}
        PROVE  Cardinality(Missing)' <= Allowed'
    BY <1>0, <1>1, SubsetIsSmall
  <1>2. CASE running' = running /\ lives' = lives /\ ~ Refuse
    <2>1. Allowed' \in {Allowed, Allowed + 1}
      BY <1>0, <1>2, EndedStays DEF Allowed, Deaths, HasEnded
    <2> QED
      BY <1>1, <1>2, <2>1, MissingStays
  <1>3. CASE Restart
    <2>1. Allowed' = Allowed
      BY <1>0, <1>3 DEF Restart, Allowed, Deaths, HasEnded
    <2>2. ~ Refuse
      BY <1>3 DEF Restart, Refuse
    <2> QED
      BY <1>0, <1>1, <1>3, <2>1, <2>2, MissingStays
  <1>4. CASE running' = running /\ lives' = lives /\ Refuse
    <2>1. running
      BY <1>0, <1>4 DEF HandsFit, Refuse
    <2>2. Allowed' = Allowed + 1
      BY <1>0, <1>4, <2>1 DEF Allowed, Deaths, HasEnded, Refuse
    <2>3. Missing' \subseteq Missing \cup {putting}
      <3>1. CASE PutEvent \/ PutEventDuplicate \/ PutEventUnknownUser \/ PutEventFails
                 \/ PutEventUnacknowledged
        BY <3>1 DEF PutEvent, PutEventDuplicate, PutEventUnknownUser, PutEventFails,
           PutEventUnacknowledged, InsertRow,
           Attempted, Missing, Held, kafkaVars, ingestVars, channelVars
      <3> QED
        BY <1>4, <2>1, <3>1 DEF Refuse, Next, Produce, PutRating, IngesterStep, CheckContext, CloseChannel,
           CloseConsumer, CloseClosedChannel, Die, ReadMessage, ReadMalformed, ReadFails, Send,
           ControllerStep, Subscribe, SubscribeFails, Receive, ReceiveClosed, AutoCommit, Signal, Exit,
           Crash, Restart, Over, vars, controlVars
    <2>4. IsFiniteSet({putting}) /\ Cardinality({putting}) <= 1
      <3>1. IsFiniteSet({putting}) /\ Cardinality({putting}) = 1
        BY FS_Singleton
      <3> QED
        BY <3>1
    <2> QED
      BY <1>0, <2>2, <2>3, <2>4, FewMore
  <1>5. CASE running /\ ~ running' /\ lives' = lives /\ (CloseClosedChannel \/ Exit \/ Crash)
    <2>1. Missing' \subseteq Missing \cup Held
      BY <1>5 DEF CloseClosedChannel, Exit, Crash, Die, Missing, historyVars, kafkaVars
    <2>2. Allowed' = 3 * Deaths + 3
      BY <1>0, <1>5 DEF Allowed, Deaths, HasEnded
    <2>3. CASE HasEnded
      <3>1. putting = 0
        BY <1>0, <2>3 DEF HandsFit, HasEnded
      <3>2. IsFiniteSet(Held) /\ Cardinality(Held) <= 2
        BY <3>1, HeldIsSmall
      <3>3. Allowed = 3 * Deaths + 1
        BY <1>0, <2>3 DEF Allowed
      <3>4. Cardinality(Missing') <= Allowed + 2
        BY <1>0, <2>1, <3>2, FewMore
      <3> QED
        BY <1>0, <2>2, <3>3, <3>4
    <2>4. CASE ~ HasEnded
      <3>1. Allowed = 3 * Deaths
        BY <1>0, <2>4 DEF Allowed
      <3>2. Cardinality(Missing') <= Allowed + 3
        BY <1>0, <2>1, HeldIsSmall, FewMore
      <3> QED
        BY <1>0, <2>2, <3>1, <3>2
    <2> QED
      BY <2>3, <2>4
  <1> QED
    BY <1>2, <1>3, <1>4, <1>5, RunningMoves

(* A life of the process costs three ratings at most: every other          *)
(* well-formed event that Kafka handed over became a row of `ratings`.     *)
THEOREM MissingBounded == Spec => []MissingIsBounded
PROOF
  <1>1. Init => Cardinality(Missing) <= Allowed
    <2> SUFFICES ASSUME Init PROVE Cardinality(Missing) <= Allowed
      OBVIOUS
    <2>1. Missing = {} /\ Deaths = 0 /\ ~ HasEnded
      BY DEF Init, Missing, Deaths, HasEnded
    <2> QED
      BY <2>1, FS_EmptySet DEF Allowed
  <1>2. IInv /\ IInv' /\ [Next]_vars /\ Cardinality(Missing) <= Allowed
          => (Cardinality(Missing) <= Allowed)'
    BY MissingStep
  <1>3. Cardinality(Missing) <= Allowed <=> MissingIsBounded
    BY DEF Allowed, MissingIsBounded
  <1> QED
    BY <1>1, <1>2, <1>3, InductiveInvariant, PTL DEF Spec

(***************************************************************************)
(* The channel                                                             *)
(***************************************************************************)
LEMMA ChannelFitsStep ==
  ASSUME ChannelFits, [Next]_vars
  PROVE  ChannelFits'
PROOF
  <1> USE DEF ChannelFits, channelVars, processVars, ingestVars
  <1>1. CASE IngesterStep
    BY <1>1 DEF IngesterStep, CheckContext, CloseChannel, CloseConsumer, CloseClosedChannel, Die,
       ReadMessage, ReadMalformed, ReadFails, Send
  <1>2. CASE ControllerStep
    BY <1>2 DEF ControllerStep, Subscribe, SubscribeFails, Receive, ReceiveClosed, PutEvent,
       PutEventDuplicate, PutEventUnknownUser, PutEventFails, PutEventUnacknowledged, Attempted
  <1> QED
    BY <1>1, <1>2 DEF Next, Produce, PutRating, AutoCommit, Signal, Exit, Crash, Die, Restart, Over, vars

(* ingester.go never sends on the channel it has closed: what it panics of *)
(* is closing it twice.                                                    *)
THEOREM SendsAreSafe == Spec => []SendsOnOpenChannel
PROOF
  <1>1. Init => ChannelFits
    BY DEF Init, ChannelFits
  <1>2. ChannelFits => SendsOnOpenChannel
    BY DEF ChannelFits, SendsOnOpenChannel
  <1> QED
    BY <1>1, <1>2, ChannelFitsStep, PTL DEF Spec

=============================================================================
