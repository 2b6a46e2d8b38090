----------------------------- MODULE EventPipe -----------------------------
(***************************************************************************)
(* What the rating service promises of the events of its Kafka topic: they *)
(* pass through a first-in first-out pipe that holds at most Capacity of   *)
(* them, an event is handled only from the pipe, and a process that ends   *)
(* loses what its pipe holds, to begin again at an offset it has already   *)
(* passed.  Module RatingIngestion implements it.                          *)
(*                                                                         *)
(* Offsets count from 1 and grow, so the pipe is a set of offsets and its  *)
(* head is the least of them.                                              *)
(***************************************************************************)
EXTENDS Naturals, FiniteSets

CONSTANT Capacity

VARIABLES position,   \* the last offset taken from the topic
          pending,    \* the offsets in the pipe
          handled     \* the offsets that left the pipe by being handled

vars == <<position, pending, handled>>

Init == position = 0 /\ pending = {} /\ handled = {}

Take ==
  /\ Cardinality(pending) < Capacity
  /\ position' = position + 1
  /\ pending' = pending \cup {position + 1}
  /\ UNCHANGED handled

Skip ==
  /\ position' = position + 1
  /\ UNCHANGED <<pending, handled>>

Handle ==
  \E o \in pending :
    /\ \A p \in pending : o <= p
    /\ pending' = pending \ {o}
    /\ handled' = handled \cup {o}
    /\ UNCHANGED position

(* The process ends, or begins again. *)
Drop ==
  /\ pending' = {}
  /\ UNCHANGED <<position, handled>>

Rewind ==
  /\ pending = {}
  /\ position' \in 0 .. position
  /\ UNCHANGED <<pending, handled>>

Next == Take \/ Skip \/ Handle \/ Drop \/ Rewind

Spec == Init /\ [][Next]_vars
=============================================================================
