----------------------- MODULE ServiceLifecycleProofs -----------------------
(***************************************************************************)
(* Theorems about module ServiceLifecycle, for any instances, services,    *)
(* ports, callers and limits.  The invariant IInv of that module is        *)
(* inductive, in three parts: the types, what calls rely on, and what the  *)
(* registry is left with.                                                  *)
(***************************************************************************)
EXTENDS ServiceLifecycle, TLAPS

USE NobodyAssumption, ServiceAssumption, AttemptsAssumption

(* The four mains: where main waits for the goroutine, the goroutine       *)
(* deregisters and nothing is left to deferred calls.                      *)
LEMMA Programs ==
  ASSUME NEW i \in Instances
  PROVE  \/ Unwinds(i) /\ Program(i).failure = "closing" /\ Program(i).drained = "returning"
         \/ ~ Unwinds(i) /\ Program(i).failure = "ended" /\ Program(i).drained = "drained"
BY DEF Unwinds, Program, Services, MovieMain, MetadataMain, RatingMain, AuthMain

(* A failed attempt is followed by a legal one, or by none. *)
LEMMA FailedOK ==
  ASSUME NEW k \in Calls, k.state # "idle"
  PROVE  Failed(k) \in Calls
<1>1. k \in Attempt /\ k.tries < MaxAttempts[Service[k.to]]
  BY DEF Calls, NoCall
<1>2. CASE k.tries + 1 < MaxAttempts[Service[k.to]]
  <2>1. k.to \in Instances /\ k.tries + 1 \in Nat
    BY <1>1 DEF Attempt
  <2> DEFINE n == k.tries + 1
             next == [k EXCEPT !.state = "dialing", !.tries = n]
  <2>2. Failed(k) = next
    BY <1>2 DEF Failed
  <2> HIDE DEF n
  <2>3. next \in Attempt /\ next.to = k.to /\ next.tries = n
    BY <1>1, <2>1 DEF Attempt, n
  <2>4. n < MaxAttempts[Service[k.to]]
    BY <1>2 DEF n
  <2> QED
    BY <2>2, <2>3, <2>4 DEF Calls
<1>3. CASE ~ (k.tries + 1 < MaxAttempts[Service[k.to]])
  BY <1>3 DEF Failed, Calls
<1> QED
  BY <1>2, <1>3

(* Whatever ends a process, the calls it handled are left in a legal state. *)
LEMMA EndOK ==
  ASSUME TypeOK, NEW i \in Instances, NEW to \in {"ended", "refused"}, End(i, to)
  PROVE  /\ call' \in [Callers -> Calls]
         /\ listening' = listening \ {i} /\ cut' \in SUBSET Instances
         /\ pc' = [pc EXCEPT ![i] = to]
         /\ \A c \in Callers : call'[c].state = "open" => call'[c] = call[c] /\ call[c].to # i
         /\ HandledBy(i) = {} => cut' = cut
         /\ cut' \subseteq cut \cup {i}
         /\ abandoned' = abandoned \ {i}
<1>1. \A c \in Callers : c \in HandledBy(i) =>
        Failed(call[c]) \in Calls /\ Failed(call[c]).state # "open"
  <2> SUFFICES ASSUME NEW c \in Callers, c \in HandledBy(i)
               PROVE  Failed(call[c]) \in Calls /\ Failed(call[c]).state # "open"
    OBVIOUS
  <2>1. call[c] \in Calls /\ call[c].state = "open"
    BY DEF HandledBy, TypeOK
  <2>2. call[c] \in Attempt
    BY <2>1 DEF Calls, NoCall
  <2>3. Failed(call[c]) \in Calls
    BY <2>1, FailedOK
  <2>4. Failed(call[c]).state # "open"
    BY <2>2 DEF Failed, NoCall, Attempt
  <2> QED
    BY <2>3, <2>4
<1>2. call' \in [Callers -> Calls]
  BY <1>1 DEF End, TypeOK
<1>3. \A c \in Callers : call'[c].state = "open" => call'[c] = call[c] /\ call[c].to # i
  BY <1>1 DEF End, HandledBy
<1> QED
  BY <1>2, <1>3 DEF End, Goto, TypeOK

(* Initially no process has started and nobody calls. *)
LEMMA InitInv == Init => IInv
BY DEF Init, IInv, TypeOK, Calls, NoCall, AcceptsUntilStopped, Accepts, HandledWhileServing,
       Handles, CutOnlyByFault, Counted,
       ForgottenWhenStopped, DeregisteredAtEnd

(* Every step keeps the types: what main, the goroutine and the            *)
(* environment do to one instance, and what its callers do.                *)
LEMMA TypeStep == TypeOK /\ [Next]_vars => TypeOK'
<1> SUFFICES ASSUME TypeOK, [Next]_vars PROVE TypeOK'
  OBVIOUS
<1> USE DEF TypeOK, Goto, StopperAt, Harm, processVars, registryVars, callVars, historyVars
<1>1. ASSUME NEW i \in Instances, Register(i) \/ RegisterFails(i) \/ Report(i) \/ Expire(i)
      PROVE  TypeOK'
  BY <1>1 DEF Register, RegisterFails, Report, Expire
<1>2. ASSUME NEW i \in Instances, Signal(i) PROVE TypeOK'
  BY <1>2 DEF Signal
<1>3. ASSUME NEW i \in Instances, IngestionPanics(i) \/ Crash(i) PROVE TypeOK'
  BY <1>3, EndOK DEF IngestionPanics, Crash
<1>4. ASSUME NEW i \in Instances, Setup(i) \/ SetupFails(i) \/ Listen(i) \/ ListenFails(i)
      PROVE  TypeOK'
  BY <1>4, Programs DEF Setup, SetupFails, Listen, ListenFails
<1>5. ASSUME NEW i \in Instances, Serve(i) \/ ServeReturns(i) \/ MainDone(i)
      PROVE  TypeOK'
  BY <1>5 DEF Serve, ServeReturns, MainDone
<1>6. ASSUME NEW i \in Instances, ServeRefused(i) \/ MainReturns(i) \/ Exit(i)
      PROVE  TypeOK'
  BY <1>6, EndOK DEF ServeRefused, MainReturns, Exit
<1>7. ASSUME NEW i \in Instances, DeferredDeregister(i) \/ DeferredDeregisterFails(i)
      PROVE  TypeOK'
  BY <1>7 DEF DeferredDeregister, DeferredDeregisterFails
<1>8. ASSUME NEW i \in Instances, GracefulStop(i) \/ Drained(i) \/ Deregister(i)
      PROVE  TypeOK'
  BY <1>8, Programs DEF GracefulStop, Drained, Deregister
<1>9. ASSUME NEW i \in Instances, DeregisterFails(i) \/ ShutdownTracer(i) \/ WaitGroupDone(i)
      PROVE  TypeOK'
  BY <1>9 DEF DeregisterFails, ShutdownTracer, WaitGroupDone
<1>10. ASSUME NEW i \in Instances, TracerFails(i) \/ WaitGroupPanics(i) PROVE TypeOK'
  BY <1>10, EndOK DEF TracerFails, WaitGroupPanics
<1>11. ASSUME NEW c \in Callers, Pick(c) PROVE TypeOK'
  <2>1. PICK i \in passing :
          call' = [call EXCEPT ![c] = [state |-> "dialing", to |-> i, tries |-> 0]]
    BY <1>11 DEF Pick
  <2>2. [state |-> "dialing", to |-> i, tries |-> 0] \in Calls
    BY DEF Calls, Attempt
  <2> QED
    BY <1>11, <2>1, <2>2 DEF Pick
<1>12. ASSUME NEW c \in Callers, Connect(c) PROVE TypeOK'
  <2>1. PICK i \in Instances : /\ Port[i] = Port[call[c].to]
                               /\ call' = [call EXCEPT ![c].state = "open", ![c].to = i]
    BY <1>12 DEF Connect
  <2> DEFINE k == call[c]
             next == [k EXCEPT !.state = "open", !.to = i]
  <2>2. k \in Attempt /\ k.tries < MaxAttempts[Service[k.to]]
    BY <1>12 DEF Connect, Calls, NoCall
  <2>3. Service[i] = Service[k.to]
    BY <2>1, <2>2, PortAssumption DEF Attempt
  <2>4. next \in Attempt /\ next.to = i /\ next.tries = k.tries
    BY <2>2 DEF Attempt
  <2>5. call' = [call EXCEPT ![c] = next]
    BY <2>1
  <2>6. next \in Calls
    BY <2>2, <2>3, <2>4 DEF Calls
  <2> HIDE DEF next
  <2>7. call' \in [Callers -> Calls]
    BY <2>5, <2>6
  <2> QED
    BY <1>12, <2>7 DEF Connect
<1>13. ASSUME NEW c \in Callers, ConnectFails(c) PROVE TypeOK'
  <2>1. Failed(call[c]) \in Calls
    BY <1>13, FailedOK DEF ConnectFails
  <2> QED
    BY <1>13, <2>1 DEF ConnectFails
<1>14. ASSUME NEW c \in Callers, Answer(c) PROVE TypeOK'
  BY <1>14 DEF Answer, Calls
<1>15. ASSUME NEW c \in Callers, Cancel(c) PROVE TypeOK'
  <2>1. call[c].state = "open" => call[c].to \in Instances
    BY DEF Calls, Attempt, NoCall
  <2>2. call' \in [Callers -> Calls]
    BY <1>15 DEF Cancel, Calls
  <2> QED
    BY <1>15, <2>1, <2>2 DEF Cancel
<1>16. ASSUME NEW i \in Instances, HandlersReturn(i) PROVE TypeOK'
  BY <1>16 DEF HandlersReturn
<1>17. CASE UNCHANGED vars
  BY <1>17 DEF vars
<1> QED
  BY <1>1, <1>2, <1>3, <1>4, <1>5, <1>6, <1>7, <1>8, <1>9, <1>10, <1>11, <1>12, <1>13,
     <1>14, <1>15, <1>16, <1>17 DEF Next, Environment, Main, Stopper, CallStep

(* A step that leaves the calls alone, and moves only instances that       *)
(* handle none, keeps what calls rely on.                                  *)
Handling == AcceptsUntilStopped /\ HandledWhileServing /\ CutOnlyByFault

LEMMA HandlingStep == TypeOK /\ Handling /\ [Next]_vars => Handling'
<1> SUFFICES ASSUME TypeOK, Handling, [Next]_vars PROVE Handling'
  OBVIOUS
<1> USE DEF Handling, AcceptsUntilStopped, Accepts, HandledWhileServing, Handles, CutOnlyByFault,
   Goto, StopperAt, Harm,
            processVars, registryVars, callVars, historyVars
<1>0. \A c \in Callers : call[c].state = "open" => call[c].to \in Instances
  BY DEF TypeOK, Calls, Attempt, NoCall
<1>1. ASSUME NEW i \in Instances, Register(i) \/ RegisterFails(i) \/ Report(i) \/ Expire(i)
      PROVE  Handling'
  BY <1>0, <1>1 DEF Register, RegisterFails, Report, Expire, TypeOK
<1>2. ASSUME NEW i \in Instances, Signal(i) PROVE Handling'
  BY <1>0, <1>2 DEF Signal, TypeOK
<1>3. ASSUME NEW i \in Instances, IngestionPanics(i) \/ Crash(i) PROVE Handling'
  BY <1>0, <1>3, EndOK DEF IngestionPanics, Crash, TypeOK
<1>4. ASSUME NEW i \in Instances, Setup(i) \/ SetupFails(i) \/ Listen(i) \/ ListenFails(i)
      PROVE  Handling'
  BY <1>0, <1>4, Programs DEF Setup, SetupFails, Listen, ListenFails, TypeOK
<1>5. ASSUME NEW i \in Instances, Serve(i) \/ ServeReturns(i) \/ MainDone(i)
      PROVE  Handling'
  BY <1>0, <1>5 DEF Serve, ServeReturns, MainDone, Stopped, TypeOK
<1>6. ASSUME NEW i \in Instances, ServeRefused(i) \/ MainReturns(i) \/ Exit(i)
      PROVE  Handling'
  <2>1. HandledBy(i) = {}
    BY <1>6 DEF HandledBy, ServeRefused, MainReturns, Exit
  <2> QED
    BY <1>0, <1>6, <2>1, EndOK DEF ServeRefused, MainReturns, Exit, TypeOK
<1>7. ASSUME NEW i \in Instances, DeferredDeregister(i) \/ DeferredDeregisterFails(i)
      PROVE  Handling'
  BY <1>0, <1>7 DEF DeferredDeregister, DeferredDeregisterFails, TypeOK
<1>8. ASSUME NEW i \in Instances, GracefulStop(i) PROVE Handling'
  BY <1>0, <1>8 DEF GracefulStop, TypeOK
<1>9. ASSUME NEW i \in Instances, Drained(i) PROVE Handling'
  BY <1>0, <1>9, Programs DEF Drained, Busy, HandledBy, TypeOK
<1>10. ASSUME NEW i \in Instances,
              Deregister(i) \/ DeregisterFails(i) \/ ShutdownTracer(i) \/ WaitGroupDone(i)
       PROVE  Handling'
  BY <1>0, <1>10 DEF Deregister, DeregisterFails, ShutdownTracer, WaitGroupDone, TypeOK
<1>11. ASSUME NEW i \in Instances, TracerFails(i) \/ WaitGroupPanics(i) PROVE Handling'
  <2>1. HandledBy(i) = {}
    BY <1>11 DEF HandledBy, TracerFails, WaitGroupPanics
  <2> QED
    BY <1>0, <1>11, <2>1, EndOK DEF TracerFails, WaitGroupPanics, TypeOK
<1>12. ASSUME NEW c \in Callers, Pick(c) PROVE Handling'
  BY <1>0, <1>12 DEF Pick, TypeOK
<1>13. ASSUME NEW c \in Callers, Connect(c) PROVE Handling'
  <2>1. PICK i \in Instances : /\ Accepts(i)
                               /\ call' = [call EXCEPT ![c].state = "open", ![c].to = i]
    BY <1>13 DEF Connect
  <2>2. stopper[i] \in {"waiting", "signalled", "draining"}
    BY <2>1
  <2> QED
    BY <1>0, <1>13, <2>1, <2>2 DEF Connect, TypeOK
<1>14. ASSUME NEW c \in Callers, ConnectFails(c) \/ Answer(c) PROVE Handling'
  <2>1. Failed(call[c]).state # "open" \/ Answer(c)
    BY <1>14 DEF ConnectFails, Failed, NoCall, TypeOK, Calls, Attempt
  <2> QED
    BY <1>0, <1>14, <2>1 DEF ConnectFails, Answer, NoCall, TypeOK
<1>15. ASSUME NEW c \in Callers, Cancel(c) PROVE Handling'
  <2>1. call' = [call EXCEPT ![c] = NoCall] /\ UNCHANGED <<pc, stopper, listening, harmed, cut>>
        /\ abandoned' \subseteq abandoned \cup {call[c].to}
        /\ (call[c].state # "open" => abandoned' = abandoned)
    BY <1>15 DEF Cancel
  <2>2. \A i \in abandoned' : Handles(i)
    BY <2>1
  <2> QED
    BY <1>0, <2>1, <2>2 DEF NoCall, TypeOK
<1>16. ASSUME NEW i \in Instances, HandlersReturn(i) PROVE Handling'
  BY <1>0, <1>16 DEF HandlersReturn, TypeOK
<1>17. CASE UNCHANGED vars
  BY <1>17 DEF vars
<1> QED
  BY <1>1, <1>2, <1>3, <1>4, <1>5, <1>6, <1>7, <1>8, <1>9, <1>10, <1>11, <1>12, <1>13,
     <1>14, <1>15, <1>16, <1>17 DEF Next, Environment, Main, Stopper, CallStep

(* Deregister comes before wg.Done, and wg.Wait before the end of main: a  *)
(* step that ends an undisturbed process finds it forgotten.               *)
Leaving == Counted /\ ForgottenWhenStopped /\ DeregisteredAtEnd

LEMMA LeavingStep == TypeOK /\ Leaving /\ [Next]_vars => Leaving'
<1> SUFFICES ASSUME TypeOK, Leaving, [Next]_vars PROVE Leaving'
  OBVIOUS
<1> USE DEF Leaving, Counted, ForgottenWhenStopped, DeregisteredAtEnd, Goto, StopperAt,
            Harm, processVars, registryVars, callVars, historyVars
<1>1. ASSUME NEW i \in Instances, Register(i) \/ RegisterFails(i) \/ Report(i) \/ Expire(i)
      PROVE  Leaving'
  BY <1>1 DEF Register, RegisterFails, Report, Expire, TypeOK
<1>2. ASSUME NEW i \in Instances, Signal(i) PROVE Leaving'
  BY <1>2 DEF Signal, TypeOK
<1>3. ASSUME NEW i \in Instances, IngestionPanics(i) \/ Crash(i) PROVE Leaving'
  BY <1>3, EndOK DEF IngestionPanics, Crash, TypeOK
<1>4. ASSUME NEW i \in Instances, Setup(i) \/ SetupFails(i) \/ Listen(i) \/ ListenFails(i)
      PROVE  Leaving'
  BY <1>4, Programs DEF Setup, SetupFails, Listen, ListenFails, TypeOK
<1>5. ASSUME NEW i \in Instances, Serve(i) \/ ServeReturns(i) \/ MainDone(i)
      PROVE  Leaving'
  BY <1>5 DEF Serve, ServeReturns, MainDone, TypeOK
<1>6. ASSUME NEW i \in Instances, ServeRefused(i) \/ Exit(i)
      PROVE  Leaving'
  BY <1>6, EndOK DEF ServeRefused, Exit, TypeOK
<1>7. ASSUME NEW i \in Instances, MainReturns(i) PROVE Leaving'
  <2>1. stopper[i] = "finished"
    BY <1>7 DEF MainReturns, TypeOK
  <2> QED
    BY <1>7, <2>1, EndOK DEF MainReturns, TypeOK
<1>8. ASSUME NEW i \in Instances, DeferredDeregister(i) \/ DeferredDeregisterFails(i)
      PROVE  Leaving'
  BY <1>8 DEF DeferredDeregister, DeferredDeregisterFails, TypeOK
<1>9. ASSUME NEW i \in Instances, GracefulStop(i) \/ Drained(i) PROVE Leaving'
  BY <1>9, Programs DEF GracefulStop, Drained, Runs, TypeOK
<1>10. ASSUME NEW i \in Instances, Deregister(i) \/ DeregisterFails(i) PROVE Leaving'
  BY <1>10 DEF Deregister, DeregisterFails, Runs, TypeOK
<1>11. ASSUME NEW i \in Instances, ShutdownTracer(i) PROVE Leaving'
  BY <1>11 DEF ShutdownTracer, Runs, TypeOK
<1>12. ASSUME NEW i \in Instances, WaitGroupDone(i) PROVE Leaving'
  BY <1>12 DEF WaitGroupDone, Runs, TypeOK
<1>13. ASSUME NEW i \in Instances, TracerFails(i) \/ WaitGroupPanics(i) PROVE Leaving'
  BY <1>13, EndOK DEF TracerFails, WaitGroupPanics, Runs, TypeOK
<1>14. ASSUME NEW c \in Callers, Pick(c) \/ CallStep(c) \/ Cancel(c) PROVE Leaving'
  BY <1>14 DEF Pick, CallStep, Connect, ConnectFails, Answer, Cancel
<1>15. ASSUME NEW i \in Instances, HandlersReturn(i) PROVE Leaving'
  BY <1>15 DEF HandlersReturn
<1>16. CASE UNCHANGED vars
  BY <1>16 DEF vars
<1> QED
  BY <1>1, <1>2, <1>3, <1>4, <1>5, <1>6, <1>7, <1>8, <1>9, <1>10, <1>11, <1>12, <1>13,
     <1>14, <1>15, <1>16 DEF Next, Environment, Main, Stopper

LEMMA Invariance == Spec => []IInv
<1>1. IInv /\ [Next]_vars => IInv'
  BY TypeStep, HandlingStep, LeavingStep DEF IInv, Handling, Leaving
<1> QED
  BY <1>1, InitInv, PTL DEF Spec

(* Every variable keeps its type; no caller exceeds its attempts, or ends  *)
(* up with an instance of another service.                                 *)
THEOREM TypeCorrect == Spec => []TypeOK
BY Invariance, PTL DEF IInv

(* Only a fault of the environment cuts a call off. *)
THEOREM CallsAreFinished == Spec => []CutOnlyByFault
BY Invariance, PTL DEF IInv

(* A process of movie, metadata or rating that ends undisturbed has left   *)
(* the registry.                                                           *)
THEOREM LeavesRegistry == Spec => []DeregisteredAtEnd
BY Invariance, PTL DEF IInv

(* The wait group of movie, metadata and rating never panics, and does not *)
(* keep main once the goroutine has finished.  (auth's does panic.)        *)
THEOREM WaitGroupCorrect == Spec => []WaitGroupFits
<1>1. IInv => WaitGroupFits
  BY DEF IInv, TypeOK, Counted, WaitGroupFits, Runs, Gone
<1> QED
  BY <1>1, Invariance, PTL

(* A call is open in the next state because it was, or because a process   *)
(* that accepts calls got it.                                              *)
LEMMA CallsMove ==
  ASSUME TypeOK, [Next]_vars, NEW c \in Callers, call'[c].state = "open"
  PROVE  call'[c] = call[c] \/ \E i \in Instances : Accepts(i) /\ call'[c].to = i
<1>1. ASSUME NEW i \in Instances, NEW to \in {"ended", "refused"}, End(i, to)
      PROVE  call'[c] = call[c]
  BY <1>1, EndOK
<1>2. ASSUME NEW i \in Instances, Environment(i) \/ Main(i) \/ Stopper(i)
      PROVE  call'[c] = call[c]
  <2> USE DEF callVars
  <2>1. CASE Environment(i)
    BY <1>1, <2>1 DEF Environment, Register, RegisterFails, Report, Expire, Signal, IngestionPanics, Crash,
       HandlersReturn
  <2>2. CASE Main(i)
    BY <1>1, <2>2 DEF Main, Setup, SetupFails, Listen, ListenFails, Serve, ServeRefused, ServeReturns,
       MainReturns, MainDone, DeferredDeregister, DeferredDeregisterFails, Exit
  <2>3. CASE Stopper(i)
    BY <1>1, <2>3 DEF Stopper, GracefulStop, Drained, Deregister, DeregisterFails, ShutdownTracer,
       TracerFails, WaitGroupDone, WaitGroupPanics
  <2> QED
    BY <1>2, <2>1, <2>2, <2>3
<1>3. ASSUME NEW d \in Callers, Pick(d) PROVE call'[c] = call[c]
  BY <1>3 DEF Pick, TypeOK
<1>4. ASSUME NEW d \in Callers, Connect(d)
      PROVE  call'[c] = call[c] \/ \E i \in Instances : Accepts(i) /\ call'[c].to = i
  <2>1. PICK i \in Instances : /\ Accepts(i)
                               /\ call' = [call EXCEPT ![d].state = "open", ![d].to = i]
    BY <1>4 DEF Connect
  <2>2. CASE d # c
    BY <2>1, <2>2 DEF TypeOK
  <2>3. CASE d = c
    <3>1. call[c] \in Attempt
      BY <1>4, <2>3 DEF Connect, TypeOK, Calls, NoCall
    <3>2. call'[c].to = i
      BY <2>1, <2>3, <3>1 DEF TypeOK, Attempt
    <3> QED
      BY <2>1, <3>2
  <2> QED
    BY <2>2, <2>3
<1>5. ASSUME NEW d \in Callers, ConnectFails(d) \/ Answer(d) \/ Cancel(d)
      PROVE  call'[c] = call[c]
  <2>1. Failed(call[d]).state # "open" \/ Answer(d) \/ Cancel(d)
    BY <1>5 DEF ConnectFails, Failed, NoCall, TypeOK, Calls, Attempt
  <2> QED
    BY <1>5, <2>1 DEF ConnectFails, Answer, Cancel, NoCall, TypeOK
<1>6. CASE UNCHANGED vars
  BY <1>6 DEF vars
<1> QED
  BY <1>2, <1>3, <1>4, <1>5, <1>6 DEF Next, CallStep

(* A handler runs without a caller because it did before, or because its   *)
(* caller has just given up.                                               *)
LEMMA AbandonedMove ==
  ASSUME TypeOK, [Next]_vars, NEW i \in Instances, i \in abandoned'
  PROVE  Busy(i)
<1>1. ASSUME NEW j \in Instances, NEW to \in {"ended", "refused"}, End(j, to)
      PROVE  i \in abandoned
  BY <1>1, EndOK
<1>2. ASSUME NEW j \in Instances, Environment(j) \/ Main(j) \/ Stopper(j)
      PROVE  i \in abandoned
  <2> USE DEF callVars
  <2>1. CASE Environment(j)
    BY <1>1, <2>1 DEF Environment, Register, RegisterFails, Report, Expire, Signal, IngestionPanics, Crash,
       HandlersReturn
  <2>2. CASE Main(j)
    BY <1>1, <2>2 DEF Main, Setup, SetupFails, Listen, ListenFails, Serve, ServeRefused, ServeReturns,
       MainReturns, MainDone, DeferredDeregister, DeferredDeregisterFails, Exit
  <2>3. CASE Stopper(j)
    BY <1>1, <2>3 DEF Stopper, GracefulStop, Drained, Deregister, DeregisterFails, ShutdownTracer,
       TracerFails, WaitGroupDone, WaitGroupPanics
  <2> QED
    BY <1>2, <2>1, <2>2, <2>3
<1>3. ASSUME NEW c \in Callers, Pick(c) \/ CallStep(c) PROVE i \in abandoned
  BY <1>3 DEF Pick, CallStep, Connect, ConnectFails, Answer
<1>4. ASSUME NEW c \in Callers, Cancel(c) PROVE i \in abandoned \/ c \in HandledBy(i)
  BY <1>4 DEF Cancel, HandledBy
<1>5. CASE UNCHANGED vars
  BY <1>5 DEF vars, Busy
<1> QED
  BY <1>2, <1>3, <1>4, <1>5 DEF Next, Busy, CallStep

(* A process that stops is given no other call, and no other handler. *)
THEOREM DrainsCorrect == Spec => NoCallAfterStop
<1>1. ASSUME IInv, [Next]_vars, NEW i \in Instances PROVE Drains(i)
  <2>1. ASSUME stopper[i] \notin {"waiting", "signalled"}, NEW c \in Callers, c \in HandledBy(i)'
        PROVE  c \in HandledBy(i)
    <3>1. call'[c].state = "open" /\ call'[c].to = i
      BY <2>1 DEF HandledBy
    <3>2. ~ Accepts(i)
      BY <1>1, <2>1 DEF IInv, AcceptsUntilStopped
    <3>3. call'[c] = call[c]
      BY <1>1, <3>1, <3>2, CallsMove DEF IInv
    <3> QED
      BY <3>1, <3>3 DEF HandledBy
  <2>2. i \in abandoned' => Busy(i)
    BY <1>1, AbandonedMove DEF IInv
  <2> QED
    BY <2>1, <2>2 DEF Drains, HandledBy
<1>2. IInv /\ [Next]_vars => [\A i \in Instances : Drains(i)]_vars
  BY <1>1
<1> QED
  BY <1>2, Invariance, PTL DEF Spec, NoCallAfterStop
=============================================================================
