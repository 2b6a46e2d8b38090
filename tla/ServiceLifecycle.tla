-------------------------- MODULE ServiceLifecycle --------------------------
(***************************************************************************)
(* How a service process starts and stops (main of movie, metadata, rating *)
(* and auth), the registry it is known by (src/pkg/discovery), and how its *)
(* callers find and call it (grpcutil, the gateways of the movie service). *)
(*                                                                         *)
(* An instance is one process, from its start to its end: a restart is     *)
(* another instance with the same port.  Besides main it runs a goroutine  *)
(* that reports to the registry and, once signals are handled, one that    *)
(* stops the server.  The four mains are one program but for what the      *)
(* records below list.                                                     *)
(***************************************************************************)
EXTENDS Naturals, FiniteSets

CONSTANTS Instances,    \* processes
          Nobody,       \* not an instance
          Service,      \* the service each is a process of
          Port,         \* where each listens
          Callers,      \* the clients of the services
          MaxAttempts,  \* the attempts they make, by service
          MaxFaults     \* bound: instances the environment may harm

Services == {"auth", "metadata", "movie", "rating"}

ASSUME NobodyAssumption == Nobody \notin Instances
ASSUME ServiceAssumption == Service \in [Instances -> Services]
ASSUME PortAssumption ==
  \A i, j \in Instances : Port[i] = Port[j] => Service[i] = Service[j]
ASSUME AttemptsAssumption == MaxAttempts \in [Services -> Nat \ {0}]
ASSUME MaxFaultsAssumption == MaxFaults \in Nat

VARIABLES
  pc,          \* where main is
  stopper,     \* where the goroutine that stops the server is
  wg,          \* the counter of main's wait group
  listening,   \* the instances whose port is open
  registered,  \* registry: the instances it lists
  passing,     \* registry: those that have reported within their TTL
  call,        \* what each caller is doing
  abandoned,   \* the instances with a handler whose caller has given up
  harmed,      \* history: instances the environment harmed, or their ingestion
  cut          \* history: instances that ended while they handled a call

processVars  == <<pc, stopper, wg, listening>>
registryVars == <<registered, passing>>
historyVars  == <<harmed, cut>>
callVars     == <<call, abandoned>>
vars == <<pc, stopper, wg, listening, registered, passing, call, abandoned, harmed, cut>>

(***************************************************************************)
(* The four mains.  All of them start a tracer and metrics (a failure of   *)
(* either ends them: RegisterFails, Crash), register, then set up what     *)
(* they need (all but movie a database, rating its ingestion too), listen, *)
(* handle signals and serve; no failure after Register undoes it, except   *)
(* that auth has deferred its Deregister.                                  *)
(*   failure  where main goes when set-up or Listen fails: it panics or    *)
(*            exits, and only auth has a call deferred that matters          *)
(*   drained  what the goroutine that stops the server does after it         *)
(*   tracer   what a failure to shut the tracer down does to that goroutine  *)
(*   main     how main calls the wait group once Serve has returned          *)
(*   ingests  another goroutine handles events until ctx is cancelled        *)
(*   heeds    its handlers return once their caller has given up: metadata's *)
(*            Get does not look at its context (see GetReturns there)        *)
(***************************************************************************)
MovieMain    == [failure |-> "ended", drained |-> "drained", tracer |-> "fatal",
                 main |-> "Wait", ingests |-> FALSE, heeds |-> TRUE]
MetadataMain == [failure |-> "ended", drained |-> "drained", tracer |-> "fatal",
                 main |-> "Wait", ingests |-> FALSE, heeds |-> FALSE]
RatingMain   == [failure |-> "ended", drained |-> "drained", tracer |-> "logged",
                 main |-> "Wait", ingests |-> TRUE, heeds |-> TRUE]
AuthMain     == [failure |-> "closing", drained |-> "returning", tracer |-> "deferred",
                 main |-> "Done", ingests |-> FALSE, heeds |-> TRUE]

Program(i) == CASE Service[i] = "movie"    -> MovieMain
                [] Service[i] = "metadata" -> MetadataMain
                [] Service[i] = "rating"   -> RatingMain
                [] Service[i] = "auth"     -> AuthMain

(***************************************************************************)
(* main is at                                                              *)
(*   off       not started                                                 *)
(*   setup     registered, about to open the database and migrate          *)
(*   listen    about to listen                                             *)
(*   ready     handles signals, about to serve                             *)
(*   serving   in srv.Serve                                                *)
(*   stopped   srv.Serve has returned                                      *)
(*   closing   auth: about to run its deferred calls                       *)
(*   closed    auth: they have run                                         *)
(*   ended     the process has ended                                       *)
(*   refused   it has ended because GracefulStop came before Serve         *)
(* and the goroutine that stops the server is                              *)
(*   waiting       for a signal                                            *)
(*   signalled     about to call GracefulStop                              *)
(*   draining      in GracefulStop                                         *)
(*   drained       about to deregister                                     *)
(*   deregistered  about to shut the tracer down                           *)
(*   returning     about to call wg.Done                                   *)
(*   returned      about to end, which calls wg.Done again (wg.Go)         *)
(*   finished                                                              *)
(***************************************************************************)
Gone(i)    == pc[i] \in {"ended", "refused"}
Runs(i)    == pc[i] # "off" /\ ~ Gone(i)
Accepts(i) == i \in listening /\ pc[i] = "serving"
Stopped(i) == stopper[i] \in {"drained", "deregistered", "returning", "returned", "finished"}
Unwinds(i) == Program(i).main = "Done"
Heeds(i)   == Program(i).heeds

NoCall == [state |-> "idle", to |-> Nobody, tries |-> 0]

(* The callers that wait for a handler of i.  A handler whose caller has   *)
(* given up runs on without one: of those it matters whether i has any.    *)
HandledBy(i) == {c \in Callers : call[c].state = "open" /\ call[c].to = i}
Busy(i)      == HandledBy(i) # {} \/ i \in abandoned

Init ==
  /\ pc = [i \in Instances |-> "off"]
  /\ stopper = [i \in Instances |-> "waiting"]
  /\ wg = [i \in Instances |-> 0]
  /\ listening = {}
  /\ registered = {}
  /\ passing = {}
  /\ call = [c \in Callers |-> NoCall]
  /\ abandoned = {}
  /\ harmed = {}
  /\ cut = {}

Goto(i, to)      == pc' = [pc EXCEPT ![i] = to]
StopperAt(i, to) == stopper' = [stopper EXCEPT ![i] = to]
Harm(i) == Cardinality(harmed \cup {i}) <= MaxFaults /\ harmed' = harmed \cup {i}

(* Mutant: the loop of the gateway runs once more. *)
FailedOnceMore(k) ==
  IF k.tries < MaxAttempts[Service[k.to]]
  THEN [k EXCEPT !.state = "dialing", !.tries = @ + 1]
  ELSE NoCall

(* Mutant: the gateway does not count its attempts. *)
FailedUncounted(k) == [k EXCEPT !.state = "dialing"]

(* An attempt was answered Unavailable: the next one uses the same         *)
(* connection, hence the same address.                                     *)
Failed(k) ==
  IF k.tries + 1 < MaxAttempts[Service[k.to]]
  THEN [k EXCEPT !.state = "dialing", !.tries = @ + 1]
  ELSE NoCall

(* The process of i ends, and its handlers with it: its port closes and    *)
(* the calls it handles fail.                                              *)
End(i, to) ==
  /\ Goto(i, to)
  /\ listening' = listening \ {i}
  /\ call' = [c \in Callers |-> IF c \in HandledBy(i) THEN Failed(call[c]) ELSE call[c]]
  /\ abandoned' = abandoned \ {i}
  /\ cut' = IF HandledBy(i) = {} THEN cut ELSE cut \cup {i}

-----------------------------------------------------------------------------
(* Start *)

Register(i) ==
  /\ pc[i] = "off"
  /\ registered' = registered \cup {i}
  /\ Goto(i, "setup")
  /\ UNCHANGED <<stopper, wg, listening, passing, callVars, historyVars>>

(* main ends before it registers (its configuration, tracer or client of   *)
(* the registry fail), or the request fails, or only its reply is lost.    *)
RegisterFails(i) ==
  /\ pc[i] = "off"
  /\ Harm(i)
  /\ registered' \in {registered, registered \cup {i}}
  /\ Goto(i, "ended")
  /\ UNCHANGED <<stopper, wg, listening, passing, callVars, cut>>

(* The goroutine reports for as long as the process runs; the registry     *)
(* refuses the report of an instance it does not list.                     *)
Report(i) ==
  /\ Runs(i) /\ i \in registered
  /\ passing' = passing \cup {i}
  /\ UNCHANGED <<processVars, registered, callVars, historyVars>>

Setup(i) ==
  /\ pc[i] = "setup"
  /\ Goto(i, "listen")
  /\ UNCHANGED <<stopper, wg, listening, registryVars, callVars, historyVars>>

(* main panics; auth has deferred its Deregister by now. *)
SetupFails(i) ==
  /\ pc[i] = "setup"
  /\ Harm(i)
  /\ Goto(i, Program(i).failure)
  /\ UNCHANGED <<stopper, wg, listening, registryVars, callVars, cut>>

PortTaken(i) == \E j \in listening : Port[j] = Port[i]

(* Mutant: wg.Add(1) is repeated for the goroutine that wg.Go adds. *)
ListenAddsTwice(i) ==
  /\ pc[i] = "listen" /\ ~ PortTaken(i)
  /\ listening' = listening \cup {i}
  /\ wg' = [wg EXCEPT ![i] = 3]
  /\ Goto(i, "ready")
  /\ UNCHANGED <<stopper, registryVars, callVars, historyVars>>

(* main then adds one to the wait group, and wg.Go another. *)
Listen(i) ==
  /\ pc[i] = "listen" /\ ~ PortTaken(i)
  /\ listening' = listening \cup {i}
  /\ wg' = [wg EXCEPT ![i] = 2]
  /\ Goto(i, "ready")
  /\ UNCHANGED <<stopper, registryVars, callVars, historyVars>>

(* logger.Fatal; auth goes on to serve a nil listener, and panics. *)
ListenFails(i) ==
  /\ pc[i] = "listen" /\ PortTaken(i)
  /\ Goto(i, Program(i).failure)
  /\ harmed' = harmed \cup {i}
  /\ UNCHANGED <<stopper, wg, listening, registryVars, callVars, cut>>

Serve(i) ==
  /\ pc[i] = "ready" /\ stopper[i] \in {"waiting", "signalled"}
  /\ Goto(i, "serving")
  /\ UNCHANGED <<stopper, wg, listening, registryVars, callVars, historyVars>>

(* After GracefulStop, Serve returns ErrServerStopped: logger.Fatal. *)
ServeRefused(i) ==
  /\ pc[i] = "ready" /\ stopper[i] \notin {"waiting", "signalled"}
  /\ End(i, "refused")
  /\ UNCHANGED <<stopper, wg, registryVars, harmed>>

-----------------------------------------------------------------------------
(* Stop *)

(* The first SIGTERM; sigChan keeps it until the goroutine receives it. *)
Signal(i) ==
  /\ pc[i] \in {"ready", "serving"} /\ stopper[i] = "waiting"
  /\ StopperAt(i, "signalled")
  /\ UNCHANGED <<pc, wg, listening, registryVars, callVars, historyVars>>

(* Mutant: srv.Stop, which does not wait for the calls under way. *)
Stop(i) ==
  /\ Runs(i) /\ stopper[i] = "signalled"
  /\ StopperAt(i, Program(i).drained)
  /\ listening' = IF pc[i] = "serving" THEN listening \ {i} ELSE listening
  /\ UNCHANGED <<pc, wg, registryVars, callVars, historyVars>>

(* It closes the listeners that srv.Serve has been given. *)
GracefulStop(i) ==
  /\ Runs(i) /\ stopper[i] = "signalled"
  /\ StopperAt(i, "draining")
  /\ listening' = IF pc[i] = "serving" THEN listening \ {i} ELSE listening
  /\ UNCHANGED <<pc, wg, registryVars, callVars, historyVars>>

(* It returns when every handler has, whether or not a caller waits. *)
Drained(i) ==
  /\ Runs(i) /\ stopper[i] = "draining" /\ ~ Busy(i)
  /\ StopperAt(i, Program(i).drained)
  /\ UNCHANGED <<pc, wg, listening, registryVars, callVars, historyVars>>

Deregister(i) ==
  /\ Runs(i) /\ stopper[i] = "drained"
  /\ registered' = registered \ {i}
  /\ passing' = passing \ {i}
  /\ StopperAt(i, "deregistered")
  /\ UNCHANGED <<pc, wg, listening, callVars, historyVars>>

(* Its error is ignored. *)
DeregisterFails(i) ==
  /\ Runs(i) /\ stopper[i] = "drained"
  /\ Harm(i)
  /\ StopperAt(i, "deregistered")
  /\ UNCHANGED <<pc, wg, listening, registryVars, callVars, cut>>

ShutdownTracer(i) ==
  /\ Runs(i) /\ stopper[i] = "deregistered"
  /\ StopperAt(i, "returning")
  /\ UNCHANGED <<pc, wg, listening, registryVars, callVars, historyVars>>

(* ctx is cancelled by now, so this may well fail: logger.Fatal, but       *)
(* rating only logs it.                                                    *)
TracerFails(i) ==
  /\ Runs(i) /\ stopper[i] = "deregistered"
  /\ Program(i).tracer = "fatal"
  /\ End(i, "ended")
  /\ UNCHANGED <<stopper, wg, registryVars, harmed>>

(* wg.Done, by the function and then by wg.Go. *)
WaitGroupDone(i) ==
  /\ Runs(i) /\ stopper[i] \in {"returning", "returned"} /\ wg[i] > 0
  /\ wg' = [wg EXCEPT ![i] = @ - 1]
  /\ StopperAt(i, IF stopper[i] = "returning" THEN "returned" ELSE "finished")
  /\ UNCHANGED <<pc, listening, registryVars, callVars, historyVars>>

(* auth: the wait group's counter is negative, and the goroutine panics. *)
WaitGroupPanics(i) ==
  /\ Runs(i) /\ stopper[i] \in {"returning", "returned"} /\ wg[i] = 0
  /\ End(i, "ended")
  /\ UNCHANGED <<stopper, wg, registryVars, harmed>>

ServeReturns(i) ==
  /\ pc[i] = "serving" /\ Stopped(i)
  /\ Goto(i, "stopped")
  /\ UNCHANGED <<stopper, wg, listening, registryVars, callVars, historyVars>>

(* Mutant: main returns without wg.Wait. *)
MainReturnsAtOnce(i) ==
  /\ pc[i] = "stopped" /\ ~ Unwinds(i)
  /\ End(i, "ended")
  /\ UNCHANGED <<stopper, wg, registryVars, harmed>>

(* wg.Wait returns, and main. *)
MainReturns(i) ==
  /\ pc[i] = "stopped" /\ ~ Unwinds(i) /\ wg[i] = 0
  /\ End(i, "ended")
  /\ UNCHANGED <<stopper, wg, registryVars, harmed>>

(* auth calls wg.Done instead: main returns, or panics at zero.  Both run  *)
(* its deferred calls.                                                     *)
MainDone(i) ==
  /\ pc[i] = "stopped" /\ Unwinds(i)
  /\ wg' = [wg EXCEPT ![i] = IF @ > 0 THEN @ - 1 ELSE 0]
  /\ Goto(i, "closing")
  /\ UNCHANGED <<stopper, listening, registryVars, callVars, historyVars>>

DeferredDeregister(i) ==
  /\ pc[i] = "closing"
  /\ registered' = registered \ {i}
  /\ passing' = passing \ {i}
  /\ Goto(i, "closed")
  /\ UNCHANGED <<stopper, wg, listening, callVars, historyVars>>

DeferredDeregisterFails(i) ==
  /\ pc[i] = "closing"
  /\ Harm(i)
  /\ Goto(i, "closed")
  /\ UNCHANGED <<stopper, wg, listening, registryVars, callVars, cut>>

Exit(i) ==
  /\ pc[i] = "closed"
  /\ End(i, "ended")
  /\ UNCHANGED <<stopper, wg, registryVars, harmed>>

(* The signal cancels the context of rating's ingestion, whose goroutine   *)
(* may close its channel twice and panic (module RatingIngestion) while    *)
(* the server drains.                                                      *)
IngestionPanics(i) ==
  /\ Runs(i) /\ Program(i).ingests /\ stopper[i] # "waiting"
  /\ End(i, "ended")
  /\ harmed' = harmed \cup {i}
  /\ UNCHANGED <<stopper, wg, registryVars>>

(* The process is killed, or its metrics server fails: logger.Fatal. *)
Crash(i) ==
  /\ Runs(i)
  /\ Harm(i)
  /\ End(i, "ended")
  /\ UNCHANGED <<stopper, wg, registryVars>>

-----------------------------------------------------------------------------
(* The registry and the callers *)

(* Mutant: the check is registered without a TTL. *)
ExpireStopped(i) ==
  /\ i \in passing /\ Runs(i)
  /\ passing' = passing \ {i}
  /\ UNCHANGED <<processVars, registered, callVars, historyVars>>

(* Five seconds without a report: the process has ended, or is late. *)
Expire(i) ==
  /\ i \in passing
  /\ passing' = passing \ {i}
  /\ UNCHANGED <<processVars, registered, callVars, historyVars>>

(* ServiceConnection: some passing instance of the service.  Without one   *)
(* the caller gets ErrNotFound at once.                                    *)
Pick(c) ==
  /\ call[c].state = "idle"
  /\ \E i \in passing : call' = [call EXCEPT ![c] = [state |-> "dialing", to |-> i, tries |-> 0]]
  /\ UNCHANGED <<processVars, registryVars, abandoned, historyVars>>

(* Whoever listens at the address gets the call. *)
Connect(c) ==
  /\ call[c].state = "dialing"
  /\ \E i \in Instances :
       /\ Port[i] = Port[call[c].to] /\ Accepts(i)
       /\ call' = [call EXCEPT ![c].state = "open", ![c].to = i]
  /\ UNCHANGED <<processVars, registryVars, abandoned, historyVars>>

(* The connection is refused or, after a first failure, still backing off. *)
ConnectFails(c) ==
  /\ call[c].state = "dialing"
  /\ call[c].tries > 0 \/ \A i \in listening : Port[i] # Port[call[c].to]
  /\ call' = [call EXCEPT ![c] = Failed(@)]
  /\ UNCHANGED <<processVars, registryVars, abandoned, historyVars>>

(* An answer, or an error that is not retried. *)
Answer(c) ==
  /\ call[c].state = "open"
  /\ call' = [call EXCEPT ![c] = NoCall]
  /\ UNCHANGED <<processVars, registryVars, abandoned, historyVars>>

(* The caller gives up, or ends itself: grpc cancels the context of the    *)
(* handler, which runs on until it returns.                                *)
Cancel(c) ==
  /\ call[c].state # "idle"
  /\ call' = [call EXCEPT ![c] = NoCall]
  /\ abandoned' = IF call[c].state = "open" THEN abandoned \cup {call[c].to} ELSE abandoned
  /\ UNCHANGED <<processVars, registryVars, historyVars>>

(* The last handler without a caller returns. *)
HandlersReturn(i) ==
  /\ i \in abandoned
  /\ abandoned' = abandoned \ {i}
  /\ UNCHANGED <<processVars, registryVars, call, historyVars>>

-----------------------------------------------------------------------------
Main(i) == \/ Setup(i) \/ SetupFails(i) \/ Listen(i) \/ ListenFails(i)
           \/ Serve(i) \/ ServeRefused(i) \/ ServeReturns(i) \/ MainReturns(i)
           \/ MainDone(i) \/ DeferredDeregister(i) \/ DeferredDeregisterFails(i) \/ Exit(i)

Stopper(i) == \/ GracefulStop(i) \/ Drained(i) \/ Deregister(i) \/ DeregisterFails(i)
              \/ ShutdownTracer(i) \/ TracerFails(i) \/ WaitGroupDone(i) \/ WaitGroupPanics(i)

Environment(i) == \/ Register(i) \/ RegisterFails(i) \/ Report(i) \/ Expire(i)
                  \/ Signal(i) \/ IngestionPanics(i) \/ Crash(i)
                  \/ HandlersReturn(i)

CallStep(c) == Connect(c) \/ ConnectFails(c) \/ Answer(c)

Next == \/ \E i \in Instances : Environment(i) \/ Main(i) \/ Stopper(i)
        \/ \E c \in Callers : Pick(c) \/ CallStep(c) \/ Cancel(c)

Spec == Init /\ [][Next]_vars

(* A process goes on, a call is answered or fails, a handler returns after *)
(* its caller has given up where it looks at its context, and the registry *)
(* notices that an instance has stopped to report.  Nobody has to start,   *)
(* signal, call or give up anything.                                       *)
Fairness ==
  /\ \A i \in Instances : WF_vars(Main(i)) /\ WF_vars(Stopper(i)) /\ WF_vars(Gone(i) /\ Expire(i))
                          /\ WF_vars(Heeds(i) /\ HandlersReturn(i))
  /\ \A c \in Callers : WF_vars(CallStep(c))

FairSpec == Spec /\ Fairness

(***************************************************************************)
(* Properties                                                              *)
(***************************************************************************)

(* Every variable keeps its type; a caller never makes more attempts than  *)
(* its limit, and keeps to one service.                                    *)
Attempt == [state : {"dialing", "open"}, to : Instances, tries : Nat]
Calls   == {NoCall} \cup {k \in Attempt : k.tries < MaxAttempts[Service[k.to]]}

TypeOK ==
  /\ pc \in [Instances -> {"off", "setup", "listen", "ready", "serving", "stopped",
                           "closing", "closed", "ended", "refused"}]
  /\ stopper \in [Instances -> {"waiting", "signalled", "draining", "drained",
                                "deregistered", "returning", "returned", "finished"}]
  /\ wg \in [Instances -> 0 .. 2]
  /\ listening \in SUBSET Instances
  /\ registered \in SUBSET Instances
  /\ passing \in SUBSET registered
  /\ call \in [Callers -> Calls]
  /\ abandoned \in SUBSET Instances
  /\ harmed \in SUBSET Instances
  /\ cut \in SUBSET Instances

(* A process that is stopped answers the calls it has accepted: only a     *)
(* crash or a panic of its ingestion cuts one off, whatever main and the   *)
(* goroutine race to do.                                                   *)
CutOnlyByFault == cut \subseteq harmed

(* A process of movie, metadata or rating that stops undisturbed has left  *)
(* the registry, although main and the goroutine end in either order and   *)
(* the reports go on until the end.                                        *)
DeregisteredAtEnd ==
  \A i \in Instances \ harmed : pc[i] = "ended" /\ ~ Unwinds(i) => i \notin registered

(* The strengthening that makes these inductive: GracefulStop ends the     *)
(* accepting of calls, and a call is handled only where neither Serve nor  *)
(* GracefulStop has returned; the goroutine is past Deregister only when   *)
(* the registry has forgotten the instance; the wait group counts what the *)
(* goroutine still has to do.                                              *)
AcceptsUntilStopped ==
  \A i \in Instances : Accepts(i) => stopper[i] \in {"waiting", "signalled"}

Handles(i) == pc[i] = "serving" /\ stopper[i] \in {"waiting", "signalled", "draining"}

HandledWhileServing ==
  /\ \A c \in Callers : call[c].state = "open" => Handles(call[c].to)
  /\ \A i \in abandoned : Handles(i)

ForgottenWhenStopped ==
  \A i \in Instances \ harmed :
    ~ Unwinds(i) /\ stopper[i] \in {"deregistered", "returning", "returned", "finished"}
      => i \notin registered

Counted ==
  \A i \in Instances :
    /\ pc[i] \in {"off", "setup", "listen"} => stopper[i] = "waiting"
    /\ ~ Unwinds(i) =>
         /\ pc[i] \notin {"closing", "closed"}
         /\ pc[i] \in {"ready", "serving", "stopped"} =>
              wg[i] = CASE stopper[i] = "finished" -> 0 [] stopper[i] = "returned" -> 1 [] OTHER -> 2

(* Outside auth, the wait group neither panics nor keeps main: it is above *)
(* zero at each wg.Done, and zero when the goroutine has finished.         *)
WaitGroupFits ==
  \A i \in Instances : Runs(i) /\ ~ Unwinds(i) =>
    /\ stopper[i] \in {"returning", "returned"} => wg[i] > 0
    /\ stopper[i] = "finished" => wg[i] = 0

(* Once GracefulStop has been called, a process is given no other call, so *)
(* that what it waits for can only become less; a handler runs on without  *)
(* a caller only where one ran before.                                     *)
Drains(i) ==
  stopper[i] \notin {"waiting", "signalled"} =>
    HandledBy(i)' \subseteq HandledBy(i) /\ (i \in abandoned' => Busy(i))
NoCallAfterStop == [][\A i \in Instances : Drains(i)]_vars

IInv == /\ TypeOK /\ AcceptsUntilStopped /\ HandledWhileServing /\ CutOnlyByFault
        /\ Counted /\ ForgottenWhenStopped /\ DeregisteredAtEnd

(* However a process ends, in time no caller is sent to it by its name. *)
EndedIsForgotten == \A i \in Instances : Gone(i) ~> [](i \notin passing)

(* A process that is told to stop ends: neither a call nor the wait group  *)
(* keeps it.  What may keep it for ever is a handler that has lost its     *)
(* caller, and only in metadata, where the handler need not return.        *)
SignalledEnds ==
  \A i \in Instances :
    stopper[i] = "signalled" ~> (Gone(i) \/ (~ Heeds(i) /\ [](i \in abandoned)))

(* Every call ends, though its address may belong to a process that has    *)
(* not begun to listen, or has ended, or has another behind it.            *)
CallsEnd == \A c \in Callers : call[c].state # "idle" ~> call[c].state = "idle"
=============================================================================
