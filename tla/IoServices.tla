----------------------------- MODULE IoServices -----------------------------
(***************************************************************************)
(* The io_service pool of service_module/asio, the manager that owns it,   *)
(* and the signal handling of service_module/signal on top of it, put      *)
(* together as testmain.cpp does: the main thread sets up, calls run and   *)
(* waits for the pool's threads; a signal handler, on the thread of one    *)
(* service, calls stop; another thread of the application may call stop,   *)
(* ask for services and register signals at any time.                      *)
(*                                                                         *)
(* asio is external: run returns once its io_service is stopped and no     *)
(* handler is running, a stopped service starts no handler, and a signal   *)
(* of any number in a signal_set completes every async_wait of the set     *)
(* that is outstanding; signals that find none are kept for the next one.  *)
(***************************************************************************)
EXTENDS Integers, FiniteSets, Sequences, Functions

CONSTANTS PoolSize,      \* m_size, the services and threads of the pool
          Signals,
          MaxCallbacks,  \* callbacks registered for one signal
          MaxRaised,     \* signals that arrive
          MaxGets        \* calls of get_io_service

VARIABLES isInited,      \* the manager has a pool
          is_runing, io_index,
          stopped,       \* stopped[i]: io_service i was stopped
          thread,        \* thread[i]: the thread that runs io_service i
          main,          \* where the main thread is
          pc,            \* pc[p]: where caller p of stop is
          curr, gets,    \* get_io_service: the index taken, and how many calls
          callbacks,     \* callbacks[s]: length of m_map[s]
          waits,         \* async_waits that have not completed
          kept,          \* kept[s]: signals that found no async_wait
          ready,         \* completed async_waits whose handler has not run
          left,          \* callbacks the running handler has still to call
          raised, handled

poolThreads == <<isInited, is_runing, io_index, stopped, thread, main, curr, gets>>
signalVars  == <<callbacks, waits, kept, ready, raised, handled>>
serviceVars == <<isInited, is_runing, io_index, stopped, thread, main, pc, curr, gets,
                 callbacks, waits, kept, ready, left, raised, handled>>

Services   == 1..PoolSize
SigService == 1                  \* the service the SignalSystem was built with
Callers    == {"handler", "app"} \* who may call stop
NoSignal   == "none"

ASSUME ServicesAssumption ==
  /\ PoolSize \in Nat \ {0} /\ IsFiniteSet(Signals) /\ NoSignal \notin Signals
  /\ MaxCallbacks \in Nat /\ MaxRaised \in Nat /\ MaxGets \in Nat

Registered  == {s \in Signals : callbacks[s] > 0}
TotalRaised == SumFunction(raised)

ServicesInit ==
  /\ isInited = FALSE /\ is_runing = FALSE /\ io_index = 0
  /\ stopped = [i \in Services |-> FALSE]
  /\ thread = [i \in Services |-> "none"]
  /\ main = "setup"
  /\ pc = [p \in Callers |-> "idle"]
  /\ curr = -1 /\ gets = 0
  /\ callbacks = [s \in Signals |-> 0]
  /\ waits = 0 /\ kept = [s \in Signals |-> 0] /\ ready = <<>>
  /\ left = 0
  /\ raised = [s \in Signals |-> 0] /\ handled = [s \in Signals |-> 0]

-----------------------------------------------------------------------------
(* The manager and run *)

\* io_service_manager::init with a size above zero; another call changes nothing.
init ==
  /\ ~isInited
  /\ isInited' = TRUE
  /\ UNCHANGED <<is_runing, io_index, stopped, thread, main, curr, gets, pc, left, signalVars>>

\* run starts the threads while it holds mtx4service.
SpawnThread(i) ==
  /\ isInited                  \* without a pool io_service_manager::run throws
  /\ main \in {"setup", "spawn"}
  /\ \A j \in Services : thread[j] = "none" <=> j >= i
  /\ thread' = [thread EXCEPT ![i] = "running"]
  /\ main' = IF i = PoolSize THEN "flag" ELSE "spawn"
  /\ UNCHANGED <<isInited, is_runing, io_index, stopped, curr, gets, pc, left, signalVars>>

SetRunning ==
  /\ main = "flag"
  /\ is_runing' = TRUE
  /\ main' = "join"
  /\ UNCHANGED <<isInited, io_index, stopped, thread, curr, gets, pc, left, signalVars>>

JoinThreads ==
  /\ main = "join"
  /\ \A i \in Services : thread[i] = "ended"
  /\ main' = "done"
  /\ UNCHANGED <<isInited, is_runing, io_index, stopped, thread, curr, gets, pc, left, signalVars>>

InHandler == pc["handler"] # "idle"

\* io_service::run returns on the pool's thread.
ThreadEnds(i) ==
  /\ thread[i] = "running"
  /\ stopped[i]
  /\ i = SigService => ~InHandler
  /\ thread' = [thread EXCEPT ![i] = "ended"]
  /\ UNCHANGED <<isInited, is_runing, io_index, stopped, main, curr, gets, pc, left, signalVars>>

-----------------------------------------------------------------------------
(* stop *)

Return(p) == IF p = "app" THEN "returned" ELSE "next"

\* The test of is_runing the wrong way round.
StopTest_Inverted(p) ==
  /\ pc[p] = "test"
  /\ is_runing' = FALSE
  /\ pc' = [pc EXCEPT ![p] = IF ~is_runing THEN "stopping" ELSE Return(p)]
  /\ UNCHANGED <<isInited, io_index, stopped, thread, main, curr, gets, left, signalVars>>

StopTest(p) ==
  /\ pc[p] = "test"
  /\ is_runing' = FALSE
  /\ pc' = [pc EXCEPT ![p] = IF is_runing THEN "stopping" ELSE Return(p)]
  /\ UNCHANGED <<isInited, io_index, stopped, thread, main, curr, gets, left, signalVars>>

\* One service too few.
ServicesToStop_NotLast == 1..PoolSize - 1

ServicesToStop == Services

StopServices(p) ==
  /\ pc[p] = "stopping"
  /\ main # "spawn"            \* mtx4service
  /\ stopped' = [i \in Services |-> stopped[i] \/ i \in ServicesToStop]
  /\ pc' = [pc EXCEPT ![p] = Return(p)]
  /\ UNCHANGED <<isInited, is_runing, io_index, thread, main, curr, gets, left, signalVars>>

AppStops ==
  /\ isInited /\ pc["app"] = "idle"
  /\ pc' = [pc EXCEPT !["app"] = "test"]
  /\ UNCHANGED <<poolThreads, left, signalVars>>

-----------------------------------------------------------------------------
(* get_io_service: the index under mtx4index, then the service under mtx4service *)

TakeIndex(index) == IF index >= PoolSize THEN 0 ELSE index

GetIndex ==
  /\ isInited                  \* io_service_manager::get_io_service throws otherwise
  /\ curr = -1 /\ gets < MaxGets
  /\ curr' = TakeIndex(io_index)
  /\ io_index' = TakeIndex(io_index) + 1
  /\ gets' = gets + 1
  /\ UNCHANGED <<isInited, is_runing, stopped, thread, main, pc, left, signalVars>>

GetService ==
  /\ curr # -1
  /\ main # "spawn"
  /\ curr' = -1
  /\ UNCHANGED <<isInited, is_runing, io_index, stopped, thread, main, gets, pc, left, signalVars>>

-----------------------------------------------------------------------------
(* SignalSystem *)

\* A new async_wait takes a kept signal at once, if there is one.
AsyncWait ==
  IF \A s \in Signals : kept[s] = 0
  THEN waits' = waits + 1 /\ UNCHANGED <<kept, ready>>
  ELSE \E s \in Signals : /\ kept[s] > 0
                          /\ kept' = [kept EXCEPT ![s] = @ - 1]
                          /\ ready' = Append(ready, s)
                          /\ UNCHANGED waits

\* One wait for all signals.
ArmsWait_Once(s) == Registered = {}

\* Only the first callback for a signal adds it to the set and waits.
ArmsWait(s) == callbacks[s] = 0

registerEvent(s) ==
  /\ isInited
  /\ ~InHandler                \* the handler holds mtx
  /\ callbacks[s] < MaxCallbacks
  /\ callbacks' = [callbacks EXCEPT ![s] = @ + 1]
  /\ IF ArmsWait(s) THEN AsyncWait ELSE UNCHANGED <<waits, kept, ready>>
  /\ UNCHANGED <<poolThreads, pc, left, raised, handled>>

\* The process gets a signal; one that is not registered ends or leaves it.  All
\* waits complete with its number, those for other signals too, and the handler
\* will run once for each.
Raise(s) ==
  /\ callbacks[s] > 0
  /\ TotalRaised < MaxRaised
  /\ raised' = [raised EXCEPT ![s] = @ + 1]
  /\ IF waits > 0
     THEN waits' = 0 /\ ready' = ready \o [i \in 1..waits |-> s] /\ UNCHANGED kept
     ELSE kept' = [kept EXCEPT ![s] = @ + 1] /\ UNCHANGED <<waits, ready>>
  /\ UNCHANGED <<poolThreads, pc, left, callbacks, handled>>

\* handler: every callback of the signal, each of which calls stop (testmain.cpp).
HandlerBegins ==
  /\ thread[SigService] = "running" /\ ~stopped[SigService]
  /\ ready # <<>> /\ ~InHandler
  /\ ready' = Tail(ready)
  /\ handled' = [handled EXCEPT ![Head(ready)] = @ + 1]
  /\ left' = callbacks[Head(ready)] - 1
  /\ pc' = [pc EXCEPT !["handler"] = "test"]
  /\ UNCHANGED <<poolThreads, callbacks, waits, kept, raised>>

HandlerNext ==
  /\ pc["handler"] = "next"
  /\ left' = IF left = 0 THEN 0 ELSE left - 1
  /\ pc' = [pc EXCEPT !["handler"] = IF left = 0 THEN "idle" ELSE "test"]
  /\ UNCHANGED <<poolThreads, signalVars>>

-----------------------------------------------------------------------------

Main    == (\E i \in Services : SpawnThread(i)) \/ SetRunning \/ JoinThreads
Stop(p) == StopTest(p) \/ StopServices(p)
Handler == Stop("handler") \/ HandlerBegins \/ HandlerNext

ServicesNext ==
  \/ init \/ Main \/ Handler \/ Stop("app") \/ AppStops
  \/ \E i \in Services : ThreadEnds(i)
  \/ GetIndex \/ GetService
  \/ \E s \in Signals : registerEvent(s) \/ Raise(s)

ServicesSpec == ServicesInit /\ [][ServicesNext]_serviceVars

-----------------------------------------------------------------------------
(* Properties *)

\* Once run waits for its threads, a cleared is_runing means that the services
\* are stopped or about to be: from then on no stop is lost.  Before, stop tests
\* is_runing, which run sets only after it started the threads, and does nothing.
StopHeardOnceJoining ==
  main = "join" /\ ~is_runing =>
    \/ \A i \in Services : stopped[i]
    \/ \E p \in Callers : pc[p] = "stopping"

\* A stop that found the pool running makes run return: every service is
\* stopped, the handler that called it ends, and the threads are joined.
RunReturns == (\E p \in Callers : pc[p] = "stopping") ~> main = "done"

\* A signal reaches its handler, also one that arrives before the pool runs, unless
\* its service is stopped first, or another signal was handled more than once: that
\* one came first, took the wait that was meant for this one with its own, and the
\* handler does not call async_wait again.  One signal number alone is always heard.
EarlySignalsHeard ==
  \A s \in Signals :
    raised[s] > 0 ~> \/ handled[s] > 0 \/ stopped[SigService]
                     \/ \E t \in Signals \ {s} : handled[t] > 1
=============================================================================
