--------------------------- MODULE ZkClose_proof ---------------------------
(***************************************************************************)
(* Proofs about ZkClose: the reference counter is exact and, whatever the  *)
(* interleaving of the two library threads and the closer, it decides who  *)
(* frees the handle, for every set of calls and any number of failures and *)
(* of out-of-order replies.                                                *)
(*                                                                         *)
(* For the reference counter only the control state matters: where the     *)
(* threads are, the counter, and who closes; controlVars names it.  The    *)
(* second part is about the requests: in which list each of them is while  *)
(* the threads empty the lists, and that it is answered once.              *)
(***************************************************************************)
EXTENDS ZkClose, FiniteSetTheorems, TLAPS

controlVars == <<close_requested, ref_counter, freed, pc, cl, closer, leaked, overtaken>>

Pcs == {"idle", "top", "process", "dispatch", "error", "cleanup", "test", "sleep",
        "drain", "callback", "calling", "wait", "epilog", "closing", "gone", "aborted"}
Cls == {"none", "flagged", "signal", "freeing", "join_io", "join_completion",
        "epilog", "destroy", "emptying"}

\* The types of the control state.
ControlType ==
  /\ ref_counter \in Int
  /\ leaked \in Nat
  /\ pc \in [Threads -> Pcs]
  /\ cl \in [Threads -> Cls]

\* Who may be where: a thread inside zookeeper_close is there at the end of its
\* life, or inside a callback; only the application's thread is ever idle.
CloserInv ==
  /\ \A t \in Threads : cl[t] # "none" => pc[t] = "closing" \/ (t = "comp" /\ pc[t] = "callback")
  /\ \A t \in Threads : pc[t] = "closing" => cl[t] # "none"
  /\ pc["app"] \in {"idle", "closing", "gone"}
  /\ pc["io"] # "idle" /\ pc["comp"] # "idle"
  /\ closer = "none" => ~close_requested /\ \A t \in Threads : cl[t] = "none"
  /\ closer # "none" => close_requested

RefInv == ControlType /\ CloserInv /\ RefCounterExact

-----------------------------------------------------------------------------
(* The steps that leave the references alone.                              *)

\* A thread that runs, and still runs after the step.
Running(p) == p \in Pcs \ {"idle", "gone", "closing"}

\* What the loops of the two threads do to the control state: they move between
\* places where they hold their reference, and leave the rest alone, except that an
\* out-of-order reply leaks a reference.
LoopStep ==
  /\ ~freed
  /\ pc' \in [Threads -> Pcs]
  /\ pc'["app"] = pc["app"]
  /\ \A t \in {"io", "comp"} :
       pc'[t] = pc[t] \/ (cl[t] = "none" /\ Running(pc[t]) /\ Running(pc'[t]))
  /\ UNCHANGED <<close_requested, freed, cl, closer, overtaken>>
  /\ \/ UNCHANGED <<ref_counter, leaked>>
     \/ /\ ref_counter' = ref_counter + 1 /\ leaked' = leaked + 1
        /\ pc["io"] = "dispatch"

\* Waking the completion thread keeps it running.
LEMMA BroadcastFacts ==
  ASSUME NEW pcs \in [Threads -> Pcs]
  PROVE  /\ Broadcast(pcs) \in [Threads -> Pcs]
         /\ Broadcast(pcs)["app"] = pcs["app"]
         /\ Broadcast(pcs)["io"] = pcs["io"]
         /\ \/ Broadcast(pcs)["comp"] = pcs["comp"]
            \/ pcs["comp"] = "sleep" /\ Broadcast(pcs)["comp"] = "test"
  BY DEF Broadcast, Threads, Pcs

\* Every step of the loops is a LoopStep.
LEMMA LoopSteps ==
  ASSUME RefInv,
         \/ \E c \in Calls : AppCall(c) \/ CallbackCheck(c) \/ CallbackCall(c)
         \/ do_io \/ do_completion \/ CompSpuriousWakeup
         \/ \E t \in Threads : FreeCompletion(t)
  PROVE  LoopStep
<1> USE DEF Threads, Pcs, Running, LoopStep
<1>0. /\ pc \in [Threads -> Pcs] /\ ref_counter \in Int /\ leaked \in Nat
      /\ \A t \in {"io", "comp"} : cl[t] # "none" => pc[t] \in {"closing", "callback"}
      /\ cl["io"] # "none" => pc["io"] = "closing"
  BY DEF RefInv, ControlType, CloserInv
<1>1. ASSUME NEW c \in Calls, AppCall(c) PROVE LoopStep
  BY <1>0, <1>1 DEF AppCall, CheckState, MakeCall
<1>2. ASSUME NEW c \in Calls, CallbackCheck(c) \/ CallbackCall(c) PROVE LoopStep
  BY <1>0, <1>2 DEF CallbackCheck, CallbackCall, CheckState, MakeCall, At
<1>3. CASE IoTop \/ IoIdle
  BY <1>0, <1>3 DEF IoTop, IoIdle, IoStep, At
<1>4. CASE IoDequeue
  BY <1>0, <1>4 DEF IoDequeue, IoStep, At
<1>5. CASE IoDispatch
  <2>1. CASE cur \in SyncCalls
    BY <1>0, <1>5, <2>1 DEF IoDispatch, IoStep, At
  <2>2. CASE cur \notin SyncCalls
    <3> DEFINE pcs == [pc EXCEPT !["io"] = "top"]
    <3>1. pcs \in [Threads -> Pcs] /\ pc' = Broadcast(pcs)
      BY <1>0, <1>5, <2>2 DEF IoDispatch, QueueToProcess
    <3>2. pcs["app"] = pc["app"] /\ pcs["comp"] = pc["comp"] /\ pcs["io"] = "top"
      BY <1>0
    <3> HIDE DEF pcs
    <3> QED
      BY <1>0, <1>5, <3>1, <3>2, BroadcastFacts DEF IoDispatch, At
  <2> QED
    BY <2>1, <2>2
<1>6. CASE IoMisorder \/ IoError
  <2> DEFINE pcs == [pc EXCEPT !["io"] = "error"]
  <2>1. pcs \in [Threads -> Pcs] /\ pc' = Broadcast(pcs)
    BY <1>0, <1>6 DEF IoMisorder, IoError, QueueToProcess
  <2>2. pcs["app"] = pc["app"] /\ pcs["comp"] = pc["comp"] /\ pcs["io"] = "error"
    BY <1>0
  <2> HIDE DEF pcs
  <2> QED
    BY <1>0, <1>6, <2>1, <2>2, BroadcastFacts DEF IoMisorder, IoError, At
<1>7. CASE IoEnterCritical \/ IoLeaveCritical
  BY <1>0, <1>7 DEF IoEnterCritical, IoLeaveCritical, IoStep, At
<1>8. CASE CompTop \/ CompTest \/ CompSpuriousWakeup \/ CompCallback \/ CompDrained
  BY <1>0, <1>8 DEF CompTop, CompTest, CompSpuriousWakeup, CompCallback, CompDrained,
     CompUnchanged, At
<1>9. CASE CallbackWakes \/ CallbackReturns
  BY <1>0, <1>9 DEF CallbackWakes, CallbackReturns, CompUnchanged, At
<1>10. ASSUME NEW t \in Threads, FreeCompletion(t) PROVE LoopStep
  <2>1. pc' = pc \/ pc' = Broadcast(pc)
    BY <1>10 DEF FreeCompletion, QueueToProcess
  <2> QED
    BY <1>0, <1>10, <2>1, BroadcastFacts DEF FreeCompletion
<1> QED
  BY <1>1, <1>2, <1>3, <1>4, <1>5, <1>6, <1>7, <1>8, <1>9, <1>10 DEF do_io, do_completion

-----------------------------------------------------------------------------
(* The reference counter.                                                  *)

\* The loops keep the counter exact.
LEMMA LoopRef ==
  ASSUME RefInv, LoopStep
  PROVE  RefInv'
<1> USE DEF Threads, Pcs, Cls
<1>1. ControlType'
  BY DEF RefInv, ControlType, LoopStep
<1>2. CloserInv'
  BY DEF RefInv, ControlType, CloserInv, LoopStep, Running
<1>3. RefCounterExact'
  <2>1. /\ HeldByThread("io")' = HeldByThread("io")
        /\ HeldByThread("comp")' = HeldByThread("comp")
        /\ HeldByThread("app")' = HeldByThread("app")
    BY DEF LoopStep, Running, HeldByThread
  <2>2. /\ HeldByClose("io")' = HeldByClose("io")
        /\ HeldByClose("comp")' = HeldByClose("comp")
        /\ HeldByClose("app")' = HeldByClose("app")
    BY DEF LoopStep, HeldByClose
  <2>3. /\ ref_counter = Held("io") + Held("comp") + Held("app") + leaked
        /\ \A t \in Threads : HeldByThread(t) \in Int /\ HeldByClose(t) \in Int
    BY DEF RefInv, RefCounterExact, LoopStep, HeldByThread, HeldByClose
  <2> QED
    BY <2>1, <2>2, <2>3 DEF RefInv, ControlType, RefCounterExact, LoopStep, Held
<1> QED
  BY <1>1, <1>2, <1>3 DEF RefInv

\* Opening a close, taking, giving back: the counter stays exact.
LEMMA CloseRef ==
  ASSUME RefInv, NEW t \in Threads, ~freed,
         \/ CloseRequest(t)
         \/ CloseIncRef(t) \/ CloseEnterCritical(t) \/ CloseLeaveCritical(t)
         \/ CloseJoinIo(t) \/ CloseJoinCompletion(t) \/ DestroyEnterCritical(t)
  PROVE  RefInv'
<1> USE DEF Threads, Pcs, Cls
<1>0. /\ pc \in [Threads -> Pcs] /\ cl \in [Threads -> Cls]
      /\ ref_counter \in Int /\ leaked \in Nat
      /\ ref_counter = Held("io") + Held("comp") + Held("app") + leaked
  BY DEF RefInv, ControlType, RefCounterExact
<1>1. CASE CloseRequest(t)
  <2>1. /\ closer = "none" /\ closer' = t /\ close_requested'
        /\ \/ t = "app" /\ pc["app"] = "idle" /\ pc' = [pc EXCEPT !["app"] = "closing"]
           \/ t = "comp" /\ pc["comp"] = "callback" /\ pc' = pc
    BY <1>1 DEF CloseRequest, At
  <2>2. /\ cl' = [cl EXCEPT ![t] = "flagged"]
        /\ UNCHANGED <<ref_counter, leaked, freed>>
    BY <1>1 DEF CloseRequest, CloseUnchanged
  <2>3. cl[t] = "none"
    BY <2>1 DEF RefInv, CloserInv
  <2>4. ControlType' /\ CloserInv'
    BY <1>0, <2>1, <2>2, <2>3 DEF ControlType, RefInv, CloserInv
  <2>5. RefCounterExact'
    BY <1>0, <2>1, <2>2, <2>3 DEF RefCounterExact, Held, HeldByThread, HeldByClose
  <2> QED
    BY <2>4, <2>5 DEF RefInv
<1>2. CASE CloseIncRef(t)
  <2>1. /\ cl[t] = "flagged" /\ ref_counter' = ref_counter + 1
        /\ cl' = [cl EXCEPT ![t] = IF InUse THEN "signal" ELSE "destroy"]
        /\ UNCHANGED <<pc, close_requested, closer, leaked, freed>>
    BY <1>2 DEF CloseIncRef, InClose, CloseUnchanged
  <2>2. ControlType' /\ CloserInv'
    BY <1>0, <2>1 DEF ControlType, RefInv, CloserInv
  <2>3. RefCounterExact'
    BY <1>0, <2>1 DEF RefCounterExact, Held, HeldByThread, HeldByClose
  <2> QED
    BY <2>2, <2>3 DEF RefInv
<1>3. CASE CloseEnterCritical(t)
  <2>1. /\ cl[t] = "signal" /\ cl' = [cl EXCEPT ![t] = "freeing"]
        /\ UNCHANGED <<pc, ref_counter, close_requested, closer, leaked, freed>>
    BY <1>3 DEF CloseEnterCritical, InClose, CloseUnchanged
  <2>2. ControlType' /\ CloserInv'
    BY <1>0, <2>1 DEF ControlType, RefInv, CloserInv
  <2>3. RefCounterExact'
    BY <1>0, <2>1 DEF RefCounterExact, Held, HeldByThread, HeldByClose
  <2> QED
    BY <2>2, <2>3 DEF RefInv
<1>4. CASE CloseLeaveCritical(t)
  <2>1. /\ cl[t] = "freeing" /\ cl' = [cl EXCEPT ![t] = "join_io"]
        /\ ref_counter' = ref_counter + 1
        /\ UNCHANGED <<pc, close_requested, closer, leaked, freed>>
    BY <1>4 DEF CloseLeaveCritical, InClose, CloseUnchanged, IncRef
  <2>2. ControlType' /\ CloserInv'
    BY <1>0, <2>1 DEF ControlType, RefInv, CloserInv
  <2>3. RefCounterExact'
    BY <1>0, <2>1 DEF RefCounterExact, Held, HeldByThread, HeldByClose
  <2> QED
    BY <2>2, <2>3 DEF RefInv
<1>5. CASE CloseJoinIo(t)
  <2>1. /\ cl[t] = "join_io" /\ cl' = [cl EXCEPT ![t] = "join_completion"]
        /\ pc' = Broadcast(pc)
        /\ UNCHANGED <<ref_counter, close_requested, closer, leaked, freed>>
    BY <1>5 DEF CloseJoinIo, InClose, CloseUnchanged
  <2>2. /\ pc' \in [Threads -> Pcs] /\ pc'["app"] = pc["app"] /\ pc'["io"] = pc["io"]
        /\ pc'["comp"] = pc["comp"] \/ (pc["comp"] = "sleep" /\ pc'["comp"] = "test")
    BY <1>0, <2>1, BroadcastFacts
  <2>3. ControlType' /\ CloserInv'
    BY <1>0, <2>1, <2>2 DEF ControlType, RefInv, CloserInv
  <2>4. RefCounterExact'
    BY <1>0, <2>1, <2>2 DEF RefCounterExact, Held, HeldByThread, HeldByClose
  <2> QED
    BY <2>3, <2>4 DEF RefInv
<1>6. CASE CloseJoinCompletion(t)
  <2>1. /\ cl[t] = "join_completion" /\ cl' = [cl EXCEPT ![t] = "epilog"]
        /\ ref_counter' = ref_counter - 1
        /\ UNCHANGED <<pc, close_requested, closer, leaked, freed>>
    BY <1>6 DEF CloseJoinCompletion, InClose, CloseUnchanged, DecRef
  <2>2. ControlType' /\ CloserInv'
    BY <1>0, <2>1 DEF ControlType, RefInv, CloserInv
  <2>3. RefCounterExact'
    BY <1>0, <2>1 DEF RefCounterExact, Held, HeldByThread, HeldByClose
  <2> QED
    BY <2>2, <2>3 DEF RefInv
<1>7. CASE DestroyEnterCritical(t)
  <2>1. /\ cl[t] = "destroy" /\ cl' = [cl EXCEPT ![t] = "emptying"]
        /\ UNCHANGED <<pc, ref_counter, close_requested, closer, leaked, freed>>
    BY <1>7 DEF DestroyEnterCritical, InClose, CloseUnchanged
  <2>2. ControlType' /\ CloserInv'
    BY <1>0, <2>1 DEF ControlType, RefInv, CloserInv
  <2>3. RefCounterExact'
    BY <1>0, <2>1 DEF RefCounterExact, Held, HeldByThread, HeldByClose
  <2> QED
    BY <2>2, <2>3 DEF RefInv
<1> QED
  BY <1>1, <1>2, <1>3, <1>4, <1>5, <1>6, <1>7

\* An epilog gives a reference back and ends the close or the thread, or, on the last
\* reference of a handle that is being closed, starts the final close.
Releases(t) ==
  /\ ~freed
  /\ \/ pc[t] = "epilog" /\ t # "app" /\ cl[t] = "none"
     \/ cl[t] = "epilog"
  /\ ref_counter' = ref_counter - 1
  /\ IF ref_counter - 1 = 0 /\ close_requested
       THEN /\ cl' = [cl EXCEPT ![t] = "flagged"]
            /\ pc' = [pc EXCEPT ![t] = "closing"]
            /\ pc[t] # "callback"
            /\ ~overtaken' => ~overtaken /\ \A u \in Threads \ {t} : cl[u] # "flagged"
       ELSE /\ cl' = [cl EXCEPT ![t] = "none"]
            /\ pc' = [pc EXCEPT ![t] = IF pc[t] = "callback" THEN "callback" ELSE "gone"]
            /\ ~overtaken' => ~overtaken
  /\ UNCHANGED <<close_requested, freed, closer, leaked>>

LEMMA EpilogReleases ==
  ASSUME RefInv, NEW t \in Threads, ThreadEpilog(t) \/ CloseEpilog(t)
  PROVE  Releases(t)
<1> USE DEF Threads, Pcs, Cls
<1> DEFINE done == IF pc[t] = "callback" THEN "callback" ELSE "gone"
<1>0. /\ pc \in [Threads -> Pcs] /\ cl \in [Threads -> Cls]
      /\ ref_counter \in Int /\ leaked \in Nat /\ CloserInv
  BY DEF RefInv, ControlType
<1>1. /\ ~freed /\ ReleaseReference(t, done)
      /\ pc[t] = "epilog" \/ cl[t] = "epilog"
  BY DEF ThreadEpilog, CloseEpilog, At, InClose
<1>2. pc[t] = "epilog" => t # "app" /\ cl[t] = "none"
  BY <1>0 DEF CloserInv
<1>3. pc[t] = "callback" /\ cl[t] = "epilog" => ref_counter > 1
  <2> SUFFICES ASSUME pc[t] = "callback", cl[t] = "epilog" PROVE ref_counter > 1
    OBVIOUS
  <2>1. t = "comp" /\ Held("comp") = 2
    BY <1>0 DEF CloserInv, Held, HeldByThread, HeldByClose
  <2>2. Held("io") \in Nat /\ Held("app") \in Nat
    BY DEF Held, HeldByThread, HeldByClose
  <2> QED
    BY <1>0, <1>1, <2>1, <2>2 DEF RefInv, RefCounterExact
<1>4. /\ ref_counter' = ref_counter - 1
      /\ UNCHANGED <<close_requested, freed, closer, leaked>>
  BY <1>1 DEF ReleaseReference, DecRef, CloseUnchanged
<1>5. CASE LastReference
  <2>1. ~overtaken' => ~overtaken /\ \A u \in Threads \ {t} : cl[u] # "flagged"
    BY <1>1, <1>5, Zenon DEF ReleaseReference
  <2>2. /\ cl' = [cl EXCEPT ![t] = "flagged"]
        /\ pc' = [pc EXCEPT ![t] = "closing"]
    BY <1>1, <1>5 DEF ReleaseReference
  <2>3. ref_counter - 1 = 0 /\ close_requested
    BY <1>5 DEF LastReference, DecRef
  <2>4. pc[t] # "callback"
    BY <1>0, <1>1, <1>3, <2>3
  <2> QED
    BY <1>1, <1>2, <1>4, <2>1, <2>2, <2>3, <2>4 DEF Releases
<1>6. CASE ~LastReference
  <2>1. /\ cl' = [cl EXCEPT ![t] = "none"]
        /\ pc' = [pc EXCEPT ![t] = done]
        /\ overtaken' = overtaken
    BY <1>1, <1>6 DEF ReleaseReference
  <2>2. ~(ref_counter - 1 = 0 /\ close_requested)
    BY <1>6 DEF LastReference, DecRef
  <2> QED
    BY <1>1, <1>2, <1>4, <2>1, <2>2 DEF Releases
<1> QED
  BY <1>5, <1>6

\* An epilog keeps the counter exact.
LEMMA ReleaseRef ==
  ASSUME RefInv, NEW t \in Threads, Releases(t)
  PROVE  RefInv'
<1> USE DEF Threads, Pcs, Cls
<1>0. /\ pc \in [Threads -> Pcs] /\ cl \in [Threads -> Cls]
      /\ ref_counter \in Int /\ leaked \in Nat /\ CloserInv
      /\ ref_counter = Held("io") + Held("comp") + Held("app") + leaked
  BY DEF RefInv, ControlType, RefCounterExact, Releases
<1>1. ControlType'
  BY <1>0 DEF ControlType, Releases
<1>2. CloserInv'
  BY <1>0 DEF CloserInv, Releases
<1>3. RefCounterExact'
  BY <1>0 DEF RefCounterExact, Releases, CloserInv, Held, HeldByThread, HeldByClose
<1> QED
  BY <1>1, <1>2, <1>3 DEF RefInv

\* Destroying the handle, as far as the control state goes.
Destroys(t) ==
  /\ ~freed /\ freed'
  /\ cl[t] = "emptying"
  /\ cl' = [cl EXCEPT ![t] = "none"]
  /\ pc' = [pc EXCEPT ![t] = "gone"]
  /\ UNCHANGED <<close_requested, ref_counter, closer, leaked, overtaken>>

LEMMA DestroyRef ==
  ASSUME RefInv, NEW t \in Threads, Destroys(t)
  PROVE  RefInv'
<1> USE DEF Threads, Pcs, Cls
<1>1. ControlType' /\ CloserInv'
  BY DEF RefInv, ControlType, CloserInv, Destroys
<1>2. RefCounterExact'
  BY DEF RefCounterExact, Destroys
<1> QED
  BY <1>1, <1>2 DEF RefInv

LEMMA DestroyHandleDestroys ==
  ASSUME NEW t \in Threads, DestroyHandle(t)
  PROVE  Destroys(t)
<1>1. ~freed /\ freed' /\ cl[t] = "emptying"
  BY Zenon DEF DestroyHandle, InClose
<1> QED
  BY <1>1 DEF Destroys, DestroyHandle, CloseUnchanged

\* The steps of the specification, seen from the control state.
LEMMA ControlStep ==
  ASSUME RefInv, [Next]_vars
  PROVE  \/ UNCHANGED controlVars
         \/ LoopStep
         \/ \E t \in Threads :
               \/ CloseRequest(t)
               \/ CloseIncRef(t) \/ CloseEnterCritical(t) \/ CloseLeaveCritical(t)
               \/ CloseJoinIo(t) \/ CloseJoinCompletion(t) \/ DestroyEnterCritical(t)
               \/ Releases(t) \/ Destroys(t)
<1>1. CASE UNCHANGED vars
  BY <1>1 DEF vars, controlVars
<1>2. CASE Next
  BY <1>2, LoopSteps, EpilogReleases, DestroyHandleDestroys
  DEF Next, ThreadStep, zookeeper_close
<1> QED
  BY <1>1, <1>2

\* Every step keeps the counter exact.
LEMMA RefStep ==
  ASSUME RefInv, [Next]_vars
  PROVE  RefInv'
<1>1. CASE UNCHANGED controlVars
  BY <1>1 DEF controlVars, RefInv, ControlType, CloserInv, RefCounterExact, Held,
     HeldByThread, HeldByClose
<1>2. ASSUME NEW t \in Threads,
             \/ CloseRequest(t)
             \/ CloseIncRef(t) \/ CloseEnterCritical(t) \/ CloseLeaveCritical(t)
             \/ CloseJoinIo(t) \/ CloseJoinCompletion(t) \/ DestroyEnterCritical(t)
      PROVE  RefInv'
  <2>1. ~freed
    BY <1>2 DEF CloseRequest, CloseIncRef, CloseEnterCritical, CloseLeaveCritical,
       CloseJoinIo, CloseJoinCompletion, DestroyEnterCritical, At, InClose
  <2> QED
    BY <1>2, <2>1, CloseRef
<1> QED
  BY <1>1, <1>2, ControlStep, LoopRef, ReleaseRef, DestroyRef

\* The initial states.
LEMMA RefInit ==
  ASSUME Init
  PROVE  RefInv
<1>1. ControlType
  BY DEF Init, ControlType, Threads, Pcs, Cls
<1>2. CloserInv
  BY DEF Init, CloserInv, Threads
<1>3. RefCounterExact
  BY DEF Init, RefCounterExact, Held, HeldByThread, HeldByClose, Threads
<1> QED
  BY <1>1, <1>2, <1>3 DEF RefInv

\* ref_counter is the number of references held, whatever the two threads and the
\* closer do, and however many references zookeeper_process leaks.
THEOREM RefCounter == Spec => []RefCounterExact
<1>1. Init => RefInv
  BY RefInit
<1>2. RefInv /\ [Next]_vars => RefInv'
  BY RefStep
<1>3. RefInv => RefCounterExact
  BY DEF RefInv
<1> QED
  BY <1>1, <1>2, <1>3, PTL DEF Spec

-----------------------------------------------------------------------------
(* Who frees the handle.                                                   *)

\* Unless a closer was overtaken, at most one thread has flagged its close and not
\* counted itself yet, a thread that goes on to destroy the handle is the only one
\* left, and so nobody is left once it is freed.
LastOneFrees ==
  ~overtaken =>
    /\ \A t, u \in Threads : cl[t] = "flagged" /\ cl[u] = "flagged" => t = u
    /\ \A t \in Threads : Destroying(t) => \A u \in Threads \ {t} : Finished(u)
    /\ freed => \A t \in Threads : Finished(t)

\* A counter at zero is not forgotten, and a leaked reference keeps the handle alive.
ZeroIsSeen ==
  /\ ~freed /\ closer # "none" /\ ref_counter = 0 => \E t \in Threads : cl[t] = "flagged"
  /\ \A t \in Threads : Destroying(t) => leaked = 0 /\ pc["io"] \in {"gone", "closing"}
  /\ freed => leaked = 0

FreeInv == LastOneFrees /\ ZeroIsSeen

\* A sum of natural numbers that is zero.
LEMMA SumZero ==
  ASSUME NEW a \in Nat, NEW b \in Nat, NEW c \in Nat, NEW d \in Nat, a + b + c + d = 0
  PROVE  a = 0 /\ b = 0 /\ c = 0 /\ d = 0
  OBVIOUS

\* A counter at zero: nobody holds a reference.
LEMMA NobodyHolds ==
  ASSUME RefInv, ~freed, ref_counter = 0, NEW t \in Threads
  PROVE  /\ leaked = 0
         /\ t = "app" \/ pc[t] \in {"gone", "closing"}
         /\ cl[t] \in {"none", "flagged"}
<1> USE DEF Threads, Pcs, Cls
<1>1. /\ ref_counter = Held("io") + Held("comp") + Held("app") + leaked
      /\ leaked \in Nat
  BY DEF RefInv, RefCounterExact, ControlType
<1>2. \A u \in Threads : HeldByThread(u) \in Nat /\ HeldByClose(u) \in Nat
  BY DEF HeldByThread, HeldByClose
<1>3. Held("io") \in Nat /\ Held("comp") \in Nat /\ Held("app") \in Nat
  BY <1>2 DEF Held
<1>4. leaked = 0 /\ Held("io") = 0 /\ Held("comp") = 0 /\ Held("app") = 0
  <2> DEFINE i == Held("io")
             c == Held("comp")
             a == Held("app")
  <2>1. i \in Nat /\ c \in Nat /\ a \in Nat /\ leaked \in Nat /\ i + c + a + leaked = 0
    BY <1>1, <1>3
  <2> HIDE DEF i, c, a
  <2>2. leaked = 0 /\ i = 0 /\ c = 0 /\ a = 0
    BY <2>1, SumZero
  <2> QED
    BY <2>2 DEF i, c, a
<1>5. HeldByThread(t) = 0 /\ HeldByClose(t) = 0
  <2>1. Held(t) = 0
    BY <1>4
  <2> QED
    BY <1>2, <2>1 DEF Held
<1> QED
  BY <1>4, <1>5 DEF HeldByThread, HeldByClose

\* Each step keeps LastOneFrees and ZeroIsSeen.
LEMMA FreeStep ==
  ASSUME RefInv, FreeInv, [Next]_vars
  PROVE  FreeInv'
<1> USE DEF Threads, Pcs, Cls, Destroying
<1>0. /\ pc \in [Threads -> Pcs] /\ cl \in [Threads -> Cls]
      /\ ref_counter \in Int /\ leaked \in Nat /\ CloserInv
      /\ LastOneFrees /\ ZeroIsSeen
  BY DEF RefInv, ControlType, FreeInv
<1>1. CASE UNCHANGED controlVars
  <2>1. LastOneFrees'
    BY <1>0, <1>1 DEF controlVars, LastOneFrees, Finished
  <2>2. ZeroIsSeen'
    BY <1>0, <1>1 DEF controlVars, ZeroIsSeen
  <2> QED
    BY <2>1, <2>2 DEF FreeInv
<1>2. CASE LoopStep
  <2>1. LastOneFrees'
    BY <1>0, <1>2 DEF LoopStep, Running, LastOneFrees, Finished
  <2>2. ref_counter' = ref_counter \/ ref_counter' # 0
    <3>1. ref_counter >= 0
      <4>1. \A u \in Threads : HeldByThread(u) \in Nat /\ HeldByClose(u) \in Nat
        BY DEF HeldByThread, HeldByClose
      <4> QED
        BY <1>0, <1>2, <4>1 DEF RefInv, RefCounterExact, LoopStep, Held
    <3> QED
      BY <1>0, <1>2, <3>1 DEF LoopStep
  <2>3. ZeroIsSeen'
    BY <1>0, <1>2, <2>2 DEF LoopStep, Running, ZeroIsSeen
  <2> QED
    BY <2>1, <2>3 DEF FreeInv
<1>3. ASSUME NEW t \in Threads, CloseRequest(t) PROVE FreeInv'
  <2>1. /\ ~freed /\ closer = "none"
        /\ \/ t = "app" /\ pc["app"] = "idle" /\ pc' = [pc EXCEPT !["app"] = "closing"]
           \/ t = "comp" /\ pc["comp"] = "callback" /\ pc' = pc
        /\ cl' = [cl EXCEPT ![t] = "flagged"]
        /\ UNCHANGED <<ref_counter, leaked, freed, overtaken>>
    BY <1>3 DEF CloseRequest, CloseUnchanged, At
  <2>2. \A u \in Threads : cl[u] = "none"
    BY <1>0, <2>1 DEF CloserInv
  <2> QED
    BY <1>0, <2>1, <2>2 DEF FreeInv, LastOneFrees, ZeroIsSeen
<1>4. ASSUME NEW t \in Threads, CloseIncRef(t) PROVE FreeInv'
  <2>1. /\ ~freed /\ cl[t] = "flagged" /\ ref_counter' = ref_counter + 1
        /\ cl' = [cl EXCEPT ![t] = IF ref_counter + 1 > 1 THEN "signal" ELSE "destroy"]
        /\ UNCHANGED <<pc, closer, leaked, freed, overtaken>>
    BY <1>4 DEF CloseIncRef, InUse, InClose, CloseUnchanged
  <2>2. ref_counter >= 0
    <3>1. \A u \in Threads : HeldByThread(u) \in Nat /\ HeldByClose(u) \in Nat
      BY DEF HeldByThread, HeldByClose
    <3> QED
      BY <1>0, <2>1, <3>1 DEF RefInv, RefCounterExact, Held
  <2>3. CASE ref_counter > 0
    BY <1>0, <2>1, <2>3 DEF FreeInv, LastOneFrees, ZeroIsSeen, Finished
  <2>4. CASE ref_counter = 0
    <3>1. /\ leaked = 0
          /\ \A u \in Threads : /\ u = "app" \/ pc[u] \in {"gone", "closing"}
                               /\ cl[u] \in {"none", "flagged"}
      BY <2>1, <2>4, NobodyHolds
    <3>2. cl' = [cl EXCEPT ![t] = "destroy"]
      BY <2>1, <2>4
    <3>3. ZeroIsSeen'
      BY <1>0, <2>1, <2>4, <3>1, <3>2 DEF ZeroIsSeen
    <3>4. ASSUME ~overtaken, NEW u \in Threads \ {t} PROVE Finished(u) /\ cl[u] # "flagged"
      <4>1. cl[u] = "none"
        BY <1>0, <2>1, <3>1, <3>4 DEF LastOneFrees
      <4>2. pc[u] # "closing"
        BY <1>0, <4>1 DEF CloserInv
      <4> QED
        BY <1>0, <3>1, <4>1, <4>2 DEF CloserInv, Finished
    <3>5. LastOneFrees'
      BY <1>0, <2>1, <3>2, <3>4 DEF LastOneFrees, Finished
    <3> QED
      BY <3>3, <3>5 DEF FreeInv
  <2> QED
    BY <1>0, <2>2, <2>3, <2>4
<1>5. ASSUME NEW t \in Threads,
             \/ CloseEnterCritical(t) \/ CloseLeaveCritical(t)
             \/ CloseJoinIo(t) \/ CloseJoinCompletion(t)
      PROVE  FreeInv'
  <2>1. /\ ~freed /\ cl[t] \in {"signal", "freeing", "join_io", "join_completion"}
        /\ \E c \in {"freeing", "join_io", "join_completion", "epilog"} :
             cl' = [cl EXCEPT ![t] = c]
        /\ pc' = pc \/ pc' = Broadcast(pc)
        /\ UNCHANGED <<closer, leaked, freed, overtaken>>
    BY <1>5 DEF CloseEnterCritical, CloseLeaveCritical, CloseJoinIo, CloseJoinCompletion,
       InClose, CloseUnchanged
  <2>2. /\ pc' \in [Threads -> Pcs] /\ pc'["app"] = pc["app"] /\ pc'["io"] = pc["io"]
        /\ pc'["comp"] = pc["comp"] \/ (pc["comp"] = "sleep" /\ pc'["comp"] = "test")
    BY <1>0, <2>1, BroadcastFacts
  <2>3. ref_counter' # 0
    <3>1. RefInv'
      BY RefStep
    <3>2. HeldByClose(t)' >= 1
      BY <1>0, <2>1 DEF HeldByClose
    <3>3. \A u \in Threads : HeldByThread(u)' \in Nat /\ HeldByClose(u)' \in Nat
      BY DEF HeldByThread, HeldByClose
    <3> QED
      BY <2>1, <3>1, <3>2, <3>3 DEF RefInv, RefCounterExact, ControlType, Held
  <2>4. LastOneFrees'
    BY <1>0, <2>1, <2>2 DEF LastOneFrees, Finished
  <2>5. ZeroIsSeen'
    BY <1>0, <2>1, <2>2, <2>3 DEF ZeroIsSeen
  <2> QED
    BY <2>4, <2>5 DEF FreeInv
<1>6. ASSUME NEW t \in Threads, Releases(t) PROVE FreeInv'
  <2>1. LastOneFrees'
    BY <1>0, <1>6 DEF Releases, LastOneFrees, Finished
  <2>2. ZeroIsSeen'
    BY <1>0, <1>6 DEF Releases, ZeroIsSeen, CloserInv
  <2> QED
    BY <2>1, <2>2 DEF FreeInv
<1>7. ASSUME NEW t \in Threads, Destroys(t) PROVE FreeInv'
  <2>1. LastOneFrees'
    BY <1>0, <1>7 DEF Destroys, LastOneFrees, Finished
  <2>2. ZeroIsSeen'
    BY <1>0, <1>7 DEF Destroys, ZeroIsSeen
  <2> QED
    BY <2>1, <2>2 DEF FreeInv
<1>8. ASSUME NEW t \in Threads, DestroyEnterCritical(t) PROVE FreeInv'
  <2>1. /\ ~freed /\ cl[t] = "destroy" /\ cl' = [cl EXCEPT ![t] = "emptying"]
        /\ UNCHANGED <<pc, ref_counter, closer, leaked, freed, overtaken>>
    BY <1>8 DEF DestroyEnterCritical, InClose, CloseUnchanged
  <2> QED
    BY <1>0, <2>1 DEF FreeInv, LastOneFrees, ZeroIsSeen, Finished
<1> QED
  BY <1>1, <1>2, <1>3, <1>4, <1>5, <1>6, <1>7, <1>8, ControlStep

\* The invariants hold together.
LEMMA CloseInvariant == Spec => [](RefInv /\ FreeInv)
<1>1. ASSUME Init PROVE RefInv /\ FreeInv
  <2>1. LastOneFrees /\ ZeroIsSeen
    BY <1>1 DEF Init, LastOneFrees, ZeroIsSeen, Destroying, Threads
  <2> QED
    BY <1>1, <2>1, RefInit DEF FreeInv
<1>2. RefInv /\ FreeInv /\ [Next]_vars => (RefInv /\ FreeInv)'
  BY RefStep, FreeStep
<1> QED
  BY <1>1, <1>2, PTL DEF Spec

\* No thread uses the handle once it is freed, unless both threads of the library
\* ended between the two statements that open zookeeper_close.
THEOREM NoUseUnlessOvertaken == Spec => []FreedUnusedUnlessOvertaken
<1>1. FreeInv => FreedUnusedUnlessOvertaken
  BY DEF FreeInv, LastOneFrees, FreedUnusedUnlessOvertaken, NoUseAfterFree
<1> QED
  BY <1>1, CloseInvariant, PTL

\* The thread that destroys the handle is the only one with a reference to it, so
\* that the handle is not freed twice.
THEOREM Destroyer == Spec => []OneDestroyer
<1>1. RefInv /\ FreeInv => OneDestroyer
  BY DEF RefInv, ControlType, CloserInv, FreeInv, LastOneFrees, OneDestroyer, Destroying, Finished,
     Held, HeldByThread, HeldByClose, Threads
<1> QED
  BY <1>1, CloseInvariant, PTL

\* When all is over after a close, the handle was freed exactly if no out-of-order
\* reply made zookeeper_process return without its api_epilog.
THEOREM FreedOrLeaked == Spec => []FreedUnlessLeaked
<1>1. RefInv /\ FreeInv => FreedUnlessLeaked
  <2> SUFFICES ASSUME RefInv, FreeInv, AllFinished
               PROVE  freed <=> leaked = 0
    BY DEF FreedUnlessLeaked
  <2>1. freed => leaked = 0
    BY DEF FreeInv, ZeroIsSeen
  <2>2. ASSUME ~freed PROVE leaked # 0
    <3>1. \A t \in Threads : Held(t) = 0 /\ cl[t] # "flagged"
      BY DEF AllFinished, Finished, RefInv, CloserInv, Held, HeldByThread, HeldByClose, Threads
    <3>2. ref_counter # 0
      BY <2>2, <3>1 DEF FreeInv, ZeroIsSeen, AllFinished
    <3> QED
      BY <2>2, <3>1, <3>2 DEF RefInv, RefCounterExact, ControlType, Threads
  <2> QED
    BY <2>1, <2>2
<1> QED
  BY <1>1, CloseInvariant, PTL

-----------------------------------------------------------------------------
(* The requests: where an accepted one is, and who answers it.             *)

Code == [xid : Calls \union {EVENT}, rc : RetCodes]

\* The types of what the threads hand to each other.
DataType ==
  /\ sent_requests \in Seq(Calls)
  /\ tmp_list \in [Threads -> Seq(Calls)]
  /\ completions_to_process \in Seq(Code)
  /\ result \in [Calls -> Seq(RetCodes)]
  /\ call \in [Calls -> {"idle", "checked", "queued", "refused"}]
  /\ cur \in Calls \union {EVENT}
  /\ reason \in [Threads -> RetCodes]
  /\ wire \in Nat

\* Who is inside free_completions holds zh_lock, and nobody else has a list of
\* requests; the IO thread has a completion in its hands exactly while it looks at the
\* reply; and until the handle is closed, every reply still to come has its request,
\* which is why assert(cptr) holds.
LockInv ==
  /\ \A t \in Threads : tmp_list[t] # <<>> => zh_lock = t
  /\ pc["io"] = "cleanup" => zh_lock = "io"
  /\ \A t \in Threads : cl[t] \in {"freeing", "emptying"} => zh_lock = t
  /\ cur # EVENT <=> pc["io"] = "dispatch"
  /\ ~close_requested => wire <= Len(sent_requests)
  /\ pc["io"] # "aborted"

\* The places a request can be in.
XidList(list) == [i \in DOMAIN list |-> list[i].xid]
PlaceNames == {"sent", "cur", "queue", "done"} \union Threads
In(p, c) ==
  \/ p = "sent" /\ InList(sent_requests, c)
  \/ p = "cur" /\ cur = c
  \/ p = "queue" /\ InList(XidList(completions_to_process), c)
  \/ p = "done" /\ result[c] # <<>>
  \/ p \in Threads /\ InList(tmp_list[p], c)

AtMostOnce(list, x) == \A i, j \in DOMAIN list : list[i] = x /\ list[j] = x => i = j

\* An accepted request is in one place and is there once; the others are nowhere.
OneAt(c) ==
  /\ \A p, q \in PlaceNames : In(p, c) /\ In(q, c) => p = q
  /\ call[c] = "queued" <=> \E p \in PlaceNames : In(p, c)
Once(c) ==
  /\ AtMostOnce(sent_requests, c)
  /\ \A t \in Threads : AtMostOnce(tmp_list[t], c)
  /\ AtMostOnce(XidList(completions_to_process), c)
  /\ Len(result[c]) \in {0, 1}
OnePlaceInv == \A c \in Calls : OneAt(c) /\ Once(c)

\* A synchronous call is answered by its caller's thread, never through the queue.
NoSyncQueued == \A c \in SyncCalls : ~InList(XidList(completions_to_process), c)

RequestInv == DataType /\ LockInv /\ OnePlaceInv /\ NoSyncQueued

\* What is in a list after an entry was queued at its end, and that an entry that
\* was not there is there once.
LEMMA AppendFacts ==
  ASSUME NEW S, NEW list \in Seq(S), NEW e \in S
  PROVE  /\ Append(list, e) \in Seq(S)
         /\ \A x : InList(Append(list, e), x) <=> InList(list, x) \/ x = e
         /\ \A x : AtMostOnce(list, x) /\ (x = e => ~InList(list, x))
                     => AtMostOnce(Append(list, e), x)
<1>1. /\ Append(list, e) \in Seq(S)
      /\ Len(Append(list, e)) = Len(list) + 1
      /\ DOMAIN Append(list, e) = 1 .. Len(list) + 1
      /\ \A i \in 1 .. Len(list) : Append(list, e)[i] = list[i]
      /\ Append(list, e)[Len(list) + 1] = e
  OBVIOUS
<1>2. DOMAIN list = 1 .. Len(list) /\ Len(list) \in Nat
  OBVIOUS
<1>3. \A i : i \in 1 .. Len(list) + 1 <=> i \in 1 .. Len(list) \/ i = Len(list) + 1
  BY <1>2
<1>4. ASSUME NEW x
      PROVE  InList(Append(list, e), x) <=> InList(list, x) \/ x = e
  BY <1>1, <1>2, <1>3 DEF InList
<1>5. ASSUME NEW x, AtMostOnce(list, x), x = e => ~InList(list, x)
      PROVE  AtMostOnce(Append(list, e), x)
  BY <1>1, <1>2, <1>3, <1>5 DEF InList, AtMostOnce
<1> QED
  BY <1>1, <1>4, <1>5

\* What is in a list whose head was taken, and that an entry that was there once
\* is gone with the head.
LEMMA TailFacts ==
  ASSUME NEW S, NEW list \in Seq(S), list # <<>>
  PROVE  /\ Head(list) \in S
         /\ Tail(list) \in Seq(S)
         /\ \A x : InList(list, x) <=> InList(Tail(list), x) \/ x = Head(list)
         /\ \A x : AtMostOnce(list, x) => /\ AtMostOnce(Tail(list), x)
                                          /\ x = Head(list) => ~InList(Tail(list), x)
<1>1. /\ Head(list) \in S
      /\ Tail(list) \in Seq(S)
      /\ Len(list) \in Nat /\ Len(list) > 0
      /\ DOMAIN list = 1 .. Len(list)
      /\ DOMAIN Tail(list) = 1 .. Len(list) - 1
      /\ \A i \in 1 .. Len(list) - 1 : Tail(list)[i] = list[i + 1]
      /\ Head(list) = list[1]
  OBVIOUS
<1>2. \A i \in 1 .. Len(list) : i = 1 \/ i - 1 \in 1 .. Len(list) - 1
  BY <1>1
<1>3. \A i \in 1 .. Len(list) - 1 : i + 1 \in 1 .. Len(list) /\ i + 1 # 1
  BY <1>1
<1>4. \A i \in 1 .. Len(list) : i # 1 => list[i] = Tail(list)[i - 1]
  BY <1>1, <1>2
<1>5. ASSUME NEW x
      PROVE  InList(list, x) <=> InList(Tail(list), x) \/ x = Head(list)
  <2>1. ASSUME InList(list, x) PROVE InList(Tail(list), x) \/ x = Head(list)
    BY <1>1, <1>2, <1>4, <2>1 DEF InList
  <2>2. ASSUME InList(Tail(list), x) PROVE InList(list, x)
    BY <1>1, <1>3, <2>2 DEF InList
  <2>3. ASSUME x = Head(list) PROVE InList(list, x)
    BY <1>1, <2>3 DEF InList
  <2> QED
    BY <2>1, <2>2, <2>3
<1>6. ASSUME NEW x, AtMostOnce(list, x)
      PROVE  /\ AtMostOnce(Tail(list), x)
             /\ x = Head(list) => ~InList(Tail(list), x)
  <2>1. ASSUME NEW i \in 1 .. Len(list) - 1, NEW j \in 1 .. Len(list) - 1,
               Tail(list)[i] = x, Tail(list)[j] = x
        PROVE  i = j
    BY <1>1, <1>3, <1>6, <2>1 DEF AtMostOnce
  <2>2. ASSUME x = Head(list), NEW i \in 1 .. Len(list) - 1, Tail(list)[i] = x
        PROVE  FALSE
    BY <1>1, <1>3, <1>6, <2>2 DEF AtMostOnce
  <2> QED
    BY <1>1, <2>1, <2>2 DEF AtMostOnce, InList
<1> QED
  BY <1>1, <1>5, <1>6

\* What is in a list after an entry was put at its front.
LEMMA FrontFacts ==
  ASSUME NEW S, NEW list \in Seq(S), NEW e \in S
  PROVE  /\ <<e>> \o list \in Seq(S) /\ Len(<<e>> \o list) = Len(list) + 1
         /\ \A x : InList(<<e>> \o list, x) <=> InList(list, x) \/ x = e
         /\ \A x : AtMostOnce(list, x) /\ (x = e => ~InList(list, x))
                     => AtMostOnce(<<e>> \o list, x)
<1> DEFINE new == <<e>> \o list
<1>1. /\ new \in Seq(S) /\ Len(new) = Len(list) + 1 /\ Len(list) \in Nat
      /\ DOMAIN list = 1 .. Len(list) /\ DOMAIN new = 1 .. Len(list) + 1
      /\ new[1] = e /\ \A i \in 1 .. Len(list) : new[i + 1] = list[i]
  OBVIOUS
<1> HIDE DEF new
<1>2. \A i \in 1 .. Len(list) + 1 : i = 1 \/ (i - 1 \in 1 .. Len(list) /\ i = (i - 1) + 1)
  BY <1>1
<1>3. \A i \in 1 .. Len(list) + 1 : i # 1 => new[i] = list[i - 1]
  BY <1>1, <1>2
<1>4. \A i \in 1 .. Len(list) : i + 1 \in 1 .. Len(list) + 1
  BY <1>1
<1>5. ASSUME NEW x PROVE InList(new, x) <=> InList(list, x) \/ x = e
  <2>1. ASSUME InList(new, x) PROVE InList(list, x) \/ x = e
    BY <1>1, <1>2, <1>3, <2>1, SMTT(20) DEF InList
  <2>2. ASSUME InList(list, x) PROVE InList(new, x)
    BY <1>1, <1>4, <2>2 DEF InList
  <2>3. ASSUME x = e PROVE InList(new, x)
    BY <1>1, <2>3 DEF InList
  <2> QED
    BY <2>1, <2>2, <2>3
<1>6. ASSUME NEW x, AtMostOnce(list, x), x = e => ~InList(list, x)
      PROVE  AtMostOnce(new, x)
  <2>1. ASSUME NEW i \in 1 .. Len(list) + 1, NEW j \in 1 .. Len(list) + 1, new[i] = x, new[j] = x
        PROVE  i = j
    <3>1. i # 1 => i - 1 \in DOMAIN list /\ list[i - 1] = x
      BY <1>1, <1>2, <1>3, <2>1
    <3>2. j # 1 => j - 1 \in DOMAIN list /\ list[j - 1] = x
      BY <1>1, <1>2, <1>3, <2>1
    <3>3. i # 1 /\ j # 1 => i - 1 = j - 1
      BY <1>6, <3>1, <3>2 DEF AtMostOnce
    <3>4. i = 1 \/ j = 1 => x = e
      BY <1>1, <2>1
    <3>5. x = e => i = 1 /\ j = 1
      BY <1>6, <3>1, <3>2 DEF InList
    <3> QED
      BY <3>3, <3>4, <3>5
  <2> QED
    BY <1>1, <2>1 DEF AtMostOnce
<1> QED
  BY <1>1, <1>5, <1>6 DEF new

\* The xids of a list of completions follow the list.
LEMMA XidListFacts ==
  ASSUME NEW list \in Seq(Code)
  PROVE  /\ XidList(list) \in Seq(Calls \union {EVENT})
         /\ \A e \in Code : XidList(Append(list, e)) = Append(XidList(list), e.xid)
         /\ list # <<>> => /\ XidList(list) # <<>>
                           /\ XidList(Tail(list)) = Tail(XidList(list))
                           /\ Head(XidList(list)) = Head(list).xid
<1>1. \A e \in Code : e.xid \in Calls \union {EVENT}
  BY DEF Code
<1>2. XidList(list) \in Seq(Calls \union {EVENT}) /\ Len(XidList(list)) = Len(list)
  BY <1>1 DEF XidList
<1>3. ASSUME NEW e \in Code
      PROVE  XidList(Append(list, e)) = Append(XidList(list), e.xid)
  BY <1>1, <1>2 DEF XidList
<1>4. ASSUME list # <<>>
      PROVE  /\ XidList(list) # <<>>
             /\ XidList(Tail(list)) = Tail(XidList(list))
             /\ Head(XidList(list)) = Head(list).xid
  BY <1>1, <1>2, <1>4 DEF XidList
<1> QED
  BY <1>2, <1>3, <1>4

\* The empty list.
LEMMA EmptyFacts ==
  /\ \A x : ~InList(<<>>, x) /\ AtMostOnce(<<>>, x)
  BY DEF InList, AtMostOnce

\* A request that stays where it is, moves from one place to another, or is queued.
LEMMA Moves ==
  ASSUME NEW c \in Calls, OneAt(c),
         \/ /\ \A r \in PlaceNames : In(r, c)' <=> In(r, c)
            /\ call'[c] = "queued" <=> call[c] = "queued"
         \/ /\ \E p \in PlaceNames : In(p, c)
            /\ \E q \in PlaceNames : \A r \in PlaceNames : In(r, c)' <=> r = q
            /\ call'[c] = "queued" <=> call[c] = "queued"
         \/ /\ call'[c] = "queued"
            /\ \E q \in PlaceNames : \A r \in PlaceNames : In(r, c)' <=> r = q
  PROVE  OneAt(c)'
  BY Zenon DEF OneAt

\* Each step keeps the types.
LEMMA DataStep ==
  ASSUME RefInv, DataType, LockInv, [Next]_vars
  PROVE  DataType'
<1>0. /\ sent_requests \in Seq(Calls) /\ tmp_list \in [Threads -> Seq(Calls)]
      /\ completions_to_process \in Seq(Code) /\ result \in [Calls -> Seq(RetCodes)]
      /\ call \in [Calls -> {"idle", "checked", "queued", "refused"}]
      /\ cur \in Calls \union {EVENT} /\ reason \in [Threads -> RetCodes] /\ wire \in Nat
  BY DEF DataType
<1>a. \A c \in Calls, rc \in RetCodes : Notify(c, rc) \in [Calls -> Seq(RetCodes)]
  BY <1>0 DEF Notify
<1>b. ASSUME NEW x \in Calls \union {EVENT}, NEW rc \in RetCodes, NEW pcs, QueueToProcess(x, rc, pcs)
      PROVE  completions_to_process' \in Seq(Code)
  <2>1. [xid |-> x, rc |-> rc] \in Code
    BY DEF Code
  <2> QED
    BY <1>0, <1>b, <2>1, AppendFacts DEF QueueToProcess
<1>c. {"ZOK", "ZCONNECTIONLOSS", "ZRUNTIMEINCONSISTENCY", "ZCLOSING"} \subseteq RetCodes
  BY DEF RetCodes
<1>d. <<>> \in Seq(Calls)
  OBVIOUS
<1>1. ASSUME NEW c \in Calls, CheckState(c) \/ MakeCall(c) PROVE DataType'
  <2>1. Append(sent_requests, c) \in Seq(Calls)
    BY <1>0, AppendFacts
  <2>2. CASE CheckState(c)
    BY <1>0, <2>2 DEF CheckState, DataType
  <2>3. CASE MakeCall(c)
    <3>1. UNCHANGED <<tmp_list, completions_to_process, result, cur, reason>>
      BY <2>3 DEF MakeCall
    <3>2. \/ sent_requests' = Append(sent_requests, c) /\ wire' = wire + 1
          \/ sent_requests' = sent_requests /\ wire' = wire
      BY <2>3 DEF MakeCall
    <3>3. call' \in [Calls -> {"idle", "checked", "queued", "refused"}]
      BY <1>0, <2>3 DEF MakeCall
    <3>4. sent_requests' \in Seq(Calls)
      BY <1>0, <2>1, <3>2
    <3>5. wire' \in Nat
      BY <1>0, <3>2
    <3> QED
      BY <1>0, <3>1, <3>3, <3>4, <3>5 DEF DataType
  <2> QED
    BY <1>1, <2>2, <2>3
<1>2. CASE IoTop \/ IoIdle
  BY <1>0, <1>2 DEF IoTop, IoIdle, DataType
<1>3. CASE IoDequeue
  <2>1. sent_requests # <<>> => Head(sent_requests) \in Calls /\ Tail(sent_requests) \in Seq(Calls)
    BY <1>0, TailFacts
  <2>2. wire' \in Nat
    BY <1>0, <1>3 DEF IoDequeue
  <2> QED
    BY <1>0, <1>3, <2>1, <2>2 DEF IoDequeue, DataType
<1>4. CASE IoDispatch
  <2>1. cur \in SyncCalls => result' = Notify(cur, "ZOK") /\ completions_to_process' = completions_to_process
    BY <1>4 DEF IoDispatch
  <2>2. cur \notin SyncCalls => result' = result /\ QueueToProcess(cur, "ZOK", [pc EXCEPT !["io"] = "top"])
    BY <1>4 DEF IoDispatch
  <2>3. result' \in [Calls -> Seq(RetCodes)] /\ completions_to_process' \in Seq(Code)
    BY <1>0, <1>a, <1>b, <1>c, <2>1, <2>2, CloseAssumption
  <2> QED
    BY <1>0, <1>4, <2>3 DEF IoDispatch, DataType
<1>5. CASE IoMisorder
  <2>1. cur \in Calls
    BY <1>0, <1>5 DEF IoMisorder, LockInv, At
  <2>2. sent_requests' \in Seq(Calls)
    BY <1>0, <1>5, <2>1, FrontFacts DEF IoMisorder
  <2>3. completions_to_process' \in Seq(Code)
    BY <1>5, <1>b, <1>c DEF IoMisorder
  <2> QED
    BY <1>0, <1>5, <1>c, <2>2, <2>3 DEF IoMisorder, DataType
<1>6. CASE IoError
  <2>1. completions_to_process' \in Seq(Code)
    BY <1>6, <1>b, <1>c DEF IoError
  <2> QED
    BY <1>0, <1>6, <1>c, <2>1 DEF IoError, DataType
<1>7. CASE IoEnterCritical \/ IoLeaveCritical
  <2>1. reason' \in [Threads -> RetCodes] /\ tmp_list' \in [Threads -> Seq(Calls)]
    BY <1>0, <1>7, <1>c DEF IoEnterCritical, IoLeaveCritical
  <2>2. /\ sent_requests' = sent_requests \/ sent_requests' = <<>>
        /\ wire' = wire \/ wire' = 0
        /\ UNCHANGED <<completions_to_process, result, call, cur>>
    BY <1>7 DEF IoEnterCritical, IoLeaveCritical
  <2>3. sent_requests' \in Seq(Calls)
    BY <1>0, <1>d, <2>2
  <2>4. wire' \in Nat
    BY <1>0, <2>2
  <2> QED
    BY <1>0, <2>1, <2>2, <2>3, <2>4 DEF DataType
<1>8. ASSUME NEW t \in Threads, FreeCompletion(t) PROVE DataType'
  <2> DEFINE c == Head(tmp_list[t])
  <2>1. /\ tmp_list[t] \in Seq(Calls) /\ tmp_list[t] # <<>> /\ reason[t] \in RetCodes
        /\ tmp_list' = [tmp_list EXCEPT ![t] = Tail(tmp_list[t])]
        /\ UNCHANGED <<sent_requests, call, cur, reason, wire>>
    BY <1>0, <1>8 DEF FreeCompletion
  <2>2. c \in Calls /\ Tail(tmp_list[t]) \in Seq(Calls)
    BY <2>1, TailFacts
  <2>3. \/ result' = Notify(c, reason[t]) /\ completions_to_process' = completions_to_process
        \/ result' = result /\ QueueToProcess(c, reason[t], pc)
    BY <1>8 DEF FreeCompletion
  <2> HIDE DEF c
  <2>4. result' \in [Calls -> Seq(RetCodes)]
    BY <1>0, <1>a, <2>1, <2>2, <2>3
  <2>5. completions_to_process' \in Seq(Code)
    BY <1>0, <1>b, <2>1, <2>2, <2>3
  <2> QED
    BY <1>0, <2>1, <2>2, <2>4, <2>5 DEF DataType
<1>9. CASE CompTop \/ CompTest \/ CompSpuriousWakeup \/ CallbackWakes \/ CallbackReturns \/ CompDrained
  BY <1>0, <1>9 DEF CompTop, CompTest, CompSpuriousWakeup, CallbackWakes, CallbackReturns,
     CompDrained, CompUnchanged, DataType
<1>10. CASE CompCallback
  <2> DEFINE c == Head(completions_to_process)
  <2>1. c \in Code /\ Tail(completions_to_process) \in Seq(Code)
    BY <1>0, <1>10, TailFacts DEF CompCallback
  <2>2. result' = IF c.xid = EVENT THEN result ELSE Notify(c.xid, c.rc)
    BY <1>10 DEF CompCallback
  <2> HIDE DEF c
  <2>3. result' \in [Calls -> Seq(RetCodes)]
    BY <1>0, <1>a, <2>1, <2>2 DEF Code
  <2> QED
    BY <1>0, <1>10, <2>1, <2>3 DEF CompCallback, CompUnchanged, DataType
<1>11. ASSUME NEW t \in Threads,
              \/ CloseRequest(t) \/ CloseIncRef(t) \/ CloseEnterCritical(t) \/ CloseLeaveCritical(t)
              \/ CloseJoinIo(t) \/ CloseJoinCompletion(t)
              \/ DestroyEnterCritical(t) \/ DestroyHandle(t)
       PROVE  DataType'
  <2>1. UNCHANGED <<completions_to_process, result, call, cur, wire>>
    BY <1>11 DEF CloseRequest, CloseIncRef, CloseEnterCritical, CloseLeaveCritical,
       CloseJoinIo, CloseJoinCompletion, DestroyEnterCritical, DestroyHandle, CloseUnchanged
  <2>2. /\ sent_requests' = sent_requests \/ sent_requests' = <<>>
        /\ tmp_list' = tmp_list \/ tmp_list' = [tmp_list EXCEPT ![t] = sent_requests]
        /\ \/ reason' = reason
           \/ \E rc \in {"ZCLOSING", "ZOK"} : reason' = [reason EXCEPT ![t] = rc]
    BY <1>11 DEF CloseRequest, CloseIncRef, CloseEnterCritical, CloseLeaveCritical,
       CloseJoinIo, CloseJoinCompletion, DestroyEnterCritical, DestroyHandle, Detached,
       LeftAtDestroy
  <2>3. reason' \in [Threads -> RetCodes]
    BY <1>0, <1>c, <2>2
  <2>4. tmp_list' \in [Threads -> Seq(Calls)]
    BY <1>0, <2>2
  <2> QED
    BY <1>0, <1>d, <2>1, <2>2, <2>3, <2>4 DEF DataType
<1>12. ASSUME NEW t \in Threads, ThreadEpilog(t) \/ CloseEpilog(t) PROVE DataType'
  BY <1>0, <1>12 DEF ThreadEpilog, CloseEpilog, ReleaseReference, CloseUnchanged, DataType
<1>13. CASE UNCHANGED vars
  BY <1>0, <1>13 DEF vars, DataType
<1>14. ASSUME NEW c \in Calls, AppCall(c) \/ CallbackCheck(c) \/ CallbackCall(c)
       PROVE  CheckState(c) \/ MakeCall(c)
  BY <1>14 DEF AppCall, CallbackCheck, CallbackCall
<1> QED
  BY <1>1, <1>2, <1>3, <1>4, <1>5, <1>6, <1>7, <1>8, <1>9, <1>10, <1>11, <1>12, <1>13, <1>14
  DEF Next, do_io, do_completion, ThreadStep, zookeeper_close

\* Each step keeps the lock with whoever frees requests, and the replies with their
\* requests.
LEMMA LockStep ==
  ASSUME RefInv, DataType, LockInv, [Next]_vars
  PROVE  LockInv'
<1>0. /\ pc \in [Threads -> Pcs] /\ cl \in [Threads -> Cls] /\ CloserInv
      /\ tmp_list \in [Threads -> Seq(Calls)] /\ wire \in Nat /\ sent_requests \in Seq(Calls)
      /\ cur \in Calls \union {EVENT} /\ EVENT \notin Calls /\ LockInv
      /\ Threads = {"io", "comp", "app"}
  BY CloseAssumption DEF RefInv, ControlType, DataType, Threads
<1>a. \A t \in Threads : cl[t] # "none" => close_requested /\ (t = "io" => pc["io"] = "closing")
  BY <1>0 DEF CloserInv
<1>b. ASSUME UNCHANGED <<zh_lock, cur, wire, sent_requests, tmp_list>>,
             ~close_requested' => ~close_requested,
             \/ pc'["io"] = pc["io"]
             \/ pc["io"] \notin {"cleanup", "dispatch"} /\ pc'["io"] \notin {"cleanup", "dispatch", "aborted"},
             cl' \in [Threads -> Cls], \A u \in Threads : cl'[u] = cl[u] \/ cl'[u] \notin {"freeing", "emptying"}
      PROVE  LockInv'
  BY <1>0, <1>b DEF LockInv
<1>1. ASSUME NEW c \in Calls, CheckState(c), pc'["io"] = pc["io"] PROVE LockInv'
  BY <1>0, <1>1 DEF CheckState, LockInv
<1>2. ASSUME NEW c \in Calls, MakeCall(c), pc'["io"] = pc["io"] PROVE LockInv'
  <2>1. /\ UNCHANGED <<close_requested, zh_lock, cl, tmp_list, cur>>
        /\ \/ sent_requests' = Append(sent_requests, c) /\ wire' = wire + 1
           \/ sent_requests' = sent_requests /\ wire' = wire
    BY <1>2 DEF MakeCall
  <2>2. ~close_requested => wire' <= Len(sent_requests')
    <3>1. Len(Append(sent_requests, c)) = Len(sent_requests) + 1
      BY <1>0
    <3> QED
      BY <1>0, <2>1, <3>1 DEF LockInv
  <2> QED
    BY <1>0, <1>2, <2>1, <2>2 DEF LockInv
<1>3. CASE IoTop \/ IoIdle
  BY <1>0, <1>3 DEF IoTop, IoIdle, IoStep, At, LockInv
<1>4. CASE IoDequeue
  <2>1. /\ UNCHANGED <<close_requested, zh_lock, cl, tmp_list>>
        /\ wire > 0 /\ wire' = wire - 1 /\ pc["io"] = "process" /\ cur = EVENT
    BY <1>0, <1>4 DEF IoDequeue, IoStep, At, LockInv
  <2>2. CASE sent_requests = <<>>
    <3>1. close_requested
      BY <1>0, <2>1, <2>2 DEF LockInv
    <3>2. pc'["io"] = "top" /\ UNCHANGED <<sent_requests, cur>>
      BY <1>0, <1>4, <2>2, <3>1 DEF IoDequeue, IoStep, ClosedMeanwhile
    <3> QED
      BY <1>0, <2>1, <3>1, <3>2 DEF LockInv
  <2>3. CASE sent_requests # <<>>
    <3>1. pc'["io"] = "dispatch" /\ cur' = Head(sent_requests) /\ sent_requests' = Tail(sent_requests)
      BY <1>0, <1>4, <2>3 DEF IoDequeue, IoStep
    <3>2. cur' \in Calls /\ Len(sent_requests') = Len(sent_requests) - 1 /\ Len(sent_requests) \in Nat
      BY <1>0, <2>3, <3>1
    <3> QED
      BY <1>0, <2>1, <3>1, <3>2 DEF LockInv
  <2> QED
    BY <2>2, <2>3
<1>5. CASE IoDispatch
  <2> DEFINE pcs == [pc EXCEPT !["io"] = "top"]
  <2>1. pc["io"] = "dispatch" /\ cur' = EVENT /\ pcs \in [Threads -> Pcs] /\ pcs["io"] = "top"
        /\ UNCHANGED <<close_requested, zh_lock, cl, tmp_list, wire, sent_requests>>
    BY <1>0, <1>5 DEF IoDispatch, At, Pcs
  <2>2. pc' = pcs \/ pc' = Broadcast(pcs)
    BY <1>5 DEF IoDispatch, IoStep, QueueToProcess
  <2>3. pc'["io"] = "top"
    BY <2>1, <2>2, BroadcastFacts
  <2> QED
    BY <1>0, <2>1, <2>3 DEF LockInv
<1>6. CASE IoMisorder \/ IoError
  <2> DEFINE pcs == [pc EXCEPT !["io"] = "error"]
  <2>1. pcs \in [Threads -> Pcs] /\ pc' = Broadcast(pcs) /\ pcs["io"] = "error"
    BY <1>0, <1>6 DEF IoMisorder, IoError, QueueToProcess, Pcs
  <2>2. pc'["io"] = "error"
    BY <2>1, BroadcastFacts
  <2>3. CASE IoMisorder
    <3>1. /\ pc["io"] = "dispatch" /\ cur' = EVENT /\ sent_requests' = <<cur>> \o sent_requests
          /\ UNCHANGED <<close_requested, zh_lock, cl, tmp_list, wire>>
      BY <2>3 DEF IoMisorder, At
    <3>2. Len(sent_requests') = Len(sent_requests) + 1 /\ Len(sent_requests) \in Nat
      BY <1>0, <3>1
    <3> QED
      BY <1>0, <2>2, <3>1, <3>2 DEF LockInv
  <2>4. CASE IoError
    BY <1>0, <2>2, <2>4 DEF IoError, At, LockInv
  <2> QED
    BY <1>6, <2>3, <2>4
<1>7. CASE IoEnterCritical
  <2>1. /\ zh_lock = "free" /\ zh_lock' = "io" /\ pc["io"] = "error" /\ pc'["io"] = "cleanup"
        /\ tmp_list' = [tmp_list EXCEPT !["io"] = sent_requests]
        /\ sent_requests' = <<>> /\ wire' = 0 /\ UNCHANGED <<close_requested, cl, cur>>
    BY <1>0, <1>7 DEF IoEnterCritical, IoStep, At
  <2>2. \A t \in Threads : t # "io" => tmp_list'[t] = tmp_list[t]
    BY <1>0, <2>1
  <2> QED
    BY <1>0, <2>1, <2>2 DEF LockInv
<1>8. CASE IoLeaveCritical
  <2>1. /\ zh_lock' = "free" /\ pc["io"] = "cleanup" /\ pc'["io"] \in {"epilog", "top"}
        /\ tmp_list["io"] = <<>>
        /\ UNCHANGED <<close_requested, cl, cur, tmp_list, sent_requests, wire>>
    BY <1>0, <1>8 DEF IoLeaveCritical, IoStep, At
  <2>2. cl["io"] = "none"
    BY <1>a, <2>1, <1>0 DEF CloserInv
  <2> QED
    BY <1>0, <2>1, <2>2 DEF LockInv
<1>9. ASSUME NEW t \in Threads, FreeCompletion(t) PROVE LockInv'
  <2>1. /\ zh_lock = t /\ tmp_list' = [tmp_list EXCEPT ![t] = Tail(@)]
        /\ pc' = pc \/ pc' = Broadcast(pc)
        /\ UNCHANGED <<close_requested, zh_lock, cl, cur, sent_requests, wire>>
    BY <1>9 DEF FreeCompletion, QueueToProcess
  <2>2. pc'["io"] = pc["io"]
    BY <1>0, <2>1, BroadcastFacts
  <2>3. \A u \in Threads : u # t => tmp_list'[u] = tmp_list[u]
    BY <1>0, <2>1
  <2> QED
    BY <1>0, <2>1, <2>2, <2>3 DEF LockInv
<1>10. CASE CompTop \/ CompTest \/ CompSpuriousWakeup \/ CompCallback \/ CallbackWakes
            \/ CallbackReturns \/ CompDrained
  <2>1. /\ pc'["io"] = pc["io"]
        /\ UNCHANGED <<close_requested, zh_lock, cl, cur, tmp_list, sent_requests, wire>>
    BY <1>0, <1>10 DEF CompTop, CompTest, CompSpuriousWakeup, CompCallback, CallbackWakes,
       CallbackReturns, CompDrained, CompUnchanged
  <2> QED
    BY <1>0, <2>1 DEF LockInv
<1>11. ASSUME NEW t \in Threads,
              CloseRequest(t) \/ CloseIncRef(t) \/ CloseJoinIo(t) \/ CloseJoinCompletion(t)
       PROVE  LockInv'
  <2>1. /\ UNCHANGED <<zh_lock, cur, wire, sent_requests, tmp_list>>
        /\ ~close_requested' => ~close_requested
        /\ \E x \in {"flagged", "signal", "destroy", "join_completion", "epilog"} : cl' = [cl EXCEPT ![t] = x]
        /\ \/ pc' = pc \/ pc' = Broadcast(pc) \/ pc' = [pc EXCEPT !["app"] = "closing"]
    BY <1>11 DEF CloseRequest, CloseIncRef, CloseJoinIo, CloseJoinCompletion, CloseUnchanged
  <2>2. pc'["io"] = pc["io"]
    BY <1>0, <2>1, BroadcastFacts
  <2>3. /\ cl' \in [Threads -> Cls]
        /\ \A u \in Threads : cl'[u] = cl[u] \/ cl'[u] \notin {"freeing", "emptying"}
    BY <1>0, <2>1 DEF Cls
  <2> QED
    BY <1>b, <2>1, <2>2, <2>3
<1>12. ASSUME NEW t \in Threads, CloseEnterCritical(t) \/ DestroyEnterCritical(t) PROVE LockInv'
  <2>1. /\ zh_lock = "free" /\ zh_lock' = t /\ cl[t] # "none"
        /\ tmp_list' = [tmp_list EXCEPT ![t] = sent_requests]
        /\ UNCHANGED <<close_requested, cur, pc>>
        /\ \E x \in {"freeing", "emptying"} : cl' = [cl EXCEPT ![t] = x]
    BY <1>12 DEF CloseEnterCritical, DestroyEnterCritical, InClose, CloseUnchanged, LeftAtDestroy
  <2>2. \A u \in Threads : u # t => tmp_list'[u] = tmp_list[u] /\ cl'[u] = cl[u]
    BY <1>0, <2>1
  <2>3. close_requested /\ pc["io"] # "cleanup"
    BY <1>0, <1>a, <2>1 DEF LockInv
  <2> QED
    BY <1>0, <2>1, <2>2, <2>3 DEF LockInv
<1>13. ASSUME NEW t \in Threads, CloseLeaveCritical(t) \/ DestroyHandle(t) PROVE LockInv'
  <2>1. /\ cl[t] \in {"freeing", "emptying"} /\ tmp_list[t] = <<>> /\ zh_lock' = "free"
        /\ UNCHANGED <<close_requested, cur, sent_requests, wire, tmp_list>>
        /\ \E x \in {"join_io", "none"} : cl' = [cl EXCEPT ![t] = x]
        /\ pc' = pc \/ pc' = [pc EXCEPT ![t] = "gone"]
    BY <1>13 DEF CloseLeaveCritical, DestroyHandle, InClose, CloseUnchanged
  <2>2. zh_lock = t /\ close_requested /\ (t = "io" => pc["io"] = "closing")
    BY <1>0, <1>a, <2>1 DEF LockInv
  <2>3. pc'["io"] = pc["io"] \/ (pc["io"] = "closing" /\ pc'["io"] = "gone")
    BY <1>0, <2>1, <2>2
  <2>4. pc["io"] # "cleanup"
    BY <1>0, <2>2 DEF LockInv
  <2>5. cl'[t] \notin {"freeing", "emptying"} /\ \A u \in Threads : u # t => cl'[u] = cl[u]
    BY <1>0, <2>1
  <2> QED
    BY <1>0, <2>1, <2>2, <2>3, <2>4, <2>5 DEF LockInv
<1>14. ASSUME NEW t \in Threads, ThreadEpilog(t) \/ CloseEpilog(t) PROVE LockInv'
  <2>1. /\ UNCHANGED <<close_requested, zh_lock, cur, wire, sent_requests, tmp_list>>
        /\ pc[t] = "epilog" \/ cl[t] = "epilog"
        /\ \E x \in {"flagged", "none"} : cl' = [cl EXCEPT ![t] = x]
        /\ \E x \in {"closing", "gone", "callback"} : pc' = [pc EXCEPT ![t] = x]
    BY <1>14 DEF ThreadEpilog, CloseEpilog, ReleaseReference, At, InClose, CloseUnchanged
  <2>2. t = "io" => pc["io"] \in {"epilog", "closing"}
    BY <1>a, <2>1
  <2>3. \/ pc'["io"] = pc["io"]
        \/ pc["io"] \notin {"cleanup", "dispatch"} /\ pc'["io"] \notin {"cleanup", "dispatch", "aborted"}
    BY <1>0, <2>1, <2>2
  <2>4. /\ cl' \in [Threads -> Cls]
        /\ \A u \in Threads : cl'[u] = cl[u] \/ cl'[u] \notin {"freeing", "emptying"}
    BY <1>0, <2>1 DEF Cls
  <2> QED
    BY <1>b, <2>1, <2>3, <2>4
<1>15. CASE UNCHANGED vars
  BY <1>0, <1>15 DEF vars, LockInv
<1>16. ASSUME NEW c \in Calls, AppCall(c) \/ CallbackCheck(c) \/ CallbackCall(c)
       PROVE  (CheckState(c) \/ MakeCall(c)) /\ pc'["io"] = pc["io"]
  BY <1>0, <1>16 DEF AppCall, CallbackCheck, CallbackCall
<1> QED
  BY <1>1, <1>2, <1>3, <1>4, <1>5, <1>6, <1>7, <1>8, <1>9, <1>10, <1>11, <1>12, <1>13, <1>14,
     <1>15, <1>16
  DEF Next, do_io, do_completion, ThreadStep, zookeeper_close

\* Queueing a completion or an event for the completion thread.
LEMMA Queued ==
  ASSUME DataType, NEW x \in Calls \union {EVENT}, NEW rc \in RetCodes, NEW pcs,
         QueueToProcess(x, rc, pcs)
  PROVE  /\ \A c : InList(XidList(completions_to_process'), c)
                     <=> InList(XidList(completions_to_process), c) \/ c = x
         /\ \A c : /\ AtMostOnce(XidList(completions_to_process), c)
                   /\ c = x => ~InList(XidList(completions_to_process), c)
                   => AtMostOnce(XidList(completions_to_process'), c)
<1> DEFINE e == [xid |-> x, rc |-> rc]
<1>1. e \in Code /\ e.xid = x
  BY DEF Code
<1>2. completions_to_process' = Append(completions_to_process, e)
  BY DEF QueueToProcess
<1>3. completions_to_process \in Seq(Code)
  BY DEF DataType
<1> HIDE DEF e
<1>4. /\ XidList(completions_to_process') = Append(XidList(completions_to_process), x)
      /\ XidList(completions_to_process) \in Seq(Calls \union {EVENT})
  BY <1>1, <1>2, <1>3, XidListFacts
<1> QED
  BY <1>4, AppendFacts

\* Answering a call that had no answer.
LEMMA Answered ==
  ASSUME DataType, NEW x \in Calls, NEW rc \in RetCodes, result[x] = <<>>
  PROVE  /\ Notify(x, rc)[x] # <<>> /\ Len(Notify(x, rc)[x]) = 1
         /\ \A c \in Calls : c # x => Notify(x, rc)[c] = result[c]
<1>1. result \in [Calls -> Seq(RetCodes)] /\ Append(<<>>, rc) = <<rc>>
  BY DEF DataType
<1>2. Notify(x, rc)[x] = <<rc>> /\ \A c \in Calls : c # x => Notify(x, rc)[c] = result[c]
  BY <1>1 DEF Notify
<1> QED
  BY <1>2

\* No request moves.
LEMMA Unmoved ==
  ASSUME OnePlaceInv, NoSyncQueued,
         UNCHANGED <<sent_requests, tmp_list, completions_to_process, result, cur>>,
         \A c \in Calls : call'[c] = "queued" <=> call[c] = "queued"
  PROVE  OnePlaceInv' /\ NoSyncQueued'
<1>1. \A c, p : In(p, c)' <=> In(p, c)
  BY DEF In
<1>2. \A c \in Calls : Once(c)' <=> Once(c)
  BY DEF Once
<1>3. \A c \in Calls : OneAt(c)'
  BY <1>1 DEF OnePlaceInv, OneAt
<1> QED
  BY <1>1, <1>2, <1>3 DEF OnePlaceInv, NoSyncQueued

\* One request moves from place p, which it leaves, to place q.
LEMMA OneMoves ==
  ASSUME OnePlaceInv, NEW x \in Calls, NEW p \in PlaceNames, NEW q \in PlaceNames,
         In(p, x), call' = call,
         \A r \in PlaceNames : In(r, x)' <=> r = q,
         \A c \in Calls \ {x} : \A r \in PlaceNames : In(r, c)' <=> In(r, c),
         \A c \in Calls : Once(c)'
  PROVE  OnePlaceInv'
<1>1. ASSUME NEW c \in Calls PROVE OneAt(c)'
  <2>1. CASE c = x
    BY <2>1, Moves DEF OnePlaceInv
  <2>2. CASE c # x
    BY <2>2, Moves DEF OnePlaceInv
  <2> QED
    BY <2>1, <2>2
<1> QED
  BY <1>1 DEF OnePlaceInv

\* Handing a request out of place p, which it leaves: its synchronous caller gets the
\* answer, or the completion thread gets the completion.
LEMMA HandedOut ==
  ASSUME RequestInv, NEW x \in Calls, NEW rc \in RetCodes, NEW pcs,
         NEW p \in Threads \union {"cur"}, In(p, x),
         IF x \in SyncCalls
           THEN result' = Notify(x, rc) /\ UNCHANGED completions_to_process
           ELSE QueueToProcess(x, rc, pcs) /\ UNCHANGED result,
         UNCHANGED <<sent_requests, call>>,
         \A c \in Calls : (cur = c)' <=> cur = c /\ (p = "cur" => c # x),
         \A t \in Threads, c \in Calls :
            InList(tmp_list'[t], c) <=> InList(tmp_list[t], c) /\ (p = t => c # x),
         \A t \in Threads, c \in Calls : AtMostOnce(tmp_list'[t], c)
  PROVE  OnePlaceInv' /\ NoSyncQueued'
<1>0. DataType /\ OnePlaceInv /\ NoSyncQueued
  BY DEF RequestInv
<1>1. p \in PlaceNames /\ PlaceNames = {"sent", "cur", "queue", "done", "io", "comp", "app"}
      /\ Threads = {"io", "comp", "app"}
  BY DEF PlaceNames, Threads
<1>2. \A r \in PlaceNames : In(r, x) => r = p
  BY <1>0, <1>1 DEF OnePlaceInv, OneAt
<1>3. result[x] = <<>> /\ ~InList(XidList(completions_to_process), x) /\ ~InList(sent_requests, x)
  BY <1>1, <1>2 DEF In
<1>4. CASE x \in SyncCalls
  <2>1. result' = Notify(x, rc) /\ completions_to_process' = completions_to_process
    BY <1>4
  <2>2. result'[x] # <<>> /\ Len(result'[x]) = 1 /\ \A c \in Calls : c # x => result'[c] = result[c]
    BY <1>0, <1>3, <2>1, Answered
  <2>3. \A r \in PlaceNames : In(r, x)' <=> r = "done"
    BY <1>1, <1>2, <1>3, <2>1, <2>2 DEF In
  <2>4. \A c \in Calls \ {x} : \A r \in PlaceNames : In(r, c)' <=> In(r, c)
    BY <1>1, <2>1, <2>2 DEF In
  <2>5. ASSUME NEW c \in Calls PROVE Once(c)'
    <3>1. Len(result'[c]) \in {0, 1}
      <4>1. CASE c = x
        BY <2>2, <4>1
      <4>2. CASE c # x
        BY <1>0, <2>2, <4>2 DEF OnePlaceInv, Once
      <4> QED
        BY <4>1, <4>2
    <3> QED
      BY <1>0, <2>1, <3>1 DEF OnePlaceInv, Once
  <2>6. NoSyncQueued'
    BY <1>0, <2>1 DEF NoSyncQueued
  <2> QED
    BY <1>0, <1>1, <2>3, <2>4, <2>5, <2>6, OneMoves
<1>5. CASE x \notin SyncCalls
  <2>1. result' = result /\ QueueToProcess(x, rc, pcs)
    BY <1>5
  <2>2. /\ \A c : InList(XidList(completions_to_process'), c)
                    <=> InList(XidList(completions_to_process), c) \/ c = x
        /\ \A c : /\ AtMostOnce(XidList(completions_to_process), c)
                  /\ c = x => ~InList(XidList(completions_to_process), c)
                  => AtMostOnce(XidList(completions_to_process'), c)
    BY <1>0, <2>1, Queued
  <2>3. \A r \in PlaceNames : In(r, x)' <=> r = "queue"
    BY <1>1, <1>2, <1>3, <2>1, <2>2 DEF In
  <2>4. \A c \in Calls \ {x} : \A r \in PlaceNames : In(r, c)' <=> In(r, c)
    BY <1>1, <2>1, <2>2 DEF In
  <2>5. \A c \in Calls : Once(c)'
    BY <1>0, <1>3, <2>1, <2>2 DEF OnePlaceInv, Once
  <2>6. NoSyncQueued'
    BY <1>0, <1>5, <2>2 DEF NoSyncQueued
  <2> QED
    BY <1>0, <1>1, <2>3, <2>4, <2>5, <2>6, OneMoves
<1> QED
  BY <1>4, <1>5

\* Detaching the list of sent requests: they all move to the thread that frees them.
LEMMA AllDetached ==
  ASSUME RequestInv, NEW t \in Threads, zh_lock = "free",
         tmp_list' = [tmp_list EXCEPT ![t] = sent_requests], sent_requests' = <<>>,
         UNCHANGED <<completions_to_process, result, cur, call>>
  PROVE  OnePlaceInv' /\ NoSyncQueued'
<1>0. OnePlaceInv /\ NoSyncQueued /\ tmp_list \in [Threads -> Seq(Calls)]
  BY DEF RequestInv, DataType
<1>1. PlaceNames = {"sent", "cur", "queue", "done", "io", "comp", "app"} /\ Threads = {"io", "comp", "app"}
  BY DEF PlaceNames, Threads
<1>2. \A u \in Threads : tmp_list[u] = <<>>
  BY <1>1 DEF RequestInv, LockInv
<1>3. \A c : ~InList(<<>>, c) /\ AtMostOnce(<<>>, c)
  BY EmptyFacts
<1>4. tmp_list'[t] = sent_requests /\ \A u \in Threads \ {t} : tmp_list'[u] = <<>>
  BY <1>0, <1>2
<1>5. ASSUME NEW c \in Calls PROVE OneAt(c)' /\ Once(c)'
  <2>1. OneAt(c) /\ Once(c)
    BY <1>0 DEF OnePlaceInv
  <2>2. CASE InList(sent_requests, c)
    <3>1. \A r \in PlaceNames : In(r, c) <=> r = "sent"
      BY <1>1, <2>1, <2>2 DEF OneAt, In
    <3>2. \A r \in PlaceNames : In(r, c)' <=> r = t
      BY <1>1, <1>3, <1>4, <2>2, <3>1 DEF In
    <3>3. OneAt(c)'
      BY <1>1, <2>1, <3>1, <3>2, Moves
    <3> QED
      BY <1>1, <1>3, <1>4, <2>1, <3>3 DEF Once
  <2>3. CASE ~InList(sent_requests, c)
    <3>1. \A r \in PlaceNames : In(r, c)' <=> In(r, c)
      BY <1>1, <1>2, <1>3, <1>4, <2>3 DEF In
    <3>2. OneAt(c)'
      BY <2>1, <3>1, Moves
    <3> QED
      BY <1>1, <1>3, <1>4, <2>1, <3>2 DEF Once
  <2> QED
    BY <2>2, <2>3
<1> QED
  BY <1>0, <1>5 DEF OnePlaceInv, NoSyncQueued

\* Each step keeps every accepted request in one place, and the synchronous ones out of
\* the queue.
LEMMA PlaceStep ==
  ASSUME RefInv, RequestInv, [Next]_vars
  PROVE  OnePlaceInv' /\ NoSyncQueued'
<1>0. /\ sent_requests \in Seq(Calls) /\ tmp_list \in [Threads -> Seq(Calls)]
      /\ completions_to_process \in Seq(Code) /\ result \in [Calls -> Seq(RetCodes)]
      /\ call \in [Calls -> {"idle", "checked", "queued", "refused"}]
      /\ cur \in Calls \union {EVENT} /\ reason \in [Threads -> RetCodes]
      /\ OnePlaceInv /\ NoSyncQueued /\ LockInv /\ DataType
      /\ EVENT \notin Calls /\ "ZOK" \in RetCodes
  BY CloseAssumption DEF RequestInv, DataType, RetCodes
<1>1. PlaceNames = {"sent", "cur", "queue", "done", "io", "comp", "app"} /\ Threads = {"io", "comp", "app"}
  BY DEF PlaceNames, Threads
<1>a. \A c \in Calls : OneAt(c) /\ Once(c)
  BY <1>0 DEF OnePlaceInv
<1>2. ASSUME NEW x \in Calls, CheckState(x) PROVE OnePlaceInv' /\ NoSyncQueued'
  <2>1. /\ UNCHANGED <<sent_requests, tmp_list, completions_to_process, result, cur>>
        /\ \A c \in Calls : call'[c] = "queued" <=> call[c] = "queued"
    BY <1>0, <1>2 DEF CheckState
  <2> QED
    BY <1>0, <2>1, Unmoved
<1>3. ASSUME NEW x \in Calls, MakeCall(x) PROVE OnePlaceInv' /\ NoSyncQueued'
  <2>1. UNCHANGED <<tmp_list, completions_to_process, result, cur>> /\ call[x] = "checked"
    BY <1>3 DEF MakeCall
  <2>2. CASE MayQueue
    <3>1. sent_requests' = Append(sent_requests, x) /\ call' = [call EXCEPT ![x] = "queued"]
      BY <1>3, <2>2 DEF MakeCall
    <3>2. /\ \A c : InList(sent_requests', c) <=> InList(sent_requests, c) \/ c = x
          /\ \A c : /\ AtMostOnce(sent_requests, c) /\ (c = x => ~InList(sent_requests, c))
                    => AtMostOnce(sent_requests', c)
      BY <1>0, <3>1, AppendFacts
    <3>3. \A r \in PlaceNames : ~In(r, x)
      BY <1>a, <2>1 DEF OneAt
    <3>4. \A r \in PlaceNames : In(r, x)' <=> r = "sent"
      BY <1>1, <2>1, <3>2, <3>3 DEF In
    <3>5. OneAt(x)'
      BY <1>0, <1>1, <1>a, <3>1, <3>4, Moves
    <3>6. ASSUME NEW c \in Calls, c # x PROVE OneAt(c)'
      <4>1. \A r \in PlaceNames : In(r, c)' <=> In(r, c)
        BY <1>1, <2>1, <3>2, <3>6 DEF In
      <4>2. call'[c] = call[c]
        BY <1>0, <3>1, <3>6
      <4> QED
        BY <1>a, <4>1, <4>2, Moves
    <3>7. \A c \in Calls : Once(c)'
      <4>1. ~InList(sent_requests, x)
        BY <1>1, <3>3 DEF In
      <4> QED
        BY <1>a, <2>1, <3>2, <4>1 DEF Once
    <3> QED
      BY <1>0, <2>1, <3>5, <3>6, <3>7 DEF OnePlaceInv, NoSyncQueued
  <2>3. CASE ~MayQueue
    <3>1. UNCHANGED sent_requests /\ \A c \in Calls : call'[c] = "queued" <=> call[c] = "queued"
      BY <1>0, <1>3, <2>1, <2>3 DEF MakeCall
    <3> QED
      BY <1>0, <2>1, <3>1, Unmoved
  <2> QED
    BY <2>2, <2>3
<1>4. CASE IoDequeue
  <2>1. UNCHANGED <<tmp_list, completions_to_process, result, call>> /\ cur = EVENT
    BY <1>0, <1>4 DEF IoDequeue, IoStep, At, LockInv
  <2>2. CASE sent_requests = <<>>
    <3>1. UNCHANGED <<sent_requests, cur>>
      BY <1>4, <2>2 DEF IoDequeue
    <3> QED
      BY <1>0, <2>1, <3>1, Unmoved
  <2>3. CASE sent_requests # <<>>
    <3>0. PICK x : x = Head(sent_requests)
      OBVIOUS
    <3>1. cur' = x /\ sent_requests' = Tail(sent_requests)
      BY <1>4, <2>3, <3>0 DEF IoDequeue
    <3>2. /\ x \in Calls
          /\ \A c : InList(sent_requests, c) <=> InList(Tail(sent_requests), c) \/ c = x
          /\ \A c : AtMostOnce(sent_requests, c) => /\ AtMostOnce(Tail(sent_requests), c)
                                                    /\ c = x => ~InList(Tail(sent_requests), c)
      BY <1>0, <2>3, <3>0, TailFacts
    <3>3. In("sent", x) /\ \A r \in PlaceNames : In(r, x) => r = "sent"
      <4>1. In("sent", x)
        BY <3>2 DEF In
      <4> QED
        BY <1>1, <1>a, <3>2, <4>1 DEF OneAt
    <3>4. ~InList(Tail(sent_requests), x)
      BY <1>a, <3>2 DEF Once
    <3>5. \A r \in PlaceNames : In(r, x)' <=> r = "cur"
      BY <1>1, <2>1, <3>1, <3>3, <3>4 DEF In
    <3>6. \A c \in Calls \ {x} : \A r \in PlaceNames : In(r, c)' <=> In(r, c)
      BY <1>0, <1>1, <2>1, <3>1, <3>2 DEF In
    <3>7. \A c \in Calls : Once(c)'
      BY <1>a, <2>1, <3>1, <3>2 DEF Once
    <3>8. OnePlaceInv'
      BY <1>0, <1>1, <2>1, <3>2, <3>3, <3>5, <3>6, <3>7, OneMoves
    <3> QED
      BY <1>0, <2>1, <3>8 DEF NoSyncQueued
  <2> QED
    BY <2>2, <2>3
<1>5. CASE IoDispatch
  <2>1. /\ cur \in Calls /\ cur' = EVENT /\ UNCHANGED <<sent_requests, tmp_list, call>>
    BY <1>0, <1>5 DEF IoDispatch, At, LockInv
  <2>2. IF cur \in SyncCalls
          THEN result' = Notify(cur, "ZOK") /\ UNCHANGED completions_to_process
          ELSE QueueToProcess(cur, "ZOK", [pc EXCEPT !["io"] = "top"]) /\ UNCHANGED result
    BY <1>5 DEF IoDispatch
  <2> DEFINE x == cur
             pcs == [pc EXCEPT !["io"] = "top"]
  <2>3. In("cur", x) /\ x \in Calls
    BY <2>1 DEF In
  <2>4. /\ \A c \in Calls : (cur = c)' <=> cur = c /\ ("cur" = "cur" => c # x)
        /\ \A t \in Threads, c \in Calls :
              InList(tmp_list'[t], c) <=> InList(tmp_list[t], c) /\ ("cur" = t => c # x)
        /\ \A t \in Threads, c \in Calls : AtMostOnce(tmp_list'[t], c)
    BY <1>0, <1>1, <1>a, <2>1 DEF Once
  <2>5. IF x \in SyncCalls
          THEN result' = Notify(x, "ZOK") /\ UNCHANGED completions_to_process
          ELSE QueueToProcess(x, "ZOK", pcs) /\ UNCHANGED result
    BY <2>2
  <2> HIDE DEF x, pcs
  <2> QED
    BY <1>0, <2>1, <2>3, <2>4, <2>5, HandedOut
<1>6. CASE IoMisorder \/ IoError
  <2>1. QueueToProcess(EVENT, "ZOK", [pc EXCEPT !["io"] = "error"])
    BY <1>6 DEF IoMisorder, IoError
  <2>2. \A c \in Calls :
          /\ InList(XidList(completions_to_process'), c) <=> InList(XidList(completions_to_process), c)
          /\ AtMostOnce(XidList(completions_to_process), c) => AtMostOnce(XidList(completions_to_process'), c)
    BY <1>0, <2>1, Queued
  <2>3. UNCHANGED <<tmp_list, result, call>>
    BY <1>6 DEF IoMisorder, IoError
  <2>4. NoSyncQueued'
    BY <1>0, <2>2, CloseAssumption DEF NoSyncQueued
  <2>5. CASE IoError
    <3>1. UNCHANGED <<sent_requests, cur>>
      BY <2>5 DEF IoError
    <3>2. \A c \in Calls : \A r \in PlaceNames : In(r, c)' <=> In(r, c)
      BY <1>1, <2>2, <2>3, <3>1 DEF In
    <3>3. \A c \in Calls : Once(c)'
      BY <1>a, <2>2, <2>3, <3>1 DEF Once
    <3>4. \A c \in Calls : OneAt(c)'
      BY <1>a, <2>3, <3>2, Moves
    <3> QED
      BY <2>4, <3>3, <3>4 DEF OnePlaceInv
  <2>6. CASE IoMisorder
    <3>x. PICK x : x = cur
      OBVIOUS
    <3>1. x \in Calls /\ cur' = EVENT /\ sent_requests' = <<x>> \o sent_requests
      BY <1>0, <2>6, <3>x DEF IoMisorder, At, LockInv
    <3>2. /\ \A c : InList(sent_requests', c) <=> InList(sent_requests, c) \/ c = x
          /\ \A c : /\ AtMostOnce(sent_requests, c) /\ (c = x => ~InList(sent_requests, c))
                    => AtMostOnce(sent_requests', c)
      BY <1>0, <3>1, FrontFacts
    <3>3. In("cur", x) /\ \A r \in PlaceNames : In(r, x) => r = "cur"
      <4>1. In("cur", x)
        BY <3>x DEF In
      <4> QED
        BY <1>1, <1>a, <3>1, <4>1 DEF OneAt
    <3>4. \A r \in PlaceNames : In(r, x)' <=> r = "sent"
      BY <1>0, <1>1, <2>2, <2>3, <3>1, <3>2, <3>3 DEF In
    <3>5. \A c \in Calls \ {x} : \A r \in PlaceNames : In(r, c)' <=> In(r, c)
      BY <1>0, <1>1, <2>2, <2>3, <3>1, <3>2, <3>x DEF In
    <3>6. \A c \in Calls : Once(c)'
      <4>1. ~InList(sent_requests, x)
        BY <1>1, <3>3 DEF In
      <4> QED
        BY <1>a, <2>2, <2>3, <3>2, <4>1 DEF Once
    <3> QED
      BY <1>0, <1>1, <2>3, <2>4, <3>1, <3>3, <3>4, <3>5, <3>6, OneMoves
  <2> QED
    BY <1>6, <2>5, <2>6
<1>7. CASE IoEnterCritical
  BY <1>1, <1>7, AllDetached DEF IoEnterCritical
<1>8. ASSUME NEW t \in Threads, FreeCompletion(t) PROVE OnePlaceInv' /\ NoSyncQueued'
  <2> DEFINE x == Head(tmp_list[t])
  <2>1. /\ tmp_list[t] \in Seq(Calls) /\ tmp_list[t] # <<>> /\ reason[t] \in RetCodes
        /\ tmp_list' = [tmp_list EXCEPT ![t] = Tail(tmp_list[t])]
        /\ UNCHANGED <<sent_requests, call, cur>>
    BY <1>0, <1>8 DEF FreeCompletion
  <2>2. /\ x \in Calls
        /\ \A c : InList(tmp_list[t], c) <=> InList(Tail(tmp_list[t]), c) \/ c = x
        /\ \A c : AtMostOnce(tmp_list[t], c) => /\ AtMostOnce(Tail(tmp_list[t]), c)
                                                /\ c = x => ~InList(Tail(tmp_list[t]), c)
    BY <2>1, TailFacts
  <2>3. IF x \in SyncCalls
          THEN result' = Notify(x, reason[t]) /\ UNCHANGED completions_to_process
          ELSE QueueToProcess(x, reason[t], pc) /\ UNCHANGED result
    BY <1>8 DEF FreeCompletion
  <2> HIDE DEF x
  <2>4. In(t, x)
    BY <2>2 DEF In
  <2>5. /\ tmp_list'[t] = Tail(tmp_list[t])
        /\ \A u \in Threads \ {t} : tmp_list'[u] = tmp_list[u]
    BY <1>0, <2>1
  <2>6. \A u \in Threads, c \in Calls : AtMostOnce(tmp_list'[u], c)
    BY <1>a, <2>2, <2>5 DEF Once
  <2>7. ASSUME NEW u \in Threads, NEW c \in Calls
        PROVE  InList(tmp_list'[u], c) <=> InList(tmp_list[u], c) /\ (t = u => c # x)
    <3>1. AtMostOnce(tmp_list[t], c)
      BY <1>a DEF Once
    <3> QED
      BY <2>2, <2>5, <3>1
  <2>8. \A c \in Calls : (cur = c)' <=> cur = c /\ (t = "cur" => c # x)
    BY <1>1, <2>1
  <2> QED
    BY <2>1, <2>2, <2>3, <2>4, <2>6, <2>7, <2>8, HandedOut
<1>9. CASE CompCallback
  <2> DEFINE e == Head(completions_to_process)
  <2>0. PICK x : x = e.xid
    OBVIOUS
  <2>1. /\ completions_to_process # <<>> /\ completions_to_process' = Tail(completions_to_process)
        /\ result' = IF x = EVENT THEN result ELSE Notify(x, e.rc)
        /\ UNCHANGED <<sent_requests, tmp_list, cur, call>>
    BY <1>9, <2>0 DEF CompCallback, CompUnchanged
  <2>2. e \in Code
    BY <1>0, <2>1, TailFacts
  <2>3. x \in Calls \union {EVENT} /\ e.rc \in RetCodes
    BY <2>0, <2>2 DEF Code
  <2>4. /\ XidList(completions_to_process) \in Seq(Calls \union {EVENT})
        /\ XidList(completions_to_process) # <<>>
        /\ XidList(completions_to_process') = Tail(XidList(completions_to_process))
        /\ Head(XidList(completions_to_process)) = x
    BY <1>0, <2>0, <2>1, XidListFacts
  <2> HIDE DEF e
  <2>5. /\ \A c : InList(XidList(completions_to_process), c)
                    <=> InList(XidList(completions_to_process'), c) \/ c = x
        /\ \A c : AtMostOnce(XidList(completions_to_process), c)
                    => /\ AtMostOnce(XidList(completions_to_process'), c)
                       /\ c = x => ~InList(XidList(completions_to_process'), c)
    BY <2>4, TailFacts
  <2>6. NoSyncQueued'
    BY <1>0, <2>5 DEF NoSyncQueued
  <2>7. CASE x = EVENT
    <3>1. result' = result /\ x \notin Calls
      BY <1>0, <2>1, <2>7
    <3>2. \A c \in Calls : \A r \in PlaceNames : In(r, c)' <=> In(r, c)
      BY <1>1, <2>1, <2>5, <3>1 DEF In
    <3>3. \A c \in Calls : Once(c)'
      BY <1>a, <2>1, <2>5, <3>1 DEF Once
    <3>4. \A c \in Calls : OneAt(c)'
      BY <1>a, <2>1, <3>2, Moves
    <3> QED
      BY <2>6, <3>3, <3>4 DEF OnePlaceInv
  <2>8. CASE x # EVENT
    <3>1. x \in Calls /\ result' = Notify(x, e.rc)
      BY <2>1, <2>3, <2>8
    <3>2. In("queue", x) /\ \A r \in PlaceNames : In(r, x) => r = "queue"
      <4>1. In("queue", x)
        BY <2>5 DEF In
      <4> QED
        BY <1>1, <1>a, <3>1, <4>1 DEF OneAt
    <3>3. result[x] = <<>> /\ ~InList(XidList(completions_to_process'), x)
      BY <1>1, <1>a, <2>5, <3>1, <3>2 DEF In, Once
    <3>4. result'[x] # <<>> /\ Len(result'[x]) = 1 /\ \A c \in Calls : c # x => result'[c] = result[c]
      BY <1>0, <2>3, <3>1, <3>3, Answered
    <3>5. \A r \in PlaceNames : In(r, x)' <=> r = "done"
      BY <1>1, <2>1, <3>2, <3>3, <3>4 DEF In
    <3>6. \A c \in Calls \ {x} : \A r \in PlaceNames : In(r, c)' <=> In(r, c)
      BY <1>1, <2>1, <2>5, <3>4 DEF In
    <3>7. ASSUME NEW c \in Calls PROVE Once(c)'
      <4>1. CASE c = x
        BY <1>a, <2>1, <2>5, <3>4, <4>1 DEF Once
      <4>2. CASE c # x
        BY <1>a, <2>1, <2>5, <3>4, <4>2 DEF Once
      <4> QED
        BY <4>1, <4>2
    <3> QED
      BY <1>0, <1>1, <2>1, <2>6, <3>1, <3>2, <3>5, <3>6, <3>7, OneMoves
  <2> QED
    BY <2>7, <2>8
<1>10. CASE IoTop \/ IoIdle \/ IoLeaveCritical
  BY <1>0, <1>10, Unmoved DEF IoTop, IoIdle, IoLeaveCritical
<1>11. CASE CompTop \/ CompTest \/ CompSpuriousWakeup \/ CallbackWakes \/ CallbackReturns \/ CompDrained
  BY <1>0, <1>11, Unmoved DEF CompTop, CompTest, CompSpuriousWakeup, CallbackWakes,
     CallbackReturns, CompDrained, CompUnchanged
<1>12. ASSUME NEW t \in Threads,
              \/ CloseRequest(t) \/ CloseIncRef(t) \/ CloseLeaveCritical(t) \/ CloseJoinIo(t)
              \/ CloseJoinCompletion(t) \/ DestroyHandle(t)
       PROVE  OnePlaceInv' /\ NoSyncQueued'
  BY <1>0, <1>12, Unmoved DEF CloseRequest, CloseIncRef, CloseLeaveCritical, CloseJoinIo,
     CloseJoinCompletion, DestroyHandle, CloseUnchanged
<1>13. ASSUME NEW t \in Threads, CloseEnterCritical(t) \/ DestroyEnterCritical(t)
       PROVE  OnePlaceInv' /\ NoSyncQueued'
  BY <1>13, AllDetached DEF CloseEnterCritical, DestroyEnterCritical, CloseUnchanged,
     Detached, LeftAtDestroy
<1>14. ASSUME NEW t \in Threads, ThreadEpilog(t) \/ CloseEpilog(t) PROVE OnePlaceInv' /\ NoSyncQueued'
  BY <1>0, <1>14, Unmoved DEF ThreadEpilog, CloseEpilog, ReleaseReference, CloseUnchanged
<1>15. CASE UNCHANGED vars
  BY <1>0, <1>15, Unmoved DEF vars
<1>16. ASSUME NEW c \in Calls, AppCall(c) \/ CallbackCheck(c) \/ CallbackCall(c)
       PROVE  CheckState(c) \/ MakeCall(c)
  BY <1>16 DEF AppCall, CallbackCheck, CallbackCall
<1> QED
  BY <1>2, <1>3, <1>4, <1>5, <1>6, <1>7, <1>8, <1>9, <1>10, <1>11, <1>12, <1>13, <1>14, <1>15, <1>16
  DEF Next, do_io, do_completion, ThreadStep, zookeeper_close

LEMMA RequestInit ==
  ASSUME Init
  PROVE  RequestInv
<1>1. DataType
  BY DEF Init, DataType, RetCodes
<1>2. LockInv
  BY CloseAssumption DEF Init, LockInv, Threads
<1>3. XidList(<<>>) = <<>>
  BY DEF XidList
<1>4. \A c \in Calls : \A p \in PlaceNames : ~In(p, c)
  BY <1>3, EmptyFacts, CloseAssumption DEF Init, In, PlaceNames, Threads
<1>5. \A c \in Calls : OneAt(c)
  BY <1>4 DEF Init, OneAt
<1>6. \A c \in Calls : Once(c)
  BY <1>3, EmptyFacts DEF Init, Once, Threads
<1>7. NoSyncQueued
  BY <1>3, EmptyFacts DEF Init, NoSyncQueued
<1> QED
  BY <1>1, <1>2, <1>5, <1>6, <1>7 DEF RequestInv, OnePlaceInv

LEMMA RequestInvariant == Spec => [](RefInv /\ FreeInv /\ RequestInv)
<1>1. Init => RequestInv
  BY RequestInit
<1>2. RefInv /\ RequestInv /\ [Next]_vars => RequestInv'
  BY DataStep, LockStep, PlaceStep DEF RequestInv
<1> QED
  BY <1>1, <1>2, CloseInvariant, PTL DEF Spec

\* Counting the entries of a list that holds x at most once.
LEMMA CountOnce ==
  ASSUME NEW list, NEW x, AtMostOnce(list, x)
  PROVE  Cardinality({i \in DOMAIN list : list[i] = x}) = IF InList(list, x) THEN 1 ELSE 0
<1>1. CASE InList(list, x)
  <2>1. PICK i \in DOMAIN list : list[i] = x
    BY <1>1 DEF InList
  <2>2. {j \in DOMAIN list : list[j] = x} = {i}
    BY <2>1 DEF AtMostOnce
  <2> QED
    BY <1>1, <2>2, FS_Singleton
<1>2. CASE ~InList(list, x)
  <2>1. {j \in DOMAIN list : list[j] = x} = {}
    BY <1>2 DEF InList
  <2> QED
    BY <1>2, <2>1, FS_EmptySet
<1> QED
  BY <1>1, <1>2

\* Whoever gets to a request first, the IO thread with a reply or an error, the closing
\* thread or destroy: an accepted request is in one place at a time and is answered at
\* most once.
THEOREM AnsweredOnce == Spec => []AnsweredAtMostOnce
<1>1. RequestInv => AnsweredAtMostOnce
  <2> SUFFICES ASSUME RequestInv, NEW c \in Calls
               PROVE  Places(c) = IF call[c] = "queued" THEN 1 ELSE 0
    BY DEF AnsweredAtMostOnce
  <2>1. OneAt(c) /\ Once(c) /\ result[c] \in Seq(RetCodes)
    BY DEF RequestInv, OnePlaceInv, DataType
  <2>2. PlaceNames = {"sent", "cur", "queue", "done", "io", "comp", "app"} /\ Threads = {"io", "comp", "app"}
    BY DEF PlaceNames, Threads
  <2> DEFINE n(p) == IF In(p, c) THEN 1 ELSE 0
  <2>3. /\ Cardinality({i \in DOMAIN sent_requests : sent_requests[i] = c}) = n("sent")
        /\ Cardinality({i \in DOMAIN tmp_list["io"] : tmp_list["io"][i] = c}) = n("io")
        /\ Cardinality({i \in DOMAIN tmp_list["comp"] : tmp_list["comp"][i] = c}) = n("comp")
        /\ Cardinality({i \in DOMAIN tmp_list["app"] : tmp_list["app"][i] = c}) = n("app")
    BY <2>1, <2>2, CountOnce DEF Once, In
  <2>4. Cardinality({i \in DOMAIN completions_to_process : completions_to_process[i].xid = c}) = n("queue")
    <3>1. {i \in DOMAIN completions_to_process : completions_to_process[i].xid = c}
            = {i \in DOMAIN XidList(completions_to_process) : XidList(completions_to_process)[i] = c}
      BY DEF XidList
    <3>2. AtMostOnce(XidList(completions_to_process), c)
      BY <2>1 DEF Once
    <3>3. n("queue") = IF InList(XidList(completions_to_process), c) THEN 1 ELSE 0
      BY <2>2 DEF In
    <3> QED
      BY <3>1, <3>2, <3>3, CountOnce
  <2>5. Len(result[c]) = n("done")
    <3>1. In("done", c) <=> result[c] # <<>>
      BY <2>2 DEF In
    <3>2. Len(result[c]) = 0 <=> result[c] = <<>>
      BY <2>1
    <3> QED
      BY <2>1, <3>1, <3>2 DEF Once
  <2>6. (IF cur = c THEN 1 ELSE 0) = n("cur")
    BY <2>2 DEF In
  <2>7. Places(c) = n("sent") + n("io") + n("comp") + n("app") + n("queue") + n("done") + n("cur")
    BY <2>3, <2>4, <2>5, <2>6 DEF Places
  <2>8. CASE call[c] = "queued"
    <3>1. PICK p \in PlaceNames : In(p, c) /\ \A q \in PlaceNames : In(q, c) => q = p
      BY <2>1, <2>8 DEF OneAt
    <3> QED
      BY <2>2, <2>7, <2>8, <3>1
  <2>9. CASE call[c] # "queued"
    <3>1. \A q \in PlaceNames : ~In(q, c)
      BY <2>1, <2>9 DEF OneAt
    <3> QED
      BY <2>2, <2>7, <2>9, <3>1
  <2> QED
    BY <2>8, <2>9
<1> QED
  BY <1>1, RequestInvariant, PTL

\* A reply that finds no request means that the handle is being closed, never that
\* zookeeper_process runs into assert(cptr).
THEOREM AssertionHolds == Spec => []NoAssertionFailure
<1>1. RequestInv => NoAssertionFailure
  BY DEF RequestInv, LockInv, NoAssertionFailure
<1> QED
  BY <1>1, RequestInvariant, PTL

\* Nothing is queued any more once destroy has emptied sent_requests.
Emptied == \A t \in Threads : cl[t] = "emptying" => sent_requests = <<>>

\* A handle that is gone has released every synchronous caller.
ReleaseInv == Emptied /\ SyncCallersReleased

\* A step that uses the handle needs the handle.
LEMMA NothingAfterFree ==
  ASSUME freed, [Next]_vars
  PROVE  UNCHANGED vars
  BY DEF Next, vars, AppCall, CallbackCheck, CallbackCall, do_io, do_completion, IoTop, IoIdle,
     IoDequeue, IoDispatch, IoMisorder, IoError, IoEnterCritical, IoLeaveCritical, IoStep, At,
     CompTop, CompTest, CompSpuriousWakeup, CompCallback, CallbackWakes, CallbackReturns,
     CompDrained, CloseRequest, ThreadStep, zookeeper_close, FreeCompletion, ThreadEpilog,
     CloseIncRef, CloseEnterCritical, CloseLeaveCritical, CloseJoinIo, CloseJoinCompletion,
     CloseEpilog, DestroyEnterCritical, DestroyHandle, InClose

LEMMA ReleaseStep ==
  ASSUME RefInv, FreeInv, RequestInv, ReleaseInv, [Next]_vars
  PROVE  ReleaseInv'
<1>0. /\ cl \in [Threads -> Cls] /\ CloserInv /\ LockInv /\ Emptied /\ SyncCallersReleased
      /\ Threads = {"io", "comp", "app"} /\ ZeroIsSeen /\ OnePlaceInv /\ NoSyncQueued
  BY DEF RefInv, ControlType, RequestInv, ReleaseInv, Threads, FreeInv
<1>a. \A t \in Threads : cl[t] = "emptying" =>
        /\ close_requested /\ zh_lock = t /\ pc["io"] \in {"gone", "closing"}
  BY <1>0 DEF CloserInv, LockInv, ZeroIsSeen, Destroying
<1>1. ASSUME freed PROVE ReleaseInv'
  <2>1. UNCHANGED vars
    BY <1>1, NothingAfterFree
  <2> QED
    BY <1>0, <2>1 DEF vars, ReleaseInv, Emptied, SyncCallersReleased
<1>2. ASSUME ~freed, ~freed', sent_requests = <<>> => sent_requests' = <<>>,
             \A t \in Threads : cl'[t] = "emptying" => cl[t] = "emptying"
      PROVE  ReleaseInv'
  BY <1>0, <1>2 DEF ReleaseInv, Emptied, SyncCallersReleased
<1>3. ASSUME ~freed, NEW c \in Calls, AppCall(c) \/ CallbackCheck(c) \/ CallbackCall(c)
      PROVE  ReleaseInv'
  <2>1. UNCHANGED <<freed, cl>> /\ (zh_lock = "free" \/ sent_requests' = sent_requests)
    BY <1>3 DEF AppCall, CallbackCheck, CallbackCall, CheckState, MakeCall
  <2>2. Emptied'
    BY <1>0, <1>a, <2>1 DEF Emptied
  <2> QED
    BY <1>3, <2>1, <2>2 DEF ReleaseInv, SyncCallersReleased
<1>4. CASE ~freed /\ do_io
  <2>1. UNCHANGED <<freed, cl>> /\ (sent_requests = <<>> => sent_requests' = <<>> \/ pc["io"] = "dispatch")
    BY <1>4 DEF do_io, IoTop, IoIdle, IoDequeue, IoDispatch, IoMisorder, IoError,
       IoEnterCritical, IoLeaveCritical, At
  <2>2. Emptied'
    BY <1>0, <1>a, <2>1 DEF Emptied
  <2> QED
    BY <1>4, <2>1, <2>2 DEF ReleaseInv, SyncCallersReleased
<1>5. CASE ~freed /\ (do_completion \/ CompSpuriousWakeup)
  <2>1. UNCHANGED <<freed, cl, sent_requests>>
    BY <1>5 DEF do_completion, CompTop, CompTest, CompSpuriousWakeup, CompCallback,
       CallbackWakes, CallbackReturns, CompDrained, CompUnchanged
  <2> QED
    BY <1>2, <1>5, <2>1
<1>6. ASSUME ~freed, NEW t \in Threads,
             \/ CloseRequest(t) \/ FreeCompletion(t) \/ CloseIncRef(t) \/ CloseEnterCritical(t)
             \/ CloseLeaveCritical(t) \/ CloseJoinIo(t) \/ CloseJoinCompletion(t)
             \/ ThreadEpilog(t) \/ CloseEpilog(t)
      PROVE  ReleaseInv'
  <2>1. /\ freed' = freed /\ (sent_requests = <<>> => sent_requests' = <<>>)
        /\ \/ cl' = cl
           \/ \E x \in {"none", "flagged", "signal", "destroy", "freeing", "join_io",
                        "join_completion", "epilog"} : cl' = [cl EXCEPT ![t] = x]
    BY <1>6 DEF CloseRequest, FreeCompletion, CloseIncRef, CloseEnterCritical, CloseLeaveCritical,
       CloseJoinIo, CloseJoinCompletion, ThreadEpilog, CloseEpilog, ReleaseReference, Detached
  <2>2. \A u \in Threads : cl'[u] = "emptying" => cl[u] = "emptying"
    BY <1>0, <2>1
  <2> QED
    BY <1>2, <1>6, <2>1, <2>2
<1>7. ASSUME ~freed, NEW t \in Threads, DestroyEnterCritical(t) PROVE ReleaseInv'
  BY <1>7 DEF DestroyEnterCritical, ReleaseInv, Emptied, SyncCallersReleased
<1>8. ASSUME ~freed, NEW t \in Threads, DestroyHandle(t) PROVE ReleaseInv'
  <2>1. /\ cl[t] = "emptying" /\ tmp_list[t] = <<>> /\ cl' = [cl EXCEPT ![t] = "none"]
        /\ UNCHANGED <<result, call, sent_requests>>
    BY <1>8 DEF DestroyHandle, InClose, CloseUnchanged
  <2>2. sent_requests = <<>> /\ zh_lock = t /\ cur = EVENT
    BY <1>0, <1>a, <2>1 DEF Emptied, LockInv
  <2>3. \A u \in Threads : tmp_list[u] = <<>>
    BY <1>0, <2>1, <2>2 DEF LockInv
  <2>4. ASSUME NEW c \in SyncCalls, call[c] = "queued" PROVE result[c] # <<>>
    <3>1. c \in Calls /\ c # EVENT
      BY CloseAssumption
    <3>2. PICK p \in PlaceNames : In(p, c)
      BY <1>0, <2>4, <3>1 DEF OnePlaceInv, OneAt
    <3>3. ~InList(<<>>, c)
      BY EmptyFacts
    <3> QED
      BY <1>0, <2>2, <2>3, <3>1, <3>2, <3>3 DEF In, NoSyncQueued
  <2>5. Emptied'
    BY <1>0, <2>1 DEF Emptied
  <2> QED
    BY <2>1, <2>4, <2>5 DEF ReleaseInv, SyncCallersReleased
<1>9. CASE UNCHANGED vars
  BY <1>0, <1>9 DEF vars, ReleaseInv, Emptied, SyncCallersReleased
<1> QED
  BY <1>1, <1>3, <1>4, <1>5, <1>6, <1>7, <1>8, <1>9 DEF Next, ThreadStep, zookeeper_close

\* Destroying the handle leaves no synchronous caller asleep, even when the closer was
\* overtaken and when replies and errors compete with the close.
THEOREM SyncReleased == Spec => []SyncCallersReleased
<1>1. Init => ReleaseInv
  BY DEF Init, ReleaseInv, Emptied, SyncCallersReleased
<1>2. RefInv /\ FreeInv /\ RequestInv /\ ReleaseInv /\ [Next]_vars => ReleaseInv'
  BY ReleaseStep
<1>3. ReleaseInv => SyncCallersReleased
  BY DEF ReleaseInv
<1> QED
  BY <1>1, <1>2, <1>3, RequestInvariant, PTL DEF Spec
=============================================================================
