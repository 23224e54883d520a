------------------------------ MODULE ZkClose ------------------------------
(***************************************************************************)
(* Closing a handle of the multi-threaded ZooKeeper client: the reference  *)
(* counter, the end of the IO and the completion thread, the requests that *)
(* are outstanding, and who frees the handle in the end.                   *)
(*                                                                         *)
(* zookeeper_close may be called by an application thread or inside a      *)
(* callback of the completion thread, and is called again by the thread    *)
(* whose api_epilog brings the counter to zero.  The network is reduced to *)
(* the number of replies that are still to come: ZkSession models it.      *)
(*                                                                         *)
(* ref_counter counts the references held across the loop of a thread and  *)
(* by zookeeper_close.  The pairs api_prolog/api_epilog inside the loop of *)
(* do_io come on top of the reference the IO thread holds anyway, so they  *)
(* can neither bring the counter to zero nor decide a test against one;    *)
(* only the prolog that is left without its epilog is counted.             *)
(***************************************************************************)
EXTENDS Integers, Sequences, FiniteSets

CONSTANTS
  Calls,         \* API calls, each made at most once
  SyncCalls,     \* those made through the synchronous API
  WatcherCalls,  \* synchronous calls made inside a callback
  Closers,       \* the threads that may call zookeeper_close: "app", "comp"
  MaxFaults,     \* bound: connection failures
  MaxMisorders,  \* bound: replies that are out of order
  EVENT          \* a session event in completions_to_process

ASSUME CloseAssumption ==
  /\ WatcherCalls \subseteq SyncCalls
  /\ SyncCalls \subseteq Calls
  /\ EVENT \notin Calls
  /\ Closers \subseteq {"app", "comp"}
  /\ MaxFaults \in Nat
  /\ MaxMisorders \in Nat

VARIABLES
  \* fields of zhandle_t
  close_requested,
  ref_counter,
  zh_lock,                 \* the holder of adaptor_threads->zh_lock, or "free"
  expired,                 \* is_unrecoverable(zh)
  sent_requests,
  completions_to_process,
  freed,                   \* destroy and free(zh) are done
  \* the threads
  pc,                      \* where each thread is
  cl,                      \* where it is inside zookeeper_close, or "none"
  tmp_list,                \* tmp_list of its free_completions
  reason,                  \* the code its free_completions hands out
  cur,                     \* the completion the IO thread took for a reply
  \* the application
  closer,                  \* the thread the application closes the handle from
  call,                    \* what became of each call
  result,                  \* the results each call was given
  \* the environment, history and bounds
  wire,                    \* replies still to come on the connection
  leaked,                  \* references that were taken and never given back
  overtaken,               \* the counter reached 0 while a closer was about to add to it
  faults

vars == <<close_requested, ref_counter, zh_lock, expired, sent_requests,
          completions_to_process, freed, pc, cl, tmp_list, reason, cur, closer,
          call, result, wire, leaked, overtaken, faults>>

Threads == {"io", "comp", "app"}
RetCodes == {"ZOK", "ZCONNECTIONLOSS", "ZRUNTIMEINCONSISTENCY", "ZCLOSING"}

InList(list, x) == \E i \in DOMAIN list : list[i] = x

\* After adaptor_init: both threads run and hold their references.
Init ==
  /\ close_requested = FALSE
  /\ ref_counter = 2
  /\ zh_lock = "free"
  /\ expired = FALSE
  /\ sent_requests = <<>>
  /\ completions_to_process = <<>>
  /\ freed = FALSE
  /\ pc = [t \in Threads |-> IF t = "app" THEN "idle" ELSE "top"]
  /\ cl = [t \in Threads |-> "none"]
  /\ tmp_list = [t \in Threads |-> <<>>]
  /\ reason = [t \in Threads |-> "ZOK"]
  /\ cur = EVENT
  /\ closer = "none"
  /\ call = [c \in Calls |-> "idle"]
  /\ result = [c \in Calls |-> <<>>]
  /\ wire = 0
  /\ leaked = 0
  /\ overtaken = FALSE
  /\ faults = 0

\* Where a thread is.  A step that uses the handle after it was freed is
\* undefined: the behaviour of the model ends there.
At(t, p) == ~freed /\ pc[t] = p
InClose(t, p) == ~freed /\ cl[t] = p

-----------------------------------------------------------------------------
(* The completion thread sleeps until completions_to_process is broadcast  *)
(* by unlock_completion_list or by adaptor_finish.                         *)

Broadcast(pcs) == [pcs EXCEPT !["comp"] = IF @ = "sleep" THEN "test" ELSE @]

\* queue_completion(&zh->completions_to_process, ...) for a reply or an event.
QueueToProcess(x, code, pcs) ==
  /\ completions_to_process' = Append(completions_to_process, [xid |-> x, rc |-> code])
  /\ pc' = Broadcast(pcs)

\* What free_completions does with one entry.
Notify(c, rc) == [result EXCEPT ![c] = Append(@, rc)]

-----------------------------------------------------------------------------
(* API calls.  The session is tested first, and what was read may be stale *)
(* when add_completion tests, under the lock of sent_requests, whether the *)
(* handle is being closed.                                                 *)

CheckState(c) ==
  /\ call[c] = "idle"
  /\ call' = [call EXCEPT ![c] = IF expired THEN "refused" ELSE "checked"]
  /\ UNCHANGED <<close_requested, ref_counter, zh_lock, expired, sent_requests,
                 completions_to_process, freed, cl, tmp_list, reason, cur,
                 closer, result, wire, leaked, overtaken, faults>>

MayQueue_NoCloseTest == TRUE
MayQueue == ~close_requested

MakeCall(c) ==
  /\ call[c] = "checked"
  /\ zh_lock = "free"
  /\ IF MayQueue
       THEN /\ call' = [call EXCEPT ![c] = "queued"]
            /\ sent_requests' = Append(sent_requests, c)
            /\ wire' = wire + 1
       ELSE /\ call' = [call EXCEPT ![c] = "refused"]
            /\ UNCHANGED <<sent_requests, wire>>
  /\ UNCHANGED <<close_requested, ref_counter, zh_lock, expired,
                 completions_to_process, freed, cl, tmp_list, reason, cur,
                 closer, result, leaked, overtaken, faults>>

AppCall(c) ==
  /\ ~freed
  /\ c \notin WatcherCalls
  /\ CheckState(c) \/ MakeCall(c)
  /\ UNCHANGED pc

-----------------------------------------------------------------------------
(* The IO thread: do_io, zookeeper_process and handle_error.               *)

IoStep(from, to) == At("io", from) /\ pc' = [pc EXCEPT !["io"] = to]

IoTop ==
  /\ IoStep("top", IF close_requested THEN "epilog" ELSE "process")
  /\ UNCHANGED <<close_requested, ref_counter, zh_lock, expired, sent_requests,
                 completions_to_process, freed, cl, tmp_list, reason, cur,
                 closer, call, result, wire, leaked, overtaken, faults>>

\* Nothing arrived before the timeout of poll, or somebody wrote to the pipe.
IoIdle ==
  /\ IoStep("process", "top")
  /\ UNCHANGED <<close_requested, ref_counter, zh_lock, expired, sent_requests,
                 completions_to_process, freed, cl, tmp_list, reason, cur,
                 closer, call, result, wire, leaked, overtaken, faults>>

\* A reply arrives and zookeeper_process takes the oldest request from
\* sent_requests.  If there is none the handle is being closed, or the assertion
\* fails.
ClosedMeanwhile_NotTested == FALSE
ClosedMeanwhile == close_requested

IoDequeue ==
  /\ wire > 0
  /\ wire' = wire - 1
  /\ IF sent_requests = <<>>
       THEN /\ IoStep("process", IF ClosedMeanwhile THEN "top" ELSE "aborted")
            /\ UNCHANGED <<sent_requests, cur>>
       ELSE /\ IoStep("process", "dispatch")
            /\ cur' = Head(sent_requests)
            /\ sent_requests' = Tail(sent_requests)
  /\ UNCHANGED <<close_requested, ref_counter, zh_lock, expired,
                 completions_to_process, freed, cl, tmp_list, reason, closer,
                 call, result, leaked, overtaken, faults>>

\* The reply is for that request: notify the synchronous caller, or leave the
\* completion to the completion thread.
IoDispatch ==
  /\ At("io", "dispatch")
  /\ IF cur \in SyncCalls
       THEN /\ IoStep("dispatch", "top")
            /\ result' = Notify(cur, "ZOK")
            /\ UNCHANGED completions_to_process
       ELSE /\ QueueToProcess(cur, "ZOK", [pc EXCEPT !["io"] = "top"])
            /\ UNCHANGED result
  /\ cur' = EVENT
  /\ UNCHANGED <<close_requested, ref_counter, zh_lock, expired, sent_requests,
                 freed, cl, tmp_list, reason, closer, call, wire, leaked,
                 overtaken, faults>>

\* The reply is for another request: the completion goes back to the front, the
\* connection is given up, and zookeeper_process returns without api_epilog.
IoMisorder ==
  /\ At("io", "dispatch")
  /\ leaked < MaxMisorders
  /\ QueueToProcess(EVENT, "ZOK", [pc EXCEPT !["io"] = "error"])
  /\ sent_requests' = <<cur>> \o sent_requests
  /\ cur' = EVENT
  /\ reason' = [reason EXCEPT !["io"] = "ZRUNTIMEINCONSISTENCY"]
  /\ ref_counter' = ref_counter + 1
  /\ leaked' = leaked + 1
  /\ UNCHANGED <<close_requested, zh_lock, expired, freed, cl, tmp_list, closer,
                 call, result, wire, overtaken, faults>>

\* The connection fails, or the session turns out to have expired: handle_error
\* queues the session event.
IoError ==
  /\ faults < MaxFaults
  /\ faults' = faults + 1
  /\ At("io", "process")
  /\ expired' \in BOOLEAN
  /\ reason' = [reason EXCEPT !["io"] = "ZCONNECTIONLOSS"]
  /\ QueueToProcess(EVENT, "ZOK", [pc EXCEPT !["io"] = "error"])
  /\ UNCHANGED <<close_requested, ref_counter, zh_lock, sent_requests, freed, cl,
                 tmp_list, cur, closer, call, result, wire, leaked, overtaken>>

\* cleanup_bufs: enter_critical, and free_completions detaches sent_requests.
IoEnterCritical ==
  /\ IoStep("error", "cleanup")
  /\ zh_lock = "free"
  /\ zh_lock' = "io"
  /\ tmp_list' = [tmp_list EXCEPT !["io"] = sent_requests]
  /\ sent_requests' = <<>>
  /\ wire' = 0
  /\ UNCHANGED <<close_requested, ref_counter, expired, completions_to_process,
                 freed, cl, reason, cur, closer, call, result, leaked, overtaken, faults>>

\* leave_critical; do_io ends if the session is unrecoverable.
IoLeaveCritical ==
  /\ IoStep("cleanup", IF expired THEN "epilog" ELSE "top")
  /\ tmp_list["io"] = <<>>
  /\ zh_lock' = "free"
  /\ reason' = [reason EXCEPT !["io"] = "ZOK"]
  /\ UNCHANGED <<close_requested, ref_counter, expired, sent_requests,
                 completions_to_process, freed, cl, tmp_list, cur, closer, call,
                 result, wire, leaked, overtaken, faults>>

-----------------------------------------------------------------------------
(* free_completions, by the IO thread or inside zookeeper_close: one turn  *)
(* of its loop.                                                            *)

FreeCompletion(t) ==
  /\ ~freed
  /\ zh_lock = t
  /\ tmp_list[t] # <<>>
  /\ LET c == Head(tmp_list[t])
     IN IF c \in SyncCalls
          THEN result' = Notify(c, reason[t]) /\ UNCHANGED <<completions_to_process, pc>>
          ELSE QueueToProcess(c, reason[t], pc) /\ UNCHANGED result
  /\ tmp_list' = [tmp_list EXCEPT ![t] = Tail(@)]
  /\ UNCHANGED <<close_requested, ref_counter, zh_lock, expired, sent_requests,
                 freed, cl, reason, cur, closer, call, wire, leaked, overtaken, faults>>

-----------------------------------------------------------------------------
(* The completion thread: do_completion and process_completions.           *)

CompUnchanged ==
  UNCHANGED <<close_requested, ref_counter, zh_lock, expired, sent_requests,
              freed, tmp_list, reason, cur, wire, leaked, overtaken, faults>>

CompTop ==
  /\ At("comp", "top")
  /\ pc' = [pc EXCEPT !["comp"] = IF close_requested THEN "epilog" ELSE "test"]
  /\ CompUnchanged /\ UNCHANGED <<completions_to_process, cl, closer, call, result>>

\* The test of the inner loop, under the lock of the list: drain it or sleep.
MustDrain == completions_to_process # <<>> \/ close_requested

CompTest ==
  /\ At("comp", "test")
  /\ pc' = [pc EXCEPT !["comp"] = IF MustDrain THEN "drain" ELSE "sleep"]
  /\ CompUnchanged /\ UNCHANGED <<completions_to_process, cl, closer, call, result>>

\* pthread_cond_wait may return with no broadcast.
CompSpuriousWakeup ==
  /\ At("comp", "sleep")
  /\ pc' = [pc EXCEPT !["comp"] = "test"]
  /\ CompUnchanged /\ UNCHANGED <<completions_to_process, cl, closer, call, result>>

\* process_completions takes an entry and runs the application's callback.
CompCallback ==
  /\ At("comp", "drain")
  /\ completions_to_process # <<>>
  /\ LET c == Head(completions_to_process)
     IN result' = IF c.xid = EVENT THEN result ELSE Notify(c.xid, c.rc)
  /\ completions_to_process' = Tail(completions_to_process)
  /\ pc' = [pc EXCEPT !["comp"] = "callback"]
  /\ CompUnchanged /\ UNCHANGED <<cl, closer, call>>

\* The callback makes a synchronous call, and waits if it was accepted.
CallbackCheck(c) ==
  /\ At("comp", "callback")
  /\ cl["comp"] = "none"
  /\ c \in WatcherCalls
  /\ CheckState(c)
  /\ pc' = IF expired THEN pc ELSE [pc EXCEPT !["comp"] = "calling"]

CallbackCall(c) ==
  /\ At("comp", "calling")
  /\ c \in WatcherCalls
  /\ MakeCall(c)
  /\ pc' = [pc EXCEPT !["comp"] = IF MayQueue THEN "wait" ELSE "callback"]

CallbackWakes ==
  /\ At("comp", "wait")
  /\ \E c \in WatcherCalls : call[c] = "queued" /\ result[c] # <<>>
  /\ \A c \in WatcherCalls : call[c] = "queued" => result[c] # <<>>
  /\ pc' = [pc EXCEPT !["comp"] = "callback"]
  /\ CompUnchanged /\ UNCHANGED <<completions_to_process, cl, closer, call, result>>

CallbackReturns ==
  /\ At("comp", "callback")
  /\ cl["comp"] = "none"
  /\ pc' = [pc EXCEPT !["comp"] = "drain"]
  /\ CompUnchanged /\ UNCHANGED <<completions_to_process, cl, closer, call, result>>

CompDrained ==
  /\ At("comp", "drain")
  /\ completions_to_process = <<>>
  /\ pc' = [pc EXCEPT !["comp"] = "top"]
  /\ CompUnchanged /\ UNCHANGED <<completions_to_process, cl, closer, call, result>>

-----------------------------------------------------------------------------
(* inc_ref_counter.                                                        *)

IncRef_Missing == ref_counter
IncRef == ref_counter + 1
DecRef == ref_counter - 1

-----------------------------------------------------------------------------
(* zookeeper_close.  A thread inside it has pc "closing", or "callback" if *)
(* it was called by a callback, and cl says how far it has come.           *)

CloseUnchanged ==
  UNCHANGED <<expired, cur, call, wire, leaked, faults>>

\* The application calls zookeeper_close, once: close_requested is set.
CloseRequest(t) ==
  /\ t \in Closers
  /\ closer = "none"
  /\ closer' = t
  /\ \/ At("app", "idle") /\ t = "app" /\ pc' = [pc EXCEPT !["app"] = "closing"]
     \/ At("comp", "callback") /\ t = "comp" /\ UNCHANGED pc
  /\ close_requested' = TRUE
  /\ cl' = [cl EXCEPT ![t] = "flagged"]
  /\ CloseUnchanged
  /\ UNCHANGED <<ref_counter, zh_lock, sent_requests, completions_to_process,
                 freed, tmp_list, reason, result, overtaken>>

\* inc_ref_counter(zh,1) > 1: somebody else still uses the handle.
InUse_OffByOne == ref_counter + 1 > 2
InUse == ref_counter + 1 > 1

CloseIncRef(t) ==
  /\ InClose(t, "flagged")
  /\ ref_counter' = ref_counter + 1
  /\ cl' = [cl EXCEPT ![t] = IF InUse THEN "signal" ELSE "destroy"]
  /\ CloseUnchanged
  /\ UNCHANGED <<close_requested, zh_lock, sent_requests, completions_to_process,
                 freed, pc, tmp_list, reason, closer, result, overtaken>>

\* enter_critical and free_completions(zh,1,ZCLOSING).
Detached_Kept == sent_requests
Detached == <<>>

CloseEnterCritical(t) ==
  /\ InClose(t, "signal")
  /\ zh_lock = "free"
  /\ zh_lock' = t
  /\ cl' = [cl EXCEPT ![t] = "freeing"]
  /\ tmp_list' = [tmp_list EXCEPT ![t] = sent_requests]
  /\ sent_requests' = Detached
  /\ reason' = [reason EXCEPT ![t] = "ZCLOSING"]
  /\ CloseUnchanged
  /\ UNCHANGED <<close_requested, ref_counter, completions_to_process, freed, pc,
                 closer, result, overtaken>>

\* leave_critical, and adaptor_finish takes a reference of its own and wakes the
\* IO thread.
CloseLeaveCritical(t) ==
  /\ InClose(t, "freeing")
  /\ tmp_list[t] = <<>>
  /\ zh_lock' = "free"
  /\ reason' = [reason EXCEPT ![t] = "ZOK"]
  /\ ref_counter' = IncRef
  /\ cl' = [cl EXCEPT ![t] = "join_io"]
  /\ CloseUnchanged
  /\ UNCHANGED <<close_requested, sent_requests, completions_to_process, freed, pc,
                 tmp_list, closer, result, overtaken>>

\* Join or detach the IO thread, then broadcast to the completion thread.
CloseJoinIo(t) ==
  /\ InClose(t, "join_io")
  /\ t = "io" \/ pc["io"] = "gone"
  /\ cl' = [cl EXCEPT ![t] = "join_completion"]
  /\ pc' = Broadcast(pc)
  /\ CloseUnchanged
  /\ UNCHANGED <<close_requested, ref_counter, zh_lock, sent_requests,
                 completions_to_process, freed, tmp_list, reason, closer, result,
                 overtaken>>

\* Join or detach the completion thread; adaptor_finish gives its reference back.
CloseJoinCompletion(t) ==
  /\ InClose(t, "join_completion")
  /\ t = "comp" \/ pc["comp"] = "gone"
  /\ cl' = [cl EXCEPT ![t] = "epilog"]
  /\ ref_counter' = DecRef
  /\ CloseUnchanged
  /\ UNCHANGED <<close_requested, zh_lock, sent_requests, completions_to_process,
                 freed, pc, tmp_list, reason, closer, result, overtaken>>

-----------------------------------------------------------------------------
(* api_epilog at the end of a thread or of zookeeper_close: whoever brings *)
(* the counter to zero on a handle that is being closed closes it again.   *)

LastReference_NotTested == FALSE
LastReference == DecRef = 0 /\ close_requested

ReleaseReference(t, done) ==
  /\ ref_counter' = DecRef
  /\ IF LastReference
       THEN /\ cl' = [cl EXCEPT ![t] = "flagged"]
            /\ pc' = [pc EXCEPT ![t] = "closing"]
            /\ overtaken' = (overtaken \/ \E u \in Threads \ {t} : cl[u] = "flagged")
       ELSE /\ cl' = [cl EXCEPT ![t] = "none"]
            /\ pc' = [pc EXCEPT ![t] = done]
            /\ UNCHANGED overtaken
  /\ CloseUnchanged
  /\ UNCHANGED <<close_requested, zh_lock, sent_requests, completions_to_process,
                 freed, tmp_list, reason, closer, result>>

\* The last statement of do_io and do_completion.
ThreadEpilog(t) == At(t, "epilog") /\ ReleaseReference(t, "gone")

\* The api_epilog of zookeeper_close, which then returns to its caller.
CloseEpilog(t) ==
  InClose(t, "epilog") /\ ReleaseReference(t, IF pc[t] = "callback" THEN "callback" ELSE "gone")

LeftAtDestroy_NotFreed == <<>>
LeftAtDestroy == sent_requests

\* The thread that holds the last reference destroys the handle.  cleanup_bufs of
\* destroy: free_completions notifies the synchronous callers that are left and
\* queues the rest, which nobody will take from completions_to_process any more.
DestroyEnterCritical(t) ==
  /\ InClose(t, "destroy")
  /\ zh_lock = "free"
  /\ zh_lock' = t
  /\ cl' = [cl EXCEPT ![t] = "emptying"]
  /\ tmp_list' = [tmp_list EXCEPT ![t] = LeftAtDestroy]
  /\ sent_requests' = <<>>
  /\ reason' = [reason EXCEPT ![t] = "ZCLOSING"]
  /\ CloseUnchanged
  /\ UNCHANGED <<close_requested, ref_counter, completions_to_process, freed, pc,
                 closer, result, overtaken>>

\* leave_critical, the rest of destroy, and free(zh).
DestroyHandle(t) ==
  /\ InClose(t, "emptying")
  /\ tmp_list[t] = <<>>
  /\ zh_lock' = "free"
  /\ reason' = [reason EXCEPT ![t] = "ZOK"]
  /\ freed' = TRUE
  /\ cl' = [cl EXCEPT ![t] = "none"]
  /\ pc' = [pc EXCEPT ![t] = "gone"]
  /\ CloseUnchanged
  /\ UNCHANGED <<close_requested, ref_counter, sent_requests, completions_to_process,
                 tmp_list, closer, result, overtaken>>

-----------------------------------------------------------------------------

do_io ==
  \/ IoTop \/ IoIdle \/ IoDequeue \/ IoDispatch \/ IoMisorder \/ IoError
  \/ IoEnterCritical \/ IoLeaveCritical

do_completion ==
  \/ CompTop \/ CompTest \/ CompCallback \/ CallbackWakes \/ CallbackReturns
  \/ CompDrained

zookeeper_close(t) ==
  \/ CloseIncRef(t) \/ CloseEnterCritical(t)
  \/ CloseLeaveCritical(t) \/ CloseJoinIo(t) \/ CloseJoinCompletion(t)
  \/ CloseEpilog(t) \/ DestroyEnterCritical(t) \/ DestroyHandle(t)

ThreadStep(t) == FreeCompletion(t) \/ ThreadEpilog(t) \/ zookeeper_close(t)

Next ==
  \/ \E c \in Calls : AppCall(c) \/ CallbackCheck(c) \/ CallbackCall(c)
  \/ do_io
  \/ do_completion
  \/ CompSpuriousWakeup
  \/ \E t \in Threads : CloseRequest(t) \/ ThreadStep(t)

Spec == Init /\ [][Next]_vars

\* The two threads and a thread inside zookeeper_close are scheduled.  The
\* application may close the handle or never do so.
Fairness ==
  /\ WF_vars(do_io)
  /\ WF_vars(do_completion \/ \E c \in Calls : CallbackCall(c))
  /\ \A t \in Threads : WF_vars(ThreadStep(t))

FairSpec == Spec /\ Fairness

-----------------------------------------------------------------------------
(* Properties.                                                             *)

\* ref_counter is the number of references that are held: one by each thread
\* until its epilog, one or two by a thread inside zookeeper_close, and those
\* that were leaked.  Once the handle is freed the counter is gone with it.
HeldByThread(t) ==
  IF t = "app" \/ pc[t] \in {"gone", "closing"} THEN 0 ELSE 1
HeldByClose(t) ==
  IF cl[t] \in {"none", "flagged"} THEN 0
  ELSE IF cl[t] \in {"join_io", "join_completion"} THEN 2 ELSE 1
Held(t) == HeldByThread(t) + HeldByClose(t)
RefCounterExact == ~freed => ref_counter = Held("io") + Held("comp") + Held("app") + leaked

\* No thread uses the handle after it was freed: "We have incremented the ref
\* counter to prevent the completions from calling zookeeper_close before we have
\* completed the adaptor_finish call below" (zookeeper_close).
Finished(t) == pc[t] \in {"gone", "idle"} /\ cl[t] = "none"
NoUseAfterFree == freed => \A t \in Threads : Finished(t)

\* The one way to a use after free is that both threads end between the two
\* statements of zookeeper_close that set close_requested and take a reference.
FreedUnusedUnlessOvertaken == ~overtaken => NoUseAfterFree

\* Two threads are never both inside zookeeper_close's final branch, and the
\* branch is entered when nobody else holds a reference, unless a closer was
\* overtaken: the handle is freed once.
Destroying(t) == cl[t] \in {"destroy", "emptying"}
OneDestroyer ==
  ~overtaken => \A t \in Threads : Destroying(t) => \A u \in Threads \ {t} : Held(u) = 0

\* When the application has closed the handle and both threads have ended, the
\* handle is freed, unless a reference was leaked by an out-of-order reply.
AllFinished == closer # "none" /\ \A t \in Threads : Finished(t)
FreedUnlessLeaked == AllFinished => (freed <=> leaked = 0)

\* Closing destroys the handle: "Regardless of the error code returned, the
\* zhandle will be destroyed and all resources freed" (zookeeper.h).
FreedWhenClosed == AllFinished => freed

\* A request that was accepted is in one place and is answered at most once,
\* whichever of the IO thread, the closing thread and destroy gets to it.
Places(c) ==
  Cardinality({i \in DOMAIN sent_requests : sent_requests[i] = c})
  + Cardinality({i \in DOMAIN tmp_list["io"] : tmp_list["io"][i] = c})
  + Cardinality({i \in DOMAIN tmp_list["comp"] : tmp_list["comp"][i] = c})
  + Cardinality({i \in DOMAIN tmp_list["app"] : tmp_list["app"][i] = c})
  + Cardinality({i \in DOMAIN completions_to_process : completions_to_process[i].xid = c})
  + Len(result[c])
  + (IF cur = c THEN 1 ELSE 0)
AnsweredAtMostOnce ==
  \A c \in Calls : Places(c) = IF call[c] = "queued" THEN 1 ELSE 0

\* zookeeper_process never runs into assert(cptr): a reply finds no request only
\* if zookeeper_close has taken the requests away.
NoAssertionFailure == pc["io"] # "aborted"

\* A synchronous caller is not left waiting by a handle that is gone.
SyncCallersReleased ==
  freed => \A c \in SyncCalls : call[c] = "queued" => result[c] # <<>>

\* destroy is to "call any outstanding completions with a special error code":
\* when the handle is gone every accepted request has been answered.  (Behaviours
\* in which the closer was overtaken are left aside: see NoUseAfterFree.)
CompletionsCalledAtClose ==
  freed /\ ~overtaken => \A c \in Calls : call[c] = "queued" => result[c] # <<>>

\* zookeeper_close returns: the threads it joins end, even when the completion
\* thread is inside a synchronous call of the application.
CloseReturns == \A t \in Closers : closer = t ~> cl[t] = "none" \/ overtaken
=============================================================================
