----------------------------- MODULE ZkSession -----------------------------
(***************************************************************************)
(* The request pipeline and the session state machine of the multi-        *)
(* threaded ZooKeeper client (zookeeper_driver/driver): application        *)
(* threads that queue requests, the IO thread that connects, sends,        *)
(* receives and cleans up after a failure, the completion thread that      *)
(* calls the application back, and, as the environment, the TCP connection *)
(* and the server ensemble.                                                *)
(*                                                                         *)
(* The handle stays open (close_requested = 0), has no credentials and no  *)
(* node watches: ZkClose models closing.                                   *)
(*                                                                         *)
(* One action is one section of code that no other thread can observe half *)
(* done.  zh_lock is held from enter_critical to leave_critical: while the *)
(* IO thread is inside cleanup_bufs (io = "cleanup") no request is queued. *)
(***************************************************************************)
EXTENDS Integers, Sequences, FiniteSets

CONSTANTS
  Calls,              \* API calls the application may make, each at most once
  SyncCalls,          \* the calls made through the synchronous API
  WatcherCalls,       \* synchronous calls made inside a watcher callback
  AddrsCount,         \* zh->addrs_count
  MaxFaults,          \* bound: failures of the network and of the servers
  MaxPings,           \* bound: pings sent
  PING_XID,           \* the xid of a ping
  WATCHER_EVENT_XID   \* the xid of a queued watcher event

ASSUME CallsAssumption ==
  /\ WatcherCalls \subseteq SyncCalls
  /\ SyncCalls \subseteq Calls
  /\ PING_XID \notin Calls
  /\ WATCHER_EVENT_XID \notin Calls
  /\ PING_XID # WATCHER_EVENT_XID

ASSUME BoundsAssumption ==
  /\ AddrsCount \in Nat \ {0}
  /\ MaxFaults \in Nat
  /\ MaxPings \in Nat

VARIABLES
  \* fields of zhandle_t
  state,                   \* zh->state
  fd,                      \* zh->fd # -1
  connect_index,           \* zh->connect_index
  client_id,               \* zh->client_id.client_id, 0 for no session
  to_send,                 \* zh->to_send: the xids of the queued packets
  sent_requests,           \* zh->sent_requests: the xids awaiting a reply
  completions_to_process,  \* zh->completions_to_process
  self_pipe,               \* a byte waits in the wakeup pipe
  \* the IO thread
  io,                      \* where do_io is
  interest_write,          \* ZOOKEEPER_WRITE asked for by zookeeper_interest
  events,                  \* what poll returned for the socket
  tmp_list,                \* tmp_list of free_completions
  reason,                  \* the error code cleanup_bufs hands out
  \* the application
  call,                    \* where each API call is
  result,                  \* the result codes each call was given
  accepted,                \* history: the calls in the order they were queued
  watcher,                 \* the call the watcher callback is inside, or none
  seen,                    \* history: the session events the watcher saw
  \* the connection and the servers
  peer_up,                 \* the server end of the connection is there
  primer,                  \* the connection handshake
  primer_sid,              \* the session id in the server's handshake answer
  to_server,               \* xids on their way to the server
  to_client,               \* replies on their way to the client
  skew,                    \* the server left a request of this connection unanswered
  session,                 \* the live session of the ensemble, 0 for none
  next_sid,                \* the session id a new client will get
  leftovers,               \* requests of lost connections that servers may still execute
  executed,                \* history: requests the ensemble executed, in order
  \* bounds
  faults, pings

ioVars == <<io, interest_write, events, tmp_list, reason>>
appVars == <<call, result, accepted, watcher, seen>>
netVars == <<peer_up, primer, primer_sid, to_server, to_client, skew>>
serverVars == <<session, next_sid, leftovers, executed>>
handleVars == <<state, fd, connect_index, client_id, to_send, sent_requests,
                completions_to_process, self_pipe>>
vars == <<handleVars, ioVars, appVars, netVars, serverVars, faults, pings>>

-----------------------------------------------------------------------------
(* Session states and result codes, with the names of the source. *)

States == {"NOTCONNECTED", "DISCONNECTED", "CONNECTING", "ASSOCIATING",
           "CONNECTED", "EXPIRED_SESSION"}

\* The codes a completed request carries: the server's own, whatever it is, and
\* the reasons cleanup_bufs is called with.
RetCodes == {"ZOK", "ZCONNECTIONLOSS", "ZOPERATIONTIMEOUT",
             "ZSYSTEMERROR", "ZSESSIONEXPIRED", "ZRUNTIMEINCONSISTENCY"}

\* is_unrecoverable: the negative states.
is_unrecoverable == state = "EXPIRED_SESSION"

NoCall == "none"
Xids == Calls \union {PING_XID}
Reply == [xid : Xids, err : RetCodes]
Completion == [xid : Calls, val : RetCodes]
                \union [xid : {WATCHER_EVENT_XID}, val : States]
SessionEvent(st) == [xid |-> WATCHER_EVENT_XID, val |-> st]

\* queue_completion: an entry goes to the end of the list, or to its front.
queue_completion_AlwaysLast(list, c, add_to_front) == Append(list, c)
queue_completion(list, c, add_to_front) ==
  IF add_to_front THEN <<c>> \o list ELSE Append(list, c)

\* queue_buffer_bytes: a packet goes to the end of to_send.
queue_buffer_bytes_Front(list, b) == <<b>> \o list
queue_buffer_bytes(list, b) == Append(list, b)

-----------------------------------------------------------------------------
(* zookeeper_init: a fresh handle, or one given the id of an earlier       *)
(* session, which the ensemble may have expired.  The IO thread is about   *)
(* to enter its loop.                                                      *)

InitHandle ==
  /\ state = "NOTCONNECTED"
  /\ fd = FALSE
  /\ connect_index = 0
  /\ client_id \in {0, 1}
  /\ to_send = <<>>
  /\ sent_requests = <<>>
  /\ completions_to_process = <<>>
  /\ self_pipe = FALSE
  /\ io = "interest"
  /\ interest_write = FALSE
  /\ events = {}
  /\ tmp_list = <<>>
  /\ reason = "ZOK"

InitEnvironment ==
  /\ call = [c \in Calls |-> "idle"]
  /\ result = [c \in Calls |-> <<>>]
  /\ accepted = <<>>
  /\ watcher = NoCall
  /\ seen = <<>>
  /\ peer_up = FALSE
  /\ primer = "none"
  /\ primer_sid = 0
  /\ to_server = <<>>
  /\ to_client = <<>>
  /\ skew = FALSE
  /\ session \in {0, client_id}
  /\ next_sid = 2
  /\ leftovers = <<>>
  /\ executed = <<>>
  /\ faults = 0
  /\ pings = 0

Init == InitHandle /\ InitEnvironment

-----------------------------------------------------------------------------
(* Application threads.                                                    *)

\* A call finds the session unrecoverable and returns ZINVALIDSTATE, or goes
\* on to build its packet.  The test is made before zh_lock is taken.  A call
\* of a watcher is made by the completion thread, inside the callback.
CheckState(c) ==
  /\ call[c] = "idle"
  /\ c \in WatcherCalls => watcher = c
  /\ call' = [call EXCEPT ![c] = IF is_unrecoverable THEN "refused" ELSE "checked"]
  /\ UNCHANGED <<result, accepted, watcher, seen, handleVars, ioVars, netVars,
                 serverVars, faults, pings>>

\* enter_critical .. leave_critical of every zoo_a* call: add_completion, then
\* queue_buffer_bytes.
QueueRequest(c) ==
  /\ call[c] = "checked"
  /\ io # "cleanup"
  /\ sent_requests' = queue_completion(sent_requests, c, FALSE)
  /\ to_send' = queue_buffer_bytes(to_send, c)
  /\ call' = [call EXCEPT ![c] = "queued"]
  /\ accepted' = Append(accepted, c)
  /\ UNCHANGED <<state, fd, connect_index, client_id, completions_to_process,
                 self_pipe, result, watcher, seen, ioVars, netVars, serverVars,
                 faults, pings>>

\* adaptor_send_queue: wake the IO thread.  An asynchronous call returns ZOK, a
\* synchronous one goes on to wait_sync_completion.
WakeupIoThread(c) ==
  /\ call[c] = "queued"
  /\ self_pipe' = TRUE
  /\ call' = [call EXCEPT ![c] = "waiting"]
  /\ UNCHANGED <<state, fd, connect_index, client_id, to_send, sent_requests,
                 completions_to_process, result, accepted, watcher, seen,
                 ioVars, netVars, serverVars, faults, pings>>

\* wait_sync_completion ends: the caller takes sc->rc and frees sc.
SyncReturn(c) ==
  /\ c \in SyncCalls
  /\ call[c] = "waiting"
  /\ result[c] # <<>>
  /\ call' = [call EXCEPT ![c] = "returned"]
  /\ UNCHANGED <<result, accepted, watcher, seen, handleVars, ioVars, netVars,
                 serverVars, faults, pings>>

-----------------------------------------------------------------------------
(* The completion thread: do_completion and process_completions.           *)

\* The oldest entry is a session event: the default watcher is called with it,
\* and may make a synchronous call before it returns.
DeliverEvent ==
  /\ watcher = NoCall
  /\ completions_to_process # <<>>
  /\ Head(completions_to_process).xid = WATCHER_EVENT_XID
  /\ seen' = Append(seen, Head(completions_to_process).val)
  /\ completions_to_process' = Tail(completions_to_process)
  /\ watcher' \in {NoCall} \union {c \in WatcherCalls : call[c] = "idle"}
  /\ UNCHANGED <<state, fd, connect_index, client_id, to_send, sent_requests,
                 self_pipe, call, result, accepted, ioVars, netVars, serverVars,
                 faults, pings>>

\* The oldest entry is a reply: the completion function of the call is invoked.
DeliverReply ==
  /\ watcher = NoCall
  /\ completions_to_process # <<>>
  /\ LET cptr == Head(completions_to_process)
     IN /\ cptr.xid \in Calls
        /\ result' = [result EXCEPT ![cptr.xid] = Append(@, cptr.val)]
  /\ completions_to_process' = Tail(completions_to_process)
  /\ UNCHANGED <<state, fd, connect_index, client_id, to_send, sent_requests,
                 self_pipe, call, accepted, watcher, seen, ioVars, netVars,
                 serverVars, faults, pings>>

\* The call made inside the watcher is over, and the watcher returns.
WatcherReturn ==
  /\ watcher # NoCall
  /\ call[watcher] \in {"returned", "refused"}
  /\ watcher' = NoCall
  /\ UNCHANGED <<call, result, accepted, seen, handleVars, ioVars, netVars,
                 serverVars, faults, pings>>

-----------------------------------------------------------------------------
(* The IO thread: handle_error.                                            *)

\* The servers keep the first k of the requests on their way, for any k; the rest,
\* and what was written to a connection that had broken, is lost.
LeaveToServers ==
  /\ \E k \in 0 .. (IF peer_up THEN Len(to_server) ELSE 0) :
       leftovers' = leftovers \o SubSeq(to_server, 1, k)
  /\ to_server' = <<>>

\* The client closes its end.  What servers hold of the requests they may execute
\* later, when the calls have long been answered with a failure.
CloseConnection ==
  /\ peer_up' = FALSE
  /\ primer' = "none"
  /\ primer_sid' = 0
  /\ LeaveToServers
  /\ to_client' = <<>>
  /\ skew' = FALSE
  /\ UNCHANGED <<session, next_sid, executed>>

\* The session event of handle_error: none if no session was established.
ErrorEvent_Always(st) ==
  queue_completion(completions_to_process,
    SessionEvent(IF st = "EXPIRED_SESSION" THEN st ELSE "CONNECTING"), FALSE)
ErrorEvent(st) ==
  IF st = "EXPIRED_SESSION"
    THEN queue_completion(completions_to_process, SessionEvent(st), FALSE)
  ELSE IF st = "CONNECTED"
    THEN queue_completion(completions_to_process, SessionEvent("CONNECTING"), FALSE)
  ELSE completions_to_process

\* free_buffers(&zh->to_send): the packets that were not sent are dropped.
FreeToSend_Kept == to_send
FreeToSend == <<>>

\* free_completions takes the list of sent requests away from the handle.
DetachedRequests_Kept == sent_requests
DetachedRequests == <<>>

\* handle_error up to enter_critical: close the socket and queue the session event.
\* Requests may still be queued, and are failed with the others.
BeginError(st, rc, requests) ==
  /\ fd' = FALSE
  /\ CloseConnection
  /\ state' = st
  /\ completions_to_process' = ErrorEvent(st)
  /\ sent_requests' = requests
  /\ reason' = rc
  /\ io' = "error"
  /\ interest_write' = FALSE
  /\ events' = {}
  /\ UNCHANGED <<connect_index, client_id, to_send, self_pipe, tmp_list, appVars>>

\* cleanup_bufs up to the loop of free_completions: enter_critical, empty to_send,
\* detach sent_requests.
BeginCleanup ==
  /\ io = "error"
  /\ to_send' = FreeToSend
  /\ sent_requests' = DetachedRequests
  /\ tmp_list' = sent_requests
  /\ io' = "cleanup"
  /\ UNCHANGED <<state, fd, connect_index, client_id, completions_to_process,
                 self_pipe, interest_write, events, reason, appVars, netVars,
                 serverVars, faults, pings>>

\* A synchronous caller gets the code, process_sync_completion with its data, and
\* is notified.
SyncResult(cptr, rc) ==
  IF cptr \in SyncCalls THEN [result EXCEPT ![cptr] = Append(@, rc)] ELSE result

\* The reply to an asynchronous call is left to the completion thread, the one to a
\* ping is dropped.
AsyncReply(cptr, rc) ==
  IF cptr \in SyncCalls \/ cptr = PING_XID
    THEN completions_to_process
    ELSE queue_completion(completions_to_process, [xid |-> cptr, val |-> rc], FALSE)

\* One turn of the loop of free_completions, which fakes the replies.
FreeCompletion ==
  /\ io = "cleanup"
  /\ tmp_list # <<>>
  /\ LET cptr == Head(tmp_list)
     IN /\ result' = SyncResult(cptr, reason)
        /\ completions_to_process' = AsyncReply(cptr, reason)
  /\ tmp_list' = Tail(tmp_list)
  /\ UNCHANGED <<state, fd, connect_index, client_id, to_send, sent_requests,
                 self_pipe, io, interest_write, events, reason, call, accepted,
                 watcher, seen, netVars, serverVars, faults, pings>>

\* leave_critical, the rest of handle_error, and the test of do_io that ends
\* the thread in an unrecoverable state.
EndError ==
  /\ io = "cleanup"
  /\ tmp_list = <<>>
  /\ connect_index' = connect_index + 1
  /\ state' = IF is_unrecoverable THEN state ELSE "DISCONNECTED"
  /\ io' = IF is_unrecoverable THEN "done" ELSE "interest"
  /\ reason' = "ZOK"
  /\ UNCHANGED <<fd, client_id, to_send, sent_requests, completions_to_process,
                 self_pipe, interest_write, events, tmp_list, appVars, netVars,
                 serverVars, faults, pings>>

-----------------------------------------------------------------------------
(* The IO thread: zookeeper_interest.  An error inside it is followed by a *)
(* poll that does not wait and a zookeeper_process that finds no socket,   *)
(* so that the thread comes back here.                                     *)

\* A failure the environment chooses, of which there are at most MaxFaults.
Fault == faults < MaxFaults /\ faults' = faults + 1 /\ UNCHANGED pings

AllServersTried_OffByOne == connect_index = AddrsCount + 1
AllServersTried_TooEarly == connect_index >= AddrsCount - 1
AllServersTried == connect_index = AddrsCount

\* Every server was tried: start over, after one poll that only waits.
InterestWrap ==
  /\ io = "interest"
  /\ ~fd
  /\ AllServersTried
  /\ connect_index' = 0
  /\ io' = "poll"
  /\ interest_write' = FALSE
  /\ UNCHANGED <<state, fd, client_id, to_send, sent_requests,
                 completions_to_process, self_pipe, events, tmp_list, reason,
                 appVars, netVars, serverVars, faults, pings>>

\* socket and connect: the connection is on its way, or is there at once and
\* prime_connection sends the handshake.
InterestConnect ==
  /\ io = "interest"
  /\ ~fd
  /\ ~AllServersTried
  /\ fd' = TRUE
  /\ peer_up' = TRUE
  /\ \/ state' = "CONNECTING" /\ interest_write' = TRUE /\ primer' = "none"
     \/ state' = "ASSOCIATING" /\ interest_write' = FALSE /\ primer' = "asked"
  /\ io' = "poll"
  /\ UNCHANGED <<connect_index, client_id, to_send, sent_requests,
                 completions_to_process, self_pipe, events, tmp_list, reason,
                 appVars, primer_sid, to_server, to_client, skew, serverVars,
                 faults, pings>>

\* socket() or connect() fails at once.
InterestConnectFails ==
  /\ io = "interest"
  /\ ~fd
  /\ ~AllServersTried
  /\ \E rc \in {"ZSYSTEMERROR", "ZCONNECTIONLOSS"} : BeginError(state, rc, sent_requests)
  /\ Fault

\* Nothing was received for two thirds of recv_timeout.
InterestTimeout ==
  /\ io = "interest"
  /\ fd
  /\ BeginError(state, "ZOPERATIONTIMEOUT", sent_requests)
  /\ Fault

\* Nothing was sent for a third of recv_timeout, and no reply is awaited: go
\* and send a ping.  sent_requests is read without a lock.
InterestIdle ==
  /\ io = "interest"
  /\ fd
  /\ state = "CONNECTED"
  /\ sent_requests = <<>>
  /\ pings < MaxPings
  /\ io' = "ping"
  /\ UNCHANGED <<handleVars, interest_write, events, tmp_list, reason, appVars,
                 netVars, serverVars, faults, pings>>

\* send_ping, and the rest of zookeeper_interest.
SendPing ==
  /\ io = "ping"
  /\ sent_requests' = queue_completion(sent_requests, PING_XID, FALSE)
  /\ to_send' = queue_buffer_bytes(to_send, PING_XID)
  /\ self_pipe' = TRUE
  /\ interest_write' = TRUE
  /\ io' = "poll"
  /\ pings' = pings + 1
  /\ UNCHANGED <<state, fd, connect_index, client_id, completions_to_process,
                 events, tmp_list, reason, appVars, netVars, serverVars, faults>>

\* A write is of interest if there is something to send on an established
\* session, or if the connection is being made.
WriteInterest_NoData == state = "CONNECTING"
WriteInterest ==
  \/ state = "CONNECTED" /\ to_send # <<>>
  \/ state = "CONNECTING"

\* Nothing is overdue.
InterestSelect ==
  /\ io = "interest"
  /\ fd
  /\ interest_write' = WriteInterest
  /\ io' = "poll"
  /\ UNCHANGED <<handleVars, events, tmp_list, reason, appVars, netVars,
                 serverVars, faults, pings>>

-----------------------------------------------------------------------------
(* The IO thread: poll, as do_io uses it.  It returns at once when the     *)
(* wakeup pipe or the socket is ready, and otherwise at its timeout, with  *)
(* no event.                                                               *)

Readable == fd /\ (to_client # <<>> \/ primer = "answered" \/ ~peer_up)

\* A broken connection may also raise POLLHUP, which do_io counts as writable.
Writable(hangup) == interest_write \/ hangup

Poll ==
  /\ io = "poll"
  /\ \E hangup \in {FALSE, ~peer_up} :
       events' = {e \in {"READ", "WRITE"} : \/ e = "READ" /\ Readable
                                            \/ e = "WRITE" /\ fd /\ Writable(hangup)}
  /\ interest_write' = FALSE
  /\ self_pipe' = FALSE
  /\ io' = "process"
  /\ UNCHANGED <<state, fd, connect_index, client_id, to_send, sent_requests,
                 completions_to_process, tmp_list, reason,
                 appVars, netVars, serverVars, faults, pings>>

-----------------------------------------------------------------------------
(* The IO thread: zookeeper_process and check_events, which look at WRITE  *)
(* before READ.                                                            *)

\* Back to the head of the loop of do_io.
Loop == io' = "interest" /\ events' = {} /\ UNCHANGED <<interest_write, tmp_list, reason>>

\* The connection was made: prime_connection sends the handshake.
ProcessConnected ==
  /\ io = "process"
  /\ "WRITE" \in events
  /\ state = "CONNECTING"
  /\ peer_up
  /\ state' = "ASSOCIATING"
  /\ primer' = "asked"
  /\ Loop
  /\ UNCHANGED <<fd, connect_index, client_id, to_send, sent_requests,
                 completions_to_process, self_pipe, appVars, peer_up, primer_sid,
                 to_server, to_client, skew, serverVars, faults, pings>>

\* The connection was refused, or the handshake could not be sent.
ProcessRefused ==
  /\ io = "process"
  /\ "WRITE" \in events
  /\ state = "CONNECTING"
  /\ BeginError(state, "ZCONNECTIONLOSS", sent_requests)
  /\ \/ peer_up /\ Fault
     \/ ~peer_up /\ UNCHANGED <<faults, pings>>

\* remove_buffer: what is left of to_send when k packets were sent.
Unsent_LastKept(k) == SubSeq(to_send, k, Len(to_send))
Unsent(k) == SubSeq(to_send, k + 1, Len(to_send))

\* flush_send_queue: the first k packets of to_send go out, the next would block.
FlushSendQueue ==
  /\ io = "process"
  /\ "WRITE" \in events
  /\ state = "CONNECTED"
  /\ to_send # <<>>
  /\ \E k \in 1 .. Len(to_send) :
       /\ to_server' = to_server \o SubSeq(to_send, 1, k)
       /\ to_send' = Unsent(k)
  /\ events' = events \ {"WRITE"}
  /\ UNCHANGED <<state, fd, connect_index, client_id, sent_requests,
                 completions_to_process, self_pipe, io, interest_write, tmp_list,
                 reason, appVars, peer_up, primer, primer_sid, to_client, skew,
                 serverVars, faults, pings>>

\* flush_send_queue fails on a connection the server has left.
FlushFails ==
  /\ io = "process"
  /\ "WRITE" \in events
  /\ state = "CONNECTED"
  /\ to_send # <<>>
  /\ ~peer_up
  /\ BeginError(state, "ZCONNECTIONLOSS", sent_requests)
  /\ UNCHANGED <<faults, pings>>

\* Writable, but there is no established session or nothing to send.
NothingToFlush ==
  /\ io = "process"
  /\ "WRITE" \in events
  /\ state # "CONNECTING"
  /\ state = "CONNECTED" => to_send = <<>>
  /\ events' = events \ {"WRITE"}
  /\ UNCHANGED <<handleVars, io, interest_write, tmp_list, reason, appVars, netVars,
                 serverVars, faults, pings>>

\* recv_buffer reports that the server has closed the connection.
ReceiveFails ==
  /\ io = "process"
  /\ events = {"READ"}
  /\ to_client = <<>>
  /\ primer # "answered"
  /\ ~peer_up
  /\ BeginError(state, "ZCONNECTIONLOSS", sent_requests)
  /\ UNCHANGED <<faults, pings>>

\* No event, or the one read turned out to be for nothing.
ProcessNothing ==
  /\ io = "process"
  /\ events = {}
  /\ Loop
  /\ UNCHANGED <<handleVars, appVars, netVars, serverVars, faults, pings>>

\* The handshake answer names the session the client asked for, or a new one:
\* the session is established.
SessionEstablished ==
  /\ io = "process"
  /\ events = {"READ"}
  /\ primer = "answered"
  /\ client_id = 0 \/ client_id = primer_sid
  /\ client_id' = primer_sid
  /\ state' = "CONNECTED"
  /\ completions_to_process' =
       queue_completion(completions_to_process, SessionEvent("CONNECTED"), FALSE)
  /\ primer' = "done"
  /\ primer_sid' = 0
  /\ Loop
  /\ UNCHANGED <<fd, connect_index, to_send, sent_requests, self_pipe, appVars,
                 peer_up, to_server, to_client, skew, serverVars,
                 faults, pings>>

\* The handshake answer names another session: the client's has expired.
SessionExpired ==
  /\ io = "process"
  /\ events = {"READ"}
  /\ primer = "answered"
  /\ client_id # 0 /\ client_id # primer_sid
  /\ BeginError("EXPIRED_SESSION", "ZSESSIONEXPIRED", sent_requests)
  /\ UNCHANGED <<faults, pings>>

\* A reply arrives for the oldest request.
ReceiveReply ==
  /\ io = "process"
  /\ events = {"READ"}
  /\ primer = "done"
  /\ to_client # <<>>
  /\ sent_requests # <<>>
  /\ LET hdr == Head(to_client)
         cptr == Head(sent_requests)
     IN /\ cptr = hdr.xid
        /\ result' = SyncResult(cptr, hdr.err)
        /\ completions_to_process' = AsyncReply(cptr, hdr.err)
  /\ to_client' = Tail(to_client)
  /\ sent_requests' = Tail(sent_requests)
  /\ Loop
  /\ UNCHANGED <<state, fd, connect_index, client_id, to_send, self_pipe, call,
                 accepted, watcher, seen, peer_up, primer, primer_sid, to_server,
                 skew, serverVars, faults, pings>>

\* A reply arrives for another request than the oldest: the entry taken from
\* sent_requests is put back and the connection is given up.
ReceiveOutOfOrder ==
  /\ io = "process"
  /\ events = {"READ"}
  /\ primer = "done"
  /\ to_client # <<>>
  /\ sent_requests # <<>>
  /\ Head(sent_requests) # Head(to_client).xid
  /\ BeginError(state, "ZRUNTIMEINCONSISTENCY",
                queue_completion(Tail(sent_requests), Head(sent_requests), TRUE))
  /\ UNCHANGED <<faults, pings>>

-----------------------------------------------------------------------------
(* The ensemble and the network, as the client code relies on them: TCP    *)
(* keeps order, a server answers the requests of a connection in order, a  *)
(* session id stays alive until the ensemble expires it, and a session     *)
(* that another server takes over has moved: operations left behind on the *)
(* old connections are ignored from then on (ZSESSIONMOVED).  Until then   *)
(* they may be executed at any time, in their order.                       *)

ServerHandshake ==
  /\ peer_up
  /\ primer = "asked"
  /\ primer' = "answered"
  /\ IF client_id = 0
       THEN /\ primer_sid' = next_sid /\ session' = next_sid /\ next_sid' = next_sid + 1
            /\ UNCHANGED leftovers
       ELSE /\ primer_sid' = IF session = client_id THEN client_id ELSE 0
            /\ leftovers' = IF session = client_id THEN <<>> ELSE leftovers
            /\ UNCHANGED <<session, next_sid>>
  /\ UNCHANGED <<executed, peer_up, to_server, to_client, skew, handleVars,
                 ioVars, appVars, faults, pings>>

ServerReply ==
  /\ peer_up
  /\ to_server # <<>>
  /\ executed' = Append(executed, Head(to_server))
  /\ to_client' = Append(to_client, [xid |-> Head(to_server), err |-> "ZOK"])
  /\ to_server' = Tail(to_server)
  /\ UNCHANGED <<session, next_sid, leftovers, peer_up, primer, primer_sid, skew,
                 handleVars, ioVars, appVars, faults, pings>>

\* A server executes a request of a connection that is gone; nobody gets the reply.
ServerExecutesLate ==
  /\ leftovers # <<>>
  /\ executed' = Append(executed, Head(leftovers))
  /\ leftovers' = Tail(leftovers)
  /\ UNCHANGED <<session, next_sid, netVars, handleVars, ioVars, appVars, faults, pings>>

\* A faulty server passes over a request, so that the next reply is out of order.
ServerSkips ==
  /\ peer_up
  /\ Len(to_server) > 1
  /\ to_server' = Tail(to_server)
  /\ skew' = TRUE
  /\ Fault
  /\ UNCHANGED <<peer_up, primer, primer_sid, to_client, serverVars, handleVars,
                 ioVars, appVars>>

\* The connection breaks: the replies after the first k are lost.
ConnectionBreaks ==
  /\ peer_up
  /\ peer_up' = FALSE
  /\ \E k \in 0 .. Len(to_client) : to_client' = SubSeq(to_client, 1, k)
  /\ LeaveToServers
  /\ Fault
  /\ UNCHANGED <<primer, primer_sid, skew, session, next_sid, executed, handleVars,
                 ioVars, appVars>>

\* The ensemble gives up the session and drops its connection.
EnsembleExpires ==
  /\ session # 0
  /\ session' = 0
  /\ peer_up' = FALSE
  /\ LeaveToServers
  /\ Fault
  /\ UNCHANGED <<next_sid, executed, primer, primer_sid, to_client, skew, handleVars,
                 ioVars, appVars>>

-----------------------------------------------------------------------------

AppStep(c) ==
  CheckState(c) \/ QueueRequest(c) \/ WakeupIoThread(c) \/ SyncReturn(c)

CompletionStep == DeliverEvent \/ DeliverReply \/ WatcherReturn

zookeeper_interest ==
  \/ InterestWrap \/ InterestConnect \/ InterestConnectFails
  \/ InterestTimeout \/ InterestIdle \/ SendPing \/ InterestSelect

zookeeper_process ==
  \/ ProcessConnected \/ ProcessRefused \/ FlushSendQueue \/ FlushFails
  \/ NothingToFlush \/ ReceiveFails \/ ProcessNothing \/ SessionEstablished \/ SessionExpired
  \/ ReceiveReply \/ ReceiveOutOfOrder

do_io ==
  \/ zookeeper_interest \/ Poll \/ zookeeper_process
  \/ BeginCleanup \/ FreeCompletion \/ EndError

ServerStep == ServerHandshake \/ ServerReply

\* What nothing obliges the network and the servers to do.
NetworkFault == ServerExecutesLate \/ ServerSkips \/ ConnectionBreaks \/ EnsembleExpires

Next ==
  \/ \E c \in Calls : AppStep(c)
  \/ CompletionStep
  \/ do_io
  \/ ServerStep
  \/ NetworkFault

Spec == Init /\ [][Next]_vars

\* The threads of the process are scheduled, the servers answer, and a thread
\* inside a call carries on with it.  Nothing obliges the application to call.
Fairness ==
  /\ WF_vars(do_io)
  /\ WF_vars(CompletionStep)
  /\ WF_vars(ServerStep)
  /\ \A c \in Calls :
       /\ WF_vars(QueueRequest(c)) /\ WF_vars(WakeupIoThread(c)) /\ WF_vars(SyncReturn(c))
       /\ WF_vars(watcher = c /\ CheckState(c))

FairSpec == Spec /\ Fairness

-----------------------------------------------------------------------------
(* Properties.                                                             *)

InList(list, x) == \E i \in DOMAIN list : list[i] = x
AtMostOnce(list, x) == \A i, j \in DOMAIN list : list[i] = x /\ list[j] = x => i = j
XidList(list) == [i \in DOMAIN list |-> list[i].xid]

\* Every variable keeps its type, and a connection attempt only ever uses an
\* address of zh->addrs (zookeeper_interest indexes it with connect_index).
TypeOK ==
  /\ state \in States
  /\ fd \in BOOLEAN
  /\ connect_index \in 0 .. AddrsCount
  /\ (fd \/ io \in {"error", "cleanup"}) => connect_index < AddrsCount
  /\ client_id \in Nat
  /\ to_send \in Seq(Xids)
  /\ sent_requests \in Seq(Xids)
  /\ completions_to_process \in Seq(Completion)
  /\ self_pipe \in BOOLEAN
  /\ io \in {"interest", "ping", "poll", "process", "error", "cleanup", "done"}
  /\ interest_write \in BOOLEAN
  /\ events \subseteq {"READ", "WRITE"}
  /\ tmp_list \in Seq(Xids)
  /\ reason \in RetCodes
  /\ call \in [Calls -> {"idle", "refused", "checked", "queued", "waiting", "returned"}]
  /\ result \in [Calls -> Seq(RetCodes)]
  /\ accepted \in Seq(Calls)
  /\ watcher \in WatcherCalls \union {NoCall}
  /\ seen \in Seq(States)
  /\ peer_up \in BOOLEAN
  /\ primer \in {"none", "asked", "answered", "done"}
  /\ primer_sid \in Nat
  /\ to_server \in Seq(Xids)
  /\ to_client \in Seq(Reply)
  /\ skew \in BOOLEAN
  /\ session \in Nat
  /\ next_sid \in Nat
  /\ leftovers \in Seq(Xids)
  /\ executed \in Seq(Xids)
  /\ faults \in 0 .. MaxFaults
  /\ pings \in 0 .. MaxPings

\* Where a call may be.
Queued(c) == InList(sent_requests, c)
BeingFreed(c) == InList(tmp_list, c)
ReplyQueued(c) == InList(XidList(completions_to_process), c)
Answered(c) == result[c] # <<>>
Accepted(c) == call[c] \in {"queued", "waiting", "returned"}

CallHasOnePlace(c) ==
  /\ Accepted(c) <=> Queued(c) \/ BeingFreed(c) \/ ReplyQueued(c) \/ Answered(c)
  /\ ~(Queued(c) /\ (BeingFreed(c) \/ ReplyQueued(c) \/ Answered(c)))
  /\ ~(BeingFreed(c) /\ (ReplyQueued(c) \/ Answered(c)))
  /\ ~(ReplyQueued(c) /\ Answered(c))
  /\ AtMostOnce(sent_requests, c)
  /\ AtMostOnce(tmp_list, c)
  /\ AtMostOnce(XidList(completions_to_process), c)
  /\ Len(result[c]) <= 1

\* A call the library accepted is in exactly one place: sent_requests, the list
\* free_completions is emptying, completions_to_process, or answered, once.
\* A call it did not accept is nowhere.  So no completion function runs twice,
\* no sync_completion is notified after its caller freed it, and none is lost.
EachCallHasOnePlace == \A c \in Calls : CallHasOnePlace(c)

\* sent_requests lists the requests of the connection in the order in which the
\* server will answer them, so that the reply that arrives next is the reply to
\* its head; zookeeper_process asserts that the list is not empty.
RepliesMatchRequests ==
  /\ to_client # <<>> => sent_requests # <<>>
  /\ ~skew =>
       /\ Len(to_client) <= Len(sent_requests)
       /\ \A i \in DOMAIN to_client : to_client[i].xid = sent_requests[i]
  /\ ~skew /\ (peer_up \/ (~fd /\ io # "error")) => sent_requests = XidList(to_client) \o to_server \o to_send

\* The completions the application was or will be called with, as far as the
\* session events go: those the watcher saw, then those that are queued.
Timeline == [i \in DOMAIN seen |-> SessionEvent(seen[i])] \o completions_to_process
IsEvent(list, i) == list[i].xid = WATCHER_EVENT_XID

\* The last event among the first n completions of a list tells st; a watcher that
\* was not called yet knows the session as CONNECTING.
Told(list, n, st) ==
  \/ \E j \in 1 .. n : /\ IsEvent(list, j) /\ list[j].val = st
                       /\ \A k \in j + 1 .. n : ~IsEvent(list, k)
  \/ st = "CONNECTING" /\ \A j \in 1 .. n : ~IsEvent(list, j)

\* CONNECTED and CONNECTING alternate, and nothing follows EXPIRED_SESSION.
Alternates(list) ==
  \A i \in DOMAIN list : IsEvent(list, i) =>
    \/ list[i].val = "CONNECTED" /\ Told(list, i - 1, "CONNECTING")
    \/ list[i].val = "CONNECTING" /\ Told(list, i - 1, "CONNECTED")
    \/ list[i].val = "EXPIRED_SESSION" /\ Told(list, i - 1, "CONNECTING")

\* The state the watcher is to know: handle_error reports a lost connection.
StateToTell ==
  IF is_unrecoverable THEN "EXPIRED_SESSION"
  ELSE IF state = "CONNECTED" /\ io \notin {"error", "cleanup"} THEN "CONNECTED"
  ELSE "CONNECTING"

\* The events the default watcher has been or will be called with alternate
\* between CONNECTED and CONNECTING, EXPIRED_SESSION comes last, and the last one
\* tells the state of the handle.
SessionEventsTellState ==
  Alternates(Timeline) /\ Told(Timeline, Len(Timeline), StateToTell)

\* Two calls in the order in which they were queued, and a list that holds its
\* calls in that order.
AcceptedBefore(c, d) ==
  \E p, q \in DOMAIN accepted : p < q /\ accepted[p] = c /\ accepted[q] = d
InOrder(list) ==
  \A i, j \in DOMAIN list :
     i < j /\ list[i] \in Calls /\ list[j] \in Calls => AcceptedBefore(list[i], list[j])

\* The ensemble executes requests in the order in which they were queued, over all
\* connections and also when it executes them late, each at most once, and none that
\* the API refused; a result that comes from a server belongs to a request the
\* ensemble executed.
ExecutedInOrder ==
  /\ InOrder(executed)
  /\ \A c \in Calls :
       /\ InList(executed, c) => InList(accepted, c)
       /\ Answered(c) /\ result[c][1] = "ZOK" => InList(executed, c)

\* A request is sent only while its call waits in sent_requests: once the call was
\* answered, or is being answered with a failure, nothing of the request is left that
\* could be sent on a later connection.  A failed request may have been executed, or
\* be executed later by the server that has it, but the client never doubles it.
NotSentAgain ==
  [][\A c \in Calls : InList(to_server', c) => InList(to_server, c) \/ Queued(c)]_vars

\* The IO thread never sleeps in poll on an established session with packets to
\* send and nothing to wake it, unless a thread is about to write to the pipe.
NoLostWakeup ==
  (io = "poll" /\ state = "CONNECTED" /\ to_send # <<>>) =>
     interest_write \/ self_pipe \/ \E c \in Calls : call[c] = "queued"

\* The session implements the promise of ZkCalls: every accepted call gets at
\* most one result, and asynchronous calls get theirs in the order of acceptance.
AbstractStatus ==
  [c \in Calls |-> CASE call[c] = "refused" -> "refused"
                     [] call[c] \in {"idle", "checked"} -> "new"
                     [] OTHER -> "accepted"]

Promise == INSTANCE ZkCalls WITH status <- AbstractStatus

ImplementsCalls == Promise!Spec

\* A request that was queued is answered, or a request was queued after the IO
\* thread had ended: see EveryRequestAnswered.
RequestsAnswered ==
  \A c \in Calls : call[c] = "queued" ~>
     Answered(c) \/ (io = "done" /\ \E d \in Calls : Queued(d))

\* When failures stop, the client is connected for good, whichever server it
\* was connected to, or the session has ended.
SessionSettles == <>[](state = "CONNECTED" \/ io = "done")

\* Every request that the API accepted is answered: its completion function is
\* "invoked at the end of a asynchronous call and also as a result of connection
\* loss or timeout" (zookeeper.h), its synchronous caller returns.
EveryRequestAnswered == \A c \in Calls : call[c] = "queued" ~> Answered(c)
=============================================================================
