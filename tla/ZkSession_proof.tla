-------------------------- MODULE ZkSession_proof --------------------------
(***************************************************************************)
(* Proofs about ZkSession, for every set of calls, every number of servers *)
(* and any number of failures and pings: a call has one place; the replies *)
(* of a connection meet their requests, requests are executed in the order *)
(* of the API calls, and sent no more after their answer; the session      *)
(* implements the promise of ZkCalls; wakeups and session events are not   *)
(* lost.                                                                   *)
(***************************************************************************)
EXTENDS ZkSession, SequenceTheorems, TLAPS

-----------------------------------------------------------------------------
(* Sequences, as the queues of the handle use them.                        *)

\* What is in a list after an entry was queued at its end, and that an entry that
\* was not there is there once.
LEMMA AppendFacts ==
  ASSUME NEW S, NEW list \in Seq(S), NEW e \in S
  PROVE  /\ Append(list, e) \in Seq(S)
         /\ \A x : InList(Append(list, e), x) <=> InList(list, x) \/ x = e
         /\ \A x : AtMostOnce(list, x) /\ (x = e => ~InList(list, x))
                     => AtMostOnce(Append(list, e), x)
<1>1. /\ Append(list, e) \in Seq(S)
      /\ Len(Append(list, e)) = Len(list) + 1
      /\ DOMAIN Append(list, e) = 1 .. Len(list) + 1
      /\ \A i \in 1 .. Len(list) : Append(list, e)[i] = list[i]
      /\ Append(list, e)[Len(list) + 1] = e
  OBVIOUS
<1>2. DOMAIN list = 1 .. Len(list) /\ Len(list) \in Nat
  OBVIOUS
<1>3. \A i : i \in 1 .. Len(list) + 1 <=> i \in 1 .. Len(list) \/ i = Len(list) + 1
  BY <1>2
<1>4. ASSUME NEW x
      PROVE  InList(Append(list, e), x) <=> InList(list, x) \/ x = e
  BY <1>1, <1>2, <1>3 DEF InList
<1>5. ASSUME NEW x, AtMostOnce(list, x), x = e => ~InList(list, x)
      PROVE  AtMostOnce(Append(list, e), x)
  BY <1>1, <1>2, <1>3, <1>5 DEF InList, AtMostOnce
<1> QED
  BY <1>1, <1>4, <1>5

\* What is in a list whose head was taken, and that an entry that was there once
\* is gone with the head.
LEMMA TailFacts ==
  ASSUME NEW S, NEW list \in Seq(S), list # <<>>
  PROVE  /\ Head(list) \in S
         /\ Tail(list) \in Seq(S)
         /\ \A x : InList(list, x) <=> InList(Tail(list), x) \/ x = Head(list)
         /\ \A x : AtMostOnce(list, x) => /\ AtMostOnce(Tail(list), x)
                                          /\ x = Head(list) => ~InList(Tail(list), x)
<1>1. /\ Head(list) \in S
      /\ Tail(list) \in Seq(S)
      /\ Len(list) \in Nat /\ Len(list) > 0
      /\ DOMAIN list = 1 .. Len(list)
      /\ DOMAIN Tail(list) = 1 .. Len(list) - 1
      /\ \A i \in 1 .. Len(list) - 1 : Tail(list)[i] = list[i + 1]
      /\ Head(list) = list[1]
  OBVIOUS
<1>2. \A i \in 1 .. Len(list) : i = 1 \/ i - 1 \in 1 .. Len(list) - 1
  BY <1>1
<1>3. \A i \in 1 .. Len(list) - 1 : i + 1 \in 1 .. Len(list) /\ i + 1 # 1
  BY <1>1
<1>4. \A i \in 1 .. Len(list) : i # 1 => list[i] = Tail(list)[i - 1]
  BY <1>1, <1>2
<1>5. ASSUME NEW x
      PROVE  InList(list, x) <=> InList(Tail(list), x) \/ x = Head(list)
  <2>1. ASSUME InList(list, x) PROVE InList(Tail(list), x) \/ x = Head(list)
    BY <1>1, <1>2, <1>4, <2>1 DEF InList
  <2>2. ASSUME InList(Tail(list), x) PROVE InList(list, x)
    BY <1>1, <1>3, <2>2 DEF InList
  <2>3. ASSUME x = Head(list) PROVE InList(list, x)
    BY <1>1, <2>3 DEF InList
  <2> QED
    BY <2>1, <2>2, <2>3
<1>6. ASSUME NEW x, AtMostOnce(list, x)
      PROVE  /\ AtMostOnce(Tail(list), x)
             /\ x = Head(list) => ~InList(Tail(list), x)
  <2>1. ASSUME NEW i \in 1 .. Len(list) - 1, NEW j \in 1 .. Len(list) - 1,
               Tail(list)[i] = x, Tail(list)[j] = x
        PROVE  i = j
    BY <1>1, <1>3, <1>6, <2>1 DEF AtMostOnce
  <2>2. ASSUME x = Head(list), NEW i \in 1 .. Len(list) - 1, Tail(list)[i] = x
        PROVE  FALSE
    BY <1>1, <1>3, <1>6, <2>2 DEF AtMostOnce
  <2> QED
    BY <1>1, <2>1, <2>2 DEF AtMostOnce, InList
<1> QED
  BY <1>1, <1>5, <1>6

\* Taking the head of a list and putting it back at the front changes nothing.
LEMMA PutBackFacts ==
  ASSUME NEW S, NEW list \in Seq(S), list # <<>>
  PROVE  queue_completion(Tail(list), Head(list), TRUE) = list
  BY DEF queue_completion

\* The xids of a list of completions follow the list.
LEMMA XidListFacts ==
  ASSUME NEW list \in Seq(Completion)
  PROVE  /\ XidList(list) \in Seq(Calls \union {WATCHER_EVENT_XID})
         /\ \A e \in Completion : XidList(Append(list, e)) = Append(XidList(list), e.xid)
         /\ list # <<>> => /\ XidList(list) # <<>>
                           /\ XidList(Tail(list)) = Tail(XidList(list))
                           /\ Head(XidList(list)) = Head(list).xid
<1>1. \A e \in Completion : e.xid \in Calls \union {WATCHER_EVENT_XID}
  BY DEF Completion
<1>2. XidList(list) \in Seq(Calls \union {WATCHER_EVENT_XID}) /\ Len(XidList(list)) = Len(list)
  BY <1>1 DEF XidList
<1>3. ASSUME NEW e \in Completion
      PROVE  XidList(Append(list, e)) = Append(XidList(list), e.xid)
  BY <1>1, <1>2 DEF XidList
<1>4. ASSUME list # <<>>
      PROVE  /\ XidList(list) # <<>>
             /\ XidList(Tail(list)) = Tail(XidList(list))
             /\ Head(XidList(list)) = Head(list).xid
  BY <1>1, <1>2, <1>4 DEF XidList
<1> QED
  BY <1>2, <1>3, <1>4

-----------------------------------------------------------------------------
(* Type correctness.  poll reports events of the socket only while there   *)
(* is one, which bounds connect_index when zookeeper_process fails a       *)
(* connection, and handle_error has closed it.                             *)

IoThreadInv ==
  /\ events # {} => fd
  /\ io \in {"error", "cleanup"} => ~fd
  /\ io = "ping" => pings < MaxPings
TypeInv == TypeOK /\ IoThreadInv

\* Faults and pings stay within their bounds.
LEMMA FaultType ==
  ASSUME TypeOK, Fault
  PROVE  faults' \in 0 .. MaxFaults /\ pings' \in 0 .. MaxPings
  BY BoundsAssumption DEF TypeOK, Fault

USE DEF vars, handleVars, ioVars, appVars, netVars, serverVars

\* Servers keep requests, of those that were on their way.
LEMMA LeftType ==
  ASSUME TypeInv, LeaveToServers
  PROVE  leftovers' \in Seq(Xids) /\ to_server' \in Seq(Xids)
<1>1. PICK k \in 0 .. (IF peer_up THEN Len(to_server) ELSE 0) :
               leftovers' = leftovers \o SubSeq(to_server, 1, k)
  BY DEF LeaveToServers
<1>2. k \in 0 .. Len(to_server) /\ to_server \in Seq(Xids) /\ leftovers \in Seq(Xids)
  BY <1>1 DEF TypeInv, TypeOK
<1>3. SubSeq(to_server, 1, k) \in Seq(Xids)
  BY <1>2
<1>4. to_server' \in Seq(Xids)
  BY DEF LeaveToServers
<1> QED
  BY <1>1, <1>2, <1>3, <1>4

\* handle_error keeps the types, whatever made it start.
LEMMA BeginErrorType ==
  ASSUME TypeInv, NEW st \in States, NEW rc \in RetCodes, NEW requests \in Seq(Xids),
         BeginError(st, rc, requests),
         connect_index < AddrsCount,
         faults' \in 0 .. MaxFaults, pings' \in 0 .. MaxPings
  PROVE  TypeInv'
<1>1. leftovers' \in Seq(Xids) /\ to_server' \in Seq(Xids)
  BY LeftType DEF BeginError, CloseConnection
<1>2. completions_to_process' \in Seq(Completion)
  <2>1. SessionEvent(st) \in Completion /\ SessionEvent("CONNECTING") \in Completion
    BY DEF SessionEvent, Completion, States
  <2> QED
    BY <2>1, AppendFacts DEF TypeInv, TypeOK, BeginError, ErrorEvent, queue_completion
<1>3. /\ primer' \in {"none", "asked", "answered", "done"}
      /\ primer_sid' \in Nat /\ to_client' \in Seq(Reply)
      /\ session' \in Nat /\ next_sid' \in Nat /\ executed' \in Seq(Xids)
  BY DEF TypeInv, TypeOK, BeginError, CloseConnection
<1>4. /\ to_send' \in Seq(Xids) /\ sent_requests' \in Seq(Xids) /\ tmp_list' \in Seq(Xids)
      /\ state' \in States /\ reason' \in RetCodes
      /\ io' = "error" /\ events' = {}
      /\ UNCHANGED <<connect_index, client_id, self_pipe, appVars>>
  BY DEF BeginError, TypeInv, TypeOK
<1>5. /\ fd' \in BOOLEAN /\ ~fd' /\ peer_up' \in BOOLEAN /\ skew' \in BOOLEAN
      /\ interest_write' \in BOOLEAN
  BY Zenon DEF BeginError, CloseConnection
<1> QED
  BY <1>1, <1>2, <1>3, <1>4, <1>5 DEF TypeInv, TypeOK, IoThreadInv

\* Each step keeps the types.
LEMMA TypeStep ==
  ASSUME TypeInv, [Next]_vars
  PROVE  TypeInv'
<1> USE CallsAssumption, BoundsAssumption
<1>1. ASSUME NEW c \in Calls, CheckState(c) PROVE TypeInv'
  BY <1>1 DEF CheckState, TypeInv, TypeOK, IoThreadInv
<1>2. ASSUME NEW c \in Calls, QueueRequest(c) PROVE TypeInv'
  BY <1>2, AppendFacts DEF QueueRequest, queue_completion, queue_buffer_bytes, Xids,
     TypeInv, TypeOK, IoThreadInv
<1>3. ASSUME NEW c \in Calls, WakeupIoThread(c) PROVE TypeInv'
  BY <1>3 DEF WakeupIoThread, TypeInv, TypeOK, IoThreadInv
<1>4. ASSUME NEW c \in Calls, SyncReturn(c) PROVE TypeInv'
  BY <1>4 DEF SyncReturn, TypeInv, TypeOK, IoThreadInv
<1>5. CASE DeliverEvent
  <2>1. Head(completions_to_process) \in Completion /\ Tail(completions_to_process) \in Seq(Completion)
    BY <1>5, TailFacts DEF DeliverEvent, TypeInv, TypeOK
  <2>2. Head(completions_to_process).val \in States
    BY <1>5, <2>1 DEF DeliverEvent, Completion
  <2>3. seen' \in Seq(States)
    BY <1>5, <2>2, AppendFacts DEF DeliverEvent, TypeInv, TypeOK
  <2> QED
    BY <1>5, <2>1, <2>3 DEF DeliverEvent, TypeInv, TypeOK, IoThreadInv
<1>6. CASE DeliverReply
  <2>1. Head(completions_to_process) \in Completion /\ Tail(completions_to_process) \in Seq(Completion)
    BY <1>6, TailFacts DEF DeliverReply, TypeInv, TypeOK
  <2> DEFINE cptr == Head(completions_to_process)
  <2>2. cptr.xid \in Calls /\ cptr.val \in RetCodes
    BY <1>6, <2>1 DEF DeliverReply, Completion
  <2>3. Append(result[cptr.xid], cptr.val) \in Seq(RetCodes)
    BY <2>2 DEF TypeInv, TypeOK
  <2>4. result' \in [Calls -> Seq(RetCodes)]
    BY <1>6, <2>2, <2>3 DEF DeliverReply, TypeInv, TypeOK
  <2> QED
    BY <1>6, <2>1, <2>4, SMTT(30) DEF DeliverReply, TypeInv, TypeOK, IoThreadInv
<1>7. CASE WatcherReturn
  BY <1>7 DEF WatcherReturn, TypeInv, TypeOK, IoThreadInv
<1>8. CASE InterestWrap
  <2>1. interest_write' \in BOOLEAN /\ ~fd /\ fd' = fd
    BY <1>8, Zenon DEF InterestWrap
  <2>2. /\ connect_index' = 0 /\ io' = "poll"
        /\ UNCHANGED <<state, client_id, to_send, sent_requests, completions_to_process,
                       self_pipe, events, tmp_list, reason, appVars, netVars, serverVars,
                       faults, pings>>
    BY <1>8 DEF InterestWrap
  <2> QED
    BY <2>1, <2>2 DEF TypeInv, TypeOK, IoThreadInv
<1>9. CASE InterestConnect
  <2>1. fd' \in BOOLEAN /\ fd' /\ peer_up' \in BOOLEAN /\ interest_write' \in BOOLEAN
    BY <1>9, Zenon DEF InterestConnect
  <2>2. /\ state' \in States /\ primer' \in {"none", "asked"} /\ io' = "poll"
        /\ UNCHANGED <<connect_index, client_id, to_send, sent_requests,
                       completions_to_process, self_pipe, events, tmp_list, reason,
                       appVars, primer_sid, to_server, to_client, skew, serverVars,
                       faults, pings>>
    BY <1>9 DEF InterestConnect, States
  <2>3. connect_index < AddrsCount
    BY <1>9 DEF InterestConnect, AllServersTried, TypeInv, TypeOK
  <2> QED
    BY <2>1, <2>2, <2>3 DEF TypeInv, TypeOK, IoThreadInv
<1>10. CASE InterestConnectFails
  <2>1. connect_index < AddrsCount
    BY <1>10 DEF InterestConnectFails, AllServersTried, TypeInv, TypeOK
  <2>2. PICK rc \in {"ZSYSTEMERROR", "ZCONNECTIONLOSS"} : BeginError(state, rc, sent_requests)
    BY <1>10 DEF InterestConnectFails
  <2>3. rc \in RetCodes /\ Fault /\ TypeOK
    BY <1>10 DEF InterestConnectFails, RetCodes, TypeInv
  <2> QED
    BY <2>1, <2>2, <2>3, FaultType, BeginErrorType DEF TypeOK
<1>11. CASE InterestTimeout
  <2>1. connect_index < AddrsCount /\ Fault /\ TypeOK /\ "ZOPERATIONTIMEOUT" \in RetCodes
    BY <1>11 DEF InterestTimeout, RetCodes, TypeInv, TypeOK
  <2> QED
    BY <1>11, <2>1, FaultType, BeginErrorType DEF InterestTimeout, TypeOK
<1>12. CASE InterestIdle
  BY <1>12 DEF InterestIdle, TypeInv, TypeOK, IoThreadInv
<1>13. CASE SendPing
  <2>1. self_pipe' \in BOOLEAN /\ interest_write' \in BOOLEAN
    BY <1>13, Zenon DEF SendPing
  <2>2. /\ io' = "poll"
        /\ UNCHANGED <<state, fd, connect_index, client_id, completions_to_process,
                       events, tmp_list, reason, appVars, netVars, serverVars, faults>>
    BY <1>13 DEF SendPing
  <2>3. sent_requests' \in Seq(Xids) /\ to_send' \in Seq(Xids)
    BY <1>13, AppendFacts DEF SendPing, queue_completion, queue_buffer_bytes, Xids, TypeInv, TypeOK
  <2>4. pings' \in 0 .. MaxPings
    BY <1>13 DEF SendPing, TypeInv, TypeOK, IoThreadInv
  <2> QED
    BY <2>1, <2>2, <2>3, <2>4 DEF TypeInv, TypeOK, IoThreadInv
<1>14. CASE InterestSelect
  BY <1>14 DEF InterestSelect, WriteInterest, TypeInv, TypeOK, IoThreadInv
<1>15. CASE Poll
  BY <1>15 DEF Poll, Readable, Writable, TypeInv, TypeOK, IoThreadInv
<1>16. CASE ProcessConnected
  BY <1>16 DEF ProcessConnected, Loop, States, TypeInv, TypeOK, IoThreadInv
<1>17. CASE ProcessRefused
  <2>1. connect_index < AddrsCount /\ TypeOK /\ "ZCONNECTIONLOSS" \in RetCodes
    BY <1>17 DEF ProcessRefused, RetCodes, TypeInv, TypeOK, IoThreadInv
  <2>2. faults' \in 0 .. MaxFaults /\ pings' \in 0 .. MaxPings
    BY <1>17, <2>1, FaultType DEF ProcessRefused, TypeOK
  <2> QED
    BY <1>17, <2>1, <2>2, BeginErrorType DEF ProcessRefused, TypeOK
<1>18. CASE FlushSendQueue
  <2>1. PICK k \in 1 .. Len(to_send) :
          /\ to_server' = to_server \o SubSeq(to_send, 1, k)
          /\ to_send' = SubSeq(to_send, k + 1, Len(to_send))
    BY <1>18 DEF FlushSendQueue, Unsent
  <2>2. to_server' \in Seq(Xids) /\ to_send' \in Seq(Xids)
    <3>1. to_send \in Seq(Xids) /\ to_server \in Seq(Xids)
      BY DEF TypeInv, TypeOK
    <3>2. SubSeq(to_send, 1, k) \in Seq(Xids) /\ SubSeq(to_send, k + 1, Len(to_send)) \in Seq(Xids)
      BY <3>1
    <3> QED
      BY <2>1, <3>1, <3>2
  <2> QED
    BY <1>18, <2>2 DEF FlushSendQueue, TypeInv, TypeOK, IoThreadInv
<1>19. CASE FlushFails \/ ReceiveFails
  <2>1. connect_index < AddrsCount /\ "ZCONNECTIONLOSS" \in RetCodes
    BY <1>19 DEF FlushFails, ReceiveFails, RetCodes, TypeInv, TypeOK, IoThreadInv
  <2>2. faults' \in 0 .. MaxFaults /\ pings' \in 0 .. MaxPings
    BY <1>19 DEF FlushFails, ReceiveFails, TypeInv, TypeOK
  <2> QED
    BY <1>19, <2>1, <2>2, BeginErrorType DEF FlushFails, ReceiveFails, TypeInv, TypeOK
<1>20. CASE ProcessNothing
  BY <1>20 DEF ProcessNothing, Loop, TypeInv, TypeOK, IoThreadInv
<1>n. CASE NothingToFlush
  BY <1>n DEF NothingToFlush, TypeInv, TypeOK, IoThreadInv
<1>21. CASE SessionEstablished
  <2>1. SessionEvent("CONNECTED") \in Completion
    BY DEF SessionEvent, Completion, States
  <2>2. completions_to_process' \in Seq(Completion)
    BY <1>21, <2>1, AppendFacts DEF SessionEstablished, queue_completion, TypeInv, TypeOK
  <2> QED
    BY <1>21, <2>2 DEF SessionEstablished, Loop, States, TypeInv, TypeOK, IoThreadInv
<1>22. CASE SessionExpired
  <2>1. connect_index < AddrsCount /\ "ZSESSIONEXPIRED" \in RetCodes /\ "EXPIRED_SESSION" \in States
    BY <1>22 DEF SessionExpired, RetCodes, States, TypeInv, TypeOK, IoThreadInv
  <2> QED
    BY <1>22, <2>1, BeginErrorType DEF SessionExpired, TypeInv, TypeOK
<1>23. CASE ReceiveReply
  <2> DEFINE hdr == Head(to_client)
             cptr == Head(sent_requests)
  <2>1. /\ hdr \in Reply /\ Tail(to_client) \in Seq(Reply)
        /\ cptr \in Xids /\ Tail(sent_requests) \in Seq(Xids)
    BY <1>23, TailFacts DEF ReceiveReply, TypeInv, TypeOK
  <2>2. hdr.err \in RetCodes
    BY <2>1 DEF Reply
  <2>3. result' \in [Calls -> Seq(RetCodes)]
    <3>1. cptr \in SyncCalls => Append(result[cptr], hdr.err) \in Seq(RetCodes)
      BY <2>2 DEF TypeInv, TypeOK
    <3> QED
      BY <1>23, <3>1 DEF ReceiveReply, SyncResult, AsyncReply, TypeInv, TypeOK
  <2>4. completions_to_process' \in Seq(Completion)
    <3>1. cptr # PING_XID => [xid |-> cptr, val |-> hdr.err] \in Completion
      BY <2>1, <2>2 DEF Completion, Xids
    <3> QED
      BY <1>23, <3>1, AppendFacts DEF ReceiveReply, SyncResult, AsyncReply, queue_completion, TypeInv, TypeOK
  <2> QED
    BY <1>23, <2>1, <2>3, <2>4 DEF ReceiveReply, Loop, TypeInv, TypeOK, IoThreadInv
<1>24. CASE ReceiveOutOfOrder
  <2>1. connect_index < AddrsCount /\ "ZRUNTIMEINCONSISTENCY" \in RetCodes
    BY <1>24 DEF ReceiveOutOfOrder, RetCodes, TypeInv, TypeOK, IoThreadInv
  <2>2. queue_completion(Tail(sent_requests), Head(sent_requests), TRUE) = sent_requests
    BY <1>24, PutBackFacts DEF ReceiveOutOfOrder, TypeInv, TypeOK
  <2> QED
    BY <1>24, <2>1, <2>2, BeginErrorType DEF ReceiveOutOfOrder, TypeInv, TypeOK
<1>25. CASE FreeCompletion
  <2> DEFINE cptr == Head(tmp_list)
  <2>1. cptr \in Xids /\ Tail(tmp_list) \in Seq(Xids) /\ reason \in RetCodes
    BY <1>25, TailFacts DEF FreeCompletion, TypeInv, TypeOK
  <2>2. result' \in [Calls -> Seq(RetCodes)]
    <3>1. cptr \in SyncCalls => Append(result[cptr], reason) \in Seq(RetCodes)
      BY <2>1 DEF TypeInv, TypeOK
    <3> QED
      BY <1>25, <3>1 DEF FreeCompletion, SyncResult, AsyncReply, TypeInv, TypeOK
  <2>3. completions_to_process' \in Seq(Completion)
    <3>1. cptr # PING_XID => [xid |-> cptr, val |-> reason] \in Completion
      BY <2>1 DEF Completion, Xids
    <3> QED
      BY <1>25, <3>1, AppendFacts DEF FreeCompletion, SyncResult, AsyncReply, queue_completion,
         TypeInv, TypeOK
  <2> QED
    BY <1>25, <2>1, <2>2, <2>3 DEF FreeCompletion, TypeInv, TypeOK, IoThreadInv
<1>26. CASE EndError
  BY <1>26, SMTT(20) DEF EndError, is_unrecoverable, States, RetCodes, TypeInv, TypeOK, IoThreadInv
<1>27. CASE ServerHandshake
  <2>1. primer' \in {"none", "asked", "answered", "done"}
    BY <1>27 DEF ServerHandshake
  <2>2. primer_sid' \in Nat /\ session' \in Nat /\ next_sid' \in Nat
    BY <1>27, SMTT(30) DEF ServerHandshake, TypeInv, TypeOK
  <2>3. UNCHANGED <<executed, peer_up, to_server, to_client, skew, handleVars,
                    ioVars, appVars, faults, pings>>
    BY <1>27 DEF ServerHandshake
  <2>4. leftovers' \in Seq(Xids)
    <3>1. leftovers' = <<>> \/ leftovers' = leftovers
      BY <1>27 DEF ServerHandshake
    <3>2. <<>> \in Seq(Xids) /\ leftovers \in Seq(Xids)
      BY DEF TypeInv, TypeOK
    <3> QED
      BY <3>1, <3>2
  <2> QED
    BY <2>1, <2>2, <2>3, <2>4 DEF TypeInv, TypeOK, IoThreadInv
<1>28. CASE ServerReply
  <2>1. Head(to_server) \in Xids /\ Tail(to_server) \in Seq(Xids)
    BY <1>28, TailFacts DEF ServerReply, TypeInv, TypeOK
  <2>2. [xid |-> Head(to_server), err |-> "ZOK"] \in Reply
    BY <2>1 DEF Reply, RetCodes
  <2>3. executed' \in Seq(Xids) /\ to_client' \in Seq(Reply)
    BY <1>28, <2>1, <2>2, AppendFacts DEF ServerReply, TypeInv, TypeOK
  <2> QED
    BY <1>28, <2>1, <2>3 DEF ServerReply, TypeInv, TypeOK, IoThreadInv
<1>29. CASE ServerSkips
  <2>1. to_server # <<>>
    BY <1>29 DEF ServerSkips, TypeInv, TypeOK
  <2> QED
    BY <1>29, <2>1, TailFacts DEF ServerSkips, Fault, TypeInv, TypeOK, IoThreadInv
<1>30. CASE ConnectionBreaks
  <2>1. to_client' \in Seq(Reply)
    BY <1>30 DEF ConnectionBreaks, TypeInv, TypeOK
  <2>2. peer_up' \in BOOLEAN
    BY <1>30, Zenon DEF ConnectionBreaks
  <2>3. UNCHANGED <<primer, primer_sid, skew, session, next_sid, executed, handleVars, ioVars,
                    appVars>>
    BY <1>30 DEF ConnectionBreaks
  <2>4. faults' \in 0 .. MaxFaults /\ pings' = pings
    BY <1>30, FaultType DEF ConnectionBreaks, Fault, TypeInv
  <2>5. leftovers' \in Seq(Xids) /\ to_server' \in Seq(Xids)
    BY <1>30, LeftType DEF ConnectionBreaks
  <2> QED
    BY <2>1, <2>2, <2>3, <2>4, <2>5 DEF TypeInv, TypeOK, IoThreadInv
<1>31. CASE EnsembleExpires
  <2>1. peer_up' \in BOOLEAN
    BY <1>31, Zenon DEF EnsembleExpires
  <2>2. /\ session' = 0
        /\ UNCHANGED <<next_sid, executed, primer, primer_sid, to_client, skew,
                       handleVars, ioVars, appVars>>
    BY <1>31 DEF EnsembleExpires
  <2>3. faults' \in 0 .. MaxFaults /\ pings' = pings
    BY <1>31, FaultType DEF EnsembleExpires, Fault, TypeInv
  <2>4. leftovers' \in Seq(Xids) /\ to_server' \in Seq(Xids)
    BY <1>31, LeftType DEF EnsembleExpires
  <2> QED
    BY <2>1, <2>2, <2>3, <2>4 DEF TypeInv, TypeOK, IoThreadInv
<1>32. CASE BeginCleanup
  <2>1. /\ to_send' \in Seq(Xids) /\ sent_requests' \in Seq(Xids) /\ tmp_list' \in Seq(Xids)
        /\ io = "error" /\ io' = "cleanup"
    BY <1>32 DEF BeginCleanup, FreeToSend, DetachedRequests, TypeInv, TypeOK
  <2> QED
    BY <1>32, <2>1 DEF BeginCleanup, TypeInv, TypeOK, IoThreadInv
<1>33. CASE ServerExecutesLate
  <2>1. executed' \in Seq(Xids) /\ leftovers' \in Seq(Xids)
    BY <1>33, TailFacts, AppendFacts DEF ServerExecutesLate, TypeInv, TypeOK
  <2> QED
    BY <1>33, <2>1 DEF ServerExecutesLate, TypeInv, TypeOK, IoThreadInv
<1>34. CASE UNCHANGED vars
  BY <1>34 DEF TypeInv, TypeOK, IoThreadInv
<1> QED
  BY <1>1, <1>2, <1>3, <1>4, <1>5, <1>6, <1>7, <1>8, <1>9, <1>10, <1>11, <1>12, <1>13,
     <1>14, <1>15, <1>16, <1>17, <1>18, <1>19, <1>20, <1>n, <1>21, <1>22, <1>23, <1>24, <1>25,
     <1>26, <1>27, <1>28, <1>29, <1>30, <1>31, <1>32, <1>33, <1>34
  DEF Next, AppStep, CompletionStep, do_io, zookeeper_interest, zookeeper_process,
      ServerStep, NetworkFault

\* The initial states have the types.
LEMMA TypeInit ==
  ASSUME Init
  PROVE  TypeInv
<1>1. /\ fd \in BOOLEAN /\ self_pipe \in BOOLEAN /\ interest_write \in BOOLEAN
      /\ peer_up \in BOOLEAN /\ skew \in BOOLEAN /\ ~fd
  BY Zenon DEF Init, InitHandle, InitEnvironment
<1>2. /\ state \in States /\ connect_index = 0 /\ client_id \in Nat
      /\ to_send \in Seq(Xids) /\ sent_requests \in Seq(Xids)
      /\ completions_to_process \in Seq(Completion)
      /\ io = "interest" /\ events = {} /\ tmp_list \in Seq(Xids) /\ reason \in RetCodes
  BY DEF Init, InitHandle, States, RetCodes
<1>3. /\ call = [c \in Calls |-> "idle"]
      /\ result \in [Calls -> Seq(RetCodes)]
      /\ accepted \in Seq(Calls) /\ watcher = NoCall /\ seen \in Seq(States)
      /\ primer = "none" /\ primer_sid = 0 /\ to_server \in Seq(Xids)
      /\ to_client \in Seq(Reply) /\ session \in Nat /\ next_sid = 2
      /\ leftovers \in Seq(Xids) /\ executed \in Seq(Xids) /\ faults = 0 /\ pings = 0
  BY <1>2 DEF Init, InitEnvironment
<1> QED
  BY <1>1, <1>2, <1>3, BoundsAssumption DEF TypeInv, TypeOK, IoThreadInv

\* Type correctness of the session, for every set of calls, every number of
\* servers and any bound on failures and pings.
THEOREM TypeCorrect == Spec => []TypeOK
<1>1. Init => TypeInv
  BY TypeInit
<1>2. TypeInv /\ [Next]_vars => TypeInv'
  BY TypeStep
<1>3. TypeInv => TypeOK
  BY DEF TypeInv
<1> QED
  BY <1>1, <1>2, <1>3, PTL DEF Spec

-----------------------------------------------------------------------------
(* Every accepted call is in one place.  The invariant is inductive with   *)
(* the types, and with the fact that free_completions leaves nothing in    *)
(* tmp_list: the next error overwrites it.                                 *)

NothingLeftBehind == io # "cleanup" => tmp_list = <<>>
PlaceInv == TypeInv /\ NothingLeftBehind /\ EachCallHasOnePlace

\* Queueing a session event concerns no call.
LEMMA EventQueued ==
  ASSUME NEW list \in Seq(Completion), NEW st \in States, NEW c \in Calls
  PROVE  LET new == Append(list, SessionEvent(st))
         IN /\ InList(XidList(new), c) <=> InList(XidList(list), c)
            /\ AtMostOnce(XidList(list), c) => AtMostOnce(XidList(new), c)
<1>1. /\ SessionEvent(st) \in Completion
      /\ SessionEvent(st).xid = WATCHER_EVENT_XID
      /\ WATCHER_EVENT_XID \in Calls \union {WATCHER_EVENT_XID}
      /\ c # WATCHER_EVENT_XID
  BY CallsAssumption DEF SessionEvent, Completion
<1>2. /\ XidList(list) \in Seq(Calls \union {WATCHER_EVENT_XID})
      /\ XidList(Append(list, SessionEvent(st))) = Append(XidList(list), WATCHER_EVENT_XID)
  BY <1>1, XidListFacts
<1> QED
  BY <1>1, <1>2, AppendFacts

\* A step that touches no list, no result and no acceptance keeps every call
\* where it is.
LEMMA PlacesKept ==
  ASSUME EachCallHasOnePlace,
         UNCHANGED <<sent_requests, tmp_list, completions_to_process, result>>,
         \A c \in Calls : Accepted(c)' <=> Accepted(c)
  PROVE  EachCallHasOnePlace'
<1> SUFFICES ASSUME NEW c \in Calls PROVE CallHasOnePlace(c)'
  BY DEF EachCallHasOnePlace
<1>1. CallHasOnePlace(c) /\ (Accepted(c)' <=> Accepted(c))
  BY DEF EachCallHasOnePlace
<1> QED
  BY <1>1 DEF CallHasOnePlace, Queued, BeingFreed, ReplyQueued, Answered

\* Handing out a result, from a server or for a failure: a call that is not being
\* answered yet is answered, or its reply is queued, and the others keep theirs.
HandsOut(x, rc) ==
  /\ result' = IF x \in SyncCalls THEN [result EXCEPT ![x] = Append(@, rc)] ELSE result
  /\ completions_to_process' =
       IF x \in SyncCalls \/ x = PING_XID
         THEN completions_to_process
         ELSE queue_completion(completions_to_process, [xid |-> x, val |-> rc], FALSE)

LEMMA HandOut ==
  ASSUME TypeInv, NEW x \in Xids, NEW rc \in RetCodes, HandsOut(x, rc), NEW c \in Calls,
         AtMostOnce(XidList(completions_to_process), c), Len(result[c]) <= 1,
         c = x => ~ReplyQueued(c) /\ ~Answered(c)
  PROVE  /\ c # x => (ReplyQueued(c)' <=> ReplyQueued(c)) /\ (Answered(c)' <=> Answered(c))
         /\ c = x => (ReplyQueued(c)' <=> ~Answered(c)')
         /\ AtMostOnce(XidList(completions_to_process), c)'
         /\ Len(result[c])' <= 1
<1> DEFINE list == completions_to_process
           S == Calls \union {WATCHER_EVENT_XID}
           e == [xid |-> x, val |-> rc]
<1>1. list \in Seq(Completion) /\ result \in [Calls -> Seq(RetCodes)]
  BY DEF TypeInv, TypeOK
<1>2. XidList(list) \in Seq(S)
  BY <1>1, XidListFacts
<1>3. CASE x \in SyncCalls
  <2>1. list' = list /\ result' = [result EXCEPT ![x] = Append(result[x], rc)] /\ x \in Calls
    BY <1>3, CallsAssumption DEF HandsOut
  <2>2. result'[c] = IF c = x THEN Append(result[x], rc) ELSE result[c]
    BY <1>1, <2>1
  <2>3. ReplyQueued(c)' <=> ReplyQueued(c)
    BY <2>1 DEF ReplyQueued
  <2>4. CASE c = x
    <3>1. result[c] = <<>>
      BY <2>4 DEF Answered
    <3>2. result'[c] # <<>> /\ Len(result'[c]) = 1
      BY <1>1, <2>2, <2>4, <3>1
    <3> QED
      BY <2>1, <2>3, <2>4, <3>2 DEF Answered
  <2>5. CASE c # x
    BY <2>1, <2>2, <2>3, <2>5 DEF Answered
  <2> QED
    BY <2>4, <2>5
<1>4. CASE x = PING_XID
  <2>1. c # x /\ x \notin SyncCalls
    BY <1>4, CallsAssumption
  <2>2. list' = list /\ result' = result
    BY <1>4, <2>1 DEF HandsOut
  <2> QED
    BY <2>1, <2>2 DEF ReplyQueued, Answered
<1>5. CASE x \notin SyncCalls /\ x # PING_XID
  <2>1. list' = Append(list, e) /\ result' = result /\ x \in S
    BY <1>5 DEF HandsOut, queue_completion, Xids
  <2>2. e \in Completion /\ e.xid = x
    BY <1>5 DEF Completion, Xids
  <2>3. XidList(list') = Append(XidList(list), x)
    BY <1>1, <2>1, <2>2, XidListFacts
  <2>4. /\ InList(Append(XidList(list), x), c) <=> InList(XidList(list), c) \/ c = x
        /\ AtMostOnce(Append(XidList(list), x), c)
    <3> HIDE DEF list, S
    <3>1. AtMostOnce(XidList(list), c) /\ (c = x => ~InList(XidList(list), c))
      BY DEF ReplyQueued, list
    <3> QED
      BY <1>2, <2>1, <3>1, AppendFacts
  <2>5. (ReplyQueued(c)' <=> ReplyQueued(c) \/ c = x) /\ AtMostOnce(XidList(list'), c)
    BY <2>3, <2>4 DEF ReplyQueued
  <2>6. Answered(c)' <=> Answered(c)
    BY <2>1 DEF Answered
  <2> QED
    BY <2>1, <2>5, <2>6
<1> QED
  BY <1>3, <1>4, <1>5

\* A session event that is queued, or none, leaves every call where it is.
LEMMA EventPlace ==
  ASSUME PlaceInv, NEW st \in States,
         \/ completions_to_process' = completions_to_process
         \/ completions_to_process' = Append(completions_to_process, SessionEvent(st)),
         UNCHANGED <<sent_requests, tmp_list, result, call>>
  PROVE  EachCallHasOnePlace'
<1> SUFFICES ASSUME NEW c \in Calls PROVE CallHasOnePlace(c)'
  BY DEF EachCallHasOnePlace
<1>1. CallHasOnePlace(c) /\ completions_to_process \in Seq(Completion)
  BY DEF PlaceInv, EachCallHasOnePlace, TypeInv, TypeOK
<1>2. /\ ReplyQueued(c)' <=> ReplyQueued(c)
      /\ AtMostOnce(XidList(completions_to_process), c)'
  <2>1. CASE completions_to_process' = completions_to_process
    BY <1>1, <2>1 DEF ReplyQueued, CallHasOnePlace
  <2>2. CASE completions_to_process' = Append(completions_to_process, SessionEvent(st))
    BY <1>1, <2>2, EventQueued DEF ReplyQueued, CallHasOnePlace
  <2> QED
    BY <2>1, <2>2
<1>3. /\ BeingFreed(c)' <=> BeingFreed(c)
      /\ Queued(c)' <=> Queued(c)
      /\ Answered(c)' <=> Answered(c)
      /\ Accepted(c)' <=> Accepted(c)
  BY DEF BeingFreed, Queued, Answered, Accepted
<1>4. AtMostOnce(tmp_list, c)' /\ AtMostOnce(sent_requests, c)' /\ Len(result[c])' <= 1
  BY <1>1 DEF CallHasOnePlace
<1> QED
  BY <1>1, <1>2, <1>3, <1>4 DEF CallHasOnePlace

\* handle_error tells the watcher, and no call gets lost.
LEMMA BeginErrorPlace ==
  ASSUME PlaceInv, NEW st \in States, NEW rc, BeginError(st, rc, sent_requests)
  PROVE  EachCallHasOnePlace'
<1>1. "EXPIRED_SESSION" \in States /\ "CONNECTING" \in States
  BY DEF States
<1>2. \E x \in States : \/ completions_to_process' = completions_to_process
                      \/ completions_to_process' = Append(completions_to_process, SessionEvent(x))
  BY <1>1 DEF BeginError, ErrorEvent, queue_completion
<1>3. UNCHANGED <<sent_requests, tmp_list, result, call>>
  BY DEF BeginError
<1> QED
  BY <1>2, <1>3, EventPlace

\* cleanup_bufs moves the requests of the connection to the list being freed.
LEMMA BeginCleanupPlace ==
  ASSUME PlaceInv, BeginCleanup
  PROVE  EachCallHasOnePlace'
<1> SUFFICES ASSUME NEW c \in Calls PROVE CallHasOnePlace(c)'
  BY DEF EachCallHasOnePlace
<1>1. CallHasOnePlace(c) /\ tmp_list = <<>>
  BY DEF PlaceInv, EachCallHasOnePlace, NothingLeftBehind, BeginCleanup
<1>2. /\ sent_requests' = <<>> /\ tmp_list' = sent_requests
      /\ UNCHANGED <<call, result, completions_to_process>>
  BY DEF BeginCleanup, DetachedRequests
<1>3. ~BeingFreed(c) /\ ~Queued(c)' /\ (BeingFreed(c)' <=> Queued(c))
  BY <1>1, <1>2 DEF BeingFreed, Queued, InList
<1>4. AtMostOnce(sent_requests, c)' /\ AtMostOnce(tmp_list, c)'
  BY <1>1, <1>2 DEF AtMostOnce, CallHasOnePlace
<1>5. /\ Answered(c)' <=> Answered(c)
      /\ Accepted(c)' <=> Accepted(c)
      /\ ReplyQueued(c)' <=> ReplyQueued(c)
  BY <1>2 DEF Answered, Accepted, ReplyQueued
<1>6. AtMostOnce(XidList(completions_to_process), c)' /\ Len(result[c])' <= 1
  BY <1>1, <1>2 DEF CallHasOnePlace
<1> QED
  BY <1>1, <1>3, <1>4, <1>5, <1>6 DEF CallHasOnePlace

\* Each step keeps every call in one place.
LEMMA PlaceStep ==
  ASSUME PlaceInv, [Next]_vars
  PROVE  EachCallHasOnePlace' /\ NothingLeftBehind'
<1> USE CallsAssumption
<1>0. /\ TypeInv /\ EachCallHasOnePlace /\ NothingLeftBehind
      /\ sent_requests \in Seq(Xids) /\ tmp_list \in Seq(Xids)
      /\ completions_to_process \in Seq(Completion)
      /\ call \in [Calls -> {"idle", "refused", "checked", "queued", "waiting", "returned"}]
      /\ result \in [Calls -> Seq(RetCodes)] /\ reason \in RetCodes /\ state \in States
  BY DEF PlaceInv, TypeInv, TypeOK
<1>1. CASE UNCHANGED <<sent_requests, tmp_list, completions_to_process, result, call>>
           /\ (io # "cleanup" => io' # "cleanup")
           /\ (io = "cleanup" => io' = "cleanup" \/ tmp_list = <<>>)
  <2>1. \A c \in Calls : Accepted(c)' <=> Accepted(c)
    BY <1>1 DEF Accepted
  <2> QED
    BY <1>0, <1>1, <2>1, PlacesKept DEF NothingLeftBehind
<1>2. ASSUME NEW d \in Calls, CheckState(d) \/ WakeupIoThread(d) \/ SyncReturn(d)
      PROVE  EachCallHasOnePlace' /\ NothingLeftBehind'
  <2>1. UNCHANGED <<sent_requests, tmp_list, completions_to_process, result, io>>
    BY <1>2 DEF CheckState, WakeupIoThread, SyncReturn
  <2>2. \A c \in Calls : Accepted(c)' <=> Accepted(c)
    BY <1>0, <1>2 DEF CheckState, WakeupIoThread, SyncReturn, Accepted
  <2> QED
    BY <1>0, <2>1, <2>2, PlacesKept DEF NothingLeftBehind
<1>3. ASSUME NEW d \in Calls, QueueRequest(d)
      PROVE  EachCallHasOnePlace' /\ NothingLeftBehind'
  <2>1. /\ sent_requests' = Append(sent_requests, d) /\ d \in Xids
        /\ UNCHANGED <<tmp_list, completions_to_process, result, io>>
    BY <1>3 DEF QueueRequest, queue_completion, Xids
  <2>2. ASSUME NEW c \in Calls PROVE CallHasOnePlace(c)'
    <3>1. CallHasOnePlace(c)
      BY <1>0 DEF EachCallHasOnePlace
    <3>2. Accepted(c)' <=> Accepted(c) \/ c = d
      BY <1>0, <1>3 DEF QueueRequest, Accepted
    <3>3. c = d => ~Accepted(c)
      BY <1>3 DEF QueueRequest, Accepted
    <3>4. /\ Queued(c)' <=> Queued(c) \/ c = d
          /\ AtMostOnce(sent_requests, c)'
      BY <1>0, <2>1, <3>1, <3>3, AppendFacts DEF Queued, CallHasOnePlace
    <3>5. /\ BeingFreed(c)' <=> BeingFreed(c)
          /\ ReplyQueued(c)' <=> ReplyQueued(c)
          /\ Answered(c)' <=> Answered(c)
      BY <2>1 DEF BeingFreed, ReplyQueued, Answered
    <3>6. /\ AtMostOnce(tmp_list, c)'
          /\ AtMostOnce(XidList(completions_to_process), c)'
          /\ Len(result[c])' <= 1
      BY <2>1, <3>1 DEF CallHasOnePlace
    <3> QED
      BY <3>1, <3>2, <3>3, <3>4, <3>5, <3>6 DEF CallHasOnePlace
  <2> QED
    BY <1>0, <2>1, <2>2 DEF EachCallHasOnePlace, NothingLeftBehind
<1>4. CASE DeliverEvent
  <2>1. /\ completions_to_process # <<>>
        /\ completions_to_process' = Tail(completions_to_process)
        /\ Head(completions_to_process).xid = WATCHER_EVENT_XID
        /\ UNCHANGED <<sent_requests, tmp_list, result, call, io>>
    BY <1>4 DEF DeliverEvent
  <2>2. ASSUME NEW c \in Calls PROVE CallHasOnePlace(c)'
    <3>1. CallHasOnePlace(c)
      BY <1>0 DEF EachCallHasOnePlace
    <3>2. /\ ReplyQueued(c)' <=> ReplyQueued(c)
          /\ AtMostOnce(XidList(completions_to_process), c)'
      <4>1. LET xids == XidList(completions_to_process)
            IN /\ xids \in Seq(Calls \union {WATCHER_EVENT_XID}) /\ xids # <<>>
               /\ Head(xids) # c
               /\ XidList(completions_to_process') = Tail(xids)
        BY <1>0, <2>1, XidListFacts
      <4> QED
        BY <3>1, <4>1, TailFacts DEF ReplyQueued, CallHasOnePlace
    <3>3. /\ BeingFreed(c)' <=> BeingFreed(c)
          /\ Queued(c)' <=> Queued(c)
          /\ Answered(c)' <=> Answered(c)
          /\ Accepted(c)' <=> Accepted(c)
      BY <2>1 DEF BeingFreed, Queued, Answered, Accepted
    <3>4. AtMostOnce(tmp_list, c)' /\ AtMostOnce(sent_requests, c)' /\ Len(result[c])' <= 1
      BY <2>1, <3>1 DEF CallHasOnePlace
    <3> QED
      BY <3>1, <3>2, <3>3, <3>4 DEF CallHasOnePlace
  <2> QED
    BY <1>0, <2>1, <2>2 DEF EachCallHasOnePlace, NothingLeftBehind
<1>5. CASE DeliverReply
  <2> DEFINE cptr == Head(completions_to_process)
             xids == XidList(completions_to_process)
  <2>1. /\ completions_to_process # <<>>
        /\ completions_to_process' = Tail(completions_to_process)
        /\ cptr.xid \in Calls
        /\ result' = [result EXCEPT ![cptr.xid] = Append(result[cptr.xid], cptr.val)]
        /\ UNCHANGED <<sent_requests, tmp_list, call, io>>
    BY <1>5 DEF DeliverReply
  <2>2. cptr.val \in RetCodes
    <3>1. cptr \in Completion
      BY <1>0, <2>1, TailFacts
    <3> QED
      BY <2>1, <3>1 DEF Completion
  <2>3. /\ xids \in Seq(Calls \union {WATCHER_EVENT_XID}) /\ xids # <<>>
        /\ Head(xids) = cptr.xid
        /\ XidList(completions_to_process') = Tail(xids)
    BY <1>0, <2>1, XidListFacts
  <2>4. ASSUME NEW c \in Calls PROVE CallHasOnePlace(c)'
    <3>1. CallHasOnePlace(c)
      BY <1>0 DEF EachCallHasOnePlace
    <3>2. /\ ReplyQueued(c) <=> ReplyQueued(c)' \/ c = cptr.xid
          /\ AtMostOnce(XidList(completions_to_process), c)'
          /\ c = cptr.xid => ~ReplyQueued(c)'
      BY <2>3, <3>1, TailFacts DEF ReplyQueued, CallHasOnePlace
    <3>3. /\ Answered(c)' <=> Answered(c) \/ c = cptr.xid
          /\ Len(result[c])' <= 1
      <4>1. CASE c = cptr.xid
        <5>1. result[c] = <<>>
          BY <3>1, <3>2, <4>1 DEF CallHasOnePlace, Answered
        <5>2. result'[c] = Append(result[c], cptr.val)
          BY <1>0, <2>1, <4>1
        <5>3. result'[c] # <<>> /\ Len(result'[c]) = 1
          BY <1>0, <2>2, <5>1, <5>2
        <5> QED
          BY <4>1, <5>3 DEF Answered
      <4>2. CASE c # cptr.xid
        <5>1. result'[c] = result[c]
          BY <1>0, <2>1, <4>2
        <5> QED
          BY <3>1, <4>2, <5>1 DEF Answered, CallHasOnePlace
      <4> QED
        BY <4>1, <4>2
    <3>4. /\ BeingFreed(c)' <=> BeingFreed(c)
          /\ Queued(c)' <=> Queued(c)
          /\ Accepted(c)' <=> Accepted(c)
      BY <2>1 DEF BeingFreed, Queued, Accepted
    <3>5. AtMostOnce(tmp_list, c)' /\ AtMostOnce(sent_requests, c)'
      BY <2>1, <3>1 DEF CallHasOnePlace
    <3> QED
      BY <3>1, <3>2, <3>3, <3>4, <3>5 DEF CallHasOnePlace
  <2> QED
    BY <1>0, <2>1, <2>4 DEF EachCallHasOnePlace, NothingLeftBehind
<1>6. ASSUME NEW st \in States, NEW rc, BeginError(st, rc, sent_requests), io # "cleanup"
      PROVE  EachCallHasOnePlace' /\ NothingLeftBehind'
  <2>1. tmp_list' = <<>>
    BY <1>0, <1>6 DEF NothingLeftBehind, BeginError
  <2> QED
    BY <1>6, <2>1, BeginErrorPlace DEF NothingLeftBehind
<1>7. CASE InterestConnectFails
  BY <1>0, <1>6, <1>7 DEF InterestConnectFails
<1>8. CASE InterestTimeout
  BY <1>0, <1>6, <1>8 DEF InterestTimeout
<1>9. CASE ProcessRefused \/ FlushFails \/ ReceiveFails
  BY <1>0, <1>6, <1>9 DEF ProcessRefused, FlushFails, ReceiveFails
<1>10. CASE SessionExpired
  <2>1. "EXPIRED_SESSION" \in States
    BY DEF States
  <2> QED
    BY <1>6, <1>10, <2>1 DEF SessionExpired
<1>11. CASE ReceiveOutOfOrder
  <2>1. queue_completion(Tail(sent_requests), Head(sent_requests), TRUE) = sent_requests
    BY <1>0, <1>11, PutBackFacts DEF ReceiveOutOfOrder
  <2> QED
    BY <1>0, <1>6, <1>11, <2>1 DEF ReceiveOutOfOrder
<1>12. CASE SessionEstablished
  <2>1. /\ completions_to_process' = Append(completions_to_process, SessionEvent("CONNECTED"))
        /\ UNCHANGED <<sent_requests, tmp_list, result, call>>
        /\ io = "process" /\ "CONNECTED" \in States
    BY <1>12 DEF SessionEstablished, Loop, queue_completion, States
  <2> QED
    BY <1>0, <2>1, EventPlace DEF NothingLeftBehind
<1>13. CASE ReceiveReply
  <2> DEFINE x == Head(sent_requests)
             rc == Head(to_client).err
  <2>1. /\ HandsOut(x, rc)
        /\ sent_requests # <<>> /\ sent_requests' = Tail(sent_requests)
        /\ UNCHANGED <<tmp_list, call>> /\ io = "process"
    BY <1>13 DEF ReceiveReply, SyncResult, AsyncReply, HandsOut, Loop
  <2>2. x \in Xids /\ rc \in RetCodes
    <3>1. Head(to_client) \in Reply
      BY <1>0, <1>13, TailFacts DEF ReceiveReply, TypeInv, TypeOK
    <3> QED
      BY <1>0, <2>1, <3>1, TailFacts DEF Reply
  <2>3. ASSUME NEW c \in Calls PROVE CallHasOnePlace(c)'
    <3>1. CallHasOnePlace(c)
      BY <1>0 DEF EachCallHasOnePlace
    <3>2. /\ Queued(c) <=> Queued(c)' \/ c = x
          /\ c = x => ~Queued(c)'
          /\ AtMostOnce(sent_requests, c)'
      BY <1>0, <2>1, <3>1, TailFacts DEF Queued, CallHasOnePlace
    <3>3. c = x => ~ReplyQueued(c) /\ ~Answered(c) /\ ~BeingFreed(c) /\ Accepted(c)
      BY <3>1, <3>2 DEF CallHasOnePlace
    <3>4. /\ c # x => (ReplyQueued(c)' <=> ReplyQueued(c)) /\ (Answered(c)' <=> Answered(c))
          /\ c = x => (ReplyQueued(c)' <=> ~Answered(c)')
          /\ AtMostOnce(XidList(completions_to_process), c)'
          /\ Len(result[c])' <= 1
      BY <1>0, <2>1, <2>2, <3>1, <3>3, HandOut DEF CallHasOnePlace
    <3>5. (BeingFreed(c)' <=> BeingFreed(c)) /\ (Accepted(c)' <=> Accepted(c))
      BY <2>1 DEF BeingFreed, Accepted
    <3>6. AtMostOnce(tmp_list, c)'
      BY <2>1, <3>1 DEF CallHasOnePlace
    <3> QED
      BY <3>1, <3>2, <3>3, <3>4, <3>5, <3>6 DEF CallHasOnePlace
  <2> QED
    BY <1>0, <2>1, <2>3 DEF EachCallHasOnePlace, NothingLeftBehind
<1>14. CASE FreeCompletion
  <2> DEFINE x == Head(tmp_list)
  <2>1. /\ HandsOut(x, reason)
        /\ tmp_list # <<>> /\ tmp_list' = Tail(tmp_list)
        /\ UNCHANGED <<sent_requests, call>> /\ io = "cleanup" /\ io' = "cleanup"
    BY <1>14 DEF FreeCompletion, SyncResult, AsyncReply, HandsOut
  <2>2. x \in Xids
    BY <1>0, <2>1, TailFacts
  <2>3. ASSUME NEW c \in Calls PROVE CallHasOnePlace(c)'
    <3>1. CallHasOnePlace(c)
      BY <1>0 DEF EachCallHasOnePlace
    <3>2. /\ BeingFreed(c) <=> BeingFreed(c)' \/ c = x
          /\ c = x => ~BeingFreed(c)'
          /\ AtMostOnce(tmp_list, c)'
      BY <1>0, <2>1, <3>1, TailFacts DEF BeingFreed, CallHasOnePlace
    <3>3. c = x => ~ReplyQueued(c) /\ ~Answered(c) /\ ~Queued(c) /\ Accepted(c)
      BY <3>1, <3>2 DEF CallHasOnePlace
    <3>4. /\ c # x => (ReplyQueued(c)' <=> ReplyQueued(c)) /\ (Answered(c)' <=> Answered(c))
          /\ c = x => (ReplyQueued(c)' <=> ~Answered(c)')
          /\ AtMostOnce(XidList(completions_to_process), c)'
          /\ Len(result[c])' <= 1
      BY <1>0, <2>1, <2>2, <3>1, <3>3, HandOut DEF CallHasOnePlace
    <3>5. (Queued(c)' <=> Queued(c)) /\ (Accepted(c)' <=> Accepted(c))
      BY <2>1 DEF Queued, Accepted
    <3>6. AtMostOnce(sent_requests, c)'
      BY <2>1, <3>1 DEF CallHasOnePlace
    <3> QED
      BY <3>1, <3>2, <3>3, <3>4, <3>5, <3>6 DEF CallHasOnePlace
  <2> QED
    BY <1>0, <2>1, <2>3 DEF EachCallHasOnePlace, NothingLeftBehind
<1>15. CASE SendPing
  <2>1. /\ sent_requests' = Append(sent_requests, PING_XID)
        /\ UNCHANGED <<tmp_list, completions_to_process, result, call>>
        /\ io = "ping" /\ PING_XID \in Xids
    BY <1>15 DEF SendPing, queue_completion, Xids
  <2>2. ASSUME NEW c \in Calls PROVE CallHasOnePlace(c)'
    <3>1. CallHasOnePlace(c)
      BY <1>0 DEF EachCallHasOnePlace
    <3>2. (Queued(c)' <=> Queued(c)) /\ AtMostOnce(sent_requests, c)'
      BY <1>0, <2>1, <3>1, AppendFacts DEF Queued, CallHasOnePlace
    <3>3. /\ BeingFreed(c)' <=> BeingFreed(c)
          /\ ReplyQueued(c)' <=> ReplyQueued(c)
          /\ Answered(c)' <=> Answered(c)
          /\ Accepted(c)' <=> Accepted(c)
      BY <2>1 DEF BeingFreed, ReplyQueued, Answered, Accepted
    <3>4. /\ AtMostOnce(tmp_list, c)'
          /\ AtMostOnce(XidList(completions_to_process), c)'
          /\ Len(result[c])' <= 1
      BY <2>1, <3>1 DEF CallHasOnePlace
    <3> QED
      BY <3>1, <3>2, <3>3, <3>4 DEF CallHasOnePlace
  <2> QED
    BY <1>0, <2>1, <2>2 DEF EachCallHasOnePlace, NothingLeftBehind
<1>16. CASE WatcherReturn \/ ServerStep \/ NetworkFault
  BY <1>1, <1>16 DEF WatcherReturn, ServerStep, ServerHandshake, ServerReply, NetworkFault,
     ServerExecutesLate, ServerSkips, ConnectionBreaks, EnsembleExpires
<1>17. CASE InterestWrap \/ InterestConnect \/ InterestIdle \/ InterestSelect \/ Poll
  BY <1>1, <1>17 DEF InterestWrap, InterestConnect, InterestIdle, InterestSelect, Poll
<1>18. CASE ProcessConnected \/ FlushSendQueue \/ NothingToFlush \/ ProcessNothing
  BY <1>1, <1>18 DEF ProcessConnected, FlushSendQueue, NothingToFlush, ProcessNothing, Loop
<1>19. CASE EndError
  BY <1>1, <1>19 DEF EndError
<1>20. CASE BeginCleanup
  BY <1>20, BeginCleanupPlace DEF BeginCleanup, NothingLeftBehind
<1>21. CASE UNCHANGED vars
  BY <1>1, <1>21
<1> QED
  BY <1>2, <1>3, <1>4, <1>5, <1>7, <1>8, <1>9, <1>10, <1>11, <1>12, <1>13, <1>14, <1>15,
     <1>16, <1>17, <1>18, <1>19, <1>20, <1>21
  DEF Next, AppStep, CompletionStep, do_io, zookeeper_interest, zookeeper_process

\* For every set of calls and whatever fails: a call the library accepted is in
\* exactly one of its lists or answered, once, and is neither lost nor answered twice
\* by free_completions, zookeeper_process and process_completions together.
THEOREM OnePlace == Spec => []EachCallHasOnePlace
<1>1. ASSUME Init PROVE PlaceInv
  <2>1. TypeInv
    BY <1>1, TypeInit
  <2>2. EachCallHasOnePlace /\ NothingLeftBehind
    BY <1>1 DEF Init, InitHandle, InitEnvironment, NothingLeftBehind, EachCallHasOnePlace,
       CallHasOnePlace, Accepted, Queued, BeingFreed, ReplyQueued, Answered, InList,
       AtMostOnce, XidList
  <2> QED
    BY <2>1, <2>2 DEF PlaceInv
<1>2. PlaceInv /\ [Next]_vars => PlaceInv'
  BY TypeStep, PlaceStep DEF PlaceInv
<1>3. PlaceInv => EachCallHasOnePlace
  BY DEF PlaceInv
<1> QED
  BY <1>1, <1>2, <1>3, PTL DEF Spec

-----------------------------------------------------------------------------
(* Concatenated lists.                                                     *)

\* Three lists of requests, one after the other.
LEMMA ThreeLists == \A a, b, c \in Seq(Xids) : (a \o b) \o c = a \o (b \o c)
BY ConcatAssociative

\* What is in two lists one after the other, and at which index.
LEMMA ConcatFacts ==
  ASSUME NEW S, NEW s \in Seq(S), NEW t \in Seq(S)
  PROVE  /\ s \o t \in Seq(S)
         /\ Len(s \o t) = Len(s) + Len(t)
         /\ \A i \in DOMAIN s : i \in DOMAIN (s \o t) /\ (s \o t)[i] = s[i]
         /\ \A i \in DOMAIN t : Len(s) + i \in DOMAIN (s \o t) /\ (s \o t)[Len(s) + i] = t[i]
         /\ \A i \in DOMAIN (s \o t) : i \notin DOMAIN s => i - Len(s) \in DOMAIN t
         /\ \A x : InList(s \o t, x) <=> InList(s, x) \/ InList(t, x)
<1>1. /\ s \o t \in Seq(S)
      /\ Len(s) \in Nat /\ Len(t) \in Nat
      /\ Len(s \o t) = Len(s) + Len(t)
      /\ DOMAIN s = 1 .. Len(s) /\ DOMAIN t = 1 .. Len(t)
      /\ DOMAIN (s \o t) = 1 .. Len(s) + Len(t)
  OBVIOUS
<1>2. \A i \in DOMAIN s : i \in DOMAIN (s \o t) /\ (s \o t)[i] = s[i]
  BY <1>1
<1>3. \A i \in DOMAIN t : Len(s) + i \in DOMAIN (s \o t) /\ (s \o t)[Len(s) + i] = t[i]
  BY <1>1
<1>4. \A i \in DOMAIN (s \o t) : i \notin DOMAIN s => i - Len(s) \in DOMAIN t
  BY <1>1
<1>5. ASSUME NEW x
      PROVE  InList(s \o t, x) <=> InList(s, x) \/ InList(t, x)
  <2>1. ASSUME InList(s \o t, x) PROVE InList(s, x) \/ InList(t, x)
    <3>1. PICK i \in DOMAIN (s \o t) : (s \o t)[i] = x
      BY <2>1 DEF InList
    <3>2. CASE i \in DOMAIN s
      BY <1>2, <3>1, <3>2 DEF InList
    <3>3. CASE i \notin DOMAIN s
      <4>1. i - Len(s) \in DOMAIN t /\ Len(s) + (i - Len(s)) = i
        BY <1>1, <1>4, <3>3
      <4> QED
        BY <1>3, <3>1, <4>1 DEF InList
    <3> QED
      BY <3>2, <3>3
  <2>2. ASSUME InList(s, x) PROVE InList(s \o t, x)
    BY <1>2, <2>2 DEF InList
  <2>3. ASSUME InList(t, x) PROVE InList(s \o t, x)
    BY <1>3, <2>3 DEF InList
  <2> QED
    BY <2>1, <2>2, <2>3
<1> QED
  BY <1>1, <1>2, <1>3, <1>4, <1>5

\* Queueing at the end of the second list, and taking the head of the first.
LEMMA ConcatQueue ==
  ASSUME NEW S, NEW s \in Seq(S), NEW t \in Seq(S)
  PROVE  /\ \A e \in S : s \o Append(t, e) = Append(s \o t, e)
         /\ s # <<>> => /\ s \o t # <<>>
                        /\ Head(s \o t) = Head(s)
                        /\ Tail(s \o t) = Tail(s) \o t
         /\ t # <<>> => Append(s, Head(t)) \o Tail(t) = s \o t
<1>1. ASSUME NEW e \in S PROVE s \o Append(t, e) = Append(s \o t, e)
  OBVIOUS
<1>2. ASSUME s # <<>>
      PROVE  /\ s \o t # <<>>
             /\ Head(s \o t) = Head(s)
             /\ Tail(s \o t) = Tail(s) \o t
  BY <1>2
<1>3. ASSUME t # <<>> PROVE Append(s, Head(t)) \o Tail(t) = s \o t
  BY <1>3
<1> QED
  BY <1>1, <1>2, <1>3

\* A list is its first k entries followed by the others.
LEMMA Split ==
  ASSUME NEW S, NEW s \in Seq(S), NEW k \in 0 .. Len(s)
  PROVE  /\ SubSeq(s, 1, k) \in Seq(S) /\ SubSeq(s, k + 1, Len(s)) \in Seq(S)
         /\ Len(SubSeq(s, 1, k)) = k
         /\ \A i \in 1 .. k : SubSeq(s, 1, k)[i] = s[i]
         /\ Len(SubSeq(s, k + 1, Len(s))) = Len(s) - k
         /\ SubSeq(s, 1, k) \o SubSeq(s, k + 1, Len(s)) = s
<1> DEFINE a == SubSeq(s, 1, k)
           b == SubSeq(s, k + 1, Len(s))
<1>1. /\ a \in Seq(S) /\ Len(a) = k
      /\ \A i \in 1 .. k : a[i] = s[i]
  OBVIOUS
<1>2. /\ b \in Seq(S) /\ Len(b) = Len(s) - k
      /\ \A i \in 1 .. Len(s) - k : b[i] = s[k + i]
  OBVIOUS
<1>3. a \o b = s
  <2>1. 1 \in 1 .. Len(s) + 1 /\ k \in 1 - 1 .. Len(s) /\ Len(s) \in k .. Len(s)
    OBVIOUS
  <2>2. a \o b = SubSeq(s, 1, Len(s))
    BY <2>1, ConcatAdjacentSubSeq
  <2>3. SubSeq(s, 1, Len(s)) = s
    OBVIOUS
  <2> QED
    BY <2>2, <2>3, Zenon
<1> QED
  BY <1>1, <1>2, <1>3

\* The xids of the replies on their way follow the replies.
LEMMA ReplyXids ==
  ASSUME NEW list \in Seq(Reply)
  PROVE  /\ XidList(list) \in Seq(Xids) /\ Len(XidList(list)) = Len(list)
         /\ DOMAIN XidList(list) = DOMAIN list
         /\ \A i \in DOMAIN list : XidList(list)[i] = list[i].xid
         /\ \A e \in Reply : XidList(Append(list, e)) = Append(XidList(list), e.xid)
         /\ list # <<>> => /\ XidList(list) # <<>>
                           /\ XidList(Tail(list)) = Tail(XidList(list))
                           /\ Head(XidList(list)) = Head(list).xid
<1>1. \A e \in Reply : e.xid \in Xids
  BY DEF Reply
<1>2. /\ XidList(list) \in Seq(Xids) /\ Len(XidList(list)) = Len(list)
      /\ DOMAIN XidList(list) = DOMAIN list
      /\ \A i \in DOMAIN list : XidList(list)[i] = list[i].xid
  BY <1>1 DEF XidList
<1>3. ASSUME NEW e \in Reply
      PROVE  XidList(Append(list, e)) = Append(XidList(list), e.xid)
  BY <1>1, <1>2 DEF XidList
<1>4. ASSUME list # <<>>
      PROVE  /\ XidList(list) # <<>>
             /\ XidList(Tail(list)) = Tail(XidList(list))
             /\ Head(XidList(list)) = Head(list).xid
  BY <1>1, <1>2, <1>4 DEF XidList
<1> QED
  BY <1>2, <1>3, <1>4

-----------------------------------------------------------------------------
(* The replies of a connection meet their requests.  Inductive with the    *)
(* fact that there is no server end without a socket and nothing on its    *)
(* way, and that no more is on its way than sent_requests lists, also      *)
(* after the server has passed over a request.                             *)

USE DEF vars, handleVars, ioVars, appVars, netVars, serverVars

OnTheWay == Len(to_client) + Len(to_server) + Len(to_send)
LinkInv ==
  /\ ~fd => ~peer_up /\ to_client = <<>> /\ to_server = <<>>
  /\ OnTheWay <= Len(sent_requests)
  /\ RepliesMatchRequests

\* A request or a ping is queued in sent_requests and in to_send at once.
LEMMA LinkQueue ==
  ASSUME TypeInv, LinkInv, NEW e \in Xids,
         sent_requests' = Append(sent_requests, e), to_send' = Append(to_send, e),
         UNCHANGED <<fd, peer_up, skew, to_client, to_server>>,
         io' = "error" <=> io = "error"
  PROVE  LinkInv'
<1>1. /\ to_client \in Seq(Reply) /\ to_server \in Seq(Xids) /\ to_send \in Seq(Xids)
      /\ sent_requests \in Seq(Xids)
  BY DEF TypeInv, TypeOK
<1>2. XidList(to_client) \o to_server \in Seq(Xids) /\ XidList(to_client) \in Seq(Xids)
  BY <1>1, ReplyXids, ConcatFacts
<1>3. sent_requests' # <<>> /\ Len(sent_requests') = Len(sent_requests) + 1
      /\ Len(to_send') = Len(to_send) + 1
      /\ \A i \in 1 .. Len(sent_requests) : sent_requests'[i] = sent_requests[i]
  BY <1>1
<1>4. (XidList(to_client) \o to_server) \o Append(to_send, e)
        = Append((XidList(to_client) \o to_server) \o to_send, e)
  <2> DEFINE both == XidList(to_client) \o to_server
  <2>1. both \in Seq(Xids)
    BY <1>2
  <2> HIDE DEF both
  <2>2. both \o Append(to_send, e) = Append(both \o to_send, e)
    BY ONLY <1>1, <2>1, e \in Xids, ConcatQueue
  <2> QED
    BY <2>2 DEF both
<1>5. ~skew => /\ Len(to_client) <= Len(sent_requests')
               /\ \A i \in DOMAIN to_client : to_client[i].xid = sent_requests'[i]
  BY <1>1, <1>3 DEF LinkInv, RepliesMatchRequests
<1>6. ~skew /\ (peer_up \/ (~fd /\ io # "error")) =>
        sent_requests' = (XidList(to_client) \o to_server) \o Append(to_send, e)
  BY <1>4 DEF LinkInv, RepliesMatchRequests
<1>7. OnTheWay' <= Len(sent_requests')
  BY <1>1, <1>3 DEF LinkInv, OnTheWay
<1> QED
  BY <1>3, <1>5, <1>6, <1>7 DEF LinkInv, RepliesMatchRequests

\* Each step keeps it.
LEMMA LinkStep ==
  ASSUME TypeInv, LinkInv, [Next]_vars
  PROVE  LinkInv'
<1> USE CallsAssumption
<1>0. /\ to_client \in Seq(Reply) /\ to_server \in Seq(Xids) /\ to_send \in Seq(Xids)
      /\ sent_requests \in Seq(Xids) /\ IoThreadInv
      /\ XidList(to_client) \in Seq(Xids) /\ Len(XidList(to_client)) = Len(to_client)
      /\ XidList(to_client) \o to_server \in Seq(Xids)
  BY ReplyXids, ConcatFacts DEF TypeInv, TypeOK
<1>a. /\ Len(to_client) \in Nat /\ Len(to_server) \in Nat /\ Len(to_send) \in Nat
      /\ Len(sent_requests) \in Nat
  BY <1>0
<1>1. CASE /\ UNCHANGED <<fd, peer_up, skew, to_client, to_server, to_send, sent_requests>>
           /\ io' = "error" <=> io = "error"
  BY <1>1 DEF LinkInv, RepliesMatchRequests, OnTheWay
<1>2. ASSUME NEW d \in Calls, QueueRequest(d) PROVE LinkInv'
  BY <1>2, LinkQueue DEF QueueRequest, queue_completion, queue_buffer_bytes, Xids
<1>3. CASE SendPing
  BY <1>3, LinkQueue DEF SendPing, queue_completion, queue_buffer_bytes, Xids
<1>4. ASSUME NEW st, NEW rc, BeginError(st, rc, sent_requests) PROVE LinkInv'
  <2>1. /\ to_client' = <<>> /\ to_server' = <<>> /\ UNCHANGED <<to_send, sent_requests>>
        /\ ~peer_up' /\ ~fd' /\ io' = "error"
    BY <1>4 DEF BeginError, CloseConnection, LeaveToServers
  <2>2. OnTheWay' = Len(to_send) /\ DOMAIN to_client' = {} /\ Len(to_client') = 0
    BY <1>0, <2>1 DEF OnTheWay
  <2>3. Len(to_send) <= Len(sent_requests)
    BY <1>a DEF LinkInv, OnTheWay
  <2> QED
    BY <1>a, <2>1, <2>2, <2>3 DEF LinkInv, RepliesMatchRequests
<1>5. CASE InterestConnectFails \/ InterestTimeout \/ ProcessRefused \/ FlushFails
           \/ ReceiveFails \/ SessionExpired
  BY <1>4, <1>5 DEF InterestConnectFails, InterestTimeout, ProcessRefused, FlushFails,
     ReceiveFails, SessionExpired
<1>s. CASE ReceiveOutOfOrder
  <2>1. queue_completion(Tail(sent_requests), Head(sent_requests), TRUE) = sent_requests
    BY <1>0, <1>s, PutBackFacts DEF ReceiveOutOfOrder
  <2> QED
    BY <1>4, <1>s, <2>1 DEF ReceiveOutOfOrder
<1>c. CASE BeginCleanup
  <2>1. /\ to_client' = <<>> /\ to_server' = <<>> /\ to_send' = <<>> /\ sent_requests' = <<>>
        /\ UNCHANGED <<fd, peer_up>> /\ io' = "cleanup"
    BY <1>0, <1>c DEF BeginCleanup, FreeToSend, DetachedRequests, LinkInv, IoThreadInv
  <2>2. OnTheWay' = 0 /\ Len(sent_requests') = 0 /\ DOMAIN to_client' = {}
    BY <2>1 DEF OnTheWay
  <2>3. XidList(to_client)' \o to_server' \o to_send' = <<>>
    <3>1. XidList(to_client') = <<>>
      BY <2>1, <2>2 DEF XidList
    <3> QED
      BY <2>1, <3>1
  <2> QED
    BY <2>1, <2>2, <2>3 DEF LinkInv, RepliesMatchRequests
<1>6. CASE InterestConnect
  <2>1. /\ ~fd /\ fd' /\ io = "interest" /\ io' = "poll"
        /\ UNCHANGED <<skew, to_client, to_server, to_send, sent_requests>>
    BY <1>6 DEF InterestConnect
  <2> QED
    BY <2>1 DEF LinkInv, RepliesMatchRequests, OnTheWay
<1>7. CASE FlushSendQueue
  <2>1. PICK k \in 1 .. Len(to_send) :
          /\ to_server' = to_server \o SubSeq(to_send, 1, k)
          /\ to_send' = SubSeq(to_send, k + 1, Len(to_send))
    BY <1>7 DEF FlushSendQueue, Unsent
  <2>2. UNCHANGED <<fd, peer_up, skew, to_client, sent_requests, io>> /\ io = "process" /\ fd
    BY <1>0, <1>7 DEF FlushSendQueue, IoThreadInv
  <2> DEFINE a == SubSeq(to_send, 1, k)
             b == SubSeq(to_send, k + 1, Len(to_send))
  <2>3. a \in Seq(Xids) /\ b \in Seq(Xids) /\ Len(a) = k /\ Len(b) = Len(to_send) - k
    BY <1>0, Split
  <2>s. a \o b = to_send
    BY <1>0, Split
  <2> HIDE DEF a, b
  <2>4. XidList(to_client) \o (to_server \o a) \o b = XidList(to_client) \o to_server \o to_send
    <3> DEFINE xids == XidList(to_client)
               both == xids \o to_server
    <3>1. xids \in Seq(Xids) /\ both \in Seq(Xids)
      BY <1>0
    <3> HIDE DEF xids
    <3>0. to_server \in Seq(Xids)
      BY <1>0
    <3> DEFINE server == to_server
    <3> HIDE DEF server
    <3>4. server \in Seq(Xids)
      BY <3>0 DEF server
    <3>5. a \in Seq(Xids) /\ b \in Seq(Xids)
      BY <2>3
    <3>6. xids \in Seq(Xids)
      BY <3>1
    <3>2. (xids \o server) \o a = xids \o (server \o a)
      BY ONLY <3>4, <3>5, <3>6, ThreeLists, ZenonT(20)
    <3> HIDE DEF both
    <3>7. both \in Seq(Xids)
      BY <3>1
    <3>3. (both \o a) \o b = both \o (a \o b)
      BY ONLY <3>5, <3>7, ThreeLists, ZenonT(20)
    <3> QED
      BY <2>s, <3>2, <3>3 DEF both, xids, server
  <2>5. OnTheWay' = OnTheWay
    <3>1. Len(to_server') = Len(to_server) + k /\ Len(to_send') = Len(to_send) - k
      BY <1>0, <2>1, <2>3, ConcatFacts DEF a, b
    <3> QED
      BY <1>0, <2>2, <3>1 DEF OnTheWay
  <2> QED
    BY <2>1, <2>2, <2>4, <2>5 DEF LinkInv, RepliesMatchRequests, a, b
<1>8. CASE ReceiveReply
  <2>1. /\ to_client # <<>> /\ sent_requests # <<>>
        /\ to_client' = Tail(to_client) /\ sent_requests' = Tail(sent_requests)
        /\ UNCHANGED <<fd, peer_up, skew, to_server, to_send>>
        /\ io = "process" /\ io' = "interest" /\ fd
    BY <1>8 DEF ReceiveReply, Loop, LinkInv
  <2>2. /\ Len(to_client') = Len(to_client) - 1 /\ Len(sent_requests') = Len(sent_requests) - 1
        /\ DOMAIN to_client' = 1 .. Len(to_client) - 1
        /\ \A i \in 1 .. Len(to_client) - 1 : to_client'[i] = to_client[i + 1]
        /\ \A i \in 1 .. Len(sent_requests) - 1 : sent_requests'[i] = sent_requests[i + 1]
    BY <1>0, <2>1
  <2>3. OnTheWay' <= Len(sent_requests')
    <3>1. Len(to_server') = Len(to_server) /\ Len(to_send') = Len(to_send)
      BY <2>1
    <3> QED
      BY <1>a, <2>2, <3>1 DEF OnTheWay, LinkInv
  <2>4. to_client' # <<>> => sent_requests' # <<>>
    <3>1. Len(to_client) <= Len(sent_requests)
      BY <1>a DEF OnTheWay, LinkInv
    <3>2. Tail(to_client) # <<>> => Len(to_client) > 1
      BY <1>0, <2>1
    <3>3. Len(sent_requests) > 1 => sent_requests' # <<>>
      BY <1>a, <2>2
    <3> QED
      BY <1>a, <2>1, <3>1, <3>2, <3>3
  <2>5. ~skew => /\ Len(to_client') <= Len(sent_requests')
                 /\ \A i \in DOMAIN to_client' : to_client'[i].xid = sent_requests'[i]
    <3>1. ASSUME ~skew, NEW i \in DOMAIN to_client'
          PROVE  to_client'[i].xid = sent_requests'[i]
      <4>1. i \in 1 .. Len(to_client) - 1 /\ i + 1 \in DOMAIN to_client
        BY <1>0, <2>2, <3>1
      <4>2. Len(to_client) <= Len(sent_requests) /\ to_client[i + 1].xid = sent_requests[i + 1]
        BY <3>1, <4>1 DEF LinkInv, RepliesMatchRequests
      <4> QED
        BY <1>a, <2>2, <4>1, <4>2
    <3> QED
      BY <1>a, <2>2, <3>1 DEF LinkInv, RepliesMatchRequests
  <2>6. ~skew /\ (peer_up \/ ~fd) => sent_requests' = XidList(to_client') \o to_server \o to_send
    <3>1. XidList(to_client) # <<>> /\ XidList(to_client') = Tail(XidList(to_client))
      BY <1>0, <2>1, ReplyXids
    <3>2. Tail((XidList(to_client) \o to_server) \o to_send) = (XidList(to_client') \o to_server) \o to_send
      BY <1>0, <3>1, ConcatQueue
    <3> QED
      BY <2>1, <3>2 DEF LinkInv, RepliesMatchRequests
  <2> QED
    BY <2>1, <2>3, <2>4, <2>5, <2>6 DEF LinkInv, RepliesMatchRequests
<1>9. CASE ServerReply
  <2> DEFINE x == Head(to_server)
             r == [xid |-> x, err |-> "ZOK"]
  <2>1. /\ peer_up /\ to_server # <<>> /\ to_server' = Tail(to_server)
        /\ to_client' = Append(to_client, r)
        /\ UNCHANGED <<fd, peer_up, skew, to_send, sent_requests, io>>
        /\ fd /\ io # "error"
    BY <1>0, <1>9 DEF ServerReply, LinkInv, IoThreadInv
  <2>2. x \in Xids /\ Tail(to_server) \in Seq(Xids) /\ r \in Reply /\ r.xid = x
    BY <1>0, <2>1, TailFacts DEF Reply, RetCodes
  <2> HIDE DEF r
  <2>3. /\ Len(to_server') = Len(to_server) - 1
        /\ to_client' \in Seq(Reply) /\ Len(to_client') = Len(to_client) + 1
    BY <1>0, <2>1, <2>2
  <2>4. OnTheWay' = OnTheWay
    <3>1. Len(to_send') = Len(to_send)
      BY <2>1
    <3> QED
      BY <1>a, <2>3, <3>1 DEF OnTheWay
  <2>5. to_client' # <<>> => sent_requests' # <<>>
    <3>1. Len(to_server) > 0
      BY <1>0, <2>1
    <3>2. Len(sent_requests) > 0
      BY <1>a, <3>1 DEF OnTheWay, LinkInv
    <3> QED
      BY <1>0, <2>1, <3>2
  <2>6. XidList(to_client') = Append(XidList(to_client), x)
    BY <1>0, <2>1, <2>2, ReplyXids
  <2>7. ~skew => sent_requests = XidList(to_client') \o to_server' \o to_send
    <3>1. Append(XidList(to_client), x) \o Tail(to_server) = XidList(to_client) \o to_server
      BY <1>0, <2>1, ConcatQueue
    <3> QED
      BY <2>1, <2>6, <3>1 DEF LinkInv, RepliesMatchRequests
  <2>8. ASSUME ~skew
        PROVE  /\ Len(to_client') <= Len(sent_requests)
               /\ \A i \in DOMAIN to_client' : to_client'[i].xid = sent_requests[i]
    <3> DEFINE t == to_server' \o to_send
    <3>1. /\ XidList(to_client') \in Seq(Xids) /\ Len(XidList(to_client')) = Len(to_client')
          /\ DOMAIN XidList(to_client') = DOMAIN to_client'
          /\ \A i \in DOMAIN to_client' : XidList(to_client')[i] = to_client'[i].xid
      BY <2>3, ReplyXids
    <3>2. t \in Seq(Xids)
      BY <1>0, <2>1, <2>2, ConcatFacts
    <3>3. sent_requests = XidList(to_client') \o t
      <4>1. to_server' \in Seq(Xids) /\ to_send \in Seq(Xids)
        BY <1>0, <2>1, <2>2
      <4>2. XidList(to_client') \o to_server' \o to_send = XidList(to_client') \o t
        <5> DEFINE xids == XidList(to_client')
        <5>1. xids \in Seq(Xids)
          BY <3>1
        <5> HIDE DEF xids
        <5>2. (xids \o to_server') \o to_send = xids \o (to_server' \o to_send)
          BY ONLY <4>1, <5>1, ThreeLists, ZenonT(20)
        <5> QED
          BY <5>2 DEF xids
      <4> QED
        BY <2>7, <2>8, <4>2
    <3> HIDE DEF t
    <3>4. /\ Len(sent_requests) = Len(to_client') + Len(t)
          /\ \A i \in DOMAIN to_client' : sent_requests[i] = XidList(to_client')[i]
      <4> DEFINE xids == XidList(to_client')
      <4>1. xids \in Seq(Xids) /\ Len(xids) = Len(to_client') /\ DOMAIN xids = DOMAIN to_client'
        BY <3>1
      <4> HIDE DEF xids
      <4>2. Len(xids \o t) = Len(to_client') + Len(t)
        BY ONLY <3>2, <4>1, ConcatFacts
      <4>3. \A i \in DOMAIN to_client' : (xids \o t)[i] = xids[i]
        BY ONLY <3>2, <4>1, ConcatFacts
      <4> QED
        BY <3>3, <4>2, <4>3 DEF xids
    <3> QED
      BY <2>3, <3>1, <3>2, <3>4
  <2> QED
    BY <2>1, <2>4, <2>5, <2>7, <2>8 DEF LinkInv, RepliesMatchRequests
<1>10. CASE ServerSkips
  <2>1. /\ Len(to_server) > 1 /\ to_server' = Tail(to_server) /\ skew'
        /\ UNCHANGED <<fd, peer_up, to_client, to_send, sent_requests, io>>
        /\ fd /\ io # "error"
    BY <1>0, <1>10 DEF ServerSkips, LinkInv, IoThreadInv
  <2>2. Len(to_server') = Len(to_server) - 1
    BY <1>0, <2>1
  <2>3. OnTheWay' <= Len(sent_requests')
    BY <1>0, <2>1, <2>2 DEF OnTheWay, LinkInv
  <2> QED
    BY <2>1, <2>3 DEF LinkInv, RepliesMatchRequests
<1>11. CASE ConnectionBreaks
  <2>1. /\ peer_up /\ ~peer_up' /\ to_server' = <<>> /\ Len(to_server') = 0
        /\ UNCHANGED <<fd, skew, to_send, sent_requests, io>>
    BY <1>11 DEF ConnectionBreaks, LeaveToServers
  <2>2. PICK k \in 0 .. Len(to_client) : to_client' = SubSeq(to_client, 1, k)
    BY <1>11 DEF ConnectionBreaks
  <2>3. /\ Len(to_client') = k /\ DOMAIN to_client' = 1 .. k
        /\ \A i \in 1 .. k : to_client'[i] = to_client[i]
    BY <1>0, <2>2, Split
  <2>4. OnTheWay' <= Len(sent_requests')
    BY <1>0, <2>1, <2>2, <2>3 DEF OnTheWay, LinkInv
  <2>5. to_client' # <<>> => sent_requests' # <<>>
    BY <1>0, <2>1, <2>3, <2>4 DEF OnTheWay
  <2>6. ~skew => /\ Len(to_client') <= Len(sent_requests)
                 /\ \A i \in DOMAIN to_client' : to_client'[i].xid = sent_requests[i]
    BY <1>0, <2>2, <2>3 DEF LinkInv, RepliesMatchRequests
  <2>7. fd /\ io # "error"
    BY <1>0, <2>1 DEF LinkInv, IoThreadInv
  <2> QED
    BY <2>1, <2>4, <2>5, <2>6, <2>7 DEF LinkInv, RepliesMatchRequests
<1>12. CASE EnsembleExpires
  <2>1. /\ ~peer_up' /\ UNCHANGED <<fd, io, skew, to_client, to_send, sent_requests>>
        /\ to_server' = <<>> /\ Len(to_server') = 0
    BY <1>12 DEF EnsembleExpires, LeaveToServers
  <2>2. OnTheWay' <= Len(sent_requests')
    BY <1>a, <2>1 DEF LinkInv, OnTheWay
  <2>3. ~fd => to_client = <<>> /\ to_server = <<>>
    BY DEF LinkInv
  <2> QED
    BY <2>1, <2>2, <2>3 DEF LinkInv, RepliesMatchRequests
<1>13. ASSUME NEW d \in Calls, CheckState(d) \/ WakeupIoThread(d) \/ SyncReturn(d)
       PROVE  LinkInv'
  BY <1>1, <1>13 DEF CheckState, WakeupIoThread, SyncReturn
<1>14. CASE CompletionStep \/ ServerHandshake \/ ServerExecutesLate \/ UNCHANGED vars
  BY <1>1, <1>14 DEF CompletionStep, DeliverEvent, DeliverReply, WatcherReturn, ServerHandshake,
     ServerExecutesLate
<1>15. CASE InterestWrap \/ InterestIdle \/ InterestSelect \/ Poll
  BY <1>1, <1>15 DEF InterestWrap, InterestIdle, InterestSelect, Poll
<1>16. CASE ProcessConnected \/ ProcessNothing \/ NothingToFlush \/ SessionEstablished
  BY <1>1, <1>16 DEF ProcessConnected, ProcessNothing, NothingToFlush, SessionEstablished, Loop
<1>17. CASE FreeCompletion \/ EndError
  BY <1>1, <1>17 DEF FreeCompletion, EndError
<1> QED
  BY <1>2, <1>3, <1>5, <1>s, <1>c, <1>6, <1>7, <1>8, <1>9, <1>10, <1>11, <1>12, <1>13, <1>14,
     <1>15, <1>16, <1>17
  DEF Next, AppStep, do_io, zookeeper_interest, zookeeper_process, ServerStep, NetworkFault

\* For every set of calls and whatever fails: unless a server passes over a request,
\* the next reply is the one to the head of sent_requests, and zookeeper_process never
\* finds the list empty.
THEOREM RepliesMatch == Spec => []RepliesMatchRequests
<1>1. Init => TypeInv /\ LinkInv
  <2>1. ASSUME Init PROVE LinkInv
    BY <2>1 DEF Init, InitHandle, InitEnvironment, LinkInv, OnTheWay, RepliesMatchRequests,
       XidList
  <2> QED
    BY <2>1, TypeInit
<1>2. TypeInv /\ LinkInv /\ [Next]_vars => (TypeInv /\ LinkInv)'
  BY TypeStep, LinkStep
<1>3. LinkInv => RepliesMatchRequests
  BY DEF LinkInv
<1> QED
  BY <1>1, <1>2, <1>3, PTL DEF Spec

-----------------------------------------------------------------------------
(* Lists in the order of the API calls.  The operators take the history of *)
(* accepted calls as a parameter: a step compares lists in two states.     *)

Before(acc, c, d) == \E p, q \in DOMAIN acc : p < q /\ acc[p] = c /\ acc[q] = d
Sorted(acc, list) ==
  \A i, j \in DOMAIN list :
     i < j /\ list[i] \in Calls /\ list[j] \in Calls => Before(acc, list[i], list[j])
Precede(acc, s, t) ==
  \A c, d \in Calls : InList(s, c) /\ InList(t, d) => Before(acc, c, d)

\* A call accepted once is not accepted before itself, nor before and after another.
LEMMA BeforeStrict ==
  ASSUME NEW acc \in Seq(Calls), NEW c, NEW d, AtMostOnce(acc, c), AtMostOnce(acc, d)
  PROVE  /\ ~Before(acc, c, c)
         /\ ~(Before(acc, c, d) /\ Before(acc, d, c))
<1>1. DOMAIN acc = 1 .. Len(acc) /\ Len(acc) \in Nat
  OBVIOUS
<1> QED
  BY <1>1 DEF Before, AtMostOnce

\* Accepting a call keeps the order of the others and puts the call behind them.
LEMMA BeforeGrows ==
  ASSUME NEW acc \in Seq(Calls), NEW e \in Calls
  PROVE  /\ \A c, d : Before(acc, c, d) => Before(Append(acc, e), c, d)
         /\ \A c : InList(acc, c) => Before(Append(acc, e), c, e)
<1>1. /\ DOMAIN acc = 1 .. Len(acc) /\ Len(acc) \in Nat
      /\ DOMAIN Append(acc, e) = 1 .. Len(acc) + 1
      /\ \A i \in 1 .. Len(acc) : Append(acc, e)[i] = acc[i]
      /\ Append(acc, e)[Len(acc) + 1] = e
  OBVIOUS
<1>2. \A i \in 1 .. Len(acc) : i \in 1 .. Len(acc) + 1 /\ i < Len(acc) + 1
  BY <1>1
<1>3. Len(acc) + 1 \in 1 .. Len(acc) + 1
  BY <1>1
<1>4. ASSUME NEW c, NEW d, Before(acc, c, d) PROVE Before(Append(acc, e), c, d)
  BY <1>1, <1>2, <1>4 DEF Before
<1>5. ASSUME NEW c, InList(acc, c) PROVE Before(Append(acc, e), c, e)
  BY <1>1, <1>2, <1>3, <1>5 DEF Before, InList
<1> QED
  BY <1>4, <1>5

\* An entry queued behind the calls that were accepted before it.
LEMMA SortedAppend ==
  ASSUME NEW acc, NEW S, NEW list \in Seq(S), NEW e \in S, Sorted(acc, list),
         e \in Calls => \A c \in Calls : InList(list, c) => Before(acc, c, e)
  PROVE  Sorted(acc, Append(list, e))
<1>1. /\ DOMAIN list = 1 .. Len(list) /\ Len(list) \in Nat
      /\ DOMAIN Append(list, e) = 1 .. Len(list) + 1
      /\ \A i \in 1 .. Len(list) : Append(list, e)[i] = list[i]
      /\ Append(list, e)[Len(list) + 1] = e
  OBVIOUS
<1>2. \A i \in 1 .. Len(list) + 1 : i \in 1 .. Len(list) \/ i = Len(list) + 1
  BY <1>1
<1>3. \A i, j \in 1 .. Len(list) + 1 : i < j => i \in 1 .. Len(list)
  BY <1>1
<1>4. SUFFICES ASSUME NEW i \in 1 .. Len(list) + 1, NEW j \in 1 .. Len(list) + 1, i < j,
                      Append(list, e)[i] \in Calls, Append(list, e)[j] \in Calls
               PROVE  Before(acc, Append(list, e)[i], Append(list, e)[j])
  BY <1>1 DEF Sorted
<1>5. i \in 1 .. Len(list) /\ Append(list, e)[i] = list[i]
  BY <1>1, <1>3, <1>4
<1>6. CASE j \in 1 .. Len(list)
  BY <1>1, <1>4, <1>5, <1>6 DEF Sorted
<1>7. CASE j = Len(list) + 1
  <2>1. InList(list, list[i])
    BY <1>1, <1>5 DEF InList
  <2> QED
    BY <1>1, <1>4, <1>5, <1>7, <2>1
<1> QED
  BY <1>2, <1>4, <1>6, <1>7

\* What remains when the head is taken, and that it follows the head.
LEMMA SortedTail ==
  ASSUME NEW acc, NEW S, NEW list \in Seq(S), list # <<>>, Sorted(acc, list)
  PROVE  /\ Sorted(acc, Tail(list))
         /\ \A d \in Calls : Head(list) \in Calls /\ InList(Tail(list), d)
                               => Before(acc, Head(list), d)
<1>1. /\ Len(list) \in Nat /\ Len(list) > 0
      /\ DOMAIN list = 1 .. Len(list)
      /\ DOMAIN Tail(list) = 1 .. Len(list) - 1
      /\ \A i \in 1 .. Len(list) - 1 : Tail(list)[i] = list[i + 1]
      /\ Head(list) = list[1]
  OBVIOUS
<1>2. \A i \in 1 .. Len(list) - 1 : i + 1 \in 1 .. Len(list) /\ 1 < i + 1
  BY <1>1
<1>3. Sorted(acc, Tail(list))
  <2>1. \A i, j \in 1 .. Len(list) - 1 : i < j => i + 1 < j + 1
    BY <1>1
  <2> QED
    BY <1>1, <1>2, <2>1 DEF Sorted
<1>4. ASSUME NEW d \in Calls, Head(list) \in Calls, InList(Tail(list), d)
      PROVE  Before(acc, Head(list), d)
  BY <1>1, <1>2, <1>4 DEF Sorted, InList
<1> QED
  BY <1>3, <1>4

\* Two lists one after the other are in order if each is and the first precedes
\* the second, and only then.
LEMMA SortedConcat ==
  ASSUME NEW acc, NEW S, NEW s \in Seq(S), NEW t \in Seq(S)
  PROVE  Sorted(acc, s \o t) <=> Sorted(acc, s) /\ Sorted(acc, t) /\ Precede(acc, s, t)
<1> DEFINE st == s \o t
<1>1. /\ \A i \in DOMAIN s : i \in DOMAIN st /\ st[i] = s[i]
      /\ \A i \in DOMAIN t : Len(s) + i \in DOMAIN st /\ st[Len(s) + i] = t[i]
      /\ \A i \in DOMAIN st : i \notin DOMAIN s => i - Len(s) \in DOMAIN t
  BY ConcatFacts
<1>2. /\ DOMAIN s = 1 .. Len(s) /\ Len(s) \in Nat
      /\ DOMAIN t = 1 .. Len(t) /\ Len(t) \in Nat
      /\ DOMAIN st = 1 .. Len(s) + Len(t)
  OBVIOUS
<1> HIDE DEF st
<1>3. ASSUME Sorted(acc, st) PROVE Sorted(acc, s) /\ Sorted(acc, t) /\ Precede(acc, s, t)
  <2>1. Sorted(acc, s)
    BY <1>1, <1>3 DEF Sorted
  <2>2. Sorted(acc, t)
    <3>1. \A i, j \in DOMAIN t : i < j => Len(s) + i < Len(s) + j
      BY <1>2
    <3> QED
      BY <1>1, <1>3, <3>1 DEF Sorted
  <2>3. Precede(acc, s, t)
    <3>1. \A i \in DOMAIN s, j \in DOMAIN t : i < Len(s) + j
      BY <1>2
    <3> QED
      BY <1>1, <1>3, <3>1 DEF Sorted, Precede, InList
  <2> QED
    BY <2>1, <2>2, <2>3
<1>4. ASSUME Sorted(acc, s), Sorted(acc, t), Precede(acc, s, t),
             NEW i \in DOMAIN st, NEW j \in DOMAIN st, i < j, st[i] \in Calls, st[j] \in Calls
      PROVE  Before(acc, st[i], st[j])
  <2>1. CASE j \in DOMAIN s
    <3>1. i \in DOMAIN s
      BY <1>2, <1>4, <2>1
    <3> QED
      BY <1>1, <1>4, <2>1, <3>1 DEF Sorted
  <2>2. CASE j \notin DOMAIN s
    <3>1. /\ j - Len(s) \in DOMAIN t /\ Len(s) + (j - Len(s)) = j
          /\ st[j] = t[j - Len(s)]
      BY <1>1, <1>2, <1>4, <2>2
    <3>2. CASE i \in DOMAIN s
      <4>1. InList(s, st[i]) /\ InList(t, st[j])
        BY <1>1, <3>1, <3>2 DEF InList
      <4> QED
        BY <1>4, <4>1 DEF Precede
    <3>3. CASE i \notin DOMAIN s
      <4>1. /\ i - Len(s) \in DOMAIN t /\ Len(s) + (i - Len(s)) = i
            /\ st[i] = t[i - Len(s)] /\ i - Len(s) < j - Len(s)
        BY <1>1, <1>2, <1>4, <3>3
      <4> QED
        BY <1>4, <3>1, <4>1 DEF Sorted
    <3> QED
      BY <3>2, <3>3
  <2> QED
    BY <2>1, <2>2
<1>5. ASSUME Sorted(acc, s), Sorted(acc, t), Precede(acc, s, t) PROVE Sorted(acc, st)
  BY <1>4, <1>5 DEF Sorted
<1> QED
  BY <1>3, <1>5 DEF st

-----------------------------------------------------------------------------
(* Three lists one after the other in the order of the API calls: executed,*)
(* then what servers may still execute, then to_send are such a chain, and *)
(* so are the queued completions, tmp_list and sent_requests.              *)

Chain(acc, s, t, u) ==
  /\ Sorted(acc, s) /\ Sorted(acc, t) /\ Sorted(acc, u)
  /\ Precede(acc, s, t) /\ Precede(acc, s, u) /\ Precede(acc, t, u)

\* An entry that is no call may be queued anywhere, and a head may be dropped.
LEMMA ChainQueueOther ==
  ASSUME NEW acc, NEW S, NEW s \in Seq(S), NEW t \in Seq(S), NEW u \in Seq(S),
         Chain(acc, s, t, u), NEW e \in S, e \notin Calls
  PROVE  Chain(acc, s, t, Append(u, e)) /\ Chain(acc, Append(s, e), t, u)
<1>1. Sorted(acc, Append(u, e)) /\ Sorted(acc, Append(s, e))
  BY SortedAppend DEF Chain
<1>2. \A c \in Calls : /\ InList(Append(u, e), c) <=> InList(u, c)
                       /\ InList(Append(s, e), c) <=> InList(s, c)
  BY AppendFacts
<1> QED
  BY <1>1, <1>2 DEF Chain, Precede

LEMMA ChainDrop ==
  ASSUME NEW acc, NEW S, NEW s \in Seq(S), NEW t \in Seq(S), NEW u \in Seq(S),
         Chain(acc, s, t, u)
  PROVE  /\ s # <<>> => Chain(acc, Tail(s), t, u)
         /\ t # <<>> => Chain(acc, s, Tail(t), u)
         /\ u # <<>> => Chain(acc, s, t, Tail(u))
<1>1. ASSUME s # <<>> PROVE Chain(acc, Tail(s), t, u)
  <2>1. Sorted(acc, Tail(s)) /\ \A x : InList(Tail(s), x) => InList(s, x)
    BY <1>1, SortedTail, TailFacts DEF Chain
  <2> QED
    BY <2>1 DEF Chain, Precede
<1>2. ASSUME t # <<>> PROVE Chain(acc, s, Tail(t), u)
  <2>1. Sorted(acc, Tail(t)) /\ \A x : InList(Tail(t), x) => InList(t, x)
    BY <1>2, SortedTail, TailFacts DEF Chain
  <2> QED
    BY <2>1 DEF Chain, Precede
<1>3. ASSUME u # <<>> PROVE Chain(acc, s, t, Tail(u))
  <2>1. Sorted(acc, Tail(u)) /\ \A x : InList(Tail(u), x) => InList(u, x)
    BY <1>3, SortedTail, TailFacts DEF Chain
  <2> QED
    BY <2>1 DEF Chain, Precede
<1> QED
  BY <1>1, <1>2, <1>3

\* The head of the second list goes to the end of the first.
LEMMA ChainMove ==
  ASSUME NEW acc, NEW S, NEW s \in Seq(S), NEW t \in Seq(S), NEW u \in Seq(S),
         Chain(acc, s, t, u), t # <<>>
  PROVE  Chain(acc, Append(s, Head(t)), Tail(t), u)
<1> DEFINE e == Head(t)
<1>1. /\ e \in S
      /\ \A x : InList(t, x) <=> InList(Tail(t), x) \/ x = e
      /\ \A x : InList(Append(s, e), x) <=> InList(s, x) \/ x = e
  BY TailFacts, AppendFacts
<1>2. /\ Sorted(acc, Tail(t))
      /\ \A d \in Calls : e \in Calls /\ InList(Tail(t), d) => Before(acc, e, d)
  BY SortedTail DEF Chain
<1> HIDE DEF e
<1>3. Sorted(acc, Append(s, e))
  <2>1. e \in Calls => \A c \in Calls : InList(s, c) => Before(acc, c, e)
    BY <1>1 DEF Chain, Precede
  <2> QED
    BY <1>1, <2>1, SortedAppend DEF Chain
<1>4. Precede(acc, Append(s, e), Tail(t))
  BY <1>1, <1>2 DEF Chain, Precede
<1>5. Precede(acc, Append(s, e), u) /\ Precede(acc, Tail(t), u)
  BY <1>1 DEF Chain, Precede
<1>6. Chain(acc, Append(s, e), Tail(t), u)
  BY <1>2, <1>3, <1>4, <1>5 DEF Chain
<1> QED
  BY <1>6 DEF e

\* An empty list changes nothing, wherever it is.
LEMMA ChainShift ==
  ASSUME NEW acc, NEW s, NEW u
  PROVE  Chain(acc, s, <<>>, u) <=> Chain(acc, s, u, <<>>)
<1>1. Sorted(acc, <<>>) /\ \A x : ~InList(<<>>, x)
  BY DEF Sorted, InList
<1> QED
  BY <1>1 DEF Chain, Precede

\* The first k entries of the last list go to the end of the second.
LEMMA ChainFlush ==
  ASSUME NEW acc, NEW S, NEW s \in Seq(S), NEW t \in Seq(S), NEW u \in Seq(S),
         Chain(acc, s, t, u), NEW k \in 0 .. Len(u)
  PROVE  Chain(acc, s, t \o SubSeq(u, 1, k), SubSeq(u, k + 1, Len(u)))
<1> DEFINE a == SubSeq(u, 1, k)
           b == SubSeq(u, k + 1, Len(u))
<1>1. a \in Seq(S) /\ b \in Seq(S)
  BY Split
<1>2. a \o b = u
  BY Split
<1> HIDE DEF a, b
<1>3. \A x : InList(a \o b, x) <=> InList(a, x) \/ InList(b, x)
  BY <1>1, ConcatFacts
<1>4. Sorted(acc, a \o b) => Sorted(acc, a) /\ Sorted(acc, b) /\ Precede(acc, a, b)
  BY <1>1, SortedConcat
<1>5. \A x : InList(u, x) <=> InList(a, x) \/ InList(b, x)
  BY <1>2, <1>3
<1>6. Sorted(acc, a) /\ Sorted(acc, b) /\ Precede(acc, a, b)
  BY <1>2, <1>4 DEF Chain
<1>7. Precede(acc, s, a) /\ Precede(acc, s, b) /\ Precede(acc, t, a) /\ Precede(acc, t, b)
  BY <1>5 DEF Chain, Precede
<1>8. Sorted(acc, t \o a)
  BY <1>1, <1>6, <1>7, SortedConcat DEF Chain
<1>9. \A x : InList(t \o a, x) <=> InList(t, x) \/ InList(a, x)
  BY <1>1, ConcatFacts
<1>10. Chain(acc, s, t \o a, b)
  BY <1>6, <1>7, <1>8, <1>9 DEF Chain, Precede
<1> QED
  BY <1>10 DEF a, b

\* Either part of the second list may be dropped.
LEMMA ChainPart ==
  ASSUME NEW acc, NEW S, NEW s \in Seq(S), NEW a \in Seq(S), NEW b \in Seq(S), NEW u \in Seq(S),
         Chain(acc, s, a \o b, u)
  PROVE  Chain(acc, s, a, u) /\ Chain(acc, s, b, u)
<1>1. \A x : InList(a \o b, x) <=> InList(a, x) \/ InList(b, x)
  BY ConcatFacts
<1>2. Sorted(acc, a) /\ Sorted(acc, b)
  BY SortedConcat DEF Chain
<1> QED
  BY <1>1, <1>2 DEF Chain, Precede

\* A call is accepted and queued at the end.
LEMMA ChainQueue ==
  ASSUME NEW acc \in Seq(Calls), NEW S, NEW s \in Seq(S), NEW t \in Seq(S), NEW u \in Seq(S),
         Chain(acc, s, t, u), NEW e \in Calls, e \in S,
         \A c \in Calls : InList(s, c) \/ InList(t, c) \/ InList(u, c) => InList(acc, c)
  PROVE  Chain(Append(acc, e), s, t, Append(u, e))
<1> DEFINE new == Append(acc, e)
<1>1. /\ \A c, d : Before(acc, c, d) => Before(new, c, d)
      /\ \A c : InList(acc, c) => Before(new, c, e)
  BY BeforeGrows
<1> HIDE DEF new
<1>2. /\ Sorted(new, s) /\ Sorted(new, t) /\ Sorted(new, u)
      /\ Precede(new, s, t) /\ Precede(new, s, u) /\ Precede(new, t, u)
  BY <1>1 DEF Chain, Sorted, Precede
<1>3. \A c \in Calls : InList(s, c) \/ InList(t, c) \/ InList(u, c) => Before(new, c, e)
  BY <1>1
<1>4. Sorted(new, Append(u, e))
  BY <1>2, <1>3, SortedAppend
<1>5. \A x : InList(Append(u, e), x) <=> InList(u, x) \/ x = e
  BY AppendFacts
<1>6. Precede(new, s, Append(u, e)) /\ Precede(new, t, Append(u, e))
  BY <1>2, <1>3, <1>5 DEF Precede
<1>7. Chain(new, s, t, Append(u, e))
  BY <1>2, <1>4, <1>6 DEF Chain
<1> QED
  BY <1>7 DEF new

-----------------------------------------------------------------------------
(* The order in which requests travel, with what it is inductive with:     *)
(* - accepted lists every accepted call, once;                             *)
(* - executed, leftovers with to_server, and to_send are a chain; what is  *)
(*   on its way to the server is still in sent_requests, what was answered *)
(*   was executed;                                                         *)
(* - the queued completions, tmp_list and sent_requests are a chain, and   *)
(*   no completion is queued for a synchronous call;                       *)
(* - a ZOK that was handed out, or is about to be, came from a server;     *)
(* - a connection carries requests only once its session is established,   *)
(*   and then no server executes those of older connections any more.      *)

HistoryInv ==
  \A c \in Calls : (InList(accepted, c) <=> Accepted(c)) /\ AtMostOnce(accepted, c)
PipelineInv ==
  /\ Chain(accepted, executed, leftovers \o to_server, to_send)
  /\ \A c \in Calls : InList(executed, c) \/ InList(leftovers, c) => InList(accepted, c)
  /\ \A c \in Calls : InList(to_server, c) \/ InList(to_send, c) => Queued(c)
  /\ \A c \in Calls : InList(XidList(to_client), c) => InList(executed, c)
WaitingInv ==
  /\ Chain(accepted, XidList(completions_to_process), tmp_list, sent_requests)
  /\ \A c \in SyncCalls : ~ReplyQueued(c)
ResultInv ==
  /\ io \in {"error", "cleanup"} => reason # "ZOK"
  /\ \A c \in Calls : InList(completions_to_process, [xid |-> c, val |-> "ZOK"])
                        => InList(executed, c)
  /\ \A c \in Calls : Answered(c) /\ result[c][1] = "ZOK" => InList(executed, c)
LateInv ==
  /\ ~fd => ~peer_up /\ to_server = <<>> /\ primer = "none"
  /\ next_sid # 0
  /\ state = "CONNECTED" => client_id # 0
  /\ client_id = 0 => leftovers = <<>> /\ to_server = <<>>
  /\ primer = "answered" /\ client_id = 0 => primer_sid # 0
  /\ fd /\ state = "CONNECTED" => primer = "done"
  /\ primer = "done" => state = "CONNECTED"
  /\ peer_up /\ to_server # <<>> => primer = "done"
  /\ peer_up /\ (primer = "done" \/ (primer = "answered" /\ client_id \in {0, primer_sid}))
       => leftovers = <<>>
OrderInv == PlaceInv /\ HistoryInv /\ PipelineInv /\ WaitingInv /\ ResultInv /\ LateInv

\* The steps that start handle_error.
Errors ==
  \/ InterestConnectFails \/ InterestTimeout \/ ProcessRefused \/ FlushFails
  \/ ReceiveFails \/ SessionExpired \/ ReceiveOutOfOrder

LEMMA ErrorBegins ==
  ASSUME TypeInv, Errors
  PROVE  /\ io \notin {"error", "cleanup"}
         /\ \E st \in States, rc \in RetCodes \ {"ZOK"} : BeginError(st, rc, sent_requests)
<1>1. /\ state \in States /\ "EXPIRED_SESSION" \in States
      /\ {"ZCONNECTIONLOSS", "ZOPERATIONTIMEOUT", "ZSYSTEMERROR", "ZSESSIONEXPIRED",
          "ZRUNTIMEINCONSISTENCY"} \subseteq RetCodes \ {"ZOK"}
  BY DEF TypeInv, TypeOK, States, RetCodes
<1>2. CASE InterestConnectFails
  BY <1>1, <1>2 DEF InterestConnectFails
<1>3. CASE InterestTimeout \/ SessionExpired
  BY <1>1, <1>3 DEF InterestTimeout, SessionExpired
<1>4. CASE ProcessRefused \/ FlushFails \/ ReceiveFails
  BY <1>1, <1>4 DEF ProcessRefused, FlushFails, ReceiveFails
<1>5. CASE ReceiveOutOfOrder
  <2>1. queue_completion(Tail(sent_requests), Head(sent_requests), TRUE) = sent_requests
    BY <1>5, PutBackFacts DEF ReceiveOutOfOrder, TypeInv, TypeOK
  <2> QED
    BY <1>1, <1>5, <2>1 DEF ReceiveOutOfOrder
<1> QED
  BY <1>2, <1>3, <1>4, <1>5 DEF Errors

\* What such a step does to the lists: servers may keep what is on its way, nothing
\* more comes from them, and the watcher may be told.
LEMMA ErrorEffect ==
  ASSUME TypeInv, Errors
  PROVE  /\ io \notin {"error", "cleanup"} /\ io' = "error" /\ reason' # "ZOK"
         /\ LeaveToServers /\ to_client' = <<>>
         /\ UNCHANGED <<accepted, executed, to_send, sent_requests, tmp_list, call, result, seen>>
         /\ \/ completions_to_process' = completions_to_process
            \/ \E st \in States :
                 completions_to_process' = Append(completions_to_process, SessionEvent(st))
<1>1. PICK st \in States, rc \in RetCodes \ {"ZOK"} : BeginError(st, rc, sent_requests)
  BY ErrorBegins
<1>2. LeaveToServers /\ to_client' = <<>> /\ executed' = executed
  BY <1>1 DEF BeginError, CloseConnection
<1>3. /\ UNCHANGED <<to_send, sent_requests, tmp_list, accepted, call, result, seen>>
      /\ io' = "error" /\ reason' # "ZOK"
  BY <1>1 DEF BeginError
<1>4. \/ completions_to_process' = completions_to_process
      \/ \E ev \in States :
           completions_to_process' = Append(completions_to_process, SessionEvent(ev))
  <2>1. completions_to_process' = ErrorEvent(st) /\ "CONNECTING" \in States
    BY <1>1 DEF BeginError, States
  <2> QED
    BY <2>1 DEF ErrorEvent, queue_completion
<1> QED
  BY <1>2, <1>3, <1>4, ErrorBegins

\* The other steps touch no list and hand out nothing.
Quiet ==
  /\ UNCHANGED <<accepted, executed, leftovers, to_server, to_send, to_client, sent_requests,
                 tmp_list, completions_to_process, result>>
  /\ io' \in {"error", "cleanup"} => io \in {"error", "cleanup"} /\ reason' = reason
  /\ \A c \in Calls : Accepted(c)' <=> Accepted(c)

LEMMA Steps ==
  ASSUME TypeInv, [Next]_vars
  PROVE  \/ \E d \in Calls : QueueRequest(d)
         \/ DeliverEvent \/ DeliverReply
         \/ Errors \/ SendPing \/ FlushSendQueue \/ SessionEstablished \/ ReceiveReply
         \/ BeginCleanup \/ FreeCompletion
         \/ ServerHandshake \/ ServerReply \/ ServerExecutesLate \/ ServerSkips
         \/ ConnectionBreaks \/ EnsembleExpires
         \/ Quiet
<1>0. call \in [Calls -> {"idle", "refused", "checked", "queued", "waiting", "returned"}]
  BY DEF TypeInv, TypeOK
<1>1. ASSUME NEW d \in Calls, CheckState(d) \/ WakeupIoThread(d) \/ SyncReturn(d) PROVE Quiet
  <2>1. \A c \in Calls : Accepted(c)' <=> Accepted(c)
    BY <1>0, <1>1 DEF CheckState, WakeupIoThread, SyncReturn, Accepted
  <2> QED
    BY <1>1, <2>1 DEF CheckState, WakeupIoThread, SyncReturn, Quiet
<1>2. CASE WatcherReturn \/ UNCHANGED vars
  BY <1>2 DEF WatcherReturn, Quiet, Accepted
<1>3. CASE InterestWrap \/ InterestConnect \/ InterestIdle \/ InterestSelect \/ Poll
  BY <1>3 DEF InterestWrap, InterestConnect, InterestIdle, InterestSelect, Poll, Quiet, Accepted
<1>4. CASE ProcessConnected \/ ProcessNothing \/ NothingToFlush \/ EndError
  BY <1>4 DEF ProcessConnected, ProcessNothing, NothingToFlush, EndError, Loop, Quiet, Accepted
<1> QED
  BY <1>1, <1>2, <1>3, <1>4
  DEF Next, AppStep, CompletionStep, do_io, zookeeper_interest, zookeeper_process,
      ServerStep, NetworkFault, Errors

\* accepted follows the calls that were accepted.
LEMMA HistoryStep ==
  ASSUME OrderInv, [Next]_vars
  PROVE  HistoryInv'
<1>0. TypeInv /\ HistoryInv /\ accepted \in Seq(Calls)
      /\ call \in [Calls -> {"idle", "refused", "checked", "queued", "waiting", "returned"}]
  BY DEF OrderInv, PlaceInv, TypeInv, TypeOK
<1>1. ASSUME NEW d \in Calls, QueueRequest(d) PROVE HistoryInv'
  <2>1. accepted' = Append(accepted, d) /\ ~Accepted(d)
    BY <1>1 DEF QueueRequest, Accepted
  <2>2. \A c \in Calls : Accepted(c)' <=> Accepted(c) \/ c = d
    BY <1>0, <1>1 DEF QueueRequest, Accepted
  <2>3. \A c \in Calls : /\ InList(accepted', c) <=> InList(accepted, c) \/ c = d
                         /\ AtMostOnce(accepted', c)
    BY <1>0, <2>1, AppendFacts DEF HistoryInv
  <2> QED
    BY <1>0, <2>2, <2>3 DEF HistoryInv
<1>2. CASE accepted' = accepted /\ \A c \in Calls : Accepted(c)' <=> Accepted(c)
  BY <1>0, <1>2 DEF HistoryInv
<1>3. CASE DeliverEvent \/ DeliverReply \/ SendPing \/ FlushSendQueue \/ SessionEstablished
           \/ ReceiveReply \/ BeginCleanup \/ FreeCompletion
  BY <1>2, <1>3 DEF DeliverEvent, DeliverReply, SendPing, FlushSendQueue, SessionEstablished,
     ReceiveReply, BeginCleanup, FreeCompletion, Accepted
<1>4. CASE ServerHandshake \/ ServerReply \/ NetworkFault
  BY <1>2, <1>4 DEF ServerHandshake, ServerReply, NetworkFault, ServerExecutesLate, ServerSkips,
     ConnectionBreaks, EnsembleExpires, Accepted
<1>5. CASE Errors
  BY <1>0, <1>2, <1>5, ErrorEffect DEF Accepted
<1>6. CASE Quiet
  BY <1>2, <1>6 DEF Quiet
<1> QED
  BY <1>0, <1>1, <1>3, <1>4, <1>5, <1>6, Steps DEF NetworkFault

\* What servers keep of a connection that ends.
LEMMA LeftChain ==
  ASSUME TypeInv, PipelineInv, LeaveToServers
  PROVE  /\ Chain(accepted, executed, leftovers' \o to_server', to_send)
         /\ to_server' = <<>>
         /\ \A x : InList(leftovers', x) => InList(leftovers, x) \/ InList(to_server, x)
<1>0. /\ executed \in Seq(Xids) /\ leftovers \in Seq(Xids) /\ to_server \in Seq(Xids)
      /\ to_send \in Seq(Xids)
      /\ Chain(accepted, executed, leftovers \o to_server, to_send)
  BY DEF TypeInv, TypeOK, PipelineInv
<1>1. PICK k \in 0 .. (IF peer_up THEN Len(to_server) ELSE 0) :
               leftovers' = leftovers \o SubSeq(to_server, 1, k)
  BY DEF LeaveToServers
<1>2. k \in 0 .. Len(to_server) /\ to_server' = <<>>
  BY <1>0, <1>1 DEF LeaveToServers
<1> DEFINE a == SubSeq(to_server, 1, k)
           b == SubSeq(to_server, k + 1, Len(to_server))
<1>3. a \in Seq(Xids) /\ b \in Seq(Xids) /\ leftovers' = leftovers \o a
  BY <1>0, <1>1, <1>2, Split
<1>4. a \o b = to_server
  BY <1>0, <1>2, Split
<1> HIDE DEF a, b
<1>5. (leftovers \o a) \o b = leftovers \o (a \o b) /\ leftovers \o a \in Seq(Xids)
  <2>1. leftovers \o a \in Seq(Xids)
    BY <1>0, <1>3, ConcatFacts
  <2>2. leftovers \in Seq(Xids) /\ a \in Seq(Xids) /\ b \in Seq(Xids)
    BY <1>0, <1>3
  <2> QED
    BY <2>1, <2>2, ThreeLists, Zenon
<1>6. Chain(accepted, executed, leftovers \o a, to_send)
  <2>1. Chain(accepted, executed, (leftovers \o a) \o b, to_send)
    BY <1>0, <1>4, <1>5
  <2> QED
    BY <1>0, <1>3, <1>5, <2>1, ChainPart
<1>7. leftovers' \o to_server' = leftovers \o a
  BY <1>2, <1>3, <1>5
<1>8. \A x : InList(leftovers', x) => InList(leftovers, x) \/ InList(to_server, x)
  <2>1. \A x : InList(leftovers \o a, x) <=> InList(leftovers, x) \/ InList(a, x)
    BY <1>0, <1>3, ConcatFacts
  <2>2. \A x : InList(a \o b, x) <=> InList(a, x) \/ InList(b, x)
    BY <1>3, ConcatFacts
  <2> QED
    BY <1>3, <1>4, <2>1, <2>2
<1> QED
  BY <1>2, <1>6, <1>7, <1>8

\* The pipeline stays a chain.
LEMMA PipelineStep ==
  ASSUME OrderInv, [Next]_vars
  PROVE  PipelineInv'
<1> USE CallsAssumption
<1>0. /\ TypeInv /\ HistoryInv /\ PipelineInv /\ EachCallHasOnePlace
      /\ accepted \in Seq(Calls) /\ executed \in Seq(Xids) /\ to_server \in Seq(Xids)
      /\ leftovers \in Seq(Xids) /\ leftovers \o to_server \in Seq(Xids)
      /\ to_send \in Seq(Xids) /\ to_client \in Seq(Reply) /\ sent_requests \in Seq(Xids)
      /\ Calls \subseteq Xids /\ XidList(to_client) \in Seq(Xids)
  BY ReplyXids, ConcatFacts DEF OrderInv, PlaceInv, TypeInv, TypeOK, Xids
<1>a. \A c \in Calls : Queued(c) => InList(accepted, c)
  BY <1>0 DEF HistoryInv, EachCallHasOnePlace, CallHasOnePlace
<1>b. /\ Chain(accepted, executed, leftovers \o to_server, to_send)
      /\ \A x : InList(leftovers \o to_server, x) <=> InList(leftovers, x) \/ InList(to_server, x)
  BY <1>0, ConcatFacts DEF PipelineInv
<1>k. peer_up /\ to_server # <<>> => leftovers = <<>>
  BY DEF OrderInv, LateInv
<1>l. \A list \in Seq(Xids) : <<>> \o list = list
  OBVIOUS
<1>1. ASSUME NEW d \in Calls, QueueRequest(d) PROVE PipelineInv'
  <2>1. /\ accepted' = Append(accepted, d) /\ to_send' = Append(to_send, d)
        /\ sent_requests' = Append(sent_requests, d) /\ d \in Xids
        /\ UNCHANGED <<executed, leftovers, to_server, to_client>>
    BY <1>0, <1>1 DEF QueueRequest, queue_completion, queue_buffer_bytes
  <2>2. \A c \in Calls : InList(executed, c) \/ InList(leftovers \o to_server, c)
                             \/ InList(to_send, c)
                           => InList(accepted, c)
    BY <1>0, <1>a, <1>b DEF PipelineInv
  <2>3. Chain(accepted', executed, leftovers \o to_server, to_send')
    BY <1>0, <1>b, <2>1, <2>2, ChainQueue
  <2>4. \A x : /\ InList(accepted', x) <=> InList(accepted, x) \/ x = d
               /\ InList(to_send', x) <=> InList(to_send, x) \/ x = d
               /\ InList(sent_requests', x) <=> InList(sent_requests, x) \/ x = d
    BY <1>0, <2>1, AppendFacts
  <2> QED
    BY <1>0, <2>1, <2>3, <2>4 DEF PipelineInv, Queued
<1>2. CASE UNCHANGED <<accepted, executed, leftovers, to_server, to_send, to_client,
                       sent_requests>>
  BY <1>0, <1>2 DEF PipelineInv, Queued
<1>3. CASE DeliverEvent \/ DeliverReply \/ SessionEstablished \/ FreeCompletion \/ Quiet
  BY <1>2, <1>3 DEF DeliverEvent, DeliverReply, SessionEstablished, FreeCompletion, Quiet
<1>4. CASE Errors \/ ConnectionBreaks \/ EnsembleExpires
  <2>1. /\ LeaveToServers /\ UNCHANGED <<accepted, executed, to_send, sent_requests>>
        /\ \A y : InList(XidList(to_client'), y) => InList(XidList(to_client), y)
    <3>1. CASE Errors
      <4>1. \A y : ~InList(XidList(<<>>), y)
        BY DEF InList, XidList
      <4> QED
        BY <1>0, <3>1, <4>1, ErrorEffect
    <3>2. CASE ConnectionBreaks
      <4>1. PICK k \in 0 .. Len(to_client) : to_client' = SubSeq(to_client, 1, k)
        BY <3>2 DEF ConnectionBreaks
      <4>2. /\ DOMAIN to_client' = 1 .. k
            /\ \A i \in 1 .. k : i \in DOMAIN to_client /\ to_client'[i] = to_client[i]
        BY <1>0, <4>1, Split
      <4>3. \A y : InList(XidList(to_client'), y) => InList(XidList(to_client), y)
        BY <4>2 DEF InList, XidList
      <4> QED
        BY <3>2, <4>3 DEF ConnectionBreaks
    <3>3. CASE EnsembleExpires
      BY <3>3 DEF EnsembleExpires
    <3> QED
      BY <1>4, <3>1, <3>2, <3>3
  <2>2. /\ Chain(accepted, executed, leftovers' \o to_server', to_send)
        /\ to_server' = <<>>
        /\ \A x : InList(leftovers', x) => InList(leftovers, x) \/ InList(to_server, x)
    BY <1>0, <2>1, LeftChain
  <2>3. \A x : ~InList(<<>>, x)
    BY DEF InList
  <2> QED
    BY <1>0, <1>a, <2>1, <2>2, <2>3 DEF PipelineInv, Queued
<1>c. CASE BeginCleanup
  <2>1. /\ to_send' = <<>> /\ UNCHANGED <<accepted, executed, leftovers, to_server, to_client>>
        /\ to_server = <<>>
    BY <1>0, <1>c DEF BeginCleanup, FreeToSend, OrderInv, LateInv, TypeInv, IoThreadInv
  <2>2. \A x : ~InList(<<>>, x) /\ Sorted(accepted, <<>>)
    BY DEF InList, Sorted
  <2>3. Chain(accepted, executed, leftovers \o to_server, <<>>)
    BY <1>b, <2>2 DEF Chain, Precede
  <2> QED
    BY <1>0, <2>1, <2>2, <2>3 DEF PipelineInv
<1>5. CASE SendPing
  <2>1. /\ to_send' = Append(to_send, PING_XID) /\ sent_requests' = Append(sent_requests, PING_XID)
        /\ UNCHANGED <<accepted, executed, leftovers, to_server, to_client>>
        /\ PING_XID \in Xids /\ PING_XID \notin Calls
    BY <1>5 DEF SendPing, queue_completion, queue_buffer_bytes, Xids
  <2>2. Chain(accepted, executed, leftovers \o to_server, to_send')
    BY <1>0, <1>b, <2>1, ChainQueueOther
  <2>3. \A c \in Calls : /\ InList(to_send', c) <=> InList(to_send, c)
                         /\ InList(sent_requests', c) <=> InList(sent_requests, c)
    BY <1>0, <2>1, AppendFacts
  <2> QED
    BY <1>0, <2>1, <2>2, <2>3 DEF PipelineInv, Queued
<1>6. CASE FlushSendQueue
  <2>1. PICK k \in 1 .. Len(to_send) :
          /\ to_server' = to_server \o SubSeq(to_send, 1, k)
          /\ to_send' = SubSeq(to_send, k + 1, Len(to_send))
    BY <1>6 DEF FlushSendQueue, Unsent
  <2>2. UNCHANGED <<accepted, executed, leftovers, to_client, sent_requests>>
    BY <1>6 DEF FlushSendQueue
  <2>3. Chain(accepted, executed, leftovers \o to_server', to_send')
    <3> DEFINE a == SubSeq(to_send, 1, k)
               b == SubSeq(to_send, k + 1, Len(to_send))
               both == leftovers \o to_server
    <3>1. a \in Seq(Xids) /\ both \in Seq(Xids) /\ to_server' = to_server \o a /\ to_send' = b
      BY <1>0, <2>1, Split
    <3>2. Chain(accepted, executed, both \o a, b)
      <4> HIDE DEF both
      <4>1. Chain(accepted, executed, both, to_send)
        BY <1>b DEF both
      <4>2. k \in 0 .. Len(to_send)
        BY <1>0
      <4> QED
        BY <1>0, <3>1, <4>1, <4>2, ChainFlush
    <3> HIDE DEF a, b
    <3>3. (leftovers \o to_server) \o a = leftovers \o (to_server \o a)
      <4>1. leftovers \in Seq(Xids) /\ to_server \in Seq(Xids) /\ a \in Seq(Xids)
        BY <1>0, <3>1
      <4> QED
        BY ONLY <4>1, ThreeLists, ZenonT(20)
    <3> QED
      BY <3>1, <3>2, <3>3
  <2>4. \A x : InList(to_server', x) \/ InList(to_send', x)
                 => InList(to_server, x) \/ InList(to_send, x)
    <3> DEFINE a == SubSeq(to_send, 1, k)
               b == SubSeq(to_send, k + 1, Len(to_send))
    <3>1. a \in Seq(Xids) /\ b \in Seq(Xids)
      BY <1>0, Split
    <3>2. a \o b = to_send
      BY <1>0, Split
    <3>3. to_server' = to_server \o a /\ to_send' = b
      BY <2>1
    <3> HIDE DEF a, b
    <3>4. \A x : InList(a \o b, x) <=> InList(a, x) \/ InList(b, x)
      BY <3>1, ConcatFacts
    <3>5. \A x : InList(to_server \o a, x) <=> InList(to_server, x) \/ InList(a, x)
      BY <1>0, <3>1, ConcatFacts
    <3> QED
      BY <3>2, <3>3, <3>4, <3>5
  <2> QED
    BY <1>0, <2>1, <2>2, <2>3, <2>4 DEF PipelineInv, Queued
<1>7. CASE ReceiveReply
  <2> DEFINE x == Head(sent_requests)
  <2>1. /\ to_client # <<>> /\ sent_requests # <<>> /\ x = Head(to_client).xid
        /\ to_client' = Tail(to_client) /\ sent_requests' = Tail(sent_requests)
        /\ UNCHANGED <<accepted, executed, leftovers, to_server, to_send>>
    BY <1>7 DEF ReceiveReply
  <2>2. /\ XidList(to_client) # <<>> /\ Head(XidList(to_client)) = x
        /\ XidList(to_client') = Tail(XidList(to_client))
    BY <1>0, <2>1, ReplyXids
  <2> HIDE DEF x
  <2>3. \A y : InList(XidList(to_client), y) <=> InList(XidList(to_client'), y) \/ y = x
    BY <1>0, <2>2, TailFacts
  <2>4. \A y : InList(sent_requests, y) <=> InList(sent_requests', y) \/ y = x
    BY <1>0, <2>1, TailFacts DEF x
  <2>5. ASSUME NEW c \in Calls, InList(to_server, c) \/ InList(to_send, c) PROVE c # x
    <3>1. SUFFICES ASSUME c = x PROVE FALSE
      OBVIOUS
    <3>2. InList(executed, c)
      BY <1>0, <2>3, <3>1 DEF PipelineInv
    <3>3. Before(accepted, c, c)
      BY <1>b, <2>5, <3>2 DEF Chain, Precede
    <3>4. AtMostOnce(accepted, c)
      BY <1>0 DEF HistoryInv
    <3> QED
      BY <1>0, <3>3, <3>4, BeforeStrict
  <2> QED
    BY <1>0, <2>1, <2>3, <2>4, <2>5 DEF PipelineInv, Queued
<1>8. CASE ServerReply
  <2> DEFINE x == Head(to_server)
             r == [xid |-> x, err |-> "ZOK"]
  <2>1. /\ to_server # <<>> /\ to_server' = Tail(to_server)
        /\ to_client' = Append(to_client, r) /\ executed' = Append(executed, x)
        /\ UNCHANGED <<accepted, to_send, sent_requests>>
        /\ leftovers = <<>> /\ leftovers' = <<>>
    BY <1>8, <1>k DEF ServerReply
  <2>2. x \in Xids /\ r \in Reply /\ r.xid = x
    BY <1>0, <2>1, TailFacts DEF Reply, RetCodes
  <2>3. Chain(accepted, executed', leftovers' \o to_server', to_send)
    <3>1. Chain(accepted, executed, to_server, to_send)
      BY <1>0, <1>b, <1>l, <2>1
    <3>2. Chain(accepted, executed', to_server', to_send) /\ to_server' \in Seq(Xids)
      BY <1>0, <2>1, <3>1, ChainMove, TailFacts
    <3> QED
      BY <1>l, <2>1, <3>2
  <2> HIDE DEF r
  <2>4. XidList(to_client') = Append(XidList(to_client), x)
    BY <1>0, <2>1, <2>2, ReplyXids
  <2>5. \A y : InList(to_server, y) <=> InList(to_server', y) \/ y = x
    BY <1>0, <2>1, TailFacts
  <2> HIDE DEF x
  <2>6. \A y : /\ InList(XidList(to_client'), y) <=> InList(XidList(to_client), y) \/ y = x
               /\ InList(executed', y) <=> InList(executed, y) \/ y = x
    BY <1>0, <2>1, <2>2, <2>4, AppendFacts
  <2> QED
    BY <1>0, <1>a, <2>1, <2>3, <2>5, <2>6 DEF PipelineInv, Queued
<1>9. CASE ServerSkips
  <2>1. /\ to_server # <<>> /\ to_server' = Tail(to_server)
        /\ UNCHANGED <<accepted, executed, to_client, to_send, sent_requests>>
        /\ leftovers = <<>> /\ leftovers' = <<>>
    BY <1>0, <1>9, <1>k DEF ServerSkips
  <2>2. Chain(accepted, executed, leftovers' \o to_server', to_send)
    <3>1. Chain(accepted, executed, to_server, to_send)
      BY <1>0, <1>b, <1>l, <2>1
    <3>2. Chain(accepted, executed, to_server', to_send) /\ to_server' \in Seq(Xids)
      BY <1>0, <2>1, <3>1, ChainDrop, TailFacts
    <3> QED
      BY <1>l, <2>1, <3>2
  <2>3. \A y : InList(to_server', y) => InList(to_server, y)
    BY <1>0, <2>1, TailFacts
  <2> QED
    BY <1>0, <2>1, <2>2, <2>3 DEF PipelineInv, Queued
<1>10. CASE ServerHandshake
  <2>1. /\ leftovers' \in {leftovers, <<>>}
        /\ UNCHANGED <<accepted, executed, to_server, to_client, to_send, sent_requests>>
    BY <1>10 DEF ServerHandshake
  <2>2. Chain(accepted, executed, to_server, to_send)
    BY <1>0, <1>b, ChainPart
  <2>3. Chain(accepted, executed, leftovers' \o to_server, to_send)
    BY <1>0, <1>b, <1>l, <2>1, <2>2
  <2>4. \A x : ~InList(<<>>, x)
    BY DEF InList
  <2> QED
    BY <1>0, <2>1, <2>3, <2>4 DEF PipelineInv, Queued
<1>11. CASE ServerExecutesLate
  <2> DEFINE x == Head(leftovers)
  <2>1. /\ leftovers # <<>> /\ leftovers' = Tail(leftovers) /\ executed' = Append(executed, x)
        /\ UNCHANGED <<accepted, to_server, to_client, to_send, sent_requests>>
    BY <1>11 DEF ServerExecutesLate
  <2>2. x \in Xids /\ \A y : InList(leftovers, y) <=> InList(leftovers', y) \/ y = x
    BY <1>0, <2>1, TailFacts
  <2>3. Chain(accepted, executed', leftovers' \o to_server, to_send)
    <3> DEFINE both == leftovers \o to_server
    <3>1. both # <<>> /\ Head(both) = x /\ Tail(both) = leftovers' \o to_server
      <4>1. leftovers \in Seq(Xids) /\ to_server \in Seq(Xids) /\ leftovers # <<>>
        BY <1>0, <2>1
      <4>2. both # <<>> /\ Head(both) = x /\ Tail(both) = Tail(leftovers) \o to_server
        BY <4>1, ConcatQueue
      <4> QED
        BY <2>1, <4>2
    <3>2. both \in Seq(Xids) /\ Chain(accepted, executed, both, to_send)
      BY <1>0, <1>b
    <3> HIDE DEF both, x
    <3>3. Chain(accepted, Append(executed, Head(both)), Tail(both), to_send)
      BY <1>0, <3>1, <3>2, ChainMove
    <3> QED
      BY <2>1, <3>1, <3>3
  <2> HIDE DEF x
  <2>4. \A y : InList(executed', y) <=> InList(executed, y) \/ y = x
    BY <1>0, <2>1, <2>2, AppendFacts
  <2> QED
    BY <1>0, <2>1, <2>2, <2>3, <2>4 DEF PipelineInv, Queued
<1> QED
  BY <1>0, <1>1, <1>3, <1>4, <1>c, <1>5, <1>6, <1>7, <1>8, <1>9, <1>10, <1>11, Steps

\* The waiting calls stay a chain: the completions already queued, then the list
\* free_completions is emptying, then sent_requests.
LEMMA WaitingStep ==
  ASSUME OrderInv, [Next]_vars
  PROVE  WaitingInv'
<1> USE CallsAssumption
<1> DEFINE S == Xids \union {WATCHER_EVENT_XID}
           q == XidList(completions_to_process)
<1>0. /\ TypeInv /\ HistoryInv /\ WaitingInv /\ EachCallHasOnePlace /\ NothingLeftBehind
      /\ accepted \in Seq(Calls) /\ completions_to_process \in Seq(Completion)
      /\ tmp_list \in Seq(Xids) /\ sent_requests \in Seq(Xids)
  BY DEF OrderInv, PlaceInv, TypeInv, TypeOK
<1>a. q \in Seq(S) /\ tmp_list \in Seq(S) /\ sent_requests \in Seq(S)
  <2>1. q \in Seq(Calls \union {WATCHER_EVENT_XID})
    BY <1>0, XidListFacts
  <2>2. Calls \union {WATCHER_EVENT_XID} \subseteq S /\ Xids \subseteq S
    BY DEF Xids
  <2> HIDE DEF q, S
  <2> QED
    BY <1>0, <2>1, <2>2, SeqMonotonic
<1>b. Chain(accepted, q, tmp_list, sent_requests)
  BY <1>0 DEF WaitingInv
<1>c. /\ \A c \in Calls : InList(q, c) \/ InList(tmp_list, c) \/ InList(sent_requests, c)
                            => InList(accepted, c)
      /\ \A c \in SyncCalls : ~InList(q, c)
  BY <1>0 DEF HistoryInv, EachCallHasOnePlace, CallHasOnePlace, Queued, BeingFreed, ReplyQueued,
     WaitingInv
<1>d. /\ \A e \in Completion : XidList(Append(completions_to_process, e)) = Append(q, e.xid)
      /\ completions_to_process # <<>> => q # <<>> /\ XidList(Tail(completions_to_process)) = Tail(q)
  BY <1>0, XidListFacts
<1>e. \A st \in States : /\ XidList(Append(completions_to_process, SessionEvent(st)))
                              = Append(q, WATCHER_EVENT_XID)
                         /\ WATCHER_EVENT_XID \in S \ Calls
  BY <1>d DEF SessionEvent, Completion
<1>f. \A x \in S \ SyncCalls : \A c \in SyncCalls : InList(Append(q, x), c) => InList(q, c)
  BY <1>a, AppendFacts
<1> HIDE DEF q, S
<1>1. ASSUME NEW d \in Calls, QueueRequest(d) PROVE WaitingInv'
  <2>1. /\ accepted' = Append(accepted, d) /\ sent_requests' = Append(sent_requests, d) /\ d \in S
        /\ UNCHANGED <<completions_to_process, tmp_list>>
    BY <1>1 DEF QueueRequest, queue_completion, S, Xids
  <2>2. Chain(accepted', q, tmp_list, sent_requests')
    BY <1>0, <1>a, <1>b, <1>c, <2>1, ChainQueue
  <2> QED
    BY <1>c, <2>1, <2>2 DEF WaitingInv, ReplyQueued, q
<1>2. CASE UNCHANGED <<accepted, completions_to_process, tmp_list, sent_requests>>
  BY <1>0, <1>2 DEF WaitingInv, ReplyQueued
<1>3. CASE FlushSendQueue \/ ServerHandshake \/ ServerReply \/ NetworkFault \/ Quiet
  BY <1>2, <1>3 DEF FlushSendQueue, ServerHandshake, ServerReply, NetworkFault, ServerExecutesLate,
     ServerSkips, ConnectionBreaks, EnsembleExpires, Quiet
<1>4. CASE DeliverEvent \/ DeliverReply
  <2>1. /\ q # <<>> /\ XidList(completions_to_process') = Tail(q)
        /\ UNCHANGED <<accepted, tmp_list, sent_requests>>
    BY <1>4, <1>d DEF DeliverEvent, DeliverReply
  <2>2. Chain(accepted, Tail(q), tmp_list, sent_requests)
    BY <1>a, <1>b, <2>1, ChainDrop
  <2>3. \A x : InList(Tail(q), x) => InList(q, x)
    BY <1>a, <2>1, TailFacts
  <2> QED
    BY <1>c, <2>1, <2>2, <2>3 DEF WaitingInv, ReplyQueued
<1>5. CASE Errors
  <2>1. UNCHANGED <<accepted, tmp_list, sent_requests>>
    BY <1>0, <1>5, ErrorEffect
  <2>2. CASE completions_to_process' = completions_to_process
    BY <1>2, <2>1, <2>2
  <2>3. CASE \E st \in States :
               completions_to_process' = Append(completions_to_process, SessionEvent(st))
    <3>1. XidList(completions_to_process') = Append(q, WATCHER_EVENT_XID)
          /\ WATCHER_EVENT_XID \in S \ Calls
      BY <1>e, <2>3
    <3>2. Chain(accepted, Append(q, WATCHER_EVENT_XID), tmp_list, sent_requests)
      BY <1>a, <1>b, <3>1, ChainQueueOther
    <3> QED
      BY <1>c, <1>f, <2>1, <3>1, <3>2 DEF WaitingInv, ReplyQueued
  <2> QED
    BY <1>0, <1>5, <2>2, <2>3, ErrorEffect
<1>k. CASE BeginCleanup
  <2>1. /\ tmp_list = <<>> /\ tmp_list' = sent_requests /\ sent_requests' = <<>>
        /\ UNCHANGED <<accepted, completions_to_process>>
    BY <1>0, <1>k DEF BeginCleanup, DetachedRequests, NothingLeftBehind
  <2>2. Chain(accepted, q, sent_requests, <<>>)
    BY <1>b, <2>1, ChainShift
  <2> QED
    BY <1>c, <2>1, <2>2 DEF WaitingInv, ReplyQueued, q
<1>6. CASE SendPing
  <2>1. /\ sent_requests' = Append(sent_requests, PING_XID)
        /\ UNCHANGED <<accepted, completions_to_process, tmp_list>>
        /\ PING_XID \in S /\ PING_XID \notin Calls
    BY <1>6 DEF SendPing, queue_completion, Xids, S
  <2>2. Chain(accepted, q, tmp_list, sent_requests')
    BY <1>a, <1>b, <2>1, ChainQueueOther
  <2> QED
    BY <1>c, <2>1, <2>2 DEF WaitingInv, ReplyQueued, q
<1>7. CASE SessionEstablished
  <2>1. /\ completions_to_process' = Append(completions_to_process, SessionEvent("CONNECTED"))
        /\ UNCHANGED <<accepted, tmp_list, sent_requests>> /\ "CONNECTED" \in States
    BY <1>7 DEF SessionEstablished, Loop, queue_completion, States
  <2>2. XidList(completions_to_process') = Append(q, WATCHER_EVENT_XID)
        /\ WATCHER_EVENT_XID \in S \ Calls
    BY <1>e, <2>1
  <2>3. Chain(accepted, Append(q, WATCHER_EVENT_XID), tmp_list, sent_requests)
    BY <1>a, <1>b, <2>2, ChainQueueOther
  <2> QED
    BY <1>c, <1>f, <2>1, <2>2, <2>3 DEF WaitingInv, ReplyQueued
<1>8. ASSUME NEW x \in Xids, NEW rc \in RetCodes, HandsOut(x, rc), accepted' = accepted,
             Chain(accepted, q, tmp_list', sent_requests'),
             Chain(accepted, Append(q, x), tmp_list', sent_requests')
      PROVE  WaitingInv'
  <2>1. CASE x \in SyncCalls \/ x = PING_XID
    <3>1. completions_to_process' = completions_to_process
      BY <1>8, <2>1 DEF HandsOut
    <3> QED
      BY <1>8, <1>c, <3>1 DEF WaitingInv, ReplyQueued, q
  <2>2. CASE x \notin SyncCalls /\ x # PING_XID
    <3>1. completions_to_process' = Append(completions_to_process, [xid |-> x, val |-> rc])
      BY <1>8, <2>2 DEF HandsOut, queue_completion
    <3>2. [xid |-> x, val |-> rc] \in Completion /\ x \in S \ SyncCalls
      BY <2>2 DEF Completion, Xids, S
    <3>3. XidList(completions_to_process') = Append(q, x)
      BY <1>d, <3>1, <3>2
    <3> QED
      BY <1>8, <1>c, <1>f, <3>2, <3>3 DEF WaitingInv, ReplyQueued
  <2> QED
    BY <2>1, <2>2
<1>9. CASE ReceiveReply
  <2> DEFINE x == Head(sent_requests)
             rc == Head(to_client).err
  <2>1. /\ HandsOut(x, rc) /\ sent_requests # <<>> /\ sent_requests' = Tail(sent_requests)
        /\ UNCHANGED <<tmp_list, accepted>> /\ io = "process"
    BY <1>9 DEF ReceiveReply, SyncResult, AsyncReply, HandsOut, Loop
  <2>2. x \in Xids /\ rc \in RetCodes
    <3>1. Head(to_client) \in Reply
      BY <1>0, <1>9, TailFacts DEF ReceiveReply, TypeInv, TypeOK
    <3> QED
      BY <1>0, <2>1, <3>1, TailFacts DEF Reply
  <2>3. tmp_list = <<>> /\ Chain(accepted, q, sent_requests, <<>>) /\ <<>> \in Seq(S)
    BY <1>0, <1>b, <2>1, ChainShift DEF NothingLeftBehind
  <2>4. /\ Chain(accepted, q, Tail(sent_requests), <<>>)
        /\ Chain(accepted, Append(q, x), Tail(sent_requests), <<>>)
    BY <1>a, <2>1, <2>3, ChainDrop, ChainMove
  <2>5. /\ Chain(accepted, q, <<>>, Tail(sent_requests))
        /\ Chain(accepted, Append(q, x), <<>>, Tail(sent_requests))
    BY <2>4, ChainShift
  <2> HIDE DEF x, rc
  <2> QED
    BY <1>8, <2>1, <2>2, <2>3, <2>5
<1>10. CASE FreeCompletion
  <2> DEFINE x == Head(tmp_list)
  <2>1. /\ HandsOut(x, reason) /\ tmp_list # <<>> /\ tmp_list' = Tail(tmp_list)
        /\ UNCHANGED <<sent_requests, accepted>>
    BY <1>10 DEF FreeCompletion, SyncResult, AsyncReply, HandsOut
  <2>2. x \in Xids /\ reason \in RetCodes
    BY <1>0, <2>1, TailFacts DEF TypeInv, TypeOK
  <2>3. /\ Chain(accepted, q, Tail(tmp_list), sent_requests)
        /\ Chain(accepted, Append(q, x), Tail(tmp_list), sent_requests)
    BY <1>a, <1>b, <2>1, ChainDrop, ChainMove
  <2> HIDE DEF x
  <2> QED
    BY <1>8, <2>1, <2>2, <2>3
<1> QED
  BY <1>0, <1>1, <1>3, <1>4, <1>5, <1>k, <1>6, <1>7, <1>9, <1>10, Steps DEF NetworkFault

\* What was executed stays executed.
LEMMA ExecutedGrows ==
  ASSUME TypeInv, [Next]_vars
  PROVE  \A x : InList(executed, x) => InList(executed', x)
<1>0. executed \in Seq(Xids) /\ to_server \in Seq(Xids) /\ leftovers \in Seq(Xids)
  BY DEF TypeInv, TypeOK
<1>1. CASE executed' = executed
  BY <1>1
<1>2. CASE Errors
  BY <1>1, <1>2, ErrorEffect
<1>3. CASE ServerReply \/ ServerExecutesLate
  <2>1. \E e \in Xids : executed' = Append(executed, e)
    BY <1>0, <1>3, TailFacts DEF ServerReply, ServerExecutesLate
  <2> QED
    BY <1>0, <2>1, AppendFacts
<1>4. CASE DeliverEvent \/ DeliverReply \/ SendPing \/ FlushSendQueue \/ SessionEstablished
           \/ ReceiveReply \/ BeginCleanup \/ FreeCompletion
  BY <1>1, <1>4 DEF DeliverEvent, DeliverReply, SendPing, FlushSendQueue, SessionEstablished,
     ReceiveReply, BeginCleanup, FreeCompletion
<1>5. CASE ServerHandshake \/ ServerSkips \/ ConnectionBreaks \/ EnsembleExpires \/ Quiet
           \/ \E d \in Calls : QueueRequest(d)
  BY <1>1, <1>5 DEF ServerHandshake, ServerSkips, ConnectionBreaks, EnsembleExpires, Quiet,
     QueueRequest
<1> QED
  BY <1>2, <1>3, <1>4, <1>5, Steps

\* A ZOK keeps coming from a server.
LEMMA ResultStep ==
  ASSUME OrderInv, [Next]_vars
  PROVE  ResultInv'
<1> USE CallsAssumption
<1> DEFINE Ok(c) == [xid |-> c, val |-> "ZOK"]
<1>0. /\ TypeInv /\ ResultInv /\ PipelineInv /\ EachCallHasOnePlace
      /\ completions_to_process \in Seq(Completion) /\ result \in [Calls -> Seq(RetCodes)]
      /\ to_client \in Seq(Reply) /\ XidList(to_client) \in Seq(Xids)
  BY ReplyXids DEF OrderInv, PlaceInv, TypeInv, TypeOK
<1>a. \A x : InList(executed, x) => InList(executed', x)
  BY <1>0, ExecutedGrows
<1>1. CASE /\ UNCHANGED <<completions_to_process, result>>
           /\ io' \in {"error", "cleanup"} => io \in {"error", "cleanup"} /\ reason' = reason
  BY <1>0, <1>1, <1>a DEF ResultInv, Answered
<1>2. ASSUME NEW d \in Calls, QueueRequest(d) PROVE ResultInv'
  BY <1>1, <1>2 DEF QueueRequest
<1>3. CASE SendPing \/ FlushSendQueue \/ BeginCleanup \/ Quiet
  BY <1>1, <1>3 DEF SendPing, FlushSendQueue, BeginCleanup, Quiet
<1>n. CASE ServerHandshake \/ ServerReply \/ NetworkFault
  BY <1>1, <1>n DEF ServerHandshake, ServerReply, NetworkFault, ServerExecutesLate, ServerSkips,
     ConnectionBreaks, EnsembleExpires
<1>4. ASSUME NEW st \in States,
             completions_to_process' = Append(completions_to_process, SessionEvent(st)),
             result' = result, io' \in {"error", "cleanup"} => reason' # "ZOK"
      PROVE  ResultInv'
  <2>1. SessionEvent(st) \in Completion /\ \A c \in Calls : SessionEvent(st) # Ok(c)
    BY DEF SessionEvent, Completion
  <2>2. \A c \in Calls : InList(completions_to_process', Ok(c)) <=> InList(completions_to_process, Ok(c))
    <3> HIDE DEF Ok
    <3> QED
      BY <1>0, <1>4, <2>1, AppendFacts
  <2> QED
    BY <1>0, <1>4, <1>a, <2>2 DEF ResultInv, Answered
<1>5. CASE Errors
  <2>1. reason' # "ZOK" /\ result' = result
    BY <1>0, <1>5, ErrorEffect
  <2>2. CASE completions_to_process' = completions_to_process
    BY <1>0, <1>a, <2>1, <2>2 DEF ResultInv, Answered
  <2>3. CASE \E st \in States :
               completions_to_process' = Append(completions_to_process, SessionEvent(st))
    BY <1>4, <2>1, <2>3
  <2> QED
    BY <1>0, <1>5, <2>2, <2>3, ErrorEffect
<1>6. CASE SessionEstablished
  BY <1>4, <1>6 DEF SessionEstablished, Loop, queue_completion, States
<1>7. CASE DeliverEvent \/ DeliverReply
  <2> DEFINE cptr == Head(completions_to_process)
  <2>1. /\ completions_to_process # <<>>
        /\ completions_to_process' = Tail(completions_to_process)
        /\ io' = io /\ reason' = reason
    BY <1>7 DEF DeliverEvent, DeliverReply
  <2>2. \A y : InList(completions_to_process, y) <=> InList(completions_to_process', y) \/ y = cptr
    BY <1>0, <2>1, TailFacts
  <2>3. cptr \in Completion
    BY <1>0, <2>1, TailFacts
  <2>4. ASSUME NEW c \in Calls, Answered(c)', result'[c][1] = "ZOK"
        PROVE  InList(executed', c)
    <3>1. CASE result'[c] = result[c]
      BY <1>0, <1>a, <2>4, <3>1 DEF ResultInv, Answered
    <3>2. CASE result'[c] # result[c]
      <4>1. c = cptr.xid /\ result'[c] = Append(result[c], cptr.val)
        BY <1>0, <1>7, <3>2 DEF DeliverEvent, DeliverReply
      <4>2. CallHasOnePlace(c) /\ ReplyQueued(c)
        <5>1. /\ XidList(completions_to_process) \in Seq(Calls \union {WATCHER_EVENT_XID})
              /\ XidList(completions_to_process) # <<>>
              /\ Head(XidList(completions_to_process)) = c
          BY <1>0, <2>1, <4>1, XidListFacts
        <5> QED
          BY <1>0, <5>1, TailFacts DEF ReplyQueued, EachCallHasOnePlace
      <4>3. result[c] = <<>>
        BY <4>2 DEF CallHasOnePlace, Answered
      <4>4. cptr.val = "ZOK" /\ cptr.val \in RetCodes
        <5>1. cptr.val \in RetCodes
          BY <2>3, <4>1 DEF Completion
        <5>2. result'[c][1] = cptr.val
          BY <4>1, <4>3, <5>1
        <5> QED
          BY <2>4, <5>1, <5>2
      <4>5. cptr = Ok(c)
        BY <2>3, <4>1, <4>4 DEF Completion
      <4> QED
        BY <1>0, <1>a, <2>2, <4>5 DEF ResultInv
    <3> QED
      BY <3>1, <3>2
  <2> QED
    BY <1>0, <1>a, <2>1, <2>2, <2>4 DEF ResultInv
<1>8. ASSUME NEW x \in Xids, NEW rc \in RetCodes, HandsOut(x, rc),
             x \in Calls => ~Answered(x) /\ (rc = "ZOK" => InList(executed, x)),
             io' \in {"error", "cleanup"} => io \in {"error", "cleanup"} /\ reason' = reason
      PROVE  ResultInv'
  <2>1. CASE x \in SyncCalls
    <3>1. completions_to_process' = completions_to_process
          /\ result' = [result EXCEPT ![x] = Append(result[x], rc)]
      BY <1>8, <2>1 DEF HandsOut
    <3>2. result[x] = <<>>
      BY <1>8, <2>1 DEF Answered
    <3>3. result'[x][1] = rc /\ \A c \in Calls : c # x => result'[c] = result[c]
      BY <1>0, <2>1, <3>1, <3>2
    <3> QED
      BY <1>0, <1>8, <1>a, <2>1, <3>1, <3>3 DEF ResultInv, Answered
  <2>2. CASE x = PING_XID
    BY <1>1, <1>8, <2>2 DEF HandsOut
  <2>3. CASE x \notin SyncCalls /\ x # PING_XID
    <3>1. completions_to_process' = Append(completions_to_process, [xid |-> x, val |-> rc])
          /\ result' = result
      BY <1>8, <2>3 DEF HandsOut, queue_completion
    <3>2. [xid |-> x, val |-> rc] \in Completion /\ x \in Calls
      BY <2>3 DEF Completion, Xids
    <3>3. \A c \in Calls : Ok(c) = [xid |-> x, val |-> rc] => c = x /\ rc = "ZOK"
      OBVIOUS
    <3>4. \A c \in Calls : InList(completions_to_process', Ok(c))
                             => InList(completions_to_process, Ok(c)) \/ (c = x /\ rc = "ZOK")
      <4> HIDE DEF Ok
      <4> QED
        BY <1>0, <3>1, <3>2, <3>3, AppendFacts
    <3> QED
      BY <1>0, <1>8, <1>a, <3>1, <3>2, <3>4 DEF ResultInv, Answered
  <2> QED
    BY <2>1, <2>2, <2>3
<1>9. CASE ReceiveReply
  <2> DEFINE x == Head(sent_requests)
             rc == Head(to_client).err
  <2>1. /\ HandsOut(x, rc) /\ sent_requests # <<>> /\ to_client # <<>>
        /\ x = Head(to_client).xid /\ io' \notin {"error", "cleanup"}
    BY <1>9 DEF ReceiveReply, SyncResult, AsyncReply, HandsOut, Loop
  <2>2. x \in Xids /\ rc \in RetCodes
    <3>1. Head(to_client) \in Reply
      BY <1>0, <2>1, TailFacts
    <3> QED
      BY <2>1, <3>1 DEF Reply
  <2>3. x \in Calls => ~Answered(x)
    <3>1. x \in Calls => Queued(x)
      BY <2>1, TailFacts DEF Queued, TypeInv, TypeOK, OrderInv, PlaceInv
    <3> QED
      BY <1>0, <3>1 DEF EachCallHasOnePlace, CallHasOnePlace
  <2>4. x \in Calls => InList(executed, x)
    <3>1. XidList(to_client) # <<>> /\ Head(XidList(to_client)) = x
      BY <1>0, <2>1, ReplyXids
    <3> HIDE DEF x
    <3>2. InList(XidList(to_client), x)
      BY <1>0, <3>1, TailFacts
    <3> QED
      BY <1>0, <3>2 DEF PipelineInv
  <2> HIDE DEF x, rc
  <2> QED
    BY <1>8, <2>1, <2>2, <2>3, <2>4
<1>10. CASE FreeCompletion
  <2> DEFINE x == Head(tmp_list)
  <2>1. /\ HandsOut(x, reason) /\ tmp_list # <<>> /\ io = "cleanup" /\ reason' = reason
    BY <1>10 DEF FreeCompletion, SyncResult, AsyncReply, HandsOut
  <2>2. x \in Xids /\ reason \in RetCodes /\ reason # "ZOK"
    BY <1>0, <2>1, TailFacts DEF TypeInv, TypeOK, ResultInv
  <2>3. x \in Calls => ~Answered(x)
    <3>1. x \in Calls => BeingFreed(x)
      BY <1>0, <2>1, TailFacts DEF BeingFreed, TypeInv, TypeOK
    <3> QED
      BY <1>0, <3>1 DEF EachCallHasOnePlace, CallHasOnePlace
  <2> HIDE DEF x
  <2> QED
    BY <1>8, <2>1, <2>2, <2>3
<1> QED
  BY <1>0, <1>2, <1>3, <1>n, <1>5, <1>6, <1>7, <1>9, <1>10, Steps DEF NetworkFault

\* A connection carries requests only once its session is established, and what
\* older connections left behind is no longer executed then.
LEMMA LateStep ==
  ASSUME TypeInv, LateInv, [Next]_vars
  PROVE  LateInv'
<1>0. /\ IoThreadInv /\ to_server \in Seq(Xids) /\ leftovers \in Seq(Xids)
      /\ next_sid \in Nat /\ to_send \in Seq(Xids)
  BY DEF TypeInv, TypeOK
<1>1. CASE UNCHANGED <<fd, peer_up, to_server, primer, primer_sid, next_sid, state, client_id,
                       leftovers>>
  BY <1>1 DEF LateInv
<1>2. CASE (\E c \in Calls : AppStep(c)) \/ CompletionStep \/ UNCHANGED vars
  BY <1>1, <1>2 DEF AppStep, CheckState, QueueRequest, WakeupIoThread, SyncReturn,
     CompletionStep, DeliverEvent, DeliverReply, WatcherReturn
<1>3. CASE InterestWrap \/ InterestIdle \/ SendPing \/ InterestSelect \/ Poll
           \/ BeginCleanup \/ FreeCompletion
  BY <1>1, <1>3 DEF InterestWrap, InterestIdle, SendPing, InterestSelect, Poll, BeginCleanup,
     FreeCompletion
<1>4. CASE ProcessNothing \/ NothingToFlush \/ ReceiveReply
  BY <1>1, <1>4 DEF ProcessNothing, NothingToFlush, ReceiveReply
<1>5. ASSUME LeaveToServers
      PROVE  to_server' = <<>> /\ (leftovers = <<>> /\ to_server = <<>> => leftovers' = <<>>)
  <2>1. to_server' = <<>>
    BY <1>5 DEF LeaveToServers
  <2>2. ASSUME leftovers = <<>>, to_server = <<>> PROVE leftovers' = <<>>
    <3>1. PICK k \in 0 .. 0 : leftovers' = leftovers \o SubSeq(to_server, 1, k)
      BY <1>5, <2>2 DEF LeaveToServers
    <3> QED
      BY <2>2, <3>1
  <2> QED
    BY <2>1, <2>2
<1>6. CASE Errors
  <2>1. PICK st \in States, rc \in RetCodes \ {"ZOK"} : BeginError(st, rc, sent_requests)
    BY <1>6, ErrorBegins
  <2>2. /\ ~fd' /\ ~peer_up' /\ primer' = "none" /\ UNCHANGED <<client_id, next_sid>>
        /\ LeaveToServers /\ state' = st
    BY <2>1 DEF BeginError, CloseConnection
  <2>3. st = "CONNECTED" => state = "CONNECTED"
    <3>1. \A st2, rc2, list2 : BeginError(st2, rc2, list2) => state' = st2
      BY DEF BeginError
    <3> QED
      BY <1>6, <2>2, <3>1 DEF Errors, InterestConnectFails, InterestTimeout, ProcessRefused,
         FlushFails, ReceiveFails, SessionExpired, ReceiveOutOfOrder
  <2> QED
    BY <1>5, <2>2, <2>3 DEF LateInv
<1>7. CASE ConnectionBreaks \/ EnsembleExpires
  <2>1. /\ LeaveToServers /\ ~peer_up'
        /\ UNCHANGED <<fd, primer, primer_sid, next_sid, state, client_id>>
    BY <1>7 DEF ConnectionBreaks, EnsembleExpires
  <2> QED
    BY <1>5, <2>1 DEF LateInv
<1>8. CASE EndError
  <2>1. ~fd /\ UNCHANGED <<fd, peer_up, to_server, primer, primer_sid, next_sid, client_id,
                           leftovers>>
        /\ state' \in {state, "DISCONNECTED"}
    BY <1>0, <1>8 DEF EndError, IoThreadInv
  <2> QED
    BY <2>1 DEF LateInv
<1>9. CASE InterestConnect
  <2>1. /\ ~fd /\ primer' \in {"none", "asked"} /\ state' \in {"CONNECTING", "ASSOCIATING"} /\ fd'
        /\ UNCHANGED <<to_server, next_sid, client_id, leftovers>>
    BY <1>9 DEF InterestConnect
  <2> QED
    BY <2>1 DEF LateInv
<1>10. CASE ProcessConnected
  <2>1. /\ fd /\ fd' = fd /\ state = "CONNECTING" /\ state' = "ASSOCIATING" /\ primer' = "asked"
        /\ UNCHANGED <<peer_up, to_server, next_sid, client_id, leftovers>>
    BY <1>0, <1>10 DEF ProcessConnected, IoThreadInv
  <2> QED
    BY <2>1 DEF LateInv
<1>11. CASE FlushSendQueue
  <2>1. /\ fd /\ state = "CONNECTED"
        /\ UNCHANGED <<fd, peer_up, primer, primer_sid, next_sid, state, client_id, leftovers>>
    BY <1>0, <1>11 DEF FlushSendQueue, IoThreadInv
  <2> QED
    BY <2>1 DEF LateInv
<1>12. CASE SessionEstablished
  <2>1. /\ fd /\ primer = "answered" /\ client_id \in {0, primer_sid} /\ client_id' = primer_sid
        /\ state' = "CONNECTED" /\ primer' = "done"
        /\ UNCHANGED <<fd, peer_up, to_server, next_sid, leftovers>>
    BY <1>0, <1>12 DEF SessionEstablished, IoThreadInv
  <2>2. primer_sid # 0
    BY <2>1 DEF LateInv
  <2> QED
    BY <2>1, <2>2 DEF LateInv
<1>13. CASE ServerHandshake
  <2>1. /\ peer_up /\ primer = "asked" /\ primer' = "answered"
        /\ UNCHANGED <<fd, peer_up, to_server, state, client_id>>
    BY <1>13 DEF ServerHandshake
  <2>2. CASE client_id = 0
    <3>1. primer_sid' = next_sid /\ next_sid' = next_sid + 1 /\ leftovers' = leftovers
      BY <1>13, <2>2 DEF ServerHandshake
    <3> QED
      BY <1>0, <2>1, <2>2, <3>1 DEF LateInv
  <2>3. CASE client_id # 0
    <3>1. /\ next_sid' = next_sid
          /\ \/ leftovers' = <<>>
             \/ primer_sid' = 0
      BY <1>13, <2>3 DEF ServerHandshake
    <3> QED
      BY <2>1, <2>3, <3>1 DEF LateInv
  <2> QED
    BY <2>2, <2>3
<1>14. CASE ServerReply \/ ServerSkips
  <2>1. /\ to_server # <<>>
        /\ UNCHANGED <<fd, peer_up, primer, primer_sid, next_sid, state, client_id, leftovers>>
        /\ peer_up
    BY <1>0, <1>14 DEF ServerReply, ServerSkips
  <2> QED
    BY <2>1 DEF LateInv
<1>15. CASE ServerExecutesLate
  <2>1. /\ leftovers # <<>>
        /\ UNCHANGED <<fd, peer_up, to_server, primer, primer_sid, next_sid, state, client_id>>
    BY <1>15 DEF ServerExecutesLate
  <2> QED
    BY <2>1 DEF LateInv
<1> QED
  BY <1>2, <1>3, <1>4, <1>6, <1>7, <1>8, <1>9, <1>10, <1>11, <1>12, <1>13, <1>14, <1>15
  DEF Next, do_io, zookeeper_interest, zookeeper_process, ServerStep, NetworkFault, Errors

\* The whole invariant, of every reachable state.
LEMMA OrderInvariant == Spec => []OrderInv
<1>1. ASSUME Init PROVE OrderInv
  <2>1. TypeInv
    BY <1>1, TypeInit
  <2>2. /\ sent_requests = <<>> /\ tmp_list = <<>> /\ completions_to_process = <<>>
        /\ accepted = <<>> /\ executed = <<>> /\ to_server = <<>> /\ to_send = <<>>
        /\ leftovers \o to_server = <<>> /\ leftovers = <<>>
        /\ to_client = <<>> /\ io = "interest"
        /\ call = [c \in Calls |-> "idle"] /\ result = [c \in Calls |-> <<>>]
    BY <1>1 DEF Init, InitHandle, InitEnvironment
  <2>3. \A x : ~InList(<<>>, x) /\ ~InList(XidList(<<>>), x) /\ AtMostOnce(<<>>, x)
               /\ AtMostOnce(XidList(<<>>), x)
    BY DEF InList, AtMostOnce, XidList
  <2>4. EachCallHasOnePlace /\ NothingLeftBehind
    BY <2>2, <2>3 DEF NothingLeftBehind, EachCallHasOnePlace, CallHasOnePlace, Accepted,
       Queued, BeingFreed, ReplyQueued, Answered
  <2>5. HistoryInv
    BY <2>2, <2>3 DEF HistoryInv, Accepted
  <2>6. \A acc : Chain(acc, <<>>, <<>>, <<>>) /\ Chain(acc, XidList(<<>>), <<>>, <<>>)
    BY <2>3 DEF Chain, Sorted, Precede, XidList
  <2>7. PipelineInv /\ WaitingInv
    BY <2>2, <2>3, <2>6, CallsAssumption DEF PipelineInv, WaitingInv, ReplyQueued
  <2>8. ResultInv
    BY <2>2, <2>3 DEF ResultInv, Answered
  <2>9. LateInv
    BY <1>1 DEF Init, InitHandle, InitEnvironment, LateInv
  <2> QED
    BY <2>1, <2>4, <2>5, <2>7, <2>8, <2>9 DEF OrderInv, PlaceInv
<1>2. OrderInv /\ [Next]_vars => OrderInv'
  <2> SUFFICES ASSUME OrderInv, [Next]_vars PROVE OrderInv'
    OBVIOUS
  <2>1. PlaceInv'
    BY TypeStep, PlaceStep DEF OrderInv, PlaceInv
  <2>2. LateInv'
    BY LateStep DEF OrderInv, PlaceInv
  <2> QED
    BY <2>1, <2>2, HistoryStep, PipelineStep, WaitingStep, ResultStep DEF OrderInv
<1> QED
  BY <1>1, <1>2, PTL DEF Spec

\* For every set of calls and whatever fails: the ensemble executes the requests of
\* the session in the order of the API calls that queued them, also those it executes
\* after their connection was lost, none twice and none that was not accepted, and a ZOK is the answer to a request it executed.
THEOREM ExecutionOrder == Spec => []ExecutedInOrder
<1>1. ASSUME OrderInv PROVE ExecutedInOrder
  <2>1. InOrder(executed)
    BY <1>1 DEF OrderInv, PipelineInv, Chain, Sorted, Before, InOrder, AcceptedBefore
  <2> QED
    BY <1>1, <2>1 DEF OrderInv, PipelineInv, ResultInv, ExecutedInOrder
<1> QED
  BY <1>1, OrderInvariant, PTL

\* For every set of calls and whatever fails: a request goes out only while its call
\* waits in sent_requests, so that no request is sent again once its call was answered
\* or is being answered, with the failure of its connection for instance.
THEOREM RequestsSentOnce == Spec => NotSentAgain
<1>1. ASSUME OrderInv, [Next]_vars, NEW c \in Calls, InList(to_server', c)
      PROVE  InList(to_server, c) \/ Queued(c)
  <2>0. /\ TypeInv /\ PipelineInv /\ to_server \in Seq(Xids) /\ to_send \in Seq(Xids)
    BY <1>1 DEF OrderInv, PlaceInv, TypeInv, TypeOK
  <2>1. CASE to_server' = to_server
    BY <1>1, <2>1
  <2>2. CASE FlushSendQueue
    <3>1. PICK k \in 1 .. Len(to_send) : to_server' = to_server \o SubSeq(to_send, 1, k)
      BY <2>2 DEF FlushSendQueue
    <3> DEFINE a == SubSeq(to_send, 1, k)
    <3>2. /\ a \in Seq(Xids) /\ Len(a) = k
          /\ \A i \in 1 .. k : i \in DOMAIN to_send /\ a[i] = to_send[i]
      BY <2>0, Split
    <3> HIDE DEF a
    <3>3. \A x : InList(to_server \o a, x) <=> InList(to_server, x) \/ InList(a, x)
      BY <2>0, <3>2, ConcatFacts
    <3>4. InList(a, c) => InList(to_send, c)
      BY <3>2 DEF InList
    <3> QED
      BY <1>1, <2>0, <3>1, <3>3, <3>4 DEF PipelineInv, a
  <2>3. CASE ServerReply \/ ServerSkips
    <3>1. to_server # <<>> /\ to_server' = Tail(to_server)
      BY <2>0, <2>3 DEF ServerReply, ServerSkips
    <3> QED
      BY <1>1, <2>0, <3>1, TailFacts
  <2>4. CASE Errors \/ ConnectionBreaks \/ EnsembleExpires
    <3>1. LeaveToServers
      BY <2>0, <2>4, ErrorEffect DEF ConnectionBreaks, EnsembleExpires
    <3> QED
      BY <1>1, <3>1 DEF LeaveToServers, InList
  <2>5. CASE DeliverEvent \/ DeliverReply \/ SendPing \/ SessionEstablished
             \/ ReceiveReply \/ BeginCleanup \/ FreeCompletion
    BY <2>1, <2>5 DEF DeliverEvent, DeliverReply, SendPing, SessionEstablished, ReceiveReply,
       BeginCleanup, FreeCompletion
  <2>6. CASE ServerHandshake \/ ServerExecutesLate \/ Quiet \/ \E d \in Calls : QueueRequest(d)
    BY <2>1, <2>6 DEF ServerHandshake, ServerExecutesLate, Quiet, QueueRequest
  <2> QED
    BY <1>1, <2>0, <2>2, <2>3, <2>4, <2>5, <2>6, Steps
<1>2. OrderInv /\ [Next]_vars
        => [\A c \in Calls : InList(to_server', c) => InList(to_server, c) \/ Queued(c)]_vars
  BY <1>1
<1> QED
  BY <1>2, OrderInvariant, PTL DEF Spec, NotSentAgain

-----------------------------------------------------------------------------
(* The session implements the promise of ZkCalls.                          *)

\* The status of a call as the abstract specification names it.
LEMMA StatusFacts ==
  ASSUME TypeInv
  PROVE  /\ AbstractStatus \in [Calls -> {"new", "refused", "accepted"}]
         /\ \A c \in Calls : /\ AbstractStatus[c] = "accepted" <=> Accepted(c)
                             /\ AbstractStatus[c] = "new" <=> call[c] \in {"idle", "checked"}
                             /\ AbstractStatus[c] = "refused" <=> call[c] = "refused"
<1>1. call \in [Calls -> {"idle", "refused", "checked", "queued", "waiting", "returned"}]
  BY DEF TypeInv, TypeOK
<1>2. ASSUME NEW c \in Calls
      PROVE  /\ AbstractStatus[c] \in {"new", "refused", "accepted"}
             /\ AbstractStatus[c] = "accepted" <=> Accepted(c)
             /\ AbstractStatus[c] = "new" <=> call[c] \in {"idle", "checked"}
             /\ AbstractStatus[c] = "refused" <=> call[c] = "refused"
  <2>1. call[c] \in {"idle", "refused", "checked", "queued", "waiting", "returned"}
    BY <1>1
  <2> QED
    BY <2>1 DEF AbstractStatus, Accepted
<1> QED
  BY <1>2 DEF AbstractStatus

\* A step that leaves where every call is keeps the abstract status.
LEMMA StatusKept ==
  ASSUME call' = call
  PROVE  AbstractStatus' = AbstractStatus
  BY DEF AbstractStatus

\* Handing a result to a synchronous caller is a step of the promise, and handing
\* a result to anyone else is none yet.
LEMMA HandOutRefines ==
  ASSUME TypeInv, NEW x \in Xids, NEW rc \in RetCodes, HandsOut(x, rc),
         UNCHANGED <<call, accepted>>,
         x \in Calls => Accepted(x) /\ ~Answered(x)
  PROVE  [Promise!Next]_(Promise!callVars)
<1>1. AbstractStatus' = AbstractStatus
  BY StatusKept
<1>2. CASE x \in SyncCalls
  <2>1. /\ x \in Calls /\ result[x] = <<>>
        /\ AbstractStatus[x] = "accepted"
    BY <1>2, CallsAssumption, StatusFacts DEF Answered
  <2>2. result' = [result EXCEPT ![x] = <<rc>>]
    <3>1. Append(<<>>, rc) = <<rc>>
      OBVIOUS
    <3> QED
      BY <1>2, <2>1, <3>1 DEF HandsOut
  <2>3. Promise!AnswerSync(x, rc)
    BY <1>1, <2>1, <2>2 DEF Promise!AnswerSync
  <2> QED
    BY <1>2, <2>3 DEF Promise!Next
<1>3. CASE x \notin SyncCalls
  BY <1>1, <1>3 DEF HandsOut, Promise!callVars
<1> QED
  BY <1>2, <1>3

\* The completion thread answers the oldest of the asynchronous calls that have no
\* result: every other is behind it in the chain of the waiting calls.
LEMMA DeliveryRefines ==
  ASSUME OrderInv, DeliverReply
  PROVE  Promise!Next
<1> DEFINE q == XidList(completions_to_process)
           c == Head(completions_to_process).xid
           rc == Head(completions_to_process).val
<1>0. /\ TypeInv /\ HistoryInv /\ WaitingInv /\ EachCallHasOnePlace
      /\ accepted \in Seq(Calls) /\ completions_to_process \in Seq(Completion)
  BY DEF OrderInv, PlaceInv, TypeInv, TypeOK
<1>1. /\ completions_to_process # <<>> /\ c \in Calls
      /\ result' = [result EXCEPT ![c] = Append(result[c], rc)]
      /\ UNCHANGED <<call, accepted>>
  BY DEF DeliverReply
<1>2. rc \in RetCodes
  <2>1. Head(completions_to_process) \in Completion
    BY <1>0, <1>1, TailFacts
  <2> QED
    BY <1>1, <2>1, CallsAssumption DEF Completion
<1>3. q \in Seq(Calls \union {WATCHER_EVENT_XID}) /\ q # <<>> /\ Head(q) = c
  BY <1>0, <1>1, XidListFacts
<1>4. Chain(accepted, q, tmp_list, sent_requests)
  BY <1>0 DEF WaitingInv
<1> HIDE DEF q, c, rc
<1>5. InList(q, c) /\ \A x : InList(q, x) => InList(Tail(q), x) \/ x = c
  BY <1>3, TailFacts
<1>6. Accepted(c) /\ result[c] = <<>> /\ c \notin SyncCalls
  <2>1. ReplyQueued(c)
    BY <1>5 DEF ReplyQueued, q
  <2> QED
    BY <1>0, <1>1, <2>1 DEF EachCallHasOnePlace, CallHasOnePlace, Answered, WaitingInv
<1>7. ASSUME NEW d \in Calls \ SyncCalls, Before(accepted, d, c) PROVE result[d] # <<>>
  <2>1. AtMostOnce(accepted, c) /\ AtMostOnce(accepted, d)
    BY <1>0, <1>1 DEF HistoryInv
  <2>2. d # c /\ ~Before(accepted, c, d)
    BY <1>0, <1>7, <2>1, BeforeStrict
  <2>3. ~InList(q, d)
    BY <1>1, <1>3, <1>4, <1>5, <2>2, SortedTail DEF Chain
  <2>4. ~InList(tmp_list, d) /\ ~InList(sent_requests, d)
    BY <1>1, <1>4, <1>5, <2>2 DEF Chain, Precede
  <2>5. Accepted(d)
    <3>1. InList(accepted, d)
      BY <1>7 DEF Before, InList
    <3> QED
      BY <1>0, <3>1 DEF HistoryInv
  <2> QED
    BY <1>0, <2>3, <2>4, <2>5 DEF EachCallHasOnePlace, CallHasOnePlace, Queued, BeingFreed,
       ReplyQueued, Answered, q
<1>8. Promise!AnswerAsync(c, rc)
  <2>1. AbstractStatus[c] = "accepted" /\ AbstractStatus' = AbstractStatus
    BY <1>0, <1>1, <1>6, StatusFacts, StatusKept
  <2>2. result' = [result EXCEPT ![c] = <<rc>>]
    <3>1. Append(<<>>, rc) = <<rc>>
      OBVIOUS
    <3> QED
      BY <1>1, <1>6, <3>1
  <2>3. \A d \in Calls \ SyncCalls : Promise!AcceptedBefore(d, c) => result[d] # <<>>
    BY <1>7 DEF Promise!AcceptedBefore, Before
  <2> QED
    BY <1>1, <1>6, <2>1, <2>2, <2>3 DEF Promise!AnswerAsync
<1> QED
  BY <1>1, <1>2, <1>6, <1>8 DEF Promise!Next

\* Each step is a step of the promise, or leaves what the promise is about.
LEMMA StepRefines ==
  ASSUME OrderInv, [Next]_vars
  PROVE  [Promise!Next]_(Promise!callVars)
<1>0. /\ TypeInv /\ TypeInv' /\ EachCallHasOnePlace
      /\ call \in [Calls -> {"idle", "refused", "checked", "queued", "waiting", "returned"}]
      /\ sent_requests \in Seq(Xids) /\ tmp_list \in Seq(Xids)
  BY TypeStep DEF OrderInv, PlaceInv, TypeInv, TypeOK
<1>1. CASE UNCHANGED <<call, accepted, result>>
  BY <1>1, StatusKept DEF Promise!callVars
<1>2. ASSUME NEW d \in Calls, CheckState(d) PROVE [Promise!Next]_(Promise!callVars)
  <2>1. /\ call[d] = "idle" /\ UNCHANGED <<accepted, result>>
        /\ \A c \in Calls : c # d => call'[c] = call[c]
        /\ call'[d] \in {"refused", "checked"}
    BY <1>0, <1>2 DEF CheckState
  <2>2. CASE call'[d] = "refused"
    <3>1. AbstractStatus[d] = "new"
      BY <1>0, <2>1, StatusFacts
    <3>2. AbstractStatus' = [AbstractStatus EXCEPT ![d] = "refused"]
      BY <2>1, <2>2 DEF AbstractStatus
    <3>3. Promise!Refuse(d)
      BY <2>1, <3>1, <3>2 DEF Promise!Refuse
    <3> QED
      BY <3>3 DEF Promise!Next
  <2>3. CASE call'[d] = "checked"
    <3>1. AbstractStatus' = AbstractStatus
      BY <2>1, <2>3 DEF AbstractStatus
    <3> QED
      BY <2>1, <3>1 DEF Promise!callVars
  <2> QED
    BY <2>1, <2>2, <2>3
<1>3. ASSUME NEW d \in Calls, QueueRequest(d) PROVE [Promise!Next]_(Promise!callVars)
  <2>1. /\ call[d] = "checked" /\ accepted' = Append(accepted, d) /\ result' = result
        /\ call' = [call EXCEPT ![d] = "queued"]
    BY <1>3 DEF QueueRequest
  <2>2. AbstractStatus[d] = "new"
    BY <1>0, <2>1, StatusFacts
  <2>3. AbstractStatus' = [AbstractStatus EXCEPT ![d] = "accepted"]
    BY <1>0, <2>1 DEF AbstractStatus
  <2>4. Promise!Accept(d)
    BY <2>1, <2>2, <2>3 DEF Promise!Accept
  <2> QED
    BY <2>4 DEF Promise!Next
<1>4. ASSUME NEW d \in Calls, WakeupIoThread(d) \/ SyncReturn(d)
      PROVE  [Promise!Next]_(Promise!callVars)
  <2>1. /\ call[d] \in {"queued", "waiting"} /\ UNCHANGED <<accepted, result>>
        /\ \A c \in Calls : c # d => call'[c] = call[c]
        /\ call'[d] \in {"waiting", "returned"}
    BY <1>0, <1>4 DEF WakeupIoThread, SyncReturn
  <2>2. AbstractStatus' = AbstractStatus
    BY <2>1 DEF AbstractStatus
  <2> QED
    BY <2>1, <2>2 DEF Promise!callVars
<1>5. CASE DeliverReply
  BY <1>5, DeliveryRefines
<1>6. CASE ReceiveReply
  <2> DEFINE x == Head(sent_requests)
             rc == Head(to_client).err
  <2>1. /\ HandsOut(x, rc) /\ sent_requests # <<>> /\ UNCHANGED <<call, accepted>>
    BY <1>6 DEF ReceiveReply, SyncResult, AsyncReply, HandsOut
  <2>2. x \in Xids /\ rc \in RetCodes
    <3>1. Head(to_client) \in Reply
      BY <1>0, <1>6, TailFacts DEF ReceiveReply, TypeInv, TypeOK
    <3> QED
      BY <1>0, <2>1, <3>1, TailFacts DEF Reply
  <2>3. x \in Calls => Accepted(x) /\ ~Answered(x)
    <3>1. x \in Calls => Queued(x)
      BY <1>0, <2>1, TailFacts DEF Queued
    <3> QED
      BY <1>0, <3>1 DEF EachCallHasOnePlace, CallHasOnePlace
  <2> HIDE DEF x, rc
  <2> QED
    BY <1>0, <2>1, <2>2, <2>3, HandOutRefines
<1>7. CASE FreeCompletion
  <2> DEFINE x == Head(tmp_list)
  <2>1. /\ HandsOut(x, reason) /\ tmp_list # <<>> /\ UNCHANGED <<call, accepted>>
    BY <1>7 DEF FreeCompletion, SyncResult, AsyncReply, HandsOut
  <2>2. x \in Xids /\ reason \in RetCodes
    BY <1>0, <2>1, TailFacts DEF TypeInv, TypeOK
  <2>3. x \in Calls => Accepted(x) /\ ~Answered(x)
    <3>1. x \in Calls => BeingFreed(x)
      BY <1>0, <2>1, TailFacts DEF BeingFreed
    <3> QED
      BY <1>0, <3>1 DEF EachCallHasOnePlace, CallHasOnePlace
  <2> HIDE DEF x
  <2> QED
    BY <1>0, <2>1, <2>2, <2>3, HandOutRefines
<1>8. CASE Errors
  BY <1>0, <1>1, <1>8, ErrorEffect
<1>9. CASE DeliverEvent \/ WatcherReturn \/ ServerStep \/ NetworkFault \/ UNCHANGED vars
  BY <1>1, <1>9 DEF DeliverEvent, WatcherReturn, ServerStep, ServerHandshake, ServerReply,
     NetworkFault, ServerExecutesLate, ServerSkips, ConnectionBreaks, EnsembleExpires
<1>10. CASE InterestWrap \/ InterestConnect \/ InterestIdle \/ SendPing \/ InterestSelect \/ Poll
  BY <1>1, <1>10 DEF InterestWrap, InterestConnect, InterestIdle, SendPing, InterestSelect, Poll
<1>11. CASE ProcessConnected \/ FlushSendQueue \/ NothingToFlush \/ ProcessNothing
            \/ SessionEstablished \/ BeginCleanup \/ EndError
  BY <1>1, <1>11 DEF ProcessConnected, FlushSendQueue, NothingToFlush, ProcessNothing,
     SessionEstablished, BeginCleanup, EndError
<1> QED
  BY <1>2, <1>3, <1>4, <1>5, <1>6, <1>7, <1>8, <1>9, <1>10, <1>11
  DEF Next, AppStep, CompletionStep, do_io, zookeeper_interest, zookeeper_process, Errors

\* For every set of calls and whatever fails, the session implements ZkCalls: a call
\* gets at most one result, only once it was accepted, and asynchronous calls get theirs
\* in the order of the API calls, whether from a server or from free_completions.
THEOREM SessionImplementsCalls == Spec => ImplementsCalls
<1>1. Init => Promise!Init
  <2>1. ASSUME Init PROVE AbstractStatus = [c \in Calls |-> "new"]
    BY <2>1 DEF Init, InitEnvironment, AbstractStatus
  <2> QED
    BY <2>1 DEF Init, InitEnvironment, Promise!Init
<1>2. OrderInv /\ [Next]_vars => [Promise!Next]_(Promise!callVars)
  BY StepRefines
<1> QED
  BY <1>1, <1>2, OrderInvariant, PTL DEF Spec, ImplementsCalls, Promise!Spec

-----------------------------------------------------------------------------
(* The state of the handle.  Inductive with the types: an established      *)
(* session has a socket until handle_error is done with it, a handshake    *)
(* belongs to a handle that is ASSOCIATING, and the IO thread of a session *)
(* that has expired does not go on.                                        *)

HandleInv ==
  /\ state = "CONNECTED" => fd \/ io \in {"error", "cleanup"}
  /\ primer \in {"asked", "answered"} => state = "ASSOCIATING" /\ fd
  /\ is_unrecoverable => io \in {"error", "cleanup", "done"}

\* The state in which handle_error starts.
LEMMA ErrorStates ==
  ASSUME TypeInv, HandleInv, Errors
  PROVE  /\ io \notin {"error", "cleanup", "done"} /\ io' = "error" /\ primer' = "none"
         /\ \/ SessionExpired /\ state = "ASSOCIATING" /\ state' = "EXPIRED_SESSION"
            \/ state' = state /\ state # "EXPIRED_SESSION"
         /\ completions_to_process' = ErrorEvent(state') /\ seen' = seen
<1>1. \A st, rc, requests : BeginError(st, rc, requests) =>
        /\ state' = st /\ primer' = "none" /\ io' = "error"
        /\ completions_to_process' = ErrorEvent(st) /\ seen' = seen
  BY DEF BeginError, CloseConnection
<1>2. CASE SessionExpired
  BY <1>1, <1>2 DEF SessionExpired, HandleInv
<1>3. CASE InterestConnectFails \/ InterestTimeout \/ ProcessRefused
  BY <1>1, <1>3 DEF InterestConnectFails, InterestTimeout, ProcessRefused, HandleInv,
     is_unrecoverable
<1>4. CASE FlushFails \/ ReceiveFails \/ ReceiveOutOfOrder
  BY <1>1, <1>4 DEF FlushFails, ReceiveFails, ReceiveOutOfOrder, HandleInv, is_unrecoverable
<1> QED
  BY <1>2, <1>3, <1>4 DEF Errors

LEMMA HandleStep ==
  ASSUME TypeInv, HandleInv, [Next]_vars
  PROVE  HandleInv'
<1>1. CASE UNCHANGED <<state, fd, primer, io>>
  BY <1>1 DEF HandleInv, is_unrecoverable
<1>2. CASE (\E c \in Calls : AppStep(c)) \/ CompletionStep \/ UNCHANGED vars
  BY <1>1, <1>2 DEF AppStep, CheckState, QueueRequest, WakeupIoThread, SyncReturn,
     CompletionStep, DeliverEvent, DeliverReply, WatcherReturn
<1>3. CASE ServerReply \/ NetworkFault \/ FreeCompletion
  BY <1>1, <1>3 DEF ServerReply, NetworkFault, ServerExecutesLate, ServerSkips, ConnectionBreaks,
     EnsembleExpires, FreeCompletion
<1>4. CASE ServerHandshake
  BY <1>4 DEF ServerHandshake, HandleInv, is_unrecoverable
<1>5. CASE Errors
  BY <1>5, ErrorStates DEF HandleInv, is_unrecoverable
<1>6. CASE EndError
  <2>1. ~fd
    BY <1>6 DEF EndError, TypeInv, IoThreadInv
  <2> QED
    BY <1>6, <2>1 DEF EndError, HandleInv, is_unrecoverable
<1>7. CASE InterestWrap \/ InterestIdle \/ SendPing \/ InterestSelect \/ Poll
  BY <1>7 DEF InterestWrap, InterestIdle, SendPing, InterestSelect, Poll, HandleInv,
     is_unrecoverable
<1>8. CASE InterestConnect
  BY <1>8 DEF InterestConnect, HandleInv, is_unrecoverable
<1>9. CASE ProcessConnected
  <2>1. fd
    BY <1>9 DEF ProcessConnected, TypeInv, IoThreadInv
  <2> QED
    BY <1>9, <2>1 DEF ProcessConnected, Loop, HandleInv, is_unrecoverable
<1>10. CASE SessionEstablished
  <2>1. fd
    BY <1>10 DEF SessionEstablished, TypeInv, IoThreadInv
  <2> QED
    BY <1>10, <2>1 DEF SessionEstablished, Loop, HandleInv, is_unrecoverable
<1>11. CASE FlushSendQueue \/ NothingToFlush \/ ProcessNothing \/ ReceiveReply \/ BeginCleanup
  BY <1>11 DEF FlushSendQueue, NothingToFlush, ProcessNothing, ReceiveReply, BeginCleanup, Loop,
     HandleInv, is_unrecoverable
<1> QED
  BY <1>2, <1>3, <1>4, <1>5, <1>6, <1>7, <1>8, <1>9, <1>10, <1>11
  DEF Next, do_io, zookeeper_interest, zookeeper_process, ServerStep, Errors

LEMMA HandleInit ==
  ASSUME Init
  PROVE  HandleInv
  BY DEF Init, InitHandle, InitEnvironment, HandleInv, is_unrecoverable

-----------------------------------------------------------------------------
(* The wakeup of the IO thread.                                            *)

\* Each step keeps it: a request is queued before the pipe is written to.
LEMMA WakeupStep ==
  ASSUME TypeInv, HandleInv, NoLostWakeup, [Next]_vars
  PROVE  NoLostWakeup'
<1> USE DEF NoLostWakeup
<1>0. call \in [Calls -> {"idle", "refused", "checked", "queued", "waiting", "returned"}]
  BY DEF TypeInv, TypeOK
<1>1. CASE io' # "poll"
  BY <1>1
<1>2. CASE UNCHANGED <<io, state, to_send, interest_write, self_pipe, call>>
  BY <1>2
<1>3. ASSUME NEW d \in Calls, CheckState(d) \/ SyncReturn(d) PROVE NoLostWakeup'
  <2>1. UNCHANGED <<io, state, to_send, interest_write, self_pipe>>
    BY <1>3 DEF CheckState, SyncReturn
  <2>2. \A c \in Calls : call[c] = "queued" => call'[c] = "queued"
    BY <1>0, <1>3 DEF CheckState, SyncReturn
  <2> QED
    BY <2>1, <2>2
<1>4. ASSUME NEW d \in Calls, QueueRequest(d) PROVE NoLostWakeup'
  BY <1>0, <1>4 DEF QueueRequest
<1>5. ASSUME NEW d \in Calls, WakeupIoThread(d) PROVE NoLostWakeup'
  BY <1>5 DEF WakeupIoThread
<1>6. CASE CompletionStep \/ ServerStep \/ NetworkFault \/ UNCHANGED vars
  BY <1>2, <1>6 DEF CompletionStep, DeliverEvent, DeliverReply, WatcherReturn, ServerStep,
     ServerHandshake, ServerReply, NetworkFault, ServerExecutesLate, ServerSkips,
     ConnectionBreaks, EnsembleExpires
<1>7. CASE InterestWrap
  BY <1>7 DEF InterestWrap, HandleInv
<1>8. CASE InterestConnect
  BY <1>8 DEF InterestConnect
<1>9. CASE SendPing \/ InterestSelect
  BY <1>9 DEF SendPing, InterestSelect, WriteInterest
<1>10. CASE InterestIdle \/ Poll \/ zookeeper_process \/ BeginCleanup \/ FreeCompletion
            \/ EndError \/ InterestConnectFails \/ InterestTimeout
  <2>1. io' # "poll"
    BY <1>10 DEF InterestIdle, Poll, zookeeper_process, ProcessConnected, ProcessRefused,
       FlushSendQueue, FlushFails, NothingToFlush, ReceiveFails, ProcessNothing,
       SessionEstablished, SessionExpired, ReceiveReply, ReceiveOutOfOrder, BeginCleanup,
       FreeCompletion, EndError,
       InterestConnectFails, InterestTimeout, BeginError, Loop
  <2> QED
    BY <1>1, <2>1
<1> QED
  BY <1>3, <1>4, <1>5, <1>6, <1>7, <1>8, <1>9, <1>10
  DEF Next, AppStep, do_io, zookeeper_interest

\* For every set of calls and whatever fails: the IO thread does not sleep in poll
\* over packets of an established session, unless the thread that queued one of them
\* is about to write to the wakeup pipe.
THEOREM WakeupNotLost == Spec => []NoLostWakeup
<1>1. Init => TypeInv /\ HandleInv /\ NoLostWakeup
  <2>1. Init => NoLostWakeup
    BY DEF Init, InitHandle, NoLostWakeup
  <2> QED
    BY <2>1, TypeInit, HandleInit
<1>2. TypeInv /\ HandleInv /\ NoLostWakeup /\ [Next]_vars => (TypeInv /\ HandleInv /\ NoLostWakeup)'
  BY TypeStep, HandleStep, WakeupStep
<1> QED
  BY <1>1, <1>2, PTL DEF Spec

-----------------------------------------------------------------------------
(* The events of the default watcher.                                      *)

\* The first n completions tell what they tell, whatever follows them.
LEMMA ToldPrefix ==
  ASSUME NEW s, NEW t, NEW n \in Nat, NEW st, Told(s, n, st),
         \A i \in 1 .. n : s[i] = t[i]
  PROVE  Told(t, n, st)
<1>1. \A j \in 1 .. n : \A k \in j + 1 .. n : k \in 1 .. n
  OBVIOUS
<1> QED
  BY <1>1 DEF Told, IsEvent

\* A session event is queued that may follow the last one.
LEMMA EventAppended ==
  ASSUME NEW list \in Seq(Completion), NEW st \in States, NEW last, Alternates(list),
         Told(list, Len(list), last),
         \/ st \in {"CONNECTED", "EXPIRED_SESSION"} /\ last = "CONNECTING"
         \/ st = "CONNECTING" /\ last = "CONNECTED"
  PROVE  LET new == Append(list, SessionEvent(st))
         IN Alternates(new) /\ Told(new, Len(new), st)
<1> DEFINE e == SessionEvent(st)
           new == Append(list, e)
           n == Len(list) + 1
<1>1. e \in Completion /\ e.xid = WATCHER_EVENT_XID /\ e.val = st
  BY DEF SessionEvent, Completion
<1> HIDE DEF e
<1>2. /\ n \in Nat /\ Len(list) \in Nat /\ Len(new) = n /\ DOMAIN new = 1 .. n
      /\ DOMAIN list = 1 .. Len(list) /\ new[n] = e
      /\ \A i \in 1 .. Len(list) : new[i] = list[i]
  BY <1>1
<1> HIDE DEF new
<1>3. ASSUME NEW i \in 1 .. n, NEW x, Told(list, i - 1, x) PROVE Told(new, i - 1, x)
  <2>1. i - 1 \in Nat /\ \A j \in 1 .. i - 1 : j \in 1 .. Len(list)
    BY <1>2
  <2> QED
    BY <1>2, <1>3, <2>1, ToldPrefix
<1>4. ASSUME NEW i \in 1 .. n, IsEvent(new, i)
      PROVE  \/ new[i].val = "CONNECTED" /\ Told(new, i - 1, "CONNECTING")
             \/ new[i].val = "CONNECTING" /\ Told(new, i - 1, "CONNECTED")
             \/ new[i].val = "EXPIRED_SESSION" /\ Told(new, i - 1, "CONNECTING")
  <2>1. CASE i = n
    <3>1. i - 1 = Len(list) /\ Told(new, i - 1, last)
      BY <1>2, <1>3, <2>1
    <3> QED
      BY <1>1, <1>2, <2>1, <3>1
  <2>2. CASE i # n
    <3>1. i \in DOMAIN list /\ new[i] = list[i]
      BY <1>2, <2>2
    <3> QED
      BY <1>3, <1>4, <3>1 DEF Alternates, IsEvent
  <2> QED
    BY <2>1, <2>2
<1>5. Told(new, n, st)
  <2>1. n \in 1 .. n /\ n + 1 .. n = {}
    BY <1>2
  <2> QED
    BY <1>1, <1>2, <2>1 DEF Told, IsEvent
<1> QED
  BY <1>2, <1>4, <1>5 DEF Alternates, e, new

\* A completion that is no event changes nothing when it is queued, and neither when
\* it is taken away at some place p.
LEMMA OtherAppended ==
  ASSUME NEW list \in Seq(Completion), NEW e \in Completion, e.xid # WATCHER_EVENT_XID,
         NEW last, Alternates(list), Told(list, Len(list), last)
  PROVE  LET new == Append(list, e)
         IN Alternates(new) /\ Told(new, Len(new), last)
<1> DEFINE new == Append(list, e)
           n == Len(list) + 1
<1>2. /\ n \in Nat /\ Len(list) \in Nat /\ Len(new) = n /\ DOMAIN new = 1 .. n
      /\ DOMAIN list = 1 .. Len(list) /\ new[n] = e
      /\ \A i \in 1 .. Len(list) : new[i] = list[i]
  OBVIOUS
<1> HIDE DEF new
<1>3. ASSUME NEW i \in 1 .. n, NEW x, Told(list, i - 1, x) PROVE Told(new, i - 1, x)
  <2>1. i - 1 \in Nat /\ \A j \in 1 .. i - 1 : j \in 1 .. Len(list)
    BY <1>2
  <2> QED
    BY <1>2, <1>3, <2>1, ToldPrefix
<1>4. ~IsEvent(new, n) /\ \A i \in 1 .. n : i # n => i \in DOMAIN list
  BY <1>2 DEF IsEvent
<1>5. Alternates(new)
  BY <1>2, <1>3, <1>4 DEF Alternates, IsEvent
<1>6. Told(new, n, last)
  <2>1. Told(new, Len(list), last)
    <3>1. n \in 1 .. n /\ n - 1 = Len(list)
      BY <1>2
    <3> QED
      BY <1>3, <3>1
  <2>2. /\ \A j \in 1 .. Len(list) : j \in 1 .. n
        /\ \A k \in 1 .. n : k = n \/ k \in 1 .. Len(list)
        /\ \A j \in 1 .. Len(list) : \A k \in j + 1 .. n : k = n \/ k \in j + 1 .. Len(list)
    BY <1>2
  <2> QED
    BY <1>4, <2>1, <2>2 DEF Told
<1> QED
  BY <1>2, <1>5, <1>6 DEF new

LEMMA OtherRemoved ==
  ASSUME NEW old \in Seq(Completion), NEW new \in Seq(Completion), NEW p \in 1 .. Len(old),
         ~IsEvent(old, p), Len(new) = Len(old) - 1,
         \A i \in 1 .. p - 1 : new[i] = old[i],
         \A i \in p .. Len(new) : new[i] = old[i + 1],
         NEW last, Alternates(old), Told(old, Len(old), last)
  PROVE  Alternates(new) /\ Told(new, Len(new), last)
<1>1. /\ Len(old) \in Nat /\ Len(new) \in Nat /\ p \in Nat
      /\ DOMAIN old = 1 .. Len(old) /\ DOMAIN new = 1 .. Len(new)
  OBVIOUS
<1>2. ASSUME NEW n \in p .. Len(old), NEW x, Told(old, n, x) PROVE Told(new, n - 1, x)
  <2>0. n \in Nat /\ n - 1 \in Nat /\ n - 1 <= Len(new)
    BY <1>1
  <2>1. CASE x = "CONNECTING" /\ \A j \in 1 .. n : ~IsEvent(old, j)
    <3>1. ASSUME NEW j \in 1 .. n - 1 PROVE ~IsEvent(new, j)
      <4>1. CASE j < p
        <5>1. j \in 1 .. p - 1 /\ j \in 1 .. n
          BY <1>1, <2>0, <4>1
        <5> QED
          BY <2>1, <5>1 DEF IsEvent
      <4>2. CASE j >= p
        <5>1. j \in p .. Len(new) /\ j + 1 \in 1 .. n
          BY <1>1, <2>0, <4>2
        <5> QED
          BY <2>1, <5>1 DEF IsEvent
      <4> QED
        BY <1>1, <2>0, <4>1, <4>2
    <3> QED
      BY <2>1, <3>1 DEF Told
  <2>2. CASE \E j \in 1 .. n : /\ IsEvent(old, j) /\ old[j].val = x
                               /\ \A k \in j + 1 .. n : ~IsEvent(old, k)
    <3>1. PICK j \in 1 .. n : /\ IsEvent(old, j) /\ old[j].val = x
                              /\ \A k \in j + 1 .. n : ~IsEvent(old, k)
      BY <2>2
    <3>2. j # p
      BY <3>1
    <3> DEFINE m == IF j < p THEN j ELSE j - 1
    <3>3. m \in 1 .. n - 1 /\ new[m] = old[j]
      BY <1>1, <2>0, <3>2
    <3>4. ASSUME NEW k \in m + 1 .. n - 1 PROVE ~IsEvent(new, k)
      <4>1. CASE k < p
        <5>1. k \in 1 .. p - 1 /\ k \in j + 1 .. n
          BY <1>1, <2>0, <3>2, <4>1
        <5> QED
          BY <3>1, <5>1 DEF IsEvent
      <4>2. CASE k >= p
        <5>1. k \in p .. Len(new) /\ k + 1 \in j + 1 .. n
          BY <1>1, <2>0, <3>2, <4>2
        <5> QED
          BY <3>1, <5>1 DEF IsEvent
      <4> QED
        BY <1>1, <2>0, <3>3, <4>1, <4>2
    <3> HIDE DEF m
    <3> QED
      BY <3>1, <3>3, <3>4 DEF Told, IsEvent
  <2> QED
    BY <1>2, <2>1, <2>2 DEF Told
<1>3. ASSUME NEW i \in 1 .. Len(new), IsEvent(new, i)
      PROVE  \/ new[i].val = "CONNECTED" /\ Told(new, i - 1, "CONNECTING")
             \/ new[i].val = "CONNECTING" /\ Told(new, i - 1, "CONNECTED")
             \/ new[i].val = "EXPIRED_SESSION" /\ Told(new, i - 1, "CONNECTING")
  <2>1. CASE i < p
    <3>1. /\ i \in 1 .. p - 1 /\ i \in DOMAIN old /\ new[i] = old[i]
          /\ i - 1 \in Nat /\ \A j \in 1 .. i - 1 : j \in 1 .. p - 1
      BY <1>1, <2>1
    <3>2. \A x : Told(old, i - 1, x) => Told(new, i - 1, x)
      BY <3>1, ToldPrefix
    <3> QED
      BY <1>3, <3>1, <3>2 DEF Alternates, IsEvent
  <2>2. CASE i >= p
    <3>1. /\ i \in p .. Len(old) /\ i + 1 \in DOMAIN old /\ new[i] = old[i + 1]
          /\ (i + 1) - 1 = i
      BY <1>1, <2>2
    <3>2. \A x : Told(old, i, x) => Told(new, i - 1, x)
      BY <1>2, <3>1
    <3> QED
      BY <1>3, <3>1, <3>2 DEF Alternates, IsEvent
  <2> QED
    BY <1>1, <2>1, <2>2
<1>4. Told(new, Len(new), last)
  <2>1. Len(old) \in p .. Len(old)
    BY <1>1
  <2> QED
    BY <1>2, <2>1
<1> QED
  BY <1>1, <1>3, <1>4 DEF Alternates

\* The timeline follows the two lists it is made of.
SeenEvents == [i \in DOMAIN seen |-> SessionEvent(seen[i])]

LEMMA TimelineFacts ==
  ASSUME TypeInv
  PROVE  /\ SeenEvents \in Seq(Completion) /\ completions_to_process \in Seq(Completion)
         /\ Timeline \in Seq(Completion)
         /\ \A e \in Completion : SeenEvents \o Append(completions_to_process, e) = Append(Timeline, e)
<1>1. seen \in Seq(States) /\ completions_to_process \in Seq(Completion)
  BY DEF TypeInv, TypeOK
<1>2. \A st \in States : SessionEvent(st) \in Completion
  BY DEF SessionEvent, Completion
<1>3. SeenEvents \in Seq(Completion)
  BY <1>1, <1>2 DEF SeenEvents
<1>4. Timeline = SeenEvents \o completions_to_process
  BY DEF Timeline, SeenEvents
<1>5. \A e \in Completion :
        SeenEvents \o Append(completions_to_process, e) = Append(SeenEvents \o completions_to_process, e)
  BY <1>1, <1>3, ConcatQueue
<1>6. SeenEvents \o completions_to_process \in Seq(Completion)
  BY <1>1, <1>3, ConcatFacts
<1> QED
  BY <1>1, <1>3, <1>4, <1>5, <1>6

\* A sequence that agrees with m and has e after it is Append(m, e).
LEMMA AppendedOne ==
  ASSUME NEW S, NEW m \in Seq(S), NEW n \in Seq(S), NEW e \in S,
         Len(n) = Len(m) + 1, n[Len(m) + 1] = e, \A i \in 1 .. Len(m) : n[i] = m[i]
  PROVE  n = Append(m, e)
<1>1. /\ Append(m, e) \in Seq(S) /\ Len(Append(m, e)) = Len(m) + 1
      /\ Append(m, e)[Len(m) + 1] = e /\ \A i \in 1 .. Len(m) : Append(m, e)[i] = m[i]
  OBVIOUS
<1>2. \A i \in 1 .. Len(n) : n[i] = Append(m, e)[i]
  BY <1>1
<1> QED
  BY <1>1, <1>2, SeqEqual

\* Each step keeps the events in line with the state.
LEMMA EventsStep ==
  ASSUME TypeInv, HandleInv, SessionEventsTellState, [Next]_vars
  PROVE  SessionEventsTellState'
<1>0. /\ SeenEvents \in Seq(Completion) /\ completions_to_process \in Seq(Completion)
      /\ Timeline \in Seq(Completion) /\ seen \in Seq(States)
      /\ \A e \in Completion : SeenEvents \o Append(completions_to_process, e) = Append(Timeline, e)
      /\ Alternates(Timeline) /\ Told(Timeline, Len(Timeline), StateToTell)
  BY TimelineFacts DEF SessionEventsTellState, TypeInv, TypeOK
<1>a. Timeline = SeenEvents \o completions_to_process
      /\ Timeline' = SeenEvents' \o completions_to_process'
  BY DEF Timeline, SeenEvents
<1>1. CASE Timeline' = Timeline /\ StateToTell' = StateToTell
  BY <1>0, <1>1 DEF SessionEventsTellState
<1>2. ASSUME UNCHANGED <<seen, completions_to_process>>, StateToTell' = StateToTell
      PROVE  SessionEventsTellState'
  BY <1>1, <1>2 DEF Timeline
<1>3. ASSUME NEW e \in Completion, e.xid # WATCHER_EVENT_XID, seen' = seen,
             completions_to_process' = Append(completions_to_process, e),
             StateToTell' = StateToTell
      PROVE  SessionEventsTellState'
  <2>1. Timeline' = Append(Timeline, e)
    BY <1>0, <1>3, <1>a DEF SeenEvents
  <2> QED
    BY <1>0, <1>3, <2>1, OtherAppended DEF SessionEventsTellState
<1>4. ASSUME NEW st \in States, seen' = seen, StateToTell' = st,
             completions_to_process' = Append(completions_to_process, SessionEvent(st)),
             \/ st \in {"CONNECTED", "EXPIRED_SESSION"} /\ StateToTell = "CONNECTING"
             \/ st = "CONNECTING" /\ StateToTell = "CONNECTED"
      PROVE  SessionEventsTellState'
  <2>1. SessionEvent(st) \in Completion
    BY DEF SessionEvent, Completion
  <2>2. Timeline' = Append(Timeline, SessionEvent(st))
    BY <1>0, <1>4, <1>a, <2>1 DEF SeenEvents
  <2> QED
    BY <1>0, <1>4, <2>2, EventAppended DEF SessionEventsTellState
<1>5. ASSUME UNCHANGED <<state, io>> PROVE StateToTell' = StateToTell
  BY <1>5 DEF StateToTell, is_unrecoverable
<1>6. CASE (\E c \in Calls : AppStep(c)) \/ WatcherReturn \/ ServerStep \/ NetworkFault
           \/ UNCHANGED vars
  BY <1>2, <1>5, <1>6 DEF AppStep, CheckState, QueueRequest, WakeupIoThread, SyncReturn,
     WatcherReturn, ServerStep, ServerHandshake, ServerReply, NetworkFault, ServerExecutesLate,
     ServerSkips, ConnectionBreaks, EnsembleExpires
<1>7. CASE DeliverEvent
  <2> DEFINE cptr == Head(completions_to_process)
  <2>1. /\ completions_to_process # <<>> /\ cptr.xid = WATCHER_EVENT_XID
        /\ seen' = Append(seen, cptr.val)
        /\ completions_to_process' = Tail(completions_to_process)
        /\ UNCHANGED <<state, io>>
    BY <1>7 DEF DeliverEvent
  <2>2. cptr \in Completion
    BY <1>0, <2>1, TailFacts
  <2>3. cptr.val \in States /\ cptr = SessionEvent(cptr.val)
    BY <2>1, <2>2, CallsAssumption DEF Completion, SessionEvent
  <2>4. SeenEvents' = Append(SeenEvents, SessionEvent(cptr.val))
    <3> DEFINE st == cptr.val
    <3>1. seen' = Append(seen, st) /\ st \in States
      BY <2>1, <2>3
    <3> HIDE DEF st
    <3>2. /\ DOMAIN seen' = 1 .. Len(seen) + 1 /\ seen'[Len(seen) + 1] = st
          /\ \A i \in 1 .. Len(seen) : seen'[i] = seen[i]
      BY <1>0, <3>1
    <3>3. SessionEvent(st) \in Completion
      BY <3>1 DEF SessionEvent, Completion
    <3>4. /\ SeenEvents' \in Seq(Completion) /\ Len(SeenEvents') = Len(seen) + 1
          /\ \A i \in 1 .. Len(seen) + 1 : SeenEvents'[i] = SessionEvent(seen'[i])
      <4>1. seen' \in Seq(States) /\ Len(seen') = Len(seen) + 1
        BY <1>0, <3>1
      <4>2. \A x \in States : SessionEvent(x) \in Completion
        BY DEF SessionEvent, Completion
      <4> QED
        BY <3>2, <4>1, <4>2 DEF SeenEvents
    <3>5. Len(SeenEvents) = Len(seen) /\ \A i \in 1 .. Len(seen) : SeenEvents[i] = SessionEvent(seen[i])
      BY <1>0 DEF SeenEvents
    <3>6. /\ Len(SeenEvents') = Len(SeenEvents) + 1
          /\ SeenEvents'[Len(SeenEvents) + 1] = SessionEvent(st)
          /\ \A i \in 1 .. Len(SeenEvents) : SeenEvents'[i] = SeenEvents[i]
      <4>1. Len(seen) \in Nat
        BY <1>0
      <4>2. Len(seen) + 1 \in 1 .. Len(seen) + 1 /\ \A i \in 1 .. Len(seen) : i \in 1 .. Len(seen) + 1
        BY <4>1
      <4>3. SeenEvents'[Len(seen) + 1] = SessionEvent(st)
        BY <3>2, <3>4, <4>2
      <4>4. \A i \in 1 .. Len(seen) : SeenEvents'[i] = SessionEvent(seen[i])
        BY <3>2, <3>4, <4>2
      <4> QED
        BY <3>4, <3>5, <4>3, <4>4
    <3> QED
      BY <1>0, <3>3, <3>4, <3>6, AppendedOne DEF st
  <2>5. Append(SeenEvents, cptr) \o Tail(completions_to_process) = SeenEvents \o completions_to_process
    <3>1. /\ SeenEvents \in Seq(Completion) /\ completions_to_process \in Seq(Completion)
          /\ completions_to_process # <<>>
      BY <1>0, <2>1
    <3> QED
      BY <3>1, ConcatQueue
  <2>6. Timeline' = Timeline
    BY <1>a, <2>1, <2>3, <2>4, <2>5
  <2> QED
    BY <1>1, <1>5, <2>1, <2>6
<1>8. CASE DeliverReply
  <2> DEFINE m == SeenEvents
             list == completions_to_process
             p == Len(m) + 1
  <2>1. /\ list # <<>> /\ Head(list).xid # WATCHER_EVENT_XID /\ list' = Tail(list)
        /\ UNCHANGED <<seen, state, io>>
    BY <1>8, CallsAssumption DEF DeliverReply
  <2>2. Tail(list) \in Seq(Completion) /\ m' = m
    BY <1>0, <2>1, TailFacts DEF SeenEvents
  <2>3. /\ Len(m) \in Nat /\ Len(list) \in Nat /\ Len(list) > 0 /\ Len(Tail(list)) = Len(list) - 1
        /\ DOMAIN m = 1 .. Len(m) /\ DOMAIN list = 1 .. Len(list)
        /\ DOMAIN Tail(list) = 1 .. Len(list) - 1
        /\ Head(list) = list[1]
        /\ \A i \in 1 .. Len(list) - 1 : Tail(list)[i] = list[i + 1]
    BY <1>0, <2>1
  <2> HIDE DEF m, list
  <2>4. /\ m \o list \in Seq(Completion) /\ Len(m \o list) = Len(m) + Len(list)
        /\ \A i \in DOMAIN m : (m \o list)[i] = m[i]
        /\ \A i \in DOMAIN list : (m \o list)[Len(m) + i] = list[i]
    BY <1>0, ConcatFacts DEF m, list
  <2>5. /\ m \o Tail(list) \in Seq(Completion) /\ Len(m \o Tail(list)) = Len(m) + Len(list) - 1
        /\ \A i \in DOMAIN m : (m \o Tail(list))[i] = m[i]
        /\ \A i \in DOMAIN Tail(list) : (m \o Tail(list))[Len(m) + i] = Tail(list)[i]
    <3>1. m \in Seq(Completion)
      BY <1>0 DEF m
    <3> QED
      BY <2>2, <2>3, <3>1, ConcatFacts
  <2> DEFINE old == m \o list
             new == m \o Tail(list)
  <2>6. p \in 1 .. Len(old) /\ ~IsEvent(old, p) /\ Len(new) = Len(old) - 1
    <3>1. 1 \in DOMAIN list /\ old[Len(m) + 1] = list[1]
      BY <2>3, <2>4
    <3> QED
      BY <2>1, <2>3, <2>4, <2>5, <3>1 DEF IsEvent
  <2>7. \A i \in 1 .. p - 1 : new[i] = old[i]
    BY <2>3, <2>4, <2>5
  <2>8. ASSUME NEW i \in p .. Len(new) PROVE new[i] = old[i + 1]
    <3> DEFINE j == i - Len(m)
    <3>1. /\ j \in DOMAIN Tail(list) /\ j + 1 \in DOMAIN list
          /\ Len(m) + j = i /\ Len(m) + (j + 1) = i + 1
      BY <2>3, <2>5
    <3> HIDE DEF j
    <3>2. new[i] = Tail(list)[j] /\ old[i + 1] = list[j + 1]
      BY <2>4, <2>5, <3>1
    <3> QED
      BY <2>3, <3>1, <3>2
  <2>9. Timeline = old /\ Timeline' = new
    BY <1>a, <2>1, <2>2 DEF m, list
  <2> HIDE DEF old, new
  <2>10. old \in Seq(Completion) /\ new \in Seq(Completion)
    BY <2>4, <2>5 DEF old, new
  <2>11. Alternates(old) /\ Told(old, Len(old), StateToTell)
    BY <1>0, <2>9
  <2>12. Alternates(new) /\ Told(new, Len(new), StateToTell)
    BY <2>6, <2>7, <2>8, <2>10, <2>11, OtherRemoved
  <2> QED
    BY <1>5, <2>1, <2>9, <2>12 DEF SessionEventsTellState
<1>9. CASE InterestWrap \/ InterestIdle \/ SendPing \/ InterestSelect \/ Poll
           \/ FlushSendQueue \/ NothingToFlush \/ ProcessNothing \/ BeginCleanup
  <2>1. /\ UNCHANGED <<seen, completions_to_process, state>>
        /\ io \in {"error", "cleanup"} <=> io' \in {"error", "cleanup"}
    BY <1>9 DEF InterestWrap, InterestIdle, SendPing, InterestSelect, Poll, FlushSendQueue,
       NothingToFlush, ProcessNothing, BeginCleanup, Loop
  <2>2. StateToTell' = StateToTell
    BY <2>1 DEF StateToTell, is_unrecoverable
  <2> QED
    BY <1>2, <2>1, <2>2
<1>10. CASE InterestConnect \/ ProcessConnected
  <2>1. /\ UNCHANGED <<seen, completions_to_process>>
        /\ state \notin {"CONNECTED", "EXPIRED_SESSION"}
        /\ state' \in {"CONNECTING", "ASSOCIATING"}
    BY <1>10 DEF InterestConnect, ProcessConnected, Loop, HandleInv, is_unrecoverable
  <2>2. StateToTell' = StateToTell
    BY <2>1 DEF StateToTell, is_unrecoverable
  <2> QED
    BY <1>2, <2>1, <2>2
<1>11. CASE EndError
  <2>1. /\ UNCHANGED <<seen, completions_to_process>> /\ io = "cleanup"
        /\ state' = IF is_unrecoverable THEN state ELSE "DISCONNECTED"
    BY <1>11 DEF EndError
  <2>2. StateToTell' = StateToTell
    BY <2>1 DEF StateToTell, is_unrecoverable
  <2> QED
    BY <1>2, <2>1, <2>2
<1>12. CASE SessionEstablished
  <2>1. /\ seen' = seen /\ state = "ASSOCIATING" /\ state' = "CONNECTED"
        /\ io' \notin {"error", "cleanup"} /\ "CONNECTED" \in States
        /\ completions_to_process' = Append(completions_to_process, SessionEvent("CONNECTED"))
    BY <1>12 DEF SessionEstablished, Loop, queue_completion, HandleInv, States
  <2>2. StateToTell = "CONNECTING" /\ StateToTell' = "CONNECTED"
    BY <2>1 DEF StateToTell, is_unrecoverable
  <2> QED
    BY <1>4, <2>1, <2>2
<1>13. CASE Errors
  <2>0. /\ io \notin {"error", "cleanup"} /\ io' = "error" /\ seen' = seen
        /\ completions_to_process' = ErrorEvent(state')
    BY <1>13, ErrorStates
  <2>1. CASE state = "ASSOCIATING" /\ state' = "EXPIRED_SESSION"
    <3>1. /\ completions_to_process' = Append(completions_to_process, SessionEvent("EXPIRED_SESSION"))
          /\ "EXPIRED_SESSION" \in States
      BY <2>0, <2>1 DEF ErrorEvent, queue_completion, States
    <3>2. StateToTell = "CONNECTING" /\ StateToTell' = "EXPIRED_SESSION"
      BY <2>0, <2>1 DEF StateToTell, is_unrecoverable
    <3> QED
      BY <1>4, <2>0, <3>1, <3>2
  <2>2. CASE state = "CONNECTED" /\ state' = "CONNECTED"
    <3>1. /\ completions_to_process' = Append(completions_to_process, SessionEvent("CONNECTING"))
          /\ "CONNECTING" \in States
      BY <2>0, <2>2 DEF ErrorEvent, queue_completion, States
    <3>2. StateToTell = "CONNECTED" /\ StateToTell' = "CONNECTING"
      BY <2>0, <2>2 DEF StateToTell, is_unrecoverable
    <3> QED
      BY <1>4, <2>0, <3>1, <3>2
  <2>3. CASE state' = state /\ state \notin {"CONNECTED", "EXPIRED_SESSION"}
    <3>1. completions_to_process' = completions_to_process
      BY <2>0, <2>3 DEF ErrorEvent
    <3>2. StateToTell' = StateToTell
      BY <2>0, <2>3 DEF StateToTell, is_unrecoverable
    <3> QED
      BY <1>2, <2>0, <3>1, <3>2
  <2> QED
    BY <1>13, <2>1, <2>2, <2>3, ErrorStates
<1>14. ASSUME NEW x \in Xids, NEW rc \in RetCodes, HandsOut(x, rc), seen' = seen,
              StateToTell' = StateToTell
       PROVE  SessionEventsTellState'
  <2>1. CASE x \in SyncCalls \/ x = PING_XID
    BY <1>2, <1>14, <2>1 DEF HandsOut
  <2>2. CASE x \notin SyncCalls /\ x # PING_XID
    <3>1. /\ [xid |-> x, val |-> rc] \in Completion
          /\ [xid |-> x, val |-> rc].xid # WATCHER_EVENT_XID
      BY <2>2, CallsAssumption DEF Completion, Xids
    <3>2. completions_to_process' = Append(completions_to_process, [xid |-> x, val |-> rc])
      BY <1>14, <2>2 DEF HandsOut, queue_completion
    <3> QED
      BY <1>3, <1>14, <3>1, <3>2
  <2> QED
    BY <2>1, <2>2
<1>15. CASE ReceiveReply
  <2>1. /\ HandsOut(Head(sent_requests), Head(to_client).err) /\ seen' = seen
        /\ state' = state /\ io \notin {"error", "cleanup"} /\ io' \notin {"error", "cleanup"}
        /\ sent_requests # <<>> /\ to_client # <<>>
    BY <1>15 DEF ReceiveReply, SyncResult, AsyncReply, HandsOut, Loop
  <2>2. Head(sent_requests) \in Xids /\ Head(to_client) \in Reply
    BY <2>1, TailFacts DEF TypeInv, TypeOK
  <2>3. Head(to_client).err \in RetCodes
    BY <2>2 DEF Reply
  <2>4. StateToTell' = StateToTell
    BY <2>1 DEF StateToTell, is_unrecoverable
  <2> QED
    BY <1>14, <2>1, <2>2, <2>3, <2>4
<1>16. CASE FreeCompletion
  <2>1. /\ HandsOut(Head(tmp_list), reason) /\ UNCHANGED <<seen, state, io>> /\ tmp_list # <<>>
    BY <1>16 DEF FreeCompletion, SyncResult, AsyncReply, HandsOut
  <2>2. Head(tmp_list) \in Xids /\ reason \in RetCodes
    BY <2>1, TailFacts DEF TypeInv, TypeOK
  <2> QED
    BY <1>5, <1>14, <2>1, <2>2
<1> QED
  BY <1>6, <1>7, <1>8, <1>9, <1>10, <1>11, <1>12, <1>13, <1>15, <1>16
  DEF Next, CompletionStep, do_io, zookeeper_interest, zookeeper_process, Errors

\* For every set of calls and whatever fails: the watcher is told CONNECTED and
\* CONNECTING in turns, EXPIRED_SESSION at most once and last, and the events it has
\* seen and those that are queued lead to the state of the handle.
THEOREM EventsTellState == Spec => []SessionEventsTellState
<1> DEFINE Inv == TypeInv /\ HandleInv /\ SessionEventsTellState
<1>1. Init => Inv
  <2>1. ASSUME Init PROVE SessionEventsTellState
    <3>1. Timeline = <<>> /\ StateToTell = "CONNECTING"
      BY <2>1 DEF Init, InitHandle, InitEnvironment, Timeline, StateToTell, is_unrecoverable
    <3>2. Alternates(<<>>) /\ Told(<<>>, Len(<<>>), "CONNECTING")
      BY DEF Alternates, Told
    <3> QED
      BY <3>1, <3>2 DEF SessionEventsTellState
  <2> QED
    BY <2>1, TypeInit, HandleInit
<1>2. Inv /\ [Next]_vars => Inv'
  BY TypeStep, HandleStep, EventsStep
<1>3. Inv => SessionEventsTellState
  OBVIOUS
<1> HIDE DEF Inv
<1> QED
  BY <1>1, <1>2, <1>3, PTL DEF Spec
=============================================================================
