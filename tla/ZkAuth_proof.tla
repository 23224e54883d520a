---------------------------- MODULE ZkAuth_proof ----------------------------
(***************************************************************************)
(* Authentication in the ZooKeeper client, for any number of credentials   *)
(* and requests, any number of pieces per packet and any number of lost    *)
(* connections: what completions are told, that credentials go first on    *)
(* every connection, and that only zoo_add_auth can garble the stream.     *)
(***************************************************************************)
EXTENDS ZkAuth, SequenceTheorems, TLAPS

Codes == {"ZOK", "ZCONNECTIONLOSS", "ZAUTHFAILED", "ZSESSIONEXPIRED"}

Queueable == [id : Packets, curr_offset : 0 .. Parts - 1]

Pieces == [id : Packets, part : 1 .. Parts]

AuthType ==
  /\ state \in States
  /\ auth_h \in Seq(Auths)
  /\ pending \in SUBSET Auths
  /\ to_send \in Seq(Queueable)
  /\ apc \in [Auths -> {"new", "refused", "add", "test", "send", "done"}]
  /\ results \in [Auths -> Seq(Codes)]
  /\ wire \in Seq(Pieces)
  /\ replies \in Seq({"ok", "failed"})
  /\ granted \in SUBSET Auths
  /\ served \in SUBSET Packets
  /\ required \in SUBSET Auths
  /\ overtaken \in BOOLEAN

\* A call that is about to send a credential has added one.
AddedInv == \A a \in Auths : apc[a] \in {"test", "send"} => auth_h # <<>>

\* A completion waits only between the call that leaves it and its only result; an
\* accepting reply under way comes from a credential the server has granted.
CompletionInv ==
  /\ \A a \in Auths : apc[a] \in {"new", "refused", "add"} => a \notin pending /\ results[a] = <<>>
  /\ \A a \in pending : results[a] = <<>>
  /\ \A a \in Auths : results[a] = <<>> \/ \E rc \in Codes : results[a] = <<rc>>
  /\ \A i \in 1 .. Len(replies) : replies[i] = "ok" => granted # {}
  /\ \A a \in Auths : results[a] = <<"ZOK">> => granted # {}
  /\ \A a \in Auths : results[a] = <<"ZAUTHFAILED">> => state = "AUTH_FAILED"
  /\ \A a \in Auths : results[a] = <<"ZSESSIONEXPIRED">> => state = "EXPIRED_SESSION"

\* Nothing is sent, and no packet sent in part, except on an established connection.
Unconnected ==
  state # "CONNECTED" =>
    /\ wire = <<>> /\ served = {} /\ required = {} /\ ~overtaken
    /\ \A i \in 1 .. Len(to_send) : to_send[i].curr_offset = 0

\* A credential that the server should have has all its pieces on the wire, behind
\* pieces of credentials only, or is still to be sent, and behind credentials only.
OnWire(a) ==
  \E i \in 1 .. Len(wire) : /\ wire[i] = [id |-> a, part |-> Parts]
                            /\ \A j \in 1 .. i : wire[j].id \in Auths

ToBeSent(a) ==
  /\ \A j \in 1 .. Len(wire) : wire[j].id \in Auths
  /\ \E i \in 1 .. Len(to_send) : /\ to_send[i].id = a
                                  /\ \A j \in 1 .. i : to_send[j].id \in Auths

FirstInv == \A a \in required : a \in served \/ OnWire(a) \/ ToBeSent(a)

\* Unless a packet was overtaken, only the head of to_send is sent in part, and the
\* wire ends with the piece that was sent last of it, or with a whole packet.
Follows(x, y) ==
  \/ x.part = Parts /\ y.part = 1
  \/ y = [id |-> x.id, part |-> x.part + 1]

StreamInv ==
  ~overtaken =>
    /\ \A i \in 1 .. Len(wire) - 1 : Follows(wire[i], wire[i + 1])
    /\ \A i \in 2 .. Len(to_send) : to_send[i].curr_offset = 0
    /\ to_send # <<>> /\ to_send[1].curr_offset > 0 =>
         /\ wire # <<>>
         /\ wire[Len(wire)] = [id |-> to_send[1].id, part |-> to_send[1].curr_offset]
    /\ wire # <<>> /\ wire[Len(wire)].part # Parts =>
         to_send # <<>> /\ to_send[1].curr_offset > 0

AuthInv ==
  AuthType /\ AddedInv /\ CompletionInv /\ Unconnected /\ FirstInv /\ StreamInv

-----------------------------------------------------------------------------
(* Packets at the head of the queue, and the sends.                        *)

\* What is in a queue that follows a list of one packet.
LEMMA Prepended ==
  ASSUME NEW S, NEW s \in Seq(S), NEW t \in Seq(S), Len(s) = 1
  PROVE  /\ s \o t \in Seq(S) /\ Len(s \o t) = 1 + Len(t)
         /\ (s \o t)[1] = s[1]
         /\ \A i \in 2 .. Len(s \o t) : (s \o t)[i] = t[i - 1]
<1>1. /\ s \o t \in Seq(S) /\ Len(s \o t) = Len(s) + Len(t)
      /\ \A i \in 1 .. Len(s) + Len(t) :
           (s \o t)[i] = IF i <= Len(s) THEN s[i] ELSE t[i - Len(s)]
  BY ConcatProperties, Zenon
<1> DEFINE c == s \o t
<1>2. /\ c \in Seq(S) /\ Len(c) = 1 + Len(t) /\ Len(t) \in Nat
      /\ \A i \in 1 .. 1 + Len(t) : c[i] = IF i <= 1 THEN s[i] ELSE t[i - 1]
  BY <1>1
<1> HIDE DEF c
<1>3. c[1] = s[1] /\ \A i \in 2 .. Len(c) : c[i] = t[i - 1]
  BY <1>2
<1> QED
  BY <1>2, <1>3 DEF c

\* Credentials that were pushed to the front stand in front of what was queued.
LEMMA Pushed ==
  ASSUME NEW auths \in Seq(Auths), NEW q \in Seq(Queueable)
  PROVE  /\ send_info_packet(auths, q) \in Seq(Queueable)
         /\ Len(send_info_packet(auths, q)) = Len(auths) + Len(q)
         /\ \A i \in 1 .. Len(auths) :
              send_info_packet(auths, q)[i] = Packet(auths[Len(auths) - i + 1])
         /\ \A i \in 1 .. Len(q) : send_info_packet(auths, q)[Len(auths) + i] = q[i]
<1> DEFINE front == [i \in DOMAIN auths |-> Packet(Reverse(auths)[i])]
<1>1. ASSUME NEW i \in 1 .. Len(auths)
      PROVE  /\ Reverse(auths)[i] = auths[Len(auths) - i + 1]
             /\ auths[Len(auths) - i + 1] \in Auths
  BY DEF Reverse
<1>2. \A a \in Auths : Packet(a) \in Queueable
  BY AuthAssumption DEF Packet, Queueable, Packets
<1>3. front \in Seq(Queueable) /\ Len(front) = Len(auths)
  <2>1. DOMAIN auths = 1 .. Len(auths) /\ Len(auths) \in Nat
    OBVIOUS
  <2>2. front \in [1 .. Len(auths) -> Queueable]
    BY <1>1, <1>2, <2>1
  <2> QED
    BY <2>1, <2>2
<1>4. \A i \in 1 .. Len(auths) : front[i] = Packet(auths[Len(auths) - i + 1])
  BY <1>1
<1> HIDE DEF front
<1>5. /\ front \o q \in Seq(Queueable) /\ Len(front \o q) = Len(front) + Len(q)
      /\ \A i \in 1 .. Len(front) : (front \o q)[i] = front[i]
      /\ \A i \in 1 .. Len(q) : (front \o q)[Len(front) + i] = q[i]
  BY <1>3
<1> QED
  BY <1>3, <1>4, <1>5 DEF send_info_packet, front

\* SendLast queues the credential that was added last.
LEMMA PushedOne ==
  ASSUME AuthType, AddedInv, NEW a \in Auths, SendLast(a)
  PROVE  /\ to_send' \in Seq(Queueable) /\ Len(to_send') = Len(to_send) + 1
         /\ to_send'[1].id \in Auths /\ to_send'[1].curr_offset = 0
         /\ \A i \in 2 .. Len(to_send) + 1 : to_send'[i] = to_send[i - 1]
<1> DEFINE auths == <<Last(auth_h)>>
<1>1. auths \in Seq(Auths) /\ Len(auths) = 1 /\ auths[1] \in Auths
  BY DEF SendLast, AuthType, AddedInv, Last
<1>2. to_send' = send_info_packet(auths, to_send) /\ to_send \in Seq(Queueable)
  BY DEF SendLast, AuthType
<1> HIDE DEF auths
<1>3. PICK q : q = send_info_packet(auths, to_send)
  OBVIOUS
<1>4. /\ q \in Seq(Queueable) /\ Len(q) = Len(auths) + Len(to_send)
      /\ \A i \in 1 .. Len(auths) : q[i] = Packet(auths[Len(auths) - i + 1])
      /\ \A i \in 1 .. Len(to_send) : q[Len(auths) + i] = to_send[i]
  BY <1>1, <1>2, <1>3, Pushed
<1>5. /\ Len(q) = Len(to_send) + 1 /\ q[1] = Packet(auths[1])
      /\ \A i \in 1 .. Len(to_send) : q[1 + i] = to_send[i]
  BY <1>1, <1>2, <1>4
<1>6. ASSUME NEW i \in 2 .. Len(to_send) + 1 PROVE q[i] = to_send[i - 1]
  <2>1. i - 1 \in 1 .. Len(to_send) /\ 1 + (i - 1) = i
    BY <1>2
  <2> QED
    BY <1>5, <2>1
<1> QED
  BY <1>1, <1>2, <1>3, <1>4, <1>5, <1>6 DEF Packet

\* One send takes one piece of the head of the queue.
LEMMA Sent ==
  ASSUME NEW q \in Seq(Queueable), q # <<>>
  PROVE  LET last == Head(q).curr_offset + 1 = Parts
         IN  /\ Unsent(q) \in Seq(Queueable)
             /\ last => /\ Len(Unsent(q)) = Len(q) - 1
                        /\ \A i \in 1 .. Len(q) - 1 : Unsent(q)[i] = q[i + 1]
             /\ ~last => /\ Len(Unsent(q)) = Len(q)
                         /\ \A i \in 2 .. Len(q) : Unsent(q)[i] = q[i]
                         /\ Unsent(q)[1] = [id |-> q[1].id, curr_offset |-> q[1].curr_offset + 1]
<1>0. Parts \in Nat \ {0}
  BY AuthAssumption
<1>1. Head(q) = q[1] /\ q[1] \in Queueable /\ Len(q) \in Nat \ {0}
  OBVIOUS
<1>2. q[1].id \in Packets /\ q[1].curr_offset \in 0 .. Parts - 1
  BY <1>1 DEF Queueable
<1>3. CASE Head(q).curr_offset + 1 = Parts
  BY <1>3 DEF Unsent
<1>4. CASE Head(q).curr_offset + 1 # Parts
  <2> DEFINE new == [id |-> q[1].id, curr_offset |-> q[1].curr_offset + 1]
  <2>1. new \in Queueable
    BY <1>0, <1>1, <1>2, <1>4, SMTT(20) DEF Queueable
  <2>2. ASSUME NEW x \in Queueable, NEW y
        PROVE  [x EXCEPT !.curr_offset = y] = [id |-> x.id, curr_offset |-> y]
    BY DEF Queueable
  <2>3. [q[1] EXCEPT !.curr_offset = q[1].curr_offset + 1] = new
    BY <1>1, <2>2
  <2>4. Unsent(q) = [q EXCEPT ![1] = new]
    BY <1>4, <2>3 DEF Unsent
  <2> HIDE DEF new
  <2>5. /\ [q EXCEPT ![1] = new] \in Seq(Queueable) /\ Len([q EXCEPT ![1] = new]) = Len(q)
        /\ \A i \in 2 .. Len(q) : [q EXCEPT ![1] = new][i] = q[i]
        /\ [q EXCEPT ![1] = new][1] = new
    BY <1>1, <2>1
  <2> QED
    BY <1>4, <2>4, <2>5 DEF new
<1> QED
  BY <1>3, <1>4

\* The server takes the first Parts pieces off the wire.
LEMMA Read ==
  ASSUME NEW w \in Seq(Pieces), Len(w) >= Parts
  PROVE  LET rest == SubSeq(w, Parts + 1, Len(w))
         IN  /\ rest \in Seq(Pieces) /\ Len(rest) = Len(w) - Parts
             /\ \A i \in 1 .. Len(w) - Parts : rest[i] = w[Parts + i]
<1>1. Parts \in Nat \ {0} /\ Len(w) \in Nat
  BY AuthAssumption
<1>2. \A i \in Parts + 1 .. Len(w) : w[i] \in Pieces
  BY <1>1
<1> QED
  BY <1>1, <1>2

\* What a lost or refused connection leaves behind.
LEMMA Dropped ==
  ASSUME ConnectionLost \/ SessionExpired \/ AuthFailed \/ ServerGivesUp
  PROVE  \E rc \in Codes \ {"ZOK"} :
           /\ CallCompletions(rc)
           /\ state' \in {"0", "AUTH_FAILED", "EXPIRED_SESSION"} /\ ~is_unrecoverable
           /\ rc = "ZAUTHFAILED" => state' = "AUTH_FAILED"
           /\ rc = "ZSESSIONEXPIRED" => state' = "EXPIRED_SESSION"
           /\ to_send' = <<>> /\ wire' = <<>> /\ replies' = <<>>
           /\ served' = {} /\ required' = {} /\ overtaken' = FALSE
           /\ UNCHANGED <<auth_h, apc, granted>>
  BY DEF ConnectionLost, SessionExpired, AuthFailed, ServerGivesUp, Disconnect, Codes,
     is_unrecoverable

\* A completion gets the code when it was pending, and only then.
LEMMA Called ==
  ASSUME NEW rc \in Codes, CallCompletions(rc), AuthType, CompletionInv
  PROVE  /\ pending' = {} /\ results' \in [Auths -> Seq(Codes)]
         /\ \A a \in Auths : results'[a] = results[a] \/ (a \in pending /\ results'[a] = <<rc>>)
<1>1. pending' = {} /\ results' = [a \in Auths |-> IF a \in pending THEN Append(results[a], rc)
                                                    ELSE results[a]]
  BY DEF CallCompletions
<1>2. \A a \in pending : Append(results[a], rc) = <<rc>>
  <2>1. Append(<<>>, rc) = <<rc>>
    OBVIOUS
  <2>2. \A a \in pending : results[a] = <<>>
    BY DEF CompletionInv
  <2> QED
    BY <2>1, <2>2, Zenon
<1>3. \A a \in Auths : results'[a] = IF a \in pending THEN <<rc>> ELSE results[a]
  BY <1>1, <1>2
<1>4. <<rc>> \in Seq(Codes)
  OBVIOUS
<1>5. results' = [a \in Auths |-> IF a \in pending THEN <<rc>> ELSE results[a]]
  BY <1>1, <1>2
<1> QED
  BY <1>1, <1>3, <1>4, <1>5 DEF AuthType

LEMMA AuthTypeStep ==
  ASSUME AuthInv, [AuthNext]_authVars
  PROVE  AuthType'
<1> USE DEF AuthInv
<1>0. Parts \in Nat \ {0} /\ \A p \in Packets : Packet(p) \in Queueable
  BY AuthAssumption DEF Packet, Queueable
<1>1. CASE UNCHANGED authVars
  BY <1>1 DEF authVars, AuthType
<1>2. ASSUME NEW a \in Auths, CheckState(a) \/ TestConnected(a) PROVE AuthType'
  BY <1>2 DEF CheckState, TestConnected, AuthType, environment
<1>3. ASSUME NEW a \in Auths, AddLast(a) PROVE AuthType'
  BY <1>3 DEF AddLast, AuthType, environment
<1>4. ASSUME NEW a \in Auths, SendLast(a) PROVE AuthType'
  <2>1. <<Last(auth_h)>> \in Seq(Auths)
    BY <1>4 DEF SendLast, AuthType, AddedInv, Last
  <2>2. to_send' \in Seq(Queueable)
    BY <1>4, <2>1, Pushed DEF SendLast, AuthType
  <2>3. overtaken' \in BOOLEAN
    BY <1>4 DEF SendLast
  <2> QED
    BY <1>4, <2>2, <2>3 DEF SendLast, AuthType, environment
<1>5. ASSUME NEW r \in Requests, QueueRequest(r) PROVE AuthType'
  <2>1. to_send' \in Seq(Queueable)
    BY <1>0, <1>5 DEF QueueRequest, AuthType, Packets
  <2> QED
    BY <1>5, <2>1 DEF QueueRequest, AuthType, environment
<1>6. CASE Connect
  BY <1>6 DEF Connect, AuthType, States, environment
<1>7. CASE SessionEstablished
  <2>1. send_set_watches(to_send) \in Seq(Queueable)
    BY <1>0 DEF send_set_watches, AuthType, Packets
  <2>2. to_send' \in Seq(Queueable)
    BY <1>7, <2>1, Pushed DEF SessionEstablished, send_auth_info, AuthType
  <2>3. required' \in SUBSET Auths
    BY <1>7 DEF SessionEstablished, AuthType, Range
  <2> QED
    BY <1>7, <2>2, <2>3 DEF SessionEstablished, AuthType, States
<1>8. CASE FlushSendQueue
  <2>1. to_send' \in Seq(Queueable)
    BY <1>8, Sent DEF FlushSendQueue, AuthType
  <2>2. Head(to_send) \in Queueable
    BY <1>8 DEF FlushSendQueue, AuthType
  <2>3. [id |-> Head(to_send).id, part |-> Head(to_send).curr_offset + 1] \in Pieces
    BY <1>0, <2>2 DEF Queueable, Pieces
  <2>4. wire' \in Seq(Pieces)
    BY <1>8, <2>3 DEF FlushSendQueue, AuthType
  <2> QED
    BY <1>8, <2>1, <2>4 DEF FlushSendQueue, AuthType
<1>9. CASE AuthSucceeded
  <2>1. pending' = {} /\ results' \in [Auths -> Seq(Codes)]
    BY <1>9, Called DEF AuthSucceeded, Codes
  <2> QED
    BY <1>9, <2>1 DEF AuthSucceeded, AuthType
<1>10. CASE ConnectionLost \/ SessionExpired \/ AuthFailed \/ ServerGivesUp
  <2>1. PICK rc \in Codes \ {"ZOK"} :
           /\ CallCompletions(rc)
           /\ state' \in {"0", "AUTH_FAILED", "EXPIRED_SESSION"}
           /\ to_send' = <<>> /\ wire' = <<>> /\ replies' = <<>>
           /\ served' = {} /\ required' = {} /\ overtaken' = FALSE
           /\ UNCHANGED <<auth_h, apc, granted>>
    BY <1>10, Dropped
  <2>2. pending' = {} /\ results' \in [Auths -> Seq(Codes)]
    BY <2>1, Called
  <2>3. overtaken' \in BOOLEAN
    BY <2>1
  <2>4. <<>> \in Seq(Queueable) /\ <<>> \in Seq(Pieces) /\ <<>> \in Seq({"ok", "failed"})
    OBVIOUS
  <2>5. /\ to_send' \in Seq(Queueable) /\ wire' \in Seq(Pieces)
        /\ replies' \in Seq({"ok", "failed"})
    BY <2>1, <2>4, Zenon
  <2> QED
    BY <2>1, <2>2, <2>3, <2>5 DEF AuthType, States
<1>11. ASSUME NEW v \in {"ok", "failed"}, ServerReads(v) PROVE AuthType'
  <2>1. wire[1] \in Pieces
    BY <1>0, <1>11 DEF ServerReads, WholePacket, AuthType
  <2>2. wire' \in Seq(Pieces)
    BY <1>11, Read DEF ServerReads, WholePacket, AuthType
  <2>3. wire[1].id \in Packets
    BY <2>1 DEF Pieces
  <2>4. /\ served' = served \cup {wire[1].id}
        /\ replies' = replies \/ replies' = Append(replies, v)
        /\ granted' \in SUBSET Auths
        /\ UNCHANGED <<state, auth_h, pending, to_send, apc, results, required, overtaken>>
    BY <1>11, <2>3 DEF ServerReads, AuthType
  <2>5. replies' \in Seq({"ok", "failed"})
    <3>1. replies \in Seq({"ok", "failed"})
      BY DEF AuthType
    <3>2. Append(replies, v) \in Seq({"ok", "failed"})
      BY <3>1
    <3> QED
      BY <2>4, <3>1, <3>2, Zenon
  <2> QED
    BY <2>2, <2>3, <2>4, <2>5 DEF AuthType
<1> QED
  BY <1>1, <1>2, <1>3, <1>4, <1>5, <1>6, <1>7, <1>8, <1>9, <1>10, <1>11
  DEF AuthNext, zoo_add_auth, do_io

-----------------------------------------------------------------------------
(* What completions are told.                                              *)

LEMMA AddedStep ==
  ASSUME AuthInv, [AuthNext]_authVars
  PROVE  AddedInv'
<1> USE DEF AuthInv
<1>1. CASE UNCHANGED authVars
  BY <1>1 DEF authVars, AddedInv
<1>2. ASSUME NEW a \in Auths, CheckState(a) \/ SendLast(a) PROVE AddedInv'
  BY <1>2 DEF CheckState, SendLast, AuthType, AddedInv
<1>3. ASSUME NEW a \in Auths, AddLast(a) PROVE AddedInv'
  <2>1. auth_h \in Seq(Auths) /\ auth_h' = Append(auth_h, a)
    BY <1>3 DEF AddLast, AuthType
  <2>2. Len(auth_h') = Len(auth_h) + 1 /\ Len(auth_h) \in Nat
    BY <2>1
  <2>3. auth_h' # <<>>
    BY <2>2
  <2> QED
    BY <2>3 DEF AddedInv
<1>4. ASSUME NEW a \in Auths, TestConnected(a) PROVE AddedInv'
  BY <1>4 DEF TestConnected, AuthType, AddedInv
<1>5. CASE \/ \E r \in Requests : QueueRequest(r)
           \/ do_io \/ ConnectionLost \/ ServerGivesUp
           \/ \E v \in {"ok", "failed"} : ServerReads(v)
  <2>1. UNCHANGED <<auth_h, apc>>
    BY <1>5 DEF QueueRequest, do_io, Connect, SessionEstablished, FlushSendQueue, AuthSucceeded,
         AuthFailed, SessionExpired, ConnectionLost, ServerGivesUp, ServerReads
  <2> QED
    BY <2>1 DEF AddedInv
<1> QED
  BY <1>1, <1>2, <1>3, <1>4, <1>5 DEF AuthNext, zoo_add_auth

LEMMA CompletionStep ==
  ASSUME AuthInv, [AuthNext]_authVars
  PROVE  CompletionInv'
<1> USE DEF AuthInv
<1>1. CASE UNCHANGED authVars
  BY <1>1 DEF authVars, CompletionInv
<1>2. ASSUME NEW a \in Auths, CheckState(a) PROVE CompletionInv'
  BY <1>2 DEF CheckState, environment, AuthType, CompletionInv
<1>3. ASSUME NEW a \in Auths, AddLast(a) PROVE CompletionInv'
  <2>1. /\ apc[a] = "add" /\ pending' = pending \cup {a}
        /\ apc' = [apc EXCEPT ![a] = "test"]
        /\ UNCHANGED <<state, results, replies, granted>>
    BY <1>3 DEF AddLast, environment
  <2>2. results[a] = <<>>
    BY <2>1 DEF CompletionInv
  <2>3. \A b \in Auths : apc'[b] \in {"new", "refused", "add"}
                           => b # a /\ apc[b] \in {"new", "refused", "add"}
    BY <2>1 DEF AuthType
  <2> QED
    BY <2>1, <2>2, <2>3 DEF CompletionInv
<1>4. ASSUME NEW a \in Auths, TestConnected(a) \/ SendLast(a) PROVE CompletionInv'
  <2>1. /\ \A b \in Auths : apc'[b] \in {"new", "refused", "add"} => apc'[b] = apc[b]
        /\ UNCHANGED <<state, pending, results, replies, granted>>
    BY <1>4 DEF TestConnected, SendLast, environment, AuthType
  <2> QED
    BY <2>1 DEF CompletionInv
<1>5. CASE (\E r \in Requests : QueueRequest(r)) \/ FlushSendQueue
  BY <1>5 DEF QueueRequest, FlushSendQueue, environment, CompletionInv
<1>6. CASE Connect \/ SessionEstablished
  <2>1. /\ ~is_unrecoverable /\ UNCHANGED <<apc, pending, results, replies, granted>>
    BY <1>6 DEF Connect, SessionEstablished, environment, is_unrecoverable
  <2> QED
    BY <2>1 DEF CompletionInv, is_unrecoverable
<1>7. CASE AuthSucceeded
  <2>1. /\ state = "CONNECTED" /\ replies # <<>> /\ Head(replies) = "ok" /\ replies' = Tail(replies)
        /\ CallCompletions("ZOK") /\ UNCHANGED <<state, apc, granted>>
    BY <1>7 DEF AuthSucceeded
  <2>2. granted # {}
    <3>1. replies[1] = "ok" /\ 1 \in 1 .. Len(replies)
      BY <2>1 DEF AuthType
    <3> QED
      BY <3>1 DEF CompletionInv
  <2>3. /\ pending' = {}
        /\ \A a \in Auths : \/ results'[a] = results[a]
                            \/ a \in pending /\ results'[a] = <<"ZOK">>
    BY <2>1, Called DEF Codes
  <2>4. \A a \in Auths, rc \in {"ZAUTHFAILED", "ZSESSIONEXPIRED"} :
          results'[a] = <<rc>> => results[a] = <<rc>>
    BY <2>3
  <2>5. \A a \in Auths : apc'[a] \in {"new", "refused", "add"} => results'[a] = <<>>
    BY <2>1, <2>3 DEF CompletionInv
  <2>6. \A a \in Auths : results'[a] = <<>> \/ \E rc \in Codes : results'[a] = <<rc>>
    BY <2>3 DEF CompletionInv, Codes
  <2> QED
    BY <2>1, <2>2, <2>3, <2>4, <2>5, <2>6 DEF CompletionInv
<1>8. CASE ConnectionLost \/ SessionExpired \/ AuthFailed \/ ServerGivesUp
  <2>1. PICK rc \in Codes \ {"ZOK"} :
           /\ CallCompletions(rc)
           /\ ~is_unrecoverable /\ (rc = "ZAUTHFAILED" => state' = "AUTH_FAILED")
           /\ rc = "ZSESSIONEXPIRED" => state' = "EXPIRED_SESSION"
           /\ replies' = <<>> /\ UNCHANGED <<apc, granted>>
    BY <1>8, Dropped
  <2>2. /\ pending' = {}
        /\ \A a \in Auths : \/ results'[a] = results[a]
                            \/ a \in pending /\ results'[a] = <<rc>>
    BY <2>1, Called
  <2>3. \A a \in Auths : results'[a] = <<"ZAUTHFAILED">> => state' = "AUTH_FAILED"
    BY <2>1, <2>2 DEF CompletionInv, is_unrecoverable
  <2>4. \A a \in Auths : results'[a] = <<"ZSESSIONEXPIRED">> => state' = "EXPIRED_SESSION"
    BY <2>1, <2>2 DEF CompletionInv, is_unrecoverable
  <2>5. \A a \in Auths : results'[a] = <<"ZOK">> => results[a] = <<"ZOK">>
    BY <2>1, <2>2
  <2>6. \A a \in Auths : apc'[a] \in {"new", "refused", "add"} => results'[a] = <<>>
    BY <2>1, <2>2 DEF CompletionInv
  <2>7. \A a \in Auths : results'[a] = <<>> \/ \E c \in Codes : results'[a] = <<c>>
    BY <2>2 DEF CompletionInv
  <2>8. Len(replies') = 0
    BY <2>1
  <2> QED
    BY <2>1, <2>2, <2>3, <2>4, <2>5, <2>6, <2>7, <2>8 DEF CompletionInv
<1>9. ASSUME NEW v \in {"ok", "failed"}, ServerReads(v) PROVE CompletionInv'
  <2> DEFINE id == wire[1].id
  <2>1. /\ replies' = (IF id \in Auths THEN Append(replies, v) ELSE replies)
        /\ granted' = (IF id \in Auths /\ v = "ok" THEN granted \cup {id} ELSE granted)
        /\ UNCHANGED <<state, apc, pending, results>>
    BY <1>9 DEF ServerReads
  <2> HIDE DEF id
  <2>2. granted # {} => granted' # {}
    BY <2>1
  <2>3. \A i \in 1 .. Len(replies') : replies'[i] = "ok" => granted' # {}
    <3>1. CASE id \in Auths
      <4>1. replies' = Append(replies, v) /\ (v = "ok" => granted' # {})
        BY <2>1, <3>1
      <4> QED
        BY <2>2, <4>1 DEF CompletionInv, AuthType
    <3>2. CASE id \notin Auths
      BY <2>1, <2>2, <3>2 DEF CompletionInv
    <3> QED
      BY <3>1, <3>2
  <2> QED
    BY <2>1, <2>2, <2>3 DEF CompletionInv
<1> QED
  BY <1>1, <1>2, <1>3, <1>4, <1>5, <1>6, <1>7, <1>8, <1>9
  DEF AuthNext, zoo_add_auth, do_io

LEMMA UnconnectedStep ==
  ASSUME AuthInv, [AuthNext]_authVars
  PROVE  Unconnected'
<1> USE DEF AuthInv
<1>0. \A p \in Packets : Packet(p) \in Queueable /\ Packet(p).curr_offset = 0
  BY AuthAssumption DEF Packet, Queueable
<1>1. CASE \/ UNCHANGED authVars
           \/ \E a \in Auths : CheckState(a) \/ AddLast(a) \/ TestConnected(a)
  BY <1>1 DEF authVars, CheckState, AddLast, TestConnected, environment, Unconnected
<1>2. ASSUME NEW a \in Auths, SendLast(a) PROVE Unconnected'
  <2>1. /\ to_send' = send_info_packet(<<Last(auth_h)>>, to_send)
        /\ overtaken' = (overtaken \/ PartlySent(to_send))
        /\ UNCHANGED <<state, wire, served, required>>
    BY <1>2 DEF SendLast, environment
  <2>3. ASSUME state # "CONNECTED" PROVE ~overtaken'
    <3>1. ~overtaken /\ ~PartlySent(to_send)
      BY <2>3 DEF Unconnected, PartlySent, AuthType
    <3> QED
      BY <2>1, <3>1
  <2>4. ASSUME state # "CONNECTED", NEW i \in 1 .. Len(to_send') PROVE to_send'[i].curr_offset = 0
    <3>1. /\ to_send \in Seq(Queueable)
          /\ \A j \in 1 .. Len(to_send) : to_send[j].curr_offset = 0
      BY <2>4 DEF Unconnected, AuthType
    <3>2. i = 1 \/ (i \in 2 .. Len(to_send) + 1 /\ i - 1 \in 1 .. Len(to_send))
      BY <1>2, <3>1, PushedOne
    <3> QED
      BY <1>2, <3>1, <3>2, PushedOne
  <2> QED
    BY <2>1, <2>3, <2>4 DEF Unconnected
<1>3. ASSUME NEW r \in Requests, QueueRequest(r) PROVE Unconnected'
  <2>1. /\ to_send' = Append(to_send, Packet(r))
        /\ UNCHANGED <<state, wire, served, required, overtaken>>
    BY <1>3 DEF QueueRequest, environment
  <2>2. Packet(r).curr_offset = 0
    BY DEF Packet
  <2> QED
    BY <2>1, <2>2 DEF Unconnected, AuthType
<1>4. CASE Connect
  BY <1>4 DEF Connect, environment, Unconnected
<1>5. CASE SessionEstablished \/ FlushSendQueue \/ AuthSucceeded
  <2>1. state' = "CONNECTED"
    BY <1>5 DEF SessionEstablished, FlushSendQueue, AuthSucceeded
  <2> QED
    BY <2>1 DEF Unconnected
<1>6. CASE ConnectionLost \/ SessionExpired \/ AuthFailed \/ ServerGivesUp
  <2>1. to_send' = <<>> /\ wire' = <<>> /\ served' = {} /\ required' = {} /\ ~overtaken'
    BY <1>6, Dropped
  <2> QED
    BY <2>1 DEF Unconnected
<1>7. ASSUME NEW v \in {"ok", "failed"}, ServerReads(v) PROVE Unconnected'
  <2>1. wire # <<>> /\ state' = state
    BY <1>7, AuthAssumption DEF ServerReads, WholePacket, AuthType
  <2> QED
    BY <2>1 DEF Unconnected
<1> QED
  BY <1>1, <1>2, <1>3, <1>4, <1>5, <1>6, <1>7 DEF AuthNext, zoo_add_auth, do_io

-----------------------------------------------------------------------------
(* Credentials go first.                                                   *)

LEMMA FirstStep ==
  ASSUME AuthInv, [AuthNext]_authVars
  PROVE  FirstInv'
<1> USE DEF AuthInv
<1>0. Parts \in Nat \ {0}
  BY AuthAssumption
<1>1. CASE \/ UNCHANGED authVars
           \/ \E a \in Auths : CheckState(a) \/ AddLast(a) \/ TestConnected(a)
           \/ Connect \/ AuthSucceeded
  <2>1. UNCHANGED <<to_send, wire, served, required>>
    BY <1>1 DEF authVars, CheckState, AddLast, TestConnected, Connect, AuthSucceeded, environment
  <2> QED
    BY <2>1 DEF FirstInv, OnWire, ToBeSent
<1>2. ASSUME NEW a \in Auths, SendLast(a) PROVE FirstInv'
  <2>1. UNCHANGED <<wire, served, required>>
    BY <1>2 DEF SendLast, environment
  <2>2. /\ to_send \in Seq(Queueable) /\ Len(to_send') = Len(to_send) + 1
        /\ to_send'[1].id \in Auths
        /\ \A i \in 2 .. Len(to_send) + 1 : to_send'[i] = to_send[i - 1]
    BY <1>2, PushedOne DEF AuthType
  <2>3. ASSUME NEW b, ToBeSent(b) PROVE ToBeSent(b)'
    <3>1. PICK i \in 1 .. Len(to_send) : /\ to_send[i].id = b
                                         /\ \A j \in 1 .. i : to_send[j].id \in Auths
      BY <2>3 DEF ToBeSent
    <3>2. i + 1 \in 1 .. Len(to_send') /\ to_send'[i + 1].id = b
      BY <2>2, <3>1
    <3>3. ASSUME NEW j \in 1 .. i + 1 PROVE to_send'[j].id \in Auths
      BY <2>2, <3>1
    <3> QED
      BY <2>1, <2>3, <3>2, <3>3 DEF ToBeSent
  <2> QED
    BY <2>1, <2>3 DEF FirstInv, OnWire
<1>3. ASSUME NEW r \in Requests, QueueRequest(r) PROVE FirstInv'
  <2>1. to_send' = Append(to_send, Packet(r)) /\ UNCHANGED <<wire, served, required>>
    BY <1>3 DEF QueueRequest, environment
  <2>2. /\ to_send \in Seq(Queueable) /\ Len(to_send') = Len(to_send) + 1
        /\ \A i \in 1 .. Len(to_send) : to_send'[i] = to_send[i]
    BY <2>1 DEF AuthType
  <2>3. ASSUME NEW b, ToBeSent(b) PROVE ToBeSent(b)'
    <3>1. PICK i \in 1 .. Len(to_send) : /\ to_send[i].id = b
                                         /\ \A j \in 1 .. i : to_send[j].id \in Auths
      BY <2>3 DEF ToBeSent
    <3>2. i \in 1 .. Len(to_send') /\ to_send'[i].id = b
      BY <2>2, <3>1
    <3>3. ASSUME NEW j \in 1 .. i PROVE to_send'[j].id \in Auths
      BY <2>2, <3>1
    <3> QED
      BY <2>1, <2>3, <3>2, <3>3 DEF ToBeSent
  <2> QED
    BY <2>1, <2>3 DEF FirstInv, OnWire
<1>4. CASE SessionEstablished
  <2>1. /\ to_send' = send_info_packet(auth_h, send_set_watches(to_send))
        /\ required' = Range(auth_h) /\ wire' = <<>>
    BY <1>4 DEF SessionEstablished, send_auth_info, Unconnected
  <2>2. auth_h \in Seq(Auths) /\ send_set_watches(to_send) \in Seq(Queueable)
    BY <1>0 DEF send_set_watches, AuthType, Packets, Packet, Queueable
  <2>3. /\ Len(to_send') = Len(auth_h) + Len(send_set_watches(to_send))
        /\ \A i \in 1 .. Len(auth_h) : to_send'[i] = Packet(auth_h[Len(auth_h) - i + 1])
    BY <2>1, <2>2, Pushed
  <2>4. \A i \in 1 .. Len(auth_h) : /\ i \in 1 .. Len(to_send')
                                    /\ to_send'[i].id = auth_h[Len(auth_h) - i + 1]
                                    /\ to_send'[i].id \in Auths
    <3> SUFFICES ASSUME NEW i \in 1 .. Len(auth_h)
                 PROVE  /\ i \in 1 .. Len(to_send')
                        /\ to_send'[i].id = auth_h[Len(auth_h) - i + 1]
                        /\ to_send'[i].id \in Auths
      OBVIOUS
    <3>1. i \in 1 .. Len(to_send')
      BY <2>2, <2>3
    <3>2. to_send'[i] = Packet(auth_h[Len(auth_h) - i + 1])
      BY <2>3
    <3>3. to_send'[i].id = auth_h[Len(auth_h) - i + 1]
      BY <3>2 DEF Packet
    <3>4. auth_h[Len(auth_h) - i + 1] \in Auths
      BY <2>2
    <3> QED
      BY <3>1, <3>3, <3>4
  <2>5. ASSUME NEW b \in Range(auth_h) PROVE ToBeSent(b)'
    <3>1. PICK k \in 1 .. Len(auth_h) : b = auth_h[k]
      BY <2>2 DEF Range
    <3>2. PICK i : i = Len(auth_h) - k + 1
      OBVIOUS
    <3>3. /\ i \in 1 .. Len(auth_h) /\ Len(auth_h) - i + 1 = k
          /\ \A j \in 1 .. i : j \in 1 .. Len(auth_h)
      BY <2>2, <3>1, <3>2
    <3>4. i \in 1 .. Len(to_send') /\ to_send'[i].id = b
      BY <2>4, <3>1, <3>3
    <3>5. \A j \in 1 .. i : to_send'[j].id \in Auths
      BY <2>4, <3>3
    <3>6. Len(wire') = 0
      BY <2>1
    <3> QED
      BY <3>4, <3>5, <3>6 DEF ToBeSent
  <2> QED
    BY <2>1, <2>5 DEF FirstInv
<1>5. CASE FlushSendQueue
  <2> DEFINE piece == [id |-> Head(to_send).id, part |-> Head(to_send).curr_offset + 1]
             last == Head(to_send).curr_offset + 1 = Parts
  <2>1. /\ to_send # <<>> /\ to_send \in Seq(Queueable) /\ wire \in Seq(Pieces)
        /\ wire' = Append(wire, piece) /\ to_send' = Unsent(to_send)
        /\ UNCHANGED <<served, required>>
    BY <1>5 DEF FlushSendQueue, AuthType
  <2>2. piece.id = to_send[1].id /\ (last => piece = [id |-> to_send[1].id, part |-> Parts])
    BY <2>1
  <2>3. /\ Len(wire') = Len(wire) + 1 /\ wire'[Len(wire) + 1] = piece
        /\ \A j \in 1 .. Len(wire) : wire'[j] = wire[j]
    BY <2>1
  <2> HIDE DEF piece
  <2>4. ASSUME NEW b, OnWire(b) PROVE OnWire(b)'
    <3>1. PICK i \in 1 .. Len(wire) : /\ wire[i] = [id |-> b, part |-> Parts]
                                      /\ \A j \in 1 .. i : wire[j].id \in Auths
      BY <2>4 DEF OnWire
    <3>2. i \in 1 .. Len(wire') /\ wire'[i] = [id |-> b, part |-> Parts]
      BY <2>1, <2>3, <3>1
    <3>3. \A j \in 1 .. i : wire'[j].id \in Auths
      BY <2>1, <2>3, <3>1
    <3> QED
      BY <3>2, <3>3 DEF OnWire
  <2>5. ASSUME NEW b, ToBeSent(b) PROVE OnWire(b)' \/ ToBeSent(b)'
    <3>1. PICK i \in 1 .. Len(to_send) : /\ to_send[i].id = b
                                         /\ \A j \in 1 .. i : to_send[j].id \in Auths
      BY <2>5 DEF ToBeSent
    <3>2. 1 \in 1 .. i /\ to_send[1].id \in Auths
      BY <2>1, <3>1
    <3>3. \A j \in 1 .. Len(wire') : wire'[j].id \in Auths
      BY <2>1, <2>2, <2>3, <2>5, <3>2 DEF ToBeSent
    <3>4. CASE last
      <4>1. /\ Len(to_send') = Len(to_send) - 1
            /\ \A j \in 1 .. Len(to_send) - 1 : to_send'[j] = to_send[j + 1]
        BY <2>1, <3>4, Sent
      <4>2. CASE i = 1
        <5>1. Len(wire) + 1 \in 1 .. Len(wire') /\ wire'[Len(wire) + 1] = [id |-> b, part |-> Parts]
          BY <2>1, <2>2, <2>3, <3>1, <3>4, <4>2
        <5>2. \A j \in 1 .. Len(wire) + 1 : wire'[j].id \in Auths
          BY <2>3, <3>3
        <5> QED
          BY <5>1, <5>2 DEF OnWire
      <4>3. CASE i # 1
        <5>1. i - 1 \in 1 .. Len(to_send) - 1 /\ (i - 1) + 1 = i
          BY <2>1, <4>3
        <5>2. i - 1 \in 1 .. Len(to_send') /\ to_send'[i - 1].id = b
          BY <3>1, <4>1, <5>1
        <5>3. \A j \in 1 .. i - 1 : to_send'[j].id \in Auths
          BY <2>1, <3>1, <4>1, <4>3
        <5> QED
          BY <3>3, <5>2, <5>3 DEF ToBeSent
      <4> QED
        BY <4>2, <4>3
    <3>5. CASE ~last
      <4>1. /\ Len(to_send') = Len(to_send) /\ to_send'[1].id = to_send[1].id
            /\ \A j \in 2 .. Len(to_send) : to_send'[j] = to_send[j]
        <5>1. to_send'[1] = [id |-> to_send[1].id, curr_offset |-> to_send[1].curr_offset + 1]
          BY <2>1, <3>5, Sent
        <5>2. to_send'[1].id = to_send[1].id
          BY <5>1
        <5>3. Len(to_send') = Len(to_send) /\ \A j \in 2 .. Len(to_send) : to_send'[j] = to_send[j]
          BY <2>1, <3>5, Sent
        <5> QED
          BY <5>2, <5>3
      <4>2. \A j \in 1 .. Len(to_send) : to_send'[j].id = to_send[j].id
        BY <2>1, <4>1
      <4>3. i \in 1 .. Len(to_send') /\ to_send'[i].id = b
        BY <3>1, <4>1, <4>2
      <4>4. \A j \in 1 .. i : to_send'[j].id \in Auths
        BY <2>1, <3>1, <4>2
      <4> QED
        BY <3>3, <4>3, <4>4 DEF ToBeSent
    <3> QED
      BY <3>4, <3>5
  <2> QED
    BY <2>1, <2>4, <2>5 DEF FirstInv
<1>6. CASE ConnectionLost \/ SessionExpired \/ AuthFailed \/ ServerGivesUp
  <2>1. required' = {}
    BY <1>6, Dropped
  <2> QED
    BY <2>1 DEF FirstInv
<1>7. ASSUME NEW v \in {"ok", "failed"}, ServerReads(v) PROVE FirstInv'
  <2>1. /\ wire \in Seq(Pieces) /\ Len(wire) >= Parts
        /\ \A i \in 1 .. Parts : wire[i] = [id |-> wire[1].id, part |-> i]
        /\ served' = served \cup {wire[1].id}
        /\ wire' = SubSeq(wire, Parts + 1, Len(wire))
        /\ UNCHANGED <<to_send, required>>
    BY <1>7 DEF ServerReads, WholePacket, AuthType
  <2>2. /\ Len(wire') = Len(wire) - Parts /\ Len(wire) \in Nat
        /\ \A i \in 1 .. Len(wire) - Parts : wire'[i] = wire[Parts + i]
    BY <2>1, Read
  <2>3. ASSUME NEW b, OnWire(b) PROVE b \in served' \/ OnWire(b)'
    <3>1. PICK i \in 1 .. Len(wire) : /\ wire[i] = [id |-> b, part |-> Parts]
                                      /\ \A j \in 1 .. i : wire[j].id \in Auths
      BY <2>3 DEF OnWire
    <3>2. CASE i <= Parts
      <4>1. wire[i] = [id |-> wire[1].id, part |-> i]
        BY <1>0, <2>1, <2>2, <3>2
      <4>2. b = wire[1].id
        BY <3>1, <4>1
      <4> QED
        BY <2>1, <4>2
    <3>3. CASE i > Parts
      <4>1. i - Parts \in 1 .. Len(wire) - Parts /\ Parts + (i - Parts) = i
        BY <1>0, <2>2, <3>3
      <4>2. i - Parts \in 1 .. Len(wire') /\ wire'[i - Parts] = [id |-> b, part |-> Parts]
        BY <2>2, <3>1, <4>1
      <4>3. ASSUME NEW j \in 1 .. i - Parts PROVE wire'[j].id \in Auths
        <5>1. Parts + j \in 1 .. i /\ j \in 1 .. Len(wire) - Parts
          BY <1>0, <2>2, <4>1
        <5> QED
          BY <2>2, <3>1, <5>1
      <4> QED
        BY <4>2, <4>3 DEF OnWire
    <3> QED
      BY <1>0, <3>2, <3>3
  <2>4. ASSUME NEW b, ToBeSent(b) PROVE ToBeSent(b)'
    <3>1. \A j \in 1 .. Len(wire') : wire'[j].id \in Auths
      <4>1. \A j \in 1 .. Len(wire') : Parts + j \in 1 .. Len(wire)
        BY <1>0, <2>2
      <4> QED
        BY <2>2, <2>4, <4>1 DEF ToBeSent
    <3> QED
      BY <2>1, <2>4, <3>1 DEF ToBeSent
  <2> QED
    BY <2>1, <2>3, <2>4 DEF FirstInv
<1> QED
  BY <1>1, <1>2, <1>3, <1>4, <1>5, <1>6, <1>7 DEF AuthNext, zoo_add_auth, do_io

\* Once the server has read a request, it has the credentials it should have.
LEMMA BeforeStep ==
  ASSUME AuthInv, [AuthNext]_authVars, AuthBeforeRequests
  PROVE  AuthBeforeRequests'
<1> USE DEF AuthInv
<1>1. CASE \/ UNCHANGED authVars
           \/ \E a \in Auths : zoo_add_auth(a)
           \/ \E r \in Requests : QueueRequest(r)
           \/ Connect \/ AuthSucceeded \/ FlushSendQueue
  <2>1. UNCHANGED <<served, required>>
    BY <1>1 DEF authVars, zoo_add_auth, CheckState, AddLast, TestConnected, SendLast, QueueRequest,
         Connect, AuthSucceeded, FlushSendQueue, environment
  <2> QED
    BY <2>1 DEF AuthBeforeRequests
<1>2. CASE SessionEstablished \/ ConnectionLost \/ SessionExpired \/ AuthFailed \/ ServerGivesUp
  <2>1. served' = {}
    BY <1>2, Dropped DEF SessionEstablished, Unconnected
  <2> QED
    BY <2>1 DEF AuthBeforeRequests
<1>3. ASSUME NEW v \in {"ok", "failed"}, ServerReads(v) PROVE AuthBeforeRequests'
  <2>1. /\ Len(wire) >= Parts /\ served' = served \cup {wire[1].id} /\ required' = required
    BY <1>3 DEF ServerReads, WholePacket
  <2>2. 1 \in 1 .. Len(wire) /\ \A i \in 1 .. Len(wire) : 1 \in 1 .. i
    BY <2>1, AuthAssumption DEF AuthType
  <2>3. CASE wire[1].id \in Auths
    BY <2>1, <2>3 DEF AuthBeforeRequests
  <2>4. CASE wire[1].id \notin Auths
    <3>1. ASSUME NEW b PROVE ~OnWire(b) /\ ~ToBeSent(b)
      BY <2>2, <2>4 DEF OnWire, ToBeSent
    <3> QED
      BY <2>1, <3>1 DEF AuthBeforeRequests, FirstInv
  <2> QED
    BY <2>3, <2>4
<1> QED
  BY <1>1, <1>2, <1>3 DEF AuthNext, do_io

-----------------------------------------------------------------------------
(* The pieces of a packet.                                                 *)

LEMMA StreamStep ==
  ASSUME AuthInv, [AuthNext]_authVars
  PROVE  StreamInv'
<1> USE DEF AuthInv
<1>0. Parts \in Nat \ {0}
  BY AuthAssumption
<1>1. CASE \/ UNCHANGED authVars
           \/ \E a \in Auths : CheckState(a) \/ AddLast(a) \/ TestConnected(a)
           \/ Connect \/ AuthSucceeded
  <2>1. UNCHANGED <<to_send, wire, overtaken>>
    BY <1>1 DEF authVars, CheckState, AddLast, TestConnected, Connect, AuthSucceeded, environment
  <2> QED
    BY <2>1 DEF StreamInv
<1>2. ASSUME NEW a \in Auths, SendLast(a) PROVE StreamInv'
  <2> SUFFICES ASSUME ~overtaken, ~PartlySent(to_send)
               PROVE  StreamInv'
    BY <1>2 DEF SendLast, StreamInv
  <2>1. wire' = wire /\ to_send \in Seq(Queueable) /\ to_send' \in Seq(Queueable)
    BY <1>2, PushedOne DEF SendLast, environment, AuthType
  <2>2. /\ Len(to_send') = Len(to_send) + 1 /\ to_send'[1].curr_offset = 0
        /\ \A i \in 2 .. Len(to_send) + 1 : to_send'[i] = to_send[i - 1]
    BY <1>2, PushedOne
  <2>3. \A i \in 1 .. Len(to_send) : to_send[i].curr_offset = 0
    <3>1. ASSUME to_send # <<>> PROVE to_send[1].curr_offset = 0
      <4>1. to_send[1] \in Queueable /\ Head(to_send) = to_send[1]
        BY <2>1, <3>1
      <4> QED
        BY <1>0, <3>1, <4>1 DEF PartlySent, Queueable
    <3> QED
      BY <2>1, <3>1 DEF StreamInv
  <2>4. \A i \in 2 .. Len(to_send') : to_send'[i].curr_offset = 0
    BY <2>1, <2>2, <2>3
  <2>5. wire # <<>> => wire[Len(wire)].part = Parts
    BY <2>1, <2>3 DEF StreamInv
  <2>6. \A i \in 1 .. Len(wire') - 1 : Follows(wire'[i], wire'[i + 1])
    BY <2>1 DEF StreamInv
  <2>7. /\ ~(to_send'[1].curr_offset > 0)
        /\ wire' # <<>> => wire'[Len(wire')].part = Parts
    BY <2>1, <2>2, <2>5
  <2> QED
    BY <2>4, <2>6, <2>7 DEF StreamInv
<1>3. ASSUME NEW r \in Requests, QueueRequest(r) PROVE StreamInv'
  <2> SUFFICES ASSUME ~overtaken PROVE StreamInv'
    BY <1>3 DEF QueueRequest, StreamInv
  <2>1. /\ to_send' = Append(to_send, Packet(r)) /\ wire' = wire /\ to_send \in Seq(Queueable)
        /\ Packet(r).curr_offset = 0
    BY <1>3 DEF QueueRequest, environment, AuthType, Packet
  <2>2. /\ Len(to_send') = Len(to_send) + 1 /\ to_send'[Len(to_send) + 1].curr_offset = 0
        /\ \A i \in 1 .. Len(to_send) : to_send'[i] = to_send[i]
        /\ Len(to_send) \in Nat /\ to_send' # <<>>
    BY <2>1
  <2>3. \A i \in 2 .. Len(to_send') : to_send'[i].curr_offset = 0
    BY <2>2 DEF StreamInv
  <2>4. CASE to_send = <<>>
    <3>1. to_send'[1].curr_offset = 0 /\ (wire # <<>> => wire[Len(wire)].part = Parts)
      BY <2>2, <2>4 DEF StreamInv
    <3> QED
      BY <2>1, <2>3, <3>1 DEF StreamInv
  <2>5. CASE to_send # <<>>
    <3>1. to_send'[1] = to_send[1]
      BY <2>1, <2>2, <2>5
    <3> QED
      BY <2>1, <2>2, <2>3, <2>5, <3>1 DEF StreamInv
  <2> QED
    BY <2>4, <2>5
<1>4. CASE SessionEstablished
  <2> DEFINE q == send_set_watches(to_send)
  <2>1. /\ to_send' = send_info_packet(auth_h, q) /\ wire' = <<>>
        /\ \A i \in 1 .. Len(to_send) : to_send[i].curr_offset = 0
        /\ to_send \in Seq(Queueable) /\ auth_h \in Seq(Auths)
    BY <1>4 DEF SessionEstablished, send_auth_info, Unconnected, AuthType
  <2>2. Packet(SetWatches) \in Queueable /\ Packet(SetWatches).curr_offset = 0
    BY <1>0 DEF Packet, Queueable, Packets
  <2>3. q \in Seq(Queueable) /\ \A i \in 1 .. Len(q) : q[i].curr_offset = 0
    <3> DEFINE p == <<Packet(SetWatches)>>
    <3>1. q = p \o to_send
      BY DEF send_set_watches
    <3>0. p \in Seq(Queueable) /\ Len(p) = 1 /\ p[1].curr_offset = 0
      BY <2>2
    <3> HIDE DEF p, q
    <3>2. /\ q \in Seq(Queueable) /\ Len(q) = 1 + Len(to_send) /\ q[1] = p[1]
          /\ \A i \in 2 .. Len(q) : q[i] = to_send[i - 1]
      BY <2>1, <3>0, <3>1, Prepended
    <3>3. \A i \in 2 .. Len(q) : i - 1 \in 1 .. Len(to_send)
      BY <2>1, <3>2
    <3>4. \A i \in 1 .. Len(q) : i = 1 \/ i \in 2 .. Len(q)
      BY <2>1, <3>2
    <3> QED
      BY <2>1, <3>0, <3>2, <3>3, <3>4
  <2> HIDE DEF q
  <2>4. /\ Len(to_send') = Len(auth_h) + Len(q)
        /\ \A i \in 1 .. Len(auth_h) : to_send'[i].curr_offset = 0
        /\ \A i \in 1 .. Len(q) : to_send'[Len(auth_h) + i] = q[i]
    <3>1. \A i \in 1 .. Len(auth_h) : to_send'[i] = Packet(auth_h[Len(auth_h) - i + 1])
      BY <2>1, <2>3, Pushed
    <3>2. \A a : Packet(a).curr_offset = 0
      BY DEF Packet
    <3>3. \A i \in 1 .. Len(auth_h) : to_send'[i].curr_offset = 0
      BY <3>1, <3>2
    <3>4. Len(to_send') = Len(auth_h) + Len(q) /\ \A i \in 1 .. Len(q) : to_send'[Len(auth_h) + i] = q[i]
      BY <2>1, <2>3, Pushed
    <3> QED
      BY <3>3, <3>4
  <2>5. ASSUME NEW i \in 1 .. Len(to_send') PROVE to_send'[i].curr_offset = 0
    <3>1. CASE i <= Len(auth_h)
      BY <2>1, <2>4, <3>1
    <3>2. CASE i > Len(auth_h)
      <4>1. i - Len(auth_h) \in 1 .. Len(q) /\ Len(auth_h) + (i - Len(auth_h)) = i
        BY <2>1, <2>3, <2>4, <3>2
      <4> QED
        BY <2>3, <2>4, <4>1
    <3> QED
      BY <2>1, <3>1, <3>2
  <2>6. to_send' \in Seq(Queueable)
    BY <2>1, <2>3, Pushed
  <2>7. Len(wire') = 0
    BY <2>1
  <2> QED
    BY <2>1, <2>5, <2>6, <2>7 DEF StreamInv
<1>5. CASE FlushSendQueue
  <2> DEFINE piece == [id |-> Head(to_send).id, part |-> Head(to_send).curr_offset + 1]
             last == Head(to_send).curr_offset + 1 = Parts
  <2> SUFFICES ASSUME ~overtaken PROVE StreamInv'
    BY <1>5 DEF FlushSendQueue, StreamInv
  <2>1. /\ to_send # <<>> /\ to_send \in Seq(Queueable) /\ wire \in Seq(Pieces)
        /\ wire' = Append(wire, piece) /\ to_send' = Unsent(to_send)
    BY <1>5 DEF FlushSendQueue, AuthType
  <2>2. /\ Head(to_send) = to_send[1] /\ to_send[1] \in Queueable
        /\ to_send[1].curr_offset \in 0 .. Parts - 1
    <3>1. Head(to_send) = to_send[1] /\ to_send[1] \in Queueable
      BY <2>1
    <3> QED
      BY <3>1 DEF Queueable
  <2>3. piece.id = to_send[1].id /\ piece.part = to_send[1].curr_offset + 1
    BY <2>2
  <2>4. /\ Len(wire') = Len(wire) + 1 /\ wire'[Len(wire) + 1] = piece /\ wire' # <<>>
        /\ \A j \in 1 .. Len(wire) : wire'[j] = wire[j]
    BY <2>1
  <2>5. ASSUME wire # <<>> PROVE Follows(wire[Len(wire)], piece)
    <3>1. CASE to_send[1].curr_offset > 0
      <4>1. wire[Len(wire)] = [id |-> to_send[1].id, part |-> to_send[1].curr_offset]
        BY <2>1, <3>1 DEF StreamInv
      <4>2. piece = [id |-> wire[Len(wire)].id, part |-> wire[Len(wire)].part + 1]
        BY <2>2, <4>1
      <4> QED
        BY <4>2 DEF Follows
    <3>2. CASE ~(to_send[1].curr_offset > 0)
      <4>1. wire[Len(wire)].part = Parts
        BY <2>5, <3>2 DEF StreamInv
      <4>2. piece.part = 1
        BY <2>2, <3>2
      <4> QED
        BY <4>1, <4>2 DEF Follows
    <3> QED
      BY <3>1, <3>2
  <2>6. ASSUME NEW i \in 1 .. Len(wire') - 1 PROVE Follows(wire'[i], wire'[i + 1])
    <3>0. i \in 1 .. Len(wire) /\ Len(wire) \in Nat /\ wire # <<>>
      BY <2>1, <2>4
    <3>1. CASE i = Len(wire)
      <4>1. wire'[i] = wire[Len(wire)] /\ wire'[i + 1] = piece
        BY <2>4, <3>0, <3>1
      <4> QED
        BY <2>5, <3>0, <4>1
    <3>2. CASE i # Len(wire)
      <4>1. i \in 1 .. Len(wire) - 1 /\ i + 1 \in 1 .. Len(wire)
        BY <3>0, <3>2
      <4>2. wire'[i] = wire[i] /\ wire'[i + 1] = wire[i + 1]
        BY <2>4, <3>0, <4>1
      <4> QED
        BY <4>1, <4>2 DEF StreamInv
    <3> QED
      BY <3>1, <3>2
  <2>7. wire'[Len(wire')] = piece
    BY <2>1, <2>4
  <2> HIDE DEF piece
  <2>8. CASE last
    <3>1. /\ Len(to_send') = Len(to_send) - 1 /\ to_send' \in Seq(Queueable)
          /\ \A j \in 1 .. Len(to_send) - 1 : to_send'[j] = to_send[j + 1]
      BY <2>1, <2>8, Sent
    <3>2. \A j \in 1 .. Len(to_send') : to_send'[j].curr_offset = 0
      BY <2>1, <3>1 DEF StreamInv
    <3>3. piece.part = Parts
      BY <2>2, <2>3, <2>8
    <3> QED
      BY <2>4, <2>6, <2>7, <3>1, <3>2, <3>3 DEF StreamInv
  <2>9. CASE ~last
    <3>1. /\ Len(to_send') = Len(to_send) /\ to_send' \in Seq(Queueable)
          /\ \A j \in 2 .. Len(to_send) : to_send'[j] = to_send[j]
          /\ to_send'[1] = [id |-> to_send[1].id, curr_offset |-> to_send[1].curr_offset + 1]
      BY <2>1, <2>9, Sent
    <3>2. \A j \in 2 .. Len(to_send') : to_send'[j].curr_offset = 0
      BY <2>1, <3>1 DEF StreamInv
    <3>3. to_send'[1].id = to_send[1].id /\ to_send'[1].curr_offset = to_send[1].curr_offset + 1
      BY <3>1
    <3>4. piece = [id |-> to_send'[1].id, part |-> to_send'[1].curr_offset]
      BY <2>2, <3>3 DEF piece
    <3>5. to_send'[1].curr_offset > 0 /\ to_send' # <<>>
      BY <2>1, <2>2, <3>1, <3>3
    <3> QED
      BY <2>4, <2>6, <2>7, <3>2, <3>4, <3>5 DEF StreamInv
  <2> QED
    BY <2>8, <2>9
<1>6. CASE ConnectionLost \/ SessionExpired \/ AuthFailed \/ ServerGivesUp
  <2>1. to_send' = <<>> /\ wire' = <<>>
    BY <1>6, Dropped
  <2> QED
    BY <2>1 DEF StreamInv
<1>7. ASSUME NEW v \in {"ok", "failed"}, ServerReads(v) PROVE StreamInv'
  <2> SUFFICES ASSUME ~overtaken PROVE StreamInv'
    BY <1>7 DEF ServerReads, StreamInv
  <2>1. /\ wire \in Seq(Pieces) /\ Len(wire) >= Parts
        /\ \A i \in 1 .. Parts : wire[i] = [id |-> wire[1].id, part |-> i]
        /\ wire' = SubSeq(wire, Parts + 1, Len(wire)) /\ to_send' = to_send
        /\ to_send \in Seq(Queueable)
    BY <1>7 DEF ServerReads, WholePacket, AuthType
  <2>2. /\ wire' \in Seq(Pieces) /\ Len(wire') = Len(wire) - Parts /\ Len(wire) \in Nat
        /\ \A i \in 1 .. Len(wire) - Parts : wire'[i] = wire[Parts + i]
    BY <2>1, Read
  <2>3. ASSUME NEW i \in 1 .. Len(wire') - 1 PROVE Follows(wire'[i], wire'[i + 1])
    <3>1. /\ i \in 1 .. Len(wire) - Parts /\ i + 1 \in 1 .. Len(wire) - Parts
          /\ Parts + i \in 1 .. Len(wire) - 1 /\ Parts + (i + 1) = (Parts + i) + 1
      BY <1>0, <2>2
    <3>2. wire'[i] = wire[Parts + i] /\ wire'[i + 1] = wire[(Parts + i) + 1]
      BY <2>2, <3>1
    <3> QED
      BY <3>1, <3>2 DEF StreamInv
  <2>4. CASE Len(wire) = Parts
    <3>1. wire # <<>> /\ Parts \in 1 .. Parts /\ wire[Len(wire)] = [id |-> wire[1].id, part |-> Parts]
      BY <1>0, <2>1, <2>4
    <3>2. wire[Len(wire)].part = Parts /\ wire' = <<>>
      BY <2>2, <2>4, <3>1
    <3>3. ~(to_send # <<>> /\ to_send[1].curr_offset > 0)
      <4> SUFFICES ASSUME to_send # <<>>, to_send[1].curr_offset > 0 PROVE FALSE
        OBVIOUS
      <4>1. to_send[1] \in Queueable
        BY <2>1
      <4>2. to_send[1].curr_offset \in 0 .. Parts - 1
        BY <4>1 DEF Queueable
      <4>3. wire[Len(wire)] = [id |-> to_send[1].id, part |-> to_send[1].curr_offset]
        BY DEF StreamInv
      <4> QED
        BY <1>0, <3>2, <4>2, <4>3
    <3> QED
      BY <2>1, <2>3, <3>2, <3>3 DEF StreamInv
  <2>5. CASE Len(wire) # Parts
    <3>1. /\ Len(wire') \in 1 .. Len(wire) - Parts /\ Parts + Len(wire') = Len(wire)
          /\ wire # <<>> /\ wire' # <<>>
      <4>1. Len(wire') \in 1 .. Len(wire) - Parts /\ Parts + Len(wire') = Len(wire)
        BY <1>0, <2>1, <2>2, <2>5
      <4>2. Len(wire) # 0 /\ Len(wire') # 0
        BY <1>0, <2>2, <4>1
      <4> QED
        BY <4>1, <4>2
    <3>2. wire'[Len(wire')] = wire[Len(wire)]
      BY <2>2, <3>1
    <3> QED
      BY <2>1, <2>3, <3>1, <3>2 DEF StreamInv
  <2> QED
    BY <2>4, <2>5
<1> QED
  BY <1>1, <1>2, <1>3, <1>4, <1>5, <1>6, <1>7 DEF AuthNext, zoo_add_auth, do_io

-----------------------------------------------------------------------------
(* The theorems.                                                           *)

LEMMA AuthInvariant == AuthSpec => []AuthInv
<1>1. AuthInit => AuthInv
  <2> SUFFICES ASSUME AuthInit PROVE AuthInv
    OBVIOUS
  <2>1. AuthType
    <3>1. \A S : <<>> \in Seq(S)
      OBVIOUS
    <3>2. overtaken \in BOOLEAN
      BY DEF AuthInit
    <3>3. results \in [Auths -> Seq(Codes)]
      BY <3>1 DEF AuthInit
    <3>4. /\ auth_h \in Seq(Auths) /\ to_send \in Seq(Queueable) /\ wire \in Seq(Pieces)
          /\ replies \in Seq({"ok", "failed"})
      BY <3>1, Zenon DEF AuthInit
    <3> QED
      BY <3>2, <3>3, <3>4 DEF AuthInit, AuthType, States
  <2>2. AddedInv /\ CompletionInv
    BY DEF AuthInit, AddedInv, CompletionInv
  <2>3. Unconnected /\ FirstInv /\ StreamInv
    BY DEF AuthInit, Unconnected, FirstInv, StreamInv
  <2> QED
    BY <2>1, <2>2, <2>3 DEF AuthInv
<1>2. AuthInv /\ [AuthNext]_authVars => AuthInv'
  BY AuthTypeStep, AddedStep, CompletionStep, UnconnectedStep, FirstStep, StreamStep DEF AuthInv
<1> QED
  BY <1>1, <1>2, PTL DEF AuthSpec

\* What the completions of zoo_add_auth are told, for every order of calls, replies
\* and lost connections.
THEOREM AuthToldTruly == AuthSpec => []AuthResultsTrue
<1>1. AuthInv => AuthResultsTrue
  <2> SUFFICES ASSUME AuthInv PROVE AuthResultsTrue
    OBVIOUS
  <2>1. \A a \in Auths : Len(results[a]) <= 1
    <3> SUFFICES ASSUME NEW a \in Auths PROVE Len(results[a]) <= 1
      OBVIOUS
    <3>1. Len(<<>>) <= 1 /\ \A rc \in Codes : Len(<<rc>>) <= 1
      OBVIOUS
    <3>2. results[a] = <<>> \/ \E rc \in Codes : results[a] = <<rc>>
      BY DEF AuthInv, CompletionInv
    <3> QED
      BY <3>1, <3>2, Zenon
  <2>2. \A a \in Range(auth_h) \cap pending : results[a] = <<>>
    BY DEF AuthInv, CompletionInv
  <2> QED
    BY <2>1, <2>2 DEF AuthInv, CompletionInv, AuthResultsTrue
<1> QED
  BY <1>1, AuthInvariant, PTL

\* No request overtakes the credentials of its connection.
THEOREM AuthFirst == AuthSpec => []AuthBeforeRequests
<1>1. AuthInit => AuthBeforeRequests
  BY DEF AuthInit, AuthBeforeRequests
<1>2. AuthInv /\ AuthBeforeRequests /\ [AuthNext]_authVars => AuthBeforeRequests'
  BY BeforeStep
<1> QED
  BY <1>1, <1>2, AuthInvariant, PTL DEF AuthSpec

\* Only a packet put in front of one sent in part breaks a packet up.
THEOREM OnlyOvertakingGarbles == AuthSpec => []WholeUnlessOvertaken
<1>1. AuthInv => WholeUnlessOvertaken
  BY DEF AuthInv, StreamInv, Follows, WholeUnlessOvertaken
<1> QED
  BY <1>1, AuthInvariant, PTL
=============================================================================
