------------------------------ MODULE ZkCalls ------------------------------
(***************************************************************************)
(* What the client library promises to the threads that call it, with no   *)
(* connection, queue or thread of its own: a call is refused, or it is     *)
(* accepted and then gets at most one result.  The results of asynchronous *)
(* calls are handed out in the order in which the calls were accepted;     *)
(* a synchronous call gets its result on its own, whenever it is ready.    *)
(***************************************************************************)
EXTENDS Naturals, Sequences

CONSTANTS Calls,      \* the calls the application may make, each once
          SyncCalls,  \* those made through the synchronous API
          RetCodes    \* the result codes a call may get

VARIABLES status,     \* what the library did with each call
          accepted,   \* the calls in the order in which they were accepted
          result      \* the results handed to each call, in order

callVars == <<status, accepted, result>>

Init ==
  /\ status = [c \in Calls |-> "new"]
  /\ accepted = <<>>
  /\ result = [c \in Calls |-> <<>>]

Refuse(c) ==
  /\ status[c] = "new"
  /\ status' = [status EXCEPT ![c] = "refused"]
  /\ UNCHANGED <<accepted, result>>

Accept(c) ==
  /\ status[c] = "new"
  /\ status' = [status EXCEPT ![c] = "accepted"]
  /\ accepted' = Append(accepted, c)
  /\ UNCHANGED result

AcceptedBefore(c, d) ==
  \E p, q \in DOMAIN accepted : p < q /\ accepted[p] = c /\ accepted[q] = d

\* Every asynchronous call that was accepted earlier has its result.
AnswerAsync(c, rc) ==
  /\ result[c] = <<>>
  /\ result' = [result EXCEPT ![c] = <<rc>>]
  /\ status[c] = "accepted"
  /\ \A d \in Calls \ SyncCalls : AcceptedBefore(d, c) => result[d] # <<>>
  /\ UNCHANGED <<status, accepted>>

AnswerSync(c, rc) ==
  /\ result[c] = <<>>
  /\ result' = [result EXCEPT ![c] = <<rc>>]
  /\ status[c] = "accepted"
  /\ UNCHANGED <<status, accepted>>

Next ==
  \/ \E c \in Calls : Refuse(c) \/ Accept(c)
  \/ \E c \in Calls \ SyncCalls, rc \in RetCodes : AnswerAsync(c, rc)
  \/ \E c \in SyncCalls, rc \in RetCodes : AnswerSync(c, rc)

Spec == Init /\ [][Next]_callVars
=============================================================================
