-------------------------------- MODULE Uuid --------------------------------
(***************************************************************************)
(* The keys that one process makes with service_module/uuid/uuid.cpp: the  *)
(* second, the machine, the process id and a counter of fixed width, which *)
(* threads increment under a mutex.  The machine and the process are the   *)
(* same in all keys and left out; the clock may stand still, advance or be *)
(* set back.                                                               *)
(***************************************************************************)
EXTENDS Integers

CONSTANTS Threads,
          Width,      \* the counter has Width values, 2^32 in the code
          Clock,      \* what time(NULL) may return
          MaxKeys     \* keys that are generated

VARIABLES time,       \* the clock
          counter,
          made,       \* how often the counter was incremented
          gpc, tstr, counterstr,   \* by thread: place, time read, counter read
          taken,      \* by thread: which increment it made
          keys

uuidVars == <<time, counter, made, gpc, tstr, counterstr, taken, keys>>

ASSUME UuidAssumption ==
  Width \in Nat \ {0} /\ Clock \subseteq Nat /\ MaxKeys \in Nat

UuidInit ==
  /\ time \in Clock
  /\ counter = 1 % Width /\ made = 0
  /\ gpc = [t \in Threads |-> "idle"]
  /\ tstr = [t \in Threads |-> 0] /\ counterstr = [t \in Threads |-> 0]
  /\ taken = [t \in Threads |-> 0]
  /\ keys = {}

SetClock(s) ==
  /\ time' = s
  /\ UNCHANGED <<counter, made, gpc, tstr, counterstr, taken, keys>>

\* The time, the address (or a random number made from the time) and the process.
ReadTime(t) ==
  /\ gpc[t] = "idle"
  /\ made < MaxKeys
  /\ tstr' = [tstr EXCEPT ![t] = time]
  /\ gpc' = [gpc EXCEPT ![t] = "count"]
  /\ UNCHANGED <<time, counter, made, counterstr, taken, keys>>

Incremented == (counter + 1) % Width

\* Under the mutex.
TakeCounter(t) ==
  /\ gpc[t] = "count"
  /\ counter' = Incremented
  /\ counterstr' = [counterstr EXCEPT ![t] = counter']
  /\ made' = made + 1
  /\ taken' = [taken EXCEPT ![t] = made']
  /\ gpc' = [gpc EXCEPT ![t] = "compose"]
  /\ UNCHANGED <<time, tstr, keys>>

\* The counter is read again after the mutex was released.
CounterPart_Shared(t) == counter

CounterPart(t) == counterstr[t]

Compose(t) ==
  /\ gpc[t] = "compose"
  /\ keys' = keys \cup {[time |-> tstr[t], counter |-> CounterPart(t), nth |-> taken[t]]}
  /\ gpc' = [gpc EXCEPT ![t] = "idle"]
  /\ UNCHANGED <<time, counter, made, tstr, counterstr, taken>>

generator(t) == ReadTime(t) \/ TakeCounter(t) \/ Compose(t)

UuidNext ==
  \/ \E t \in Threads : generator(t)
  \/ \E s \in Clock : SetClock(s)

UuidSpec == UuidInit /\ [][UuidNext]_uuidVars

-----------------------------------------------------------------------------
(* Properties *)

SameKey(k, l) == k.time = l.time /\ k.counter = l.counter

\* Two keys are equal only if the counter went all the way round between them,
\* whatever the clock does and however the threads interleave.
KeysDistinct ==
  \A k, l \in keys :
    k # l /\ SameKey(k, l) => k.nth # l.nth /\ (k.nth - l.nth) % Width = 0
=============================================================================
