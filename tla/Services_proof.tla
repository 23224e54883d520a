--------------------------- MODULE Services_proof ---------------------------
(***************************************************************************)
(* Proofs about the service modules: the io_service pool, the timers, the  *)
(* daily log files and the uuids, for every size of the pool, every number *)
(* of signals, callbacks, days, threads and keys, and every clock.         *)
(***************************************************************************)
EXTENDS IoServices, Timers, Logging, Uuid, TLAPS

-----------------------------------------------------------------------------
(* The io_service pool.                                                    *)

\* run sets is_runing before it waits for the threads and nobody sets it again, so
\* that a thread that waits with is_runing cleared waits for somebody who is stopping.
StopInv ==
  /\ pc \in [Callers -> {"idle", "test", "stopping", "next", "returned"}]
  /\ is_runing => main \in {"join", "done"}
  /\ StopHeardOnceJoining

LEMMA StopInvStep ==
  ASSUME StopInv, [ServicesNext]_serviceVars
  PROVE  StopInv'
<1> USE DEF Callers
<1>0. /\ pc \in [Callers -> {"idle", "test", "stopping", "next", "returned"}]
      /\ is_runing => main \in {"join", "done"}
      /\ StopHeardOnceJoining
  BY DEF StopInv
<1>1. CASE init \/ GetIndex \/ GetService \/ (\E s \in Signals : registerEvent(s) \/ Raise(s))
           \/ (\E i \in Services : ThreadEnds(i)) \/ UNCHANGED serviceVars
  <2>1. UNCHANGED <<is_runing, stopped, main, pc>>
    BY <1>1 DEF init, GetIndex, GetService, registerEvent, Raise, ThreadEnds, serviceVars, poolThreads
  <2> QED
    BY <1>0, <2>1 DEF StopInv, StopHeardOnceJoining
<1>2. CASE Main
  BY <1>0, <1>2 DEF Main, SpawnThread, SetRunning, JoinThreads, StopInv, StopHeardOnceJoining
<1>3. ASSUME NEW p \in Callers, StopTest(p) PROVE StopInv'
  BY <1>0, <1>3 DEF StopTest, Return, StopInv, StopHeardOnceJoining
<1>4. ASSUME NEW p \in Callers, StopServices(p) PROVE StopInv'
  BY <1>0, <1>4 DEF StopServices, ServicesToStop, Return, StopInv, StopHeardOnceJoining
<1>5. CASE AppStops \/ HandlerBegins \/ HandlerNext
  BY <1>0, <1>5 DEF AppStops, HandlerBegins, HandlerNext, InHandler, poolThreads, StopInv,
     StopHeardOnceJoining
<1> QED
  BY <1>1, <1>2, <1>3, <1>4, <1>5 DEF ServicesNext, Handler, Stop

\* From the moment run waits for its threads no stop is lost: is_runing is cleared only
\* by a caller that goes on to stop every io_service.
THEOREM StopHeard == ServicesSpec => []StopHeardOnceJoining
<1>1. ServicesInit => StopInv
  BY DEF ServicesInit, StopInv, StopHeardOnceJoining, Callers
<1>2. StopInv /\ [ServicesNext]_serviceVars => StopInv'
  BY StopInvStep
<1>3. StopInv => StopHeardOnceJoining
  BY DEF StopInv
<1> QED
  BY <1>1, <1>2, <1>3, PTL DEF ServicesSpec

-----------------------------------------------------------------------------
(* The daily log files.                                                    *)

\* The file and the day it was opened for, as far as the call that holds the mutex has
\* come: name and timestamp are at most one midnight apart, and so are the test of the
\* date and the write.
LogInv ==
  /\ day \in Int /\ filename \in Int /\ timestamp \in Int /\ midnights \in {0, 1}
  /\ isInit \in BOOLEAN /\ is_open \in BOOLEAN
  /\ lpc \in {"directory", "name", "stamp", "open", "idle", "compare", "write"}
  /\ lpc \in {"idle", "compare"} => (isInit => is_open)
  /\ lpc = "directory" => ~is_open
  /\ lpc = "write" => is_open
  /\ lpc \in {"idle", "compare", "write"} /\ is_open =>
       timestamp - filename \in {0, 1} /\ timestamp <= day
  /\ lpc = "stamp" => day - filename \in 0 .. midnights
  /\ lpc = "open" => day - filename \in 0 .. midnights /\ timestamp \in filename .. day
  /\ lpc = "write" => day - filename \in 0 .. midnights + 1
  /\ LinesNearTheirFile

LEMMA LogStep ==
  ASSUME LogInv, [LogNext]_logVars
  PROVE  LogInv'
<1> USE DEF LogInv, LinesNearTheirFile
<1>1. CASE UNCHANGED logVars
  BY <1>1 DEF logVars
<1>2. CASE NewDay
  BY <1>2 DEF NewDay
<1>3. CASE CompareDate
  <2>1. /\ lpc = "compare" /\ UNCHANGED <<day, midnights, filename, timestamp, lines>>
        /\ isInit' \in BOOLEAN /\ is_open' \in BOOLEAN
    BY <1>3, Zenon DEF CompareDate
  <2>2. \/ lpc' = "write" /\ is_open' /\ is_open /\ day = timestamp
        \/ lpc' = "name"
    BY <1>3 DEF CompareDate, OfAnotherDay
  <2> QED
    BY <2>1, <2>2
<1>4. CASE ReadName
  BY <1>4 DEF ReadName
<1>5. CASE ReadTimestamp
  BY <1>5 DEF ReadTimestamp
<1>6. CASE WriteLine
  BY <1>6 DEF WriteLine
<1>7. ASSUME NEW ok \in BOOLEAN, MakeDirectory(ok) \/ OpenFile(ok) PROVE LogInv'
  <2>1. /\ UNCHANGED <<day, filename, timestamp, lines>>
        /\ isInit' \in BOOLEAN /\ is_open' \in BOOLEAN
        /\ midnights' = midnights \/ midnights' = 0
    BY <1>7, Zenon DEF MakeDirectory, OpenFile
  <2>2. CASE MakeDirectory(ok)
    <3>1. \/ lpc' = "name"
          \/ lpc = "directory" /\ lpc' = "idle" /\ ~isInit' /\ ~is_open'
      BY <2>2 DEF MakeDirectory
    <3> QED
      BY <2>1, <3>1
  <2>3. CASE OpenFile(ok)
    <3>1. /\ lpc = "open" /\ (isInit' => is_open') /\ lpc' \in {"write", "idle"}
          /\ lpc' = "write" => is_open' /\ midnights' = midnights
      BY <2>3 DEF OpenFile
    <3> QED
      BY <2>1, <3>1
  <2> QED
    BY <1>7, <2>2, <2>3
<1>8. ASSUME NEW lev \in Levels, setLogLevel(lev) \/ inputContent(lev) PROVE LogInv'
  BY <1>8 DEF setLogLevel, inputContent
<1> QED
  BY <1>1, <1>2, <1>3, <1>4, <1>5, <1>6, <1>7, <1>8 DEF LogNext

\* A line is never in the file of a later day, and at most in the file of the day before
\* the day before, wherever the midnights fall between the reads of the date.
THEOREM LinesNear == LogSpec => []LinesNearTheirFile
<1>1. ASSUME LogInit PROVE LogInv
  <2>1. isInit \in BOOLEAN /\ is_open \in BOOLEAN /\ lpc = "directory"
    BY <1>1, Zenon DEF LogInit
  <2>2. day \in Int /\ filename \in Int /\ timestamp \in Int /\ midnights \in {0, 1}
    BY <1>1 DEF LogInit, NoDay
  <2>3. ~is_open /\ lines = {}
    BY <1>1 DEF LogInit
  <2> QED
    BY <2>1, <2>2, <2>3 DEF LogInv, LinesNearTheirFile
<1>2. LogInv /\ [LogNext]_logVars => LogInv'
  BY LogStep
<1>3. LogInv => LinesNearTheirFile
  BY DEF LogInv
<1> QED
  BY <1>1, <1>2, <1>3, PTL DEF LogSpec

-----------------------------------------------------------------------------
(* The timers.                                                             *)

\* The function was called for the deadline k days before the present one, if that is
\* one of those that were waited for.
CalledFor(k) ==
  tZone - k * DaySeconds >= firstZone
    => (tZone - k * DaySeconds) * TicksPerSecond \in calledFor

\* A PointerTimer that waits was called for every day before; one that is about to wait
\* was called for the present one as well, so that it may move on, by one day.
TimerInv ==
  /\ now \in Nat /\ local_time \in Int /\ utc \in Int /\ tZone \in Int /\ firstZone \in Int
  /\ timer = "pointer" =>
       /\ tpc \in {"armed", "queued"} =>
            expiry = tZone * TicksPerSecond /\ \A k \in Nat \ {0} : CalledFor(k)
       /\ tpc \in {"local_day", "utc", "local"} => firstZone = None
       /\ tpc = "wait" => firstZone = None \/ \A k \in Nat : CalledFor(k)

LEMMA TimerStep ==
  ASSUME TimerInv, [TimersNext]_timerVars
  PROVE  TimerInv'
<1> DEFINE D == DaySeconds
           T == TicksPerSecond
<1>0. /\ D \in Nat \ {0} /\ T \in Nat \ {0} /\ Period \in Nat /\ Offset \in Int /\ ExactTime \in Int
  BY TimersAssumption
<1>a. Seconds \in Int /\ Midnight(Seconds + Offset) \in Int
  <2>1. Seconds \in Int
    BY <1>0 DEF TimerInv, Seconds
  <2>2. (Seconds + Offset) \div D \in Int
    BY <1>0, <2>1
  <2> QED
    BY <1>0, <2>1, <2>2 DEF Midnight
<1>1. CASE UNCHANGED timerVars \/ Tick \/ Expires \/ cancle
  BY <1>1 DEF timerVars, Tick, Expires, cancle, TimerInv, CalledFor
<1>2. CASE ConstructPeriod
  BY <1>2 DEF ConstructPeriod, TimerInv
<1>3. CASE ReadLocalDay
  BY <1>0, <1>3, <1>a DEF ReadLocalDay, TimerInv
<1>4. CASE ReadUtc
  BY <1>4, <1>a DEF ReadUtc, TimerInv
<1>5. CASE ReadLocal
  <2>1. tZone' \in Int
    BY <1>0, <1>5, <1>a DEF ReadLocal, TimerInv
  <2> QED
    BY <1>5, <2>1 DEF ReadLocal, TimerInv
<1>6. CASE wait_async
  <2>1. CASE timer # "pointer"
    BY <1>6, <2>1 DEF wait_async, TimerInv
  <2>2. CASE timer = "pointer"
    <3>1. /\ tpc = "wait" /\ tpc' = "armed" /\ UNCHANGED <<now, timer, local_time, utc, calledFor>>
          /\ tZone' = tZone \/ tZone' = tZone + D
          /\ expiry' = tZone' * T
          /\ firstZone' = IF firstZone = None THEN tZone' ELSE firstZone
      BY <1>6, <2>2 DEF wait_async, NextZone
    <3>2. tZone \in Int /\ tZone' \in Int /\ firstZone \in Int /\ firstZone' \in Int
      BY <1>0, <3>1 DEF TimerInv
    <3>3. ASSUME NEW k \in Nat \ {0} PROVE CalledFor(k)'
      <4>0. k * D \in Int /\ k * D > 0
        BY <1>0
      <4>1. CASE firstZone = None
        <5>1. firstZone' = tZone'
          BY <3>1, <4>1
        <5>2. ASSUME NEW x \in Int, NEW z \in Int, x > 0 PROVE ~(z - x >= z)
          BY <5>2
        <5>3. ~(tZone' - k * D >= firstZone')
          BY <3>2, <4>0, <5>1, <5>2
        <5> QED
          BY <5>3 DEF CalledFor
      <4>2. CASE firstZone # None /\ tZone' = tZone
        BY <2>2, <3>1, <4>2 DEF CalledFor, TimerInv
      <4>3. CASE firstZone # None /\ tZone' = tZone + D
        <5>1. k - 1 \in Nat /\ tZone' - k * D = tZone - (k - 1) * D
          BY <1>0, <3>2, <4>3
        <5>2. CalledFor(k - 1)
          BY <2>2, <3>1, <4>3, <5>1 DEF TimerInv
        <5>3. firstZone' = firstZone /\ calledFor' = calledFor
          BY <3>1, <4>3
        <5> QED
          BY <5>1, <5>2, <5>3 DEF CalledFor
      <4> QED
        BY <3>1, <4>1, <4>2, <4>3
    <3> QED
      BY <2>2, <3>1, <3>2, <3>3 DEF TimerInv
  <2> QED
    BY <2>1, <2>2
<1>7. CASE run
  <2>1. /\ tpc = "queued" /\ tpc' = "wait" /\ calledFor' = calledFor \union {expiry}
        /\ UNCHANGED <<now, timer, local_time, utc, tZone, firstZone>>
    BY <1>7 DEF run
  <2>2. ASSUME timer = "pointer", NEW k \in Nat PROVE CalledFor(k)'
    <3>1. CASE k = 0
      <4>1. tZone - k * D = tZone
        BY <1>0, <3>1 DEF TimerInv
      <4>2. tZone * T \in calledFor'
        BY <2>1, <2>2 DEF TimerInv
      <4> QED
        BY <2>1, <4>1, <4>2 DEF CalledFor
    <3>2. CASE k # 0
      <4>1. CalledFor(k)
        BY <2>1, <2>2, <3>2 DEF TimerInv
      <4> QED
        BY <2>1, <4>1 DEF CalledFor
    <3> QED
      BY <3>1, <3>2
  <2> QED
    BY <2>1, <2>2 DEF TimerInv
<1> QED
  BY <1>1, <1>2, <1>3, <1>4, <1>5, <1>6, <1>7 DEF TimersNext

\* A PointerTimer calls its function for every day since the first it waited for,
\* however late the calls come: wait_async moves a deadline by one day at a time.
THEOREM NoDayLeftOut == TimersSpec => []NoDaySkipped
<1>1. TimersInit => TimerInv
  BY TimersAssumption DEF TimersInit, TimerInv, None
<1>2. TimerInv /\ [TimersNext]_timerVars => TimerInv'
  BY TimerStep
<1>3. TimerInv => NoDaySkipped
  <2> SUFFICES ASSUME TimerInv, timer = "pointer", tpc = "armed", NEW zone \in firstZone .. tZone - 1,
                      (tZone - zone) % DaySeconds = 0
               PROVE  zone * TicksPerSecond \in calledFor
    BY DEF NoDaySkipped
  <2>1. tZone \in Int /\ firstZone \in Int /\ DaySeconds \in Nat \ {0} /\ zone \in Int /\ zone < tZone
    BY TimersAssumption DEF TimerInv
  <2> DEFINE k == (tZone - zone) \div DaySeconds
  <2>2. k \in Int /\ tZone - zone = DaySeconds * k
    BY <2>1
  <2>3. k > 0
    BY <2>1, <2>2
  <2>4. k \in Nat \ {0} /\ tZone - k * DaySeconds = zone
    BY <2>1, <2>2, <2>3
  <2> HIDE DEF k
  <2>5. CalledFor(k)
    BY <2>4 DEF TimerInv
  <2> QED
    BY <2>1, <2>4, <2>5 DEF CalledFor
<1> QED
  BY <1>1, <1>2, <1>3, PTL DEF TimersSpec

-----------------------------------------------------------------------------
(* The uuids.                                                              *)

\* The counter c after n increments, however often it went round.
AfterIncrements(c, n) == \E q \in Int : c = 1 + n - q * Width

\* Every increment is taken by one thread and ends up in one key.
UuidInv ==
  /\ made \in Nat /\ counter \in 0 .. Width - 1 /\ AfterIncrements(counter, made)
  /\ gpc \in [Threads -> {"idle", "count", "compose"}]
  /\ tstr \in [Threads -> Nat] /\ counterstr \in [Threads -> Nat] /\ taken \in [Threads -> Nat]
  /\ keys \subseteq [time : Nat, counter : Nat, nth : Nat] /\ time \in Nat
  /\ \A t \in Threads : gpc[t] = "compose" =>
       /\ taken[t] <= made /\ AfterIncrements(counterstr[t], taken[t])
       /\ \A u \in Threads : gpc[u] = "compose" /\ taken[u] = taken[t] => u = t
       /\ \A k \in keys : k.nth # taken[t]
  /\ \A k \in keys : k.nth <= made /\ AfterIncrements(k.counter, k.nth)
  /\ \A k, l \in keys : k.nth = l.nth => k = l

\* A multiple of the width is a multiple.
LEMMA Multiple ==
  ASSUME NEW W \in Nat \ {0}, NEW q \in Int
  PROVE  (q * W) % W = 0
<1> DEFINE x == q * W
           d == x \div W
           m == x % W
<1>1. x \in Int /\ d \in Int /\ m \in 0 .. W - 1 /\ x = W * d + m
  OBVIOUS
<1>2. m = W * (q - d)
  BY <1>1
<1> QED
  BY <1>1, <1>2

LEMMA UuidStep ==
  ASSUME UuidInv, [UuidNext]_uuidVars
  PROVE  UuidInv'
<1>0. Width \in Nat \ {0} /\ Clock \subseteq Nat
  BY UuidAssumption
<1>1. CASE UNCHANGED uuidVars
  BY <1>1 DEF uuidVars, UuidInv, AfterIncrements
<1>2. ASSUME NEW s \in Clock, SetClock(s) PROVE UuidInv'
  BY <1>0, <1>2 DEF SetClock, UuidInv, AfterIncrements
<1>3. ASSUME NEW t \in Threads, ReadTime(t) PROVE UuidInv'
  BY <1>3 DEF ReadTime, UuidInv, AfterIncrements
<1>4. ASSUME NEW t \in Threads, TakeCounter(t) PROVE UuidInv'
  <2>1. PICK q \in Int : counter = 1 + made - q * Width
    BY DEF UuidInv, AfterIncrements
  <2>2. /\ counter \in 0 .. Width - 1 /\ made \in Nat /\ counter' = (counter + 1) % Width
        /\ made' = made + 1
    BY <1>4 DEF TakeCounter, Incremented, UuidInv
  <2>3. counter' = IF counter + 1 = Width THEN 0 ELSE counter + 1
    BY <1>0, <2>2
  <2>4. counter' \in 0 .. Width - 1 /\ counter' \in Nat /\ made' \in Nat
    BY <1>0, <2>2, <2>3
  <2>5. AfterIncrements(counter', made')
    <3>1. counter' = 1 + made' - q * Width \/ counter' = 1 + made' - (q + 1) * Width
      BY <1>0, <2>1, <2>2, <2>3
    <3> QED
      BY <3>1 DEF AfterIncrements
  <2>6. /\ gpc' = [gpc EXCEPT ![t] = "compose"] /\ taken' = [taken EXCEPT ![t] = made']
        /\ counterstr' = [counterstr EXCEPT ![t] = counter'] /\ UNCHANGED <<time, tstr, keys>>
    BY <1>4 DEF TakeCounter
  <2>7. ASSUME NEW u \in Threads, gpc'[u] = "compose"
        PROVE  /\ taken'[u] <= made' /\ AfterIncrements(counterstr'[u], taken'[u])
               /\ \A v \in Threads : gpc'[v] = "compose" /\ taken'[v] = taken'[u] => v = u
               /\ \A k \in keys' : k.nth # taken'[u]
    <3>1. CASE u = t
      <4>1. taken'[u] = made + 1 /\ counterstr'[u] = counter'
        BY <2>2, <2>6, <3>1 DEF UuidInv
      <4>2. \A v \in Threads : v # t /\ gpc'[v] = "compose" => taken'[v] <= made /\ taken'[v] \in Nat
        BY <2>6 DEF UuidInv
      <4>3. \A k \in keys : k.nth <= made /\ k.nth \in Nat
        BY DEF UuidInv
      <4> QED
        BY <2>2, <2>5, <2>6, <3>1, <4>1, <4>2, <4>3
    <3>2. CASE u # t
      <4>1. gpc[u] = "compose" /\ taken'[u] = taken[u] /\ counterstr'[u] = counterstr[u]
        BY <2>6, <2>7, <3>2 DEF UuidInv
      <4>2. taken[u] <= made /\ taken[u] \in Nat /\ AfterIncrements(counterstr[u], taken[u])
            /\ \A k \in keys : k.nth # taken[u]
        BY <4>1 DEF UuidInv
      <4>3. ASSUME NEW v \in Threads, gpc'[v] = "compose", taken'[v] = taken'[u] PROVE v = u
        <5>1. v # t
          BY <2>2, <2>6, <4>1, <4>2, <4>3 DEF UuidInv
        <5>2. gpc[v] = "compose" /\ taken[v] = taken[u]
          BY <2>6, <4>1, <4>3, <5>1 DEF UuidInv
        <5> QED
          BY <4>1, <5>2 DEF UuidInv
      <4> QED
        BY <2>2, <2>6, <4>1, <4>2, <4>3
    <3> QED
      BY <3>1, <3>2
  <2>8. /\ gpc' \in [Threads -> {"idle", "count", "compose"}] /\ taken' \in [Threads -> Nat]
        /\ tstr' \in [Threads -> Nat] /\ counterstr' \in [Threads -> Nat]
    BY <2>4, <2>6 DEF UuidInv
  <2>9. \A k \in keys' : k.nth <= made' /\ AfterIncrements(k.counter, k.nth)
    <3>1. \A k \in keys : k.nth <= made /\ k.nth \in Nat /\ AfterIncrements(k.counter, k.nth)
      BY DEF UuidInv
    <3> QED
      BY <2>2, <2>6, <3>1
  <2>10. /\ \A k, l \in keys' : k.nth = l.nth => k = l
         /\ keys' \subseteq [time : Nat, counter : Nat, nth : Nat] /\ time' \in Nat
    BY <2>6 DEF UuidInv
  <2>11. AfterIncrements(counter, made)'
    BY <2>5 DEF AfterIncrements
  <2>12. \A u \in Threads : AfterIncrements(counterstr[u], taken[u])' <=> AfterIncrements(counterstr'[u], taken'[u])
    BY DEF AfterIncrements
  <2> QED
    BY <2>4, <2>7, <2>8, <2>9, <2>10, <2>11, <2>12 DEF UuidInv
<1>5. ASSUME NEW t \in Threads, Compose(t) PROVE UuidInv'
  <2> DEFINE key == [time |-> tstr[t], counter |-> counterstr[t], nth |-> taken[t]]
  <2>1. /\ gpc[t] = "compose" /\ keys' = keys \union {key} /\ gpc' = [gpc EXCEPT ![t] = "idle"]
        /\ UNCHANGED <<time, counter, made, tstr, counterstr, taken>>
    BY <1>5 DEF Compose, CounterPart
  <2>2. /\ key \in [time : Nat, counter : Nat, nth : Nat] /\ key.nth = taken[t]
        /\ key.counter = counterstr[t]
    BY DEF UuidInv
  <2> HIDE DEF key
  <2>3. /\ key.nth <= made /\ AfterIncrements(key.counter, key.nth)
        /\ \A u \in Threads : u # t /\ gpc[u] = "compose" => taken[u] # key.nth
        /\ \A k \in keys : k.nth # key.nth
    BY <2>1, <2>2 DEF UuidInv
  <2>4. \A u \in Threads : gpc'[u] = "compose" => u # t /\ gpc[u] = "compose"
    BY <2>1 DEF UuidInv
  <2>5. /\ gpc' \in [Threads -> {"idle", "count", "compose"}]
        /\ keys' \subseteq [time : Nat, counter : Nat, nth : Nat]
    BY <2>1, <2>2 DEF UuidInv
  <2>6. /\ \A k \in keys' : k.nth <= made /\ AfterIncrements(k.counter, k.nth)
        /\ \A k, l \in keys' : k.nth = l.nth => k = l
    BY <2>1, <2>3 DEF UuidInv
  <2>7. \A u \in Threads : gpc'[u] = "compose" =>
          /\ taken[u] <= made /\ AfterIncrements(counterstr[u], taken[u])
          /\ \A v \in Threads : gpc'[v] = "compose" /\ taken[v] = taken[u] => v = u
          /\ \A k \in keys' : k.nth # taken[u]
    BY <2>1, <2>3, <2>4 DEF UuidInv
  <2> QED
    BY <2>1, <2>5, <2>6, <2>7 DEF UuidInv, AfterIncrements
<1> QED
  BY <1>1, <1>2, <1>3, <1>4, <1>5 DEF UuidNext, generator

\* Two keys of a process are equal only if the counter went all the way round between
\* them, for every number of threads and whatever the clock does.
THEOREM KeysAreDistinct == UuidSpec => []KeysDistinct
<1>1. ASSUME UuidInit PROVE UuidInv
  <2>1. Width \in Nat \ {0} /\ Clock \subseteq Nat
    BY UuidAssumption
  <2>2. counter \in 0 .. Width - 1 /\ \E q \in Int : counter = 1 + 0 - q * Width
    <3>1. counter = 1 % Width
      BY <1>1 DEF UuidInit
    <3>2. CASE Width = 1
      <4>1. counter = 0 /\ 0 = 1 + 0 - 1 * Width
        BY <3>1, <3>2
      <4> QED
        BY <2>1, <4>1
    <3>3. CASE Width # 1
      <4>1. counter = 1 /\ 1 = 1 + 0 - 0 * Width
        BY <2>1, <3>1, <3>3
      <4> QED
        BY <2>1, <3>3, <4>1
    <3> QED
      BY <3>2, <3>3
  <2> QED
    BY <1>1, <2>1, <2>2 DEF UuidInit, UuidInv, AfterIncrements
<1>2. UuidInv /\ [UuidNext]_uuidVars => UuidInv'
  BY UuidStep
<1>3. UuidInv => KeysDistinct
  <2> SUFFICES ASSUME UuidInv, NEW k \in keys, NEW l \in keys, k # l, SameKey(k, l)
               PROVE  k.nth # l.nth /\ (k.nth - l.nth) % Width = 0
    BY DEF KeysDistinct
  <2>1. /\ k.nth # l.nth /\ k.counter = l.counter /\ k.nth \in Nat /\ l.nth \in Nat
        /\ AfterIncrements(k.counter, k.nth) /\ AfterIncrements(l.counter, l.nth)
    BY DEF UuidInv, SameKey
  <2>2. PICK p \in Int : k.counter = 1 + k.nth - p * Width
    BY <2>1 DEF AfterIncrements
  <2>3. PICK q \in Int : l.counter = 1 + l.nth - q * Width
    BY <2>1 DEF AfterIncrements
  <2>4. k.nth - l.nth = (p - q) * Width
    <3>1. Width \in Int
      BY UuidAssumption
    <3>2. p * Width \in Int /\ q * Width \in Int /\ (p - q) * Width = p * Width - q * Width
      BY <3>1
    <3>4. 1 + k.nth - p * Width = 1 + l.nth - q * Width
      BY <2>1, <2>2, <2>3
    <3>5. k.nth - l.nth = p * Width - q * Width
      <4> DEFINE x == p * Width
                 y == q * Width
      <4>1. x \in Int /\ y \in Int /\ k.nth \in Nat /\ l.nth \in Nat
        BY <2>1, <3>2
      <4>2. 1 + k.nth - x = 1 + l.nth - y
        BY <3>4
      <4> HIDE DEF x, y
      <4>3. k.nth - l.nth = x - y
        BY <4>1, <4>2
      <4> QED
        BY <4>3 DEF x, y
    <3> QED
      BY <3>2, <3>5
  <2>5. p - q \in Int /\ Width \in Nat \ {0}
    BY UuidAssumption
  <2> QED
    BY <2>1, <2>4, <2>5, Multiple
<1> QED
  BY <1>1, <1>2, <1>3, PTL DEF UuidSpec
=============================================================================
