------------------------------- MODULE Timers -------------------------------
(***************************************************************************)
(* The timers of service_module/asio/timer.cpp.  A PeriodTimer calls its   *)
(* function every period, a PointerTimer at one time of every day.         *)
(*                                                                         *)
(* The clock runs in ticks; second_clock, which PointerTimer reads, drops  *)
(* the fraction of a second.  Time passes between any two reads of the     *)
(* clock and while the function runs.  Times are UTC; local time is UTC    *)
(* plus Offset.  The deadline_timer of asio is external: it completes its  *)
(* async_wait when the deadline has passed, at once if it is in the past,  *)
(* and cancel has no effect on a wait that has completed.                  *)
(***************************************************************************)
EXTENDS Integers

CONSTANTS TicksPerSecond, DaySeconds,
          Offset,      \* of local time, in seconds; not 0 (see PointerTimer)
          ExactTime,   \* local time of day of a PointerTimer
          Period,      \* of a PeriodTimer, in seconds
          Start,       \* the clock when the timer is constructed
          MaxTicks     \* the clock stops here

VARIABLES now,         \* ticks
          timer,       \* "period" or "pointer"
          tpc,         \* where the timer's program is
          local_time, utc,
          tZone,       \* the PointerTimer's deadline, in seconds
          expiry,      \* deadline of the asio timer, in ticks
          calledFor,   \* the deadlines the function was called for
          firstZone    \* the first deadline that was waited for

timerVars == <<now, timer, tpc, local_time, utc, tZone, expiry, calledFor, firstZone>>

None == -1

ASSUME TimersAssumption ==
  /\ TicksPerSecond \in Nat \ {0} /\ DaySeconds \in Nat \ {0} /\ Period \in Nat \ {0}
  /\ Offset \in Int \ {0} /\ ExactTime \in 0..DaySeconds - 1
  /\ Start \in Nat /\ MaxTicks \in Nat

Seconds      == now \div TicksPerSecond        \* second_clock
Midnight(s)  == (s \div DaySeconds) * DaySeconds

TimersInit ==
  /\ now = Start /\ timer \in {"period", "pointer"}
  /\ tpc = "local_day"
  /\ local_time = None /\ utc = None /\ tZone = None
  /\ expiry = None /\ calledFor = {} /\ firstZone = None

Tick ==
  /\ now < MaxTicks
  /\ now' = now + 1
  /\ UNCHANGED <<timer, tpc, local_time, utc, tZone, expiry, calledFor, firstZone>>

\* PeriodTimer's constructor: the first deadline, which wait_async replaces.
ConstructPeriod ==
  /\ timer = "period" /\ tpc = "local_day"
  /\ expiry' = now + Period * TicksPerSecond
  /\ tpc' = "wait"
  /\ UNCHANGED <<now, timer, local_time, utc, tZone, calledFor, firstZone>>

\* PointerTimer's constructor reads the clock three times.
ReadLocalDay ==
  /\ timer = "pointer" /\ tpc = "local_day"
  /\ local_time' = Midnight(Seconds + Offset) + ExactTime
  /\ tpc' = "utc"
  /\ UNCHANGED <<now, timer, utc, tZone, expiry, calledFor, firstZone>>

ReadUtc ==
  /\ tpc = "utc"
  /\ utc' = Seconds
  /\ tpc' = "local"
  /\ UNCHANGED <<now, timer, local_time, tZone, expiry, calledFor, firstZone>>

\* The distance between the clocks is that of the two reads, however far apart.
\* When they agree, tZone stays not_a_date_time, which is left out here.
ReadLocal ==
  /\ tpc = "local"
  /\ Seconds + Offset # utc
  /\ LET zone == local_time - (Seconds + Offset - utc)
     IN  tZone' = IF zone < utc THEN zone + DaySeconds ELSE zone
  /\ tpc' = "wait"
  /\ UNCHANGED <<now, timer, local_time, utc, expiry, calledFor, firstZone>>

\* The next deadline that has not passed.
NextZone_Future(curr, zone) ==
  IF curr > zone THEN zone + ((curr - zone) \div DaySeconds + 1) * DaySeconds ELSE zone

\* wait_async of PointerTimer moves a deadline that has passed to the next day.
NextZone(curr, zone) == IF curr > zone THEN zone + DaySeconds ELSE zone

wait_async ==
  /\ tpc = "wait"
  /\ tZone' = IF timer = "pointer" THEN NextZone(Seconds, tZone) ELSE tZone
  /\ expiry' = IF timer = "pointer" THEN tZone' * TicksPerSecond
                                    ELSE now + Period * TicksPerSecond
  /\ firstZone' = IF firstZone = None THEN tZone' ELSE firstZone
  /\ tpc' = "armed"
  /\ UNCHANGED <<now, timer, local_time, utc, calledFor>>

Expires ==
  /\ tpc = "armed"
  /\ now >= expiry
  /\ tpc' = "queued"
  /\ UNCHANGED <<now, timer, local_time, utc, tZone, expiry, calledFor, firstZone>>

\* cancle: the wait completes with an error, and run does nothing.
cancle ==
  /\ tpc = "armed"
  /\ tpc' = "cancelled"
  /\ UNCHANGED <<now, timer, local_time, utc, tZone, expiry, calledFor, firstZone>>

\* run without an error: the function, then wait_async.
run ==
  /\ tpc = "queued"
  /\ calledFor' = calledFor \cup {expiry}
  /\ tpc' = "wait"
  /\ UNCHANGED <<now, timer, local_time, utc, tZone, expiry, firstZone>>

TimersNext ==
  \/ Tick \/ ConstructPeriod \/ ReadLocalDay \/ ReadUtc \/ ReadLocal
  \/ wait_async \/ Expires \/ cancle \/ run

TimersSpec == TimersInit /\ [][TimersNext]_timerVars

-----------------------------------------------------------------------------
(* Properties *)

\* No day is left out: when a PointerTimer waits for a deadline, its function was
\* called for every earlier one since the first it waited for, also when the
\* function, or the thread it runs on, was late by more than a day.
NoDaySkipped ==
  timer = "pointer" /\ tpc = "armed" =>
    \A zone \in firstZone..tZone - 1 :
      (tZone - zone) % DaySeconds = 0 => zone * TicksPerSecond \in calledFor
=============================================================================
