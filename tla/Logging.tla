------------------------------ MODULE Logging ------------------------------
(***************************************************************************)
(* The daily log files of service_module/log/log_module.cpp: one handler   *)
(* of CLog (the log of one module), its level, its file and the day it was *)
(* opened for.  A call holds the handler's mutex from the test of the      *)
(* level to the write, but reads the date up to four times, and midnight   *)
(* may come between any two of them (once in a call: a call is shorter     *)
(* than a day).                                                            *)
(***************************************************************************)
EXTENDS Integers

CONSTANTS Levels,      \* EMERG .. DEBUG as numbers, the larger the more verbose
          MaxDay       \* days 0..MaxDay are modelled

VARIABLES day,         \* the date of the system
          midnights,   \* that came during the current call
          level, isInit, is_open,
          filename,    \* the day in the name of the file
          timestamp,
          lpc,         \* where the call that holds mtx is
          constructing,\* the constructor has not returned
          lines      \* what was written: the day of the file, and of the line

logVars == <<day, midnights, level, isInit, is_open, filename, timestamp, lpc, constructing, lines>>

NoDay == -1

ASSUME LoggingAssumption == Levels \subseteq Nat /\ MaxDay \in Nat

LogInit ==
  /\ day = 0 /\ midnights = 0
  /\ level \in Levels
  /\ isInit = TRUE /\ is_open = FALSE
  /\ filename = NoDay /\ timestamp = NoDay
  /\ lpc = "directory" /\ constructing = TRUE
  /\ lines = {}

NewDay ==
  /\ day < MaxDay
  /\ lpc # "idle" => midnights = 0
  /\ day' = day + 1
  /\ midnights' = IF lpc = "idle" THEN 0 ELSE 1
  /\ UNCHANGED <<level, isInit, is_open, filename, timestamp, lpc, constructing, lines>>

-----------------------------------------------------------------------------
(* The handler's constructor, and the level *)

\* The directory exists, is made, or cannot be made: then no file is opened.
MakeDirectory(ok) ==
  /\ lpc = "directory"
  /\ isInit' = ok
  /\ lpc' = IF ok THEN "name" ELSE "idle"
  /\ midnights' = IF ok THEN midnights ELSE 0
  /\ constructing' = ok
  /\ UNCHANGED <<day, level, is_open, filename, timestamp, lines>>

\* CLog::inputHandler for a module that has a handler.
setLogLevel(lev) ==
  /\ lpc = "idle"
  /\ level' = lev
  /\ UNCHANGED <<day, midnights, isInit, is_open, filename, timestamp, lpc, constructing, lines>>

-----------------------------------------------------------------------------
(* inputContent, reached from LOG through wLog2File *)

Filtered(lev) == lev > level

inputContent(lev) ==
  /\ lpc = "idle"
  /\ ~Filtered(lev)
  /\ lpc' = "compare"
  /\ UNCHANGED <<day, midnights, level, isInit, is_open, filename, timestamp, constructing, lines>>

\* The file is never changed.
OfAnotherDay_Never == FALSE

OfAnotherDay == is_open /\ day # timestamp

CompareDate ==
  /\ lpc = "compare"
  /\ isInit' = (isInit /\ ~OfAnotherDay)
  /\ is_open' = (is_open /\ ~OfAnotherDay)
  /\ lpc' = IF isInit' THEN "write" ELSE "name"
  /\ UNCHANGED <<day, midnights, level, filename, timestamp, constructing, lines>>

ReadName ==
  /\ lpc = "name"
  /\ filename' = day
  /\ lpc' = "stamp"
  /\ UNCHANGED <<day, midnights, level, isInit, is_open, timestamp, constructing, lines>>

ReadTimestamp ==
  /\ lpc = "stamp"
  /\ timestamp' = day
  /\ lpc' = "open"
  /\ UNCHANGED <<day, midnights, level, isInit, is_open, filename, constructing, lines>>

\* The open may fail: nothing is written then, and the next call tries again.
OpenFile(ok) ==
  /\ lpc = "open"
  /\ isInit' = ok /\ is_open' = ok
  /\ lpc' = IF ok /\ ~constructing THEN "write" ELSE "idle"
  /\ midnights' = IF ok /\ ~constructing THEN midnights ELSE 0
  /\ constructing' = FALSE
  /\ UNCHANGED <<day, level, filename, timestamp, lines>>

WriteLine ==
  /\ lpc = "write"
  /\ lines' = lines \cup {[file |-> filename, line |-> day]}
  /\ lpc' = "idle"
  /\ midnights' = 0
  /\ UNCHANGED <<day, level, isInit, is_open, filename, timestamp, constructing>>

LogNext ==
  \/ NewDay \/ CompareDate \/ ReadName \/ ReadTimestamp \/ WriteLine
  \/ \E ok \in BOOLEAN : MakeDirectory(ok) \/ OpenFile(ok)
  \/ \E lev \in Levels : setLogLevel(lev) \/ inputContent(lev)

LogSpec == LogInit /\ [][LogNext]_logVars

-----------------------------------------------------------------------------
(* Properties *)

\* A line is in the file of its day, or of one of the two days before: name and
\* timestamp may be read on both sides of a midnight, which keeps the file for a
\* day too long, and the line's own date is read last.  It is never in the file
\* of a later day.
LinesNearTheirFile == \A w \in lines : w.line - w.file \in 0..2
=============================================================================
