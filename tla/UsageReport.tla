----------------------------- MODULE UsageReport -----------------------------
(***************************************************************************)
(* The calls a process reports to the shared table (core/api_usage.py): a  *)
(* flush reads the client's counter of the day, adds the difference from   *)
(* the last report to the row in an executor thread, and then remembers    *)
(* what it reported.  One category of calls, one process, two days.        *)
(***************************************************************************)
EXTENDS Integers

CONSTANTS
  MaxCalls,   \* bound: calls of a day
  MaxFlushes  \* bound: flushes started

ASSUME UsageAssumption == MaxCalls \in Nat \ {0} /\ MaxFlushes \in Nat

NoFlush == [at |-> "none", seen |-> 0, delta |-> 0, row |-> 1]

VARIABLES
  today,     \* the date, 1 or 2
  counted,   \* the date of the client's counter
  calls,     \* calls_today of the client
  made,      \* calls made on either date
  reported,  \* ApiUsageFlusher._last
  usage,     \* the rows of the table, by date
  flush,     \* the flush under way: [at, seen, delta, row]
  flushes,   \* flushes started
  torn       \* a flush was cancelled

clientVars == <<today, counted, calls, made>>
usageVars  == <<clientVars, reported, usage, flush, flushes, torn>>

InitUsage ==
  /\ today = 1 /\ counted = 1 /\ calls = 0 /\ made = [d \in 1..2 |-> 0]
  /\ reported = 0 /\ usage = [d \in 1..2 |-> 0]
  /\ flush = NoFlush /\ flushes = 0 /\ torn = FALSE

(* RateLimiter.acquire(): the first call of a date starts the count again. *)
Call ==
  /\ made[today] < MaxCalls
  /\ calls' = (IF counted = today THEN calls ELSE 0) + 1
  /\ counted' = today
  /\ made' = [made EXCEPT ![today] = @ + 1]
  /\ UNCHANGED <<today, reported, usage, flush, flushes, torn>>

Midnight ==
  /\ today = 1 /\ today' = 2
  /\ UNCHANGED <<counted, calls, made, reported, usage, flush, flushes, torn>>

(* Mutant: a counter that fell adds the old one to the new. *)
DeltaCarried == IF calls < reported THEN calls + reported ELSE calls - reported

(* A counter that fell was reset: all of it is new. *)
Delta == IF calls < reported THEN calls ELSE calls - reported

FlushReads ==
  /\ flush.at = "none" /\ flushes < MaxFlushes
  /\ flushes' = flushes + 1
  /\ flush' = IF Delta <= 0 THEN NoFlush
              ELSE [at |-> "write", seen |-> calls, delta |-> Delta, row |-> today]
  /\ UNCHANGED <<clientVars, reported, usage, torn>>

FlushWrites ==
  /\ flush.at = "write"
  /\ usage' = [usage EXCEPT ![flush.row] = @ + flush.delta]
  /\ flush' = [flush EXCEPT !.at = "written"]
  /\ UNCHANGED <<clientVars, reported, flushes, torn>>

(* The exception leaves _last as it was. *)
AfterFailure == reported

FlushFails ==
  /\ flush.at = "write"
  /\ flush' = NoFlush /\ reported' = AfterFailure
  /\ UNCHANGED <<clientVars, usage, flushes, torn>>

FlushEnds ==
  /\ flush.at = "written"
  /\ reported' = flush.seen
  /\ flush' = NoFlush
  /\ UNCHANGED <<clientVars, usage, flushes, torn>>

(* A task that is cancelled in its flush: the thread writes all the same,  *)
(* and _last stays where it was.                                           *)
FlushCancelled ==
  /\ flush.at \in {"write", "written"} /\ ~torn
  /\ usage' = IF flush.at = "write" THEN [usage EXCEPT ![flush.row] = @ + flush.delta]
              ELSE usage
  /\ flush' = NoFlush /\ torn' = TRUE
  /\ UNCHANGED <<clientVars, reported, flushes>>

UsageNext ==
  Call \/ Midnight \/ FlushReads \/ FlushWrites \/ FlushFails \/ FlushEnds \/ FlushCancelled

-----------------------------------------------------------------------------
(* Before midnight the row has what was remembered as reported, however    *)
(* many writes failed; over both dates no call is reported twice.  Only a  *)
(* flush cancelled after its read can make the table count too much.       *)
ReportIsExact ==
  ~torn =>
    /\ today = 1 /\ flush.at = "none" => usage[1] = reported
    /\ usage[1] + usage[2] <= made[1] + made[2]
=============================================================================
