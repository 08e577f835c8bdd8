----------------------------- MODULE RateLimit -----------------------------
(***************************************************************************)
(* The limiter of the order category (core/client.py, RateLimiter).        *)
(*                                                                         *)
(* A window is a FIFO of time stamps.  Only its length decides anything,   *)
(* so time is the ageing of entries: a stamp leaves the short window       *)
(* before it leaves the minute window, and both before the day ends.  The  *)
(* hour window behaves as the day window does and is not kept apart.       *)
(***************************************************************************)
EXTENDS Integers, FiniteSets

CONSTANTS
  PerSec, PerMin, PerDay  \* the limits: calls per second, minute and day

ASSUME RateAssumption ==
  /\ {PerSec, PerMin, PerDay} \subseteq Nat
  /\ PerSec > 0 /\ PerMin > 0

VARIABLES
  sec, min, calls,  \* entries of the two short windows; calls of the day
  slept             \* history: a call was let through the minute window after
                    \* a wait, and not all of that second has passed

windowVars == <<sec, min, calls, slept>>

InitRate ==
  /\ sec = 0 /\ min = 0 /\ calls = 0 /\ slept = FALSE

-----------------------------------------------------------------------------
(* Mutant: off by one. *)
MinuteFreeAtLimit == min <= PerMin

(* acquire().  The windows are tried in order; the check of the last one   *)
(* and the record of the call are one step, the check of the second window *)
(* is an earlier one if the minute window made the call wait.              *)
SecondFree == sec < PerSec
MinuteFree == min < PerMin
DayFree == calls < PerDay

Record(waited) ==
  /\ MinuteFree /\ DayFree
  /\ sec' = sec + 1 /\ min' = min + 1 /\ calls' = calls + 1
  /\ slept' = (slept \/ waited)

SecondPasses ==
  /\ sec > 0
  /\ \E n \in 1..sec : sec' = sec - n
  /\ slept' = (slept /\ sec' > 0)
  /\ UNCHANGED <<min, calls>>

MinutePasses ==
  /\ min > sec
  /\ \E n \in 1..(min - sec) : min' = min - n
  /\ UNCHANGED <<sec, calls, slept>>

-----------------------------------------------------------------------------
(* No minute has more calls than the limit, no day more than its quota:    *)
(* nothing comes between the last check of acquire() and its record.       *)
LongWindowsHold == min <= PerMin /\ calls <= PerDay

(* The second's limit can only be passed by calls that had passed its      *)
(* check, slept in the minute window and were not checked against it again.*)
SecondHoldsUnlessSlept == sec <= PerSec \/ slept

(* The windows of RateLimiter.acquire(), with the one exception the code   *)
(* leaves.                                                                 *)
WindowsHold == LongWindowsHold /\ SecondHoldsUnlessSlept
=============================================================================
