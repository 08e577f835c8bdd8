---------------------------- MODULE PositionLimit ----------------------------
(***************************************************************************)
(* How far the limits of check_intent() hold when runners act at once.  It *)
(* counts the positions and the booked risk before the await of the        *)
(* executor; the position appears after it, its risk is registered after   *)
(* one await more.  Nothing is reserved in between.                        *)
(***************************************************************************)
EXTENDS OrderFlow

VARIABLES
  base,  \* history: positions the process found when it started
  peak   \* history: since then, the most entries before their executor at once

limitVars == <<vars, base, peak>>

(* Entries that check_intent has passed and that have not been filled yet. *)
Entering == {s \in Sids : pc[s] = "submit" /\ order[s].kind = "entry"}

LimitInit == Init /\ base = 0 /\ peak = 0

Started == ~up /\ up'

LimitNext ==
  /\ Next
  /\ base' = IF Started THEN Cardinality(Open') ELSE base
  /\ peak' = IF Started THEN 0
             ELSE IF Cardinality(Entering') > peak THEN Cardinality(Entering') ELSE peak

LimitSpec == LimitInit /\ [][LimitNext]_limitVars

(* The limit on open positions is passed by overlap only: by one less than *)
(* the entries that once waited for their executor together.  (A process   *)
(* that starts above the limit does not add to what it found.)             *)
OpenWithinOverlap ==
  LET n == Cardinality(Open \cup Entering) IN n <= base \/ n < MaxOpen + peak

(* The risk that the budget does not see is that of entries whose fill is  *)
(* being booked.                                                           *)
UnbookedAreSettling ==
  \A s \in Open \ slots : pc[s] = "persist" /\ order[s].kind = "entry"

(* What check_intent's limits are worth to runners that check at once: the *)
(* maximum is passed by less than what overlapped, and an open position is *)
(* outside the budget only while its entry is booked (runner.py 200-217).  *)
LimitsHold == up => OpenWithinOverlap /\ UnbookedAreSettling
=============================================================================
