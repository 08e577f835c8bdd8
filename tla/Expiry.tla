------------------------------- MODULE Expiry -------------------------------
(***************************************************************************)
(* Which expiry a bar belongs to (core/expiry.py).  A day is an integer,   *)
(* day 0 a Monday; the weekly expiry moved from one weekday to another at  *)
(* a cutover.  The analytic date is refined with the expiry calendar,      *)
(* which knows the holidays but covers recent dates only.                  *)
(***************************************************************************)
EXTENDS Integers, FiniteSetsExt

CONSTANTS
  Cutover,     \* cutover_date
  PreCutover,  \* pre_cutover_weekday
  Weekly       \* expiry_weekday

(* NIFTY: from Thursdays to Tuesdays on a Monday. *)
ASSUME ExpiryAssumption ==
  /\ Cutover \in Int /\ Cutover % 7 = 0
  /\ PreCutover = 3 /\ Weekly = 1

Weekday(d) == d % 7

(* expiry_weekday_for() *)
WeekdayRule(d) == IF d < Cutover THEN PreCutover ELSE Weekly

OnOrAfter(day, wd) == day + ((wd - Weekday(day)) % 7)

(* next_weekly_expiry_on_or_after(): the candidate's own rule decides, two *)
(* rounds and a last one.                                                  *)
NextWeekly(day) ==
  LET first  == OnOrAfter(day, WeekdayRule(day))
      second == OnOrAfter(day, WeekdayRule(first))
  IN  IF WeekdayRule(first) = WeekdayRule(day) THEN first
      ELSE IF WeekdayRule(second) = WeekdayRule(first) THEN second
      ELSE OnOrAfter(day, WeekdayRule(second))

(* nth_weekly_expiry_on_or_after() *)
NthWeekly(day, code) ==
  LET nth[k \in 1..code] == IF k = 1 THEN NextWeekly(day) ELSE NextWeekly(nth[k - 1] + 1)
  IN  nth[code]

Slack == 4

Distance(a, b) == IF a > b THEN a - b ELSE b - a

(* _refine_with_calendar(): the nearest entry within the slack and not     *)
(* before the day, the earlier of two.                                     *)
Refined(analytic, day, calendar) ==
  LET near == {e \in calendar : e >= day /\ Distance(e, analytic) <= Slack}
      best == Min({Distance(e, analytic) : e \in near})
  IN  IF near = {} THEN analytic
      ELSE Min({e \in near : Distance(e, analytic) = best})

MaxDays == 10
NoExpiry == -1000

(* derive_front_expiry() *)
FrontExpiry(day, code, calendar) ==
  LET e == Refined(NthWeekly(day, code), day, calendar)
  IN  IF e - day > MaxDays + 7 * (code - 1) \/ e < day THEN NoExpiry ELSE e

-----------------------------------------------------------------------------
(* An expiry of the weekly series, by the rule of its own date. *)
IsWeekly(e) == Weekday(e) = WeekdayRule(e)
=============================================================================
