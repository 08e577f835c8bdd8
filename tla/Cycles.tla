------------------------------- MODULE Cycles -------------------------------
(***************************************************************************)
(* How the backtest's cycles are assembled from the tables                 *)
(* (research/backtest/fno_condor.py, cycles_from_db()): expiry boundaries  *)
(* from the bars of each week or from the expiry calendar, and the vol     *)
(* that was known at each entry.  Days are numbers, week w begins at day   *)
(* 7w; an implied vol stands for the day it was observed on.               *)
(***************************************************************************)
EXTENDS Integers, FiniteSetsExt

CONSTANTS
  Weeks,        \* weeks of bars
  OpenDays,     \* days of a week on which the exchange may trade, 0 = Monday
  MaxHolidays,  \* bound: days of them it does not
  PreDay, PostDay, CutoverDay,  \* the weekday of the expiry and its change
  NoVix, Warm,  \* days without a volatility bar; days before a realized vol
  RecordedFrom, \* the expiry calendar is empty before this day
  MaxObs,       \* bound: observations of a straddle's vol
  IvTolerance,  \* days the entry may precede the first observation
  EntryDte      \* the entry's distance from expiry when one is asked for

(* The exchange changed the weekday at the start of a week.                *)
ASSUME CyclesAssumption ==
  /\ Weeks \in Nat \ {0} /\ OpenDays \subseteq 0 .. 6
  /\ PreDay \in 0 .. 6 /\ PostDay \in 0 .. 6
  /\ CutoverDay \in Nat /\ CutoverDay % 7 = 0
  /\ IvTolerance \in Nat /\ EntryDte \in Nat \ {0}

VARIABLES
  holidays,  \* days of OpenDays the exchange is closed on
  today,     \* the last day with bars
  obs        \* observations [expiry, day] of a straddle's vol

cycleVars == <<holidays, today, obs>>

AllDays == {7 * w + d : w \in 0 .. Weeks - 1, d \in OpenDays}
NoYear == -1

(* The days whose bar is in the table. *)
BarDays == {d \in AllDays \ holidays : d <= today}
WeekOf(d) == d \div 7
DayOf(d) == d % 7

-----------------------------------------------------------------------------
(* The exchange. *)

(* The weekday expiries fall on. *)
WeekdayFor(d) == IF d < CutoverDay THEN PreDay ELSE PostDay

(* The expiry of a week: its weekday, or the session before a holiday.     *)
Expiry(w) ==
  LET nominal == 7 * w + WeekdayFor(7 * w)
      on == {d \in AllDays \ holidays : d <= nominal}
  IN  IF on = {} THEN NoYear ELSE CHOOSE d \in on : \A e \in on : e <= d

TrueExpiries == {Expiry(w) : w \in 0 .. Weeks - 1} \ {NoYear}

InitCycles == holidays = {} /\ today = -1 /\ obs = {}

(* The year's holidays are published. *)
Publish(H) == today = -1 /\ today' = 0 /\ holidays' = H /\ UNCHANGED obs

DayPasses ==
  /\ today >= 0 /\ today < 7 * Weeks - 1
  /\ today' = today + 1 /\ UNCHANGED <<holidays, obs>>

(* The collector or the history pull stores the vol of an expiry, seen     *)
(* today.                                                                  *)
Observe(e) ==
  /\ today \in BarDays /\ e >= today /\ Cardinality(obs) < MaxObs
  /\ obs' = obs \cup {[expiry |-> e, day |-> today]}
  /\ UNCHANGED <<holidays, today>>

CyclesNext ==
  \/ \E H \in SUBSET AllDays : Cardinality(H) <= MaxHolidays /\ Publish(H)
  \/ DayPasses
  \/ \E e \in TrueExpiries : Observe(e)

-----------------------------------------------------------------------------
(* The loader. *)

(* snap_to_expiry_weekday(): the expiry weekday of the week's last day, or *)
(* the last day before it, or the last day.                                *)
Snap(days) ==
  LET target == WeekdayFor(Max(days))
      before == {d \in days : DayOf(d) <= target}
  IN  IF before # {} THEN Max(before) ELSE Max(days)

Bounds ==
  LET days(w) == {d \in BarDays : WeekOf(d) = w}
      weeks == {w \in 0 .. Weeks - 1 : days(w) # {}}
  IN  {Snap(days(w)) : w \in weeks}

(* pick_entry_day_for_dte(): no later than asked for, if a day allows it.  *)
PickEntry(days, expiry, dte) ==
  LET before == {d \in days : d < expiry}
      early == {d \in before : expiry - d >= dte}
  IN  IF before = {} THEN NoYear
      ELSE IF early # {} THEN Max(early) ELSE Min(before)

(* zip(days[:-1], days[1:]): the lists are in the order of their days, so  *)
(* each is the set of its pairs.                                           *)
Consecutive(days) ==
  {p \in days \X days : p[1] < p[2] /\ \A d \in days : d <= p[1] \/ d >= p[2]}

EnoughBounds == Cardinality(BarDays) >= 2 /\ Cardinality(Bounds) >= 2

(* _cycles_from_db_weekly(), its pairs of entry and expiry. *)
WeeklyPairs == IF EnoughBounds THEN Consecutive(Bounds) ELSE {}

EntryPairs ==
  LET pairs == {<<PickEntry(BarDays, b, EntryDte), b>> : b \in Bounds}
  IN  IF EnoughBounds THEN {p \in pairs : p[1] # NoYear /\ p[1] < p[2]} ELSE {}

(* _cycles_from_db_expiry_calendar(), its pairs. *)
CalendarPairs == Consecutive({e \in TrueExpiries : e >= RecordedFrom})

(* _build_atm_iv_map(): an expiry's observation days, in order. *)
AtmIvs(e) == {o.day : o \in {x \in obs : x.expiry = e}}

(* Mutant: the tolerance counts from the latest observation. *)
ResolveAtmIvLate(e, entry) ==
  LET days == AtmIvs(e) IN IF days = {} THEN NoYear ELSE Max(days)

(* _resolve_atm_iv_pit(): the latest seen by the entry, or the first after *)
(* it within the tolerance and four days, and never beyond a fortnight.    *)
ResolveAtmIv(e, entry) ==
  LET days == AtmIvs(e)
      known == {d \in days : d <= entry}
      cap == Min({IvTolerance + 4, 14})
  IN  IF known # {} THEN Max(known)
      ELSE IF days # {} /\ IvTolerance > 0 /\ Min(days) - entry <= cap THEN Min(days)
      ELSE NoYear

(* _build_bar_maps() and _build_cycles_from_pairs(): a pair without a bar  *)
(* or a vol where it needs one is dropped.                                 *)
CyclesFrom(pairs) ==
  LET Complete(p) == /\ {p[1], p[2]} \subseteq BarDays
                     /\ p[1] >= Warm /\ p[1] \notin NoVix
  IN  {[entry |-> p[1], expiry |-> p[2], dte |-> p[2] - p[1],
        iv |-> ResolveAtmIv(p[2], p[1])] : p \in {q \in pairs : Complete(q)}}

(* cycles_from_db() *)
CyclesOf(mode) ==
  CyclesFrom(CASE mode = "weekly" -> WeeklyPairs
               [] mode = "dte" -> EntryPairs
               [] mode = "calendar" -> CalendarPairs)

-----------------------------------------------------------------------------
Modes == {"weekly", "dte", "calendar"}

CyclesTypeOK ==
  /\ holidays \subseteq AllDays /\ today \in -1 .. 7 * Weeks - 1
  /\ \A o \in obs : o.expiry \in TrueExpiries /\ o.day \in BarDays

(* No look-ahead: a cycle is entered before it expires, with a vol seen by *)
(* the entry whenever there is one and else with the first that was seen,  *)
(* no later than the tolerance and its four days allow.                    *)
VolKnownAtEntry ==
  \A mode \in Modes : \A c \in CyclesOf(mode) :
    LET seen == AtmIvs(c.expiry)
    IN  /\ c.entry < c.expiry
        /\ c.iv # NoYear =>
             /\ c.iv \in seen
             /\ c.iv <= c.entry + (IF IvTolerance = 0 THEN 0 ELSE IvTolerance + 4)
             /\ (\E d \in seen : d <= c.entry) => c.iv <= c.entry
             /\ c.iv <= c.entry => \A d \in seen : d <= c.entry => d <= c.iv

(* A week's boundary is the exchange's expiry, so long as the week is over *)
(* and had a session up to its expiry's weekday.  (In the week of today    *)
(* the boundary is a guess, and a week closed until then has none.)        *)
BoundaryIsExpiry ==
  \A w \in 0 .. Weeks - 1 :
    LET days == {d \in BarDays : WeekOf(d) = w}
    IN  /\ 7 * w + 6 <= today
        /\ \E d \in days : d <= 7 * w + WeekdayFor(7 * w)
        => Snap(days) = Expiry(w)

(* Weekly cycles do not overlap, and an entry asked for at some distance   *)
(* from expiry comes no later, unless no session was early enough.         *)
EntriesInPlace ==
  /\ \A p, q \in WeeklyPairs : p = q \/ p[2] <= q[1] \/ q[2] <= p[1]
  /\ \A p \in EntryPairs : \A d \in BarDays :
       p[2] - d >= EntryDte => p[2] - p[1] >= EntryDte /\ d <= p[1]

(* The cycle loader: what it takes for known at the entry, for an expiry   *)
(* and for an entry day.                                                   *)
CyclesSound == CyclesTypeOK /\ VolKnownAtEntry /\ BoundaryIsExpiry /\ EntriesInPlace
=============================================================================
