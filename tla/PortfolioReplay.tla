-------------------------- MODULE PortfolioReplay --------------------------
(***************************************************************************)
(* The intraday replays of research/backtest: many securities against one  *)
(* book (portfolio_engine.py, replay_portfolio()) and, when "solo", each   *)
(* security by itself (engine.py, replay_security_day()).  Prices and      *)
(* amounts are integers; a bar's v is the part of its volume an order may  *)
(* take.  What the strategy decides on a bar is any decision.              *)
(***************************************************************************)
EXTENDS Integers, FiniteSetsExt, SequencesExt

CONSTANTS
  Listed,       \* securities, numbers in the order of their ids
  BarSet,       \* bars [o, h, l, c, v]
  Minutes,      \* bars of a session
  MaxDays,      \* bound: days replayed
  Grids,        \* which minutes a security may have bars at
  Equity,       \* of the account at the start
  TradePart, DayPart, WeekPart,  \* risked per trade, lost per day and week
  NotionalPart, AdvPart,         \* of equity; of a session's volume
  MinStop,      \* the floor of a stop's distance
  SlipTick,     \* what a fill is worse than its price
  Fee,          \* costs of a round trip
  MaxPositions, MaxOrders,
  Stops,        \* distances of stops the strategy may choose
  MaxEntries    \* bound: entries it decides on in a replay

ASSUME ReplayAssumption ==
  /\ Listed \subseteq Nat /\ IsFiniteSet(Listed)
  /\ BarSet \subseteq [o : Nat, h : Nat, l : Nat, c : Nat \ {0}, v : Nat]
  /\ Grids \subseteq SUBSET (1 .. Minutes)
  /\ {Minutes, MaxDays, Equity, SlipTick, Fee, MaxPositions, MaxOrders, MaxEntries} \subseteq Nat
  /\ {TradePart, DayPart, WeekPart, NotionalPart, AdvPart, MinStop} \subseteq Nat \ {0}
  /\ Stops \subseteq Nat

VARIABLES
  solo,      \* every security has an account of its own
  session,   \* days begun
  minute,    \* of the session, 0 before it
  turn,      \* the security whose bar is next at this minute, or none left
  grid,      \* the minutes at which each security has bars today
  quotes,    \* this minute's bars
  marks,     \* each security's last close today
  traded,    \* each security's volume today
  sessions,   \* each security's volumes of the sessions before
  lots,      \* each security's position
  waiting,   \* each security's decision to be filled
  entries,   \* entries of each security today
  earned,    \* realized: [day, week, total]
  stopped,   \* the kill switch has fired today
  hasty,     \* fills at the bar of their own decision or before it
  crest,     \* the largest daily budget of the day so far
  decided,   \* entries decided on
  excess     \* what trades lost today beyond the risk they had registered

dayVars == <<solo, session, grid>>
ghostVars == <<hasty, crest, decided, excess>>
replayVars == <<dayVars, ghostVars, minute, turn, quotes, marks, traded, sessions,
                lots, waiting, entries, earned, stopped>>

Flat == [side |-> "FLAT", qty |-> 0, entry |-> 0, stop |-> 0, target |-> 0]
NoBar == [o |-> 0, h |-> 0, l |-> 0, c |-> 0, v |-> 0]
NoOrder == [kind |-> "none", side |-> "FLAT", stop |-> 0, target |-> 0, at |-> 0, kill |-> FALSE]

InitReplay ==
  /\ solo = FALSE /\ session = 0 /\ minute = 0 /\ turn = {} /\ stopped = FALSE
  /\ grid = [s \in Listed |-> {}] /\ quotes = [s \in Listed |-> NoBar]
  /\ marks = [s \in Listed |-> 0] /\ traded = [s \in Listed |-> 0]
  /\ sessions = [s \in Listed |-> <<>>] /\ lots = [s \in Listed |-> Flat]
  /\ waiting = [s \in Listed |-> NoOrder] /\ entries = [s \in Listed |-> 0]
  /\ earned = [day |-> 0, week |-> 0, total |-> 0]
  /\ hasty = {} /\ crest = 0 /\ decided = 0 /\ excess = 0

-----------------------------------------------------------------------------
(* The risk engine's arithmetic (engine/risk.py). *)

Larger(x, y) == IF x > y THEN x ELSE y
Smaller(x, y) == IF x < y THEN x ELSE y
Gap(x, y) == IF x > y THEN x - y ELSE y - x

AccountOf(e) == IF solo THEN Equity ELSE Larger(1, Equity + e.total)
Account == AccountOf(earned)
DayBudget(e) == AccountOf(e) \div DayPart
WeekBudget(e) == AccountOf(e) \div WeekPart

PositionRisk(entry, stop, qty) == qty * Larger(Gap(entry, stop), MinStop)
RiskOf(p) == PositionRisk(p.entry, p.stop, p.qty)
CommittedRisk(h) == FoldFunction(+, 0, [s \in Listed |-> RiskOf(h[s])])

(* size_position(); the volume cap is of the sessions before, if any       *)
(* security changed hands in them.                                         *)
SizePosition(s, entry, stop) ==
  LET volume == FoldSeq(+, 0, sessions[s])
      adv == volume \div Larger(1, Len(sessions[s]))
      risked == (Account \div TradePart) \div Larger(Gap(entry, stop), MinStop)
      sized == Smaller(risked, (Account \div NotionalPart) \div entry)
  IN  IF ~solo /\ volume > 0 THEN Smaller(sized, adv \div AdvPart) ELSE sized

(* The day's losses so far and the risk of open positions leave room. *)
WithinBudget(risk, h, e) ==
  CommittedRisk(h) + Larger(0, -e.day) + risk <= DayBudget(e)

OpenIn(h) == {s \in Listed : h[s] # Flat}
OpenNames == OpenIn(lots)

-----------------------------------------------------------------------------
(* Fills and exits. *)

Sign(side) == IF side = "LONG" THEN 1 ELSE -1

(* _slip() *)
Slip(price, side) == price + Sign(side) * SlipTick
Opposite(side) == IF side = "LONG" THEN "SHORT" ELSE "LONG"

Net(p, price) == (Slip(price, Opposite(p.side)) - p.entry) * p.qty * Sign(p.side) - Fee

(* _check_intrabar_exit() and _intrabar_exit(): the stop before the        *)
(* target, and a gap through the stop fills at the open; 0 is no exit.     *)
IntrabarExit(p, b) ==
  LET up == p.side = "LONG"
  IN  IF IF up THEN b.l <= p.stop ELSE b.h >= p.stop
      THEN IF up THEN Smaller(b.o, p.stop) ELSE Larger(b.o, p.stop)
      ELSE IF IF up THEN b.h >= p.target ELSE b.l <= p.target THEN p.target
      ELSE 0

Added(net) == [day |-> earned.day + net, week |-> earned.week + net, total |-> earned.total + net]

-----------------------------------------------------------------------------
(* Days. *)

(* Sessions too short are skipped: a security then has no minutes.  The    *)
(* weekly meter starts afresh in a new week, the daily one every day.      *)
StartSession(g, newWeek) ==
  /\ minute = 0 /\ session < MaxDays
  /\ session' = session + 1 /\ minute' = 1 /\ grid' = g /\ turn' = {}
  /\ stopped' = FALSE
  /\ earned' = [earned EXCEPT !.day = 0, !.week = IF newWeek THEN 0 ELSE @]
  /\ marks' = [s \in Listed |-> 0] /\ traded' = [s \in Listed |-> 0]
  /\ waiting' = [s \in Listed |-> NoOrder] /\ entries' = [s \in Listed |-> 0]
  /\ quotes' = [s \in Listed |-> NoBar]
  /\ hasty' = {} /\ crest' = DayBudget(earned) /\ excess' = 0
  /\ UNCHANGED <<solo, sessions, lots, decided>>

ChooseSolo ==
  /\ session = 0 /\ ~solo /\ solo' = TRUE
  /\ UNCHANGED <<session, grid, ghostVars, minute, turn, quotes, marks, traded, sessions,
                 lots, waiting, entries, earned, stopped>>

(* The bars of a minute; the events of one time are in the order of ids.   *)
Tick(b) ==
  /\ minute \in 1 .. Minutes /\ turn = {} /\ quotes = [s \in Listed |-> NoBar]
  /\ LET here == {s \in Listed : minute \in grid[s]}
     IN  /\ \A s \in Listed \ here : b[s] = NoBar
         /\ \A s \in here : b[s] # NoBar
         /\ turn' = here
         /\ IF here = {} THEN minute' = minute + 1 /\ UNCHANGED <<quotes, marks, traded>>
            ELSE /\ quotes' = b /\ UNCHANGED minute
                 /\ marks' = [s \in Listed |-> IF s \in here THEN b[s].c ELSE marks[s]]
                 /\ traded' = [s \in Listed |-> traded[s] + b[s].v]
  /\ UNCHANGED <<dayVars, ghostVars, sessions, lots, waiting, entries, earned, stopped>>

-----------------------------------------------------------------------------
(* The event of a bar: [lots, earned, waiting, ...] after each stage.      *)

(* Mutant: the budget is not looked at again. *)
EnterQtyUnchecked(s, d, b) ==
  LET px == Slip(b.o, d.side)
      q == IF solo THEN SizePosition(s, px, d.stop)
           ELSE Smaller(SizePosition(s, px, d.stop), b.v)
  IN  IF px <= 0 THEN 0 ELSE Larger(0, q)

(* An entry is sized at its fill, capped by the bar's volume, and dropped  *)
(* when the day's budget has been used up meanwhile.                       *)
EnterQty(s, d, b) ==
  LET px == Slip(b.o, d.side)
      q == IF solo THEN SizePosition(s, px, d.stop)
           ELSE Smaller(SizePosition(s, px, d.stop), b.v)
  IN  IF px <= 0 \/ (~solo /\ ~WithinBudget(PositionRisk(px, d.stop, q), lots, earned)) THEN 0
      ELSE Larger(0, q)

CanEnter == solo \/ (~stopped /\ Cardinality(OpenNames) < MaxPositions)

(* 1. The waiting decision is filled at the open. *)
FilledAtOpen(s) ==
  LET d == waiting[s]
      b == quotes[s]
      p == lots[s]
      px == Slip(b.o, d.side)
      q == IF d.kind = "ENTER" /\ CanEnter THEN EnterQty(s, d, b) ELSE 0
  IN  IF q > 0
      THEN [p |-> [side |-> d.side, qty |-> q, entry |-> px, stop |-> d.stop,
                   target |-> d.target],
            net |-> 0, done |-> FALSE, in |-> 1]
      ELSE IF d.kind = "EXIT" /\ p # Flat
      THEN [p |-> Flat, net |-> Net(p, b.o), done |-> TRUE, in |-> 0]
      ELSE [p |-> p, net |-> 0, done |-> FALSE, in |-> 0]

(* 1b. The stop and the target of what is held, on the same bar too. *)
AfterRange(s, f) ==
  LET px == IF f.p = Flat THEN 0 ELSE IntrabarExit(f.p, quotes[s])
  IN  IF px = 0 THEN [f EXCEPT !.done = FALSE]
      ELSE [p |-> Flat, net |-> f.net + Net(f.p, px), done |-> TRUE, in |-> f.in]

(* 2. The kill switch: realized today or this week, with what the open     *)
(* positions would bring at the last closes.                               *)
Unrealized(h) ==
  FoldFunction(+, 0, [s \in Listed |->
    (IF marks[s] = 0 THEN 0 ELSE marks[s] - h[s].entry) * h[s].qty * Sign(h[s].side)])
KillFires(h, e) ==
  \/ e.day + Unrealized(h) <= -DayBudget(e)
  \/ e.week + Unrealized(h) <= -WeekBudget(e)

LastBar(s) == minute = Max(grid[s])

(* 3. What the strategy decides, and what becomes of it. *)
Decisions ==
  {NoOrder, [NoOrder EXCEPT !.kind = "EXIT"]}
    \cup {[NoOrder EXCEPT !.kind = "ENTER", !.side = side, !.stop = dist] :
            side \in {"LONG", "SHORT"}, dist \in Stops}

Resting(s, d) ==
  LET c == quotes[s].c
  IN  [d EXCEPT !.at = minute, !.stop = c - Sign(d.side) * d.stop,
                !.target = c + Sign(d.side) * 2 * d.stop]

Admitted(s, d, h, e, kill) ==
  LET o == Resting(s, d)
      q == SizePosition(s, quotes[s].c, o.stop)
  IN  /\ h[s] = Flat /\ ~LastBar(s)
      /\ solo \/ /\ ~kill /\ Cardinality(OpenIn(h)) < MaxPositions /\ q > 0
                 /\ WithinBudget(PositionRisk(quotes[s].c, o.stop, q), h, e)

(* The exits the kill switch queues when it fires. *)
Queued(s, h, fires) ==
  [n \in Listed |->
     LET w == IF n = s THEN NoOrder ELSE waiting[n]
     IN  IF fires /\ h[n] # Flat /\ w = NoOrder
         THEN [NoOrder EXCEPT !.kind = "EXIT", !.at = minute, !.kill = TRUE]
         ELSE w]

(* Decision d on the book h that the fill f and the bar's range, r, left.  *)
(* A position that left within the bar ends the event in the book's        *)
(* replay: no kill switch, no decision; a replay by itself decides.        *)
Decides(s, d, f, r, h, fires) ==
  LET kill == stopped \/ fires
      decides == solo \/ ~r.done
      atClose == decides /\ d.kind = "EXIT" /\ h[s] # Flat /\ LastBar(s)
      queued == Queued(s, h, fires)
  IN  /\ decides \/ d = NoOrder
      /\ d.kind = "ENTER" =>
           /\ Admitted(s, d, h, Added(r.net), kill)
           /\ solo \/ entries[s] + r.in < MaxOrders
      /\ d.kind = "EXIT" => h[s] # Flat
      /\ stopped' = kill
      /\ lots' = IF atClose THEN [h EXCEPT ![s] = Flat] ELSE h
      /\ earned' = Added(r.net + IF atClose THEN Net(h[s], quotes[s].c) ELSE 0)
      /\ waiting' = CASE d.kind = "ENTER" -> [queued EXCEPT ![s] = Resting(s, d)]
                      [] d.kind = "EXIT" /\ ~atClose ->
                           [queued EXCEPT ![s] = [d EXCEPT !.at = minute]]
                      [] OTHER -> queued
      /\ entries' = [entries EXCEPT ![s] = @ + r.in]
      /\ hasty' = IF (f.in = 1 \/ f.done) /\ waiting[s].at >= minute
                  THEN hasty \cup {IF waiting[s].kill THEN "kill" ELSE waiting[s].kind}
                  ELSE hasty
      /\ decided' = decided + IF d.kind = "ENTER" THEN 1 ELSE 0
      /\ decided' <= MaxEntries
      /\ crest' = Larger(crest, DayBudget(earned'))
      /\ excess' = excess + Larger(0, (earned.day - earned'.day)
                              - (CommittedRisk(lots) + f.in * RiskOf(f.p) - CommittedRisk(lots')))

(* One event: fill, range, kill switch, decision. *)
Event(s, d) ==
  /\ turn # {} /\ s = Min(turn) /\ turn' = turn \ {s}
  /\ LET f == FilledAtOpen(s)
         r == AfterRange(s, f)
         h == [lots EXCEPT ![s] = r.p]
     IN  Decides(s, d, f, r, h,
                 ~solo /\ ~r.done /\ ~stopped /\ KillFires(h, Added(r.net)))
  /\ IF turn = {s}
     THEN quotes' = [n \in Listed |-> NoBar] /\ minute' = minute + 1
     ELSE UNCHANGED <<quotes, minute>>
  /\ UNCHANGED <<dayVars, marks, traded, sessions>>

(* The day's end: what is still held is closed at the last close, and the  *)
(* day's volume joins the sessions.                                         *)
EndSession ==
  /\ minute > Minutes /\ minute' = 0
  /\ lots' = [s \in Listed |-> Flat]
  /\ earned' = Added(FoldFunction(+, 0, [s \in Listed |->
                 IF lots[s] = Flat THEN 0
                 ELSE Net(lots[s], IF marks[s] = 0 THEN lots[s].entry ELSE marks[s])]))
  /\ sessions' = [s \in Listed |-> IF grid[s] = {} THEN sessions[s]
                                  ELSE Append(sessions[s], traded[s])]
  /\ excess' = excess + Larger(0, earned.day - earned'.day - CommittedRisk(lots))
  /\ UNCHANGED <<dayVars, hasty, crest, decided, turn, quotes, marks, traded, waiting, entries, stopped>>

ReplayNext ==
  \/ ChooseSolo
  \/ \E g \in [Listed -> Grids], w \in BOOLEAN : StartSession(g, w)
  \/ \E b \in [Listed -> BarSet \cup {NoBar}] : Tick(b)
  \/ \E s \in Listed, d \in Decisions : Event(s, d)
  \/ EndSession

-----------------------------------------------------------------------------
(* Once the kill switch has fired every position left waits for its exit,  *)
(* and no day ends with one.                                               *)
HaltEmptiesBook ==
  /\ stopped => \A s \in OpenNames : waiting[s].kind = "EXIT"
  /\ minute = 0 => OpenNames = {}

(* The day's losses and what the open positions risk at their stops never  *)
(* exceed the day's budget by more than single trades lost beyond their    *)
(* own stops (gaps, slippage, costs), however many securities entered at   *)
(* the same time; nor are there more positions or entries than allowed.    *)
BookWithinBudget ==
  /\ ~solo => /\ CommittedRisk(lots) + Larger(0, -earned.day) <= crest + excess
              /\ Cardinality(OpenNames) <= MaxPositions
  /\ ~solo => \A s \in Listed : entries[s] <= MaxOrders

(* Only the exits the kill switch asks for may be filled on the bar they   *)
(* were decided on; every other decision is filled on a later bar.         *)
NextBarFills == hasty \subseteq {"kill"}

(* The portfolio replay: halts, budgets, and fills that never look ahead.  *)
PortfolioSound == HaltEmptiesBook /\ BookWithinBudget /\ NextBarFills
=============================================================================
