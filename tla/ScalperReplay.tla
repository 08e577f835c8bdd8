--------------------------- MODULE ScalperReplay ---------------------------
(***************************************************************************)
(* The minute replay of the options scalper                                *)
(* (research/backtest/scalper_backtest.py): one long option at a time,     *)
(* entered on the bar after its signal and managed bar by bar.  The signal *)
(* (strategies/options_scalper.py) is any direction once it is warm;       *)
(* premiums are integers and percentages are pairs.                        *)
(***************************************************************************)
EXTENDS Integers, FiniteSetsExt, SequencesExt

CONSTANTS
  OptionBars,     \* bars [o, h, l, c] of an option
  LastMinute, EodExit, NoNewEntry, WarmUp,
  StopPct, TargetPct, TrailPct,  \* <<num, den>>: what is left, reached, left
  TimeStopMin,
  HalfSpread, SlipPct, ScalpFee,
  MaxScalps       \* bound: trades of a day

ASSUME ScalperAssumption ==
  /\ OptionBars \subseteq [o : Nat, h : Nat, l : Nat, c : Nat]
  /\ {LastMinute, EodExit, NoNewEntry, WarmUp, TimeStopMin, MaxScalps} \subseteq Nat
  /\ {HalfSpread, ScalpFee} \subseteq Nat
  /\ {StopPct, TargetPct, TrailPct, SlipPct} \subseteq Nat \X (Nat \ {0})

VARIABLES
  clock,    \* minutes replayed
  trail,    \* the target arms a trail instead of ending the trade
  proxied,  \* the underlying is made of the two options' bars
  scalp,    \* the open position
  wanted,   \* the direction of the last bar's signal, to enter on this bar
  scalps,   \* the closed trades' [net, reason]
  shown     \* the held option's last close since its entry, the last bar's minute

scalperVars == <<clock, trail, proxied, scalp, wanted, scalps, shown>>

NoScalp == [dir |-> "FLAT", at |-> 0, entry |-> 0, high |-> 0, armed |-> FALSE, last |-> 0]
NoQuote == [o |-> 0, h |-> 0, l |-> 0, c |-> 0]
Directions == {"LONG", "SHORT", "FLAT"}

InitScalper ==
  /\ clock = 0 /\ trail = TRUE /\ proxied = FALSE /\ scalp = NoScalp
  /\ wanted = "FLAT" /\ scalps = <<>> /\ shown = [c |-> 0, at |-> 0]

-----------------------------------------------------------------------------
(* FillModel: half the spread and the slippage, against the trade. *)
BuyFill(open) == open + HalfSpread + (open * SlipPct[1]) \div SlipPct[2]
SellFill(ref) ==
  LET px == ref - HalfSpread - (ref * SlipPct[1]) \div SlipPct[2] IN IF px < 0 THEN 0 ELSE px

Part(x, pct) == (x * pct[1]) \div pct[2]
MaxOf(x, y) == IF x > y THEN x ELSE y

(* straddle_proxy_underlying(): a bar from the call's and the put's. *)
ProxyBar(c, p) ==
  LET o == c.o - p.o
      cl == c.c - p.c
  IN  [o |-> o, c |-> cl, h |-> Max({o, cl, c.h - p.l}), l |-> Min({o, cl, c.l - p.h})]

Stay(p) == [out |-> "none", ref |-> 0, pos |-> p]
Leave(reason, ref, p) == [out |-> reason, ref |-> ref, pos |-> p]

(* _manage_open(): the end of the day, the stop at the bar's low, a signal *)
(* against the position, the target at its high, the trail on the close,   *)
(* the clock.  Without a bar only the day's end, the signal and the clock  *)
(* count, at the last close seen.                                          *)
ManageOpen(p, b, now, dir) ==
  LET stop == Part(p.entry, StopPct)
      arms == b # NoQuote /\ ~p.armed /\ b.h >= Part(p.entry, TargetPct)
      armed == p.armed \/ (arms /\ trail)
      high == IF b # NoQuote /\ armed THEN MaxOf(p.high, b.c) ELSE p.high
      q == [p EXCEPT !.armed = armed, !.high = high]
      floor == Part(high, TrailPct)
  IN  CASE now >= EodExit -> Leave("eod", p.last, p)
        [] now < EodExit /\ b # NoQuote /\ b.l <= stop -> Leave("hard_stop", stop, p)
        [] OTHER ->
             IF dir # "FLAT" /\ dir # p.dir THEN Leave("signal_flip", p.last, p)
             ELSE IF arms /\ ~trail THEN Leave("target", Part(p.entry, TargetPct), p)
             ELSE IF b # NoQuote /\ armed /\ b.c <= floor THEN Leave("trail", floor, q)
             ELSE IF now - p.at >= TimeStopMin /\ ~armed THEN Leave("time_stop", p.last, q)
             ELSE Stay(q)

(* _close_trade() *)
Closed(p, ref, reason) ==
  [net |-> SellFill(ref) - p.entry - ScalpFee, reason |-> reason]

-----------------------------------------------------------------------------
ChooseRun(t, x) ==
  /\ clock = 0 /\ trail' = t /\ proxied' = x /\ clock' = 1
  /\ UNCHANGED <<scalp, wanted, scalps, shown>>

(* A minute without an underlying bar is not replayed. *)
NoUnderlying ==
  /\ clock \in 1 .. LastMinute /\ clock' = clock + 1
  /\ UNCHANGED <<trail, proxied, scalp, wanted, scalps, shown>>

(* The last bar's signal is filled at this bar's open, if the option has a *)
(* bar; a held option's close is remembered before it is managed.          *)
Entered(b) ==
  LET p == IF scalp = NoScalp /\ wanted # "FLAT" /\ b.o > 0
           THEN [dir |-> wanted, at |-> clock, entry |-> BuyFill(b.o), high |-> BuyFill(b.o),
                 armed |-> FALSE, last |-> BuyFill(b.o)]
           ELSE scalp
  IN  IF p # NoScalp /\ b # NoQuote THEN [p EXCEPT !.last = b.c] ELSE p

(* One bar of replay_day(): a bar that closes the position opens none. *)
Minute(b, dir) ==
  /\ clock \in 1 .. LastMinute /\ Len(scalps) < MaxScalps
  /\ clock < WarmUp => dir = "FLAT"
  /\ proxied => b # NoQuote
  /\ LET p == Entered(b)
         m == ManageOpen(p, b, clock, dir)
     IN  /\ scalp' = IF p = NoScalp THEN p ELSE IF m.out = "none" THEN m.pos ELSE NoScalp
         /\ scalps' = IF p # NoScalp /\ m.out # "none"
                      THEN Append(scalps, Closed(p, m.ref, m.out)) ELSE scalps
         /\ shown' = [c |-> IF p # NoScalp /\ b # NoQuote THEN b.c ELSE shown.c, at |-> clock]
         /\ wanted' = IF p = NoScalp /\ clock < NoNewEntry /\ clock < EodExit THEN dir ELSE "FLAT"
  /\ clock' = clock + 1 /\ UNCHANGED <<trail, proxied>>

(* The bars have ended: what is open is closed at the last close known. *)
EndDay ==
  /\ clock = LastMinute + 1 /\ clock' = clock + 1
  /\ scalps' = IF scalp = NoScalp THEN scalps
               ELSE Append(scalps, Closed(scalp, scalp.last, "eod"))
  /\ scalp' = NoScalp /\ wanted' = "FLAT" /\ UNCHANGED <<trail, proxied, shown>>

ScalperNext ==
  \/ \E t, x \in BOOLEAN : ChooseRun(t, x)
  \/ NoUnderlying
  \/ \E b \in OptionBars \cup {NoQuote}, dir \in Directions : Minute(b, dir)
  \/ EndDay

-----------------------------------------------------------------------------
(* compute_metrics(); rates are pairs. *)

Won == {i \in DOMAIN scalps : scalps[i].net > 0}
Lost == {i \in DOMAIN scalps : scalps[i].net < 0}
Summed(S) == FoldFunctionOnSet(LAMBDA x, y : x.net + y, 0, scalps, S)

(* _break_even_win_rate() of two averages <<sum, count>>. *)
BreakEvenRate(win, loss) ==
  IF win = <<0, 1>> THEN IF loss = <<0, 1>> THEN <<0, 1>> ELSE <<1, 1>>
  ELSE IF loss = <<0, 1>> THEN <<0, 1>>
  ELSE <<loss[1] * win[2], win[1] * loss[2] + loss[1] * win[2]>>

Average(S, sign) == IF S = {} THEN <<0, 1>> ELSE <<sign * Summed(S), Cardinality(S)>>
BreakEven == BreakEvenRate(Average(Won, 1), Average(Lost, -1))

(* _longest_loss_streak() *)
LossStreak ==
  FoldLeft(LAMBDA a, x : IF x.net < 0
                         THEN [run |-> a.run + 1, best |-> MaxOf(a.best, a.run + 1)]
                         ELSE [a EXCEPT !.run = 0],
           [run |-> 0, best |-> 0], scalps).best

-----------------------------------------------------------------------------
(* A minute without a bar of the option never falls back on the entry's    *)
(* price: what is remembered is the option's last close since the entry.   *)
LastKnownClose == scalp # NoScalp => scalp.last = shown.c

(* A trade that has not reached its target does not outlive the time stop  *)
(* by a replayed bar, and none outlives the day's end.                     *)
NoOverstay ==
  scalp # NoScalp =>
    /\ shown.at < EodExit
    /\ scalp.armed \/ shown.at - scalp.at < TimeStopMin

(* The rate of wins lies above the break-even rate exactly when the trades *)
(* earned money (as long as each won or lost something), and the streak is *)
(* the longest run of losses.                                              *)
BreakEvenDecides ==
  /\ scalps # <<>> /\ Won \cup Lost = DOMAIN scalps =>
       (Cardinality(Won) * BreakEven[2] > BreakEven[1] * Len(scalps) <=> Summed(DOMAIN scalps) > 0)
  /\ \A i, j \in DOMAIN scalps :
       i <= j /\ (i .. j) \subseteq Lost => LossStreak >= j - i + 1

ProxyWellFormed ==
  \A c, p \in OptionBars :
    LET b == ProxyBar(c, p) IN b.l <= b.o /\ b.o <= b.h /\ b.l <= b.c /\ b.c <= b.h

(* The scalper replay: prices that are known, stays that end, figures that *)
(* add up.                                                                 *)
ScalperReplaySound == LastKnownClose /\ NoOverstay /\ BreakEvenDecides /\ ProxyWellFormed
=============================================================================
