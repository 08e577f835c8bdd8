------------------------------ MODULE Strategies ------------------------------
(***************************************************************************)
(* The multi-leg backtest (research/backtest/fno_strategies.py): the       *)
(* structures of the registry, what they cost and pay, the margin they     *)
(* block, and the run over the cycles.  Amounts are per unit.  Options     *)
(* cost their intrinsic value and a time value that falls with the         *)
(* distance from the money (Black-76 is not modelled further).             *)
(***************************************************************************)
EXTENDS CondorSim

CONSTANTS
  WeekSet,     \* the cycles a run may meet
  Names,       \* strategies of the registry that are run
  MaxPlaced,   \* bound: trades of a run
  SpanPct,     \* <<num, den>> of the notional, for a naked short
  SlipPart     \* slippage is a SlipPart-th of the premium

(* FNO_STRATEGIES *)
Registry ==
  {"short_straddle", "long_straddle", "short_strangle", "iron_condor",
   "broken_wing_condor", "iron_fly", "credit_put_spread", "bull_put_spread",
   "bear_call_spread", "bull_call_spread", "bear_put_spread", "jade_lizard",
   "ratio_spread", "calendar_spread"}

ASSUME StrategyAssumption ==
  /\ StrikeStep \in Nat \ {0} /\ SlipPart \in Nat \ {0}
  /\ Names \subseteq Registry /\ MaxPlaced \in Nat
  /\ \A c \in WeekSet : /\ {c.spot, c.vix, c.rv, c.dte, c.close} \subseteq Nat \cup {None}
                        /\ c.entry \in Nat /\ c.rich \in Nat

VARIABLES
  strat,    \* the strategy run, or "none" before the run
  gating,   \* "vol" or "none"
  placed,   \* its trades, in the order of the cycles
  failed    \* a cycle raised

strategyVars == <<strat, gating, placed, failed>>

InitStrategies == strat = "none" /\ gating = "vol" /\ placed = <<>> /\ failed = FALSE

-----------------------------------------------------------------------------
(* Legs. *)

Leg(type, dir, strike, qty) == [type |-> type, dir |-> dir, strike |-> strike, qty |-> qty]
Signed(leg) == IF leg.dir = "SELL" THEN 1 ELSE -1

(* leg_intrinsic() *)
Intrinsic(leg, s) ==
  Positive(IF leg.type = "CE" THEN s - leg.strike ELSE leg.strike - s)

(* price_leg_hist(); rich is the time value at the money.                  *)
Mid(leg, spot, rich) ==
  LET far == IF leg.strike > spot THEN leg.strike - spot ELSE spot - leg.strike
  IN  Intrinsic(leg, spot) + Positive(rich - far \div 2)

(* fill_price(): a sale receives less, a purchase pays more. *)
Fill(leg, mid) == mid - Signed(leg) * (mid \div SlipPart)

(* net_premium_per_unit() *)
NetPremium(legs, fills) ==
  Total([i \in DOMAIN legs |-> Signed(legs[i]) * fills[i] * legs[i].qty])

(* resolve_legs(): from the net premium alone. *)
ResolveNet(legs, net, s) ==
  net - Total([i \in DOMAIN legs |-> Signed(legs[i]) * Intrinsic(legs[i], s)])

(* resolve_legs_with_fills(): leg by leg. *)
ResolveFills(legs, fills, s) ==
  Total([i \in DOMAIN legs |->
           Signed(legs[i]) * (fills[i] - Intrinsic(legs[i], s)) * legs[i].qty])

-----------------------------------------------------------------------------
(* Builders, with the default parameters of the registry; em is the        *)
(* implied move and every strike is on the grid.                           *)

Grid(x) == RoundToStep(x, StrikeStep)

(* _wing_points() *)
WingPoints(points) == Max({StrikeStep, Grid(points)})

Spread(type, sold, bought) == <<Leg(type, "SELL", sold, 1), Leg(type, "BUY", bought, 1)>>

(* build_iron_condor() and build_broken_wing_condor(): wings of equal or   *)
(* of skewed width.                                                        *)
CondorLegs(spot, em, putWing, callWing) ==
  LET sp == Grid(spot - (3 * em) \div 2)
      sc == Grid(spot + (3 * em) \div 2)
  IN  Spread("PE", sp, sp - putWing) \o Spread("CE", sc, sc + callWing)

(* build_ratio_spread(), calls: two distinct strikes whatever the move.    *)
RatioLegs(atm, em) ==
  LET k1 == Grid(atm + em \div 4)
      k2 == Grid(atm + em)
  IN  <<Leg("CE", "BUY", k1, 1),
        Leg("CE", "SELL", IF k2 <= k1 THEN k1 + StrikeStep ELSE k2, 2)>>

(* The legs of each. *)
LegsOf(name, spot, em) ==
  LET atm == Grid(spot)
      w == 2 * StrikeStep
      below(part) == Grid(spot - (em * part) \div 2)
      above(part) == Grid(spot + (em * part) \div 2)
  IN  CASE name = "short_straddle" -> <<Leg("CE", "SELL", atm, 1), Leg("PE", "SELL", atm, 1)>>
        [] name = "long_straddle"  -> <<Leg("CE", "BUY", atm, 1), Leg("PE", "BUY", atm, 1)>>
        [] name = "short_strangle" -> <<Leg("CE", "SELL", above(2), 1),
                                        Leg("PE", "SELL", below(2), 1)>>
        [] name = "iron_condor"    -> CondorLegs(spot, em, w, w)
        [] name = "broken_wing_condor" ->
             CondorLegs(spot, em, WingPoints((w * 3) \div 2), WingPoints((w * 2) \div 3))
        [] name = "iron_fly"       -> Spread("CE", atm, atm + 2 * w) \o Spread("PE", atm, atm - 2 * w)
        [] name = "credit_put_spread" -> Spread("PE", below(2), below(2) - w)
        [] name = "bull_put_spread"   -> Spread("PE", below(1), below(1) - w)
        [] name = "bear_call_spread"  -> Spread("CE", above(1), above(1) + w)
        [] name = "bull_call_spread"  -> Spread("CE", above(0) + w, above(0))
        [] name = "bear_put_spread"   -> Spread("PE", below(0) - w, below(0))
        [] name = "jade_lizard"    -> <<Leg("PE", "SELL", below(2), 1)>>
                                        \o Spread("CE", above(1), above(1) + w)
        [] name = "ratio_spread"   -> RatioLegs(atm, em)
        [] name = "calendar_spread" -> Spread("CE", atm, atm)

DefinedRisk(name) ==
  name \notin {"short_straddle", "short_strangle", "jade_lizard", "ratio_spread"}
SellsPremium(name) ==
  name \notin {"long_straddle", "bull_call_spread", "bear_put_spread"}
NeedsMultiExpiry(name) == name = "calendar_spread"
SpanModel(name) ==
  IF name \in {"short_straddle", "short_strangle"} THEN "naked_short"
  ELSE IF name \in {"jade_lizard", "ratio_spread"} THEN "spread_naked_mix" ELSE "defined"

-----------------------------------------------------------------------------
(* Margin. *)

StrikesAt(legs, type, dir) ==
  {legs[i].strike : i \in {j \in DOMAIN legs : legs[j].type = type /\ legs[j].dir = dir}}
Abs(x) == IF x < 0 THEN -x ELSE x

Widths(legs) ==
  LET s(type) == StrikesAt(legs, type, "SELL")
      b(type) == StrikesAt(legs, type, "BUY")
  IN  {Abs(Max(b("CE")) - Min(s("CE"))) : x \in IF s("CE") = {} \/ b("CE") = {} THEN {} ELSE {1}}
        \cup {Abs(Max(s("PE")) - Min(b("PE"))) :
                x \in IF s("PE") = {} \/ b("PE") = {} THEN {} ELSE {1}}

(* Mutant: the narrower wing. *)
SpanDefinedNarrow(legs, net) ==
  IF Widths(legs) = {} THEN Abs(net)
  ELSE IF net >= 0 THEN Positive(Min(Widths(legs)) - net) ELSE Abs(net)

(* _span_defined(): the widest spread less the credit, or the debit paid.  *)
SpanDefined(legs, net) ==
  IF Widths(legs) = {} THEN Abs(net)
  ELSE IF net >= 0 THEN Positive(Max(Widths(legs)) - net) ELSE Abs(net)

(* _span_naked_short(): shorts of a type beyond its longs. *)
NakedLots(legs) ==
  LET Lots(type, dir) ==
        Total([i \in DOMAIN legs |-> IF legs[i].type = type /\ legs[i].dir = dir
                                     THEN legs[i].qty ELSE 0])
  IN  Positive(Lots("CE", "SELL") - Lots("CE", "BUY"))
        + Positive(Lots("PE", "SELL") - Lots("PE", "BUY"))

(* span_margin() *)
SpanMargin(name, legs, net, spot) ==
  LET naked == (SpanPct[1] * spot * NakedLots(legs)) \div SpanPct[2]
  IN  CASE SpanModel(name) = "defined" -> SpanDefined(legs, net)
        [] SpanModel(name) = "naked_short" -> naked
        [] SpanModel(name) = "spread_naked_mix" -> SpanDefined(legs, net) + naked

-----------------------------------------------------------------------------
(* The run. *)

StartStrategy(name, how) ==
  /\ strat = "none" /\ strat' = name /\ gating' = how
  /\ UNCHANGED <<placed, failed>>

Incomplete(c) == None \in {c.spot, c.vix, c.rv, c.dte, c.close} \/ c.spot <= 0

(* The trade of a cycle with these legs; _compute_costs() charges each.    *)
TradeWith(name, legs, c) ==
  LET fills == [i \in DOMAIN legs |-> Fill(legs[i], Mid(legs[i], c.spot, c.rich))]
      net == NetPremium(legs, fills)
      gross == ResolveFills(legs, fills, c.close)
      width == Max(Widths(legs))
  IN  [entry |-> c.entry, spot |-> c.spot, legs |-> legs, fills |-> fills, credit |-> net,
       gross |-> gross, net |-> gross - Costs * Len(legs),
       span |-> SpanMargin(name, legs, net, c.spot),
       upside |-> IF name = "jade_lizard" THEN Positive(width - net) ELSE 0]

MoveOf(c) == ImpliedMove(c.spot, c.vix, c.dte)
PlacedTrade(name, c) == TradeWith(name, LegsOf(name, c.spot, MoveOf(c)), c)

(* Whether a run of this name, gated like this, trades the cycle.          *)
Trades(name, how, c) ==
  /\ ~Incomplete(c) /\ c.vix > 0 /\ MoveOf(c) > 0
  /\ \/ how = "none"
     \/ Gate(Rebase(c.rv), c.vix, K) = IF SellsPremium(name) THEN "SELL" ELSE "BUY"

(* One cycle of run_strategy_backtest(): a vol that is not positive has no *)
(* implied move, and comparing none with zero raises.                      *)
RunWeek(c) ==
  /\ strat # "none" /\ ~NeedsMultiExpiry(strat) /\ ~failed /\ Len(placed) < MaxPlaced
  /\ IF Incomplete(c) THEN UNCHANGED <<placed, failed>>
     ELSE IF c.vix <= 0 THEN failed' = TRUE /\ UNCHANGED placed
     ELSE /\ UNCHANGED failed
          /\ placed' = IF Trades(strat, gating, c)
                       THEN Append(placed, PlacedTrade(strat, c)) ELSE placed
  /\ UNCHANGED <<strat, gating>>

StrategyNext ==
  \/ \E name \in Names, how \in {"vol", "none"} : StartStrategy(name, how)
  \/ \E c \in WeekSet : RunWeek(c)

(* The trades in and out of sample: 70% of them by entry, one at least.    *)
Split ==
  LET s == Chronological(placed)
      cut == Max({1, (7 * Len(s)) \div 10})
  IN  [inside |-> SubSeq(s, 1, cut), outside |-> SubSeq(s, cut + 1, Len(s))]

-----------------------------------------------------------------------------
StrategyTypeOK ==
  /\ strat \in Names \cup {"none"} /\ gating \in {"vol", "none"} /\ failed \in BOOLEAN
  /\ Len(placed) <= MaxPlaced

Settlements(t) == {(t.spot * i) \div 10 : i \in 5 .. 15} \cup {l.strike : l \in Range(t.legs)}

(* The margin blocked for a structure of defined risk covers the worst it  *)
(* can lose, wherever the index settles (a structure meant for a credit    *)
(* but entered at a debit is the exception: only the debit is blocked).    *)
SpanCoversLoss ==
  \A i \in DOMAIN placed :
    LET t == placed[i]
    IN  DefinedRisk(strat) /\ (SellsPremium(strat) => t.credit >= 0) =>
          /\ NakedLots(t.legs) = 0
          /\ \A s \in Settlements(t) : -ResolveFills(t.legs, t.fills, s) <= t.span

(* What the trade says of its upside is what it can lose there, at or      *)
(* above its puts: a lizard whose credit covers its call spread loses      *)
(* nothing.                                                                *)
UpsideAsStated ==
  \A i \in DOMAIN placed :
    LET t == placed[i]
    IN  strat = "jade_lizard" =>
          \A s \in Settlements(t) :
            (\A l \in Range(t.legs) : l.type = "PE" => s >= l.strike)
              => -ResolveFills(t.legs, t.fills, s) <= t.upside

(* The two ways to settle agree on structures of single legs.              *)
SettlementsAgree ==
  \A i \in DOMAIN placed :
    LET t == placed[i]
    IN  (\A l \in Range(t.legs) : l.qty = 1) =>
          \A s \in Settlements(t) :
            ResolveFills(t.legs, t.fills, s) = ResolveNet(t.legs, t.credit, s)

(* Nothing out of sample was entered before what is in sample, and every   *)
(* trade is in one of the two.                                             *)
SampleSplit ==
  placed # <<>> =>
    /\ \A a \in Range(Split.inside), b \in Range(Split.outside) : a.entry <= b.entry
    /\ Len(Split.inside) + Len(Split.outside) = Len(placed)

(* The strategy backtest: margin against the worst loss, the two ways of   *)
(* settling, and the split into samples.                                   *)
StrategiesSound ==
  StrategyTypeOK /\ SpanCoversLoss /\ UpsideAsStated /\ SettlementsAgree /\ SampleSplit
=============================================================================
