------------------------------ MODULE CondorSim ------------------------------
(***************************************************************************)
(* The condor backtest (research/backtest/fno_condor.py, run_backtest()):  *)
(* the same weekly cycles run through the first gate and through the       *)
(* second, in the order and with the bookkeeping of the code.  A cycle is  *)
(* a record of what the loader found, None where a field is missing; what  *)
(* the options cost (Black-76) is part of it: the credit at entry, less    *)
(* slippage, and the mark at each day of its path.                         *)
(***************************************************************************)
EXTENDS VolGate, Condor

CONSTANTS
  CycleSet,      \* the cycles the loader may find
  MaxCycles,     \* bound: cycles in a run
  StrikeStep, WingStrikes,
  IvMin, IvMax,  \* a real implied vol outside is not believed
  ProfitTarget,  \* <<numerator, denominator>> of the credit, or None
  StopLoss,      \* multiple of the credit, or None
  TimeStop,      \* days to expiry, or None
  TargetDelta,   \* of the short strikes, when they are chosen by delta
  CloseSlip,     \* slippage on closing the four legs
  Costs,         \* costs of four legs
  Capital, MinTrades

(* What the loader finds of a cycle.  A day of its path has the days left  *)
(* and the mark, which one vol for all four legs keeps between nothing and *)
(* the width of a wing; the deltas are those of the strikes from the money *)
(* outwards.                                                               *)
CycleRecord ==
  LET Found == Nat \cup {None}
  IN  [entry : Nat, spot : Found, dte : Found, atm : Found, vix : Found, rv : Found,
       fsp : Found, vwap : Found, close : Found, credit : Int,
       path : Seq([dte : Nat, mark : 0 .. WingStrikes * StrikeStep]),
       deltas : Seq(Nat) \ {<<>>}]

ASSUME SimAssumption ==
  /\ {MaxCycles, WingStrikes, TargetDelta, CloseSlip, Costs, MinTrades} \subseteq Nat
  /\ CycleSet \subseteq CycleRecord

VARIABLES
  list,     \* the cycles, in the order of the caller
  masked,   \* side A sees only the proxy vol (the A/B command)
  method,   \* how strikes are chosen: "move" or "delta"
  side,     \* "load", "A", "B" or "done"
  pos,      \* cycles of this side done
  trailing, \* spreads of the cycles done
  book      \* trades of each side

simVars == <<list, masked, method, side, pos, trailing, book>>

InitSim ==
  /\ list = <<>> /\ masked = FALSE /\ method = "move" /\ side = "load" /\ pos = 0
  /\ trailing = <<>> /\ book = [s \in {"A", "B"} |-> <<>>]

-----------------------------------------------------------------------------
(* What a cycle is priced and settled with. *)

Plausible(iv) == iv # None /\ iv >= IvMin /\ iv <= IvMax

(* resolve_iv_source() *)
IvSource(c) ==
  IF Plausible(c.atm) THEN [iv |-> c.atm, real |-> TRUE]
  ELSE IF c.vix # None /\ c.vix > 0 THEN [iv |-> c.vix, real |-> FALSE]
  ELSE [iv |-> None, real |-> FALSE]

(* resolve_settlement_price(): the first that is there and positive. *)
Settlement(c) ==
  LET prices == <<c.fsp, c.vwap, c.close>>
      good == {i \in 1 .. 3 : prices[i] # None /\ prices[i] > 0}
  IN  IF good = {} THEN None ELSE prices[Min(good)]

Malformed(c) ==
  \/ None \in {c.spot, c.rv, c.dte}
  \/ c.atm = None /\ c.vix = None
  \/ IvSource(c).iv = None
  \/ Settlement(c) = None

(* core/fno_derived.implied_move(): spot * iv * sqrt(dte / 365). *)
ImpliedMove(spot, iv, dte) ==
  LET sq == (spot * spot * iv * iv * dte) \div (365 * 10000)
  IN  CHOOSE m \in 0 .. sq : m * m <= sq /\ sq < (m + 1) * (m + 1)

(* select_short_strike_by_delta(): out from the money, place 1, until a    *)
(* delta below the target lies further off than an earlier one; the first  *)
(* of the nearest met by then.                                             *)
SelectByDelta(deltas, target) ==
  LET Off(i) == IF deltas[i] > target THEN deltas[i] - target ELSE target - deltas[i]
      Passed(i) == deltas[i] < target /\ \E j \in 1 .. i - 1 : Off(j) < Off(i)
      walked == {i \in DOMAIN deltas : \A j \in 1 .. i - 1 : ~Passed(j)}
  IN  Min({i \in walked : \A j \in walked : Off(i) <= Off(j)})

(* build_condor() at 1.5 expected moves, or build_condor_by_delta().       *)
StrikesOf(c, iv) ==
  IF method = "move"
  THEN BuildCondor(c.spot, (3 * ImpliedMove(c.spot, iv, c.dte)) \div 2, WingStrikes, StrikeStep)
  ELSE LET out == (SelectByDelta(c.deltas, TargetDelta) - 1) * StrikeStep
       IN  BuildCondor(RoundToStep(c.spot, StrikeStep), out, WingStrikes, StrikeStep)

-----------------------------------------------------------------------------
(* Exits. *)

(* What fires at a node of the path, in the order of evaluate_exit(). *)
RuleAt(node, credit) ==
  LET pnl == credit - node.mark
      base == IF credit < 0 THEN -credit ELSE credit
  IN  IF ProfitTarget # <<None>> /\ pnl * ProfitTarget[2] >= ProfitTarget[1] * base
      THEN "profit_target"
      ELSE IF StopLoss # None /\ pnl <= -(StopLoss * base) THEN "stop_loss"
      ELSE IF TimeStop # None /\ node.dte <= TimeStop THEN "time_stop"
      ELSE "none"

(* Mutant: the last node at which one fires. *)
EvaluateExitLast(c) ==
  LET fired == {i \in DOMAIN c.path : RuleAt(c.path[i], c.credit) # "none"}
  IN  IF fired = {} THEN [reason |-> "expiry", at |-> 0]
      ELSE LET i == Max(fired) IN [reason |-> RuleAt(c.path[i], c.credit), at |-> i]

(* evaluate_exit(): the first node at which a rule fires, or the expiry. *)
EvaluateExit(c) ==
  LET fired == {i \in DOMAIN c.path : RuleAt(c.path[i], c.credit) # "none"}
  IN  IF fired = {} THEN [reason |-> "expiry", at |-> 0]
      ELSE LET i == Min(fired) IN [reason |-> RuleAt(c.path[i], c.credit), at |-> i]

(* The trade of a cycle: an early exit closes at the mark and pays for     *)
(* closing, a held one settles.                                            *)
TradeOf(c) ==
  LET src == IvSource(c)
      k == StrikesOf(c, src.iv)
      exit == EvaluateExit(c)
      early == exit.reason # "expiry"
      gross == IF early THEN c.credit - (c.path[exit.at].mark + CloseSlip)
               ELSE ResolveCondor(k, c.credit, Settlement(c))
      costs == IF early THEN 2 * Costs ELSE Costs
  IN  [cycle |-> c, strikes |-> k, gross |-> gross, net |-> gross - costs,
       maxLoss |-> Positive(PutWing(k) - c.credit), exit |-> exit, real |-> src.real]

-----------------------------------------------------------------------------
(* The run. *)

(* The second gate's run sorts by entry date; the first's does not. *)
Chronological(s) ==
  LET D == DOMAIN s
      Before(i, j) == \/ s[i].entry < s[j].entry
                     \/ (s[i].entry = s[j].entry /\ i < j)
      at == InOrder(D, {p \in D \X D : Before(p[1], p[2])})
  IN  [n \in D |-> s[at[n]]]

Input ==
  IF side = "B" THEN Chronological(list)
  ELSE [i \in DOMAIN list |->
          IF masked THEN [list[i] EXCEPT !.atm = None] ELSE list[i]]

LoadCycle(c) ==
  /\ side = "load" /\ Len(list) < MaxCycles
  /\ list' = Append(list, c) /\ UNCHANGED <<masked, method, side, pos, trailing, book>>

StartSim(m, how) ==
  /\ side = "load" /\ side' = "A" /\ masked' = m /\ method' = how
  /\ UNCHANGED <<list, pos, trailing, book>>

(* The verdict of this side's gate; an event is a day the cycle ends on.   *)
Verdict(c) ==
  LET rv == Rebase(c.rv)
      iv == IvSource(c).iv
  IN  IF side = "A" THEN Gate(rv, iv, K)
      ELSE GateV2(rv, iv, trailing, iv, None, EventDay(c.entry, c.entry + c.dte, {}),
                  Config).decision

(* One pass of the loop: the spread is recorded after the decision. *)
RunCycle ==
  /\ side \in {"A", "B"} /\ pos < Len(list)
  /\ LET c == Input[pos + 1]
         iv == IvSource(c).iv
     IN  /\ trailing' = IF Malformed(c) THEN trailing
                        ELSE Append(trailing, VrpSpread(Rebase(c.rv), iv))
         /\ book' = IF /\ ~Malformed(c)
                       /\ Verdict(c) = "SELL"
                       /\ ImpliedMove(c.spot, iv, c.dte) > 0
                    THEN [book EXCEPT ![side] = Append(@, TradeOf(c))]
                    ELSE book
  /\ pos' = pos + 1
  /\ UNCHANGED <<list, masked, method, side>>

SideDone ==
  /\ side \in {"A", "B"} /\ pos = Len(list)
  /\ side' = IF side = "A" THEN "B" ELSE "done"
  /\ pos' = 0 /\ trailing' = <<>>
  /\ UNCHANGED <<list, masked, method, book>>

SimNext ==
  \/ \E c \in CycleSet : LoadCycle(c)
  \/ \E m \in BOOLEAN, how \in {"move", "delta"} : StartSim(m, how)
  \/ RunCycle \/ SideDone

-----------------------------------------------------------------------------
(* Metrics and verdict. *)

Nets(s) == [i \in DOMAIN book[s] |-> book[s][i].net]

(* The drawdown as run_backtest() walks it: cumulated, peak, worst. *)
Drawdown(pnls) ==
  FoldLeft(LAMBDA a, p :
             LET cum == a.cum + p
                 peak == IF cum > a.peak THEN cum ELSE a.peak
             IN  [cum |-> cum, peak |-> peak,
                  worst |-> IF cum - peak < a.worst THEN cum - peak ELSE a.worst],
           [cum |-> 0, peak |-> 0, worst |-> 0], pnls).worst

Metrics(pnls) ==
  LET won == Total([i \in DOMAIN pnls |-> Positive(pnls[i])])
      lost == Total([i \in DOMAIN pnls |-> Positive(-pnls[i])])
      varied == Len(pnls) > 1 /\ Spread2(pnls) > 0
  IN  [n |-> Len(pnls), net |-> Total(pnls), drawdown |-> Drawdown(pnls),
       profitable |-> pnls # <<>> /\ (lost = 0 \/ won > lost),
       sharpe |-> IF varied THEN Total(pnls) ELSE 0]

(* go_no_go() *)
GoNoGo(m) ==
  /\ m.n >= MinTrades /\ m.net > 0 /\ m.profitable /\ m.sharpe > 0
  /\ -(m.drawdown) * 100 < 15 * Capital

-----------------------------------------------------------------------------
TradeSet(s) == {book[s][i].cycle : i \in DOMAIN book[s]}

SimTypeOK ==
  /\ list \in BoundedSeq(CycleSet, MaxCycles) /\ masked \in BOOLEAN
  /\ method \in {"move", "delta"}
  /\ side \in {"load", "A", "B", "done"} /\ pos \in 0 .. Len(list)
  /\ Len(trailing) <= pos

(* On the same cycles the second gate only takes trades away, whatever     *)
(* order the caller gave them in.                                          *)
SecondGateTightens == side = "done" /\ ~masked => TradeSet("B") \subseteq TradeSet("A")

(* A trade of the second gate was decided by the spreads of the cycles     *)
(* that began no later, never of one that begins after it.                 *)
NoLaterSpread ==
  side = "B" =>
    \A i \in 1 .. pos, j \in pos + 1 .. Len(list) : Input[i].entry <= Input[j].entry

(* No trade loses more than it was said to risk, save what closing early   *)
(* costs.                                                                  *)
LossAsStated ==
  \A s \in {"A", "B"} : \A i \in DOMAIN book[s] :
    LET t == book[s][i]
    IN  /\ t.gross >= -(t.maxLoss) - IF t.exit.reason = "expiry" THEN 0 ELSE CloseSlip
        /\ Ordered(t.strikes)

(* A trade ends at the first day of its path on which a rule is met, and   *)
(* a day that meets both is a profit.                                      *)
FirstRuleEnds ==
  \A s \in {"A", "B"} : \A i \in DOMAIN book[s] :
    LET t == book[s][i]
        c == t.cycle
        Fires(j) == RuleAt(c.path[j], c.credit) # "none"
        held == IF t.exit.reason = "expiry" THEN Len(c.path) ELSE t.exit.at - 1
    IN  /\ \A j \in 1 .. held : ~Fires(j)
        /\ t.exit.reason # "expiry" => Fires(t.exit.at)

(* The drawdown is the deepest fall of the account below an earlier        *)
(* height, its start included; and a GO means what its criteria say: the   *)
(* account grew, by trades that differ, and never fell by 15%.             *)
GoIsEarned ==
  \A s \in {"A", "B"} :
    LET p == Nets(s)
        Sum(i) == Total(SubSeq(p, 1, i))
        after == {Sum(ij[2]) - Sum(ij[1]) :
                    ij \in {xy \in (0 .. Len(p)) \X (0 .. Len(p)) : xy[1] <= xy[2]}}
    IN  /\ Drawdown(p) = Min(after)
        /\ GoNoGo(Metrics(p)) <=>
             /\ Len(p) >= MinTrades /\ Sum(Len(p)) > 0
             /\ -(Min(after)) * 100 < 15 * Capital
             /\ \E i, j \in DOMAIN p : p[i] # p[j]

(* With history enough, a richer premium is never refused where a poorer   *)
(* one is sold.                                                            *)
RicherStillSells ==
  side = "B" =>
    \A rv \in {0, 9, 14}, iv \in 10 .. 20 :
      LET Sold(x) == GateV2(rv, x, trailing, x, None, FALSE, Config).decision = "SELL"
      IN  Sold(iv) /\ Cardinality(Usable(Unlike(trailing, VrpSpread(rv, iv)))) >= Config.minObs
            => Sold(iv + 1)

(* Where the deltas shrink outwards, the strike chosen by delta is the one *)
(* whose delta is nearest to the target.                                   *)
NearestDelta ==
  \A s \in {"A", "B"} : \A i \in DOMAIN book[s] :
    LET d == book[s][i].cycle.deltas
        Err(x) == IF x > TargetDelta THEN x - TargetDelta ELSE TargetDelta - x
    IN  (\A x, y \in DOMAIN d : x <= y => d[x] >= d[y]) =>
          \A x \in DOMAIN d : Err(d[SelectByDelta(d, TargetDelta)]) <= Err(d[x])

(* The condor backtest: how strikes, trades and exits are chosen, what the *)
(* second gate may add, what a loss and a GO amount to.                    *)
CondorRunSound ==
  /\ SimTypeOK /\ NearestDelta /\ RicherStillSells /\ SecondGateTightens
  /\ NoLaterSpread /\ LossAsStated /\ FirstRuleEnds /\ GoIsEarned
=============================================================================
