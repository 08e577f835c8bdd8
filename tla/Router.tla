-------------------------------- MODULE Router --------------------------------
(***************************************************************************)
(* The strategy router of the backtest (research/backtest/                 *)
(* fno_orchestrator.py): each weekly cycle is read as a regime, from what  *)
(* was known on its entry day, and traded with one structure or none.  The *)
(* report is computed again as the tables of daily closes grow.  Trends    *)
(* and ranks are pairs <<numerator, denominator>>.                         *)
(***************************************************************************)
EXTENDS Strategies

CONSTANTS
  DaySet,      \* what a day may add: [close, iv] of the index and of the VIX
  MaxTable,    \* bound: days
  RoutedSet,   \* the cycles, each entered on the day it is added
  MaxRouted,   \* bound: cycles
  MaxReports,  \* bound: reports
  MaWindow,    \* days of the moving average
  RankMin,     \* closes of the VIX a rank needs
  AllowedSets  \* the sets of structures the caller may allow

ASSUME RouterAssumption ==
  /\ MaWindow \in Nat \ {0}
  /\ \A c \in RoutedSet : /\ {c.spot, c.vix, c.rv, c.dte, c.close} \subseteq Nat \cup {None}
                          /\ c.entry \in Nat /\ c.rich \in Nat

VARIABLES
  table,    \* days, in order
  weeks,    \* cycles, in order
  allowed,  \* the structures allowed, or {} before the router is built
  refused,  \* the caller asked for one of undefined risk
  manner,   \* how it is built: [policy, how (gated by "vol" or "none"), loaded]
  reports   \* the reports so far

routerVars == <<table, weeks, allowed, refused, manner, reports>>

InitRouter ==
  /\ table = <<>> /\ weeks = <<>> /\ allowed = {} /\ refused = FALSE
  /\ manner = [policy |-> "regime", how |-> "vol", loaded |-> TRUE] /\ reports = <<>>

-----------------------------------------------------------------------------
(* The signals of a cycle. *)

IsClose(x) == x # None /\ x > 0

(* The days of a list that have one. *)
ClosesAt(s) == {i \in DOMAIN s : IsClose(s[i])}

(* iv_rank(): strictly below. *)
IvRank(iv, past) ==
  LET at == ClosesAt(past)
  IN  IF iv = None \/ iv <= 0 \/ Cardinality(at) < RankMin THEN NoRank
      ELSE <<Cardinality({i \in at : past[i] < iv}), Cardinality(at)>>

(* trend_slope(): the last close against its average, over the average.    *)
TrendSlope(closes) ==
  LET at == ClosesAt(closes)
      last == {i \in at : Cardinality({j \in at : j >= i}) <= MaWindow}
      sum == MapThenSumSet(LAMBDA i : closes[i], last)
  IN  IF Cardinality(at) < MaWindow + 1 THEN NoRank
      ELSE <<MaWindow * closes[Max(at)] - sum, sum>>

(* Mutant: every day of the table. *)
KnownByAll(c) == table

(* RegimeSidecar.signals_for(): the days up to the entry. *)
KnownBy(c) == SubSeq(table, 1, c.entry)

(* regime_from_cycle(), and the sidecar when its tables could be loaded.   *)
RegimeOf(c, loaded) ==
  LET past == KnownBy(c)
      closes == [i \in DOMAIN past |-> past[i].close]
      both == /\ c.rv # None /\ c.rv > 0 /\ c.vix # None /\ c.vix > 0
      seen == loaded /\ \E i \in DOMAIN table : IsClose(table[i].close)
  IN  [gate |-> Gate(c.rv, c.vix, K),
       dte |-> c.dte, iv |-> c.vix,
       vrp |-> IF both THEN c.vix - c.rv ELSE None,
       rank |-> IF seen THEN IvRank(c.vix, [i \in DOMAIN past |-> past[i].iv]) ELSE NoRank,
       trend |-> IF seen THEN TrendSlope(closes) ELSE NoRank]

-----------------------------------------------------------------------------
(* The policies. *)

Up(t) == t[1] > 0
Steep(t, part) == t[2] > 0 /\ 10 * Abs(t[1]) >= part * t[2]  \* part tenths

(* RegimeRoutingPolicy._candidates(), in order of preference. *)
Candidates(s) ==
  IF Steep(s.trend, 6) /\ ~Up(s.trend) THEN <<"iron_condor">>
  ELSE IF Steep(s.trend, 6)
  THEN <<IF s.rank # NoRank /\ 10 * s.rank[1] >= 7 * s.rank[2]
         THEN "credit_put_spread" ELSE "bull_put_spread",
         "broken_wing_condor", "iron_condor">>
  ELSE IF s.trend[1] # 0 /\ Steep(s.trend, 3) THEN <<"broken_wing_condor", "iron_condor">>
  ELSE <<"iron_condor">>

(* RegimeRoutingPolicy.select(): the first candidate that is allowed. *)
SelectRegime(s) ==
  LET cands == Candidates(s)
      enabled == {i \in DOMAIN cands : cands[i] \in allowed}
  IN  IF \/ s.gate # "SELL"
         \/ s.dte = None \/ s.dte < 1 \/ s.dte > 7
         \/ s.vrp = None \/ s.vrp < 0
         \/ s.iv = None
         \/ enabled = {}
      THEN "aside" ELSE cands[Min(enabled)]

(* VrpDefaultPolicy.select() *)
SelectVrp(s) ==
  IF s.gate = "SELL" /\ "iron_condor" \in allowed THEN "iron_condor" ELSE "aside"

(* FnoOrchestrator.decide(): without a gate the label is overridden.       *)
Decide(s, how, pol) ==
  LET told == IF how = "none" THEN [s EXCEPT !.gate = "SELL"] ELSE s
  IN  IF pol = "regime" THEN SelectRegime(told) ELSE SelectVrp(told)

(* The legs of a choice: in an uptrend the broken wing is turned over.     *)
RoutedLegs(name, c, trend) ==
  LET w == 2 * StrikeStep
  IN  IF name = "broken_wing_condor" /\ Up(trend)
      THEN CondorLegs(c.spot, MoveOf(c), WingPoints((w * 2) \div 3), WingPoints((w * 3) \div 2))
      ELSE LegsOf(name, c.spot, MoveOf(c))

-----------------------------------------------------------------------------
(* The tables grow. *)

Manners == [policy : {"regime", "vrp"}, how : {"vol", "none"}, loaded : BOOLEAN]

AddDay(d) ==
  /\ Len(table) < MaxTable /\ table' = Append(table, d)
  /\ UNCHANGED <<weeks, allowed, refused, manner, reports>>

AddWeek(c) ==
  /\ table # <<>> /\ Len(weeks) < MaxRouted
  /\ weeks' = Append(weeks, [c EXCEPT !.entry = Len(table)])
  /\ UNCHANGED <<table, allowed, refused, manner, reports>>

(* FnoOrchestrator(): a structure of undefined risk is refused; a sidecar  *)
(* that could not load its tables knows neither rank nor trend.            *)
BuildRouter(set, m) ==
  /\ allowed = {} /\ ~refused /\ weeks # <<>>
  /\ IF \A name \in set : DefinedRisk(name)
     THEN allowed' = set /\ manner' = m /\ UNCHANGED refused
     ELSE refused' = TRUE /\ UNCHANGED <<allowed, manner>>
  /\ UNCHANGED <<table, weeks, reports>>

(* run(), for one cycle: decide, then dispatch it alone and ungated.       *)
Routed(c, m) ==
  LET s == RegimeOf(c, m.loaded)
      name == Decide(s, m.how, m.policy)
  IN  [name |-> name,
       trade |-> IF name # "aside" /\ Trades(name, "none", c)
                 THEN <<TradeWith(name, RoutedLegs(name, c, s.trend), c)>> ELSE <<>>]

Report ==
  /\ allowed # {} /\ Len(reports) < MaxReports
  /\ reports' = Append(reports, [i \in DOMAIN weeks |-> Routed(weeks[i], manner)])
  /\ UNCHANGED <<table, weeks, allowed, refused, manner>>

RouterNext ==
  \/ \E d \in DaySet : AddDay(d)
  \/ \E c \in RoutedSet : AddWeek(c)
  \/ \E set \in AllowedSets : \E m \in Manners : BuildRouter(set, m)
  \/ Report

(* _aggregate(): what a report counts; the trades after the first 70% are  *)
(* out of sample.                                                          *)
Counts(report) ==
  LET went == {i \in DOMAIN report : report[i].name # "aside"}
      traded == {i \in went : report[i].trade # <<>>}
      cut == Max({1, (7 * Cardinality(traded)) \div 10})
      outside == {i \in traded : Cardinality({j \in traded : j <= i}) > cut}
      blocked == MapThenSumSet(LAMBDA i : report[i].trade[1].span, outside)
  IN  [deployed |-> Cardinality(went), trades |-> Cardinality(traded),
       romOutside |-> IF blocked > 0
                      THEN <<MapThenSumSet(LAMBDA i : report[i].trade[1].net, outside), blocked>>
                      ELSE <<0, 1>>]

-----------------------------------------------------------------------------
(* A later report, with more days and more cycles, decides the cycles of   *)
(* an earlier one as it did: no decision looked at a day after its entry.  *)
DecisionsStand ==
  \A i, j \in DOMAIN reports : i < j => IsPrefix(reports[i], reports[j])

(* Whatever the router trades under the gate, the baseline that always     *)
(* plays the same structure under that gate trades too: the router         *)
(* compares with the raw vol, the baseline with the rebased one, which is  *)
(* lower (fno_vol_gate.py 139-143 has it the other way round).  No trade   *)
(* of the comparison is the router's only.                                 *)
BaselineTradesToo ==
  \A i \in DOMAIN reports : \A k \in DOMAIN reports[i] :
    LET d == reports[i][k]
    IN  d.trade # <<>> => Trades(d.name, manner.how, weeks[k])

(* What the router may lose is blocked as margin, in every regime and with *)
(* the wings turned either way; and it plays only what it was allowed.     *)
RoutedRiskCovered ==
  \A i \in DOMAIN reports : \A k \in DOMAIN reports[i] :
    LET d == reports[i][k]
    IN  d.trade # <<>> /\ d.trade[1].credit >= 0 =>
          /\ d.name \in allowed
          /\ \A s \in Settlements(d.trade[1]) :
               -ResolveFills(d.trade[1].legs, d.trade[1].fills, s) <= d.trade[1].span

(* Reading the regime only ever stands aside where the default would       *)
(* trade: with a condor allowed, it trades no cycle the default leaves.    *)
RegimeOnlyNarrows ==
  \A i \in DOMAIN reports : \A k \in DOMAIN reports[i] :
    "iron_condor" \in allowed /\ reports[i][k].name # "aside"
      => Routed(weeks[k], [manner EXCEPT !.policy = "vrp"]).name # "aside"

(* Every trade counted comes from a cycle counted as traded, and the part  *)
(* out of sample leaves at least one trade in.                             *)
CountsAgree ==
  \A i \in DOMAIN reports :
    LET r == Counts(reports[i])
    IN  /\ r.trades <= r.deployed
        /\ r.trades < 2 => r.romOutside = <<0, 1>>

(* The orchestrator: what it routes on, what it may trade, what it         *)
(* reports.                                                                *)
RouterSound ==
  /\ DecisionsStand /\ BaselineTradesToo /\ RoutedRiskCovered
  /\ RegimeOnlyNarrows /\ CountsAgree
=============================================================================
