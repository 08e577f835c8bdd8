----------------------------- MODULE EdgeRestate -----------------------------
(***************************************************************************)
(* The restatement of an edge (research/backtest/fno_edge_restate.py, and  *)
(* how fno_raven.py feeds it): trades become a series of cycles, the       *)
(* series is put to five gates, and only a series that passes all is a GO. *)
(* A return on margin is in thousandths; the seeded draws of the random    *)
(* benchmark and of the block bootstrap are any draws.                     *)
(***************************************************************************)
EXTENDS CondorSim

CONSTANTS
  TakeSet,      \* what a trade may be
  OtherSet,     \* what a trade of the passive benchmark may be
  MaxTakes, MaxOthers,   \* bounds
  MinOos,       \* trades out of sample that the first gate needs
  BlockLen,     \* of the bootstrap
  TrialBar      \* <<num, den>>: the square of the bar that the configurations
                \* tried set for the Sharpe ratio, 0 for one configuration

ASSUME EdgeAssumption ==
  /\ BlockLen \in Nat
  /\ TakeSet \subseteq [entry : Nat, net : Int, margin : Int, iv : Int, rv : Int]
  /\ OtherSet \subseteq [entry : Nat, net : Int]

VARIABLES
  takes,    \* trades, in the order of the caller
  others,   \* trades of the passive benchmark
  series,   \* the series of cycles, or NoSeries
  feed,     \* how the series is built: [by, passive, labelled], or by "nobody"
  purge,    \* cycles left out on either side of the split
  cutRom,   \* out of sample with implied vols cut, or None
  luck,     \* what was drawn: rows, and the returns of two resamples
  verdict   \* "none", "rejected", "GO" or "NO-GO"

edgeVars == <<takes, others, series, feed, purge, cutRom, luck, verdict>>

Nobody == [by |-> "nobody", passive |-> FALSE, labelled |-> FALSE]
NoSeries == [n |-> 0]
NoLuck == [picked |-> {}, roms |-> <<>>]

InitEdge ==
  /\ takes = <<>> /\ others = <<>> /\ series = NoSeries /\ feed = Nobody
  /\ purge = 0 /\ cutRom = None /\ luck = NoLuck /\ verdict = "none"

-----------------------------------------------------------------------------
(* The series. *)

(* _regime_labels(): terciles of the implied vol. *)
RegimeLabels(ivs) ==
  LET up == Ascending(ivs, DOMAIN ivs)
      n == Len(ivs)
      lo == up[Max({0, n \div 3 - 1}) + 1]
      hi == up[Min({n - 1, (2 * n) \div 3}) + 1]
  IN  [i \in DOMAIN ivs |-> IF hi <= lo THEN "mid"
                            ELSE IF ivs[i] <= lo THEN "calm"
                            ELSE IF ivs[i] >= hi THEN "stress" ELSE "mid"]

(* _strategy_series() takes factor and labels from the trades in order of  *)
(* entry, series_from_trades() as the caller has them; the passive leg is  *)
(* found by date, 0 when there is none.                                    *)
PassiveOn(day) ==
  LET at == {i \in DOMAIN others : others[i].entry = day}
  IN  IF at = {} THEN 0 ELSE others[Max(at)].net

SeriesBy(by) ==
  LET rows == Chronological(takes)
      fed == IF by = "raven" THEN rows ELSE takes
  IN  [n |-> Len(rows),
       pnl |-> [i \in DOMAIN rows |-> rows[i].net],
       margin |-> [i \in DOMAIN rows |-> rows[i].margin],
       passive |-> [i \in DOMAIN rows |-> PassiveOn(rows[i].entry)],
       factor |-> [i \in DOMAIN rows |-> fed[i].iv - fed[i].rv],
       regime |-> RegimeLabels([i \in DOMAIN rows |-> fed[i].iv])]

TwiceOnADay(s) == \E i, j \in DOMAIN s : i # j /\ s[i].entry = s[j].entry

-----------------------------------------------------------------------------
(* Lenses. *)

(* _margin_weighted_rom(), of some of the rows.                            *)
SumOver(s, rows) == MapThenSumSet(LAMBDA i : s[i], rows)
RomOver(pnls, margins, rows) ==
  IF SumOver(margins, rows) <= 0 THEN 0
  ELSE (1000 * SumOver(pnls, rows)) \div SumOver(margins, rows)
Rom(pnls, margins) == RomOver(pnls, margins, DOMAIN pnls)

(* _percentile(), times 1000: q is in thousandths. *)
Percentile(vals, q) ==
  LET up == Ascending(vals, DOMAIN vals)
      n == Len(up)
      place == q * (n - 1)
      i == (place \div 1000) + 1
      rest == place % 1000
  IN  IF n = 0 THEN 0
      ELSE IF rest = 0 THEN 1000 * up[i] ELSE up[i] * (1000 - rest) + up[i + 1] * rest

(* cvar(): the worst of them, one at least; sum and count. *)
Cvar(pnls, percent) ==
  LET k == Max({1, (percent * Len(pnls) + 99) \div 100})
  IN  <<Total(SubSeq(Ascending(pnls, DOMAIN pnls), 1, k)), k>>

(* ols_regression(), all times n: the sums the fit is made of. *)
Fit(y, x) ==
  LET n == Len(y)
  IN  [sxx |-> Spread2(x), syy |-> Spread2(y),
       sxy |-> n * Total([i \in DOMAIN y |-> x[i] * y[i]]) - Total(x) * Total(y)]

(* deflated_sharpe() above one half: the Sharpe ratio clears the bar.      *)
SharpeClears(pnls) ==
  LET n == Len(pnls)
      sum == Total(pnls)
  IN  n >= 2 /\ Spread2(pnls) > 0 /\ sum > 0
        /\ sum * sum * (n - 1) * TrialBar[2] > TrialBar[1] * Spread2(pnls)

(* walk_forward_oos() *)
Split2(n) == IF n = 0 THEN 0 ELSE Max({1, (7 * n) \div 10})
InEnd(n) == Max({0, Split2(n) - purge})
OutStart(n) == Min({n, Split2(n) + purge})
OutRows(n) == OutStart(n) + 1 .. n

(* random_entry_benchmark(): rows drawn, of the passive leg when there is  *)
(* one; seven tenths of them, a half rounded to the even number.           *)
TakeCount(n) ==
  LET whole == (7 * n) \div 10
      tenths == (7 * n) % 10
      up == tenths > 5 \/ (tenths = 5 /\ whole % 2 = 1)
  IN  Max({1, Min({n, whole + IF up THEN 1 ELSE 0})})
RandomRom(s) ==
  RomOver(IF feed.passive THEN s.passive ELSE s.pnl, s.margin, luck.picked)

(* block_bootstrap_rom_ci(): blocks laid end to end; two resamples.        *)
Block(n) == Max({1, Min({BlockLen, n})})
BlockCount(n) == (n + Block(n) - 1) \div Block(n)
Resampled(s, starts) ==
  LET Laid(col) == Total([b \in DOMAIN starts |-> SumOver(col, starts[b] + 1 .. starts[b] + Block(s.n))])
  IN  IF Laid(s.margin) <= 0 THEN 0 ELSE (1000 * Laid(s.pnl)) \div Laid(s.margin)
Interval(s) ==
  LET point == 1000 * Rom(s.pnl, s.margin)
  IN  IF s.n < 2 THEN [lo |-> point, hi |-> point]
      ELSE [lo |-> Percentile(luck.roms, 25), hi |-> Percentile(luck.roms, 975)]

-----------------------------------------------------------------------------
(* falsification_gates() *)

WalksForward(s, between) ==
  /\ Cardinality(OutRows(s.n)) >= MinOos /\ between.lo > 0
  /\ RomOver(s.pnl, s.margin, OutRows(s.n)) > 0

SurvivesCut == cutRom # None /\ cutRom > 0

(* Mutant: as good as the benchmark is enough. *)
BeatsBenchmarksOrTies(s, between) ==
  LET own == 1000 * Rom(s.pnl, s.margin)
      half == (between.hi - between.lo) \div 2
  IN  /\ feed.passive
      /\ own - 1000 * Rom(s.passive, s.margin) >= half
      /\ own - 1000 * RandomRom(s) >= half

BeatsBenchmarks(s, between) ==
  LET own == 1000 * Rom(s.pnl, s.margin)
      half == (between.hi - between.lo) \div 2
  IN  /\ feed.passive
      /\ own - 1000 * Rom(s.passive, s.margin) > half
      /\ own - 1000 * RandomRom(s) > half

StressRows(s) == {i \in 1 .. s.n : s.regime[i] = "stress"}
SurvivesStress(s) ==
  /\ feed.labelled /\ StressRows(s) # {}
  /\ RomOver(s.pnl, s.margin, StressRows(s)) > -250

(* restate_edge() *)
Goes(s) ==
  /\ s.n > 0 /\ SurvivesCut /\ SharpeClears(s.pnl) /\ SurvivesStress(s)
  /\ LET between == Interval(s) IN WalksForward(s, between) /\ BeatsBenchmarks(s, between)

-----------------------------------------------------------------------------
AddTake(t) ==
  /\ feed = Nobody /\ Len(takes) < MaxTakes /\ others = <<>> /\ takes' = Append(takes, t)
  /\ UNCHANGED <<others, series, feed, purge, cutRom, luck, verdict>>

AddOther(t) ==
  /\ feed = Nobody /\ Len(others) < MaxOthers /\ others' = Append(others, t)
  /\ UNCHANGED <<takes, series, feed, purge, cutRom, luck, verdict>>

(* The series is made; a negative margin is refused, and so is a day met   *)
(* twice when the passive leg is looked up by day.                         *)
BuildSeries(f) ==
  /\ feed = Nobody /\ takes # <<>> /\ (f.passive \/ others = <<>>)
  /\ feed' = f
  /\ verdict' = IF \/ f.passive /\ (TwiceOnADay(takes) \/ TwiceOnADay(others))
                   \/ \E i \in DOMAIN takes : takes[i].margin < 0
                THEN "rejected" ELSE verdict
  /\ series' = SeriesBy(f.by)
  /\ UNCHANGED <<takes, others, purge, cutRom, luck>>

(* restate_edge(), with the draws of its seeds, the caller's purge and     *)
(* what a series with cut implied vols made out of sample, if there is one.*)
Restate(gap, cut) ==
  /\ feed # Nobody /\ verdict = "none"
  /\ purge' = gap /\ cutRom' = cut
  /\ LET n == series.n
         blocks == [1 .. BlockCount(n) -> 0 .. n - Block(n)]
     IN  \E rows \in kSubset(TakeCount(n), 1 .. n), s, t \in blocks :
           luck' = [picked |-> rows, roms |-> <<Resampled(series, s), Resampled(series, t)>>]
  /\ UNCHANGED <<takes, others, series, feed>>
  /\ verdict' = IF Goes(series)' THEN "GO" ELSE "NO-GO"

Feeds == {[by |-> "raven", passive |-> p, labelled |-> TRUE] : p \in BOOLEAN}
           \cup {[by |-> "condor", passive |-> p, labelled |-> l] : p, l \in BOOLEAN}

EdgeNext ==
  \/ \E t \in TakeSet : AddTake(t)
  \/ \E t \in OtherSet : AddOther(t)
  \/ \E f \in Feeds : BuildSeries(f)
  \/ \E gap \in {0, 1}, cut \in {None, 5} : Restate(gap, cut)

-----------------------------------------------------------------------------
(* A selection that adds nothing is never a GO, whatever the draws: where  *)
(* the passive leg made on every cycle what the trades made, as it does    *)
(* when it is the same structure on the same days, no other gate helps.    *)
NoSelectionNoGo == verdict = "GO" => series.passive # series.pnl

(* A GO has been earned: money in the whole and out of sample, more than   *)
(* the passive leg, and no ruin in the stressed tercile; and nothing that  *)
(* was not supplied counts as passed.                                      *)
GoIsProven ==
  verdict = "GO" =>
    LET s == series
    IN  /\ Total(s.pnl) > 0 /\ SumOver(s.pnl, OutRows(s.n)) > 0
        /\ Total(s.pnl) > Total(s.passive)
        /\ feed.passive /\ feed.labelled /\ cutRom # None /\ cutRom > 0
        /\ \E i \in 1 .. s.n : s.regime[i] = "stress"
        /\ InEnd(s.n) + 2 * purge = OutStart(s.n)

(* The series as it was built; it does not change any more.                *)
Built == feed # Nobody /\ verdict = "none"

(* The worst part is the worst: no other choice of as many trades lost     *)
(* more.                                                                   *)
CvarIsWorst ==
  Built =>
    LET p == series.pnl
    IN  \A percent \in {5, 50} :
          \A at \in kSubset(Cvar(p, percent)[2], DOMAIN p) :
            Cvar(p, percent)[1] <= SumOver(p, at)

(* The fit explains no more than there is.                                 *)
FitWithinData ==
  Built =>
    LET f == Fit(series.pnl, series.factor) IN f.sxy * f.sxy <= f.sxx * f.syy

(* Each row is of one day: the passive leg is that day's, and so are the   *)
(* factor and the label, provided the caller had the trades in order.      *)
RowsAligned ==
  Built =>
    LET s == series
        rows == Chronological(takes)
        sorted == \A i, j \in DOMAIN takes : i < j => takes[i].entry <= takes[j].entry
    IN  /\ feed.passive =>
             \A i \in 1 .. s.n, j \in DOMAIN others :
               others[j].entry = rows[i].entry => s.passive[i] = others[j].net
        /\ feed.by = "raven" \/ sorted =>
             /\ \A i \in 1 .. s.n : s.factor[i] = rows[i].iv - rows[i].rv
             /\ \A i, j \in 1 .. s.n :
                  rows[i].iv < rows[j].iv =>
                    <<s.regime[i], s.regime[j]>> \notin
                      {<<"stress", "calm">>, <<"stress", "mid">>, <<"mid", "calm">>}

(* The restated edge: what a GO means, the lenses, and rows that belong    *)
(* together.                                                               *)
EdgeSound ==
  /\ NoSelectionNoGo /\ GoIsProven /\ CvarIsWorst /\ FitWithinData /\ RowsAligned
=============================================================================
