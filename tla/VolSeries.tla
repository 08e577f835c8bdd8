------------------------------ MODULE VolSeries ------------------------------
(***************************************************************************)
(* The index's daily bars and the column realized_vol_20d beside them      *)
(* (core/fno_derived.py): bars arrive and are corrected, a job recomputes  *)
(* the column, and the gate's samples join it with the volatility index.   *)
(***************************************************************************)
EXTENDS VolGate

CONSTANTS
  DayBars,    \* the bars of a day: [o, h, l, c] and the volatility index
  VolWindow,  \* returns in a window
  MaxBars,    \* bound: days
  MaxEdits,   \* bound: bars that are corrected
  Target      \* the share of samples the calibrated threshold is to pass

(* Prices are Nat, so that none is None, and no return is None either. *)
ASSUME SeriesAssumption ==
  /\ DayBars \subseteq [o : Nat \cup {None}, h : Nat \cup {None}, l : Nat \cup {None},
                       c : Nat \cup {None}, vix : Int]
  /\ \A a, b \in DayBars : None \notin {a.c, b.c} => a.c - b.c # None
  /\ VolWindow \in Nat \ {0, 1} /\ MaxBars \in Nat /\ MaxEdits \in Nat
  /\ Target[1] \in Nat /\ Target[2] \in Nat \ {0}

VARIABLES
  bars,     \* the days' bars, oldest first
  stored,   \* the days' column realized_vol_20d
  edits,    \* bars corrected so far
  fresh     \* the column was computed after the last bar was written

seriesVars == <<bars, stored, edits, fresh>>

SeriesTypeOK ==
  /\ bars \in BoundedSeq(DayBars, MaxBars) /\ DOMAIN stored = DOMAIN bars
  /\ \A i \in DOMAIN stored : stored[i] \in Nat \cup {None}
  /\ edits \in 0 .. MaxEdits /\ fresh \in BOOLEAN

InitSeries == bars = <<>> /\ stored = <<>> /\ edits = 0 /\ fresh = FALSE

Closes == [i \in DOMAIN bars |-> bars[i].c]

(* The backfill inserts a day. *)
NewBar(b) ==
  /\ Len(bars) < MaxBars
  /\ bars' = Append(bars, b) /\ stored' = Append(stored, None)
  /\ fresh' = FALSE /\ UNCHANGED edits

(* A later backfill overwrites a day's prices, not the derived column. *)
CorrectBar(i, b) ==
  /\ edits < MaxEdits /\ bars[i] # b
  /\ bars' = [bars EXCEPT ![i] = b]
  /\ edits' = edits + 1 /\ fresh' = FALSE /\ UNCHANGED stored

(* daily_log_returns(): a return beside a bad close is not a number. *)
LogReturns(closes) ==
  [i \in 1 .. Len(closes) - 1 |->
     IF None \in {closes[i], closes[i + 1]} THEN None ELSE closes[i + 1] - closes[i]]

(* Mutant: the window ends a return early. *)
RealizedSeriesLate(closes, window) ==
  LET rets == LogReturns(closes)
      At(i) == SubSeq(rets, i - window - 1, i - 2)
  IN  [i \in DOMAIN closes |->
         IF i <= window + 1 \/ None \in Range(At(i)) THEN None
         ELSE Annual(Spread2(At(i)), window * (window - 1))]

(* realized_vol_series(): the value at close i is of the window of returns *)
(* that ends there, and there is none without a full window.               *)
RealizedSeries(closes, window) ==
  LET rets == LogReturns(closes)
      At(i) == SubSeq(rets, i - window, i - 1)
  IN  [i \in DOMAIN closes |->
         IF i <= window \/ None \in Range(At(i)) THEN None
         ELSE Annual(Spread2(At(i)), window * (window - 1))]

(* compute_index_realized_vol(): only values are written. *)
ComputeVol ==
  /\ bars # <<>> /\ ~fresh
  /\ LET vols == RealizedSeries(Closes, VolWindow)
     IN  stored' = [i \in DOMAIN bars |-> IF vols[i] = None THEN stored[i] ELSE vols[i]]
  /\ fresh' = TRUE /\ UNCHANGED <<bars, edits>>

SeriesNext ==
  \/ \E b \in DayBars : NewBar(b) \/ \E i \in DOMAIN bars : CorrectBar(i, b)
  \/ ComputeVol

-----------------------------------------------------------------------------
(* samples_from_db(): the days that have both vols. *)
Samples ==
  LET pairs == [i \in DOMAIN bars |-> <<stored[i], bars[i].vix>>]
  IN  Restrict(pairs, {i \in DOMAIN bars : HasRatio(pairs[i])})

-----------------------------------------------------------------------------
(* The column and the gate's own estimator are two implementations of one  *)
(* vol: once the job has run, wherever the estimator has a value for the   *)
(* closes up to a day, the column has that value.  (Where it has none, a   *)
(* value from before a correction may remain.)                             *)
ColumnIsEstimate ==
  fresh => \A i \in DOMAIN bars :
             LET live == CloseClose(SubSeq(Closes, 1, i), VolWindow)
             IN  live # None => stored[i] = live

(* Both estimators are free of drift: a constant added to every day's      *)
(* return changes neither.                                                 *)
DriftFree ==
  LET Up(x, i) == IF x = None THEN None ELSE x + i
      moved == [i \in DOMAIN bars |->
                  [o |-> Up(bars[i].o, i), h |-> Up(bars[i].h, i),
                   l |-> Up(bars[i].l, i), c |-> Up(bars[i].c, i)]]
  IN  \A source \in {"close_close", "yang_zhang"} :
        Realized(bars, VolWindow, source, TRUE) = Realized(moved, VolWindow, source, TRUE)

(* The calibrated threshold is the quantile it is meant to be: unless it   *)
(* was clamped, no more than the target's share of the samples lie below   *)
(* it and more lie at or below it, and the gate sells on the former only   *)
(* (fewer when the threshold is above one, where BUY comes first), always  *)
(* at an edge.                                                             *)
CalibratedIsQuantile ==
  LET k == CalibratedK(Samples, Target)
      n == Cardinality(DOMAIN Samples)
      below == {i \in DOMAIN Samples : Lower(Samples[i], k)}
      upTo == {i \in DOMAIN Samples : ~Lower(k, Samples[i])}
      stats == VrpStats(Samples, k)
  IN  n > 0 /\ ~Lower(k, <<1, 2>>) /\ k \notin {<<1, 2>>, <<3, 2>>} =>
        /\ Cardinality(below) * Target[2] <= Target[1] * n
        /\ Cardinality(upTo) * Target[2] > Target[1] * n
             \/ Cardinality(upTo) = n
        /\ stats.sells <= Cardinality(below)
        /\ stats.sells = Cardinality({i \in below : Samples[i][1] <= Samples[i][2]})
        /\ stats.edge >= stats.wins /\ (stats.sells > 0 => stats.median2 >= 0)

(* The vol column is the estimate of its day, whatever came in between,    *)
(* and what is derived from it keeps the order of the vols.                *)
VolsAgree == SeriesTypeOK /\ ColumnIsEstimate /\ DriftFree /\ CalibratedIsQuantile
=============================================================================
