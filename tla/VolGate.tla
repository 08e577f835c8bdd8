------------------------------- MODULE VolGate -------------------------------
(***************************************************************************)
(* The volatility gate (ml/fno_vol_gate.py): whether a premium is worth    *)
(* selling.  Vols are whole points, None stands for a missing one; log     *)
(* prices are integers, so a log return is a difference; k and the         *)
(* percentiles are pairs <<numerator, denominator>>.                       *)
(***************************************************************************)
EXTENDS Integers, SequencesExt

CONSTANTS
  K,          \* the threshold k of the gate
  MinObs,     \* spreads the percentile gate needs before it may veto
  Rich        \* the percentile from which a spread is rich

ASSUME GateAssumption ==
  K[1] \in Nat /\ K[2] \in Nat \ {0} /\ MinObs \in Nat
    /\ Rich[1] \in Nat /\ Rich[2] \in Nat \ {0} /\ Rich[1] <= Rich[2]

None == -1000

(* GateV2Config: the thresholds the decision below is made with. *)
Config == [k |-> K, minObs |-> MinObs, rich |-> Rich, require |-> TRUE]

-----------------------------------------------------------------------------
(* Estimators. *)

Total(s) == FoldSeq(LAMBDA x, y : x + y, 0, s)

(* sorted(): the members of D in the order of R, a set of pairs of which   *)
(* the first comes earlier.                                                *)
InOrder(D, R) ==
  [n \in 1 .. Cardinality(D) |->
     CHOOSE j \in D : Cardinality({i \in D : i = j \/ <<i, j>> \in R}) = n]

(* sorted() of numbers: the entries of s at the places D, ascending. *)
Ascending(s, D) ==
  LET Before(i, j) == s[i] < s[j] \/ (s[i] = s[j] /\ i < j)
      at == InOrder(D, {p \in D \X D : Before(p[1], p[2])})
  IN  [n \in 1 .. Cardinality(D) |-> s[at[n]]]

(* n(n-1) times the sample variance of s. *)
Spread2(s) ==
  Len(s) * Total([i \in DOMAIN s |-> s[i] * s[i]]) - Total(s) * Total(s)

(* The annualised vol of a daily variance num/den, rounded down. *)
Annual(num, den) ==
  LET n == (252 * num) \div den
  IN  CHOOSE r \in 0 .. n : r * r <= n /\ n < (r + 1) * (r + 1)

LastOf(s, n) == SubSeq(s, Len(s) - n + 1, Len(s))

(* close_close_realized_vol(): a bad close in the window gives None. *)
CloseClose(closes, window) ==
  IF Len(closes) < window + 1 \/ None \in Range(LastOf(closes, window + 1)) THEN None
  ELSE LET tail == LastOf(closes, window + 1)
           rets == [i \in 1 .. window |-> tail[i + 1] - tail[i]]
       IN  Annual(Spread2(rets), window * (window - 1))

Impossible(b) ==
  \/ None \in {b.o, b.h, b.l, b.c}
  \/ b.h < b.l \/ b.h < b.o \/ b.h < b.c \/ b.l > b.o \/ b.l > b.c

RogersSatchell(b) ==
  (b.h - b.c) * (b.h - b.o) + (b.l - b.c) * (b.l - b.o)

(* yang_zhang_realized_vol(), times n(n-1)(234n-34) under the root: the    *)
(* overnight, the open-to-close and the Rogers-Satchell variance, weighted *)
(* with k = 34(n-1)/(234n-34).                                             *)
YangZhang(bars, window) ==
  IF Len(bars) < window + 1 \/ \E b \in Range(LastOf(bars, window + 1)) : Impossible(b)
  THEN None
  ELSE LET tail == LastOf(bars, window + 1)
           n == window
           night == [i \in 1 .. n |-> tail[i + 1].o - tail[i].c]
           day == [i \in 1 .. n |-> tail[i + 1].c - tail[i + 1].o]
           range == [i \in 1 .. n |-> RogersSatchell(tail[i + 1])]
           sigma2 == Spread2(night) * (234 * n - 34) + 34 * (n - 1) * Spread2(day)
                       + 200 * n * (n - 1) * Total(range)
       IN  Annual(IF sigma2 < 0 THEN 0 ELSE sigma2, n * (n - 1) * (234 * n - 34))

(* _rebase_to_calendar(): sqrt(252/365). *)
Rebase(vol) == IF vol = None THEN None ELSE (831 * vol) \div 1000

(* realized_vol(): the estimator the configuration selects. *)
Realized(bars, window, source, calendar) ==
  LET rv == IF source = "yang_zhang" THEN YangZhang(bars, window)
            ELSE CloseClose([i \in DOMAIN bars |-> bars[i].c], window)
  IN  IF calendar THEN Rebase(rv) ELSE rv

-----------------------------------------------------------------------------
(* The gate. *)

(* gate_decision(); BUY comes first, which tells only for k > 1. *)
Gate(rv, iv, k) ==
  IF None \in {rv, iv} \/ iv <= 0 \/ rv < 0 THEN "ASIDE"
  ELSE IF rv > iv THEN "BUY"
  ELSE IF rv * k[2] < k[1] * iv THEN "SELL" ELSE "ASIDE"

(* vrp_spread() *)
VrpSpread(rv, iv) ==
  IF None \in {rv, iv} \/ iv <= 0 \/ rv < 0 THEN None ELSE iv - rv

(* The observations of a window. *)
Usable(window) == {i \in DOMAIN window : window[i] # None}

NoRank == <<0, 0>>

(* percentile_rank(): the share strictly below, <<below, of>>, or none. *)
PercentileRank(v, window) ==
  IF v = None \/ Usable(window) = {} THEN NoRank
  ELSE <<Cardinality({i \in Usable(window) : window[i] < v}), Cardinality(Usable(window))>>

(* vrp_percentile_gate(): too little history never vetoes. *)
RichPremium(v, history, cfg) ==
  \/ ~cfg.require
  \/ v = None
  \/ Cardinality(Usable(history)) < cfg.minObs
  \/ LET pct == PercentileRank(v, history)
     IN  pct = NoRank \/ pct[1] * cfg.rich[2] >= cfg.rich[1] * pct[2]

(* is_backwardation(), with the ratio 1.02. *)
Backwardation(front, next) ==
  /\ None \notin {front, next} /\ front > 0 /\ next > 0
  /\ 100 * front > 102 * next

(* is_event_day() *)
EventDay(day, expiry, events) == day = expiry \/ day \in events

(* The entries of a window that differ from v. *)
Unlike(window, v) == Restrict(window, {i \in DOMAIN window : window[i] # v})

(* gate_v2_decision(), after the rebase: entries of the window equal to    *)
(* the current spread are dropped before it is ranked.                     *)
GateV2(rv, iv, history, front, next, event, cfg) ==
  LET v1 == Gate(rv, iv, cfg.k)
      v == VrpSpread(rv, iv)
      window == IF v = None THEN history ELSE Unlike(history, v)
      rich == RichPremium(v, window, cfg)
      back == Backwardation(front, next)
      vetoed == v1 = "SELL" /\ (~rich \/ back \/ event)
  IN  [decision |-> IF vetoed THEN "ASIDE" ELSE v1, v1 |-> v1, rich |-> rich,
       spread |-> v, backwardation |-> back, event |-> event]

-----------------------------------------------------------------------------
(* Statistics over samples <<rv, iv>>. *)

Valid(p) == None \notin {p[1], p[2]} /\ p[2] > 0

(* compute_vrp_stats(): edges in points; the median is doubled. *)
VrpStats(samples, k) ==
  LET usable == {i \in DOMAIN samples : Valid(samples[i])}
      sold == {i \in usable : Gate(samples[i][1], samples[i][2], k) = "SELL"}
      edges == Ascending([i \in sold |-> samples[i][2] - samples[i][1]], sold)
      m == Len(edges)
  IN  [n |-> Cardinality(usable), sells |-> m, edge |-> Total(edges),
       median2 |-> IF m = 0 THEN 0
                   ELSE IF m % 2 = 1 THEN 2 * edges[(m \div 2) + 1]
                   ELSE edges[m \div 2] + edges[(m \div 2) + 1],
       wins |-> Cardinality({i \in DOMAIN edges : edges[i] > 0})]

Lower(p, q) == p[1] * q[2] < q[1] * p[2]
HasRatio(p) == Valid(p) /\ p[1] > 0
Clamped(k) == IF Lower(k, <<1, 2>>) THEN <<1, 2>>
              ELSE IF Lower(<<3, 2>>, k) THEN <<3, 2>> ELSE k

(* The ratios rv/iv of the samples in order, and where the target lies. *)
Ratios(samples) ==
  LET D == {i \in DOMAIN samples : HasRatio(samples[i])}
      Before(i, j) == \/ Lower(samples[i], samples[j])
                      \/ (~Lower(samples[j], samples[i]) /\ i < j)
      at == InOrder(D, {p \in D \X D : Before(p[1], p[2])})
  IN  [n \in 1 .. Cardinality(D) |-> samples[at[n]]]
TargetIndex(target, n) ==
  LET i == (target[1] * n) \div target[2] IN IF i < n THEN i ELSE n - 1

(* calibrate_threshold() *)
CalibratedK(samples, target) ==
  LET r == Ratios(samples)
  IN  IF r = <<>> THEN K ELSE Clamped(r[TargetIndex(target, Len(r)) + 1])
=============================================================================
