------------------------------- MODULE Condor -------------------------------
(***************************************************************************)
(* The iron condor (research/backtest/fno_condor.py): its four strikes and *)
(* what it pays at expiry.  Prices are integers.                           *)
(***************************************************************************)
EXTENDS Integers, FiniteSetsExt

(* _round_to_step(): to the nearest multiple, a half upwards. *)
RoundToStep(value, step) == ((2 * value + step) \div (2 * step)) * step

(* build_condor(); reach is the move multiple times the expected move.     *)
BuildCondor(spot, reach, wings, step) ==
  LET sp == RoundToStep(spot - reach, step)
      sc == RoundToStep(spot + reach, step)
  IN  [shortPut |-> sp, longPut |-> sp - wings * step,
       shortCall |-> sc, longCall |-> sc + wings * step]

Positive(x) == IF x > 0 THEN x ELSE 0

PutLoss(k, s)  == Positive(k.shortPut - s) - Positive(k.longPut - s)
CallLoss(k, s) == Positive(s - k.shortCall) - Positive(s - k.longCall)

(* resolve_condor(), per unit. *)
ResolveCondor(k, credit, s) == credit - PutLoss(k, s) - CallLoss(k, s)

PutWing(k)  == k.shortPut - k.longPut
CallWing(k) == k.longCall - k.shortCall

WiderWing(k) == IF PutWing(k) > CallWing(k) THEN PutWing(k) ELSE CallWing(k)

Ordered(k) ==
  k.longPut <= k.shortPut /\ k.shortPut <= k.shortCall /\ k.shortCall <= k.longCall
=============================================================================
