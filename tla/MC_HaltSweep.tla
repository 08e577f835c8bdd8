---------------------------- MODULE MC_HaltSweep ----------------------------
(* Instances of HaltSweep for TLC. *)
EXTENDS HaltSweep, TLC

Symmetry == Permutations(Sids)
LongOnly == {"BUY"}
BothSides == {"BUY", "SELL"}
=============================================================================
