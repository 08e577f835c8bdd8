---------------------------- MODULE MC_OrderFlow ----------------------------
(* Instances of OrderFlow for TLC. *)
EXTENDS OrderFlow

BothSides == {"BUY", "SELL"}
=============================================================================
