--------------------------- MODULE MC_ScalperSleeve ---------------------------
(* The instances of ScalperSleeve for TLC: two underlyings with one strike *)
(* each, and one underlying with two strikes.                              *)
EXTENDS ScalperSleeve

MCUnderlyings == {"NIFTY", "BANKNIFTY"}
MCOrder == <<"NIFTY", "BANKNIFTY">>
MCPnls == {-2, -1, 1}
===============================================================================
