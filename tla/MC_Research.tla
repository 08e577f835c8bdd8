---------------------------- MODULE MC_Research ----------------------------
(***************************************************************************)
(* A small instance of the research code.                                  *)
(***************************************************************************)
EXTENDS Research

MCK == <<9, 10>>
MCRich == <<1, 2>>
MCTarget == <<7, 10>>

Day(o, h, l, c, vix) == [o |-> o, h |-> h, l |-> l, c |-> c, vix |-> vix]
MCDayBars ==
  {Day(1, 1, 1, 1, 20), Day(1, 2, 1, 2, 11), Day(2, 3, 1, 1, 40), Day(1, 1, 0, 0, 15),
   Day(2, 2, 2, None, 20)}

Node(dte, mark) == [dte |-> dte, mark |-> mark]
Cyc(e, s, d, atm, vix, rv, fsp, vwap, close, credit, p) ==
  [entry |-> e, spot |-> s, dte |-> d, atm |-> atm, vix |-> vix, rv |-> rv, fsp |-> fsp,
   vwap |-> vwap, close |-> close, credit |-> credit, path |-> p,
   deltas |-> IF e = 2 THEN <<50, 30, 36, 16, 8>> ELSE <<50, 38, 27, 18, 11>>]
MCCycles ==
  {Cyc(1, 200, 7, 20, 18, 12, 203, None, 203, 4, <<Node(5, 5), Node(3, 2)>>),
   Cyc(2, 200, 7, None, 15, 12, None, 0, 170, 4, <<Node(5, 4), Node(3, 3)>>),
   Cyc(3, 200, 7, 18, 22, 14, None, 240, 203, 3, <<Node(5, 9), Node(3, 1)>>),
   Cyc(4, 200, 0, 20, 18, 12, 203, None, 203, 4, <<>>),
   Cyc(4, 200, 6, 90, 14, 12, 201, None, 203, 3, <<Node(2, 3), Node(1, 3)>>),
   Cyc(5, 200, 6, 90, None, 12, 201, None, 203, 3, <<Node(2, 3), Node(1, 3)>>)}
MCHalf == <<1, 2>>

Week(e, s, d, vix, rv, close, rich) ==
  [entry |-> e, spot |-> s, dte |-> d, vix |-> vix, rv |-> rv, close |-> close, rich |-> rich]
MCWeeks ==
  {Week(1, 200, 7, 15, 12, 203, 9), Week(3, 203, 7, 20, 12, 170, 14),
   Week(2, 198, 6, 12, 20, 230, 4), Week(2, 200, 6, 0, 20, 200, 4),
   Week(4, 200, None, 12, 20, 200, 4), Week(4, 200, 1, 3, 3, 200, 1)}
MCNames == Registry
MCSpan == <<12, 100>>

(* Closes that a window of two reads as flat, skewed and steep trends. *)
MCDays == {[close |-> 10, iv |-> 12], [close |-> 25, iv |-> 19], [close |-> 100, iv |-> None]}
MCRouted == {Week(1, 200, 7, 20, 15, 170, 9), Week(1, 200, None, 18, 17, 203, 14)}
MCAllowed ==
  {{"iron_condor", "bull_put_spread", "credit_put_spread", "broken_wing_condor"},
   {"broken_wing_condor", "jade_lizard"}}

Far == <<50, 36, 20, 12, 5>>
Near == <<50, 30, 18, 9>>
Coarse == <<20, 1>>
Surface(e, atm, vix, rv, nx, ev, d, fd, close, rich, fr, p, c) ==
  [entry |-> e, atm |-> atm, vix |-> vix, rv |-> rv, next |-> nx, event |-> ev, dte |-> d,
   farDte |-> fd, spot |-> 200, close |-> close, rich |-> rich, farRich |-> fr,
   puts |-> p, calls |-> c]
MCSurface ==
  {Surface(1, 20, 18, 12, None, FALSE, 7, None, 203, 9, 14, Far, Near),
   Surface(2, 16, 18, 12, 17, FALSE, 6, 13, 170, 7, 16, Far, Near),
   Surface(3, 24, 18, 12, 20, FALSE, 7, None, 150, 9, 15, Far, Near),
   Surface(3, 24, 18, 12, 20, TRUE, 7, 14, 190, 9, 15, Far, Near),
   Surface(4, 30, 18, None, 20, FALSE, 5, 7, 190, 12, 15, Far, Near),
   Surface(5, 20, 18, 9, None, FALSE, 7, None, 190, 4, 8, Coarse, Coarse),
   Surface(6, None, 70, 20, 14, FALSE, 7, 14, 230, 4, 8, Far, Near),
   Surface(6, 18, 0, 20, 14, FALSE, 7, 14, 180, 4, 8, Far, Near),
   Surface(7, 6, 20, 8, None, FALSE, 7, None, 180, 4, 8, Far, Near)}

Take(e, net, m, iv, rv) == [entry |-> e, net |-> net, margin |-> m, iv |-> iv, rv |-> rv]
MCTakes == {Take(1, 4, 5, 12, 9), Take(2, 5, 5, 18, 10), Take(3, 3, 6, 25, 11)}
MCOthers == {[entry |-> 1, net |-> 4], [entry |-> 2, net |-> 5]}
MCBar == <<142, 100>>

Bar(o, h, l, c, v) == [o |-> o, h |-> h, l |-> l, c |-> c, v |-> v]
MCBars == {Bar(10, 11, 10, 10, 2), Bar(7, 8, 6, 7, 2)}
MCGrids == {{1, 2, 3}, {}}

Quote(o, h, l, c) == [o |-> o, h |-> h, l |-> l, c |-> c]
MCQuotes ==
  {Quote(20, 21, 19, 20), Quote(20, 24, 20, 23), Quote(22, 23, 17, 18), Quote(12, 13, 11, 12)}
MCStop == <<8, 10>>
MCTargetUp == <<11, 10>>
MCTrail == <<88, 100>>
MCSlip == <<1, 20>>
=============================================================================
