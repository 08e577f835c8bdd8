------------------------------ MODULE Harvester ------------------------------
(***************************************************************************)
(* The term-structure router (research/backtest/fno_surface_harvester.py)  *)
(* and the asymmetric condor it sells (fno_raven.py): an inverted surface  *)
(* buys a diagonal, an ordinary one sells the condor if the second gate    *)
(* agrees, an event stands aside.  Amounts are per unit; options cost what *)
(* they cost in Strategies, with a time value for each expiry.             *)
(***************************************************************************)
EXTENDS Strategies

CONSTANTS
  SurfaceSet,    \* the cycles, None where a field is missing
  MaxSurface,    \* bound: cycles
  PutDelta, CallDelta, PutWings, CallWings,  \* RavenParams
  NearDelta, FarOffset,                      \* DiagonalParams, a put diagonal
  IvFloor, IvCeil                            \* an implied vol outside is illegible

ASSUME SurfaceAssumption ==
  /\ {PutDelta, CallDelta, NearDelta, PutWings, CallWings, FarOffset} \subseteq Nat
  /\ \A c \in SurfaceSet :
       /\ {c.spot, c.atm, c.vix, c.rv, c.next, c.dte, c.farDte, c.close} \subseteq Nat \cup {None}
       /\ {c.entry, c.rich, c.farRich} \subseteq Nat
       /\ {c.puts, c.calls} \subseteq Seq(Nat) \ {<<>>}

VARIABLES
  surface,  \* cycles, in the order of the caller
  phase,    \* "load", "route", "harvest", "done" or "raised"
  heard,    \* spreads of the cycles routed, oldest first
  routes,   \* where each went: "raven", "diagonal" or "aside"
  ravens,   \* trades of the condor
  diagonals \* trades of the diagonal

harvesterVars == <<surface, phase, heard, routes, ravens, diagonals>>

InitHarvester ==
  /\ surface = <<>> /\ phase = "load" /\ heard = <<>> /\ routes = <<>>
  /\ ravens = <<>> /\ diagonals = <<>>

-----------------------------------------------------------------------------
(* Gates. *)

FrontIv(c) == IvSource(c).iv
Legible(iv) == iv # None /\ iv >= IvFloor /\ iv <= IvCeil
EventOf(c) == EventDay(c.entry, c.entry + c.dte, IF c.event THEN {c.entry} ELSE {})

(* The spread of a cycle as both trailing windows keep it. *)
SpreadOf(c) == VrpSpread(Rebase(c.rv), FrontIv(c))

SecondGate(c, past) ==
  GateV2(Rebase(c.rv), FrontIv(c), past, FrontIv(c), c.next, EventOf(c), Config).decision

(* fno_raven.gate_cycles_v2(): the cycles kept, each judged by the spreads *)
(* of all the cycles before it in the list.                                *)
KeptAt(cycles) ==
  LET before(i) == [j \in 1 .. i - 1 |-> SpreadOf(cycles[j])]
  IN  {i \in DOMAIN cycles :
         /\ FrontIv(cycles[i]) # None /\ cycles[i].rv # None
         /\ SecondGate(cycles[i], before(i)) = "SELL"}

(* gate_diagonal_cycles() *)
DeploysDiagonal(c) ==
  /\ FrontIv(c) # None /\ c.next # None /\ Legible(FrontIv(c)) /\ Legible(c.next)
  /\ Backwardation(FrontIv(c), c.next) /\ ~EventOf(c)

(* regime_route() *)
RouteOf(c, past) ==
  IF EventOf(c) \/ ~Legible(FrontIv(c)) \/ (c.next # None /\ ~Legible(c.next)) THEN "aside"
  ELSE IF Backwardation(FrontIv(c), c.next) THEN "diagonal"
  ELSE IF c.rv # None /\ SecondGate(c, past) = "SELL" THEN "raven" ELSE "aside"

-----------------------------------------------------------------------------
(* The condor. *)

(* build_raven_strikes(): short strikes by delta, the wings counted from   *)
(* them; strikes out of order raise.                                       *)
RavenStrikes(c) ==
  LET atm == RoundToStep(c.spot, StrikeStep)
      sp == atm - (SelectByDelta(c.puts, PutDelta) - 1) * StrikeStep
      sc == atm + (SelectByDelta(c.calls, CallDelta) - 1) * StrikeStep
  IN  [lp |-> sp - PutWings * StrikeStep, sp |-> sp, sc |-> sc,
       lc |-> sc + CallWings * StrikeStep]
RavenRaises(c) == LET k == RavenStrikes(c) IN c.dte <= 0 \/ ~(k.sp < k.sc)

RavenLegs(c) ==
  LET k == RavenStrikes(c) IN Spread("PE", k.sp, k.lp) \o Spread("CE", k.sc, k.lc)

-----------------------------------------------------------------------------
(* The diagonal. *)

(* _resolve_far_dte() *)
FarDte(c) ==
  IF c.farDte # None THEN (IF c.farDte > c.dte THEN c.farDte ELSE None)
  ELSE c.dte + Max({c.dte, 3})

(* What price_and_resolve_diagonal() needs; without it the cycle is left   *)
(* to paper trading.                                                       *)
Priceable(c) ==
  /\ None \notin {FrontIv(c), c.next, c.spot, c.dte, c.close}
  /\ FrontIv(c) > 0 /\ c.next > 0 /\ c.spot > 0 /\ c.dte > 0 /\ c.close > 0
  /\ FarDte(c) # None /\ FarDte(c) - c.dte >= 3

Cut(premium) == premium - premium \div SlipPart
Raise(premium) == premium + premium \div SlipPart

(* build_skew_lean_diagonal(), price_and_resolve_diagonal(): the near put  *)
(* settles, the far one is sold; _diagonal_margin().                       *)
DiagonalTrade(c) ==
  LET nearK == RoundToStep(c.spot, StrikeStep) - (SelectByDelta(c.puts, NearDelta) - 1) * StrikeStep
      farK == nearK - FarOffset * StrikeStep
      near == Leg("PE", "SELL", nearK, 1)
      far == Leg("PE", "BUY", farK, 1)
      credit == Cut(Mid(near, c.spot, c.rich)) - Raise(Mid(far, c.spot, c.farRich))
      residual == Mid(far, c.close, c.farRich \div 2)
  IN  [entry |-> c.entry, near |-> near, far |-> far, credit |-> credit,
       gross |-> credit + Cut(residual) - Intrinsic(near, c.close),
       slip |-> residual - Cut(residual),
       margin |-> Max({Positive(-credit), nearK - farK, StrikeStep})]

-----------------------------------------------------------------------------
AddSurface(c) ==
  /\ phase = "load" /\ Len(surface) < MaxSurface /\ surface' = Append(surface, c)
  /\ UNCHANGED <<phase, heard, routes, ravens, diagonals>>

StartRouting ==
  /\ phase = "load" /\ phase' = "route"
  /\ UNCHANGED <<surface, heard, routes, ravens, diagonals>>

(* route_cycles(), one cycle: the spread is heard after the decision. *)
RouteCycle ==
  /\ phase = "route" /\ Len(routes) < Len(surface)
  /\ LET c == surface[Len(routes) + 1]
     IN  /\ routes' = Append(routes, RouteOf(c, heard))
         /\ heard' = Append(heard, SpreadOf(c))
  /\ UNCHANGED <<surface, phase, ravens, diagonals>>

Routing == phase = "route" /\ Len(routes) = Len(surface) /\ phase' = "harvest"
             /\ UNCHANGED <<surface, heard, routes, ravens, diagonals>>

(* The cycles of a list at some of its positions, in its order. *)
ChosenFrom(cycles, at) ==
  LET order == InOrder(at, {p \in at \X at : p[1] < p[2]})
  IN  [n \in DOMAIN order |-> cycles[order[n]]]

Bucket(route) == ChosenFrom(surface, {i \in DOMAIN routes : routes[i] = route})

(* run_surface_harvester_backtest(): the condor's run gates its bucket     *)
(* again, with the history of the bucket alone; strikes out of order, or a *)
(* vol that is not positive, end the whole run.                            *)
Harvest ==
  /\ phase = "harvest"
  /\ LET kept == ChosenFrom(Bucket("raven"), KeptAt(Bucket("raven")))
         sold == ChosenFrom(kept, {i \in DOMAIN kept : Trades("raven", "none", kept[i])})
         turned == Bucket("diagonal")
         bought == ChosenFrom(turned, {i \in DOMAIN turned :
                                         DeploysDiagonal(turned[i]) /\ Priceable(turned[i])})
     IN  IF \E c \in Range(kept) : ~Incomplete(c) /\ (c.vix <= 0 \/ RavenRaises(c))
         THEN phase' = "raised" /\ UNCHANGED <<ravens, diagonals>>
         ELSE /\ phase' = "done"
              /\ ravens' = [i \in DOMAIN sold |-> TradeWith("raven", RavenLegs(sold[i]), sold[i])]
              /\ diagonals' = [i \in DOMAIN bought |-> DiagonalTrade(bought[i])]
  /\ UNCHANGED <<surface, heard, routes>>

HarvesterNext ==
  \/ \E c \in SurfaceSet : AddSurface(c)
  \/ StartRouting \/ RouteCycle \/ Routing \/ Harvest

-----------------------------------------------------------------------------
(* Routed cycle by cycle, the condor gets what the second gate keeps when  *)
(* it looks back over the whole list for each, and the diagonal what its   *)
(* own gate deploys: the two ways of looking agree, and no later gate      *)
(* takes back a diagonal.                                                  *)
RoutesAsGated ==
  phase # "load" =>
    \A i \in DOMAIN routes :
      LET c == surface[i]
      IN  /\ routes[i] = "raven" <=>
               /\ i \in KeptAt(surface)
               /\ Legible(FrontIv(c)) /\ (c.next = None \/ Legible(c.next))
          /\ routes[i] = "diagonal" <=> DeploysDiagonal(c)

(* Nothing is sold into an event or an inverted surface.                   *)
NothingSoldIntoStress ==
  \A i \in KeptAt(surface) :
    ~EventOf(surface[i]) /\ ~Backwardation(FrontIv(surface[i]), surface[i].next)

(* The diagonal loses at most the debit and the gap between its strikes,   *)
(* and what selling the far leg costs: up to twice the margin, which takes *)
(* the larger of the two.                                                  *)
DiagonalLossBounded ==
  \A i \in DOMAIN diagonals :
    LET t == diagonals[i]
        gap == t.near.strike - t.far.strike
    IN  /\ -(t.gross) <= gap - t.credit + t.slip
        /\ -(t.gross) <= 2 * t.margin + t.slip

(* The condor sold, wings of unlike width and all, loses at most the       *)
(* margin blocked, wherever the index settles.                             *)
RavenLossCovered ==
  \A i \in DOMAIN ravens :
    LET t == ravens[i]
    IN  t.credit >= 0 =>
          \A s \in Settlements(t) : -ResolveFills(t.legs, t.fills, s) <= t.span

(* The harvester: what it routes to which structure, and what each risks.  *)
HarvesterSound ==
  /\ RoutesAsGated /\ NothingSoldIntoStress /\ DiagonalLossBounded
  /\ RavenLossCovered
=============================================================================
