------------------------------ MODULE Research ------------------------------
(***************************************************************************)
(* The research code: each report is a process of its own that reads       *)
(* tables and writes none but the derived vols; what one computes, another *)
(* takes as a parameter.  A behaviour follows one.                         *)
(***************************************************************************)
EXTENDS VolSeries, Cycles, Router, Harvester, EdgeRestate, PortfolioReplay, ScalperReplay

VARIABLE followed  \* the report followed

Followed == {"series", "sim", "cycles", "strategies", "router", "harvester", "edge",
             "portfolio", "scalper"}
vars == <<followed, seriesVars, simVars, cycleVars, strategyVars, routerVars,
          harvesterVars, edgeVars, replayVars, scalperVars>>

Init ==
  /\ followed \in Followed
  /\ InitSeries /\ InitSim /\ InitCycles /\ InitStrategies /\ InitRouter
  /\ InitHarvester /\ InitEdge /\ InitReplay /\ InitScalper

Next ==
  /\ UNCHANGED followed
  /\ \/ /\ followed = "series" /\ SeriesNext
        /\ UNCHANGED <<simVars, cycleVars, strategyVars, routerVars,
                       harvesterVars, edgeVars, replayVars, scalperVars>>
     \/ /\ followed = "sim" /\ SimNext
        /\ UNCHANGED <<seriesVars, cycleVars, strategyVars, routerVars,
                       harvesterVars, edgeVars, replayVars, scalperVars>>
     \/ /\ followed = "cycles" /\ CyclesNext
        /\ UNCHANGED <<seriesVars, simVars, strategyVars, routerVars,
                       harvesterVars, edgeVars, replayVars, scalperVars>>
     \/ /\ followed = "strategies" /\ StrategyNext
        /\ UNCHANGED <<seriesVars, simVars, cycleVars, routerVars,
                       harvesterVars, edgeVars, replayVars, scalperVars>>
     \/ /\ followed = "router" /\ RouterNext
        /\ UNCHANGED <<seriesVars, simVars, cycleVars, strategyVars,
                       harvesterVars, edgeVars, replayVars, scalperVars>>
     \/ /\ followed = "harvester" /\ HarvesterNext
        /\ UNCHANGED <<seriesVars, simVars, cycleVars, strategyVars,
                       routerVars, edgeVars, replayVars, scalperVars>>
     \/ /\ followed = "edge" /\ EdgeNext
        /\ UNCHANGED <<seriesVars, simVars, cycleVars, strategyVars,
                       routerVars, harvesterVars, replayVars, scalperVars>>
     \/ /\ followed = "portfolio" /\ ReplayNext
        /\ UNCHANGED <<seriesVars, simVars, cycleVars, strategyVars,
                       routerVars, harvesterVars, edgeVars, scalperVars>>
     \/ /\ followed = "scalper" /\ ScalperNext
        /\ UNCHANGED <<seriesVars, simVars, cycleVars, strategyVars,
                       routerVars, harvesterVars, edgeVars, replayVars>>

Spec == Init /\ [][Next]_vars

(* What the two routers decide and trade on what was known at the entry.   *)
RoutersSound == RouterSound /\ HarvesterSound

(* The two intraday replays: of the opening-range portfolio and of the     *)
(* scalper.                                                                *)
ReplaysSound == PortfolioSound /\ ScalperReplaySound
=============================================================================
