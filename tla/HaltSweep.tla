------------------------------ MODULE HaltSweep ------------------------------
(***************************************************************************)
(* The flatten that a halt sets off (apps/trader.py: on_halt, flatten_all) *)
(* composed with the runners of OrderFlow.  It is a coroutine of the risk  *)
(* task: it shares the portfolio, the executor, the strategies' views and  *)
(* the risk slots with the runners, takes no lock, and awaits the executor *)
(* and the database for every position.                                    *)
(***************************************************************************)
EXTENDS OrderFlow

VARIABLES
  cause,      \* the marker on disk: none, KILL file, or halt_state.json
  sweep,      \* the coroutine: where it is parked, what is left, its order
  contested,  \* history: securities that had a runner's and the sweep's order in flight at once
  residual    \* history: securities the sweep reported flat after a partial fill

sweepVars == <<cause, sweep, contested, residual>>
allVars == <<vars, sweepVars>>

Causes == {"none", "kill", "loss"}
Idle == [pc |-> "idle", todo |-> {}, sid |-> {}, side |-> "BUY", qty |-> 0]
Done == [Idle EXCEPT !.pc = "done"]

InFlight(s) == pc[s] \in {"submit", "persist"}
Sweeping(s) == sweep.pc \in {"submit", "persist"} /\ s \in sweep.sid

SweepInit ==
  /\ Init
  /\ cause = "none"
  /\ sweep = Idle
  /\ contested = {}
  /\ residual = {}

(* Securities on which the next state has both orders in flight. *)
Contest ==
  contested' = contested \cup
    {s \in Sids : /\ pc'[s] \in {"submit", "persist"}
                  /\ sweep'.pc \in {"submit", "persist"}
                  /\ s \in sweep'.sid}

-----------------------------------------------------------------------------
(* The for loop goes on to the next position of its snapshot that is still *)
(* open (one that went flat meanwhile is skipped) and submits its whole    *)
(* quantity, in the same step; with none left the sweep is over.           *)
Advance(todo) ==
  LET open == {s \in todo : qty[s] # 0}
  IN IF open = {}
     THEN sweep' = Done
     ELSE \E s \in open, skipped \in SUBSET (todo \ open) :
            sweep' = [pc   |-> "submit",
                      todo |-> todo \ ({s} \cup skipped),
                      sid  |-> {s},
                      side |-> ExitSide(s),
                      qty  |-> ExitQty(s)]

(* _halt: the flag is set and a loss halt written before on_halt runs; its *)
(* first await is the alert.  Nothing is evaluated while a sweep runs.     *)
HaltRequested ==
  /\ up /\ ~halted
  /\ halted' = TRUE
  /\ sweep.pc \in {"idle", "done"}
  /\ cause' \in (IF cause = "none" THEN {"kill", "loss"} ELSE {cause})
  /\ sweep' = [Idle EXCEPT !.pc = "alert"]
  /\ UNCHANGED <<up, market, memory, coroutine, database, exchange, history, faults,
                 contested, residual>>

(* The alert is sent; flatten_all takes its snapshot. *)
SweepStart ==
  /\ up /\ sweep.pc = "alert"
  /\ Advance(Open)
  /\ UNCHANGED <<vars, cause, residual>>
  /\ Contest

(* No fill: the slot is released all the same. *)
SweepFailed(s) ==
  /\ up /\ sweep.pc = "submit" /\ s \in sweep.sid
  /\ NoFill(s, sweep.side, sweep.qty)
  /\ slots' = slots \ {s}
  /\ Advance(sweep.todo)
  /\ UNCHANGED <<up, market, halted, view, session, coroutine, database,
                 entered, untold, unsaved, blind, cause, residual>>
  /\ Contest

SweepFilled(s) ==
  /\ up /\ sweep.pc = "submit" /\ s \in sweep.sid
  /\ \E n \in 1..sweep.qty :
       /\ FillOrder(s, sweep.side, sweep.qty, n)
       /\ sweep' = [sweep EXCEPT !.pc = "persist", !.qty = n]
  /\ UNCHANGED <<up, market, halted, view, slots, session, coroutine, database,
                 entered, untold, unsaved, blind, cause, residual>>
  /\ Contest

(* The row is written, the strategy is told it is flat, the slot released: *)
(* whatever is left of the position.                                       *)
SweepSettled(s) ==
  /\ up /\ sweep.pc = "persist" /\ s \in sweep.sid
  /\ PersistRow(s)
  /\ NotifyFlat(s)
  /\ slots' = slots \ {s}
  /\ residual' = IF qty[s] # 0 /\ s \notin contested THEN residual \cup {s} ELSE residual
  /\ Advance(sweep.todo)
  /\ UNCHANGED <<up, market, halted, qty, session, coroutine, exchange, entered, untold,
                 blind, doubted, cause>>
  /\ Contest

Sweep == SweepStart \/ \E s \in Sids : SweepFailed(s) \/ SweepFilled(s) \/ SweepSettled(s)

-----------------------------------------------------------------------------
(* resume() clears the markers; the risk task is not in a sweep then. *)
ResumeRequested ==
  /\ Resume
  /\ sweep.pc \in {"idle", "done"}
  /\ cause' = "none"
  /\ sweep' = Idle
  /\ UNCHANGED <<contested, residual>>

(* A runner's step, the broker's, or the clock's. *)
OrderStep ==
  /\ (\E s \in Sids : Runner(s) \/ AtBroker(s)) \/ NextPhase \/ NextDay
  /\ UNCHANGED <<cause, sweep, residual>>
  /\ Contest

(* The sweep's own order stays with the broker as a runner's does. *)
SweptUnderWay(s, side) ==
  IF Live /\ sweep.pc = "submit" /\ s \in sweep.sid /\ sweep.side = side THEN sweep.qty ELSE 0

CrashSweep ==
  /\ ProcessDies
  /\ afloat' = [s \in Sids |-> [side \in BothWays |->
                  afloat[s][side] + UnderWay(s, side) + SweptUnderWay(s, side)]]
  /\ sweep' = Idle
  /\ UNCHANGED <<cause, contested, residual>>

(* load_persisted_halt restores a loss halt without calling _halt; a KILL  *)
(* file is found by the first evaluation, which halts and sweeps.          *)
BootSweep ==
  /\ Boot
  /\ halted' = (cause = "loss")
  /\ contested' = {}
  /\ residual' = {}
  /\ UNCHANGED <<cause, sweep>>

SweepNext ==
  \/ OrderStep \/ Sweep \/ HaltRequested \/ ResumeRequested
  \/ CrashSweep \/ BootSweep

SweepSpec == SweepInit /\ [][SweepNext]_allVars

(* As in OrderFlow, and the sweep goes on until it is done. *)
SweepFairness ==
  /\ WF_allVars(BootSweep)
  /\ WF_allVars(SweepStart)
  /\ \A s \in Sids :
       /\ WF_allVars(DecideExit(s) /\ OrderStep)
       /\ WF_allVars((EntryDropped(s) \/ EntrySubmitted(s)) /\ OrderStep)
       /\ SF_allVars(OrderFilled(s) /\ OrderStep)
       /\ WF_allVars((EntrySettled(s) \/ ExitSettled(s)) /\ OrderStep)
       /\ SF_allVars(SweepFilled(s))
       /\ WF_allVars(SweepSettled(s))

SweepFairSpec == SweepSpec /\ SweepFairness

-----------------------------------------------------------------------------
(* Type invariant of the sweep. *)
SweepTypeOK ==
  /\ TypeOK
  /\ cause \in Causes
  /\ sweep \in [pc : {"idle", "alert", "submit", "persist", "done"},
                todo : SUBSET Sids, sid : SUBSET Sids,
                side : {"BUY", "SELL"}, qty : Nat]
  /\ contested \subseteq Sids
  /\ residual \subseteq Sids

Quiet == up /\ sweep.pc \in {"idle", "done"} /\ \A s \in Sids : pc[s] = "idle"

(* Overlapping orders and partial sweeps are the only ways in which a halt *)
(* parts the strategy from the portfolio: for every other security the two *)
(* agree whenever neither coroutine has an order for it (flatten_all's     *)
(* notify_flat, _handle_exit's resync).                                    *)
AgreesUnlessContested ==
  up => \A s \in Sids \ (contested \cup residual) :
          pc[s] = "idle" /\ ~Sweeping(s) => SameSign(view[s], qty[s])

(* The sweep reports at most what it sold: the engine and the broker agree *)
(* as far as BookAgrees says, even when a runner and the sweep close the   *)
(* same position twice (both fills go through apply_fill), and a crash     *)
(* that leaves the sweep's order with the broker is one that BookAgrees    *)
(* excepts.                                                                *)
BookAgreesInSweep ==
  Live /\ up /\ ~blind => \A s \in Sids \ doubted : qty[s] = book[s]

(* Strategy, portfolio and broker through a halt: they part only where a   *)
(* runner and the sweep traded one security at once, or where the sweep    *)
(* left a rest of it (flatten_all, _handle_exit).                          *)
SweepKeepsBooks == SweepTypeOK /\ AgreesUnlessContested /\ BookAgreesInSweep

(* A position that no runner was trading when the sweep took it up is      *)
(* never reversed by it: a sweep step turns a long into a short, or the    *)
(* other way round, only after a contest or a partial sweep.               *)
ReversedOnlyIfContested ==
  [][\A s \in Sids : up /\ up' /\ qty[s] * qty'[s] < 0 => s \in contested \cup residual]_allVars

(* "Flatten EVERY open position on a halt" (trader.py): when the sweep is  *)
(* done and nothing is in flight, a halted engine holds nothing.           *)
HaltLeavesFlat == Quiet /\ halted /\ sweep.pc = "done" => Open = {}

(* "EOD square-off is unconditional" (Architecture.md), halts included:    *)
(* once the square-off time has come every position is closed for good, in *)
(* runs in which no security was contested, nor written flat in the        *)
(* records of a sweep whose order filled only in part.                     *)
SquareOffSurvivesUncontestedHalt ==
  /\ <>[](up /\ phase = "squareoff")
  /\ [](contested = {} /\ residual = {})
  => <>[](Open = {})
=============================================================================
