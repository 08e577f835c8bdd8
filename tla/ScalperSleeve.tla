---------------------------- MODULE ScalperSleeve ----------------------------
(***************************************************************************)
(* The options-scalper sleeve (engine/scalper_orchestrator.py): one task   *)
(* that ticks - exits, square-off, governor, entries - and, in the risk    *)
(* task, the flatten of a halt, which goes through the same exit path and  *)
(* then sweeps the portfolio.  A task runs alone from one await to the     *)
(* next: an order is two awaits, the submission and apply_fill.  The       *)
(* sleeve trades PAPER only, where every order fills whole, and in simple  *)
(* mode, one lot and no adds (apps/trader.py).                             *)
(*                                                                         *)
(* A contract is an index and a strike.  apply_fill's own awaits, and what *)
(* fails inside them, are the subject of TradeJournal.                     *)
(***************************************************************************)
EXTENDS DailyGovernor, Sequences

CONSTANTS
  Order,       \* the underlyings, in the order they are scanned
  Strikes,     \* strikes per underlying
  Pnls,        \* what one exit may realize
  MaxShort,    \* bound: contracts short
  MaxFaults,   \* bound: halts and crashes together
  MaxDays      \* bound: trading days

ASSUME SleeveAssumption ==
  /\ Order \in Seq(Underlyings)
  /\ \A u \in Underlyings : \E i \in DOMAIN Order : Order[i] = u
  /\ IsFiniteSet(Underlyings) /\ IsFiniteSet(Strikes)
  /\ Pnls \subseteq Int
  /\ {MaxShort, MaxFaults, MaxDays} \subseteq Nat

VARIABLES
  up, day, phase,  \* the process runs; the date; the time of day
  session,         \* _session_date
  state,           \* the orchestrator's state
  legs,            \* _legs: the contracts it manages
  pos,             \* the portfolio's position in every contract
  engine,          \* the signal engine's book of every underlying
  cooling,         \* underlyings whose cooldown has not passed
  gov,             \* the governor
  task,            \* where the tick and the flatten of a halt stand
  halted,          \* the risk engine's halt
  booked, pnl,     \* the journal of the day: opening fills, realized P&L
  tangled,         \* history: both tasks had an order out at once, or an
                   \* exit closed part of a contract, or the sweep closed one
  blind,           \* history: a boot could not seed the governor
  strays,          \* history: positions a boot could not resolve
  faults           \* halts and crashes so far (bound)

vars == <<up, day, phase, session, state, legs, pos, engine, cooling, gov, task,
          halted, booked, pnl, tangled, blind, strays, faults>>

-----------------------------------------------------------------------------
Contracts == Underlyings \X Strikes
Under(c) == c[1]
LegsOf(u) == {c \in legs : Under(c) = u}

NoStrike == "none"
BlankEngine == [lots |-> 0, pending |-> FALSE, strike |-> NoStrike]

Tasks == {"tick", "halt"}
Idle == [pc |-> "idle", now |-> "early", rest |-> <<>>, todo |-> {},
         order |-> <<>>, qty |-> 0, gain |-> 0, back |-> "idle"]

(* Awaiting: a task between two of these steps is alone. *)
InFlight == {"sell", "sold", "buy", "bought", "reverse", "reversed"}
Flattening == {"squareoff", "residual", "flatten"}

At(t, where) == up /\ task[t].pc = where
Turn(t) == up /\ \A s \in Tasks \ {t} : task[s].pc \in InFlight \cup {"idle"}
AtRest == up /\ \A t \in Tasks : task[t].pc = "idle"

(* t submits an order while another task has one out. *)
Entangles(t) == \E s \in Tasks \ {t} : task[s].pc \in InFlight

Goes(t, where) == task' = [task EXCEPT ![t].pc = where]

Abs(n) == IF n < 0 THEN -n ELSE n
Smaller(a, b) == IF a < b THEN a ELSE b

Init ==
  /\ up = TRUE /\ day = 0 /\ phase = "early"
  /\ session = 0 /\ state = "PRE_OPEN" /\ legs = {}
  /\ pos = [c \in Contracts |-> 0]
  /\ engine = [u \in Underlyings |-> BlankEngine]
  /\ cooling = {}
  /\ gov = FreshGovernor
  /\ task = [t \in Tasks |-> Idle]
  /\ halted = FALSE
  /\ booked = 0 /\ pnl = 0
  /\ tangled = FALSE /\ blind = FALSE /\ strays = {} /\ faults = 0

clock == <<up, day, phase, faults>>
journal == <<booked, pnl>>
history == <<tangled, blind, strays>>

-----------------------------------------------------------------------------
(* The signal engine of u, polled: it exits what it holds, enters when it  *)
(* holds nothing, waits for no fill and it is not square-off time, or is   *)
(* silent.                                                                 *)
ExitSignals(u) == IF engine[u].lots > 0 THEN {"EXIT"} ELSE {}
EntrySignals(u) ==
  IF engine[u].lots = 0 /\ ~engine[u].pending /\ task["tick"].now # "late"
  THEN {"ENTER"} ELSE {}
Signals(u) == {"none"} \cup ExitSignals(u) \cup EntrySignals(u)

(* The contract the resolver's screener picks for an entry: any strike.    *)
Resolved(u) == {<<u, k>> : k \in Strikes}

Polled(u, signal) ==
  IF signal = "ENTER"
    THEN \E k \in Strikes :
           engine' = [engine EXCEPT ![u] = [lots |-> 0, pending |-> TRUE, strike |-> k]]
    ELSE engine' = engine

(* notify_fill SELL *)
EngineSold(u, n) ==
  LET left == Larger(0, engine[u].lots - n)
  IN [engine EXCEPT ![u] = IF left = 0 THEN BlankEngine
                           ELSE [@ EXCEPT !.lots = left, !.pending = FALSE]]

-----------------------------------------------------------------------------
(* tick: on a new date everything is reset first (the engine resets itself *)
(* when it is next polled, and nothing reads it before).                   *)
StartTick ==
  /\ At("tick", "idle") /\ Turn("tick")
  /\ task' = [task EXCEPT !["tick"] =
       [Idle EXCEPT !.pc = "exits", !.now = phase, !.rest = Order]]
  /\ session' = day
  /\ IF session = day
       THEN UNCHANGED <<state, legs, cooling, gov, engine>>
       ELSE /\ state' = "PRE_OPEN" /\ legs' = {} /\ cooling' = {}
            /\ gov' = FreshGovernor
            /\ engine' = [u \in Underlyings |-> BlankEngine]
  /\ UNCHANGED <<clock, pos, halted, journal, history>>

(* _manage_exits: every underlying with legs is polled; an exit names the  *)
(* strike the engine chose.                                                *)
PollExits ==
  /\ At("tick", "exits") /\ Turn("tick")
  /\ task["tick"].todo = {} /\ task["tick"].rest # <<>>
  /\ LET u == Head(task["tick"].rest) IN
     \E signal \in IF LegsOf(u) = {} THEN {"none"} ELSE Signals(u) :
       /\ Polled(u, signal)
       /\ task' = [task EXCEPT !["tick"].rest = Tail(@), !["tick"].todo =
            IF signal = "EXIT" THEN {c \in LegsOf(u) : c[2] = engine[u].strike} ELSE {}]
  /\ UNCHANGED <<clock, session, state, legs, pos, cooling, gov, halted, journal, history>>

(* _flatten_all: every leg of every underlying, its legs read when its     *)
(* turn comes.                                                             *)
PickLegs(t) ==
  /\ up /\ task[t].pc \in Flattening /\ Turn(t)
  /\ task[t].todo = {} /\ task[t].rest # <<>>
  /\ task' = [task EXCEPT ![t].todo = LegsOf(Head(task[t].rest)), ![t].rest = Tail(@)]
  /\ UNCHANGED <<clock, session, state, legs, pos, engine, cooling, gov, halted, journal, history>>

(* _submit_exit, as far as submitting: always a SELL.  A leg with nothing  *)
(* on the book is dropped.  check_intent passes what reduces a position;   *)
(* a SELL of a short one is to it an entry (bounded by MaxShort here).     *)
ExitQty(t, c) ==
  IF task[t].pc = "exits" THEN Smaller(Abs(pos[c]), engine[Under(c)].lots)
  ELSE Abs(pos[c])

(* What check_intent may answer to the SELL of a contract on the book.     *)
GateHalted(c) == IF halted \/ -pos[c] >= MaxShort THEN {FALSE} ELSE {TRUE}
Gate(c) ==
  IF pos[c] > 0 THEN {TRUE}
  ELSE IF halted \/ -pos[c] >= MaxShort THEN {FALSE} ELSE BOOLEAN

SubmitExit(t) ==
  /\ up /\ task[t].pc \in {"exits"} \cup Flattening /\ Turn(t)
  /\ \E c \in task[t].todo :
       LET skipped == [task EXCEPT ![t].todo = @ \ {c}]
       IN \/ /\ c \notin legs \/ pos[c] = 0 \/ FALSE \in Gate(c)
             /\ legs' = IF pos[c] = 0 THEN legs \ {c} ELSE legs
             /\ task' = skipped
             /\ UNCHANGED tangled
          \/ /\ c \in legs /\ pos[c] # 0 /\ TRUE \in Gate(c)
             /\ task' = [skipped EXCEPT ![t].pc = "sell", ![t].order = c,
                           ![t].qty = ExitQty(t, c), ![t].back = task[t].pc]
             /\ tangled' = (tangled \/ Entangles(t))
             /\ UNCHANGED legs
  /\ UNCHANGED <<clock, session, state, pos, engine, cooling, gov, halted, journal, blind, strays>>

(* The fill, and apply_fill: of contract c, n units bought or (n < 0) sold. *)
Applied(t, c, n, g) ==
  /\ pos' = [pos EXCEPT ![c] = @ + n]
  /\ g \in IF pos[c] # 0 /\ (pos[c] > 0 <=> n < 0) THEN Pnls ELSE {0}
  /\ pnl' = pnl + g
  /\ booked' = IF pos[c] = 0 \/ (pos[c] > 0 <=> n > 0) \/ Abs(n) > Abs(pos[c])
               THEN booked + 1 ELSE booked

FillExit(t) ==
  /\ At(t, "sell") /\ Turn(t)
  /\ \E g \in Pnls \cup {0} :
       /\ Applied(t, task[t].order, -task[t].qty, g)
       /\ task' = [task EXCEPT ![t].pc = "sold", ![t].gain = g]
  /\ UNCHANGED <<clock, session, state, legs, engine, cooling, gov, halted, history>>

(* ... and the rest of _submit_exit, once apply_fill has returned. *)
Retires(c) == pos[c] = 0

Retired(c, gain) == RecordTradeClose(RecordClose(gov, Under(c)), gain)

SettleExit(t) ==
  /\ At(t, "sold") /\ Turn(t)
  /\ LET c == task[t].order IN
       /\ engine' = EngineSold(Under(c), Larger(1, task[t].qty))
       /\ IF Retires(c)
            THEN /\ legs' = legs \ {c}
                 /\ gov' = Retired(c, task[t].gain)
                 /\ cooling' = cooling \cup {Under(c)}
                 /\ UNCHANGED tangled
            ELSE /\ tangled' = TRUE
                 /\ UNCHANGED <<legs, gov, cooling>>
  /\ task' = [task EXCEPT ![t].pc = task[t].back, ![t].back = "idle",
                          ![t].order = <<>>, ![t].qty = 0, ![t].gain = 0]
  /\ UNCHANGED <<clock, session, state, pos, halted, journal, blind, strays>>

-----------------------------------------------------------------------------
(* _update_state; ARMED goes on to scan for entries. *)
Derived(g) ==
  IF state \in {"FLATTEN_ALL", "DONE"} THEN state
  ELSE IF task["tick"].now = "early" THEN "PRE_OPEN"
  ELSE IF g.state \in {"STOOD_DOWN", "TRAIL_ONLY"} THEN "MANAGING"
  ELSE "ARMED"

Onwards(g) ==
  /\ state' = Derived(g)
  /\ task' = [task EXCEPT !["tick"] =
       IF Derived(g) = "ARMED" THEN [Idle EXCEPT !.pc = "scan", !.rest = Order] ELSE Idle]

(* After the exits: the square-off is above everything; then the governor, *)
(* and the flatten it may ask for.                                         *)
ExitsDone ==
  /\ At("tick", "exits") /\ Turn("tick")
  /\ task["tick"].todo = {} /\ task["tick"].rest = <<>>
  /\ LET g == Recompute(gov) IN
     IF task["tick"].now = "late"
       THEN /\ task' = [task EXCEPT !["tick"].pc = "squareoff", !["tick"].rest = Order]
            /\ UNCHANGED <<state, gov>>
       ELSE /\ gov' = ConsumeRequest(g)
            /\ IF g.request
                 THEN /\ task' = [task EXCEPT !["tick"].pc = "residual",
                                              !["tick"].rest = Order]
                      /\ UNCHANGED state
                 ELSE Onwards(g)
  /\ UNCHANGED <<clock, session, legs, pos, engine, cooling, halted, journal, history>>

ResidualDone ==
  /\ At("tick", "residual") /\ Turn("tick")
  /\ task["tick"].todo = {} /\ task["tick"].rest = <<>>
  /\ Onwards(gov)
  /\ UNCHANGED <<clock, session, legs, pos, engine, cooling, gov, halted, journal, history>>

(* After the square-off, and after flatten_open: DONE unless a leg is left. *)
(* Having flattened its orchestrator, a halt sweeps the portfolio.         *)
Flattened == state' = IF legs = {} THEN "DONE" ELSE "FLATTEN_ALL"

SquareOffDone ==
  /\ At("tick", "squareoff") /\ Turn("tick")
  /\ task["tick"].todo = {} /\ task["tick"].rest = <<>>
  /\ Flattened
  /\ task' = [task EXCEPT !["tick"] = Idle]
  /\ UNCHANGED <<clock, session, legs, pos, engine, cooling, gov, halted, journal, history>>

FlattenOpenDone ==
  /\ At("halt", "flatten") /\ Turn("halt")
  /\ task["halt"].todo = {} /\ task["halt"].rest = <<>>
  /\ Flattened
  /\ task' = [task EXCEPT !["halt"].pc = "sweep",
                          !["halt"].todo = {c \in Contracts : pos[c] # 0}]
  /\ UNCHANGED <<clock, session, legs, pos, engine, cooling, gov, halted, journal, history>>

-----------------------------------------------------------------------------
(* _scan_entry: cooldown and governor before the engine is polled; an EXIT *)
(* it answers here is ignored, an ENTER may come to nothing (no contract,  *)
(* refused by the risk gate, no fill) and the engine is not told.          *)
MayEnter(u) == u \notin cooling /\ AllowsOpen(gov, u)

ScanEntry ==
  /\ At("tick", "scan") /\ Turn("tick") /\ task["tick"].rest # <<>>
  /\ LET u    == Head(task["tick"].rest)
         next == [task EXCEPT !["tick"].rest = Tail(@)]
     IN \/ /\ ~MayEnter(u)
           /\ task' = next
           /\ UNCHANGED <<engine, tangled>>
        \/ /\ MayEnter(u)
           /\ \E signal \in Signals(u) : Polled(u, signal)
           /\ task' = next
           /\ UNCHANGED tangled
        \/ /\ MayEnter(u)
           /\ "ENTER" \in Signals(u) /\ Polled(u, "ENTER")
           /\ \E c \in Resolved(u) :
                /\ ~halted \/ pos[c] < 0
                /\ task' = [next EXCEPT !["tick"].pc = "buy", !["tick"].order = c]
           /\ tangled' = (tangled \/ Entangles("tick"))
  /\ UNCHANGED <<clock, session, state, legs, pos, cooling, gov, halted, journal, blind, strays>>

ScanDone ==
  /\ At("tick", "scan") /\ Turn("tick") /\ task["tick"].rest = <<>>
  /\ task' = [task EXCEPT !["tick"] = Idle]
  /\ UNCHANGED <<clock, session, state, legs, pos, engine, cooling, gov, halted, journal, history>>

FillEntry ==
  /\ At("tick", "buy") /\ Turn("tick")
  /\ \E g \in Pnls \cup {0} : Applied("tick", task["tick"].order, 1, g)
  /\ Goes("tick", "bought")
  /\ UNCHANGED <<clock, session, state, legs, engine, cooling, gov, halted, history>>

SettleEntry ==
  /\ At("tick", "bought") /\ Turn("tick")
  /\ LET c == task["tick"].order
         u == Under(c)
     IN /\ engine' = [engine EXCEPT ![u].lots = @ + 1, ![u].pending = FALSE]
        /\ legs' = legs \cup {c}
        /\ gov' = RecordTradeOpen(RecordOpen(gov, u), u)
  /\ task' = [task EXCEPT !["tick"].pc = "scan", !["tick"].order = <<>>]
  /\ UNCHANGED <<clock, session, state, pos, cooling, halted, journal, history>>

-----------------------------------------------------------------------------
(* A halt: the risk task calls flatten_open, then sweeps what is left.     *)
Halt ==
  /\ At("halt", "idle") /\ Turn("halt") /\ ~halted /\ faults < MaxFaults
  /\ halted' = TRUE /\ faults' = faults + 1
  /\ task' = [task EXCEPT !["halt"] = [Idle EXCEPT !.pc = "flatten", !.rest = Order]]
  /\ UNCHANGED <<up, day, phase, session, state, legs, pos, engine, cooling, gov, journal, history>>

SweepNext ==
  /\ At("halt", "sweep") /\ Turn("halt")
  /\ \E c \in task["halt"].todo :
       LET next == [task EXCEPT !["halt"].todo = @ \ {c}]
       IN IF pos[c] = 0
            THEN task' = next /\ UNCHANGED tangled
            ELSE /\ task' = [next EXCEPT !["halt"].pc = "reverse",
                               !["halt"].order = c, !["halt"].qty = pos[c]]
                 /\ tangled' = TRUE
  /\ UNCHANGED <<clock, session, state, legs, pos, engine, cooling, gov, halted, journal, blind, strays>>

FillReverse ==
  /\ At("halt", "reverse") /\ Turn("halt")
  /\ \E g \in Pnls \cup {0} : Applied("halt", task["halt"].order, -task["halt"].qty, g)
  /\ Goes("halt", "reversed")
  /\ UNCHANGED <<clock, session, state, legs, engine, cooling, gov, halted, history>>

SettleReverse ==
  /\ At("halt", "reversed") /\ Turn("halt")
  /\ task' = [task EXCEPT !["halt"].pc = "sweep", !["halt"].order = <<>>, !["halt"].qty = 0]
  /\ UNCHANGED <<clock, session, state, legs, pos, engine, cooling, gov, halted, journal, history>>

SweepDone ==
  /\ At("halt", "sweep") /\ Turn("halt") /\ task["halt"].todo = {}
  /\ task' = [task EXCEPT !["halt"] = Idle]
  /\ UNCHANGED <<clock, session, state, legs, pos, engine, cooling, gov, halted, journal, history>>

Resume ==
  /\ At("halt", "idle") /\ Turn("halt") /\ halted
  /\ halted' = FALSE
  /\ UNCHANGED <<clock, session, state, legs, pos, engine, cooling, gov, task,
                 journal, history>>

-----------------------------------------------------------------------------
CoolOff ==
  /\ \E u \in cooling : cooling' = cooling \ {u}
  /\ UNCHANGED <<clock, session, state, legs, pos, engine, gov, task, halted, journal, history>>

TimePasses ==
  /\ \/ phase = "early" /\ phase' = "trading"
     \/ phase = "trading" /\ phase' = "late"
  /\ UNCHANGED <<up, day, faults, session, state, legs, pos, engine, cooling, gov, task,
                 halted, journal, history>>

(* The night is long: the ticks of the square-off are over. *)
NextDay ==
  /\ AtRest /\ phase = "late" /\ state = "DONE" /\ legs = {} /\ day < MaxDays
  /\ day' = day + 1 /\ phase' = "early"
  /\ booked' = 0 /\ pnl' = 0
  /\ UNCHANGED <<up, faults, session, state, legs, pos, engine, cooling, gov, task,
                 halted, history>>

Crash ==
  /\ up /\ faults < MaxFaults
  /\ up' = FALSE /\ faults' = faults + 1
  /\ state' = "PRE_OPEN" /\ legs' = {} /\ cooling' = {}
  /\ engine' = [u \in Underlyings |-> BlankEngine]
  /\ gov' = FreshGovernor
  /\ task' = [t \in Tasks |-> Idle]
  /\ halted' = FALSE
  /\ UNCHANGED <<day, phase, session, pos, journal, history>>

(* boot: of the restored positions those the resolver still picks, at most *)
(* one of an underlying, become legs; the governor is seeded from the      *)
(* journal, all of it to the first underlying, unless the query fails.     *)
Reconciled(held) ==
  [FreshGovernor EXCEPT !.open = Cardinality(held),
     !.openOf = [u \in Underlyings |-> Cardinality({c \in held : Under(c) = u})]]

Boot ==
  /\ ~up /\ up' = TRUE
  /\ session' = day
  /\ LET restored == {c \in Contracts : pos[c] # 0} IN
     \E held \in SUBSET restored :
       /\ \A c, d \in held : Under(c) = Under(d) => c = d
       /\ legs' = held
       /\ strays' = strays \cup (restored \ held)
       /\ state' = IF held = {} THEN "PRE_OPEN" ELSE "MANAGING"
       /\ \/ /\ gov' = SeedTrades(Reconciled(held), Head(Order), booked, pnl)
             /\ UNCHANGED blind
          \/ gov' = Reconciled(held) /\ blind' = TRUE
  /\ UNCHANGED <<day, phase, faults, pos, engine, cooling, task, halted, journal, tangled>>

-----------------------------------------------------------------------------
TickStep ==
  \/ StartTick \/ PollExits \/ SubmitExit("tick") \/ FillExit("tick")
  \/ SettleExit("tick") \/ PickLegs("tick") \/ ExitsDone \/ ResidualDone
  \/ SquareOffDone \/ ScanEntry \/ ScanDone \/ FillEntry \/ SettleEntry

HaltStep ==
  \/ PickLegs("halt") \/ SubmitExit("halt") \/ FillExit("halt")
  \/ SettleExit("halt") \/ FlattenOpenDone \/ SweepNext \/ FillReverse
  \/ SettleReverse \/ SweepDone

Next ==
  \/ TickStep \/ HaltStep \/ Halt \/ Resume
  \/ CoolOff \/ TimePasses \/ NextDay \/ Crash \/ Boot

Spec == Init /\ [][Next]_vars

(* The event loop resumes every task, the service manager restarts the     *)
(* process.                                                                *)
FairSpec == Spec /\ WF_vars(TickStep) /\ WF_vars(HaltStep) /\ WF_vars(Boot)

-----------------------------------------------------------------------------
TaskRecords ==
  [pc : {"idle", "exits", "scan", "sweep"} \cup Flattening \cup InFlight,
   now : {"early", "trading", "late"}, rest : Seq(Underlyings), todo : SUBSET Contracts,
   order : Contracts \cup {<<>>}, qty : Int, gain : Int,
   back : {"idle", "exits"} \cup Flattening]

(* Type invariant of the sleeve: a task names a contract exactly while it  *)
(* has an order out.                                                       *)
TypeOK ==
  /\ up \in BOOLEAN /\ day \in 0..MaxDays /\ phase \in {"early", "trading", "late"}
  /\ session \in 0..day
  /\ state \in {"PRE_OPEN", "ARMED", "MANAGING", "FLATTEN_ALL", "DONE"}
  /\ legs \subseteq Contracts /\ strays \subseteq Contracts
  /\ pos \in [Contracts -> Int]
  /\ engine \in [Underlyings -> [lots : Nat, pending : BOOLEAN,
                                 strike : Strikes \cup {NoStrike}]]
  /\ cooling \subseteq Underlyings
  /\ gov \in Governor
  /\ task \in [Tasks -> TaskRecords]
  /\ \A t \in Tasks : task[t].order \in Contracts <=> task[t].pc \in InFlight
  /\ halted \in BOOLEAN
  /\ booked \in Nat /\ pnl \in Int
  /\ tangled \in BOOLEAN /\ blind \in BOOLEAN /\ faults \in 0..MaxFaults

(* "So a mid-session restart does NOT reset the day's caps" (boot): the    *)
(* day's opening fills stay within max_trades_per_day across restarts.     *)
TradesWithinCap == booked <= MaxTrades \/ blind \/ tangled

(* No entry is submitted on a day whose realized P&L, as the journal has   *)
(* it, has reached the loss cap - before a restart or after.               *)
LossCapHolds ==
  [][(task["tick"].pc = "scan" /\ task'["tick"].pc = "buy")
       => (pnl > -MaxLoss \/ blind \/ tangled)]_vars

(* The concurrency meter never counts fewer contracts of an underlying     *)
(* than the orchestrator manages, so a cap is never exceeded silently:     *)
(* unless the flatten of a halt crossed an order of the tick.              *)
MeterCoversLegs ==
  ~tangled => \A u \in Underlyings : gov.openOf[u] >= Cardinality(LegsOf(u))

(* Every position is a leg, so that exits, square-off and halt find it:    *)
(* unless it is being opened, tangled, or a boot could not resolve it.     *)
NoOrphan ==
  up /\ ~tangled =>
    \A c \in Contracts :
      pos[c] # 0 => c \in legs \/ c \in strays \/ task["tick"].order = c

(* Once the governor has stood down and its request was served, nothing it *)
(* managed is left open.                                                   *)
StandDownFlattens ==
  AtRest /\ gov.state = "STOOD_DOWN" /\ ~gov.request /\ ~tangled => legs = {}

(* Governor, legs and positions: nothing is open that the meter does not   *)
(* count, the orchestrator does not manage, or a stood-down day still      *)
(* holds.                                                                  *)
LegsAccounted == MeterCoversLegs /\ NoOrphan /\ StandDownFlattens

(* Within a session the governor only tightens: stood down stays stood     *)
(* down, and the defended floor never falls.                               *)
GovernorLatches ==
  [][up /\ up' /\ session' = session =>
       /\ gov.state = "STOOD_DOWN" => gov'.state = "STOOD_DOWN"
       /\ DefendedFloor(gov') >= DefendedFloor(gov)]_vars

(* From the square-off time on, every leg is eventually closed, halted or  *)
(* not, whatever crashes in between.                                       *)
SquareOffFlattens == phase = "late" ~> (legs = {} \/ tangled \/ phase # "late")
=============================================================================
