------------------------------ MODULE OrderFlow ------------------------------
(***************************************************************************)
(* The order path of the dhan-trader process: one StrategyRunner per       *)
(* security (engine/runner.py) drives its ORB strategy, the shared risk    *)
(* gate, the executor and the shared Portfolio.  A runner is a coroutine:  *)
(* an action below is the code between two awaits, so runners interleave   *)
(* exactly at the awaits of the source.                                    *)
(*                                                                         *)
(* Prices are abstracted to what they decide (a breakout, a stop or target *)
(* being reached, a poll with no signal); a quantity is a small natural.   *)
(* `phase' is the exchange clock, moved by the environment.                *)
(***************************************************************************)
EXTENDS Integers, FiniteSets

CONSTANTS
  Sids,        \* the securities, one runner each
  Sides,       \* the sides on which this instance's market may break out
  MaxOpen,     \* RiskParams.max_open_positions
  MaxEntries,  \* max_entries_per_session of every runner
  MaxQty,      \* the largest quantity size_position returns
  MaxDays,     \* bound: trading days in a run
  MaxFaults,   \* bound: crashes and failed database or broker accesses in a run
  Live         \* TRUE for the LIVE executor, FALSE for the PAPER one

ASSUME OrderFlowAssumption ==
  /\ IsFiniteSet(Sids)
  /\ Sides \subseteq {"BUY", "SELL"}
  /\ MaxOpen \in Nat
  /\ MaxEntries \in Nat
  /\ MaxQty \in Nat \ {0}
  /\ MaxDays \in Nat \ {0}
  /\ MaxFaults \in Nat
  /\ Live \in BOOLEAN

VARIABLES
  up,          \* the trader process is running
  phase,       \* where the exchange clock stands
  halted,      \* RiskState.halted or RiskState.kill_switch
  qty,         \* Portfolio.positions[s].qty
  view,        \* ORB.position: the strategy's belief
  slots,       \* keys of RiskEngine._open_risk
  session,     \* per-session state of the runner and its ORB
  pc,          \* the await at which the runner's coroutine is parked
  order,       \* the intent (then the fill) that coroutine holds
  row,         \* engine_positions.qty in the database
  rowToday,    \* engine_positions.session_date is today
  book,        \* the broker's net quantity (equal to the fills in PAPER)
  afloat,      \* what LIVE orders that nobody follows any more may still trade
  day,         \* trading days so far (bound only)
  faults,      \* faults so far (bound only)
  entered,     \* history: sides on which an entry was submitted today
  untold,      \* history: those of them that the bars did not show at the last boot
  unsaved,     \* history: securities whose last position write failed
  blind,       \* history: the last LIVE boot could not read the broker
  doubted      \* history: securities whose last LIVE answer may be untrue

memory == <<qty, view, slots, session>>
coroutine == <<pc, order>>
database == <<row, rowToday>>
exchange == <<book, afloat>>
market == <<phase, day>>
history == <<entered, untold, unsaved, blind, doubted>>
vars == <<up, market, halted, memory, coroutine, database, exchange, history, faults>>

-----------------------------------------------------------------------------
BothWays == {"BUY", "SELL"}
Phases == {"range", "trade", "squareoff", "closed"}
Ranges == {"stale", "none", "building", "locked"}
NoOrder == [kind |-> "none", side |-> "BUY", qty |-> 0]

Opposite(side) == IF side = "BUY" THEN "SELL" ELSE "BUY"
Signed(side, n) == IF side = "BUY" THEN n ELSE -n
Abs(n) == IF n < 0 THEN -n ELSE n

Open == {s \in Sids : qty[s] # 0}

(* The side and the quantity of an order that closes the position. *)
ExitSide(s) == IF qty[s] > 0 THEN "SELL" ELSE "BUY"
ExitQtyOfView(s) == Abs(view[s])
ExitQtyFixed(s) == MaxQty
ExitQty(s) == Abs(qty[s])

(* The session state a poll sees: both dates are compared with today first. *)
NewSession == [range |-> "none", tried |-> {}, entries |-> 0]
Session(s) == IF session[s].range = "stale" THEN NewSession ELSE session[s]

(* A range that was being built is locked by the first tick after its window. *)
Ticked(s) ==
  IF Session(s).range = "building" /\ phase # "range"
  THEN [Session(s) EXCEPT !.range = "locked"]
  ELSE Session(s)

(* check_intent: an intent that reduces the live position always passes. *)
IsExit(s, side) == \/ qty[s] > 0 /\ side = "SELL"
                   \/ qty[s] < 0 /\ side = "BUY"
AdmittedUnlessHalted(s, side) ==
  ~halted /\ (IsExit(s, side) \/ Cardinality(Open) < MaxOpen)
AdmittedBySlots(s, side) ==
  \/ IsExit(s, side)
  \/ ~halted /\ Cardinality(slots) < MaxOpen
Admitted(s, side) ==
  \/ IsExit(s, side)
  \/ ~halted /\ Cardinality(Open) < MaxOpen

(* size_position: the price, the stop and the liquidity give any quantity; *)
(* one of 0 drops the entry.                                               *)
SizedQty == 1..MaxQty

-----------------------------------------------------------------------------
Init ==
  /\ up = TRUE
  /\ phase = "range"
  /\ halted = FALSE
  /\ qty = [s \in Sids |-> 0]
  /\ view = [s \in Sids |-> 0]
  /\ slots = {}
  /\ session = [s \in Sids |-> NewSession]
  /\ pc = [s \in Sids |-> "idle"]
  /\ order = [s \in Sids |-> NoOrder]
  /\ row = [s \in Sids |-> 0]
  /\ rowToday = [s \in Sids |-> FALSE]
  /\ book = [s \in Sids |-> 0]
  /\ afloat = [s \in Sids |-> [side \in BothWays |-> 0]]
  /\ entered = [s \in Sids |-> {}]
  /\ untold = [s \in Sids |-> {}]
  /\ unsaved = {}
  /\ blind = FALSE
  /\ doubted = {}
  /\ day = 1
  /\ faults = 0

-----------------------------------------------------------------------------
(* What several handlers do. *)

(* ORB.notify_fill, and ORB.notify_flat. *)
NotifyFill(s, side, n) == view' = [view EXCEPT ![s] = @ + Signed(side, n)]
NotifyNothing(s) == UNCHANGED view
NotifyFlat(s) == view' = [view EXCEPT ![s] = 0]

(* The quantity of a fill that apply_fill books: the executor reports what *)
(* was filled, not what was ordered.                                       *)
Booked(filled, ordered) == filled

(* submit returns a Fill of n, which apply_fill books up to its first      *)
(* await.  A confirmed LIVE order may be filled in part.  An unconfirmed   *)
(* one is assumed filled as ordered: it stays afloat.                      *)
Confirmed(s, side, ordered, n) ==
  /\ ~Live => n = ordered
  /\ qty' = [qty EXCEPT ![s] = @ + Signed(side, Booked(n, ordered))]
  /\ book' = [book EXCEPT ![s] = @ + Signed(side, n)]
  /\ UNCHANGED <<afloat, doubted, faults>>

(* Nobody follows this order any more; what becomes of it is AtBroker's.   *)
Doubt(s, side, ordered) ==
  /\ Live /\ faults < MaxFaults
  /\ faults' = faults + 1
  /\ doubted' = doubted \cup {s}
  /\ afloat' = [afloat EXCEPT ![s][side] = @ + ordered]
  /\ UNCHANGED book

FillOrder(s, side, ordered, n) ==
  /\ n \in 1..ordered
  /\ \/ Confirmed(s, side, ordered, n)
     \/ /\ n = ordered
        /\ Doubt(s, side, ordered)
        /\ qty' = [qty EXCEPT ![s] = @ + Signed(side, n)]

(* submit returns None: the order was refused or cancelled whole, or it    *)
(* was cancelled after a part, or placed and the answer was lost together  *)
(* with the query that should have recovered it.                           *)
NoFill(s, side, ordered) ==
  /\ Live
  /\ UNCHANGED qty
  /\ UNCHANGED <<exchange, doubted, faults>> \/ Doubt(s, side, ordered)

(* _persist writes the row (a failure is logged and swallowed). *)
PersistRowUnlessFlat(s) ==
  /\ row' = [row EXCEPT ![s] = IF qty[s] = 0 THEN @ ELSE qty[s]]
  /\ rowToday' = [rowToday EXCEPT ![s] = TRUE]
  /\ unsaved' = unsaved \ {s}
  /\ UNCHANGED faults
PersistRow(s) ==
  \/ /\ row' = [row EXCEPT ![s] = qty[s]]
     /\ rowToday' = [rowToday EXCEPT ![s] = TRUE]
     /\ unsaved' = unsaved \ {s}
     /\ UNCHANGED faults
  \/ /\ faults < MaxFaults
     /\ faults' = faults + 1
     /\ unsaved' = unsaved \cup {s}
     /\ UNCHANGED database

-----------------------------------------------------------------------------
(* One poll: _poll_once, from the price to the first await after on_tick.  *)

Polls(s) == up /\ pc[s] = "idle" /\ phase # "closed"

(* on_tick inside the opening-range window. *)
BuildRange(s) ==
  /\ Polls(s)
  /\ phase = "range"
  /\ session' = [session EXCEPT ![s] = [Session(s) EXCEPT !.range = "building"]]
  /\ UNCHANGED <<up, market, halted, qty, view, slots, coroutine, database, exchange, history, faults>>

(* on_tick returns None, or there is no price and nothing is held: a held  *)
(* position is always evaluated, on its last or average price if need be.  *)
QuietPoll(s) ==
  /\ Polls(s)
  /\ phase # "range"
  /\ phase = "squareoff" /\ view[s] # 0 => qty[s] = 0
  /\ session' = [session EXCEPT ![s] = Ticked(s)]
  /\ UNCHANGED <<up, market, halted, qty, view, slots, coroutine, database, exchange, history, faults>>

(* on_tick returns ENTER: the side is consumed before the order exists. *)
DecideEntry(s) ==
  /\ Polls(s)
  /\ phase = "trade"
  /\ Ticked(s).range = "locked"
  /\ view[s] = 0
  /\ \E side \in Sides \ Ticked(s).tried :
       /\ session' = [session EXCEPT ![s] = [Ticked(s) EXCEPT !.tried = @ \cup {side}]]
       /\ IF Session(s).entries >= MaxEntries
          THEN UNCHANGED coroutine
          ELSE /\ pc' = [pc EXCEPT ![s] = "gate"]
               /\ order' = [order EXCEPT ![s] = [kind |-> "entry", side |-> side, qty |-> 0]]
  /\ UNCHANGED <<up, market, halted, qty, view, slots, database, exchange, history, faults>>

(* on_tick returns EXIT: target or stop while trading, or the square-off.  *)
(* The quantity is the one held now.  Were the exit blocked by the risk    *)
(* gate, the runner would stay idle and retry.                             *)
DecideExit(s) ==
  /\ Polls(s)
  /\ view[s] # 0
  /\ phase = "squareoff" \/ (phase = "trade" /\ Ticked(s).range = "locked")
  /\ session' = [session EXCEPT ![s] = Ticked(s)]
  /\ IF qty[s] = 0
     THEN NotifyFlat(s) /\ UNCHANGED coroutine
     ELSE /\ Admitted(s, ExitSide(s))
          /\ pc' = [pc EXCEPT ![s] = "submit"]
          /\ order' = [order EXCEPT ![s] =
               [kind |-> "exit", side |-> ExitSide(s), qty |-> ExitQty(s)]]
          /\ UNCHANGED view
  /\ UNCHANGED <<up, market, halted, qty, slots, database, exchange, history, faults>>

-----------------------------------------------------------------------------
(* The rest of _handle_entry and _handle_exit. *)

Finish(s) == /\ pc' = [pc EXCEPT ![s] = "idle"]
             /\ order' = [order EXCEPT ![s] = NoOrder]

(* Vetoed by the Kronos gate, sized to 0, or blocked by the risk gate. *)
EntryDropped(s) ==
  /\ up /\ pc[s] = "gate"
  /\ Finish(s)
  /\ UNCHANGED <<up, market, halted, memory, database, exchange, history, faults>>

EntrySubmitted(s) ==
  /\ up /\ pc[s] = "gate"
  /\ Admitted(s, order[s].side)
  /\ \E n \in SizedQty : order' = [order EXCEPT ![s].qty = n]
  /\ pc' = [pc EXCEPT ![s] = "submit"]
  /\ entered' = [entered EXCEPT ![s] = @ \cup {order[s].side}]
  /\ untold' = [untold EXCEPT ![s] = @ \ {order[s].side}]
  /\ UNCHANGED <<up, market, halted, memory, database, exchange, unsaved, blind, doubted, faults>>

(* submit returns None.  The PAPER executor fills every sane order. *)
OrderFailed(s) ==
  /\ up /\ pc[s] = "submit"
  /\ NoFill(s, order[s].side, order[s].qty)
  /\ IF order[s].kind = "exit" /\ qty[s] = 0
     THEN NotifyFlat(s) /\ slots' = slots \ {s}
     ELSE UNCHANGED <<slots, view>>
  /\ Finish(s)
  /\ UNCHANGED <<up, market, halted, session, database, entered, untold, unsaved, blind>>

(* submit returns a Fill. *)
OrderFilled(s) ==
  /\ up /\ pc[s] = "submit"
  /\ \E n \in 1..order[s].qty :
       /\ FillOrder(s, order[s].side, order[s].qty, n)
       /\ order' = [order EXCEPT ![s].qty = n]
  /\ pc' = [pc EXCEPT ![s] = "persist"]
  /\ UNCHANGED <<up, market, halted, view, slots, session, database, entered, untold, unsaved, blind>>

(* apply_fill returns; the runner tells the strategy and the risk engine. *)
EntrySettled(s) ==
  /\ up /\ pc[s] = "persist" /\ order[s].kind = "entry"
  /\ PersistRow(s)
  /\ NotifyFill(s, order[s].side, order[s].qty)
  /\ slots' = slots \cup {s}
  /\ session' = [session EXCEPT ![s].entries = @ + 1]
  /\ Finish(s)
  /\ UNCHANGED <<up, market, halted, qty, exchange, entered, untold, blind, doubted>>

(* A residual keeps its slot and the strategy's view: the exit is retried. *)
ExitCompleteAnyway(s) == TRUE
ExitComplete(s) == qty[s] = 0
ExitSettled(s) ==
  /\ up /\ pc[s] = "persist" /\ order[s].kind = "exit"
  /\ PersistRow(s)
  /\ IF ExitComplete(s)
     THEN NotifyFlat(s) /\ slots' = slots \ {s}
     ELSE UNCHANGED <<view, slots>>
  /\ Finish(s)
  /\ UNCHANGED <<up, market, halted, qty, session, exchange, entered, untold, blind, doubted>>

Runner(s) ==
  \/ BuildRange(s) \/ QuietPoll(s) \/ DecideEntry(s) \/ DecideExit(s)
  \/ EntryDropped(s) \/ EntrySubmitted(s)
  \/ OrderFailed(s) \/ OrderFilled(s) \/ EntrySettled(s) \/ ExitSettled(s)

-----------------------------------------------------------------------------
(* The process dies and its memory is lost; only qty and pc keep their     *)
(* last values, unread until Boot overwrites them, for the properties that *)
(* compare the two lives.                                                  *)
ProcessDies ==
  /\ up /\ faults < MaxFaults
  /\ up' = FALSE
  /\ faults' = faults + 1
  /\ view' = [s \in Sids |-> 0]
  /\ slots' = {}
  /\ session' = [s \in Sids |-> NewSession]
  /\ order' = [s \in Sids |-> NoOrder]
  /\ UNCHANGED <<market, halted, qty, pc, database, book, history>>

(* A LIVE order under way stays with the broker, or never reaches it. *)
UnderWay(s, side) ==
  IF Live /\ pc[s] = "submit" /\ order[s].side = side THEN order[s].qty ELSE 0

Crash ==
  /\ ProcessDies
  /\ afloat' = [s \in Sids |-> [side \in BothWays |-> afloat[s][side] + UnderWay(s, side)]]

(* The broker trades what is left of an order that nobody follows, or the  *)
(* order ends without it: before a crash, after it, or after the boot that *)
(* has read the book.                                                      *)
AtBroker(s) ==
  \E side \in BothWays : \E n \in 1..afloat[s][side], traded \in BOOLEAN :
    /\ afloat' = [afloat EXCEPT ![s][side] = @ - n]
    /\ book' = [book EXCEPT ![s] = IF traded THEN @ + Signed(side, n) ELSE @]
    /\ UNCHANGED <<up, market, halted, memory, coroutine, database, history, faults>>

(* reconcile_on_boot: today's rows are restored and stale ones zeroed; if  *)
(* the database does not answer, the engine starts empty and writes nothing.*)
Restored(db) == [s \in Sids |-> IF db /\ rowToday[s] THEN row[s] ELSE 0]

(* seed_opening_ranges: a range rebuilt from the day's bars marks the      *)
(* sides on which they pass it; a failed rebuild leaves no range.          *)
SeededUntried(s, ok, shown) ==
  IF ok /\ phase # "range" THEN [NewSession EXCEPT !.range = "locked"] ELSE NewSession
Seeded(s, ok, shown) ==
  IF ok /\ phase # "range"
  THEN [range |-> "locked", tried |-> shown, entries |-> 0]
  ELSE NewSession

(* LIVE: reconcile_with_broker then adopts the broker's book, if it can be *)
(* read.                                                                   *)
RestoredOnly(db, broker) == Restored(db)
Reconciled(db, broker) == IF Live /\ broker THEN book ELSE Restored(db)

(* Every open position gets its slot and its strategy's view back.  The    *)
(* sides the bars have passed (shown) are not the sides entered: an entry  *)
(* is made on a polled price over the polled range, the bars have their    *)
(* own, and the minute of the breakout may not be among them yet; or they  *)
(* show breakouts that no runner saw.                                      *)
Boot ==
  /\ ~up
  /\ up' = TRUE
  /\ \E db \in BOOLEAN, broker \in BOOLEAN :
       /\ faults' = faults + (IF db THEN 0 ELSE 1) + (IF broker THEN 0 ELSE 1)
       /\ faults' <= MaxFaults
       /\ qty' = Reconciled(db, broker)
       /\ blind' = (Live /\ ~broker)
       /\ doubted' = {s \in Sids : \E side \in BothWays : afloat[s][side] > 0}
       /\ IF db
          THEN /\ row' = qty'
               /\ rowToday' = [s \in Sids |-> rowToday[s] \/ row[s] # 0 \/ qty'[s] # 0]
               /\ unsaved' = {}
          ELSE /\ UNCHANGED database
               /\ unsaved' = {s \in Sids : row[s] # qty'[s]}
  /\ view' = qty'
  /\ slots' = {s \in Sids : qty'[s] # 0}
  /\ \E ok \in [Sids -> BOOLEAN], shown \in [Sids -> SUBSET Sides] :
       /\ session' = [s \in Sids |-> Seeded(s, ok[s], shown[s])]
       /\ untold' = [s \in Sids |-> entered[s] \ shown[s]]
  /\ pc' = [s \in Sids |-> "idle"]
  /\ order' = [s \in Sids |-> NoOrder]
  /\ halted' \in BOOLEAN
  /\ UNCHANGED <<market, exchange, entered>>

-----------------------------------------------------------------------------
(* The environment: the clock, the market and the risk monitor. *)

After(p) == CASE p = "range" -> "trade" [] p = "trade" -> "squareoff"
              [] p = "squareoff" -> "closed" [] p = "closed" -> "range"

NextPhase ==
  /\ phase # "closed"
  /\ phase' = After(phase)
  /\ UNCHANGED <<up, day, halted, memory, coroutine, database, exchange, history, faults>>

(* The date changes overnight, long after the last poll. *)
NextDay ==
  /\ phase = "closed" /\ day < MaxDays
  /\ day' = day + 1
  /\ up => \A s \in Sids : pc[s] = "idle"
  /\ phase' = After(phase)
  /\ entered' = [s \in Sids |-> {}]
  /\ untold' = [s \in Sids |-> {}]
  /\ session' = [s \in Sids |-> IF up THEN [NewSession EXCEPT !.range = "stale"] ELSE session[s]]
  /\ rowToday' = [s \in Sids |-> FALSE]
  /\ UNCHANGED <<up, halted, qty, view, slots, coroutine, row, exchange, unsaved, blind, doubted, faults>>

(* resume() ends a halt.  A halt that a boot restored sweeps nothing; one  *)
(* that begins while the process runs sets off the flatten of HaltSweep.   *)
Resume ==
  /\ up /\ halted
  /\ halted' = FALSE
  /\ UNCHANGED <<up, market, memory, coroutine, database, exchange, history, faults>>

Environment == Crash \/ Boot \/ NextPhase \/ NextDay \/ Resume \/ (\E s \in Sids : AtBroker(s))

Next == Environment \/ (\E s \in Sids : Runner(s))

Spec == Init /\ [][Next]_vars

(* Every coroutine that can run is eventually scheduled, a poll with an    *)
(* exit to make is eventually made, and a broker that keeps being asked    *)
(* eventually fills.  Crashes, resumes, the clock and what becomes of an   *)
(* order that nobody follows are not fair.                                 *)
Fairness ==
  /\ WF_vars(Boot)
  /\ \A s \in Sids :
       /\ WF_vars(DecideExit(s))
       /\ WF_vars(EntryDropped(s) \/ EntrySubmitted(s))
       /\ SF_vars(OrderFilled(s))
       /\ WF_vars(EntrySettled(s))
       /\ WF_vars(ExitSettled(s))

FairSpec == Spec /\ Fairness

-----------------------------------------------------------------------------
Orders == [kind : {"none", "entry", "exit"}, side : BothWays, qty : Nat]
Sessions == [range : Ranges, tried : SUBSET BothWays, entries : Nat]

(* Type invariant of the order path. *)
TypeOK ==
  /\ up \in BOOLEAN
  /\ phase \in Phases
  /\ halted \in BOOLEAN
  /\ qty \in [Sids -> Int]
  /\ view \in [Sids -> Int]
  /\ slots \subseteq Sids
  /\ session \in [Sids -> Sessions]
  /\ pc \in [Sids -> {"idle", "gate", "submit", "persist"}]
  /\ order \in [Sids -> Orders]
  /\ row \in [Sids -> Int]
  /\ rowToday \in [Sids -> BOOLEAN]
  /\ book \in [Sids -> Int]
  /\ afloat \in [Sids -> [BothWays -> Nat]]
  /\ entered \in [Sids -> SUBSET BothWays]
  /\ untold \in [Sids -> SUBSET BothWays]
  /\ unsaved \subseteq Sids
  /\ blind \in BOOLEAN
  /\ doubted \subseteq Sids
  /\ day \in 1..MaxDays
  /\ faults \in 0..MaxFaults

SameSign(a, b) == (a > 0 /\ b > 0) \/ (a < 0 /\ b < 0) \/ (a = 0 /\ b = 0)

(* The strategy and the portfolio never disagree about being long, short   *)
(* or flat while the runner has nothing in flight: no position without a   *)
(* strategy that will exit it, no phantom position in the strategy         *)
(* (runner.py resyncs: notify_fill, notify_flat, the partial-exit branch). *)
ViewAgrees == up => \A s \in Sids : pc[s] = "idle" => SameSign(view[s], qty[s])

(* The risk registry books exactly the open positions between orders: an   *)
(* open position never carries zero booked risk, and a slot never leaks    *)
(* and blocks later entries (runner.py 252-262, portfolio reconcile).      *)
SlotsMatchPositions == up => \A s \in Sids : pc[s] = "idle" => (s \in slots <=> qty[s] # 0)

(* Between orders the portfolio, the strategy and the risk registry say    *)
(* the same of a security.                                                 *)
RunnersInStep == ViewAgrees /\ SlotsMatchPositions

(* An exit under way can only reduce the position it was computed from, so *)
(* its fill never opens the opposite side (runner.py 226-236).             *)
ExitOnlyReduces ==
  up => \A s \in Sids : pc[s] = "submit" /\ order[s].kind = "exit" =>
          IsExit(s, order[s].side) /\ order[s].qty <= Abs(qty[s])

(* Each breakout side is traded at most once a day (ORB's tried flags);    *)
(* after a restart once more at most, and only if the bars from which      *)
(* seed_opening_ranges rebuilt the flags did not show that the side had    *)
(* been taken.                                                             *)
OneEntryPerSide ==
  [][\A s \in Sids : pc[s] = "gate" /\ pc'[s] = "submit" /\ order[s].side \in entered[s]
                       => order[s].side \in untold[s]]_vars

(* LIVE: unless the broker could not be read at boot, the engine and the   *)
(* broker agree on every security none of whose orders was answered        *)
(* untruly since, and of which the crash left no order with the broker     *)
(* that was unfinished when the boot read the book (reconcile_with_broker).*)
BookAgrees ==
  Live /\ up /\ ~blind => \A s \in Sids \ doubted : qty[s] = book[s]

(* A restart restores every position of the day whose last fill had been   *)
(* written (portfolio.py: "recovers exactly where it left off"), unless    *)
(* the table could not be read, which the engine reports.                  *)
RestartRestoresSettled ==
  [][~up /\ up' /\ ~Live /\ unsaved' = {} =>
       \A s \in Sids :
         pc[s] # "persist" /\ s \notin unsaved /\ (rowToday[s] \/ qty[s] = 0)
           => qty'[s] = qty[s]]_vars

(* Once the square-off time has come and the process stays up, every       *)
(* position is closed and stays closed, whatever the partial fills and     *)
(* rejections on the way and under a halt that the boot restored (orb.py   *)
(* square-off; exits are never blocked by check_intent).  For halts that   *)
(* begin while positions are open, see HaltSweep.                          *)
SquareOffFlattens ==
  <>[](up /\ phase = "squareoff") => <>[](Open = {})
=============================================================================
