------------------------- MODULE ScalperSleeveProofs -------------------------
(***************************************************************************)
(* Theorems of ScalperSleeve and of its governor, for any underlyings,     *)
(* strikes, caps, P&L, days and faults: types, the latches of the          *)
(* governor, the day's caps, which survive restarts, and the agreement of  *)
(* legs, meter and positions.                                              *)
(***************************************************************************)
EXTENDS ScalperSleeve, FiniteSetTheorems, TLAPS

-----------------------------------------------------------------------------
(* The governor's operations keep its type.                                *)
LEMMA FreshGovernorTyped == FreshGovernor \in Governor
  BY DEF FreshGovernor, Governor, GovernorState

LEMMA RecordsTyped ==
  ASSUME NEW g \in Governor, NEW u \in Underlyings
  PROVE  /\ RecordOpen(g, u) \in Governor /\ RecordClose(g, u) \in Governor
         /\ RecordTradeOpen(g, u) \in Governor
<1> DEFINE with(f, n) == [f EXCEPT ![u] = n]
<1>1. /\ g.open \in Nat /\ g.trades \in Nat
      /\ g.openOf \in [Underlyings -> Nat] /\ g.tradesOf \in [Underlyings -> Nat]
  BY DEF Governor
<1>2. /\ Larger(0, g.open - 1) \in Nat /\ Larger(0, g.openOf[u] - 1) \in Nat
      /\ g.openOf[u] + 1 \in Nat /\ g.tradesOf[u] + 1 \in Nat
      /\ g.open + 1 \in Nat /\ g.trades + 1 \in Nat
  BY <1>1 DEF Larger
<1>3. \A f \in [Underlyings -> Nat], n \in Nat : with(f, n) \in [Underlyings -> Nat]
  OBVIOUS
<1>4. RecordOpen(g, u) = [g EXCEPT !.open = g.open + 1, !.openOf = with(g.openOf, g.openOf[u] + 1)]
  BY DEF RecordOpen, Governor
<1>5. RecordClose(g, u) = [g EXCEPT !.open = Larger(0, g.open - 1),
                                    !.openOf = with(g.openOf, Larger(0, g.openOf[u] - 1))]
  BY DEF RecordClose, Governor
<1>6. RecordTradeOpen(g, u) = [g EXCEPT !.trades = g.trades + 1,
                                        !.tradesOf = with(g.tradesOf, g.tradesOf[u] + 1)]
  BY DEF RecordTradeOpen, Governor
<1>7. /\ with(g.openOf, g.openOf[u] + 1) \in [Underlyings -> Nat]
      /\ with(g.openOf, Larger(0, g.openOf[u] - 1)) \in [Underlyings -> Nat]
      /\ with(g.tradesOf, g.tradesOf[u] + 1) \in [Underlyings -> Nat]
  BY <1>1, <1>2, <1>3
<1> HIDE DEF with
<1>8. RecordOpen(g, u) \in Governor
  BY <1>2, <1>4, <1>7 DEF Governor
<1>9. RecordClose(g, u) \in Governor
  BY <1>2, <1>5, <1>7 DEF Governor
<1>10. RecordTradeOpen(g, u) \in Governor
  BY <1>2, <1>6, <1>7 DEF Governor
<1> QED BY <1>8, <1>9, <1>10

LEMMA SeedTyped ==
  ASSUME NEW g \in Governor, NEW u, NEW n \in Nat, NEW p \in Int
  PROVE  SeedTrades(g, u, n, p) \in Governor
  BY DEF Governor, SeedTrades

LEMMA LockTyped ==
  ASSUME NEW g \in Governor
  PROVE  UpdateProfitLock(g) \in Governor
<1> DEFINE high == Larger(g.high, g.realized)
           floor == Larger(g.floor, high - GiveBack)
<1>1. g.high \in Int /\ g.floor \in Int /\ g.realized \in Int /\ FirstFloor \in Int /\ GiveBack \in Int
  BY GovernorAssumption DEF Governor, GovernorAssumption
<1>2. high \in Int /\ floor \in Int
  BY <1>1 DEF Larger
<1>3. \/ UpdateProfitLock(g) = g
      \/ UpdateProfitLock(g) = [g EXCEPT !.armed = TRUE, !.high = g.realized, !.floor = FirstFloor]
      \/ UpdateProfitLock(g) = [g EXCEPT !.high = high, !.floor = floor]
  BY DEF UpdateProfitLock, Governor
<1> HIDE DEF high, floor
<1>4. [g EXCEPT !.armed = TRUE, !.high = g.realized, !.floor = FirstFloor] \in Governor
  BY <1>1 DEF Governor
<1>5. [g EXCEPT !.high = high, !.floor = floor] \in Governor
  BY <1>2 DEF Governor
<1> QED BY <1>3, <1>4, <1>5

LEMMA StandDownTyped ==
  ASSUME NEW g \in Governor
  PROVE  StandDown(g) \in Governor
<1> DEFINE ask == g.request \/ (g.state # "STOOD_DOWN" /\ g.open > 0)
<1>1. ask \in BOOLEAN
  OBVIOUS
<1>2. StandDown(g) = [g EXCEPT !.state = "STOOD_DOWN", !.request = ask]
  BY DEF StandDown, Governor
<1> HIDE DEF ask
<1> QED BY <1>1, <1>2 DEF Governor, GovernorState

LEMMA RecomputeTyped ==
  ASSUME NEW g \in Governor
  PROVE  Recompute(g) \in Governor
<1> DEFINE locked == UpdateProfitLock(g)
<1>1. locked \in Governor /\ StandDown(g) \in Governor /\ StandDown(locked) \in Governor
  BY LockTyped, StandDownTyped
<1>2. /\ [g EXCEPT !.state = "ACTIVE"] \in Governor
      /\ [locked EXCEPT !.state = "LOCKED"] \in Governor
      /\ [locked EXCEPT !.state = "TRAIL_ONLY"] \in Governor
  BY <1>1 DEF Governor, GovernorState
<1> QED BY <1>1, <1>2 DEF Recompute

LEMMA TradeCloseTyped ==
  ASSUME NEW g \in Governor, NEW p \in Int
  PROVE  RecordTradeClose(g, p) \in Governor
<1>0. /\ g.realized + p \in Int
      /\ (IF p < 0 THEN g.streak + 1 ELSE IF p > 0 THEN 0 ELSE g.streak) \in Nat
  BY DEF Governor
<1>1. [g EXCEPT !.realized = @ + p,
                !.streak = IF p < 0 THEN @ + 1 ELSE IF p > 0 THEN 0 ELSE @] \in Governor
  BY <1>0 DEF Governor
<1> QED BY <1>1, LockTyped, RecomputeTyped DEF RecordTradeClose

LEMMA ConsumeTyped ==
  ASSUME NEW g \in Governor
  PROVE  ConsumeRequest(g) \in Governor
  BY DEF Governor, ConsumeRequest

-----------------------------------------------------------------------------
(* They only tighten it: stood down stays stood down, and the defended     *)
(* floor never falls.                                                      *)
Tightens(g, h) ==
  /\ g.state = "STOOD_DOWN" => h.state = "STOOD_DOWN"
  /\ DefendedFloor(h) >= DefendedFloor(g)

LEMMA FloorTyped ==
  ASSUME NEW g \in Governor PROVE DefendedFloor(g) \in Int
  BY GovernorAssumption DEF Governor, GovernorAssumption, DefendedFloor, Larger

LEMMA TightensTransitive ==
  ASSUME NEW f \in Governor, NEW g \in Governor, NEW h \in Governor,
         Tightens(f, g), Tightens(g, h)
  PROVE  Tightens(f, h)
  BY FloorTyped DEF Tightens

LEMMA LockTightens ==
  ASSUME NEW g \in Governor
  PROVE  /\ Tightens(g, UpdateProfitLock(g))
         /\ UpdateProfitLock(g).state = g.state
         /\ UpdateProfitLock(g).realized = g.realized
         /\ UpdateProfitLock(g).trades = g.trades
<1> USE GovernorAssumption DEF GovernorAssumption, Governor
<1>1. CASE ~g.armed
  BY <1>1 DEF UpdateProfitLock, Tightens, DefendedFloor, Larger
<1>2. CASE g.armed
  BY <1>2 DEF UpdateProfitLock, Tightens, DefendedFloor, Larger
<1> QED BY <1>1, <1>2

LEMMA RecomputeTightens ==
  ASSUME NEW g \in Governor
  PROVE  /\ Tightens(g, Recompute(g))
         /\ Recompute(g).realized = g.realized
         /\ Recompute(g).trades = g.trades
         /\ g.realized <= -MaxLoss => Recompute(g).state = "STOOD_DOWN"
<1> DEFINE locked == UpdateProfitLock(g)
<1>1. /\ locked \in Governor /\ Tightens(g, locked) /\ locked.state = g.state
      /\ locked.realized = g.realized /\ locked.trades = g.trades
  BY LockTyped, LockTightens
<1> HIDE DEF locked
<1>2. CASE LossStop(g)
  <2>1. Recompute(g) = StandDown(g)
    BY <1>2 DEF Recompute
  <2> QED BY <2>1, FloorTyped DEF StandDown, Tightens, DefendedFloor, Governor
<1>3. CASE ~LossStop(g) /\ g.state = "STOOD_DOWN"
  <2>1. Recompute(g) = g
    BY <1>3 DEF Recompute, Terminal
  <2> QED BY <2>1, <1>3, FloorTyped DEF Tightens
<1>4. CASE ~LossStop(g) /\ g.state # "STOOD_DOWN"
  <2>1. \/ Recompute(g) = [g EXCEPT !.state = "ACTIVE"]
        \/ Recompute(g) = [locked EXCEPT !.state = "LOCKED"]
        \/ Recompute(g) = [locked EXCEPT !.state = "TRAIL_ONLY"]
        \/ Recompute(g) = StandDown(locked)
    BY <1>4 DEF Recompute, Terminal, locked
  <2>2. DefendedFloor(Recompute(g)) \in {DefendedFloor(g), DefendedFloor(locked)}
    BY <2>1, <1>1 DEF DefendedFloor, StandDown, Governor
  <2>3. /\ Recompute(g).realized = g.realized /\ Recompute(g).trades = g.trades
    BY <2>1, <1>1 DEF StandDown, Governor
  <2> QED BY <1>1, <1>4, <2>2, <2>3, FloorTyped DEF Tightens, LossStop
<1> QED BY <1>2, <1>3, <1>4

LEMMA TradeCloseTightens ==
  ASSUME NEW g \in Governor, NEW p \in Int
  PROVE  /\ Tightens(g, RecordTradeClose(g, p))
         /\ RecordTradeClose(g, p).realized = g.realized + p
         /\ RecordTradeClose(g, p).trades = g.trades
         /\ RecordTradeClose(g, p).realized <= -MaxLoss
              => RecordTradeClose(g, p).state = "STOOD_DOWN"
<1> DEFINE f == [g EXCEPT !.realized = @ + p,
                   !.streak = IF p < 0 THEN @ + 1 ELSE IF p > 0 THEN 0 ELSE @]
           h == UpdateProfitLock(f)
<1>0. /\ g.realized + p \in Int
      /\ (IF p < 0 THEN g.streak + 1 ELSE IF p > 0 THEN 0 ELSE g.streak) \in Nat
  BY DEF Governor
<1>1. /\ f \in Governor /\ f.realized = g.realized + p /\ f.trades = g.trades
      /\ f.state = g.state
  BY <1>0 DEF Governor
<1>2. Tightens(g, f)
  BY <1>1, FloorTyped DEF Tightens, DefendedFloor, Governor
<1>3. RecordTradeClose(g, p) = Recompute(h)
  BY DEF RecordTradeClose
<1> HIDE DEF f
<1>4. h \in Governor /\ Tightens(f, h) /\ h.realized = f.realized /\ h.trades = f.trades
  BY <1>1, LockTyped, LockTightens
<1> HIDE DEF h
<1>5. /\ Recompute(h) \in Governor /\ Tightens(h, Recompute(h))
      /\ Recompute(h).realized = h.realized /\ Recompute(h).trades = h.trades
      /\ h.realized <= -MaxLoss => Recompute(h).state = "STOOD_DOWN"
  BY <1>4, RecomputeTightens, RecomputeTyped
<1>6. Tightens(f, Recompute(h))
  BY <1>1, <1>4, <1>5, TightensTransitive
<1>7. Tightens(g, Recompute(h))
  BY <1>1, <1>2, <1>5, <1>6, TightensTransitive
<1> QED BY <1>1, <1>3, <1>4, <1>5, <1>7

LEMMA RecordsTighten ==
  ASSUME NEW g \in Governor, NEW u
  PROVE  /\ Tightens(g, RecordTradeOpen(RecordOpen(g, u), u))
         /\ Tightens(g, RecordClose(g, u))
         /\ Tightens(g, ConsumeRequest(g))
  BY FloorTyped DEF Governor, Tightens, DefendedFloor, RecordOpen, RecordTradeOpen,
    RecordClose, ConsumeRequest

-----------------------------------------------------------------------------
(* Every step keeps the types.  A task's record is replaced as a whole.    *)
TaskTyped ==
  /\ task \in [Tasks -> TaskRecords]
  /\ \A t \in Tasks : task[t].order \in Contracts <=> task[t].pc \in InFlight

Resting == {"idle", "exits", "scan", "sweep"} \cup Flattening

LEMMA NoContract == <<>> \notin Contracts
  BY DEF Contracts

LEMMA RestingApart == \A w \in Resting : w \notin InFlight
  BY DEF Resting, Flattening, InFlight

LEMMA TaskStep ==
  ASSUME TaskTyped, NEW t \in Tasks, NEW r \in TaskRecords,
         r.order \in Contracts <=> r.pc \in InFlight,
         task' = [task EXCEPT ![t] = r]
  PROVE  TaskTyped'
  BY DEF TaskTyped

LEMMA IdleTask ==
  Idle \in TaskRecords /\ Idle.order \notin Contracts /\ Idle.pc \notin InFlight
<1>1. <<>> \in Seq(Underlyings)
  OBVIOUS
<1> QED BY <1>1, NoContract DEF Idle, TaskRecords, InFlight

LEMMA IdleRecord ==
  ASSUME NEW w \in Resting, NEW n \in {"early", "trading", "late"}, NEW q \in Seq(Underlyings)
  PROVE  LET r == [Idle EXCEPT !.pc = w, !.now = n, !.rest = q]
         IN r \in TaskRecords /\ (r.order \in Contracts <=> r.pc \in InFlight)
  BY IdleTask, RestingApart DEF TaskRecords, Resting

LEMMA RestTyped ==
  ASSUME NEW q \in Seq(Underlyings), q # <<>>
  PROVE  Head(q) \in Underlyings /\ Tail(q) \in Seq(Underlyings)
  OBVIOUS

Books == [lots : Nat, pending : BOOLEAN, strike : Strikes \cup {NoStrike}]

LEMMA BlankTyped == BlankEngine \in Books
  BY DEF BlankEngine, Books

LEMMA InitTypeOK == Init => TypeOK
<1> SUFFICES ASSUME Init PROVE TypeOK
  OBVIOUS
<1>1. TaskTyped
  BY IdleTask DEF Init, TaskTyped
<1>2. gov \in Governor
  BY FreshGovernorTyped DEF Init
<1>3. engine \in [Underlyings -> Books]
  BY BlankTyped DEF Init
<1>4. day \in 0..MaxDays /\ session \in 0..day /\ faults \in 0..MaxFaults
  BY SleeveAssumption DEF Init, SleeveAssumption
<1>5. pos \in [Contracts -> Int]
  BY DEF Init
<1>6. up \in BOOLEAN /\ halted \in BOOLEAN /\ tangled \in BOOLEAN /\ blind \in BOOLEAN
  BY DEF Init
<1>7. booked \in Nat /\ pnl \in Int /\ legs = {} /\ strays = {} /\ cooling = {}
  BY DEF Init
<1> QED BY <1>1, <1>2, <1>3, <1>4, <1>5, <1>6, <1>7 DEF Init, TypeOK, TaskTyped, Books

LEMMA StartTickTyped == TypeOK /\ StartTick => TypeOK'
<1> SUFFICES ASSUME TypeOK, StartTick PROVE TypeOK'
  OBVIOUS
<1> DEFINE r == [Idle EXCEPT !.pc = "exits", !.now = phase, !.rest = Order]
<1>1. r \in TaskRecords /\ (r.order \in Contracts <=> r.pc \in InFlight)
  BY IdleRecord, SleeveAssumption DEF TypeOK, Resting, SleeveAssumption
<1>2. task' = [task EXCEPT !["tick"] = r]
  BY DEF StartTick
<1> HIDE DEF r
<1>3. TaskTyped'
  BY <1>1, <1>2, TaskStep DEF TypeOK, TaskTyped, Tasks
<1>4. /\ gov' \in Governor /\ legs' \subseteq Contracts /\ cooling' \subseteq Underlyings
      /\ state' \in {"PRE_OPEN", "ARMED", "MANAGING", "FLATTEN_ALL", "DONE"}
  BY FreshGovernorTyped DEF StartTick, TypeOK
<1>5. engine' \in [Underlyings -> Books]
  BY BlankTyped DEF StartTick, TypeOK, Books
<1>6. session' \in 0..day'
  BY DEF StartTick, TypeOK, clock
<1> QED BY <1>3, <1>4, <1>5, <1>6
  DEF Books, StartTick, TypeOK, TaskTyped, clock, journal, history

(* What a task's record looks like before any step of it.                  *)
LEMMA TaskFacts ==
  ASSUME TypeOK, NEW t \in Tasks
  PROVE  /\ task[t] \in TaskRecords /\ TaskTyped
         /\ task[t].rest \in Seq(Underlyings) /\ task[t].todo \subseteq Contracts
         /\ task[t].qty \in Int /\ task[t].gain \in Int
         /\ task[t].order \in Contracts <=> task[t].pc \in InFlight
  BY DEF TypeOK, TaskTyped, TaskRecords

LEMMA PolledTyped ==
  ASSUME TypeOK, NEW u \in Underlyings, NEW signal, Polled(u, signal)
  PROVE  engine' \in [Underlyings -> Books]
<1>1. engine \in [Underlyings -> Books]
  BY DEF TypeOK, Books
<1>2. \A k \in Strikes : [lots |-> 0, pending |-> TRUE, strike |-> k] \in Books
  BY DEF Books
<1> QED BY <1>1, <1>2 DEF Polled

LEMMA PollExitsTyped == TypeOK /\ PollExits => TypeOK'
<1> SUFFICES ASSUME TypeOK, PollExits PROVE TypeOK'
  OBVIOUS
<1> DEFINE k == task["tick"]
           u == Head(k.rest)
<1>1. /\ k \in TaskRecords /\ TaskTyped /\ k.rest \in Seq(Underlyings)
      /\ k.order \in Contracts <=> k.pc \in InFlight
  BY TaskFacts DEF Tasks
<1>2. u \in Underlyings /\ Tail(k.rest) \in Seq(Underlyings)
  BY <1>1, RestTyped DEF PollExits
<1>3. PICK signal : /\ signal \in IF LegsOf(u) = {} THEN {"none"} ELSE Signals(u)
                    /\ Polled(u, signal)
                    /\ task' = [task EXCEPT !["tick"].rest = Tail(@), !["tick"].todo =
                         IF signal = "EXIT" THEN {c \in LegsOf(u) : c[2] = engine[u].strike} ELSE {}]
  BY DEF PollExits
<1> DEFINE todo == IF signal = "EXIT" THEN {c \in LegsOf(u) : c[2] = engine[u].strike} ELSE {}
           r == [k EXCEPT !.rest = Tail(k.rest), !.todo = todo]
<1>4. todo \subseteq Contracts
  BY DEF LegsOf, TypeOK
<1>5. r \in TaskRecords /\ (r.order \in Contracts <=> r.pc \in InFlight)
  <2> HIDE DEF todo, u
  <2> QED BY <1>1, <1>2, <1>4 DEF TaskRecords
<1>6. task' = [task EXCEPT !["tick"] = r]
  BY <1>1, <1>3 DEF TaskTyped, TaskRecords, Tasks
<1> HIDE DEF r
<1>7. TaskTyped'
  BY <1>1, <1>5, <1>6, TaskStep DEF Tasks
<1>8. engine' \in [Underlyings -> Books]
  BY <1>2, <1>3, PolledTyped
<1> QED BY <1>7, <1>8 DEF PollExits, TypeOK, TaskTyped, Books, clock, journal, history

LEMMA PickLegsTyped ==
  ASSUME TypeOK, NEW t \in Tasks, PickLegs(t) PROVE TypeOK'
<1> DEFINE k == task[t]
           r == [k EXCEPT !.todo = LegsOf(Head(k.rest)), !.rest = Tail(k.rest)]
<1>1. /\ k \in TaskRecords /\ TaskTyped /\ k.rest \in Seq(Underlyings)
      /\ k.order \in Contracts <=> k.pc \in InFlight
  BY TaskFacts
<1>2. Tail(k.rest) \in Seq(Underlyings)
  BY <1>1, RestTyped DEF PickLegs
<1>3. LegsOf(Head(k.rest)) \subseteq Contracts
  BY DEF LegsOf, TypeOK
<1>4. r \in TaskRecords /\ (r.order \in Contracts <=> r.pc \in InFlight)
  BY <1>1, <1>2, <1>3 DEF TaskRecords
<1>5. task' = [task EXCEPT ![t] = r]
  BY <1>1 DEF PickLegs, TaskTyped, TaskRecords
<1> HIDE DEF r
<1>6. TaskTyped'
  BY <1>1, <1>4, <1>5, TaskStep
<1> QED BY <1>6 DEF PickLegs, TypeOK, TaskTyped, clock, journal, history

LEMMA SubmitExitTyped ==
  ASSUME TypeOK, NEW t \in Tasks, SubmitExit(t) PROVE TypeOK'
<1> DEFINE k == task[t]
<1>1. /\ k \in TaskRecords /\ TaskTyped /\ k.todo \subseteq Contracts
      /\ k.order \in Contracts <=> k.pc \in InFlight
  BY TaskFacts
<1>2. PICK c \in k.todo :
        LET skipped == [task EXCEPT ![t].todo = @ \ {c}]
        IN \/ /\ legs' = IF pos[c] = 0 THEN legs \ {c} ELSE legs
              /\ task' = skipped
              /\ UNCHANGED tangled
           \/ /\ task' = [skipped EXCEPT ![t].pc = "sell", ![t].order = c,
                            ![t].qty = ExitQty(t, c), ![t].back = task[t].pc]
              /\ tangled' = (tangled \/ Entangles(t))
              /\ UNCHANGED legs
  BY DEF SubmitExit
<1> DEFINE r == [k EXCEPT !.todo = @ \ {c}]
           s == [r EXCEPT !.pc = "sell", !.order = c, !.qty = ExitQty(t, c), !.back = k.pc]
<1>3. ExitQty(t, c) \in Int
  <2>1. c \in Contracts /\ pos[c] \in Int
    BY <1>1 DEF TypeOK
  <2>2. Under(c) \in Underlyings
    BY <2>1 DEF Contracts, Under
  <2>3. engine[Under(c)].lots \in Int
    BY <2>2 DEF TypeOK
  <2> QED BY <2>1, <2>3 DEF ExitQty, Smaller, Abs
<1>4. r \in TaskRecords /\ (r.order \in Contracts <=> r.pc \in InFlight)
  BY <1>1 DEF TaskRecords
<1>5. s \in TaskRecords /\ (s.order \in Contracts <=> s.pc \in InFlight)
  <2>1. k.pc \in {"idle", "exits"} \cup Flattening
    BY DEF SubmitExit
  <2> HIDE DEF r
  <2> QED BY <1>1, <1>3, <1>4, <2>1 DEF TaskRecords, InFlight
<1>6. task' = [task EXCEPT ![t] = r] \/ task' = [task EXCEPT ![t] = s]
  BY <1>1, <1>2 DEF TaskTyped, TaskRecords
<1> HIDE DEF r, s
<1>7. TaskTyped'
  BY <1>1, <1>4, <1>5, <1>6, TaskStep
<1>8. legs' \subseteq Contracts /\ tangled' \in BOOLEAN
  <2>1. legs' \subseteq Contracts
    BY <1>2 DEF TypeOK
  <2>2. (tangled \/ Entangles(t)) \in BOOLEAN
    OBVIOUS
  <2>3. tangled' \in BOOLEAN
    BY <1>2, <2>2, Zenon DEF TypeOK
  <2> QED BY <2>1, <2>3
<1> QED BY <1>7, <1>8 DEF SubmitExit, TypeOK, TaskTyped, clock, journal

(* apply_fill's quantities and P&L stay integers.                          *)
LEMMA AppliedTyped ==
  ASSUME TypeOK, NEW t, NEW c \in Contracts, NEW n \in Int, NEW g, Applied(t, c, n, g)
  PROVE  pos' \in [Contracts -> Int] /\ pnl' \in Int /\ booked' \in Nat /\ g \in Int
<1>1. Pnls \subseteq Int
  BY SleeveAssumption DEF SleeveAssumption
<1>2. g \in Int
  BY <1>1 DEF Applied
<1> QED BY <1>2 DEF Applied, TypeOK

LEMMA FillExitTyped ==
  ASSUME TypeOK, NEW t \in Tasks, FillExit(t) PROVE TypeOK'
<1> DEFINE k == task[t]
<1>1. /\ k \in TaskRecords /\ TaskTyped /\ k.qty \in Int
      /\ k.order \in Contracts <=> k.pc \in InFlight
  BY TaskFacts
<1>2. k.order \in Contracts /\ -k.qty \in Int
  BY <1>1 DEF FillExit, At, InFlight
<1>3. PICK g \in Pnls \cup {0} :
        /\ Applied(t, k.order, -k.qty, g)
        /\ task' = [task EXCEPT ![t].pc = "sold", ![t].gain = g]
  BY DEF FillExit
<1>4. pos' \in [Contracts -> Int] /\ pnl' \in Int /\ booked' \in Nat /\ g \in Int
  BY <1>2, <1>3, AppliedTyped
<1> DEFINE r == [k EXCEPT !.pc = "sold", !.gain = g]
<1>5. r \in TaskRecords /\ (r.order \in Contracts <=> r.pc \in InFlight)
  BY <1>1, <1>2, <1>4 DEF TaskRecords, InFlight
<1>6. task' = [task EXCEPT ![t] = r]
  BY <1>1, <1>3 DEF TaskTyped, TaskRecords
<1> HIDE DEF r
<1>7. TaskTyped'
  BY <1>1, <1>5, <1>6, TaskStep
<1> QED BY <1>4, <1>7 DEF FillExit, TypeOK, TaskTyped, clock, history

LEMMA SoldTyped ==
  ASSUME TypeOK, NEW u \in Underlyings, NEW n \in Int
  PROVE  EngineSold(u, n) \in [Underlyings -> Books]
<1> DEFINE left == Larger(0, engine[u].lots - n)
           b == IF left = 0 THEN BlankEngine
                ELSE [engine[u] EXCEPT !.lots = left, !.pending = FALSE]
<1>1. engine \in [Underlyings -> Books] /\ engine[u].lots \in Nat
  BY DEF TypeOK, Books
<1>2. left \in Nat
  BY <1>1 DEF Larger
<1>3. EngineSold(u, n) = [engine EXCEPT ![u] = b]
  BY <1>1 DEF EngineSold
<1> HIDE DEF left
<1>4. b \in Books
  BY <1>1, <1>2, BlankTyped DEF Books
<1> QED BY <1>1, <1>3, <1>4

LEMMA ClearedTyped ==
  ASSUME NEW k \in TaskRecords, NEW z \in Int
  PROVE  LET r == [k EXCEPT !.qty = z, !.gain = z]
         IN r \in TaskRecords /\ r.order = k.order /\ r.pc = k.pc
  BY DEF TaskRecords

LEMMA SettleExitTyped ==
  ASSUME TypeOK, NEW t \in Tasks, SettleExit(t) PROVE TypeOK'
<1> DEFINE k == task[t]
           c == k.order
           r == [k EXCEPT !.pc = k.back, !.back = "idle", !.order = <<>>, !.qty = 0, !.gain = 0]
<1>1. /\ k \in TaskRecords /\ TaskTyped /\ k.qty \in Int /\ k.gain \in Int
      /\ k.order \in Contracts <=> k.pc \in InFlight
  BY TaskFacts
<1>2. c \in Contracts /\ Under(c) \in Underlyings
  BY <1>1 DEF SettleExit, At, InFlight, Contracts, Under
<1>3. r \in TaskRecords /\ (r.order \in Contracts <=> r.pc \in InFlight)
  <2> DEFINE s == [k EXCEPT !.pc = k.back, !.back = "idle", !.order = <<>>]
             zero == 0
  <2>1. k.back \in Resting
    BY <1>1 DEF TaskRecords, Resting
  <2>2. s \in TaskRecords /\ s.order = <<>> /\ s.pc = k.back
    BY <1>1, <2>1 DEF TaskRecords, Resting
  <2>3. zero \in Int /\ r = [s EXCEPT !.qty = zero, !.gain = zero]
    BY <1>1 DEF TaskRecords
  <2> HIDE DEF s, r, zero
  <2>4. r \in TaskRecords /\ r.order = <<>> /\ r.pc = k.back
    BY <2>2, <2>3, ClearedTyped
  <2> QED BY <2>1, <2>4, NoContract, RestingApart
<1>4. task' = [task EXCEPT ![t] = r]
  BY <1>1 DEF SettleExit, TaskTyped, TaskRecords
<1>5. TaskTyped'
  <2> HIDE DEF r
  <2> QED BY <1>1, <1>3, <1>4, TaskStep
<1>6. engine' \in [Underlyings -> Books]
  <2>1. Larger(1, k.qty) \in Int
    BY <1>1 DEF Larger
  <2> QED BY <1>2, <2>1, SoldTyped DEF SettleExit
<1>7. gov' \in Governor
  <2>1. gov \in Governor
    BY DEF TypeOK
  <2>2. Retired(c, k.gain) \in Governor
    BY <1>1, <1>2, <2>1, RecordsTyped, TradeCloseTyped DEF Retired
  <2> QED BY <2>1, <2>2 DEF SettleExit
<1>8. legs' \subseteq Contracts /\ cooling' \subseteq Underlyings /\ tangled' \in BOOLEAN
  BY <1>2 DEF SettleExit, TypeOK
<1> QED BY <1>5, <1>6, <1>7, <1>8 DEF SettleExit, TypeOK, TaskTyped, Books, clock, journal

LEMMA OnwardsTyped ==
  ASSUME TypeOK, NEW g, Onwards(g)
  PROVE  TaskTyped' /\ state' \in {"PRE_OPEN", "ARMED", "MANAGING", "FLATTEN_ALL", "DONE"}
<1> DEFINE r == IF Derived(g) = "ARMED" THEN [Idle EXCEPT !.pc = "scan", !.rest = Order] ELSE Idle
<1>1. Order \in Seq(Underlyings)
  BY SleeveAssumption DEF SleeveAssumption
<1>2. /\ [Idle EXCEPT !.pc = "scan", !.rest = Order] \in TaskRecords
      /\ [Idle EXCEPT !.pc = "scan", !.rest = Order].order \notin Contracts
      /\ [Idle EXCEPT !.pc = "scan", !.rest = Order].pc \notin InFlight
  BY <1>1, IdleTask DEF TaskRecords, InFlight
<1>3. r \in TaskRecords /\ (r.order \in Contracts <=> r.pc \in InFlight)
  BY <1>2, IdleTask
<1>4. task' = [task EXCEPT !["tick"] = r]
  BY DEF Onwards
<1> HIDE DEF r
<1>5. TaskTyped'
  BY <1>3, <1>4, TaskStep DEF TypeOK, TaskTyped, Tasks
<1>6. state' \in {"PRE_OPEN", "ARMED", "MANAGING", "FLATTEN_ALL", "DONE"}
  BY DEF Onwards, Derived, TypeOK
<1> QED BY <1>5, <1>6

(* A task at rest goes to another place of rest, with another list.        *)
LEMMA MoveTyped ==
  ASSUME TypeOK, NEW t \in Tasks, task[t].pc \in Resting, NEW w \in Resting,
         NEW q \in Seq(Underlyings),
         task' = [task EXCEPT ![t].pc = w, ![t].rest = q]
  PROVE  TaskTyped'
<1> DEFINE k == task[t]
           r == [k EXCEPT !.pc = w, !.rest = q]
<1>1. k \in TaskRecords /\ TaskTyped /\ (k.order \in Contracts <=> k.pc \in InFlight)
  BY TaskFacts
<1>2. r \in TaskRecords /\ (r.order \in Contracts <=> r.pc \in InFlight)
  BY <1>1, RestingApart DEF TaskRecords, Resting
<1>3. task' = [task EXCEPT ![t] = r]
  BY <1>1 DEF TaskTyped, TaskRecords
<1> HIDE DEF r
<1> QED BY <1>1, <1>2, <1>3, TaskStep

LEMMA ExitsDoneTyped == TypeOK /\ ExitsDone => TypeOK'
<1> SUFFICES ASSUME TypeOK, ExitsDone PROVE TypeOK'
  OBVIOUS
<1> DEFINE g == Recompute(gov)
           k == task["tick"]
<1>1. gov \in Governor /\ g \in Governor /\ ConsumeRequest(g) \in Governor
  BY RecomputeTyped, ConsumeTyped DEF TypeOK
<1>2. Order \in Seq(Underlyings)
  BY SleeveAssumption DEF SleeveAssumption
<1>3. /\ k \in TaskRecords /\ TaskTyped /\ k.todo \subseteq Contracts /\ "tick" \in Tasks
  BY TaskFacts DEF Tasks
<1>4. k.pc \in Resting /\ "squareoff" \in Resting /\ "residual" \in Resting
  BY DEF ExitsDone, At, Resting, Flattening
<1> HIDE DEF g
<1>5. /\ TaskTyped' /\ gov' \in Governor
      /\ state' \in {"PRE_OPEN", "ARMED", "MANAGING", "FLATTEN_ALL", "DONE"}
  <2>1. CASE /\ task' = [task EXCEPT !["tick"].pc = "squareoff", !["tick"].rest = Order]
             /\ UNCHANGED <<state, gov>>
    BY <1>1, <1>2, <1>3, <1>4, <2>1, MoveTyped DEF TypeOK
  <2>2. CASE /\ gov' = ConsumeRequest(g)
             /\ task' = [task EXCEPT !["tick"].pc = "residual", !["tick"].rest = Order]
             /\ UNCHANGED state
    BY <1>1, <1>2, <1>3, <1>4, <2>2, MoveTyped DEF TypeOK
  <2>3. CASE gov' = ConsumeRequest(g) /\ Onwards(g)
    BY <1>1, <2>3, OnwardsTyped
  <2> QED BY <2>1, <2>2, <2>3 DEF ExitsDone, g
<1> QED BY <1>5 DEF ExitsDone, TypeOK, TaskTyped, clock, journal, history

LEMMA RestDoneTyped ==
  TypeOK /\ (ResidualDone \/ SquareOffDone \/ FlattenOpenDone \/ ScanDone) => TypeOK'
<1> SUFFICES ASSUME TypeOK, ResidualDone \/ SquareOffDone \/ FlattenOpenDone \/ ScanDone
             PROVE  TypeOK'
  OBVIOUS
<1> DEFINE States == {"PRE_OPEN", "ARMED", "MANAGING", "FLATTEN_ALL", "DONE"}
<1>1. CASE ResidualDone
  <2>1. TaskTyped' /\ state' \in States
    BY <1>1, OnwardsTyped DEF ResidualDone
  <2> QED BY <1>1, <2>1 DEF ResidualDone, TypeOK, TaskTyped, clock, journal, history
<1>2. CASE SquareOffDone \/ ScanDone
  <2>1. task' = [task EXCEPT !["tick"] = Idle] /\ state' \in States
    BY <1>2 DEF SquareOffDone, ScanDone, Flattened, TypeOK
  <2>2. TaskTyped'
    BY <2>1, IdleTask, TaskStep DEF TypeOK, TaskTyped, Tasks
  <2> QED BY <1>2, <2>1, <2>2
    DEF SquareOffDone, ScanDone, TypeOK, TaskTyped, clock, journal, history
<1>3. CASE FlattenOpenDone
  <2> DEFINE k == task["halt"]
             r == [k EXCEPT !.pc = "sweep", !.todo = {c \in Contracts : pos[c] # 0}]
  <2>1. /\ k \in TaskRecords /\ TaskTyped /\ (k.order \in Contracts <=> k.pc \in InFlight)
    BY TaskFacts DEF Tasks
  <2>2. k.pc = "flatten"
    BY <1>3 DEF FlattenOpenDone, At
  <2>3. r \in TaskRecords /\ (r.order \in Contracts <=> r.pc \in InFlight)
    BY <2>1, <2>2 DEF TaskRecords, InFlight
  <2>4. task' = [task EXCEPT !["halt"] = r]
    BY <1>3, <2>1 DEF FlattenOpenDone, TaskTyped, TaskRecords, Tasks
  <2> HIDE DEF r
  <2>5. TaskTyped'
    BY <2>1, <2>3, <2>4, TaskStep DEF Tasks
  <2>6. state' \in States
    BY <1>3 DEF FlattenOpenDone, Flattened
  <2> QED BY <1>3, <2>5, <2>6 DEF FlattenOpenDone, TypeOK, TaskTyped, clock, journal, history
<1> QED BY <1>1, <1>2, <1>3

LEMMA ScanEntryTyped == TypeOK /\ ScanEntry => TypeOK'
<1> SUFFICES ASSUME TypeOK, ScanEntry PROVE TypeOK'
  OBVIOUS
<1> DEFINE k == task["tick"]
           u == Head(k.rest)
           q == Tail(k.rest)
<1>1. /\ k \in TaskRecords /\ TaskTyped /\ k.rest \in Seq(Underlyings)
      /\ k.order \in Contracts <=> k.pc \in InFlight
  BY TaskFacts DEF Tasks
<1>2. u \in Underlyings /\ q \in Seq(Underlyings) /\ k.pc = "scan"
  BY <1>1, RestTyped DEF ScanEntry, At
<1> HIDE DEF u, q
<1>3. CASE /\ task' = [task EXCEPT !["tick"].rest = q] /\ UNCHANGED tangled
           /\ (UNCHANGED engine \/ \E signal : Polled(u, signal))
  <2> DEFINE r == [k EXCEPT !.rest = q]
  <2>1. r \in TaskRecords /\ (r.order \in Contracts <=> r.pc \in InFlight)
    BY <1>1, <1>2 DEF TaskRecords
  <2>2. task' = [task EXCEPT !["tick"] = r]
    BY <1>1, <1>3 DEF TaskTyped, TaskRecords, Tasks
  <2> HIDE DEF r
  <2>3. TaskTyped'
    BY <1>1, <2>1, <2>2, TaskStep DEF Tasks
  <2>4. engine' \in [Underlyings -> Books]
    BY <1>2, <1>3, PolledTyped DEF TypeOK, Books
  <2> QED BY <1>3, <2>3, <2>4 DEF ScanEntry, TypeOK, TaskTyped, Books, clock, journal
<1>4. ASSUME NEW c \in Resolved(u), Polled(u, "ENTER"),
             task' = [task EXCEPT !["tick"].rest = q, !["tick"].pc = "buy", !["tick"].order = c],
             tangled' = (tangled \/ Entangles("tick"))
      PROVE  TypeOK'
  <2> DEFINE r == [k EXCEPT !.rest = q, !.pc = "buy", !.order = c]
  <2>1. c \in Contracts
    BY <1>2 DEF Resolved, Contracts
  <2>2. r \in TaskRecords /\ (r.order \in Contracts <=> r.pc \in InFlight)
    BY <1>1, <1>2, <2>1 DEF TaskRecords, InFlight
  <2>3. task' = [task EXCEPT !["tick"] = r]
    BY <1>1, <1>4 DEF TaskTyped, TaskRecords, Tasks
  <2> HIDE DEF r
  <2>4. TaskTyped'
    BY <1>1, <2>2, <2>3, TaskStep DEF Tasks
  <2>5. engine' \in [Underlyings -> Books]
    BY <1>2, <1>4, PolledTyped
  <2>6. (tangled \/ Entangles("tick")) \in BOOLEAN
    OBVIOUS
  <2>7. tangled' \in BOOLEAN
    BY <1>4, <2>6, Zenon
  <2> QED BY <2>4, <2>5, <2>7 DEF ScanEntry, TypeOK, TaskTyped, Books, clock, journal
<1> QED BY <1>3, <1>4 DEF ScanEntry, u, q

LEMMA EntryTyped == TypeOK /\ (FillEntry \/ SettleEntry) => TypeOK'
<1> SUFFICES ASSUME TypeOK, FillEntry \/ SettleEntry PROVE TypeOK'
  OBVIOUS
<1> DEFINE k == task["tick"]
           c == k.order
<1>1. /\ k \in TaskRecords /\ TaskTyped /\ (c \in Contracts <=> k.pc \in InFlight)
  BY TaskFacts DEF Tasks
<1>2. c \in Contracts /\ Under(c) \in Underlyings
  BY <1>1 DEF FillEntry, SettleEntry, At, InFlight, Contracts, Under
<1>3. CASE FillEntry
  <2> DEFINE r == [k EXCEPT !.pc = "bought"]
  <2>1. r \in TaskRecords /\ (r.order \in Contracts <=> r.pc \in InFlight)
    BY <1>1, <1>2 DEF TaskRecords, InFlight
  <2>2. task' = [task EXCEPT !["tick"] = r]
    BY <1>1, <1>3 DEF FillEntry, Goes, TaskTyped, TaskRecords, Tasks
  <2> HIDE DEF r
  <2>3. TaskTyped'
    BY <1>1, <2>1, <2>2, TaskStep DEF Tasks
  <2>4. pos' \in [Contracts -> Int] /\ pnl' \in Int /\ booked' \in Nat
    BY <1>2, <1>3, AppliedTyped DEF FillEntry
  <2> QED BY <1>3, <2>3, <2>4 DEF FillEntry, TypeOK, TaskTyped, clock, history
<1>4. CASE SettleEntry
  <2> DEFINE r == [k EXCEPT !.pc = "scan", !.order = <<>>]
  <2>1. r \in TaskRecords /\ (r.order \in Contracts <=> r.pc \in InFlight)
    BY <1>1, NoContract DEF TaskRecords, InFlight
  <2>2. task' = [task EXCEPT !["tick"] = r]
    BY <1>1, <1>4 DEF SettleEntry, TaskTyped, TaskRecords, Tasks
  <2> HIDE DEF r
  <2>3. TaskTyped'
    BY <1>1, <2>1, <2>2, TaskStep DEF Tasks
  <2>4. gov' \in Governor
    <3>1. gov \in Governor
      BY DEF TypeOK
    <3> QED BY <1>2, <1>4, <3>1, RecordsTyped DEF SettleEntry
  <2>5. engine' \in [Underlyings -> Books]
    <3>1. engine \in [Underlyings -> Books]
      BY DEF TypeOK, Books
    <3> QED BY <1>2, <1>4, <3>1 DEF SettleEntry, Books
  <2>6. legs' \subseteq Contracts
    BY <1>2, <1>4 DEF SettleEntry, TypeOK
  <2> QED BY <1>4, <2>3, <2>4, <2>5, <2>6
    DEF SettleEntry, TypeOK, TaskTyped, Books, clock, journal, history
<1> QED BY <1>3, <1>4

LEMMA HaltTyped ==
  TypeOK /\ (Halt \/ SweepNext \/ FillReverse \/ SettleReverse \/ SweepDone \/ Resume) => TypeOK'
<1> SUFFICES ASSUME TypeOK,
                    Halt \/ SweepNext \/ FillReverse \/ SettleReverse \/ SweepDone \/ Resume
             PROVE  TypeOK'
  OBVIOUS
<1> DEFINE k == task["halt"]
<1>1. /\ k \in TaskRecords /\ TaskTyped /\ k.todo \subseteq Contracts /\ k.qty \in Int
      /\ k.order \in Contracts <=> k.pc \in InFlight
  BY TaskFacts DEF Tasks
<1>2. Order \in Seq(Underlyings) /\ MaxFaults \in Nat
  BY SleeveAssumption DEF SleeveAssumption
<1>3. CASE Halt
  <2> DEFINE r == [Idle EXCEPT !.pc = "flatten", !.rest = Order]
  <2>1. r \in TaskRecords /\ (r.order \in Contracts <=> r.pc \in InFlight)
    BY <1>2, IdleTask DEF TaskRecords, Flattening, InFlight
  <2>2. task' = [task EXCEPT !["halt"] = r]
    BY <1>3 DEF Halt
  <2> HIDE DEF r
  <2>3. TaskTyped'
    BY <1>1, <2>1, <2>2, TaskStep DEF Tasks
  <2>4. faults' \in 0..MaxFaults
    BY <1>2, <1>3 DEF Halt, TypeOK
  <2> QED BY <1>3, <2>3, <2>4 DEF Halt, TypeOK, TaskTyped, journal, history
<1>4. CASE SweepNext
  <2>1. PICK c \in k.todo :
          LET next == [task EXCEPT !["halt"].todo = @ \ {c}]
          IN IF pos[c] = 0
               THEN task' = next /\ UNCHANGED tangled
               ELSE /\ task' = [next EXCEPT !["halt"].pc = "reverse",
                                  !["halt"].order = c, !["halt"].qty = pos[c]]
                    /\ tangled' = TRUE
    BY <1>4 DEF SweepNext
  <2> DEFINE r == [k EXCEPT !.todo = @ \ {c}]
             s == [r EXCEPT !.pc = "reverse", !.order = c, !.qty = pos[c]]
  <2>2. c \in Contracts /\ pos[c] \in Int
    BY <1>1 DEF TypeOK
  <2>3. r \in TaskRecords /\ (r.order \in Contracts <=> r.pc \in InFlight)
    BY <1>1 DEF TaskRecords
  <2>4. s \in TaskRecords /\ (s.order \in Contracts <=> s.pc \in InFlight)
    <3> HIDE DEF r
    <3> QED BY <2>2, <2>3 DEF TaskRecords, InFlight
  <2>5. task' = [task EXCEPT !["halt"] = r] \/ task' = [task EXCEPT !["halt"] = s]
    BY <1>1, <2>1 DEF TaskTyped, TaskRecords, Tasks
  <2> HIDE DEF r, s
  <2>6. TaskTyped'
    BY <1>1, <2>3, <2>4, <2>5, TaskStep DEF Tasks
  <2>7. tangled' \in BOOLEAN
    BY <2>1 DEF TypeOK
  <2> QED BY <1>4, <2>6, <2>7 DEF SweepNext, TypeOK, TaskTyped, clock, journal
<1>5. CASE FillReverse
  <2> DEFINE r == [k EXCEPT !.pc = "reversed"]
  <2>1. k.order \in Contracts /\ -k.qty \in Int
    BY <1>1, <1>5 DEF FillReverse, At, InFlight
  <2>2. r \in TaskRecords /\ (r.order \in Contracts <=> r.pc \in InFlight)
    BY <1>1, <2>1 DEF TaskRecords, InFlight
  <2>3. task' = [task EXCEPT !["halt"] = r]
    BY <1>1, <1>5 DEF FillReverse, Goes, TaskTyped, TaskRecords, Tasks
  <2> HIDE DEF r
  <2>4. TaskTyped'
    BY <1>1, <2>2, <2>3, TaskStep DEF Tasks
  <2>5. pos' \in [Contracts -> Int] /\ pnl' \in Int /\ booked' \in Nat
    BY <1>5, <2>1, AppliedTyped DEF FillReverse
  <2> QED BY <1>5, <2>4, <2>5 DEF FillReverse, TypeOK, TaskTyped, clock, history
<1>6. CASE SettleReverse
  <2> DEFINE zero == 0
             r == [k EXCEPT !.pc = "sweep", !.order = <<>>, !.qty = zero]
  <2>0. zero \in Int
    OBVIOUS
  <2> HIDE DEF zero
  <2>1. r \in TaskRecords /\ (r.order \in Contracts <=> r.pc \in InFlight)
    BY <1>1, <2>0, NoContract DEF TaskRecords, InFlight
  <2>2. task' = [task EXCEPT !["halt"] = r]
    BY <1>1, <1>6 DEF zero, SettleReverse, TaskTyped, TaskRecords, Tasks
  <2> HIDE DEF r
  <2>3. TaskTyped'
    BY <1>1, <2>1, <2>2, TaskStep DEF Tasks
  <2> QED BY <1>6, <2>3 DEF SettleReverse, TypeOK, TaskTyped, clock, journal, history
<1>7. CASE SweepDone
  <2>1. TaskTyped'
    BY <1>1, <1>7, IdleTask, TaskStep DEF SweepDone, Tasks
  <2> QED BY <1>7, <2>1 DEF SweepDone, TypeOK, TaskTyped, clock, journal, history
<1>8. CASE Resume
  BY <1>8 DEF Resume, TypeOK, clock, journal, history
<1> QED BY <1>3, <1>4, <1>5, <1>6, <1>7, <1>8

(* boot counts a finite number of contracts.                               *)
LEMMA ReconciledTyped ==
  ASSUME NEW held \in SUBSET Contracts
  PROVE  Reconciled(held) \in Governor
<1>1. IsFiniteSet(Contracts)
  BY SleeveAssumption, FS_Product DEF SleeveAssumption, Contracts
<1>2. IsFiniteSet(held) /\ \A u : IsFiniteSet({c \in held : Under(c) = u})
  BY <1>1, FS_Subset
<1>3. Cardinality(held) \in Nat /\ \A u : Cardinality({c \in held : Under(c) = u}) \in Nat
  BY <1>2, FS_CardinalityType
<1> DEFINE of == [u \in Underlyings |-> Cardinality({c \in held : Under(c) = u})]
           n == Cardinality(held)
<1>4. of \in [Underlyings -> Nat] /\ n \in Nat
  BY <1>3
<1>5. Reconciled(held) = [FreshGovernor EXCEPT !.open = n, !.openOf = of]
  BY DEF Reconciled
<1> HIDE DEF of, n
<1> QED BY <1>4, <1>5, FreshGovernorTyped DEF Governor

LEMMA EnvironmentTyped ==
  TypeOK /\ (CoolOff \/ TimePasses \/ NextDay \/ Crash \/ Boot) => TypeOK'
<1> SUFFICES ASSUME TypeOK, CoolOff \/ TimePasses \/ NextDay \/ Crash \/ Boot PROVE TypeOK'
  OBVIOUS
<1>1. MaxFaults \in Nat /\ MaxDays \in Nat
  BY SleeveAssumption DEF SleeveAssumption
<1>2. CASE CoolOff \/ TimePasses
  BY <1>2 DEF CoolOff, TimePasses, TypeOK, clock, journal, history
<1>3. CASE NextDay
  <2>1. day' \in 0..MaxDays /\ session' \in 0..day'
    BY <1>1, <1>3 DEF NextDay, TypeOK
  <2> QED BY <1>3, <2>1 DEF NextDay, TypeOK, history
<1>4. CASE Crash
  <2>1. TaskTyped'
    BY <1>4, IdleTask DEF Crash, TaskTyped
  <2>2. engine' \in [Underlyings -> Books] /\ gov' \in Governor
    BY <1>4, BlankTyped, FreshGovernorTyped DEF Crash
  <2>3. faults' \in 0..MaxFaults
    BY <1>1, <1>4 DEF Crash, TypeOK
  <2> QED BY <1>4, <2>1, <2>2, <2>3 DEF Crash, TypeOK, TaskTyped, Books, journal, history
<1>5. CASE Boot
  <2> DEFINE restored == {c \in Contracts : pos[c] # 0}
  <2>1. PICK held \in SUBSET restored :
          /\ legs' = held
          /\ strays' = strays \cup (restored \ held)
          /\ state' = IF held = {} THEN "PRE_OPEN" ELSE "MANAGING"
          /\ \/ /\ gov' = SeedTrades(Reconciled(held), Head(Order), booked, pnl)
                /\ UNCHANGED blind
             \/ gov' = Reconciled(held) /\ blind' = TRUE
    BY <1>5 DEF Boot
  <2>2. gov' \in Governor
    BY <2>1, ReconciledTyped, SeedTyped DEF TypeOK
  <2>3. /\ legs' \subseteq Contracts /\ strays' \subseteq Contracts /\ blind' \in BOOLEAN
        /\ state' \in {"PRE_OPEN", "ARMED", "MANAGING", "FLATTEN_ALL", "DONE"}
    BY <2>1 DEF TypeOK
  <2>4. session' \in 0..day'
    BY <1>5 DEF Boot, TypeOK
  <2> QED BY <1>5, <2>2, <2>3, <2>4 DEF Boot, TypeOK, journal
<1> QED BY <1>2, <1>3, <1>4, <1>5

LEMMA NextTypeOK == TypeOK /\ [Next]_vars => TypeOK'
<1> SUFFICES ASSUME TypeOK, [Next]_vars PROVE TypeOK'
  OBVIOUS
<1>1. CASE StartTick \/ PollExits \/ ScanEntry \/ FillEntry \/ SettleEntry
  BY <1>1, StartTickTyped, PollExitsTyped, ScanEntryTyped, EntryTyped
<1>2. CASE ExitsDone \/ ResidualDone \/ SquareOffDone \/ FlattenOpenDone \/ ScanDone
  BY <1>2, ExitsDoneTyped, RestDoneTyped
<1>3. ASSUME NEW t \in Tasks, PickLegs(t) \/ SubmitExit(t) \/ FillExit(t) \/ SettleExit(t)
      PROVE  TypeOK'
  BY <1>3, PickLegsTyped, SubmitExitTyped, FillExitTyped, SettleExitTyped
<1>4. CASE Halt \/ SweepNext \/ FillReverse \/ SettleReverse \/ SweepDone \/ Resume
  BY <1>4, HaltTyped
<1>5. CASE CoolOff \/ TimePasses \/ NextDay \/ Crash \/ Boot
  BY <1>5, EnvironmentTyped
<1>6. CASE UNCHANGED vars
  BY <1>6 DEF vars, TypeOK
<1> QED BY <1>1, <1>2, <1>3, <1>4, <1>5, <1>6 DEF Next, TickStep, HaltStep, Tasks

(* Every reachable state of the sleeve is well typed.                      *)
THEOREM SleeveTyped == Spec => []TypeOK
<1> QED BY InitTypeOK, NextTypeOK, PTL DEF Spec

-----------------------------------------------------------------------------
(* Within a session, every step of the sleeve leaves the governor alone or *)
(* goes through its operations, which only tighten it.                     *)
LEMMA GovernorStep ==
  ASSUME TypeOK, [Next]_vars, up, up', session' = session
  PROVE  Tightens(gov, gov')
<1>1. gov \in Governor
  BY DEF TypeOK
<1>2. CASE UNCHANGED gov
  BY <1>1, <1>2, FloorTyped DEF Tightens
<1>3. CASE ExitsDone
  <2>1. /\ Recompute(gov) \in Governor /\ ConsumeRequest(Recompute(gov)) \in Governor
        /\ Tightens(gov, Recompute(gov))
        /\ Tightens(Recompute(gov), ConsumeRequest(Recompute(gov)))
    BY <1>1, RecomputeTyped, ConsumeTyped, RecomputeTightens, RecordsTighten
  <2>2. Tightens(gov, ConsumeRequest(Recompute(gov)))
    BY <1>1, <2>1, TightensTransitive
  <2> QED BY <1>2, <1>3, <2>2 DEF ExitsDone
<1>4. ASSUME NEW t \in Tasks, SettleExit(t) PROVE Tightens(gov, gov')
  <2> DEFINE u == Under(task[t].order)
             p == task[t].gain
             g == RecordClose(gov, u)
  <2>1. u \in Underlyings /\ p \in Int
    BY <1>4, TaskFacts DEF SettleExit, At, InFlight, Contracts, Under
  <2>2. g \in Governor /\ Tightens(gov, g)
    BY <1>1, <2>1, RecordsTyped, RecordsTighten
  <2> HIDE DEF g
  <2>3. RecordTradeClose(g, p) \in Governor /\ Tightens(g, RecordTradeClose(g, p))
    BY <2>1, <2>2, TradeCloseTyped, TradeCloseTightens
  <2>4. Tightens(gov, RecordTradeClose(g, p))
    BY <1>1, <2>2, <2>3, TightensTransitive
  <2> QED BY <1>2, <1>4, <2>4 DEF SettleExit, Retired, g
<1>5. CASE SettleEntry
  BY <1>1, <1>5, RecordsTighten DEF SettleEntry
<1>6. CASE StartTick
  BY <1>2, <1>6 DEF StartTick
<1>7. CASE \/ PollExits \/ ResidualDone \/ SquareOffDone \/ ScanEntry \/ ScanDone \/ FillEntry
           \/ FlattenOpenDone \/ SweepNext \/ FillReverse \/ SettleReverse \/ SweepDone
           \/ Halt \/ Resume \/ CoolOff \/ TimePasses \/ NextDay \/ UNCHANGED vars
  BY <1>2, <1>7
    DEF PollExits, ResidualDone, SquareOffDone, ScanEntry, ScanDone, FillEntry, FlattenOpenDone,
      SweepNext, FillReverse, SettleReverse, SweepDone, Halt, Resume, CoolOff, TimePasses,
      NextDay, vars
<1>8. ASSUME NEW t \in Tasks, PickLegs(t) \/ SubmitExit(t) \/ FillExit(t)
      PROVE  Tightens(gov, gov')
  BY <1>2, <1>8 DEF PickLegs, SubmitExit, FillExit
<1>9. CASE Crash \/ Boot
  BY <1>9 DEF Crash, Boot
<1> QED BY <1>3, <1>4, <1>5, <1>6, <1>7, <1>8, <1>9 DEF Next, TickStep, HaltStep, Tasks

(* The governor latches: within a session no restarted decision, late exit *)
(* or reset of the streak reopens a day that was stood down or lowers the  *)
(* floor that the profit lock defends.                                     *)
THEOREM GovernorOnlyTightens == Spec => GovernorLatches
<1>1. TypeOK /\ [Next]_vars =>
        [up /\ up' /\ session' = session =>
           /\ gov.state = "STOOD_DOWN" => gov'.state = "STOOD_DOWN"
           /\ DefendedFloor(gov') >= DefendedFloor(gov)]_vars
  BY GovernorStep DEF Tightens
<1> QED BY <1>1, SleeveTyped, PTL DEF Spec, GovernorLatches

-----------------------------------------------------------------------------
(* Why the day's caps survive a restart.  InPlace says where each task may *)
(* stand: a task has something to go back to exactly while it sells, only  *)
(* a halted engine flattens, and a tick is always one of today.            *)
TickAt == {"idle", "exits", "squareoff", "residual", "scan", "sell", "sold", "buy", "bought"}
HaltAt == {"idle", "flatten", "sweep", "sell", "sold", "reverse", "reversed"}

Selling(t) == task[t].pc \in {"sell", "sold"}

InPlace ==
  /\ task["tick"].pc \in TickAt /\ task["halt"].pc \in HaltAt
  /\ task["tick"].back \in {"idle", "exits", "squareoff", "residual"}
  /\ task["halt"].back \in {"idle", "flatten"}
  /\ \A t \in Tasks : task[t].back = "idle" <=> ~Selling(t)
  /\ task["halt"].pc # "idle" => halted
  /\ task["tick"].pc # "idle" => session = day
  /\ ~up => \A t \in Tasks : task[t].pc = "idle"
  /\ up /\ session # day => legs = {}

LEMMA InitInPlace == Init => InPlace
  BY DEF Init, InPlace, TickAt, HaltAt, Selling, Idle, Tasks

LEMMA ExitInPlace ==
  ASSUME TypeOK, InPlace, NEW t \in Tasks,
         PickLegs(t) \/ SubmitExit(t) \/ FillExit(t) \/ SettleExit(t)
  PROVE  InPlace'
<1>1. /\ task \in [Tasks -> TaskRecords] /\ "tick" \in Tasks /\ "halt" \in Tasks
      /\ t \in {"tick", "halt"}
  BY DEF TypeOK, Tasks
<1>2. CASE PickLegs(t) \/ FillExit(t)
  <2>1. /\ \A s \in Tasks \ {t} : task'[s] = task[s]
        /\ task'[t].back = task[t].back
        /\ task'[t].pc = task[t].pc \/ (task[t].pc = "sell" /\ task'[t].pc = "sold")
    <3>1. CASE PickLegs(t)
      BY <1>1, <3>1 DEF PickLegs, TaskRecords
    <3>2. CASE FillExit(t)
      <4>1. PICK g : task' = [task EXCEPT ![t].pc = "sold", ![t].gain = g]
        BY <3>2 DEF FillExit
      <4>2. task[t].pc = "sell"
        BY <3>2 DEF FillExit, At
      <4> QED BY <1>1, <4>1, <4>2 DEF TaskRecords
    <3> QED BY <1>2, <3>1, <3>2
  <2>2. \A s \in Tasks : Selling(s)' <=> Selling(s)
    BY <2>1 DEF Selling
  <2> QED BY <1>1, <1>2, <2>1, <2>2
    DEF InPlace, PickLegs, FillExit, TickAt, HaltAt, Selling, clock, At
<1>3. CASE SubmitExit(t)
  <2>1. /\ \A s \in Tasks \ {t} : task'[s] = task[s]
        /\ \/ task'[t].pc = task[t].pc /\ task'[t].back = task[t].back
           \/ task'[t].pc = "sell" /\ task'[t].back = task[t].pc
        /\ task[t].pc \in {"exits"} \cup Flattening
    <3>1. PICK c \in task[t].todo :
            LET skipped == [task EXCEPT ![t].todo = @ \ {c}]
            IN \/ task' = skipped
               \/ task' = [skipped EXCEPT ![t].pc = "sell", ![t].order = c,
                             ![t].qty = ExitQty(t, c), ![t].back = task[t].pc]
      BY <1>3 DEF SubmitExit
    <3>2. task[t].pc \in {"exits"} \cup Flattening
      BY <1>3 DEF SubmitExit
    <3>3. CASE task' = [task EXCEPT ![t].todo = @ \ {c}]
      BY <1>1, <3>2, <3>3 DEF TaskRecords
    <3>4. CASE task' = [[task EXCEPT ![t].todo = @ \ {c}] EXCEPT ![t].pc = "sell",
                          ![t].order = c, ![t].qty = ExitQty(t, c), ![t].back = task[t].pc]
      BY <1>1, <3>2, <3>4 DEF TaskRecords
    <3> QED BY <3>1, <3>3, <3>4
  <2>2. legs' \subseteq legs /\ UNCHANGED <<up, day, session, halted>>
    BY <1>3 DEF SubmitExit, clock
  <2>3. CASE t = "tick"
    BY <1>1, <2>1, <2>2, <2>3 DEF InPlace, TickAt, Selling, Flattening
  <2>4. CASE t = "halt"
    BY <1>1, <2>1, <2>2, <2>4 DEF InPlace, HaltAt, Selling, Flattening
  <2> QED BY <1>1, <2>3, <2>4
<1>4. CASE SettleExit(t)
  <2>1. /\ \A s \in Tasks \ {t} : task'[s] = task[s]
        /\ task'[t].pc = task[t].back /\ task'[t].back = "idle"
        /\ task[t].pc = "sold"
    BY <1>1, <1>4 DEF SettleExit, At, TaskRecords
  <2>2. legs' \subseteq legs
    BY <1>4 DEF SettleExit
  <2> QED BY <1>1, <1>4, <2>1, <2>2
    DEF InPlace, SettleExit, TickAt, HaltAt, Selling, clock
<1> QED BY <1>2, <1>3, <1>4

LEMMA NextInPlace == TypeOK /\ InPlace /\ [Next]_vars => InPlace'
<1> SUFFICES ASSUME TypeOK, InPlace, [Next]_vars PROVE InPlace'
  OBVIOUS
<1>1. /\ task \in [Tasks -> TaskRecords] /\ "tick" \in Tasks /\ "halt" \in Tasks
      /\ Tasks = {"tick", "halt"}
  BY DEF TypeOK, Tasks
<1>2. ASSUME NEW t \in Tasks, PickLegs(t) \/ SubmitExit(t) \/ FillExit(t) \/ SettleExit(t)
      PROVE  InPlace'
  BY <1>2, ExitInPlace
<1>3. CASE StartTick
  <2>1. /\ task'["halt"] = task["halt"]
        /\ task'["tick"].pc = "exits" /\ task'["tick"].back = "idle"
    BY <1>1, <1>3 DEF StartTick, Idle
  <2>2. up' => (session' # day' => legs' = {})
    BY <1>3 DEF StartTick, clock
  <2> QED BY <1>1, <1>3, <2>1, <2>2 DEF InPlace, StartTick, At, TickAt, Selling, clock
<1>4. CASE PollExits \/ ScanEntry \/ FillEntry \/ SettleEntry
  <2>1. /\ task'["halt"] = task["halt"] /\ task'["tick"].back = task["tick"].back
        /\ task["tick"].pc \in {"exits", "scan", "buy", "bought"}
        /\ task'["tick"].pc \in {"exits", "scan", "buy", "bought"}
    BY <1>1, <1>4 DEF PollExits, ScanEntry, FillEntry, SettleEntry, At, Goes, TaskRecords
  <2>2. /\ UNCHANGED <<up, session, day, halted>> /\ (legs' = legs \/ task["tick"].pc = "bought")
    BY <1>4 DEF PollExits, ScanEntry, FillEntry, SettleEntry, At, clock
  <2> QED BY <1>1, <2>1, <2>2 DEF InPlace, TickAt, Selling
<1>5. CASE ExitsDone \/ ResidualDone \/ SquareOffDone \/ ScanDone
  <2>1. task["tick"].pc \in {"exits", "residual", "squareoff", "scan"}
    BY <1>5 DEF ExitsDone, ResidualDone, SquareOffDone, ScanDone, At
  <2>2. /\ Idle.pc = "idle" /\ Idle.back = "idle" /\ task["tick"].back = "idle"
        /\ [Idle EXCEPT !.pc = "scan", !.rest = Order].pc = "scan"
        /\ [Idle EXCEPT !.pc = "scan", !.rest = Order].back = "idle"
    BY <1>1, <2>1 DEF Idle, InPlace, Selling
  <2>3. \/ task' = [task EXCEPT !["tick"] = Idle]
        \/ task' = [task EXCEPT !["tick"] = [Idle EXCEPT !.pc = "scan", !.rest = Order]]
        \/ task' = [task EXCEPT !["tick"].pc = "squareoff", !["tick"].rest = Order]
        \/ task' = [task EXCEPT !["tick"].pc = "residual", !["tick"].rest = Order]
    BY <1>5 DEF ExitsDone, ResidualDone, SquareOffDone, ScanDone, Onwards
  <2>4. /\ task'["halt"] = task["halt"] /\ task'["tick"].back = "idle"
        /\ task'["tick"].pc \in {"residual", "squareoff", "scan", "idle"}
    <3>1. CASE \/ task' = [task EXCEPT !["tick"] = Idle]
               \/ task' = [task EXCEPT !["tick"] = [Idle EXCEPT !.pc = "scan", !.rest = Order]]
      BY <1>1, <2>2, <3>1
    <3>2. CASE \/ task' = [task EXCEPT !["tick"].pc = "squareoff", !["tick"].rest = Order]
               \/ task' = [task EXCEPT !["tick"].pc = "residual", !["tick"].rest = Order]
      BY <1>1, <2>2, <3>2 DEF TaskRecords
    <3> QED BY <2>3, <3>1, <3>2
  <2>5. UNCHANGED <<up, session, day, halted, legs>>
    BY <1>5 DEF ExitsDone, ResidualDone, SquareOffDone, ScanDone, clock
  <2> QED BY <1>1, <2>1, <2>4, <2>5 DEF InPlace, TickAt, Selling
<1>6. CASE Halt
  <2>1. /\ task'["tick"] = task["tick"]
        /\ task'["halt"].pc = "flatten" /\ task'["halt"].back = "idle"
    BY <1>1, <1>6 DEF Halt, Idle
  <2> QED BY <1>1, <1>6, <2>1 DEF InPlace, Halt, At, HaltAt, Selling
<1>7. CASE FlattenOpenDone \/ SweepNext \/ FillReverse \/ SettleReverse \/ SweepDone
  <2>1. task["halt"].pc \in {"flatten", "sweep", "reverse", "reversed"} /\ task["halt"].back = "idle"
    BY <1>1, <1>7
      DEF FlattenOpenDone, SweepNext, FillReverse, SettleReverse, SweepDone, At, InPlace, Selling
  <2>3. /\ task'["tick"] = task["tick"] /\ task'["halt"].back = "idle"
        /\ task'["halt"].pc \in {"idle", "sweep", "reverse", "reversed"}
    <3>1. CASE FlattenOpenDone \/ FillReverse \/ SettleReverse
      BY <1>1, <2>1, <3>1 DEF FlattenOpenDone, FillReverse, SettleReverse, Goes, TaskRecords
    <3>2. CASE SweepDone
      BY <1>1, <3>2 DEF SweepDone, Idle
    <3>3. CASE SweepNext
      <4>1. PICK c \in task["halt"].todo :
              LET next == [task EXCEPT !["halt"].todo = @ \ {c}]
              IN \/ task' = next
                 \/ task' = [next EXCEPT !["halt"].pc = "reverse",
                               !["halt"].order = c, !["halt"].qty = pos[c]]
        BY <3>3 DEF SweepNext
      <4>2. task["halt"].pc = "sweep"
        BY <3>3 DEF SweepNext, At
      <4> QED BY <1>1, <2>1, <4>1, <4>2 DEF TaskRecords
    <3> QED BY <1>7, <3>1, <3>2, <3>3
  <2>2. UNCHANGED <<up, session, day, halted, legs>>
    BY <1>7 DEF FlattenOpenDone, SweepNext, FillReverse, SettleReverse, SweepDone, clock
  <2> QED BY <1>1, <2>1, <2>2, <2>3 DEF InPlace, HaltAt, Selling
<1>8. CASE Resume \/ CoolOff \/ TimePasses \/ UNCHANGED vars
  BY <1>8 DEF InPlace, Selling, Resume, At, CoolOff, TimePasses, vars, clock
<1>9. CASE NextDay
  BY <1>1, <1>9 DEF InPlace, Selling, NextDay, AtRest
<1>10. CASE Crash
  BY <1>1, <1>10 DEF InPlace, Selling, Crash, Idle, TickAt, HaltAt
<1>11. CASE Boot
  BY <1>1, <1>11 DEF InPlace, Selling, Boot
<1> QED BY <1>1, <1>2, <1>3, <1>4, <1>5, <1>6, <1>7, <1>8, <1>9, <1>10, <1>11
  DEF Next, TickStep, HaltStep

-----------------------------------------------------------------------------
(* Untangled, no position is short, an exit sells no more than is held,    *)
(* and the tasks take turns with their orders.                             *)
Orderly ==
  /\ \A c \in Contracts : pos[c] >= 0
  /\ task["halt"].pc \notin {"reverse", "reversed"}
  /\ ~(task["tick"].pc \in InFlight /\ task["halt"].pc \in InFlight)
  /\ \A t \in Tasks : task[t].pc = "sell" =>
       pos[task[t].order] > 0 /\ task[t].qty \in 0..pos[task[t].order]
  /\ up /\ Selling("halt") => session = day

Untangled == ~tangled => Orderly

(* What the journal has of a task's order and the governor not yet.        *)
Unsettled(t) == IF task[t].pc = "sold" THEN task[t].gain ELSE 0
Opening == IF task["tick"].pc = "bought" THEN 1 ELSE 0

(* The governor's counts are the journal's; on a new day, before the tick  *)
(* that resets the governor, nothing is booked.                            *)
Accounts == up /\ ~tangled /\ ~blind =>
  IF session = day
    THEN booked = gov.trades + Opening /\ pnl = gov.realized + Unsettled("tick") + Unsettled("halt")
    ELSE booked = 0 /\ pnl = 0

(* From its governor step on, a tick scans under a state that is derived   *)
(* from the realized P&L, and submits an entry under the cap.              *)
Deriving ==
  \/ task["tick"].pc \in {"residual", "scan", "buy", "bought"}
  \/ Selling("tick") /\ task["tick"].back = "residual"

Derives ==
  /\ Deriving => (gov.realized <= -MaxLoss => gov.state = "STOOD_DOWN")
  /\ task["tick"].pc = "buy" => gov.trades < MaxTrades

Caps == Untangled /\ Accounts /\ Derives /\ TradesWithinCap

LEMMA InitCaps == Init => Caps
<1> SUFFICES ASSUME Init PROVE Caps
  OBVIOUS
<1>1. \A t \in Tasks : task[t].pc = "idle"
  BY DEF Init, Idle
<1>2. pos \in [Contracts -> {0}] /\ booked = 0 /\ pnl = 0
  BY DEF Init
<1>3. gov.trades = 0 /\ gov.realized = 0
  BY DEF Init, FreshGovernor
<1>4. MaxTrades \in Nat
  BY GovernorAssumption DEF GovernorAssumption
<1> QED BY <1>1, <1>2, <1>3, <1>4
  DEF Caps, Untangled, Orderly, Accounts, Derives, Deriving, TradesWithinCap, Tasks, InFlight,
      Selling, Unsettled, Opening

(* The steps that place no order and touch neither book.                   *)
Calm == {"idle", "exits", "squareoff", "residual", "flatten", "sweep", "scan"}

Unmoved(t) ==
  /\ task'[t].pc = task[t].pc /\ task'[t].order = task[t].order
  /\ task'[t].qty = task[t].qty /\ task'[t].gain = task[t].gain /\ task'[t].back = task[t].back

CalmStep(t) == task[t].pc \in Calm /\ task'[t].pc \in Calm

StillBooks == UNCHANGED <<up, day, session, pos, gov, booked, pnl, tangled, blind>>

LEMMA CalmApart == Calm \cap (InFlight \cup {"reverse", "reversed"}) = {}
  BY DEF Calm, InFlight

LEMMA StillCaps ==
  ASSUME TypeOK, Caps, StillBooks, \A t \in Tasks : Unmoved(t) \/ CalmStep(t),
         task'["tick"].pc \in {"residual", "scan"} => task["tick"].pc \in {"residual", "scan"}
  PROVE  Caps'
<1>1. Tasks = {"tick", "halt"}
  BY DEF Tasks
<1>2. \A t \in Tasks : task'[t].pc \in InFlight => Unmoved(t)
  BY CalmApart DEF CalmStep
<1>3. Untangled'
  <2>1. SUFFICES ASSUME ~tangled' PROVE Orderly'
    BY DEF Untangled
  <2> QED BY <1>1, <1>2, <2>1 DEF Caps, Untangled, Orderly, StillBooks, Unmoved, CalmStep, Calm, InFlight, Selling
<1>4. \A t \in Tasks : Unsettled(t)' = Unsettled(t)
  BY CalmApart DEF Unsettled, Unmoved, CalmStep, InFlight
<1>5. Opening' = Opening
  BY <1>1, CalmApart DEF Opening, Unmoved, CalmStep, InFlight
<1>6. Accounts'
  BY <1>1, <1>4, <1>5 DEF Caps, Accounts, StillBooks
<1>7. (Deriving' => Deriving) /\ (task'["tick"].pc = "buy" => task["tick"].pc = "buy")
  BY <1>1, CalmApart DEF Deriving, Selling, Unmoved, CalmStep, InFlight
<1>8. Derives' /\ TradesWithinCap'
  BY <1>7 DEF Caps, Derives, TradesWithinCap, StillBooks
<1> QED BY <1>3, <1>6, <1>8 DEF Caps

(* The steps that leave every task where it stands or move it between two  *)
(* places where it has no order out.                                       *)
LEMMA CalmSteps ==
  ASSUME TypeOK,
         \/ PollExits \/ ResidualDone \/ SquareOffDone \/ FlattenOpenDone \/ ScanDone
         \/ SweepDone \/ Halt \/ Resume \/ CoolOff \/ TimePasses \/ UNCHANGED vars
         \/ \E t \in Tasks : PickLegs(t)
  PROVE  /\ StillBooks /\ UNCHANGED <<legs, strays>>
         /\ \A t \in Tasks : Unmoved(t) \/ CalmStep(t)
         /\ task'["tick"].pc \in {"residual", "scan"} => task["tick"].pc \in {"residual", "scan"}
<1>1. /\ task \in [Tasks -> TaskRecords] /\ "tick" \in Tasks /\ "halt" \in Tasks
      /\ Tasks = {"tick", "halt"}
  BY DEF TypeOK, Tasks
<1>2. StillBooks /\ UNCHANGED <<legs, strays>>
  BY DEF StillBooks, PollExits, ResidualDone, SquareOffDone, FlattenOpenDone, ScanDone, SweepDone,
     Halt, Resume, CoolOff, TimePasses, PickLegs, vars, clock, journal, history
<1>3. Idle.pc = "idle" /\ [Idle EXCEPT !.pc = "scan", !.rest = Order].pc = "scan"
      /\ [Idle EXCEPT !.pc = "flatten", !.rest = Order].pc = "flatten"
  BY DEF Idle
<1>4. CASE Resume \/ CoolOff \/ TimePasses \/ UNCHANGED vars
  BY <1>1, <1>2, <1>4 DEF Resume, CoolOff, TimePasses, vars, Unmoved
<1>5. CASE PollExits
  <2>1. Unmoved("tick") /\ Unmoved("halt")
    <3>1. PICK todo : task' = [task EXCEPT !["tick"].rest = Tail(@), !["tick"].todo = todo]
      BY <1>5 DEF PollExits
    <3> QED BY <1>1, <3>1 DEF Unmoved, TaskRecords
  <2> QED BY <1>1, <1>2, <2>1 DEF Unmoved
<1>6. CASE \E t \in Tasks : PickLegs(t)
  <2>1. Unmoved("tick") /\ Unmoved("halt")
    BY <1>1, <1>6 DEF PickLegs, Unmoved, TaskRecords
  <2> QED BY <1>1, <1>2, <2>1 DEF Unmoved
<1>7. CASE ResidualDone \/ SquareOffDone \/ ScanDone
  <2>1. task["tick"].pc \in {"residual", "squareoff", "scan"} /\ task["tick"].pc \in Calm
    BY <1>7 DEF ResidualDone, SquareOffDone, ScanDone, At, Calm
  <2>2. \/ task' = [task EXCEPT !["tick"] = Idle]
        \/ /\ task' = [task EXCEPT !["tick"] = [Idle EXCEPT !.pc = "scan", !.rest = Order]]
           /\ task["tick"].pc = "residual"
    BY <1>7 DEF ResidualDone, SquareOffDone, ScanDone, Onwards, At
  <2>3. /\ task'["halt"] = task["halt"]
        /\ task'["tick"].pc = "idle" \/ (task'["tick"].pc = "scan" /\ task["tick"].pc = "residual")
    BY <1>1, <1>3, <2>2
  <2>4. CalmStep("tick") /\ Unmoved("halt")
    BY <2>1, <2>3 DEF CalmStep, Calm, Unmoved
  <2> QED BY <1>1, <1>2, <2>3, <2>4
<1>8. CASE FlattenOpenDone \/ SweepDone \/ Halt
  <2>1. task["halt"].pc \in Calm
    BY <1>8 DEF FlattenOpenDone, SweepDone, Halt, At, Calm
  <2>2. task'["tick"] = task["tick"] /\ task'["halt"].pc \in {"sweep", "idle", "flatten"}
    <3>1. CASE FlattenOpenDone
      BY <1>1, <3>1 DEF FlattenOpenDone, TaskRecords
    <3>2. CASE SweepDone
      BY <1>1, <1>3, <3>2 DEF SweepDone
    <3>3. CASE Halt
      BY <1>1, <1>3, <3>3 DEF Halt
    <3> QED BY <1>8, <3>1, <3>2, <3>3
  <2>3. CalmStep("halt") /\ Unmoved("tick")
    BY <2>1, <2>2 DEF CalmStep, Calm, Unmoved
  <2> QED BY <1>1, <1>2, <2>2, <2>3
<1> QED BY <1>4, <1>5, <1>6, <1>7, <1>8

LEMMA CalmCaps ==
  ASSUME TypeOK, Caps,
         \/ PollExits \/ ResidualDone \/ SquareOffDone \/ FlattenOpenDone \/ ScanDone
         \/ SweepDone \/ Halt \/ Resume \/ CoolOff \/ TimePasses \/ UNCHANGED vars
         \/ \E t \in Tasks : PickLegs(t)
  PROVE  Caps'
  BY CalmSteps, StillCaps

LEMMA StartTickCaps == TypeOK /\ InPlace /\ Caps /\ StartTick => Caps'
<1> SUFFICES ASSUME TypeOK, InPlace, Caps, StartTick PROVE Caps'
  OBVIOUS
<1>1. /\ task \in [Tasks -> TaskRecords] /\ "tick" \in Tasks /\ "halt" \in Tasks
      /\ Tasks = {"tick", "halt"}
  BY DEF TypeOK, Tasks
<1>2. /\ task'["halt"] = task["halt"] /\ task'["tick"].pc = "exits"
      /\ task["tick"].pc = "idle"
  BY <1>1 DEF StartTick, At, Idle
<1>3. CalmStep("tick") /\ Unmoved("halt")
  BY <1>2 DEF CalmStep, Calm, Unmoved
<1>4. UNCHANGED <<up, day, pos, booked, pnl, tangled, blind>> /\ up /\ session' = day
  BY DEF StartTick, At, clock, journal, history
<1>5. CASE session = day
  BY <1>1, <1>2, <1>3, <1>4, <1>5, StillCaps DEF StartTick, StillBooks
<1>6. CASE session # day
  <2>1. gov'.trades = 0 /\ gov'.realized = 0
    BY <1>6 DEF StartTick, FreshGovernor
  <2>2. Untangled'
    BY <1>1, <1>2, <1>4, <1>6 DEF Caps, Untangled, Orderly, InFlight, Selling
  <2>3. ~tangled => Unsettled("halt")' = 0 /\ Unsettled("tick")' = 0 /\ Opening' = 0
    BY <1>2, <1>4, <1>6 DEF Caps, Untangled, Orderly, Unsettled, Opening, Selling
  <2>4. Accounts'
    BY <1>4, <1>6, <2>1, <2>3 DEF Caps, Accounts
  <2> QED BY <1>2, <1>4, <2>2, <2>4 DEF Caps, Derives, Deriving, Selling, TradesWithinCap
<1> QED BY <1>5, <1>6

(* The governor step of a tick. *)
LEMMA ExitsDoneCaps == TypeOK /\ InPlace /\ Caps /\ ExitsDone => Caps'
<1> SUFFICES ASSUME TypeOK, InPlace, Caps, ExitsDone PROVE Caps'
  OBVIOUS
<1>1. /\ task \in [Tasks -> TaskRecords] /\ "tick" \in Tasks /\ "halt" \in Tasks
      /\ Tasks = {"tick", "halt"} /\ gov \in Governor
  BY DEF TypeOK, Tasks
<1>2. UNCHANGED <<up, day, session, pos, booked, pnl, tangled, blind>> /\ task["tick"].pc = "exits"
  BY DEF ExitsDone, At, clock, journal, history
<1>3. Idle.pc = "idle" /\ [Idle EXCEPT !.pc = "scan", !.rest = Order].pc = "scan"
  BY DEF Idle
<1>4. \/ /\ task' = [task EXCEPT !["tick"].pc = "squareoff", !["tick"].rest = Order]
         /\ gov' = gov
      \/ /\ gov' = ConsumeRequest(Recompute(gov))
         /\ \/ task' = [task EXCEPT !["tick"].pc = "residual", !["tick"].rest = Order]
            \/ task' = [task EXCEPT !["tick"] = Idle]
            \/ task' = [task EXCEPT !["tick"] = [Idle EXCEPT !.pc = "scan", !.rest = Order]]
  BY DEF ExitsDone, Onwards
<1>5. /\ task'["halt"] = task["halt"]
      /\ task'["tick"].pc \in {"squareoff", "residual", "idle", "scan"}
      /\ gov' = gov \/ gov' = ConsumeRequest(Recompute(gov))
      /\ gov' = gov => task'["tick"].pc = "squareoff" \/ gov' = ConsumeRequest(Recompute(gov))
  BY <1>1, <1>3, <1>4, ZenonT(40) DEF TaskRecords
<1>6. /\ gov'.trades = gov.trades /\ gov'.realized = gov.realized
      /\ task'["tick"].pc # "squareoff" => (gov.realized <= -MaxLoss => gov'.state = "STOOD_DOWN")
  <2>1. CASE gov' = ConsumeRequest(Recompute(gov))
    <3>1. /\ Recompute(gov) \in Governor /\ Recompute(gov).realized = gov.realized
          /\ Recompute(gov).trades = gov.trades
          /\ gov.realized <= -MaxLoss => Recompute(gov).state = "STOOD_DOWN"
      BY <1>1, RecomputeTyped, RecomputeTightens
    <3> QED BY <2>1, <3>1 DEF ConsumeRequest, Governor
  <2> QED BY <1>5, <2>1
<1>7. Untangled'
  BY <1>1, <1>2, <1>5 DEF Caps, Untangled, Orderly, InFlight, Selling
<1>8. \A t \in Tasks : Unsettled(t)' = Unsettled(t)
  BY <1>1, <1>2, <1>5 DEF Unsettled
<1>9. Opening' = Opening
  BY <1>2, <1>5 DEF Opening
<1>10. Accounts'
  BY <1>1, <1>2, <1>6, <1>8, <1>9 DEF Caps, Accounts
<1>11. Derives'
  BY <1>5, <1>6 DEF Derives, Deriving, Selling
<1> QED BY <1>2, <1>7, <1>10, <1>11 DEF Caps, TradesWithinCap

LEMMA TheTasks ==
  ASSUME TypeOK
  PROVE  /\ task \in [Tasks -> TaskRecords] /\ "tick" \in Tasks /\ "halt" \in Tasks
         /\ Tasks = {"tick", "halt"}
         /\ gov \in Governor /\ pos \in [Contracts -> Int] /\ booked \in Nat /\ pnl \in Int
         /\ \A t \in Tasks : task[t].qty \in Int /\ task[t].gain \in Int
         /\ \A t \in Tasks : task[t].order \in Contracts <=> task[t].pc \in InFlight
  BY DEF TypeOK, Tasks, TaskRecords

(* An exit that is submitted: of a contract held, and no more than that;   *)
(* that another order is out is recorded.                                  *)
LEMMA SubmitExitCaps ==
  ASSUME TypeOK, InPlace, Caps, NEW t \in Tasks, SubmitExit(t)
  PROVE  Caps'
<1>1. /\ task \in [Tasks -> TaskRecords] /\ Tasks = {"tick", "halt"}
      /\ pos \in [Contracts -> Int]
  BY TheTasks
<1>2. /\ UNCHANGED <<up, day, session, pos, gov, booked, pnl, blind>>
      /\ task[t].pc \in {"exits"} \cup Flattening /\ up
  BY DEF SubmitExit, clock, journal
<1>3. PICK c \in task[t].todo :
        LET skipped == [task EXCEPT ![t].todo = @ \ {c}]
        IN \/ task' = skipped /\ UNCHANGED tangled
           \/ /\ c \in legs /\ pos[c] # 0
              /\ task' = [skipped EXCEPT ![t].pc = "sell", ![t].order = c,
                            ![t].qty = ExitQty(t, c), ![t].back = task[t].pc]
              /\ tangled' = (tangled \/ Entangles(t))
  BY DEF SubmitExit
<1>4. CASE task' = [task EXCEPT ![t].todo = @ \ {c}] /\ UNCHANGED tangled
  <2>1. Unmoved("tick") /\ Unmoved("halt")
    BY <1>1, <1>4 DEF Unmoved, TaskRecords
  <2> QED BY <1>1, <1>2, <1>4, <2>1, StillCaps DEF StillBooks, Unmoved
<1>5. CASE /\ c \in legs /\ pos[c] # 0
           /\ task' = [[task EXCEPT ![t].todo = @ \ {c}] EXCEPT ![t].pc = "sell", ![t].order = c,
                         ![t].qty = ExitQty(t, c), ![t].back = task[t].pc]
           /\ tangled' = (tangled \/ Entangles(t))
  <2>1. /\ \A s \in Tasks \ {t} : task'[s] = task[s]
        /\ task'[t].pc = "sell" /\ task'[t].order = c /\ task'[t].qty = ExitQty(t, c)
        /\ task'[t].back = task[t].pc
    BY <1>1, <1>5 DEF TaskRecords
  <2>2. c \in Contracts /\ engine[Under(c)].lots \in Nat
    BY <1>5 DEF TypeOK, Contracts, Under
  <2>3. up /\ session # day => legs = {}
    BY DEF InPlace
  <2>4. session = day
    BY <1>2, <1>5, <2>3
  <2>5. pos[c] >= 0 => pos[c] > 0 /\ ExitQty(t, c) \in 0..pos[c]
    BY <1>1, <1>5, <2>2 DEF ExitQty, Smaller, Abs
  <2>6. Untangled'
    <3>1. SUFFICES ASSUME ~tangled' PROVE Orderly'
      BY DEF Untangled
    <3>2. ~tangled /\ ~Entangles(t) /\ Orderly
      BY <1>5, <3>1 DEF Caps, Untangled
    <3>3. \A s \in Tasks \ {t} : task'[s].pc \notin InFlight
      BY <2>1, <3>2 DEF Entangles
    <3>4. /\ task'["halt"].pc \notin {"reverse", "reversed"}
          /\ ~(task'["tick"].pc \in InFlight /\ task'["halt"].pc \in InFlight)
      BY <1>1, <2>1, <3>3 DEF InFlight
    <3>5. \A s \in Tasks : task'[s].pc = "sell" =>
            pos[task'[s].order] > 0 /\ task'[s].qty \in 0..pos[task'[s].order]
      BY <2>1, <2>2, <2>5, <3>2, <3>3 DEF Orderly, InFlight
    <3> QED BY <1>2, <2>4, <3>2, <3>4, <3>5 DEF Orderly
  <2>7. task[t].pc \in Calm
    BY <1>2 DEF Calm, Flattening
  <2>8. \A s \in Tasks : Unsettled(s)' = Unsettled(s)
    BY <2>1, <2>7 DEF Unsettled, Calm
  <2>9. Opening' = Opening
    BY <1>1, <2>1, <2>7 DEF Opening, Calm
  <2>10. Accounts'
    BY <1>1, <1>2, <1>5, <2>8, <2>9 DEF Caps, Accounts
  <2>11. (Deriving' => Deriving) /\ (task'["tick"].pc = "buy" => task["tick"].pc = "buy")
    BY <1>1, <2>1, <2>7 DEF Deriving, Selling, Calm
  <2>12. Derives' /\ TradesWithinCap'
    BY <1>2, <1>5, <2>11 DEF Caps, Derives, TradesWithinCap
  <2> QED BY <2>6, <2>10, <2>12 DEF Caps
<1> QED BY <1>3, <1>4, <1>5

(* What a fill of n units of a contract that is not short books.           *)
LEMMA FillBooks ==
  ASSUME TypeOK, NEW t, NEW c \in Contracts, NEW n \in Int, NEW g, Applied(t, c, n, g),
         pos[c] >= 0
  PROVE  /\ n = 1 => booked' = booked + 1 /\ pnl' = pnl
         /\ n <= 0 /\ pos[c] > 0 /\ -n <= pos[c] => booked' = booked
<1>1. pos[c] \in Int /\ booked \in Nat /\ pnl \in Int
  BY DEF TypeOK
<1>2. ASSUME n = 1 PROVE booked' = booked + 1 /\ pnl' = pnl
  <2>1. pos[c] = 0 \/ (pos[c] > 0 <=> n > 0)
    BY <1>1, <1>2
  <2>2. ~(pos[c] # 0 /\ (pos[c] > 0 <=> n < 0))
    BY <1>1, <1>2
  <2>3. g = 0
    BY <2>2 DEF Applied
  <2> QED BY <1>1, <2>1, <2>3 DEF Applied
<1>3. ASSUME n <= 0, pos[c] > 0, -n <= pos[c] PROVE booked' = booked
  <2>1. ~(pos[c] = 0 \/ (pos[c] > 0 <=> n > 0) \/ Abs(n) > Abs(pos[c]))
    BY <1>1, <1>3 DEF Abs
  <2> QED BY <2>1 DEF Applied
<1> QED BY <1>2, <1>3

(* An exit that fills: no opening is booked, and what it realized is with  *)
(* the task until the governor is told.                                    *)
LEMMA FillExitCaps ==
  ASSUME TypeOK, InPlace, InPlace', Caps, NEW t \in Tasks, FillExit(t)
  PROVE  Caps'
<1>1. /\ task \in [Tasks -> TaskRecords] /\ Tasks = {"tick", "halt"}
      /\ pos \in [Contracts -> Int] /\ task[t].qty \in Int /\ pnl \in Int
      /\ task[t].order \in Contracts <=> task[t].pc \in InFlight
  BY TheTasks
<1>2. UNCHANGED <<up, day, session, gov, tangled, blind>> /\ task[t].pc = "sell" /\ up
  BY DEF FillExit, At, clock, history
<1>3. PICK g \in Pnls \cup {0} : /\ Applied(t, task[t].order, -task[t].qty, g)
                                 /\ task' = [task EXCEPT ![t].pc = "sold", ![t].gain = g]
  BY DEF FillExit
<1>4. g \in Int
  BY SleeveAssumption DEF SleeveAssumption
<1>5. /\ \A s \in Tasks \ {t} : task'[s] = task[s]
      /\ task'[t].pc = "sold" /\ task'[t].gain = g /\ task'[t].back = task[t].back
  BY <1>1, <1>3 DEF TaskRecords
<1> DEFINE c == task[t].order
           q == task[t].qty
<1>6. c \in Contracts
  BY <1>1, <1>2 DEF InFlight
<1>7. pos' = [pos EXCEPT ![c] = @ + (-q)] /\ pnl' = pnl + g
  BY <1>3 DEF Applied
<1>8. ASSUME ~tangled
      PROVE  /\ Orderly /\ pos[c] > 0 /\ q \in 0..pos[c] /\ booked' = booked
             /\ \A s \in Tasks \ {t} : task[s].pc \notin InFlight
             /\ session = day
  <2>1. Orderly
    BY <1>8 DEF Caps, Untangled
  <2>2. pos[c] > 0 /\ q \in 0..pos[c]
    BY <1>2, <2>1 DEF Orderly
  <2>3. \A s \in Tasks \ {t} : task[s].pc \notin InFlight
    BY <1>1, <1>2, <2>1 DEF Orderly, InFlight
  <2>4. session = day
    BY <1>1, <1>2, <2>1 DEF Orderly, Selling, InPlace
  <2>5. booked' = booked
    <3>1. -q \in Int /\ -q <= 0 /\ -(-q) <= pos[c] /\ pos[c] >= 0
      BY <1>1, <1>6, <2>2
    <3> QED BY <1>3, <1>6, <2>2, <3>1, FillBooks
  <2> QED BY <2>1, <2>2, <2>3, <2>4, <2>5
<1>9. Untangled'
  <2>1. SUFFICES ASSUME ~tangled' PROVE Orderly'
    BY DEF Untangled
  <2>2. ~tangled
    BY <1>2, <2>1
  <2>3. \A d \in Contracts : pos'[d] >= 0
    <3> HIDE DEF q, c
    <3> QED BY <1>1, <1>6, <1>7, <1>8, <2>2 DEF Orderly
  <2>4. \A s \in Tasks : task'[s].pc # "sell"
    BY <1>5, <1>8, <2>2 DEF InFlight
  <2>5. /\ task'["halt"].pc \notin {"reverse", "reversed"}
        /\ ~(task'["tick"].pc \in InFlight /\ task'["halt"].pc \in InFlight)
    BY <1>1, <1>5, <1>8, <2>2 DEF InFlight
  <2> QED BY <1>2, <1>8, <2>2, <2>3, <2>4, <2>5 DEF Orderly
<1>10. Accounts'
  <2>1. SUFFICES ASSUME ~tangled, ~blind
                 PROVE  booked' = gov'.trades + Opening' /\ pnl' = gov'.realized + Unsettled("tick")' + Unsettled("halt")'
    BY <1>2, <1>8 DEF Accounts
  <2>2. /\ booked = gov.trades + Opening
        /\ pnl = gov.realized + Unsettled("tick") + Unsettled("halt")
    BY <1>2, <1>8, <2>1 DEF Caps, Accounts
  <2>3. /\ Unsettled(t) = 0 /\ Unsettled(t)' = g
        /\ \A s \in Tasks \ {t} : Unsettled(s)' = 0 /\ Unsettled(s) = 0
    BY <1>2, <1>5, <1>8, <2>1 DEF Unsettled, InFlight
  <2>4. Opening' = Opening
    BY <1>1, <1>2, <1>5 DEF Opening
  <2>5. gov.realized \in Int
    BY TheTasks DEF Governor
  <2> QED BY <1>1, <1>2, <1>4, <1>7, <1>8, <2>1, <2>2, <2>3, <2>4, <2>5
<1>11. (Deriving' => Deriving) /\ (task'["tick"].pc = "buy" => task["tick"].pc = "buy")
  BY <1>1, <1>2, <1>5 DEF Deriving, Selling
<1>12. Derives'
  BY <1>2, <1>11 DEF Caps, Derives
<1>13. TradesWithinCap'
  BY <1>2, <1>8 DEF Caps, TradesWithinCap
<1> QED BY <1>9, <1>10, <1>12, <1>13 DEF Caps

(* The rest of an exit: the governor is told what it realized, or part of  *)
(* the contract is left.                                                   *)
LEMMA SettleExitCaps ==
  ASSUME TypeOK, InPlace, Caps, NEW t \in Tasks, SettleExit(t)
  PROVE  Caps'
<1>1. /\ task \in [Tasks -> TaskRecords] /\ Tasks = {"tick", "halt"} /\ gov \in Governor
      /\ task[t].gain \in Int
      /\ task[t].order \in Contracts <=> task[t].pc \in InFlight
  BY TheTasks
<1>2. /\ UNCHANGED <<up, day, session, pos, booked, pnl, blind>>
      /\ task[t].pc = "sold" /\ up
  BY DEF SettleExit, At, clock, journal
<1>3. /\ \A s \in Tasks \ {t} : task'[s] = task[s]
      /\ task'[t].pc = task[t].back
  BY <1>1 DEF SettleExit, TaskRecords
<1>4. task[t].back \in Calm \ {"scan", "idle"} /\ (t = "tick" => task[t].back # "flatten")
  BY <1>1, <1>2 DEF InPlace, Selling, Calm
<1> DEFINE c == task[t].order
<1>5. \/ Retires(c) /\ gov' = Retired(c, task[t].gain) /\ tangled' = tangled
      \/ tangled' = TRUE /\ gov' = gov
  BY DEF SettleExit
<1>6. CASE tangled' = TRUE /\ gov' = gov
  <2>1. task'["tick"].pc = "buy" => task["tick"].pc = "buy"
    BY <1>1, <1>2, <1>3, <1>4 DEF Calm
  <2>2. Deriving' => Deriving
    BY <1>1, <1>2, <1>3, <1>4 DEF Deriving, Selling, Calm
  <2>3. Derives'
    BY <1>6, <2>1, <2>2 DEF Caps, Derives
  <2> QED BY <1>6, <2>3 DEF Caps, Untangled, Accounts, TradesWithinCap
<1>7. CASE gov' = Retired(c, task[t].gain) /\ tangled' = tangled
  <2>1. Under(c) \in Underlyings
    BY <1>1, <1>2 DEF InFlight, Contracts, Under
  <2>2. /\ RecordClose(gov, Under(c)) \in Governor
        /\ RecordClose(gov, Under(c)).realized = gov.realized
        /\ RecordClose(gov, Under(c)).trades = gov.trades
    BY <1>1, <2>1, RecordsTyped DEF RecordClose, Governor
  <2>3. /\ gov'.realized = gov.realized + task[t].gain /\ gov'.trades = gov.trades
        /\ gov'.realized <= -MaxLoss => gov'.state = "STOOD_DOWN"
    <3> DEFINE h == RecordClose(gov, Under(c))
               gain == task[t].gain
    <3>1. gov' = RecordTradeClose(h, gain) /\ gain \in Int /\ h \in Governor
      BY <1>1, <1>7, <2>2 DEF Retired
    <3>2. h.realized = gov.realized /\ h.trades = gov.trades
      BY <2>2
    <3> HIDE DEF h, gain
    <3>3. /\ gov'.realized = h.realized + gain /\ gov'.trades = h.trades
          /\ gov'.realized <= -MaxLoss => gov'.state = "STOOD_DOWN"
      BY <3>1, TradeCloseTightens
    <3> QED BY <3>2, <3>3 DEF gain
  <2>4. Untangled'
    <3>1. SUFFICES ASSUME ~tangled' PROVE Orderly'
      BY DEF Untangled
    <3>2. Orderly /\ ~tangled
      BY <1>7, <3>1 DEF Caps, Untangled
    <3>3. \A s \in Tasks \ {t} : task[s].pc \notin InFlight
      BY <1>1, <1>2, <3>2 DEF Orderly, InFlight
    <3> QED BY <1>1, <1>2, <1>3, <1>4, <3>2, <3>3 DEF Orderly, Calm, InFlight, Selling
  <2>5. Accounts'
    <3>1. SUFFICES ASSUME ~tangled, ~blind, session = day
                   PROVE  /\ booked' = gov'.trades + Opening'
                          /\ pnl' = gov'.realized + Unsettled("tick")' + Unsettled("halt")'
      <4>1. ~tangled => session = day
        BY <1>1, <1>2 DEF Caps, Untangled, Orderly, Selling, InPlace
      <4> QED BY <1>2, <1>7, <4>1 DEF Accounts
    <3>2. /\ booked = gov.trades + Opening
          /\ pnl = gov.realized + Unsettled("tick") + Unsettled("halt")
      BY <1>2, <3>1 DEF Caps, Accounts
    <3>3. \A s \in Tasks \ {t} : task[s].pc \notin InFlight
      BY <1>1, <1>2, <3>1 DEF Caps, Untangled, Orderly, InFlight
    <3>4. /\ Unsettled(t) = task[t].gain /\ Unsettled(t)' = 0
          /\ \A s \in Tasks \ {t} : Unsettled(s)' = 0 /\ Unsettled(s) = 0
      BY <1>2, <1>3, <1>4, <3>3 DEF Unsettled, InFlight, Calm
    <3>5. Opening' = Opening
      BY <1>1, <1>2, <1>3, <1>4 DEF Opening, Calm
    <3>6. gov.realized \in Int
      BY <1>1 DEF Governor
    <3> QED BY <1>1, <1>2, <2>3, <3>2, <3>4, <3>5, <3>6
  <2>6. Derives'
    <3>1. task'["tick"].pc = "buy" => task["tick"].pc = "buy"
      BY <1>1, <1>2, <1>3, <1>4 DEF Calm
    <3> QED BY <2>3, <3>1 DEF Caps, Derives
  <2> QED BY <1>2, <1>7, <2>4, <2>5, <2>6 DEF Caps, TradesWithinCap
<1> QED BY <1>5, <1>6, <1>7

(* An entry is submitted only while the governor allows it. *)
LEMMA ScanEntryCaps == TypeOK /\ InPlace /\ Caps /\ ScanEntry => Caps'
<1> SUFFICES ASSUME TypeOK, InPlace, Caps, ScanEntry PROVE Caps'
  OBVIOUS
<1>1. /\ task \in [Tasks -> TaskRecords] /\ Tasks = {"tick", "halt"} /\ "tick" \in Tasks
      /\ "halt" \in Tasks
  BY TheTasks
<1>2. /\ UNCHANGED <<up, day, session, pos, gov, booked, pnl, blind>>
      /\ task["tick"].pc = "scan" /\ up
  BY DEF ScanEntry, At, clock, journal
<1> DEFINE u == Head(task["tick"].rest)
<1>3. \/ /\ task' = [task EXCEPT !["tick"].rest = Tail(@)]
         /\ tangled' = tangled
      \/ /\ MayEnter(u)
         /\ \E c \in Resolved(u) :
              task' = [[task EXCEPT !["tick"].rest = Tail(@)]
                         EXCEPT !["tick"].pc = "buy", !["tick"].order = c]
         /\ tangled' = (tangled \/ Entangles("tick"))
  BY DEF ScanEntry
<1>4. CASE /\ task' = [task EXCEPT !["tick"].rest = Tail(@)]
           /\ tangled' = tangled
  <2>1. Unmoved("tick") /\ Unmoved("halt")
    BY <1>1, <1>4 DEF Unmoved, TaskRecords
  <2> QED BY <1>1, <1>2, <1>4, <2>1, StillCaps DEF StillBooks, Unmoved
<1>5. CASE /\ MayEnter(u)
           /\ \E c \in Resolved(u) :
                task' = [[task EXCEPT !["tick"].rest = Tail(@)]
                           EXCEPT !["tick"].pc = "buy", !["tick"].order = c]
           /\ tangled' = (tangled \/ Entangles("tick"))
  <2>1. task'["halt"] = task["halt"] /\ task'["tick"].pc = "buy"
    BY <1>1, <1>5 DEF TaskRecords
  <2>2. gov.trades < MaxTrades
    BY <1>5 DEF MayEnter, AllowsOpen
  <2>3. Untangled'
    BY <1>1, <1>2, <1>5, <2>1 DEF Caps, Untangled, Orderly, Entangles, InFlight, Selling
  <2>4. \A t \in Tasks : Unsettled(t)' = Unsettled(t)
    BY <1>1, <1>2, <2>1 DEF Unsettled
  <2>5. Opening' = Opening
    BY <1>2, <2>1 DEF Opening
  <2>6. Accounts'
    BY <1>1, <1>2, <1>5, <2>4, <2>5 DEF Caps, Accounts
  <2>7. Derives'
    BY <1>2, <2>1, <2>2 DEF Caps, Derives, Deriving
  <2> QED BY <1>2, <1>5, <2>3, <2>6, <2>7 DEF Caps, TradesWithinCap
<1> QED BY <1>3, <1>4, <1>5

(* An entry that fills is one more opening. *)
LEMMA FillEntryCaps == TypeOK /\ InPlace /\ Caps /\ FillEntry => Caps'
<1> SUFFICES ASSUME TypeOK, InPlace, Caps, FillEntry PROVE Caps'
  OBVIOUS
<1>1. /\ task \in [Tasks -> TaskRecords] /\ Tasks = {"tick", "halt"} /\ "tick" \in Tasks
      /\ "halt" \in Tasks /\ pos \in [Contracts -> Int] /\ booked \in Nat /\ gov \in Governor
      /\ task["tick"].order \in Contracts <=> task["tick"].pc \in InFlight
  BY TheTasks
<1>2. /\ UNCHANGED <<up, day, session, gov, tangled, blind>>
      /\ task["tick"].pc = "buy" /\ up /\ session = day
  BY DEF FillEntry, At, clock, history, InPlace
<1>3. task'["halt"] = task["halt"] /\ task'["tick"].pc = "bought"
  BY <1>1 DEF FillEntry, Goes, TaskRecords
<1> DEFINE c == task["tick"].order
<1>4. PICK g \in Pnls \cup {0} : Applied("tick", c, 1, g)
  BY DEF FillEntry
<1>5. c \in Contracts
  BY <1>1, <1>2 DEF InFlight
<1>6. pos' = [pos EXCEPT ![c] = @ + 1]
  BY <1>4 DEF Applied
<1>7. ASSUME ~tangled
      PROVE  /\ Orderly /\ pos[c] >= 0 /\ booked' = booked + 1 /\ pnl' = pnl
             /\ task["halt"].pc \notin InFlight
  <2>1. Orderly
    BY <1>7 DEF Caps, Untangled
  <2>2. pos[c] >= 0 /\ task["halt"].pc \notin InFlight
    BY <1>2, <1>5, <2>1 DEF Orderly, InFlight
  <2> QED BY <1>4, <1>5, <2>1, <2>2, FillBooks
<1>8. Untangled'
  <2>1. SUFFICES ASSUME ~tangled PROVE Orderly'
    BY <1>2 DEF Untangled
  <2>2. \A d \in Contracts : pos'[d] >= 0
    <3> HIDE DEF c
    <3> QED BY <1>1, <1>5, <1>6, <1>7, <2>1 DEF Orderly
  <2> QED BY <1>1, <1>2, <1>3, <1>7, <2>1, <2>2 DEF Orderly, InFlight, Selling
<1>9. Unsettled("tick")' = Unsettled("tick") /\ Unsettled("halt")' = Unsettled("halt")
  BY <1>2, <1>3 DEF Unsettled
<1>10. Opening = 0 /\ Opening' = 1 /\ gov.trades \in Nat
  BY <1>1, <1>2, <1>3 DEF Opening, Governor
<1>11. Accounts'
  BY <1>2, <1>7, <1>9, <1>10 DEF Caps, Accounts
<1>12. (Deriving' => Deriving) /\ task'["tick"].pc # "buy"
  BY <1>2, <1>3 DEF Deriving, Selling
<1>13. Derives'
  BY <1>2, <1>12 DEF Caps, Derives
<1>14. TradesWithinCap'
  <2>1. SUFFICES ASSUME ~tangled, ~blind PROVE booked' <= MaxTrades
    BY <1>2 DEF TradesWithinCap
  <2>2. booked = gov.trades /\ gov.trades < MaxTrades
    BY <1>2, <1>10, <2>1 DEF Caps, Accounts, Derives
  <2> QED BY <1>1, <1>7, <2>1, <2>2, GovernorAssumption DEF GovernorAssumption
<1> QED BY <1>8, <1>11, <1>13, <1>14 DEF Caps

LEMMA SettleEntryCaps == TypeOK /\ InPlace /\ Caps /\ SettleEntry => Caps'
<1> SUFFICES ASSUME TypeOK, InPlace, Caps, SettleEntry PROVE Caps'
  OBVIOUS
<1>1. /\ task \in [Tasks -> TaskRecords] /\ Tasks = {"tick", "halt"} /\ "tick" \in Tasks
      /\ "halt" \in Tasks /\ gov \in Governor
  BY TheTasks
<1>2. /\ UNCHANGED <<up, day, session, pos, booked, pnl, tangled, blind>>
      /\ task["tick"].pc = "bought" /\ up
  BY DEF SettleEntry, At, clock, journal, history
<1>3. task'["halt"] = task["halt"] /\ task'["tick"].pc = "scan"
  BY <1>1 DEF SettleEntry, TaskRecords
<1>4. gov'.trades = gov.trades + 1 /\ gov'.realized = gov.realized /\ gov'.state = gov.state
  BY <1>1 DEF SettleEntry, RecordTradeOpen, RecordOpen, Governor
<1>5. Untangled'
  BY <1>1, <1>2, <1>3 DEF Caps, Untangled, Orderly, InFlight, Selling
<1>6. Unsettled("tick")' = Unsettled("tick") /\ Unsettled("halt")' = Unsettled("halt")
  BY <1>2, <1>3 DEF Unsettled
<1>7. Opening = 1 /\ Opening' = 0 /\ gov.trades \in Nat
  BY <1>1, <1>2, <1>3 DEF Opening, Governor
<1>8. Accounts'
  BY <1>2, <1>4, <1>6, <1>7 DEF Caps, Accounts
<1>9. Deriving /\ task'["tick"].pc # "buy"
  BY <1>2, <1>3 DEF Deriving
<1>10. Derives'
  BY <1>4, <1>9 DEF Caps, Derives
<1> QED BY <1>2, <1>5, <1>8, <1>10 DEF Caps, TradesWithinCap

(* The sweep of a halt places no order unless it tangles. *)
LEMMA SweepCaps ==
  TypeOK /\ InPlace /\ Caps /\ (SweepNext \/ FillReverse \/ SettleReverse) => Caps'
<1> SUFFICES ASSUME TypeOK, InPlace, Caps, SweepNext \/ FillReverse \/ SettleReverse PROVE Caps'
  OBVIOUS
<1>1. /\ task \in [Tasks -> TaskRecords] /\ Tasks = {"tick", "halt"} /\ "tick" \in Tasks
      /\ "halt" \in Tasks
  BY TheTasks
<1>2. gov' = gov /\ blind' = blind
  BY DEF SweepNext, FillReverse, SettleReverse, history
<1>3. \/ \E c \in Contracts : task' = [task EXCEPT !["halt"].todo = @ \ {c}] /\ StillBooks
      \/ task'["tick"] = task["tick"] /\ tangled' = TRUE
  <2>1. CASE FillReverse \/ SettleReverse
    <3>1. tangled' = tangled /\ tangled
      BY <2>1, Zenon DEF FillReverse, SettleReverse, At, history, Caps, Untangled, Orderly, TypeOK
    <3> QED BY <1>1, <2>1, <3>1 DEF FillReverse, SettleReverse, Goes, TaskRecords, TypeOK
  <2>2. CASE SweepNext
    <3>1. PICK c \in task["halt"].todo :
            LET next == [task EXCEPT !["halt"].todo = @ \ {c}]
            IN \/ task' = next /\ UNCHANGED tangled
               \/ /\ task' = [next EXCEPT !["halt"].pc = "reverse",
                                !["halt"].order = c, !["halt"].qty = pos[c]]
                  /\ tangled' = TRUE
      BY <2>2 DEF SweepNext
    <3>2. c \in Contracts
      BY <1>1 DEF TaskRecords
    <3>3. CASE task' = [task EXCEPT !["halt"].todo = @ \ {c}] /\ UNCHANGED tangled
      BY <2>2, <3>2, <3>3 DEF SweepNext, StillBooks, clock, journal
    <3>4. CASE /\ task' = [[task EXCEPT !["halt"].todo = @ \ {c}] EXCEPT !["halt"].pc = "reverse",
                             !["halt"].order = c, !["halt"].qty = pos[c]]
               /\ tangled' = TRUE
      BY <1>1, <3>4
    <3> QED BY <3>1, <3>3, <3>4
  <2> QED BY <2>1, <2>2
<1>4. CASE \E c \in Contracts : task' = [task EXCEPT !["halt"].todo = @ \ {c}] /\ StillBooks
  <2>1. Unmoved("tick") /\ Unmoved("halt")
    BY <1>1, <1>4 DEF Unmoved, TaskRecords
  <2> QED BY <1>1, <1>4, <2>1, StillCaps DEF Unmoved
<1>5. CASE task'["tick"] = task["tick"] /\ tangled' = TRUE
  <2>1. Derives'
    BY <1>2, <1>5 DEF Caps, Derives, Deriving, Selling
  <2> QED BY <1>5, <2>1 DEF Caps, Untangled, Accounts, TradesWithinCap
<1> QED BY <1>3, <1>4, <1>5

LEMMA NextDayCaps == TypeOK /\ Caps /\ NextDay => Caps'
<1> SUFFICES ASSUME TypeOK, Caps, NextDay PROVE Caps'
  OBVIOUS
<1>1. \A t \in Tasks : task'[t].pc = "idle"
  BY DEF NextDay, AtRest
<1>2. /\ UNCHANGED <<up, pos, tangled, blind>> /\ session' # day' /\ booked' = 0 /\ pnl' = 0
  BY DEF NextDay, TypeOK, history
<1>3. Tasks = {"tick", "halt"}
  BY DEF Tasks
<1>4. Untangled'
  BY <1>1, <1>2, <1>3 DEF Caps, Untangled, Orderly, InFlight, Selling
<1>5. TradesWithinCap'
  BY <1>2, GovernorAssumption DEF GovernorAssumption, TradesWithinCap
<1> QED BY <1>1, <1>2, <1>3, <1>4, <1>5 DEF Caps, Accounts, Derives, Deriving, Selling

LEMMA CrashCaps == TypeOK /\ Caps /\ Crash => Caps'
<1> SUFFICES ASSUME TypeOK, Caps, Crash PROVE Caps'
  OBVIOUS
<1>1. \A t \in Tasks : task'[t].pc = "idle"
  BY DEF Crash, Idle
<1>2. UNCHANGED <<pos, booked, tangled, blind>> /\ ~up'
  BY DEF Crash, journal, history
<1>3. Tasks = {"tick", "halt"}
  BY DEF Tasks
<1>4. Untangled'
  BY <1>1, <1>2, <1>3 DEF Caps, Untangled, Orderly, InFlight, Selling
<1> QED BY <1>1, <1>2, <1>3, <1>4 DEF Caps, Accounts, Derives, Deriving, Selling, TradesWithinCap

(* The caps survive a restart: boot seeds what the journal has. *)
LEMMA BootCaps == TypeOK /\ InPlace /\ Caps /\ Boot => Caps'
<1> SUFFICES ASSUME TypeOK, InPlace, Caps, Boot PROVE Caps'
  OBVIOUS
<1>1. \A t \in Tasks : task'[t].pc = "idle"
  BY DEF Boot, InPlace
<1>2. UNCHANGED <<pos, booked, pnl, tangled>> /\ session' = day' /\ booked \in Nat /\ pnl \in Int
  BY DEF Boot, journal, TypeOK
<1>3. Tasks = {"tick", "halt"}
  BY DEF Tasks
<1>4. Untangled'
  BY <1>1, <1>2, <1>3 DEF Caps, Untangled, Orderly, InFlight, Selling
<1>5. blind' = TRUE \/ (blind' = blind /\ gov'.trades = booked /\ gov'.realized = pnl)
  BY DEF Boot, SeedTrades, Reconciled, FreshGovernor
<1>6. Unsettled("tick")' = 0 /\ Unsettled("halt")' = 0 /\ Opening' = 0
  BY <1>1, <1>3 DEF Unsettled, Opening
<1>7. Accounts'
  BY <1>2, <1>5, <1>6 DEF Accounts
<1>8. TradesWithinCap'
  BY <1>2, <1>5 DEF Caps, TradesWithinCap
<1> QED BY <1>1, <1>3, <1>4, <1>7, <1>8 DEF Caps, Derives, Deriving, Selling

LEMMA NextCaps == TypeOK /\ InPlace /\ InPlace' /\ Caps /\ [Next]_vars => Caps'
<1> SUFFICES ASSUME TypeOK, InPlace, InPlace', Caps, [Next]_vars PROVE Caps'
  OBVIOUS
<1>1. "tick" \in Tasks /\ "halt" \in Tasks
  BY DEF Tasks
<1>2. CASE TickStep
  BY <1>1, <1>2, StartTickCaps, CalmCaps, SubmitExitCaps, FillExitCaps, SettleExitCaps,
     ExitsDoneCaps, ScanEntryCaps, FillEntryCaps, SettleEntryCaps DEF TickStep
<1>3. CASE HaltStep
  BY <1>1, <1>3, CalmCaps, SubmitExitCaps, FillExitCaps, SettleExitCaps, SweepCaps DEF HaltStep
<1>4. CASE \/ Halt \/ Resume \/ CoolOff \/ TimePasses \/ UNCHANGED vars
  BY <1>4, CalmCaps
<1>5. CASE NextDay \/ Crash \/ Boot
  BY <1>5, NextDayCaps, CrashCaps, BootCaps
<1> QED BY <1>2, <1>3, <1>4, <1>5 DEF Next

LEMMA SleeveCaps == Spec => [](TypeOK /\ InPlace /\ Caps)
<1>1. TypeOK /\ InPlace /\ Caps /\ [Next]_vars => InPlace' /\ Caps'
  BY NextInPlace, NextCaps
<1> QED BY <1>1, InitInPlace, InitCaps, SleeveTyped, PTL DEF Spec

(* The number of opening fills of a day stays within max_trades_per_day,   *)
(* across any number of restarts, as long as no boot failed to read the    *)
(* journal and the flatten of a halt did not cross an order of the tick.   *)
THEOREM TradesCapped == Spec => []TradesWithinCap
  BY SleeveCaps, PTL DEF Caps

(* A step that submits an entry: the realized P&L is above the loss cap.   *)
LEMMA EntrySubmitted ==
  ASSUME TypeOK, InPlace, Caps, Next, task["tick"].pc = "scan", task'["tick"].pc = "buy"
  PROVE  pnl > -MaxLoss \/ blind \/ tangled
<1>1. /\ task \in [Tasks -> TaskRecords] /\ Tasks = {"tick", "halt"} /\ "tick" \in Tasks
      /\ "halt" \in Tasks /\ gov \in Governor /\ pnl \in Int
  BY TheTasks
<1>2. ScanEntry /\ task' # [task EXCEPT !["tick"].rest = Tail(@)]
  <2>1. Idle.pc = "idle"
    BY DEF Idle
  <2>2. task' # [task EXCEPT !["tick"].rest = Tail(@)]
    BY <1>1 DEF TaskRecords
  <2>3. CASE TickStep
    <3>1. ~ScanDone
      BY <1>1, <2>1 DEF ScanDone
    <3> QED BY <2>2, <2>3, <3>1 DEF TickStep, StartTick, PollExits, SubmitExit, FillExit, SettleExit,
          PickLegs, ExitsDone, ResidualDone, SquareOffDone, FillEntry, SettleEntry, At, Flattening
  <2>4. CASE HaltStep \/ Halt \/ Resume \/ CoolOff \/ TimePasses \/ NextDay \/ Crash \/ Boot
    <3>1. task'["tick"] = task["tick"] \/ task'["tick"].pc = "idle"
      <4>1. CASE \/ PickLegs("halt") \/ FlattenOpenDone \/ SettleExit("halt") \/ FillReverse
                 \/ SettleReverse \/ SweepDone \/ Halt
        BY <1>1, <4>1 DEF PickLegs, FlattenOpenDone, SettleExit, FillReverse, SettleReverse,
             SweepDone, Halt, Goes
      <4>2. CASE Resume \/ CoolOff \/ TimePasses \/ NextDay \/ Crash \/ Boot
        BY <1>1, <2>1, <4>2 DEF Resume, CoolOff, TimePasses, NextDay, Crash, Boot
      <4>3. CASE SubmitExit("halt")
        BY <1>1, <4>3 DEF SubmitExit
      <4>4. CASE FillExit("halt")
        BY <1>1, <4>4 DEF FillExit
      <4>5. CASE SweepNext
        BY <1>1, <4>5 DEF SweepNext
      <4> QED BY <2>4, <4>1, <4>2, <4>3, <4>4, <4>5 DEF HaltStep
    <3> QED BY <3>1
  <2> QED BY <2>2, <2>3, <2>4 DEF Next
<1>3. PICK c \in Resolved(Head(task["tick"].rest)) :
        MayEnter(Head(task["tick"].rest)) /\ (~halted \/ pos[c] < 0)
  BY <1>2 DEF ScanEntry
<1>4. Head(task["tick"].rest) \in Underlyings
  BY <1>2, TaskFacts, RestTyped, <1>1 DEF ScanEntry
<1>5. c \in Contracts
  BY <1>3, <1>4 DEF Resolved, Contracts
<1>6. SUFFICES ASSUME ~blind, ~tangled PROVE pnl > -MaxLoss
  OBVIOUS
<1>7. task["halt"].pc = "idle"
  BY <1>3, <1>5, <1>6 DEF Caps, Untangled, Orderly, InPlace, TypeOK
<1>8. pnl = gov.realized
  <2>1. up /\ session = day
    BY <1>2 DEF ScanEntry, At, InPlace
  <2>2. Unsettled("tick") = 0 /\ Unsettled("halt") = 0 /\ gov.realized \in Int
    BY <1>1, <1>7 DEF Unsettled, Governor
  <2> QED BY <1>6, <2>1, <2>2 DEF Caps, Accounts
<1>9. gov.state # "STOOD_DOWN"
  BY <1>3 DEF MayEnter, AllowsOpen
<1>10. ~(gov.realized <= -MaxLoss)
  BY <1>9 DEF Caps, Derives, Deriving
<1> QED BY <1>1, <1>8, <1>10, GovernorAssumption DEF GovernorAssumption

(* No entry is submitted on a day whose realized P&L has reached the loss  *)
(* cap, before a restart or after it.                                      *)
THEOREM LossCapped == Spec => LossCapHolds
<1>1. TypeOK /\ InPlace /\ Caps /\ [Next]_vars =>
        [(task["tick"].pc = "scan" /\ task'["tick"].pc = "buy")
           => (pnl > -MaxLoss \/ blind \/ tangled)]_vars
  BY EntrySubmitted
<1> QED BY <1>1, SleeveCaps, PTL DEF Spec, LossCapHolds

-----------------------------------------------------------------------------
(* Why legs, meter and positions agree.  A contract is managed while it is *)
(* a leg or sold: the flatten of a halt may drop a leg that the tick has   *)
(* just sold, before the tick tells the governor.                          *)
Managed == legs \cup {c \in Contracts : \E t \in Tasks : Selling(t) /\ task[t].order = c}
ManagedOf(u) == {c \in Managed : Under(c) = u}

Metered ==
  ~tangled => /\ Cardinality(Managed) <= gov.open
              /\ \A u \in Underlyings : Cardinality(ManagedOf(u)) <= gov.openOf[u]

(* Once the request is served, what is open is what the tick's flatten has *)
(* yet to sell; and no entry is in flight on a stood-down day.             *)
InResidual == task["tick"].pc = "residual" \/ task["tick"].back = "residual"

Residue ==
  {c \in Contracts : /\ InResidual
                     /\ \/ \E i \in DOMAIN task["tick"].rest : task["tick"].rest[i] = Under(c)
                        \/ c \in task["tick"].todo
                        \/ c = task["tick"].order}

Served ==
  up /\ ~tangled =>
    /\ gov.state = "STOOD_DOWN" /\ ~gov.request => legs \subseteq Residue
    /\ task["tick"].pc \in {"buy", "bought"} => gov.state # "STOOD_DOWN"

Kept == Metered /\ NoOrphan /\ Served

(* The governor stands down with nothing open, or asks for a flatten.      *)
Silent(g) == g.state = "STOOD_DOWN" /\ ~g.request

Asks(g, h) ==
  /\ h.open = g.open /\ h.openOf = g.openOf
  /\ Silent(h) => Silent(g) \/ g.open = 0

LEMMA StandDownAsks ==
  ASSUME NEW g \in Governor PROVE Asks(g, StandDown(g))
<1> DEFINE ask == g.request \/ (g.state # "STOOD_DOWN" /\ g.open > 0)
<1>1. StandDown(g) = [g EXCEPT !.state = "STOOD_DOWN", !.request = ask]
  BY DEF StandDown, Governor
<1>2. StandDown(g).open = g.open /\ StandDown(g).openOf = g.openOf /\ StandDown(g).request = ask
  BY <1>1 DEF Governor
<1>3. ASSUME ~ask PROVE Silent(g) \/ g.open = 0
  <2>1. g.open \in Nat
    BY DEF Governor
  <2>2. ~g.request /\ ~(g.state # "STOOD_DOWN" /\ g.open > 0)
    BY <1>3
  <2>3. g.open > 0 \/ g.open = 0
    BY <2>1
  <2> QED BY <2>2, <2>3 DEF Silent
<1> HIDE DEF ask
<1> QED BY <1>2, <1>3 DEF Asks, Silent

LEMMA LockAsks ==
  ASSUME NEW g \in Governor
  PROVE  LET h == UpdateProfitLock(g)
         IN h.open = g.open /\ h.openOf = g.openOf /\ h.state = g.state /\ h.request = g.request
<1> DEFINE high == Larger(g.high, g.realized)
           floor == Larger(g.floor, high - GiveBack)
<1>1. \/ UpdateProfitLock(g) = g
      \/ UpdateProfitLock(g) = [g EXCEPT !.armed = TRUE, !.high = g.realized, !.floor = FirstFloor]
      \/ UpdateProfitLock(g) = [g EXCEPT !.high = high, !.floor = floor]
  BY DEF UpdateProfitLock, Governor
<1> HIDE DEF high, floor
<1> QED BY <1>1 DEF Governor

LEMMA RecomputeAsks ==
  ASSUME NEW g \in Governor PROVE Asks(g, Recompute(g))
<1> DEFINE locked == UpdateProfitLock(g)
<1>1. /\ locked \in Governor /\ locked.open = g.open /\ locked.openOf = g.openOf
      /\ locked.state = g.state /\ locked.request = g.request
  BY LockTyped, LockAsks
<1>2. Asks(g, StandDown(g)) /\ Asks(locked, StandDown(locked))
  BY <1>1, StandDownAsks
<1> HIDE DEF locked
<1>3. Asks(g, StandDown(locked))
  BY <1>1, <1>2 DEF Asks, Silent
<1>4. Asks(g, g)
  BY DEF Asks
<1>5. ASSUME NEW h \in {g, locked}, NEW w \in {"ACTIVE", "LOCKED", "TRAIL_ONLY"}
      PROVE  Asks(g, [h EXCEPT !.state = w])
  <2>1. /\ [h EXCEPT !.state = w].open = g.open /\ [h EXCEPT !.state = w].openOf = g.openOf
        /\ [h EXCEPT !.state = w].state # "STOOD_DOWN"
    BY <1>1, <1>5 DEF Governor
  <2> QED BY <2>1 DEF Asks, Silent
<1>6. \/ Recompute(g) = StandDown(g) \/ Recompute(g) = g
      \/ Recompute(g) = [g EXCEPT !.state = "ACTIVE"]
      \/ Recompute(g) = [locked EXCEPT !.state = "LOCKED"]
      \/ Recompute(g) = [locked EXCEPT !.state = "TRAIL_ONLY"]
      \/ Recompute(g) = StandDown(locked)
  BY DEF Recompute, locked
<1> QED BY <1>2, <1>3, <1>4, <1>5, <1>6

LEMMA TradeCloseAsks ==
  ASSUME NEW g \in Governor, NEW p \in Int PROVE Asks(g, RecordTradeClose(g, p))
<1> DEFINE f == [g EXCEPT !.realized = @ + p,
                   !.streak = IF p < 0 THEN @ + 1 ELSE IF p > 0 THEN 0 ELSE @]
           h == UpdateProfitLock(f)
<1>0. /\ g.realized + p \in Int
      /\ (IF p < 0 THEN g.streak + 1 ELSE IF p > 0 THEN 0 ELSE g.streak) \in Nat
  BY DEF Governor
<1>1. /\ f \in Governor /\ f.open = g.open /\ f.openOf = g.openOf
      /\ f.state = g.state /\ f.request = g.request
  BY <1>0 DEF Governor
<1>2. RecordTradeClose(g, p) = Recompute(h)
  BY DEF RecordTradeClose
<1> HIDE DEF f
<1>3. /\ h \in Governor /\ h.open = f.open /\ h.openOf = f.openOf
      /\ h.state = f.state /\ h.request = f.request
  BY <1>1, LockTyped, LockAsks
<1> HIDE DEF h
<1>4. Asks(h, Recompute(h))
  BY <1>3, RecomputeAsks
<1> QED BY <1>1, <1>2, <1>3, <1>4 DEF Asks, Silent

-----------------------------------------------------------------------------
(* The meter covers what is managed.                                       *)
LEMMA ManagedFinite ==
  ASSUME TypeOK
  PROVE  /\ Managed \subseteq Contracts /\ legs \subseteq Managed /\ IsFiniteSet(Managed)
         /\ Cardinality(Managed) \in Nat
         /\ \A u \in Underlyings : /\ ManagedOf(u) \subseteq Managed /\ IsFiniteSet(ManagedOf(u))
                                   /\ Cardinality(ManagedOf(u)) \in Nat
<1>1. IsFiniteSet(Contracts)
  BY SleeveAssumption, FS_Product DEF SleeveAssumption, Contracts
<1>2. Managed \subseteq Contracts /\ legs \subseteq Managed
  BY DEF TypeOK, Managed
<1>3. IsFiniteSet(Managed)
  BY <1>1, <1>2, FS_Subset
<1>4. \A u \in Underlyings : ManagedOf(u) \subseteq Managed /\ IsFiniteSet(ManagedOf(u))
  <2>1. \A u \in Underlyings : ManagedOf(u) \subseteq Managed
    BY DEF ManagedOf
  <2> QED BY <1>3, <2>1, FS_Subset
<1> QED BY <1>2, <1>3, <1>4, FS_CardinalityType

LEMMA FewerManaged ==
  ASSUME legs' \subseteq legs,
         \A t \in Tasks : Selling(t)' =>
           \/ Selling(t) /\ task'[t].order = task[t].order
           \/ task'[t].order \in legs
  PROVE  Managed' \subseteq Managed
  BY DEF Managed

LEMMA StillMetered ==
  ASSUME TypeOK, Metered, tangled => tangled', Managed' \subseteq Managed,
         gov'.open = gov.open, gov'.openOf = gov.openOf
  PROVE  Metered'
<1> SUFFICES ASSUME ~tangled' PROVE Metered'
  BY DEF Metered
<1>1. /\ gov.open \in Nat /\ gov.openOf \in [Underlyings -> Nat]
  BY DEF TypeOK, Governor
<1>2. /\ Cardinality(Managed) <= gov.open
      /\ \A u \in Underlyings : Cardinality(ManagedOf(u)) <= gov.openOf[u]
  BY DEF Metered
<1>3. /\ Cardinality(Managed') \in Nat /\ Cardinality(Managed') <= Cardinality(Managed)
      /\ Cardinality(Managed) \in Nat
  BY ManagedFinite, FS_Subset, FS_CardinalityType
<1>4. ASSUME NEW u \in Underlyings
      PROVE  Cardinality(ManagedOf(u)') <= gov'.openOf[u]
  <2>1. ManagedOf(u)' \subseteq ManagedOf(u)
    BY DEF ManagedOf
  <2>2. /\ Cardinality(ManagedOf(u)') \in Nat /\ Cardinality(ManagedOf(u)) \in Nat
        /\ Cardinality(ManagedOf(u)') <= Cardinality(ManagedOf(u))
    BY <2>1, ManagedFinite, FS_Subset, FS_CardinalityType
  <2> QED BY <1>1, <1>2, <2>2
<1>5. Cardinality(Managed') <= gov'.open
  BY <1>1, <1>2, <1>3
<1> QED BY <1>4, <1>5 DEF Metered

LEMMA CalmMetered ==
  ASSUME TypeOK, Metered, \A t \in Tasks : Unmoved(t) \/ CalmStep(t), legs' \subseteq legs,
         tangled => tangled', gov'.open = gov.open, gov'.openOf = gov.openOf
  PROVE  Metered'
<1>1. \A t \in Tasks : Selling(t)' => Selling(t) /\ task'[t].order = task[t].order
  BY CalmApart DEF Selling, Unmoved, CalmStep, InFlight
<1>2. Managed' \subseteq Managed
  BY <1>1, FewerManaged
<1> QED BY <1>2, StillMetered

(* Nothing is managed, and nothing is counted.                             *)
LEMMA EmptyMetered ==
  ASSUME legs' = {}, \A t \in Tasks : ~Selling(t)', gov' = FreshGovernor
  PROVE  Metered'
<1>1. Managed' = {}
  BY DEF Managed
<1>2. \A u \in Underlyings : ManagedOf(u)' = {}
  BY <1>1 DEF ManagedOf
<1> QED BY <1>1, <1>2, FS_EmptySet DEF Metered, FreshGovernor

LEMMA StartTickMetered == TypeOK /\ InPlace /\ Caps /\ Metered /\ StartTick => Metered'
<1> SUFFICES ASSUME TypeOK, InPlace, Caps, Metered, StartTick PROVE Metered'
  OBVIOUS
<1>1. task \in [Tasks -> TaskRecords] /\ Tasks = {"tick", "halt"} /\ "tick" \in Tasks /\ "halt" \in Tasks
  BY TheTasks
<1>2. /\ task'["halt"] = task["halt"] /\ task'["tick"].pc = "exits" /\ task["tick"].pc = "idle"
      /\ tangled' = tangled /\ up
  BY <1>1 DEF StartTick, Idle, At, history
<1>3. CASE session = day
  <2>1. legs' = legs /\ gov' = gov
    BY <1>3 DEF StartTick
  <2>2. CalmStep("tick") /\ Unmoved("halt")
    BY <1>2 DEF CalmStep, Calm, Unmoved
  <2> QED BY <1>1, <1>2, <2>1, <2>2, CalmMetered
<1>4. CASE session # day
  <2>1. legs' = {} /\ gov' = FreshGovernor
    BY <1>4 DEF StartTick
  <2>2. SUFFICES ASSUME ~tangled PROVE Metered'
    BY <1>2 DEF Metered
  <2>3. ~Selling("halt") /\ ~Selling("tick")'
    BY <1>2, <1>4, <2>2 DEF Caps, Untangled, Orderly, Selling
  <2> QED BY <1>1, <1>2, <2>1, <2>3, EmptyMetered DEF Selling
<1> QED BY <1>3, <1>4

(* The history of a tangle is kept. *)
LEMMA TanglesForGood ==
  ASSUME TypeOK, tangled,
         \/ \E t \in Tasks : SubmitExit(t) \/ FillExit(t) \/ SettleExit(t)
         \/ ScanEntry \/ FillEntry \/ SettleEntry \/ SweepNext \/ FillReverse \/ SettleReverse
  PROVE  tangled'
<1>1. CASE \E t \in Tasks : SubmitExit(t)
  BY <1>1, ZenonT(40) DEF SubmitExit, TypeOK
<1>2. CASE \E t \in Tasks : FillExit(t)
  BY <1>2, Zenon DEF FillExit, history, TypeOK
<1>3. CASE \E t \in Tasks : SettleExit(t)
  BY <1>3, Zenon DEF SettleExit, TypeOK
<1>4. CASE ScanEntry
  BY <1>4, Zenon DEF ScanEntry, TypeOK
<1>5. CASE FillEntry \/ SettleEntry \/ FillReverse \/ SettleReverse
  BY <1>5, Zenon DEF FillEntry, SettleEntry, FillReverse, SettleReverse, history, TypeOK
<1>6. CASE SweepNext
  BY <1>6, Zenon DEF SweepNext, TypeOK
<1> QED BY <1>1, <1>2, <1>3, <1>4, <1>5, <1>6

LEMMA SubmitExitMetered ==
  ASSUME TypeOK, Metered, NEW t \in Tasks, SubmitExit(t)
  PROVE  Metered'
<1>1. task \in [Tasks -> TaskRecords]
  BY TheTasks
<1>2. gov' = gov /\ legs' \subseteq legs
  BY DEF SubmitExit
<1>6. tangled => tangled'
  BY TanglesForGood
<1>3. PICK c \in task[t].todo :
        LET skipped == [task EXCEPT ![t].todo = @ \ {c}]
        IN \/ task' = skipped
           \/ /\ c \in legs
              /\ task' = [skipped EXCEPT ![t].pc = "sell", ![t].order = c,
                            ![t].qty = ExitQty(t, c), ![t].back = task[t].pc]
  BY DEF SubmitExit
<1>4. \A s \in Tasks : \/ task'[s].pc = task[s].pc /\ task'[s].order = task[s].order
                       \/ task'[s].order \in legs
  <2>1. CASE task' = [task EXCEPT ![t].todo = @ \ {c}]
    BY <1>1, <2>1 DEF TaskRecords
  <2>2. CASE /\ c \in legs
             /\ task' = [[task EXCEPT ![t].todo = @ \ {c}] EXCEPT ![t].pc = "sell", ![t].order = c,
                           ![t].qty = ExitQty(t, c), ![t].back = task[t].pc]
    <3>1. task'[t].order = c /\ \A s \in Tasks \ {t} : task'[s] = task[s]
      BY <1>1, <2>2 DEF TaskRecords
    <3> QED BY <2>2, <3>1
  <2> QED BY <1>3, <2>1, <2>2
<1>5. Managed' \subseteq Managed
  BY <1>2, <1>4, FewerManaged DEF Selling
<1> QED BY <1>2, <1>5, <1>6, StillMetered

LEMMA FillMetered ==
  ASSUME TypeOK, Metered,
         (\E t \in Tasks : FillExit(t)) \/ ScanEntry \/ FillEntry \/ SweepNext \/ FillReverse \/ SettleReverse
  PROVE  Metered'
<1>1. task \in [Tasks -> TaskRecords] /\ Tasks = {"tick", "halt"} /\ "tick" \in Tasks /\ "halt" \in Tasks
  BY TheTasks
<1>2. UNCHANGED <<gov, legs>>
  BY DEF FillExit, ScanEntry, FillEntry, SweepNext, FillReverse, SettleReverse
<1>5. tangled => tangled'
  BY TanglesForGood
<1>3. \A t \in Tasks : Selling(t)' => Selling(t) /\ task'[t].order = task[t].order
  <2>1. CASE \E t \in Tasks : FillExit(t)
    <3>1. PICK t \in Tasks, g \in Pnls \cup {0} : task[t].pc = "sell" /\ task' = [task EXCEPT ![t].pc = "sold", ![t].gain = g]
      BY <2>1 DEF FillExit, At
    <3> QED BY <1>1, <3>1 DEF Selling, TaskRecords
  <2>2. CASE ScanEntry
    <3>1. task["tick"].pc = "scan" /\ task'["halt"] = task["halt"]
      BY <1>1, <2>2 DEF ScanEntry, At
    <3>2. \/ task' = [task EXCEPT !["tick"].rest = Tail(@)]
          \/ \E c : task' = [[task EXCEPT !["tick"].rest = Tail(@)] EXCEPT !["tick"].pc = "buy",
                                                                            !["tick"].order = c]
      BY <2>2 DEF ScanEntry
    <3>3. task'["tick"].pc \in {"scan", "buy"}
      BY <1>1, <3>1, <3>2 DEF TaskRecords
    <3> QED BY <1>1, <3>1, <3>3 DEF Selling
  <2>3. CASE FillEntry
    BY <1>1, <2>3 DEF FillEntry, Goes, Selling, TaskRecords
  <2>4. CASE FillReverse \/ SettleReverse
    BY <1>1, <2>4 DEF FillReverse, SettleReverse, Goes, Selling, TaskRecords
  <2>5. CASE SweepNext
    <3>1. task["halt"].pc = "sweep" /\ task'["tick"] = task["tick"]
      BY <1>1, <2>5 DEF SweepNext, At
    <3>2. PICK c : \/ task' = [task EXCEPT !["halt"].todo = @ \ {c}]
                   \/ task' = [[task EXCEPT !["halt"].todo = @ \ {c}] EXCEPT !["halt"].pc = "reverse",
                                 !["halt"].order = c, !["halt"].qty = pos[c]]
      BY <2>5 DEF SweepNext
    <3>3. task'["halt"].pc \in {"sweep", "reverse"}
      BY <1>1, <3>1, <3>2 DEF TaskRecords
    <3> QED BY <1>1, <3>1, <3>3 DEF Selling
  <2> QED BY <2>1, <2>2, <2>3, <2>4, <2>5
<1>4. Managed' \subseteq Managed
  BY <1>2, <1>3, FewerManaged
<1> QED BY <1>2, <1>4, <1>5, StillMetered

LEMMA SettleExitMetered ==
  ASSUME TypeOK, InPlace, Caps, Metered, NEW t \in Tasks, SettleExit(t)
  PROVE  Metered'
<1>1. /\ task \in [Tasks -> TaskRecords] /\ Tasks = {"tick", "halt"} /\ gov \in Governor
      /\ task[t].gain \in Int
      /\ task[t].order \in Contracts <=> task[t].pc \in InFlight
  BY TheTasks
<1>2. /\ \A s \in Tasks \ {t} : task'[s] = task[s]
      /\ task'[t].pc = task[t].back /\ task[t].pc = "sold"
  BY <1>1 DEF SettleExit, TaskRecords, At
<1> DEFINE c == task[t].order
           u == Under(c)
           h == RecordClose(gov, u)
<1>3. SUFFICES ASSUME ~tangled' PROVE Metered'
  BY DEF Metered
<1>4. /\ legs' = legs \ {c} /\ gov' = RecordTradeClose(h, task[t].gain) /\ ~tangled
  <2>1. ~tangled
    BY <1>3, TanglesForGood
  <2> QED BY <1>3, <2>1 DEF SettleExit, Retired
<1>5. c \in Contracts /\ u \in Underlyings
  BY <1>1, <1>2 DEF InFlight, Contracts, Under
<1>6. /\ h \in Governor /\ h.open = Larger(0, gov.open - 1)
      /\ h.openOf = [gov.openOf EXCEPT ![u] = Larger(0, @ - 1)]
  BY <1>1, <1>5, RecordsTyped DEF RecordClose, Governor
<1>7. gov'.open = h.open /\ gov'.openOf = h.openOf
  BY <1>1, <1>4, <1>6, TradeCloseAsks DEF Asks
<1>8. \A s \in Tasks : ~(Selling(s)' /\ task'[s].order = c)
  <2>1. \A s \in Tasks \ {t} : task[s].pc \notin InFlight
    BY <1>1, <1>2, <1>4 DEF Caps, Untangled, Orderly, InFlight
  <2>2. task'[t].pc \notin {"sell", "sold"}
    BY <1>1, <1>2 DEF InPlace
  <2> QED BY <1>2, <2>1, <2>2 DEF Selling, InFlight
<1>9. c \in Managed
  BY <1>2, <1>5 DEF Managed, Selling
<1>10. Managed' \subseteq Managed \ {c}
  <2>1. \A s \in Tasks : Selling(s)' => Selling(s) /\ task'[s].order = task[s].order
    BY <1>1, <1>2, <1>8 DEF Selling, InPlace
  <2> HIDE DEF c
  <2> QED BY <1>4, <1>8, <2>1 DEF Managed
<1>11. Cardinality(Managed') + 1 <= Cardinality(Managed)
  <2>1. Cardinality(Managed \ {c}) = Cardinality(Managed) - 1 /\ IsFiniteSet(Managed \ {c})
    BY <1>9, ManagedFinite, FS_RemoveElement
  <2> QED BY <1>10, <2>1, ManagedFinite, FS_Subset, FS_CardinalityType
<1>12. Cardinality(Managed') \in Nat /\ Cardinality(Managed) \in Nat
  BY <1>10, ManagedFinite, FS_Subset, FS_CardinalityType
<1>13. Cardinality(Managed') <= gov'.open
  <2>1. Cardinality(Managed) <= gov.open /\ gov.open \in Int
    BY <1>1, <1>4 DEF Metered, Governor
  <2> QED BY <1>6, <1>7, <1>11, <1>12, <2>1 DEF Larger
<1>14. ASSUME NEW v \in Underlyings PROVE Cardinality(ManagedOf(v)') <= gov'.openOf[v]
  <2>1. /\ Cardinality(ManagedOf(v)) <= gov.openOf[v] /\ gov.openOf \in [Underlyings -> Nat]
        /\ gov.openOf[v] \in Int
    BY <1>1, <1>4 DEF Metered, Governor
  <2>2. ManagedOf(v)' \subseteq ManagedOf(v) \ {c}
    <3> HIDE DEF c
    <3> QED BY <1>10 DEF ManagedOf
  <2>3. /\ Cardinality(ManagedOf(v)') \in Nat /\ Cardinality(ManagedOf(v)) \in Nat
        /\ Cardinality(ManagedOf(v)') <= Cardinality(ManagedOf(v))
    <3>1. ManagedOf(v)' \subseteq ManagedOf(v)
      BY <2>2
    <3> QED BY <3>1, ManagedFinite, FS_Subset, FS_CardinalityType
  <2>4. CASE v # u
    BY <1>6, <1>7, <2>1, <2>3, <2>4
  <2>5. CASE v = u
    <3>1. c \in ManagedOf(v)
      BY <1>9, <2>5 DEF ManagedOf
    <3>2. Cardinality(ManagedOf(v) \ {c}) = Cardinality(ManagedOf(v)) - 1 /\ IsFiniteSet(ManagedOf(v) \ {c})
      BY <3>1, ManagedFinite, FS_RemoveElement
    <3>3. Cardinality(ManagedOf(v)') <= Cardinality(ManagedOf(v)) - 1
      BY <2>2, <3>2, FS_Subset
    <3>4. gov'.openOf[v] = Larger(0, gov.openOf[v] - 1)
      BY <1>6, <1>7, <2>1, <2>5
    <3> QED BY <2>1, <2>3, <3>3, <3>4 DEF Larger
  <2> QED BY <2>4, <2>5
<1> QED BY <1>13, <1>14 DEF Metered

LEMMA SettleEntryMetered == TypeOK /\ Metered /\ SettleEntry => Metered'
<1> SUFFICES ASSUME TypeOK, Metered, SettleEntry PROVE Metered'
  OBVIOUS
<1>1. /\ task \in [Tasks -> TaskRecords] /\ Tasks = {"tick", "halt"} /\ gov \in Governor
      /\ "tick" \in Tasks /\ "halt" \in Tasks
      /\ task["tick"].order \in Contracts <=> task["tick"].pc \in InFlight
  BY TheTasks
<1> DEFINE c == task["tick"].order
           u == Under(c)
<1>2. /\ task'["halt"] = task["halt"] /\ task'["tick"].pc = "scan" /\ task["tick"].pc = "bought"
      /\ legs' = legs \cup {c} /\ tangled' = tangled
      /\ gov' = RecordTradeOpen(RecordOpen(gov, u), u)
  BY <1>1 DEF SettleEntry, TaskRecords, At, history
<1>3. SUFFICES ASSUME ~tangled PROVE Metered'
  BY <1>2 DEF Metered
<1>4. c \in Contracts /\ u \in Underlyings
  BY <1>1, <1>2 DEF InFlight, Contracts, Under
<1>5. /\ gov'.open = gov.open + 1 /\ gov'.openOf = [gov.openOf EXCEPT ![u] = @ + 1]
      /\ gov.open \in Nat /\ gov.openOf \in [Underlyings -> Nat]
  BY <1>1, <1>2 DEF RecordTradeOpen, RecordOpen, Governor
<1>6. Managed' \subseteq Managed \cup {c}
  <2> HIDE DEF c
  <2> QED BY <1>1, <1>2 DEF Managed, Selling
<1>7. ASSUME NEW S, NEW T, IsFiniteSet(T), S \subseteq T \cup {c}
      PROVE  Cardinality(S) \in Nat /\ Cardinality(T) \in Nat /\ Cardinality(S) <= Cardinality(T) + 1
  <2> HIDE DEF c
  <2>1. IsFiniteSet(T \cup {c}) /\ Cardinality(T \cup {c}) \in {Cardinality(T), Cardinality(T) + 1}
    BY <1>7, FS_AddElement
  <2>2. /\ IsFiniteSet(S) /\ Cardinality(S) <= Cardinality(T \cup {c})
    BY <1>7, <2>1, FS_Subset
  <2>3. Cardinality(S) \in Nat /\ Cardinality(T) \in Nat
    BY <1>7, <2>2, FS_CardinalityType
  <2> QED BY <2>1, <2>2, <2>3
<1>8. Cardinality(Managed') <= gov'.open
  <2>1. Cardinality(Managed) <= gov.open
    BY <1>3 DEF Metered
  <2>2. Cardinality(Managed') \in Nat /\ Cardinality(Managed) \in Nat
        /\ Cardinality(Managed') <= Cardinality(Managed) + 1
    BY <1>6, <1>7, ManagedFinite
  <2> QED BY <1>5, <2>1, <2>2
<1>9. ASSUME NEW v \in Underlyings PROVE Cardinality(ManagedOf(v)') <= gov'.openOf[v]
  <2>1. Cardinality(ManagedOf(v)) <= gov.openOf[v]
    BY <1>3 DEF Metered
  <2>2. CASE v = u
    <3>1. ManagedOf(v)' \subseteq ManagedOf(v) \cup {c}
      <4> HIDE DEF c
      <4> QED BY <1>6 DEF ManagedOf
    <3>2. /\ Cardinality(ManagedOf(v)') \in Nat /\ Cardinality(ManagedOf(v)) \in Nat
          /\ Cardinality(ManagedOf(v)') <= Cardinality(ManagedOf(v)) + 1
      BY <1>7, <3>1, ManagedFinite
    <3>3. gov'.openOf[v] = gov.openOf[v] + 1 /\ gov.openOf[v] \in Nat
      BY <1>5, <2>2
    <3> QED BY <2>1, <3>2, <3>3
  <2>3. CASE v # u
    <3>1. ManagedOf(v)' \subseteq ManagedOf(v)
      <4>1. Under(c) # v
        BY <2>3
      <4> HIDE DEF c
      <4> QED BY <1>6, <4>1 DEF ManagedOf
    <3>2. /\ Cardinality(ManagedOf(v)') \in Nat /\ Cardinality(ManagedOf(v)) \in Nat
          /\ Cardinality(ManagedOf(v)') <= Cardinality(ManagedOf(v))
      BY <3>1, ManagedFinite, FS_Subset, FS_CardinalityType
    <3>3. gov'.openOf[v] = gov.openOf[v] /\ gov.openOf[v] \in Nat
      BY <1>5, <2>3
    <3> QED BY <2>1, <3>2, <3>3
  <2> QED BY <2>2, <2>3
<1> QED BY <1>8, <1>9 DEF Metered

LEMMA ExitsDoneMoves ==
  ASSUME TypeOK, ExitsDone
  PROVE  /\ task["tick"].pc = "exits" /\ task'["halt"] = task["halt"]
         /\ task'["tick"].pc \in {"squareoff", "residual", "scan", "idle"}
         /\ UNCHANGED <<legs, pos, up, strays, tangled>>
         /\ \/ gov' = gov /\ task'["tick"].pc = "squareoff"
            \/ gov' = ConsumeRequest(Recompute(gov))
<1>1. /\ task \in [Tasks -> TaskRecords] /\ "tick" \in Tasks /\ "halt" \in Tasks
  BY TheTasks
<1>2. Idle.pc = "idle" /\ [Idle EXCEPT !.pc = "scan", !.rest = Order].pc = "scan"
  BY DEF Idle
<1>3. \/ gov' = gov /\ task' = [task EXCEPT !["tick"].pc = "squareoff", !["tick"].rest = Order]
      \/ /\ gov' = ConsumeRequest(Recompute(gov))
         /\ \/ task' = [task EXCEPT !["tick"].pc = "residual", !["tick"].rest = Order]
            \/ task' = [task EXCEPT !["tick"] = [Idle EXCEPT !.pc = "scan", !.rest = Order]]
            \/ task' = [task EXCEPT !["tick"] = Idle]
  BY DEF ExitsDone, Onwards
<1>4. task["tick"].pc = "exits" /\ UNCHANGED <<legs, pos, up, strays, tangled>>
  BY DEF ExitsDone, At, clock, history
<1>5. /\ task'["halt"] = task["halt"]
      /\ task'["tick"].pc \in {"squareoff", "residual", "scan", "idle"}
      /\ gov' = ConsumeRequest(Recompute(gov)) \/ (gov' = gov /\ task'["tick"].pc = "squareoff")
  <2>1. CASE /\ gov' = ConsumeRequest(Recompute(gov))
             /\ task' = [task EXCEPT !["tick"].pc = "residual", !["tick"].rest = Order]
    BY <1>1, <1>3, <2>1 DEF TaskRecords
  <2>2. CASE /\ gov' = ConsumeRequest(Recompute(gov))
             /\ task' = [task EXCEPT !["tick"] = [Idle EXCEPT !.pc = "scan", !.rest = Order]]
    BY <1>1, <1>2, <1>3, <2>2
  <2>3. CASE /\ gov' = ConsumeRequest(Recompute(gov))
             /\ task' = [task EXCEPT !["tick"] = Idle]
    BY <1>1, <1>2, <1>3, <2>3
  <2>4. CASE gov' = gov /\ task' = [task EXCEPT !["tick"].pc = "squareoff", !["tick"].rest = Order]
    BY <1>1, <2>4 DEF TaskRecords
  <2> QED BY <1>3, <2>1, <2>2, <2>3, <2>4
<1> QED BY <1>4, <1>5

LEMMA ExitsDoneMetered == TypeOK /\ Metered /\ ExitsDone => Metered'
<1> SUFFICES ASSUME TypeOK, Metered, ExitsDone PROVE Metered'
  OBVIOUS
<1>1. Tasks = {"tick", "halt"} /\ gov \in Governor
  BY TheTasks
<1>2. CalmStep("tick") /\ Unmoved("halt") /\ UNCHANGED <<legs, tangled>>
  BY ExitsDoneMoves DEF CalmStep, Calm, Unmoved
<1>3. gov'.open = gov.open /\ gov'.openOf = gov.openOf
  <2>1. CASE gov' = gov
    BY <2>1
  <2>2. CASE gov' = ConsumeRequest(Recompute(gov))
    <3>1. Recompute(gov) \in Governor /\ Asks(gov, Recompute(gov))
      BY <1>1, RecomputeTyped, RecomputeAsks
    <3> QED BY <2>2, <3>1 DEF ConsumeRequest, Governor, Asks
  <2> QED BY <2>1, <2>2, ExitsDoneMoves
<1> QED BY <1>1, <1>2, <1>3, CalmMetered

(* A boot counts what it restores; the seed of the day adds no contract.   *)
LEMMA BootMetered == TypeOK /\ InPlace /\ Boot => Metered'
<1> SUFFICES ASSUME TypeOK, InPlace, Boot PROVE Metered'
  OBVIOUS
<1>1. \A t \in Tasks : ~Selling(t)'
  BY DEF Boot, InPlace, Selling
<1>2. PICK held : /\ legs' = held
                  /\ \/ gov' = SeedTrades(Reconciled(held), Head(Order), booked, pnl)
                     \/ gov' = Reconciled(held)
  BY DEF Boot
<1>3. /\ gov'.open = Cardinality(held)
      /\ gov'.openOf = [u \in Underlyings |-> Cardinality({c \in held : Under(c) = u})]
  BY <1>2 DEF SeedTrades, Reconciled, FreshGovernor
<1>4. Managed' = held
  BY <1>1, <1>2 DEF Managed
<1>5. \A u \in Underlyings : ManagedOf(u)' = {c \in held : Under(c) = u}
  BY <1>4 DEF ManagedOf
<1>6. IsFiniteSet(held)
  <2>1. IsFiniteSet(Contracts)
    BY SleeveAssumption, FS_Product DEF SleeveAssumption, Contracts
  <2>2. legs' \subseteq Contracts
    BY DEF Boot
  <2> QED BY <1>2, <2>1, <2>2, FS_Subset
<1>7. Cardinality(held) \in Nat
      /\ \A u \in Underlyings : Cardinality({c \in held : Under(c) = u}) \in Nat
  <2>1. \A u \in Underlyings : IsFiniteSet({c \in held : Under(c) = u})
    BY <1>6, FS_Subset
  <2> QED BY <1>6, <2>1, FS_CardinalityType
<1> QED BY <1>3, <1>4, <1>5, <1>7 DEF Metered

LEMMA NextMetered == TypeOK /\ InPlace /\ Caps /\ Metered /\ [Next]_vars => Metered'
<1> SUFFICES ASSUME TypeOK, InPlace, Caps, Metered, [Next]_vars PROVE Metered'
  OBVIOUS
<1>1. "tick" \in Tasks /\ "halt" \in Tasks
  BY DEF Tasks
<1>2. CASE \/ PollExits \/ ResidualDone \/ SquareOffDone \/ FlattenOpenDone \/ ScanDone
           \/ SweepDone \/ Halt \/ Resume \/ CoolOff \/ TimePasses \/ UNCHANGED vars
           \/ PickLegs("tick") \/ PickLegs("halt")
  BY <1>1, <1>2, CalmSteps, CalmMetered DEF StillBooks
<1>3. CASE NextDay
  BY <1>1, <1>3, CalmMetered DEF NextDay, Unmoved, history
<1>4. CASE Crash
  <2>1. \A t \in Tasks : ~Selling(t)'
    BY <1>4 DEF Crash, Selling, Idle
  <2> QED BY <1>4, <2>1, EmptyMetered DEF Crash
<1>5. CASE StartTick \/ ExitsDone \/ Boot \/ SettleEntry
  BY <1>5, StartTickMetered, ExitsDoneMetered, BootMetered, SettleEntryMetered
<1>6. CASE SubmitExit("tick") \/ SubmitExit("halt") \/ SettleExit("tick") \/ SettleExit("halt")
  BY <1>1, <1>6, SubmitExitMetered, SettleExitMetered
<1>7. CASE \/ FillExit("tick") \/ FillExit("halt") \/ ScanEntry \/ FillEntry
           \/ SweepNext \/ FillReverse \/ SettleReverse
  BY <1>1, <1>7, FillMetered
<1> QED BY <1>2, <1>3, <1>4, <1>5, <1>6, <1>7 DEF Next, TickStep, HaltStep

-----------------------------------------------------------------------------
(* What is open is a leg.  A leg is dropped only where nothing is open,    *)
(* and what an order opens or closes is named by the order meanwhile.      *)
LEMMA RestingOrder ==
  ASSUME TypeOK, task["tick"].pc \notin InFlight, NEW c \in Contracts
  PROVE  task["tick"].order # c
  BY TheTasks

LEMMA CalmListed ==
  ASSUME TypeOK, NoOrphan, Unmoved("tick") \/ CalmStep("tick"),
         UNCHANGED <<up, pos, legs, strays, tangled>>
  PROVE  NoOrphan'
<1>1. CASE Unmoved("tick")
  BY <1>1 DEF NoOrphan, Unmoved
<1>2. CASE CalmStep("tick")
  <2>1. \A c \in Contracts : task["tick"].order # c
    BY <1>2, RestingOrder, CalmApart DEF CalmStep
  <2> QED BY <2>1 DEF NoOrphan
<1> QED BY <1>1, <1>2

LEMMA SubmitExitListed ==
  ASSUME TypeOK, NoOrphan, NEW t \in Tasks, SubmitExit(t)
  PROVE  NoOrphan'
<1>1. task \in [Tasks -> TaskRecords] /\ Tasks = {"tick", "halt"} /\ "tick" \in Tasks
  BY TheTasks
<1>2. /\ UNCHANGED <<up, pos, strays>> /\ up
      /\ task[t].pc \notin InFlight
  BY DEF SubmitExit, clock, Flattening, InFlight
<1>3. tangled => tangled'
  BY TanglesForGood
<1>4. \A c \in Contracts : pos[c] # 0 /\ c \in legs => c \in legs'
  BY DEF SubmitExit
<1>5. task'["tick"] = task["tick"] \/ t = "tick"
  <2>1. PICK c \in task[t].todo :
          LET skipped == [task EXCEPT ![t].todo = @ \ {c}]
          IN \/ task' = skipped
             \/ task' = [skipped EXCEPT ![t].pc = "sell", ![t].order = c,
                           ![t].qty = ExitQty(t, c), ![t].back = task[t].pc]
    BY DEF SubmitExit
  <2> QED BY <1>1, <2>1
<1>6. \A c \in Contracts : task["tick"].order = c => task'["tick"].order = c
  BY <1>2, <1>5, RestingOrder
<1> QED BY <1>2, <1>3, <1>4, <1>6 DEF NoOrphan

LEMMA FillExitListed ==
  ASSUME TypeOK, Caps, NoOrphan, NEW t \in Tasks, FillExit(t)
  PROVE  NoOrphan'
<1>1. task \in [Tasks -> TaskRecords] /\ pos \in [Contracts -> Int] /\ "tick" \in Tasks
  BY TheTasks
<1>2. UNCHANGED <<up, legs, strays, tangled>> /\ task[t].pc = "sell" /\ up
  BY DEF FillExit, At, clock, history
<1>3. PICK g \in Pnls \cup {0} : /\ Applied(t, task[t].order, -task[t].qty, g)
                                 /\ task' = [task EXCEPT ![t].pc = "sold", ![t].gain = g]
  BY DEF FillExit
<1>4. task'["tick"].order = task["tick"].order
  BY <1>1, <1>3 DEF TaskRecords
<1>5. pos' = [pos EXCEPT ![task[t].order] = @ + (-task[t].qty)]
  BY <1>3 DEF Applied
<1>6. ~tangled => pos[task[t].order] # 0
  BY <1>2 DEF Caps, Untangled, Orderly
<1>7. ~tangled => \A c \in Contracts : pos'[c] # 0 => pos[c] # 0
  BY <1>1, <1>5, <1>6
<1> QED BY <1>2, <1>4, <1>7 DEF NoOrphan

LEMMA SettleExitListed ==
  ASSUME TypeOK, NoOrphan, NEW t \in Tasks, SettleExit(t)
  PROVE  NoOrphan'
<1>1. task \in [Tasks -> TaskRecords] /\ Tasks = {"tick", "halt"} /\ "tick" \in Tasks
  BY TheTasks
<1>2. /\ UNCHANGED <<up, pos, strays>> /\ up
      /\ \A s \in Tasks \ {t} : task'[s] = task[s]
  BY <1>1 DEF SettleExit, clock, At
<1>3. SUFFICES ASSUME ~tangled' PROVE NoOrphan'
  BY DEF NoOrphan
<1>4. ~tangled /\ pos[task[t].order] = 0 /\ legs' = legs \ {task[t].order}
  <2>1. ~tangled
    BY <1>3, TanglesForGood
  <2> QED BY <1>3, <2>1 DEF SettleExit, Retires
<1>5. \A c \in Contracts : pos[c] # 0 /\ task["tick"].order = c => task'["tick"].order = c
  BY <1>1, <1>2, <1>4
<1> QED BY <1>2, <1>4, <1>5 DEF NoOrphan

LEMMA EntryListed == TypeOK /\ NoOrphan /\ (ScanEntry \/ FillEntry \/ SettleEntry) => NoOrphan'
<1> SUFFICES ASSUME TypeOK, NoOrphan, ScanEntry \/ FillEntry \/ SettleEntry PROVE NoOrphan'
  OBVIOUS
<1>1. task \in [Tasks -> TaskRecords] /\ "tick" \in Tasks /\ pos \in [Contracts -> Int]
  BY TheTasks
<1>2. up' = up /\ strays' = strays
  BY DEF ScanEntry, FillEntry, SettleEntry, clock, history
<1>3. tangled => tangled'
  BY TanglesForGood
<1>4. CASE ScanEntry
  <2>1. task["tick"].pc \notin InFlight /\ UNCHANGED <<legs, pos>>
    BY <1>4 DEF ScanEntry, At, InFlight
  <2> QED BY <1>2, <1>3, <2>1, RestingOrder DEF NoOrphan
<1>5. CASE FillEntry
  <2>1. task'["tick"].order = task["tick"].order /\ legs' = legs
    BY <1>1, <1>5 DEF FillEntry, Goes, TaskRecords
  <2>2. pos' = [pos EXCEPT ![task["tick"].order] = @ + 1]
    BY <1>5 DEF FillEntry, Applied
  <2>3. \A c \in Contracts : task["tick"].order # c => pos'[c] = pos[c]
    BY <1>1, <2>2
  <2> QED BY <1>2, <1>3, <2>1, <2>3 DEF NoOrphan
<1>6. CASE SettleEntry
  <2>1. legs' = legs \cup {task["tick"].order} /\ pos' = pos
    BY <1>6 DEF SettleEntry
  <2> QED BY <1>2, <1>3, <2>1 DEF NoOrphan
<1> QED BY <1>4, <1>5, <1>6

LEMMA SweepStill ==
  ASSUME TypeOK, Caps, SweepNext \/ FillReverse \/ SettleReverse, ~tangled'
  PROVE  /\ ~tangled /\ task'["tick"] = task["tick"]
         /\ UNCHANGED <<up, gov, legs, pos, strays>>
<1>1. task \in [Tasks -> TaskRecords] /\ "tick" \in Tasks /\ "halt" \in Tasks
  BY TheTasks
<1>2. ~tangled
  BY TanglesForGood
<1>3. SweepNext
  BY <1>2 DEF FillReverse, SettleReverse, At, Caps, Untangled, Orderly
<1>4. task'["tick"] = task["tick"]
  BY <1>1, <1>3 DEF SweepNext
<1> QED BY <1>2, <1>3, <1>4 DEF SweepNext, clock

LEMMA NextNoOrphan == TypeOK /\ InPlace /\ Caps /\ NoOrphan /\ [Next]_vars => NoOrphan'
<1> SUFFICES ASSUME TypeOK, InPlace, Caps, NoOrphan, [Next]_vars PROVE NoOrphan'
  OBVIOUS
<1>1. task \in [Tasks -> TaskRecords] /\ "tick" \in Tasks /\ "halt" \in Tasks
  BY TheTasks
<1>2. CASE \/ PollExits \/ ResidualDone \/ SquareOffDone \/ FlattenOpenDone \/ ScanDone
           \/ SweepDone \/ Halt \/ Resume \/ CoolOff \/ TimePasses \/ UNCHANGED vars
           \/ PickLegs("tick") \/ PickLegs("halt")
  BY <1>1, <1>2, CalmSteps, CalmListed DEF StillBooks
<1>3. CASE StartTick
  <2>1. /\ task["tick"].pc = "idle" /\ UNCHANGED <<up, pos, strays, tangled>> /\ up
        /\ legs' = legs \/ (session # day /\ legs' = {})
    BY <1>3 DEF StartTick, At, clock, history
  <2>2. legs' = legs /\ task'["tick"].pc = "exits"
    BY <1>1, <1>3, <2>1 DEF InPlace, StartTick, Idle
  <2> QED BY <2>1, <2>2, CalmListed DEF CalmStep, Calm
<1>4. CASE ExitsDone
  BY <1>4, ExitsDoneMoves, CalmListed DEF CalmStep, Calm
<1>5. CASE NextDay
  BY <1>5 DEF NextDay, NoOrphan, history
<1>6. CASE Crash
  BY <1>6 DEF Crash, NoOrphan
<1>7. CASE Boot
  <2>1. \A c \in Contracts : pos'[c] # 0 => c \in legs' \/ c \in strays'
    BY <1>7 DEF Boot
  <2> QED BY <2>1 DEF NoOrphan
<1>8. CASE SubmitExit("tick") \/ SubmitExit("halt") \/ SettleExit("tick") \/ SettleExit("halt")
  BY <1>1, <1>8, SubmitExitListed, SettleExitListed
<1>9. CASE FillExit("tick") \/ FillExit("halt")
  BY <1>1, <1>9, FillExitListed
<1>10. CASE ScanEntry \/ FillEntry \/ SettleEntry
  BY <1>10, EntryListed
<1>11. CASE SweepNext \/ FillReverse \/ SettleReverse
  BY <1>11, SweepStill DEF NoOrphan
<1> QED BY <1>2, <1>3, <1>4, <1>5, <1>6, <1>7, <1>8, <1>9, <1>10, <1>11 DEF Next, TickStep, HaltStep

-----------------------------------------------------------------------------
(* A request that is served leaves nothing behind.                         *)
LEMMA NothingLeft ==
  ASSUME InPlace, task["tick"].pc \notin {"residual", "sell", "sold"}
  PROVE  ~InResidual
  BY DEF InPlace, InResidual, Selling, Tasks

LEMMA StillServed ==
  ASSUME Served, up' => up, tangled => tangled', gov' = gov, legs' \subseteq legs,
         legs' \cap Residue \subseteq Residue',
         task'["tick"].pc \in {"buy", "bought"} =>
           task["tick"].pc \in {"buy", "bought"} \/ gov.state # "STOOD_DOWN"
  PROVE  Served'
  BY DEF Served

LEMMA ActiveServed == gov'.state # "STOOD_DOWN" => Served'
  BY DEF Served

LEMMA SameTick ==
  ASSUME task'["tick"] = task["tick"] PROVE Residue' = Residue
  BY DEF Residue, InResidual

LEMMA CalmServed ==
  ASSUME TypeOK, InPlace, Served,
         \/ PollExits \/ ResidualDone \/ SquareOffDone \/ FlattenOpenDone \/ ScanDone
         \/ SweepDone \/ Halt \/ Resume \/ CoolOff \/ TimePasses \/ UNCHANGED vars
         \/ PickLegs("halt") \/ PickLegs("tick")
  PROVE  Served'
<1>1. /\ task \in [Tasks -> TaskRecords] /\ "tick" \in Tasks /\ "halt" \in Tasks
  BY TheTasks
<1>2. UNCHANGED <<up, gov, tangled, legs>> /\ (Unmoved("tick") \/ CalmStep("tick"))
  BY <1>1, CalmSteps DEF StillBooks
<1>3. task'["tick"].pc \in {"buy", "bought"} => task["tick"].pc \in {"buy", "bought"}
  BY <1>2 DEF Unmoved, CalmStep, Calm
<1>4. CASE \/ FlattenOpenDone \/ SweepDone \/ Halt \/ Resume \/ CoolOff \/ TimePasses
           \/ UNCHANGED vars \/ PickLegs("halt")
  <2>1. task'["tick"] = task["tick"]
    BY <1>1, <1>4 DEF FlattenOpenDone, SweepDone, Halt, Resume, CoolOff, TimePasses, PickLegs, vars
  <2> QED BY <1>2, <1>3, <2>1, SameTick, StillServed
<1>5. CASE PollExits \/ SquareOffDone \/ ScanDone
  <2>1. task["tick"].pc \in {"exits", "squareoff", "scan"}
    BY <1>5 DEF PollExits, SquareOffDone, ScanDone, At
  <2>2. Residue = {}
    BY <2>1, NothingLeft DEF Residue
  <2> QED BY <1>2, <1>3, <2>2, StillServed
<1>6. CASE ResidualDone
  <2>1. /\ task["tick"].pc = "residual" /\ task["tick"].rest = <<>> /\ task["tick"].todo = {}
    BY <1>6 DEF ResidualDone, At
  <2>2. \A c \in Contracts : task["tick"].order # c
    BY <2>1, RestingOrder DEF InFlight
  <2>3. Residue = {}
    BY <2>1, <2>2 DEF Residue
  <2> QED BY <1>2, <1>3, <2>3, StillServed
<1>7. CASE PickLegs("tick")
  <2>1. /\ task["tick"].pc \in Flattening /\ task["tick"].rest # <<>> /\ task["tick"].todo = {}
        /\ task["tick"].rest \in Seq(Underlyings)
    BY <1>1, <1>7 DEF PickLegs, TaskRecords
  <2>2. CASE task["tick"].pc # "residual"
    <3>1. Residue = {}
      BY <2>1, <2>2, NothingLeft DEF Residue, Flattening
    <3> QED BY <1>2, <1>3, <3>1, StillServed
  <2>3. CASE task["tick"].pc = "residual"
    <3>1. /\ task'["tick"].pc = "residual" /\ task'["tick"].rest = Tail(task["tick"].rest)
          /\ task'["tick"].todo = LegsOf(Head(task["tick"].rest))
      BY <1>1, <1>7, <2>3 DEF PickLegs, TaskRecords
    <3>2. \A c \in Contracts : task["tick"].order # c
      BY <2>3, RestingOrder DEF InFlight
    <3>3. ASSUME NEW c \in legs, c \in Residue PROVE c \in Residue'
      <4>1. PICK i \in DOMAIN task["tick"].rest : task["tick"].rest[i] = Under(c)
        BY <2>1, <3>2, <3>3 DEF Residue
      <4>2. CASE i = 1
        <5>1. c \in LegsOf(Head(task["tick"].rest))
          BY <2>1, <4>1, <4>2 DEF LegsOf
        <5> QED BY <3>1, <3>3, <5>1 DEF Residue, InResidual
      <4>3. CASE i # 1
        <5>1. /\ i - 1 \in DOMAIN Tail(task["tick"].rest)
              /\ Tail(task["tick"].rest)[i - 1] = task["tick"].rest[i]
          BY <2>1, <4>1, <4>3, SMTT(40)
        <5> QED BY <3>1, <3>3, <4>1, <5>1 DEF Residue, InResidual
      <4> QED BY <4>2, <4>3
    <3> QED BY <1>2, <1>3, <3>3, StillServed
  <2> QED BY <2>2, <2>3
<1> QED BY <1>4, <1>5, <1>6, <1>7

LEMMA SubmitExitServed ==
  ASSUME TypeOK, InPlace, Caps, Served, NEW t \in Tasks, SubmitExit(t)
  PROVE  Served'
<1>1. /\ task \in [Tasks -> TaskRecords] /\ Tasks = {"tick", "halt"} /\ "tick" \in Tasks
      /\ pos \in [Contracts -> Int]
  BY TheTasks
<1>2. UNCHANGED <<up, gov>> /\ legs' \subseteq legs /\ task[t].pc \in {"exits"} \cup Flattening
  BY DEF SubmitExit, clock
<1>3. tangled => tangled'
  BY TanglesForGood
<1>4. PICK c \in task[t].todo :
        LET skipped == [task EXCEPT ![t].todo = @ \ {c}]
        IN \/ /\ c \notin legs \/ pos[c] = 0 \/ FALSE \in Gate(c)
              /\ legs' = IF pos[c] = 0 THEN legs \ {c} ELSE legs
              /\ task' = skipped
           \/ /\ task' = [skipped EXCEPT ![t].pc = "sell", ![t].order = c,
                            ![t].qty = ExitQty(t, c), ![t].back = task[t].pc]
              /\ legs' = legs
  BY DEF SubmitExit
<1>5. CASE t = "halt"
  <2>1. task'["tick"] = task["tick"]
    BY <1>1, <1>4, <1>5
  <2> QED BY <1>2, <1>3, <2>1, SameTick, StillServed
<1>6. CASE t = "tick" /\ task["tick"].pc # "residual"
  <2>1. Residue = {}
    BY <1>2, <1>6, NothingLeft DEF Residue, Flattening
  <2>2. task'["tick"].pc \notin {"buy", "bought"}
    <3>1. CASE task' = [task EXCEPT ![t].todo = @ \ {c}]
      BY <1>1, <1>2, <1>6, <3>1 DEF Flattening, TaskRecords
    <3>2. CASE task' = [[task EXCEPT ![t].todo = @ \ {c}] EXCEPT ![t].pc = "sell", ![t].order = c,
                          ![t].qty = ExitQty(t, c), ![t].back = task[t].pc]
      BY <1>1, <1>6, <3>2 DEF TaskRecords
    <3> QED BY <1>4, <3>1, <3>2
  <2> QED BY <1>2, <1>3, <2>1, <2>2, StillServed
<1>7. CASE t = "tick" /\ task["tick"].pc = "residual"
  <2>0. c \in Contracts
    BY <1>1 DEF TaskRecords
  <2>1. SUFFICES ASSUME ~tangled' PROVE Served'
    BY DEF Served
  <2>2. ~tangled /\ pos[c] >= 0 /\ pos[c] \in Int
    BY <1>1, <1>3, <2>0, <2>1 DEF Caps, Untangled, Orderly
  <2>3. CASE /\ c \notin legs \/ pos[c] = 0 \/ FALSE \in Gate(c)
             /\ legs' = IF pos[c] = 0 THEN legs \ {c} ELSE legs
             /\ task' = [task EXCEPT ![t].todo = @ \ {c}]
    <3>1. c \notin legs'
      <4>1. pos[c] > 0 => FALSE \notin Gate(c)
        BY DEF Gate
      <4>2. pos[c] = 0 \/ (pos[c] > 0 /\ pos[c] # 0)
        BY <2>2
      <4>3. pos[c] > 0 /\ pos[c] # 0 => c \notin legs
        BY <2>3, <4>1, Zenon
      <4> QED BY <2>2, <2>3, <4>2, <4>3
    <3>2. /\ task'["tick"].pc = "residual" /\ task'["tick"].rest = task["tick"].rest
          /\ task'["tick"].todo = task["tick"].todo \ {c}
          /\ task'["tick"].order = task["tick"].order
      BY <1>1, <1>7, <2>3 DEF TaskRecords
    <3>3. legs' \cap Residue \subseteq Residue'
      BY <3>1, <3>2 DEF Residue, InResidual
    <3> QED BY <1>2, <1>3, <3>2, <3>3, StillServed
  <2>4. CASE /\ task' = [[task EXCEPT ![t].todo = @ \ {c}] EXCEPT ![t].pc = "sell", ![t].order = c,
                           ![t].qty = ExitQty(t, c), ![t].back = task[t].pc]
             /\ legs' = legs
    <3>1. /\ task'["tick"].pc = "sell" /\ task'["tick"].rest = task["tick"].rest
          /\ task'["tick"].todo = task["tick"].todo \ {c}
          /\ task'["tick"].order = c /\ task'["tick"].back = "residual"
      BY <1>1, <1>7, <2>4 DEF TaskRecords
    <3>2. \A d \in Contracts : task["tick"].order # d
      BY <1>7, RestingOrder DEF InFlight
    <3>3. legs' \cap Residue \subseteq Residue'
      BY <3>1, <3>2 DEF Residue, InResidual
    <3> QED BY <1>2, <1>3, <3>1, <3>3, StillServed
  <2> QED BY <1>4, <2>3, <2>4
<1> QED BY <1>1, <1>5, <1>6, <1>7

LEMMA FillExitServed ==
  ASSUME TypeOK, Served, NEW t \in Tasks, FillExit(t)
  PROVE  Served'
<1>1. task \in [Tasks -> TaskRecords] /\ Tasks = {"tick", "halt"} /\ "tick" \in Tasks
  BY TheTasks
<1>2. UNCHANGED <<up, gov, legs>> /\ task[t].pc = "sell"
  BY DEF FillExit, At, clock
<1>3. tangled => tangled'
  BY TanglesForGood
<1>4. PICK g : task' = [task EXCEPT ![t].pc = "sold", ![t].gain = g]
  BY DEF FillExit
<1>5. /\ task'["tick"].rest = task["tick"].rest /\ task'["tick"].todo = task["tick"].todo
      /\ task'["tick"].order = task["tick"].order /\ task'["tick"].back = task["tick"].back
      /\ \/ task'["tick"].pc = task["tick"].pc
         \/ task'["tick"].pc = "sold" /\ task["tick"].pc = "sell"
  BY <1>1, <1>2, <1>4 DEF TaskRecords
<1>6. Residue \subseteq Residue'
  BY <1>5 DEF Residue, InResidual
<1> QED BY <1>2, <1>3, <1>5, <1>6, StillServed

(* The governor told of an exit: it stands down silently only if nothing   *)
(* is open any more.                                                       *)
LEMMA SettleExitServed ==
  ASSUME TypeOK, TypeOK', InPlace, Caps, Served, Metered', NEW t \in Tasks, SettleExit(t)
  PROVE  Served'
<1>1. /\ task \in [Tasks -> TaskRecords] /\ Tasks = {"tick", "halt"} /\ gov \in Governor
      /\ "tick" \in Tasks /\ "halt" \in Tasks /\ task[t].gain \in Int
      /\ task[t].order \in Contracts <=> task[t].pc \in InFlight
  BY TheTasks
<1>2. SUFFICES ASSUME ~tangled' PROVE Served'
  BY DEF Served
<1> DEFINE c == task[t].order
           h == RecordClose(gov, Under(c))
<1>3. /\ ~tangled /\ up /\ task[t].pc = "sold"
      /\ legs' = legs \ {c} /\ gov' = RecordTradeClose(h, task[t].gain)
  <2>1. ~tangled
    BY <1>2, TanglesForGood
  <2> QED BY <1>2, <2>1 DEF SettleExit, Retired, At
<1>4. /\ \A s \in Tasks \ {t} : task'[s] = task[s]
      /\ task'[t].pc = task[t].back /\ task'[t].rest = task[t].rest /\ task'[t].todo = task[t].todo
  BY <1>1 DEF SettleExit, TaskRecords
<1>5. task'["tick"].pc \notin {"buy", "bought"}
  <2>1. t = "halt" => task["tick"].pc \notin InFlight
    BY <1>1, <1>3 DEF Caps, Untangled, Orderly, InFlight
  <2> QED BY <1>1, <1>4, <2>1 DEF InPlace, InFlight
<1>6. c \in Contracts /\ Under(c) \in Underlyings
  BY <1>1, <1>3 DEF InFlight, Contracts, Under
<1>7. h \in Governor /\ h.state = gov.state /\ h.request = gov.request
  BY <1>1, <1>6, RecordsTyped DEF RecordClose, Governor
<1>8. Asks(h, gov')
  <2> HIDE DEF h
  <2> QED BY <1>1, <1>3, <1>7, TradeCloseAsks
<1>9. ASSUME Silent(gov') PROVE legs' \subseteq Residue'
  <2>1. CASE h.open = 0
    <3>1. Cardinality(Managed') <= 0
      BY <1>2, <1>8, <2>1 DEF Metered, Asks
    <3>2. IsFiniteSet(Managed') /\ Cardinality(Managed') \in Nat /\ legs' \subseteq Managed'
      <4>1. IsFiniteSet(Contracts) /\ Managed' \subseteq Contracts
        BY SleeveAssumption, FS_Product DEF SleeveAssumption, Contracts, Managed, TypeOK
      <4> QED BY <4>1, FS_Subset, FS_CardinalityType DEF Managed
    <3> QED BY <3>1, <3>2, FS_EmptySet
  <2>2. CASE Silent(gov)
    <3>1. legs \subseteq Residue
      BY <1>3, <2>2 DEF Served, Silent
    <3>2. CASE t = "halt"
      <4>1. task["tick"].pc \notin InFlight
        BY <1>1, <1>3, <3>2 DEF Caps, Untangled, Orderly, InFlight
      <4>2. task'["tick"] = task["tick"]
        BY <1>1, <1>4, <3>2
      <4> QED BY <1>3, <3>1, <4>2, SameTick
    <3>3. CASE t = "tick"
      <4>1. InResidual => task'["tick"].pc = "residual"
        BY <1>3, <1>4, <3>3 DEF InResidual
      <4> QED BY <1>3, <1>4, <3>1, <3>3, <4>1 DEF Residue, InResidual
    <3> QED BY <1>1, <3>2, <3>3
  <2> QED BY <1>7, <1>8, <1>9, <2>1, <2>2 DEF Asks, Silent
<1> QED BY <1>5, <1>9 DEF Served, Silent

(* ... and so at the governor's step of a tick: what it asked for begins   *)
(* with every underlying.                                                  *)
LEMMA ExitsDoneServed == TypeOK /\ InPlace /\ Served /\ Metered /\ ExitsDone => Served'
<1> SUFFICES ASSUME TypeOK, InPlace, Served, Metered, ExitsDone PROVE Served'
  OBVIOUS
<1>1. /\ task \in [Tasks -> TaskRecords] /\ "tick" \in Tasks /\ gov \in Governor
  BY TheTasks
<1>2. /\ task["tick"].pc = "exits" /\ UNCHANGED <<up, legs, tangled>>
      /\ task'["tick"].pc \notin {"buy", "bought"}
  BY ExitsDoneMoves
<1>3. Residue = {}
  BY <1>2, NothingLeft DEF Residue
<1>4. SUFFICES ASSUME up, ~tangled, Silent(gov') PROVE legs' \subseteq Residue'
  BY <1>2 DEF Served, Silent
<1>5. CASE Silent(gov)
  BY <1>2, <1>3, <1>4, <1>5 DEF Served, Silent
<1>6. CASE gov.open = 0
  <2>1. Cardinality(Managed) <= 0
    BY <1>4, <1>6 DEF Metered
  <2> QED BY <1>2, <2>1, ManagedFinite, FS_EmptySet
<1>7. CASE ~Silent(gov) /\ gov.open # 0
  <2>1. gov' = ConsumeRequest(Recompute(gov))
    BY <1>4, <1>7, ExitsDoneMoves
  <2>2. Recompute(gov) \in Governor /\ Asks(gov, Recompute(gov))
    BY <1>1, RecomputeTyped, RecomputeAsks
  <2>3. Recompute(gov).state = "STOOD_DOWN"
    BY <1>4, <2>1, <2>2 DEF ConsumeRequest, Silent, Governor
  <2>4. Recompute(gov).request
    BY <1>7, <2>2, <2>3 DEF Asks, Silent
  <2>5. task["tick"].now # "late"
    BY <1>4, <1>7 DEF ExitsDone
  <2>6. task' = [task EXCEPT !["tick"].pc = "residual", !["tick"].rest = Order]
    BY <2>4, <2>5 DEF ExitsDone
  <2>7. task'["tick"].pc = "residual" /\ task'["tick"].rest = Order
    BY <1>1, <2>6 DEF TaskRecords
  <2>8. \A c \in Contracts : \E i \in DOMAIN Order : Order[i] = Under(c)
    BY SleeveAssumption DEF SleeveAssumption, Contracts, Under
  <2> QED BY <1>2, <2>7, <2>8 DEF TypeOK, Residue, InResidual
<1> QED BY <1>5, <1>6, <1>7

LEMMA EntryServed ==
  ASSUME TypeOK, InPlace, Served, ScanEntry \/ FillEntry \/ SettleEntry
  PROVE  Served'
<1>1. /\ task \in [Tasks -> TaskRecords] /\ "tick" \in Tasks /\ gov \in Governor
  BY TheTasks
<1>2. tangled => tangled'
  BY TanglesForGood
<1>3. Residue = {}
  BY NothingLeft DEF ScanEntry, FillEntry, SettleEntry, At, Residue
<1>4. CASE ScanEntry
  <2>1. UNCHANGED <<up, gov, legs>> /\ task["tick"].pc = "scan"
    BY <1>4 DEF ScanEntry, At, clock
  <2>2. task'["tick"].pc = "scan" \/ gov.state # "STOOD_DOWN"
    <3>1. \/ task' = [task EXCEPT !["tick"].rest = Tail(@)]
          \/ MayEnter(Head(task["tick"].rest))
      BY <1>4 DEF ScanEntry
    <3> QED BY <1>1, <2>1, <3>1 DEF MayEnter, AllowsOpen, TaskRecords
  <2> QED BY <1>2, <1>3, <2>1, <2>2, StillServed
<1>5. CASE FillEntry
  <2>1. UNCHANGED <<up, gov, legs>> /\ task["tick"].pc = "buy"
    BY <1>5 DEF FillEntry, At, clock
  <2> QED BY <1>2, <1>3, <2>1, StillServed
<1>6. CASE SettleEntry
  <2>1. up' = up /\ task["tick"].pc = "bought" /\ gov'.state = gov.state
    BY <1>1, <1>6 DEF SettleEntry, At, clock, RecordTradeOpen, RecordOpen, Governor
  <2>2. CASE gov.state # "STOOD_DOWN"
    BY <2>1, <2>2, ActiveServed
  <2>3. CASE gov.state = "STOOD_DOWN"
    BY <1>2, <2>1, <2>3 DEF Served
  <2> QED BY <2>2, <2>3
<1> QED BY <1>4, <1>5, <1>6

LEMMA NextServed ==
  TypeOK /\ TypeOK' /\ InPlace /\ Caps /\ Metered /\ Metered' /\ Served /\ [Next]_vars => Served'
<1> SUFFICES ASSUME TypeOK, TypeOK', InPlace, Caps, Metered, Metered', Served, [Next]_vars
             PROVE  Served'
  OBVIOUS
<1>1. task \in [Tasks -> TaskRecords] /\ "tick" \in Tasks /\ "halt" \in Tasks
  BY TheTasks
<1>2. CASE \/ PollExits \/ ResidualDone \/ SquareOffDone \/ FlattenOpenDone \/ ScanDone
           \/ SweepDone \/ Halt \/ Resume \/ CoolOff \/ TimePasses \/ UNCHANGED vars
           \/ PickLegs("tick") \/ PickLegs("halt")
  BY <1>2, CalmServed
<1>3. CASE StartTick
  <2>1. /\ task["tick"].pc = "idle" /\ UNCHANGED <<up, tangled>> /\ task'["tick"].pc = "exits"
    BY <1>1, <1>3 DEF StartTick, At, clock, history, Idle
  <2>2. CASE session = day
    <3>1. gov' = gov /\ legs' = legs
      BY <1>3, <2>2 DEF StartTick
    <3>2. Residue = {}
      BY <2>1, NothingLeft DEF Residue
    <3> QED BY <2>1, <3>1, <3>2, StillServed
  <2>3. CASE session # day
    BY <1>3, <2>3, ActiveServed DEF StartTick, FreshGovernor
  <2> QED BY <2>2, <2>3
<1>4. CASE ExitsDone
  BY <1>4, ExitsDoneServed
<1>5. CASE NextDay
  BY <1>5, SameTick, StillServed DEF NextDay, history
<1>6. CASE Crash
  BY <1>6 DEF Crash, Served
<1>7. CASE Boot
  <2>1. gov'.state = "ACTIVE"
    BY <1>7 DEF Boot, SeedTrades, Reconciled, FreshGovernor
  <2> QED BY <2>1, ActiveServed
<1>8. CASE SubmitExit("tick") \/ SubmitExit("halt")
  BY <1>1, <1>8, SubmitExitServed
<1>9. CASE FillExit("tick") \/ FillExit("halt")
  BY <1>1, <1>9, FillExitServed
<1>10. CASE SettleExit("tick") \/ SettleExit("halt")
  BY <1>1, <1>10, SettleExitServed
<1>11. CASE ScanEntry \/ FillEntry \/ SettleEntry
  BY <1>11, EntryServed
<1>12. CASE SweepNext \/ FillReverse \/ SettleReverse
  BY <1>12, SweepStill, SameTick DEF Served
<1> QED BY <1>2, <1>3, <1>4, <1>5, <1>6, <1>7, <1>8, <1>9, <1>10, <1>11, <1>12
  DEF Next, TickStep, HaltStep

(* Governor, legs and positions agree, whatever crashes, restarts, halts   *)
(* and unresolved positions came before, as long as the flatten of a halt  *)
(* did not cross an order of the tick: the meter counts every leg, every   *)
(* position is a leg, and a day stood down holds nothing.                  *)
THEOREM LegsAlwaysAccounted == Spec => []LegsAccounted
<1>1. Init => Kept
  <2> SUFFICES ASSUME Init PROVE Kept
    OBVIOUS
  <2>1. Managed = {} /\ \A u \in Underlyings : ManagedOf(u) = {}
    BY DEF Init, Managed, ManagedOf, Selling, Idle
  <2>2. gov.open = 0 /\ gov.state = "ACTIVE" /\ \A u \in Underlyings : gov.openOf[u] = 0
    BY DEF Init, FreshGovernor
  <2> QED BY <2>1, <2>2, FS_EmptySet DEF Init, Kept, Metered, NoOrphan, Served
<1>2. TypeOK /\ TypeOK' /\ InPlace /\ Caps /\ Kept /\ [Next]_vars => Kept'
  BY NextMetered, NextNoOrphan, NextServed DEF Kept
<1>3. TypeOK /\ InPlace /\ Kept => LegsAccounted
  <2> SUFFICES ASSUME TypeOK, InPlace, Kept PROVE LegsAccounted
    OBVIOUS
  <2>1. MeterCoversLegs
    <3> SUFFICES ASSUME ~tangled, NEW u \in Underlyings PROVE gov.openOf[u] >= Cardinality(LegsOf(u))
      BY DEF MeterCoversLegs
    <3>1. LegsOf(u) \subseteq ManagedOf(u)
      BY DEF LegsOf, Managed, ManagedOf
    <3>2. /\ Cardinality(LegsOf(u)) <= Cardinality(ManagedOf(u))
          /\ Cardinality(LegsOf(u)) \in Nat /\ Cardinality(ManagedOf(u)) \in Nat
      BY <3>1, ManagedFinite, FS_Subset, FS_CardinalityType
    <3>3. Cardinality(ManagedOf(u)) <= gov.openOf[u] /\ gov.openOf[u] \in Nat
      BY DEF Kept, Metered, TypeOK, Governor
    <3> QED BY <3>2, <3>3
  <2>2. StandDownFlattens
    <3>1. AtRest => Residue = {}
      BY NothingLeft DEF AtRest, Residue, Tasks
    <3> QED BY <3>1 DEF StandDownFlattens, AtRest, Kept, Served
  <2> QED BY <2>1, <2>2 DEF LegsAccounted, Kept
<1> QED BY <1>1, <1>2, <1>3, SleeveTyped, SleeveCaps, PTL DEF Spec

=============================================================================
