---------------------------- MODULE DailyGovernor ----------------------------
(***************************************************************************)
(* The scalper sleeve's risk governor (engine/daily_governor.py): a meter  *)
(* per underlying and in aggregate, a profit lock, a losing streak, and a  *)
(* state derived from them.  It is pure, and so is this module: operators  *)
(* on a record g that holds the governor's whole state.                    *)
(***************************************************************************)
EXTENDS Integers, FiniteSets

CONSTANTS
  Underlyings,         \* the indices the sleeve trades
  MaxTrades, MaxTradesEach,          \* opens per day: sleeve, underlying
  MaxConcurrent, MaxConcurrentEach,  \* open contracts: sleeve, underlying
  MaxLoss,             \* realized loss that ends the day
  ProfitLock,          \* realized profit that arms the lock, 0 for no lock
  FirstFloor,          \* ProfitLock * profit_lock_floor_frac
  GiveBack,            \* profit_lock_giveback
  LockStops,           \* profit_lock_mode = "stop"
  StreakStop           \* losing trades in a row that end the day

ASSUME GovernorAssumption ==
  /\ {MaxTrades, MaxTradesEach, MaxConcurrent, MaxConcurrentEach} \subseteq Nat
  /\ {MaxLoss, StreakStop} \subseteq Nat \ {0}
  /\ {ProfitLock, FirstFloor, GiveBack} \subseteq Nat
  /\ LockStops \in BOOLEAN

GovernorState == {"ACTIVE", "LOCKED", "TRAIL_ONLY", "STOOD_DOWN"}

Governor ==
  [state : GovernorState, request : BOOLEAN,
   armed : BOOLEAN, high : Int, floor : Int, streak : Nat,
   trades : Nat, open : Nat, realized : Int,
   tradesOf : [Underlyings -> Nat], openOf : [Underlyings -> Nat]]

(* reset_session *)
FreshGovernor ==
  [state |-> "ACTIVE", request |-> FALSE,
   armed |-> FALSE, high |-> 0, floor |-> 0, streak |-> 0,
   trades |-> 0, open |-> 0, realized |-> 0,
   tradesOf |-> [u \in Underlyings |-> 0], openOf |-> [u \in Underlyings |-> 0]]

Larger(a, b) == IF a < b THEN b ELSE a

-----------------------------------------------------------------------------
RecordOpen(g, u) ==
  [g EXCEPT !.open = @ + 1, !.openOf[u] = @ + 1]

RecordClose(g, u) ==
  [g EXCEPT !.open = Larger(0, @ - 1), !.openOf[u] = Larger(0, @ - 1)]

RecordTradeOpen(g, u) ==
  [g EXCEPT !.trades = @ + 1, !.tradesOf[u] = @ + 1]

(* seed_trades_today on a fresh meter; concurrency is boot's to count. *)
SeedLossOnly(g, u, n, pnl) == [g EXCEPT !.realized = pnl]
SeedTradesOnly(g, u, n, pnl) == [g EXCEPT !.trades = n, !.tradesOf[u] = n]
SeedTrades(g, u, n, pnl) ==
  [g EXCEPT !.trades = n, !.tradesOf[u] = n, !.realized = pnl]

(* _update_profit_lock: arm once, then only raise the floor. *)
UpdateProfitLock(g) ==
  IF ~g.armed
    THEN IF ProfitLock > 0 /\ g.realized >= ProfitLock
           THEN [g EXCEPT !.armed = TRUE, !.high = g.realized, !.floor = FirstFloor]
           ELSE g
    ELSE LET high == Larger(g.high, g.realized)
         IN [g EXCEPT !.high = high, !.floor = Larger(@, high - GiveBack)]

(* _stand_down: on entering it with contracts open, ask for a flatten. *)
StandDownSilently(g) == [g EXCEPT !.state = "STOOD_DOWN"]
StandDown(g) ==
  [g EXCEPT !.state = "STOOD_DOWN",
            !.request = @ \/ (g.state # "STOOD_DOWN" /\ g.open > 0)]

(* recompute *)
LossStop(g) == g.realized <= -MaxLoss \/ g.streak >= StreakStop

(* Once stood down, down for the day. *)
TerminalNever(g) == FALSE
Terminal(g) == g.state = "STOOD_DOWN"

Recompute(g) ==
  LET locked == UpdateProfitLock(g)
  IN IF LossStop(g) THEN StandDown(g)
     ELSE IF Terminal(g) THEN g
     ELSE IF ~g.armed THEN [g EXCEPT !.state = "ACTIVE"]
     ELSE IF locked.realized > locked.floor THEN [locked EXCEPT !.state = "LOCKED"]
     ELSE IF LockStops THEN StandDown(locked)
     ELSE [locked EXCEPT !.state = "TRAIL_ONLY"]

(* record_trade_close *)
RecordTradeClose(g, pnl) ==
  Recompute(UpdateProfitLock(
    [g EXCEPT !.realized = @ + pnl,
              !.streak = IF pnl < 0 THEN @ + 1 ELSE IF pnl > 0 THEN 0 ELSE @]))

(* consume_flatten_request *)
ConsumeRequest(g) == [g EXCEPT !.request = FALSE]

(* block_open_reason: entries only, exits never ask. *)
AllowsOpen(g, u) ==
  /\ g.state \notin {"STOOD_DOWN", "TRAIL_ONLY"}
  /\ g.trades < MaxTrades /\ g.tradesOf[u] < MaxTradesEach
  /\ g.open < MaxConcurrent /\ g.openOf[u] < MaxConcurrentEach

(* defended_floor: what the day is defended at. *)
DefendedFloor(g) == IF g.armed THEN Larger(g.floor, -MaxLoss) ELSE -MaxLoss
=============================================================================
