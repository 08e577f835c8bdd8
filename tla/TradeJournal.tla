---------------------------- MODULE TradeJournal ----------------------------
(***************************************************************************)
(* How one security's fills become rows of the trades table                *)
(* (engine/portfolio.py: apply_fill; core/journal.py: log_trade_entry and  *)
(* log_trade_exit), from whose CLOSED rows the risk engine reads the       *)
(* realized P&L it halts on.  apply_fill changes the position at once and  *)
(* then awaits the table twice or three times; its two callers, the runner *)
(* and the flatten of a halt, may both be inside it.                       *)
(*                                                                         *)
(* Every unit that is closed loses 1, so a sum of P&L counts the units     *)
(* whose loss it knows of.                                                 *)
(***************************************************************************)
EXTENDS Integers, Sequences, FiniteSets, FiniteSetsExt

CONSTANTS
  MaxQty,      \* the largest entry
  MaxRows,     \* bound: rows of the table beyond which nothing is submitted
  MaxFaults,   \* bound: crashes and failed accesses
  Modes        \* the trading modes examined, of "PAPER" and "LIVE"

ASSUME TradeJournalAssumption ==
  /\ MaxQty \in Nat \ {0}
  /\ MaxRows \in Nat /\ MaxFaults \in Nat
  /\ Modes \subseteq {"PAPER", "LIVE"}

VARIABLES
  mode,       \* TRADING_MODE
  up,         \* the trader process is running
  qty,        \* the position
  openId,     \* _open_trade_id: a row of the table, 0 for none
  rows,       \* the trades table: status and P&L of every row
  saved,      \* engine_positions.qty
  pc, leg,    \* of each caller: the await it is parked at, its order
  realized,   \* history: units closed, that is, the loss really made
  torn,       \* history: a write or the read at a boot failed, a crash cut
              \* apply_fill short, or both callers had an order at once
  abandoned,  \* history: rows that were OPEN when a boot cleared the position
  faults      \* faults so far (bound only)

vars == <<mode, up, qty, openId, rows, saved, pc, leg, realized, torn,
          abandoned, faults>>

-----------------------------------------------------------------------------
Callers == {"runner", "sweep"}
NoLeg == [n |-> 0, closing |-> 0, id |-> 0, opens |-> FALSE]

Abs(n) == IF n < 0 THEN -n ELSE n
Smaller(a, b) == IF a < b THEN a ELSE b

OpenRows == {i \in DOMAIN rows : rows[i].status = "OPEN"}

(* SUM(pnl) of the CLOSED rows: the loss that RiskEngine.refresh_pnl reads. *)
Meter == MapThenSumSet(LAMBDA i : rows[i].pnl, DOMAIN rows \ OpenRows)

AtRest == up /\ \A c \in Callers : pc[c] = "idle"

Init ==
  /\ mode \in Modes
  /\ up = TRUE
  /\ qty = 0 /\ openId = 0 /\ rows = <<>> /\ saved = 0
  /\ pc = [c \in Callers |-> "idle"]
  /\ leg = [c \in Callers |-> NoLeg]
  /\ realized = 0 /\ torn = FALSE /\ abandoned = {} /\ faults = 0

Goto(c, where) == pc' = [pc EXCEPT ![c] = where]

(* A step of c that may fail: what it writes is then lost. *)
Fails ==
  /\ faults < MaxFaults
  /\ faults' = faults + 1
  /\ torn' = TRUE

-----------------------------------------------------------------------------
(* The runner enters when flat and exits all it holds; the sweep exits.    *)
Submit(c) ==
  /\ up /\ pc[c] = "idle" /\ Len(rows) <= MaxRows
  /\ \E n \in IF qty # 0 THEN {-qty}
              ELSE IF c = "runner" /\ Len(rows) < MaxRows THEN 1..MaxQty
              ELSE {} :
       leg' = [leg EXCEPT ![c] = [NoLeg EXCEPT !.n = n]]
  /\ Goto(c, "order")
  /\ torn' = (torn \/ \E d \in Callers \ {c} : pc[d] # "idle")
  /\ UNCHANGED <<mode, abandoned, up, qty, openId, rows, saved, realized, faults>>

Adds(signed) == qty = 0 \/ (qty > 0 <=> signed > 0)

(* How much of the position an order of this signed size closes. *)
Closed(signed) == IF Adds(signed) THEN 0 ELSE Smaller(Abs(signed), Abs(qty))

(* The executor fills (LIVE: perhaps in part); apply_fill up to its first  *)
(* await.  Adding to a position opens a row; a reduction realizes P&L and  *)
(* takes the row's id out of memory; a flip does both.                     *)
Filled(c) ==
  /\ up /\ pc[c] = "order"
  /\ \E m \in 1..Abs(leg[c].n) :
       LET signed == IF leg[c].n > 0 THEN m ELSE -m
           adds   == Adds(signed)
       IN /\ mode = "PAPER" => m = Abs(leg[c].n)
          /\ qty' = qty + signed
          /\ realized' = realized + Closed(signed)
          /\ openId' = IF adds THEN openId ELSE 0
          /\ leg' = [leg EXCEPT ![c] =
               [n |-> signed, closing |-> Closed(signed), id |-> IF adds THEN 0 ELSE openId,
                opens |-> adds \/ Abs(signed) > Abs(qty)]]
          /\ Goto(c, IF adds THEN "insert" ELSE "close")
  /\ UNCHANGED <<mode, abandoned, up, rows, saved, torn, faults>>

(* LIVE: rejected. *)
Unfilled(c) ==
  /\ up /\ pc[c] = "order" /\ mode = "LIVE"
  /\ Goto(c, "idle")
  /\ leg' = [leg EXCEPT ![c] = NoLeg]
  /\ UNCHANGED <<mode, abandoned, up, qty, openId, rows, saved, realized, torn, faults>>

(* log_trade_entry, in a thread: the new row's id, none if it failed; *)
InsertRow(c) ==
  /\ up /\ pc[c] = "insert"
  /\ \/ /\ rows' = Append(rows, [status |-> "OPEN", pnl |-> 0])
        /\ leg' = [leg EXCEPT ![c].id = Len(rows')]
        /\ UNCHANGED <<torn, faults>>
     \/ Fails /\ leg' = [leg EXCEPT ![c].id = 0] /\ UNCHANGED rows
  /\ Goto(c, "inserted")
  /\ UNCHANGED <<mode, abandoned, up, qty, openId, saved, realized>>

(* apply_fill remembers it when its await returns. *)
RememberRow(c) ==
  /\ up /\ pc[c] = "inserted"
  /\ openId' = leg[c].id
  /\ Goto(c, "persist")
  /\ UNCHANGED <<mode, abandoned, up, qty, rows, saved, leg, realized, torn, faults>>

(* log_trade_exit: the row of that id, or, with none in memory, the most   *)
(* recent OPEN row; there a LIVE exit also asks for a row whose order id   *)
(* is the exit's own, which no entry has.                                  *)
RowsToCloseById(id) == {id} \cap OpenRows
RowsToCloseAny(id) == IF id # 0 THEN {id} ELSE {Len(rows)} \cap DOMAIN rows
RowsToClose(id) ==
  IF id # 0 THEN {id} \cap OpenRows
  ELSE IF mode = "LIVE" THEN {}
  ELSE {i \in OpenRows : \A j \in OpenRows : j <= i}

CloseRow(c) ==
  /\ up /\ pc[c] = "close"
  /\ \/ /\ rows' = [i \in DOMAIN rows |->
               IF i \in RowsToClose(leg[c].id)
               THEN [status |-> "CLOSED", pnl |-> leg[c].closing]
               ELSE rows[i]]
        /\ UNCHANGED <<torn, faults>>
     \/ Fails /\ UNCHANGED rows
  /\ Goto(c, IF leg[c].opens THEN "insert" ELSE "persist")
  /\ UNCHANGED <<mode, abandoned, up, qty, openId, saved, leg, realized>>

(* _persist, in a thread: it reads the position, then writes it. *)
ReadPosition(c) ==
  /\ up /\ pc[c] = "persist"
  /\ leg' = [leg EXCEPT ![c].n = qty]
  /\ Goto(c, "write")
  /\ UNCHANGED <<mode, abandoned, up, qty, openId, rows, saved, realized, torn, faults>>

WritePosition(c) ==
  /\ up /\ pc[c] = "write"
  /\ \/ saved' = leg[c].n /\ UNCHANGED <<torn, faults>>
     \/ Fails /\ UNCHANGED saved
  /\ Goto(c, "idle")
  /\ leg' = [leg EXCEPT ![c] = NoLeg]
  /\ UNCHANGED <<mode, abandoned, up, qty, openId, rows, realized>>

ApplyFill(c) ==
  \/ Submit(c) \/ Filled(c) \/ Unfilled(c)
  \/ InsertRow(c) \/ RememberRow(c) \/ CloseRow(c)
  \/ ReadPosition(c) \/ WritePosition(c)

-----------------------------------------------------------------------------
Crash ==
  /\ up /\ faults < MaxFaults
  /\ up' = FALSE
  /\ faults' = faults + 1
  /\ qty' = 0 /\ openId' = 0
  /\ pc' = [c \in Callers |-> "idle"]
  /\ leg' = [c \in Callers |-> NoLeg]
  /\ torn' = (torn \/ \E c \in Callers : pc[c] # "idle")
  /\ UNCHANGED <<mode, abandoned, rows, saved, realized>>

(* reconcile_on_boot: today's position is restored, not the id of its row; *)
(* one of an earlier session is zeroed, and its row of the trades table    *)
(* left OPEN; where the positions cannot be read, the portfolio starts     *)
(* empty.  LIVE, reconcile_with_broker then adopts what the broker holds.  *)
Restores == qty' = saved /\ UNCHANGED <<saved, abandoned, torn, faults>>

ClearsStale ==
  /\ saved # 0
  /\ qty' = 0
  /\ abandoned' = OpenRows
  /\ \/ saved' = 0 /\ UNCHANGED <<torn, faults>>
     \/ Fails /\ UNCHANGED saved

StartsEmpty ==
  /\ saved # 0
  /\ qty' = 0
  /\ Fails
  /\ UNCHANGED <<saved, abandoned>>

AdoptsBroker ==
  /\ mode = "LIVE"
  /\ qty' \in -MaxQty..MaxQty
  /\ \/ saved' = qty' /\ UNCHANGED <<torn, faults>>
     \/ Fails /\ UNCHANGED saved
  /\ UNCHANGED abandoned

Boot ==
  /\ ~up
  /\ up' = TRUE
  /\ Restores \/ ClearsStale \/ StartsEmpty \/ AdoptsBroker
  /\ UNCHANGED <<mode, openId, rows, pc, leg, realized>>

Next == Crash \/ Boot \/ \E c \in Callers : ApplyFill(c)

Spec == Init /\ [][Next]_vars

-----------------------------------------------------------------------------
(* Type invariant of the journal. *)
TypeOK ==
  /\ mode \in Modes
  /\ up \in BOOLEAN /\ torn \in BOOLEAN
  /\ qty \in Int /\ saved \in Int
  /\ openId \in Nat /\ openId <= Len(rows)
  /\ rows \in Seq([status : {"OPEN", "CLOSED"}, pnl : Nat])
  /\ pc \in [Callers -> {"idle", "order", "insert", "inserted", "close",
                        "persist", "write"}]
  /\ leg \in [Callers -> [n : Int, closing : Nat, id : Nat, opens : BOOLEAN]]
  /\ realized \in Nat
  /\ abandoned \subseteq Nat
  /\ faults \in 0..MaxFaults

(* The table knows of every loss made, by an exit in one piece and with no *)
(* write lost: a restart between entry and exit does not hide it, since    *)
(* log_trade_exit finds the row again.  In PAPER mode.                     *)
MeterComplete ==
  AtRest /\ ~torn /\ mode = "PAPER" => Meter = realized

(* Whatever fails or overlaps, a loss is never counted twice: the meter    *)
(* may understate, but a halt it causes is real.                           *)
MeterNeverOverstates == up => Meter <= realized

(* PAPER: unless something was torn, the OPEN rows are the open position:  *)
(* one row while it is held, none when flat (restored positions find their *)
(* row again).  Left over are the rows of positions that a boot cleared as *)
(* stale: they stay OPEN, and no later exit takes one of them for its own. *)
OpenRowIsPosition ==
  AtRest /\ ~torn /\ mode = "PAPER" =>
    /\ abandoned \subseteq OpenRows
    /\ Cardinality(OpenRows \ abandoned) = IF qty = 0 THEN 0 ELSE 1

(* The rows follow the trades: they know of every loss, of none twice, and *)
(* of the position that is open (log_trade_entry, log_trade_exit).         *)
RowsFollowTrades ==
  TypeOK /\ MeterComplete /\ MeterNeverOverstates /\ OpenRowIsPosition

(* A closed row is history: no later exit, of either caller and before or  *)
(* after a restart, rewrites its P&L (the status filter of                 *)
(* log_trade_exit).                                                        *)
ClosedRowsStay ==
  [][\A i \in DOMAIN rows : rows[i].status = "CLOSED" => rows'[i] = rows[i]]_vars
=============================================================================
