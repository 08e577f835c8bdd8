----------------------------- MODULE BarBuilder -----------------------------
(***************************************************************************)
(* One-minute bars out of the ticks of one security                        *)
(* (engine/bar_builder.py); securities do not disturb one another.         *)
(*                                                                         *)
(* The exchange trades: a trade is its minute, its place in the list       *)
(* stands for its price and for the volume traded so far.  A bar is the    *)
(* set of trades it has seen, which decides its prices, and a volume.      *)
(***************************************************************************)
EXTENDS Integers, Sequences, FiniteSets

CONSTANTS
  MaxMinute,   \* bound: the last minute of the day
  MaxTrades,   \* bound: trades of the security
  MaxPending   \* _MAX_PENDING, 500 in the code

ASSUME BarAssumption == MaxMinute \in Nat /\ MaxTrades \in Nat /\ MaxPending \in Nat \ {0}

VARIABLES
  now, trades,  \* the minute it is; the minute of every trade so far
  cur,          \* _current: the bar in progress
  base,         \* _last_cum_vol, 0 if there is none
  pending,      \* _pending
  batch,        \* what each caller of flush() is writing
  stored,       \* the table bars
  running,      \* the flush loop runs
  closed,       \* history: the trades every minute's bar was closed with
  forced,       \* history: minutes closed by flush(), not by a later tick
  dropped,      \* history: minutes of bars the cap of _pending dropped
  counted,      \* history: volume added to bars, as long as ~rewound
  rewound       \* history: a late tick has set _last_cum_vol back

barVars == <<now, trades, cur, base, pending, batch, stored, running, closed,
             forced, dropped, counted, rewound>>

Minutes == 0..MaxMinute
NoBar == [minute |-> -1, got |-> {}, vol |-> 0]
Flushers == {"loop", "shutdown"}

InitBars ==
  /\ now = 0 /\ trades = <<>>
  /\ cur = NoBar /\ base = 0
  /\ pending = <<>> /\ batch = [f \in Flushers |-> <<>>]
  /\ stored = [m \in Minutes |-> NoBar]
  /\ running = TRUE
  /\ closed = [m \in Minutes |-> {}] /\ forced = {} /\ dropped = {}
  /\ counted = 0 /\ rewound = FALSE

Trade ==
  /\ Len(trades) < MaxTrades
  /\ trades' = Append(trades, now)
  /\ UNCHANGED <<now, cur, base, pending, batch, stored, running, closed, forced,
                 dropped, counted, rewound>>

MinuteTurns ==
  /\ now < MaxMinute
  /\ now' = now + 1
  /\ UNCHANGED <<trades, cur, base, pending, batch, stored, running, closed,
                 forced, dropped, counted, rewound>>

-----------------------------------------------------------------------------
Larger(a, b) == IF a > b THEN a ELSE b
Opened(m, i, v) == [minute |-> m, got |-> {i}, vol |-> v]
Updated(i, v) == [cur EXCEPT !.got = @ \cup {i}, !.vol = @ + v]
(* Mutant: no tick is late. *)
LateNever(m) == FALSE

Late(m) == cur # NoBar /\ m < cur.minute

(* A bar goes to _pending. *)
Closes(bar) ==
  /\ pending' = Append(pending, bar)
  /\ closed' = [closed EXCEPT ![bar.minute] = @ \cup bar.got]

(* _last_cum_vol after the packet. *)
Baseline(i) == i

(* on_tick() for trade i at minute m, its volume of the day being i (the   *)
(* feed subscribes to quotes, which carry it).  The baseline of the volume *)
(* moves before a late tick is dropped.                                    *)
OnTick(i, m) ==
  LET delta == IF base = 0 THEN 0 ELSE Larger(0, i - base)
  IN /\ base' = Baseline(i)
     /\ rewound' = (rewound \/ i < base)
     /\ counted' = IF rewound' THEN 0 ELSE IF Late(m) THEN counted ELSE counted + delta
     /\ CASE Late(m) -> UNCHANGED <<cur, pending, closed>>
          [] cur = NoBar -> cur' = Opened(m, i, delta) /\ UNCHANGED <<pending, closed>>
          [] cur.minute = m -> cur' = Updated(i, delta) /\ UNCHANGED <<pending, closed>>
          [] OTHER -> cur' = Opened(m, i, delta) /\ Closes(cur)
     /\ UNCHANGED <<now, trades, batch, stored, running, forced, dropped>>

-----------------------------------------------------------------------------
(* flush(), up to its await: a bar whose minute has passed is closed, and  *)
(* all that is pending becomes this caller's batch.                        *)
Passed == cur # NoBar /\ cur.minute < now
Taken == IF Passed THEN Append(pending, cur) ELSE pending

Flush(f) ==
  /\ batch[f] = <<>> /\ Taken # <<>>
  /\ f = "loop" => running
  /\ batch' = [batch EXCEPT ![f] = Taken]
  /\ pending' = <<>>
  /\ IF Passed
     THEN /\ cur' = NoBar
          /\ forced' = forced \cup {cur.minute}
          /\ closed' = [closed EXCEPT ![cur.minute] = @ \cup cur.got]
     ELSE UNCHANGED <<cur, forced, closed>>
  /\ running' = (running /\ f # "shutdown")
  /\ UNCHANGED <<now, trades, base, stored, dropped, counted, rewound>>

(* The upsert: a later bar of a minute replaces the row of an earlier one. *)
LastOf(s, m) ==
  LET at == {k \in DOMAIN s : s[k].minute = m}
  IN s[CHOOSE k \in at : \A j \in at : j <= k]

Upserted(s) ==
  [m \in Minutes |-> IF \E k \in DOMAIN s : s[k].minute = m THEN LastOf(s, m)
                     ELSE stored[m]]

FlushWritten(f) ==
  /\ batch[f] # <<>>
  /\ stored' = Upserted(batch[f])
  /\ batch' = [batch EXCEPT ![f] = <<>>]
  /\ UNCHANGED <<now, trades, cur, base, pending, running, closed, forced,
                 dropped, counted, rewound>>

(* The write fails: the batch goes back to the front, the oldest beyond    *)
(* the cap are dropped.                                                    *)
Requeued(f) == batch[f] \o pending
Excess(s) == Larger(0, Len(s) - MaxPending)

FlushRequeues(f) ==
  /\ batch[f] # <<>>
  /\ LET all == Requeued(f)
     IN /\ pending' = SubSeq(all, Excess(all) + 1, Len(all))
        /\ dropped' = dropped \cup {all[k].minute : k \in 1..Excess(all)}
  /\ batch' = [batch EXCEPT ![f] = <<>>]
  /\ UNCHANGED <<now, trades, cur, base, stored, running, closed, forced, counted,
                 rewound>>

-----------------------------------------------------------------------------
Queued == {pending[k] : k \in DOMAIN pending}
          \cup UNION {{batch[f][k] : k \in DOMAIN batch[f]} : f \in Flushers}

(* A bar once closed is never lost: while the loop runs it is queued,      *)
(* being written or in the table, or the cap of the queue dropped it.      *)
NoBarLost ==
  \A m \in Minutes \ dropped : closed[m] # {} =>
    stored[m] # NoBar \/ \E b \in Queued : b.minute = m

(* Of a bar closed by a later tick no trade is ever lost, whatever late    *)
(* ticks, failed writes and second flushers do: every copy of it, queued   *)
(* or stored, has all the trades it was closed with.  A minute up to which *)
(* a flush has closed a bar has no such promise: with no bar in progress,  *)
(* a late tick of any minute opens one.                                    *)
ClosedBarIsWhole ==
  \A m \in Minutes \ dropped : (\A f \in forced : f < m) =>
    \A b \in Queued \cup {stored[m]} : b.minute = m => b.got = closed[m]

(* No volume is counted twice, unless a late tick set the baseline back.   *)
VolumeCountedOnce == ~rewound => counted <= Larger(0, base - 1)

(* The bars: each traded minute is stored or queued, whole, and no volume  *)
(* is counted twice.                                                       *)
BarsSound == NoBarLost /\ ClosedBarIsWhole /\ VolumeCountedOnce
=============================================================================
