------------------------------ MODULE LiveFeed ------------------------------
(***************************************************************************)
(* The market feed (core/live_feed.py): one socket that is opened again    *)
(* after every failure and a pause, whose length is left out, and the      *)
(* cache of the last tick of a security with its age.  A tick is the       *)
(* number of a trade.                                                      *)
(***************************************************************************)
EXTENDS Integers

CONSTANT MaxDrops  \* bound: failures of the connection

ASSUME FeedAssumption == MaxDrops \in Nat

VARIABLES
  socket,     \* "connecting", "open", "closing", "waiting", "closed" (run() is over)
  feedRuns,   \* _running
  connected,  \* _connected
  tick,       \* _ticks: the trade of the last tick, 0 for none
  fresh,      \* its age is within the bound that its readers use
  drops       \* failures so far (bound)

feedVars == <<socket, feedRuns, connected, tick, fresh, drops>>

InitFeed ==
  /\ socket = "connecting" /\ feedRuns = TRUE /\ connected = FALSE
  /\ tick = 0 /\ fresh = FALSE
  /\ drops = 0

(* _invalidate_tick_cache(): part of every close of a socket, before its   *)
(* await.                                                                  *)
ForgetTicks == tick' = 0 /\ fresh' = FALSE

(* A feed that is stopped while it connects says that it is connected, and *)
(* is over.                                                                *)
Connects ==
  /\ socket = "connecting"
  /\ socket' = IF feedRuns THEN "open" ELSE "closed"
  /\ connected' = TRUE
  /\ UNCHANGED <<feedRuns, tick, fresh, drops>>

(* An exception out of connect(), or out of a read if the feed is not      *)
(* stopped: the socket is closed, and the flag cleared after that.         *)
Fails ==
  /\ socket = "connecting" \/ (socket = "open" /\ feedRuns)
  /\ drops < MaxDrops
  /\ socket' = "closing" /\ ForgetTicks
  /\ drops' = drops + 1
  /\ UNCHANGED <<feedRuns, connected>>

Disconnects ==
  /\ socket = "closing"
  /\ socket' = "waiting" /\ connected' = FALSE
  /\ UNCHANGED <<feedRuns, tick, fresh, drops>>

Retries ==
  /\ socket = "waiting"
  /\ socket' = IF feedRuns THEN "connecting" ELSE "closed"
  /\ UNCHANGED <<feedRuns, connected, tick, fresh, drops>>

(* _on_data() with the packet of trade i. *)
Caches(i) ==
  /\ socket = "open" /\ feedRuns
  /\ tick' = i /\ fresh' = TRUE
  /\ UNCHANGED <<socket, feedRuns, connected, drops>>

TickAges ==
  /\ fresh
  /\ fresh' = FALSE
  /\ UNCHANGED <<socket, feedRuns, connected, tick, drops>>

(* stop(): the socket stays as it is, and so does the cache. *)
Stops ==
  /\ feedRuns
  /\ feedRuns' = FALSE /\ connected' = FALSE
  /\ UNCHANGED <<socket, tick, fresh, drops>>

(* The read a stopped feed was in has come to its end, with a packet or    *)
(* not: the loops are left and the socket closed.                          *)
Leaves ==
  /\ socket = "open" /\ ~feedRuns
  /\ socket' = "closed"
  /\ ForgetTicks
  /\ UNCHANGED <<feedRuns, connected, drops>>

(* The task is cancelled wherever it is. *)
FeedCancelled ==
  /\ socket # "closed" /\ ~feedRuns
  /\ socket' = "closed"
  /\ ForgetTicks
  /\ UNCHANGED <<feedRuns, connected, drops>>

-----------------------------------------------------------------------------
(* A price is never read from a socket that is gone: as soon as one is     *)
(* being closed, long before the flag is cleared and also when the flag is *)
(* set by a connect() that ends after stop(), the cache is empty, so that  *)
(* the age of its tick is unknown and every reader falls back to REST.     *)
NoTickWithoutSocket == tick # 0 \/ fresh => socket = "open"
=============================================================================
