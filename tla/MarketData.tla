----------------------------- MODULE MarketData -----------------------------
(***************************************************************************)
(* How a price reaches the trader: the feed caches every tick and hands it *)
(* to the bar builder; a runner polls, taking the fresh tick or the shared *)
(* REST quote; the risk loop's ltp_lookup (apps/trader.py) chooses between *)
(* the tick and the runner's last price.  One security is followed from    *)
(* its trades on; the other runners only share the quotes with its own.    *)
(***************************************************************************)
EXTENDS BarBuilder, LiveFeed, BatchedOhlc

CONSTANT Own  \* the runner of the security that is followed

ASSUME OwnAssumption == Own \in Callers

VARIABLES
  sent,     \* the newest trade the feed has delivered on this connection
  lastPrice \* StrategyRunner.last_price

marketVars == <<sent, lastPrice>>
vars == <<barVars, feedVars, quoteVars, marketVars>>

Init == InitBars /\ InitFeed /\ InitQuotes
        /\ sent = 0 /\ lastPrice = 0

-----------------------------------------------------------------------------
(* A packet: of a trade the connection has not delivered yet, or of an     *)
(* older one after a reconnection, when sent is 0 again.                   *)
Packet(i) ==
  /\ i \in DOMAIN trades /\ i > sent
  /\ Caches(i) /\ sent' = i
  /\ OnTick(i, trades[i])
  /\ UNCHANGED <<quoteVars, lastPrice>>

(* A time stamp of another day lies in the future: cached, but no bar. *)
FuturePacket(i) ==
  /\ i \in DOMAIN trades /\ i > sent
  /\ Caches(i) /\ sent' = i
  /\ UNCHANGED <<barVars, quoteVars, lastPrice>>

Exchange == (Trade \/ MinuteTurns) /\ UNCHANGED <<feedVars, quoteVars, marketVars>>

(* One packet may come after stop(): the bars have it, the cache does not. *)
LastPacket(i) ==
  /\ i \in DOMAIN trades /\ i > sent
  /\ Leaves /\ sent' = i
  /\ OnTick(i, trades[i])
  /\ UNCHANGED <<quoteVars, lastPrice>>

(* The feed is cancelled after the last flush of the bars. *)
Cancels == batch["shutdown"] = <<>> /\ FeedCancelled

Connection ==
  /\ Connects \/ Fails \/ Disconnects \/ Retries \/ Leaves \/ Cancels
  /\ sent' = IF socket' = "closing" THEN 0 ELSE sent
  /\ UNCHANGED <<barVars, quoteVars, lastPrice>>

Ageing ==
  \/ TickAges /\ UNCHANGED <<barVars, quoteVars, marketVars>>
  \/ QuotesAge /\ UNCHANGED <<barVars, feedVars, marketVars>>

Flushing ==
  /\ \/ Flush("loop")
     \/ \E f \in Flushers : FlushWritten(f) \/ FlushRequeues(f)
  /\ UNCHANGED <<feedVars, quoteVars, marketVars>>

(* The end of main(): the feed is told to stop and the bars are flushed    *)
(* once more, beside the flush loop's own write if one is under way.       *)
Shutdown ==
  /\ running /\ Stops
  /\ \/ Flush("shutdown")
     \/ /\ Taken = <<>> /\ running' = FALSE
        /\ UNCHANGED <<now, trades, cur, base, pending, batch, stored, closed,
                       forced, dropped, counted, rewound>>
  /\ UNCHANGED <<quoteVars, marketVars>>

-----------------------------------------------------------------------------
(* Quotes and the runner's last price: of a price, whether there is one. *)
Priced(i) == IF i > 0 THEN 1 ELSE 0

(* _get_price(): the fresh tick, else the shared quote.  A runner that is  *)
(* stopped, at the same time as the feed, begins no poll.                  *)
TickServes == tick # 0 /\ fresh

PollsTick ==
  /\ running /\ ask[Own] = "idle" /\ TickServes
  /\ lastPrice' = Priced(tick)
  /\ UNCHANGED <<barVars, feedVars, quoteVars, sent>>

(* A poll that is given a price keeps it. *)
Keeps(c, v) == lastPrice' = IF c = Own /\ v # 0 THEN v ELSE lastPrice

PollsQuote(c) ==
  /\ running /\ (c = Own => ~TickServes)
  /\ \/ Asks(c) /\ UNCHANGED lastPrice
     \/ HitsCache(c) /\ Keeps(c, Given(c))
  /\ UNCHANGED <<barVars, feedVars, sent>>

QuoteStep(c) ==
  /\ \/ FindsQuote(c) /\ Keeps(c, Given(c))
     \/ \E got \in SUBSET Callers :
          FetchAnswers(c, got, Priced(Len(trades))) /\ Keeps(c, Given(c))
     \/ Fetches(c) /\ UNCHANGED lastPrice
     \/ FetchFails(c) /\ UNCHANGED lastPrice
  /\ UNCHANGED <<barVars, feedVars, sent>>

(* Mutant: the tick, however old, and nothing else. *)
LtpTickOnly == tick

(* ltp_lookup(): what the risk loop takes as the price. *)
LtpLookup ==
  IF TickServes THEN tick
  ELSE IF lastPrice # 0 THEN lastPrice ELSE tick

Next ==
  \/ \E i \in 1..MaxTrades : Packet(i) \/ FuturePacket(i) \/ LastPacket(i)
  \/ Exchange \/ Connection \/ Ageing \/ Flushing \/ Shutdown \/ PollsTick
  \/ \E c \in Callers : PollsQuote(c) \/ QuoteStep(c)

Spec == Init /\ [][Next]_vars

-----------------------------------------------------------------------------
MarketTypeOK ==
  /\ now \in Minutes /\ Len(trades) <= MaxTrades /\ base \in 0..MaxTrades
  /\ cur # NoBar => cur.minute \in Minutes /\ cur.got # {}
  /\ Len(pending) <= MaxPending + MaxTrades
  /\ \A f \in Flushers : \A k \in DOMAIN batch[f] : batch[f][k].minute \in Minutes
  /\ socket \in {"connecting", "open", "closing", "waiting", "closed"}
  /\ {tick, sent} \subseteq 0..Len(trades)
  /\ quote \in [Callers -> {0, 1}] /\ lastPrice \in {0, 1} /\ young \subseteq Callers

(* Once a runner has had a price, the risk loop never marks its position   *)
(* at zero, whatever the feed does.                                        *)
HeldPriceNeverZero == lastPrice # 0 => LtpLookup # 0

(* A price a runner takes is a tick or a quote within its age bound, save  *)
(* one: the entry it has just found too old, when its own fetch came back  *)
(* without the security.                                                   *)
OldPriceOnlyFromFetch ==
  [][lastPrice' # lastPrice => TickServes \/ Own \in young' \/ ask[Own] = "fetch"]_vars

(* The prices: a held position is never marked at zero, a tick is of the   *)
(* socket that is open, the lock of the task that fetches.                 *)
PricesSound ==
  MarketTypeOK /\ HeldPriceNeverZero /\ NoTickWithoutSocket /\ LockIsOfFetcher

(* The age of a quote: no fetch while a young one is there, no old one but *)
(* by a failed fetch.                                                      *)
QuotesFresh == OneFetchPerTtl /\ OldPriceOnlyFromFetch
=============================================================================
