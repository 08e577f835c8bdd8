---------------------------- MODULE MarketProofs ----------------------------
(***************************************************************************)
(* Theorems of MarketData for every value of its constants: the age and    *)
(* the source of a price, and the bars through late ticks, failed writes   *)
(* and two flushers.                                                       *)
(***************************************************************************)
EXTENDS MarketData, FiniteSetTheorems, WellFoundedInduction, TLAPS

(* Where the exchange is: trades come in the order of their minutes.       *)
DayTypes ==
  /\ now \in Minutes /\ trades \in Seq(Minutes) /\ Len(trades) <= MaxTrades
  /\ \A k \in DOMAIN trades : trades[k] <= now
  /\ \A j, k \in DOMAIN trades : j < k => trades[j] <= trades[k]

FeedTypes ==
  /\ socket \in {"connecting", "open", "closing", "waiting", "closed"}
  /\ tick \in 0..Len(trades) /\ sent \in 0..Len(trades)

QuoteTypes ==
  /\ ask \in [Callers -> {"idle", "lock", "fetch"}]
  /\ quote \in [Callers -> {0, 1}] /\ young \in SUBSET Callers
  /\ lastPrice \in {0, 1}

(* The cache empties with its socket, the lock is the fetcher's.           *)
PriceInv == FeedTypes /\ QuoteTypes /\ NoTickWithoutSocket /\ LockIsOfFetcher

Bars == [minute : Minutes, got : SUBSET (1..MaxTrades), vol : Nat]

BarTypes ==
  /\ cur \in Bars \cup {NoBar} /\ base \in 0..MaxTrades
  /\ pending \in Seq(Bars) /\ batch \in [Flushers -> Seq(Bars)]
  /\ stored \in [Minutes -> Bars \cup {NoBar}]
  /\ closed \in [Minutes -> SUBSET (1..MaxTrades)]
  /\ forced \in SUBSET Minutes /\ dropped \in SUBSET Minutes
  /\ counted \in Nat /\ rewound \in BOOLEAN

(* The bar in progress has trades, all of its own minute.                  *)
CurrentHasTrades ==
  cur # NoBar => cur.got # {} /\ \A k \in cur.got : k \in DOMAIN trades /\ trades[k] = cur.minute

(* A bar joins the queue when a trade of a later minute arrives, so that   *)
(* there are never more than the cap lets and the trades before it.        *)
QueueBound ==
  /\ cur = NoBar => Len(pending) <= MaxPending
  /\ cur # NoBar => \A k \in DOMAIN trades :
       trades[k] >= cur.minute => Len(pending) <= MaxPending + k - 1

(* What is closed lies before the bar in progress, or before a bar that a  *)
(* flush has closed.                                                       *)
ClosedLiesBehind ==
  \A m \in Minutes : closed[m] # {} =>
    (cur # NoBar /\ m < cur.minute) \/ \E f \in forced : m <= f

(* A copy of a bar is of a minute that was closed.                         *)
IsCopy(b) == closed[b.minute] # {} /\ b.minute \in Minutes

StoredAtItsMinute == \A m \in Minutes : stored[m] # NoBar => stored[m].minute = m

CopiesAreClosed ==
  StoredAtItsMinute /\ \A b \in Queued \cup {stored[m] : m \in Minutes} : b # NoBar => IsCopy(b)

BarInv ==
  /\ BarTypes /\ CurrentHasTrades /\ QueueBound /\ ClosedLiesBehind /\ CopiesAreClosed
  /\ NoBarLost /\ ClosedBarIsWhole /\ VolumeCountedOnce

MarketInv == DayTypes /\ PriceInv /\ BarInv

LEMMA MarketConstants ==
  /\ MaxMinute \in Nat /\ MaxTrades \in Nat /\ MaxPending \in Nat /\ MaxPending >= 1
  /\ MaxDrops \in Nat /\ Own \in Callers
BY BarAssumption, FeedAssumption, OwnAssumption

-----------------------------------------------------------------------------
(* The exchange. *)
LEMMA DayInit == Init => DayTypes
<1> SUFFICES ASSUME Init  PROVE DayTypes
  OBVIOUS
<1> USE MarketConstants
<1>1. trades = <<>> /\ now = 0
  BY DEF Init, InitBars
<1> QED BY <1>1 DEF DayTypes, Minutes

LEMMA TradeFacts ==
  ASSUME DayTypes, Trade
  PROVE  /\ Len(trades') = Len(trades) + 1 /\ DOMAIN trades' = 1..(Len(trades) + 1)
         /\ DOMAIN trades = 1..Len(trades) /\ trades' \in Seq(Minutes)
         /\ \A k \in DOMAIN trades : trades'[k] = trades[k]
         /\ trades'[Len(trades) + 1] = now
<1>1. trades \in Seq(Minutes) /\ now \in Minutes /\ trades' = Append(trades, now)
  BY DEF DayTypes, Trade
<1> QED BY <1>1

LEMMA DayStep ==
  ASSUME DayTypes, Next
  PROVE  DayTypes'
<1> USE MarketConstants
<1>1. CASE Trade
  <2>1. /\ Len(trades') <= MaxTrades /\ trades' \in Seq(Minutes) /\ now' = now
    BY <1>1, TradeFacts DEF DayTypes, Trade
  <2>2. ASSUME NEW k \in DOMAIN trades'  PROVE trades'[k] <= now
    <3>1. k \in DOMAIN trades \/ k = Len(trades) + 1
      BY <1>1, <2>2, TradeFacts DEF DayTypes
    <3> QED BY <1>1, <3>1, TradeFacts DEF DayTypes, Minutes
  <2>3. ASSUME NEW j \in DOMAIN trades', NEW k \in DOMAIN trades', j < k
        PROVE  trades'[j] <= trades'[k]
    <3>1. j \in DOMAIN trades /\ (k \in DOMAIN trades \/ k = Len(trades) + 1)
      BY <1>1, <2>3, TradeFacts DEF DayTypes
    <3> QED BY <1>1, <2>3, <3>1, TradeFacts DEF DayTypes
  <2> QED BY <2>1, <2>2, <2>3 DEF DayTypes
<1>2. CASE MinuteTurns
  <2>1. now' = now + 1 /\ now < MaxMinute /\ trades' = trades
    BY <1>2 DEF MinuteTurns
  <2>2. now' \in Minutes /\ \A k \in DOMAIN trades : trades[k] \in Minutes /\ trades[k] <= now
    BY <2>1 DEF DayTypes, Minutes
  <2>3. \A k \in DOMAIN trades : trades[k] <= now'
    BY <2>1, <2>2 DEF Minutes, DayTypes
  <2> QED BY <2>1, <2>2, <2>3 DEF DayTypes
<1>3. CASE ~(Trade \/ MinuteTurns)
  <2>1. UNCHANGED <<now, trades>>
    BY <1>3 DEF Next, Packet, FuturePacket, LastPacket, OnTick, Exchange, Connection, Ageing, Flushing, Shutdown,
       PollsTick, PollsQuote, QuoteStep, Flush, FlushWritten, FlushRequeues, barVars
  <2> QED BY <2>1 DEF DayTypes
<1> QED BY <1>1, <1>2, <1>3

-----------------------------------------------------------------------------
(* The prices. *)
LEMMA PriceInit == Init => PriceInv
<1> SUFFICES ASSUME Init  PROVE PriceInv
  OBVIOUS
<1>1. FeedTypes /\ NoTickWithoutSocket
  <2>1. Len(trades) = 0 /\ tick = 0 /\ fresh = FALSE /\ sent = 0 /\ socket = "connecting"
    BY DEF Init, InitBars, InitFeed
  <2> QED BY <2>1 DEF FeedTypes, NoTickWithoutSocket
<1>2. QuoteTypes /\ LockIsOfFetcher
  BY DEF Init, InitQuotes, QuoteTypes, LockIsOfFetcher
<1> QED BY <1>1, <1>2 DEF PriceInv

LEMMA TradesGrow ==
  ASSUME DayTypes, Next
  PROVE  Len(trades) \in Nat /\ Len(trades') \in Nat /\ Len(trades) <= Len(trades')
<1>1. trades \in Seq(Minutes)
  BY DEF DayTypes
<1>2. CASE Trade
  BY <1>1, <1>2, TradeFacts
<1>3. CASE ~Trade
  <2>1. trades' = trades
    BY <1>3 DEF Next, Packet, FuturePacket, LastPacket, OnTick, Exchange, Connection, Ageing, Flushing, Shutdown,
       PollsTick, PollsQuote, QuoteStep, Flush, FlushWritten, FlushRequeues, MinuteTurns, barVars
  <2> QED BY <1>1, <2>1
<1> QED BY <1>2, <1>3

LEMMA FeedStep ==
  ASSUME DayTypes, FeedTypes, NoTickWithoutSocket, Next
  PROVE  FeedTypes' /\ NoTickWithoutSocket'
<1>1. /\ Len(trades) \in Nat /\ Len(trades') \in Nat /\ Len(trades) <= Len(trades')
      /\ DOMAIN trades = 1..Len(trades)
  BY TradesGrow DEF DayTypes
<1>2. ASSUME NEW i \in 1..MaxTrades, Packet(i) \/ FuturePacket(i)
      PROVE  FeedTypes' /\ NoTickWithoutSocket'
  <2>1. /\ i \in 1..Len(trades) /\ socket = "open" /\ tick' = i /\ sent' = i
        /\ socket' = socket
    BY <1>1, <1>2 DEF Packet, FuturePacket, Caches
  <2> QED BY <1>1, <2>1 DEF FeedTypes, NoTickWithoutSocket
<1>3. CASE Connection
  <2>1. /\ socket' \in {"connecting", "open", "closing", "waiting", "closed"}
        /\ tick' \in {tick, 0} /\ sent' \in {sent, 0}
    BY <1>3 DEF Connection, Connects, Disconnects, Retries, Leaves, Cancels, FeedCancelled, Fails,
       ForgetTicks, FeedTypes
  <2>2. tick' # 0 \/ fresh' => socket' = "open"
    BY <1>3 DEF Connection, Connects, Disconnects, Retries, Leaves, Cancels, FeedCancelled, Fails,
       ForgetTicks, NoTickWithoutSocket
  <2>3. tick' \in 0..Len(trades') /\ sent' \in 0..Len(trades')
    BY <1>1, <2>1 DEF FeedTypes
  <2> QED BY <2>1, <2>2, <2>3 DEF FeedTypes, NoTickWithoutSocket
<1>4. CASE Ageing \/ Exchange \/ Flushing \/ Shutdown \/ PollsTick
           \/ \E c \in Callers : PollsQuote(c) \/ QuoteStep(c)
  <2>1. UNCHANGED <<socket, tick, sent>> /\ (fresh' => fresh)
    BY <1>4 DEF Ageing, Exchange, Flushing, Shutdown, Stops, PollsTick, PollsQuote, QuoteStep, TickAges,
       feedVars, marketVars
  <2> QED BY <1>1, <2>1 DEF FeedTypes, NoTickWithoutSocket
<1>5. ASSUME NEW i \in 1..MaxTrades, LastPacket(i)
      PROVE  FeedTypes' /\ NoTickWithoutSocket'
  <2>1. i \in 1..Len(trades) /\ socket' = "closed" /\ tick' = 0 /\ fresh' = FALSE /\ sent' = i
    BY <1>1, <1>5 DEF LastPacket, Leaves, ForgetTicks
  <2> QED BY <1>1, <2>1 DEF FeedTypes, NoTickWithoutSocket
<1> QED BY <1>2, <1>3, <1>4, <1>5 DEF Next

(* A caller's step at the quotes: the lock is taken with the fetch and     *)
(* given back with its answer.                                             *)
LEMMA CallerStep ==
  ASSUME QuoteTypes, LockIsOfFetcher, NEW c \in Callers, PollsQuote(c) \/ QuoteStep(c)
  PROVE  /\ ask' \in [Callers -> {"idle", "lock", "fetch"}]
         /\ quote' \in [Callers -> {0, 1}] /\ young' \in SUBSET Callers
         /\ LockIsOfFetcher'
<1>0. Own \in Callers
  BY MarketConstants
<1>1. CASE Asks(c)
  BY <1>1 DEF Asks, QuoteTypes, LockIsOfFetcher
<1>2. CASE HitsCache(c)
  BY <1>2 DEF HitsCache, quoteVars, QuoteTypes, LockIsOfFetcher
<1>3. CASE FindsQuote(c)
  BY <1>3 DEF FindsQuote, Gets, QuoteTypes, LockIsOfFetcher
<1>4. CASE Fetches(c)
  BY <1>4 DEF Fetches, QuoteTypes, LockIsOfFetcher
<1>5. CASE FetchFails(c)
  BY <1>5 DEF FetchFails, Gets, QuoteTypes, LockIsOfFetcher
<1>6. ASSUME NEW got \in SUBSET Callers, FetchAnswers(c, got, Priced(Len(trades)))
      PROVE  /\ ask' \in [Callers -> {"idle", "lock", "fetch"}]
             /\ quote' \in [Callers -> {0, 1}] /\ young' \in SUBSET Callers
             /\ LockIsOfFetcher'
  <2>1. Priced(Len(trades)) \in {0, 1}
    BY DEF Priced
  <2>2. quote' \in [Callers -> {0, 1}]
    BY <1>6, <2>1 DEF FetchAnswers, QuoteTypes
  <2>3. young' \in SUBSET Callers /\ ask' \in [Callers -> {"idle", "lock", "fetch"}]
    BY <1>6 DEF FetchAnswers, Gets, QuoteTypes
  <2>4. LockIsOfFetcher'
    BY <1>6 DEF FetchAnswers, Gets, QuoteTypes, LockIsOfFetcher
  <2> QED BY <2>2, <2>3, <2>4
<1> QED BY <1>1, <1>2, <1>3, <1>4, <1>5, <1>6 DEF PollsQuote, QuoteStep

LEMMA QuoteInvStep ==
  ASSUME QuoteTypes, LockIsOfFetcher, Next
  PROVE  QuoteTypes' /\ LockIsOfFetcher'
<1>0. Own \in Callers
  BY MarketConstants
<1>1. ASSUME NEW c \in Callers, PollsQuote(c) \/ QuoteStep(c)
      PROVE  QuoteTypes' /\ LockIsOfFetcher'
  <2>1. /\ ask' \in [Callers -> {"idle", "lock", "fetch"}] /\ quote' \in [Callers -> {0, 1}]
        /\ young' \in SUBSET Callers /\ LockIsOfFetcher'
    BY <1>1, CallerStep
  <2>2. lastPrice' \in {lastPrice, quote'[c]}
    BY <1>1 DEF PollsQuote, QuoteStep, Keeps, Given
  <2>3. lastPrice' \in {0, 1}
    BY <2>1, <2>2 DEF QuoteTypes
  <2> QED BY <2>1, <2>3 DEF QuoteTypes
<1>2. CASE PollsTick
  BY <1>2 DEF PollsTick, Priced, quoteVars, QuoteTypes, LockIsOfFetcher
<1>3. CASE Ageing
  <2>1. UNCHANGED <<ask, holder, quote, lastPrice>> /\ young' \in {young, {}}
    BY <1>3 DEF Ageing, QuotesAge, quoteVars, marketVars
  <2> QED BY <2>1 DEF QuoteTypes, LockIsOfFetcher
<1>4. CASE ~(PollsTick \/ Ageing \/ \E c \in Callers : PollsQuote(c) \/ QuoteStep(c))
  <2>1. UNCHANGED <<ask, holder, quote, young, lastPrice>>
    BY <1>4 DEF Next, Packet, FuturePacket, LastPacket, Exchange, Connection, Flushing, Shutdown, quoteVars,
       marketVars
  <2> QED BY <2>1 DEF QuoteTypes, LockIsOfFetcher
<1> QED BY <1>1, <1>2, <1>3, <1>4

LEMMA PriceStep ==
  ASSUME DayTypes, PriceInv, Next
  PROVE  PriceInv'
BY FeedStep, QuoteInvStep DEF PriceInv

(* A request is begun by one caller at a time, for an entry that is old.   *)
LEMMA FetchBegins ==
  ASSUME PriceInv, Next, NEW c \in Callers, ask[c] = "lock", ask'[c] = "fetch"
  PROVE  c \notin young /\ \A d \in Callers : ask[d] # "fetch"
<1>1. ask \in [Callers -> {"idle", "lock", "fetch"}] /\ LockIsOfFetcher
  BY DEF PriceInv, QuoteTypes
<1>2. PICK d \in Callers : PollsQuote(d) \/ QuoteStep(d)
  BY DEF Next, Packet, FuturePacket, LastPacket, Exchange, Connection, Ageing, Flushing, Shutdown, PollsTick,
     quoteVars, QuotesAge
<1>3. Fetches(d) /\ d = c
  BY <1>1, <1>2 DEF PollsQuote, QuoteStep, Asks, HitsCache, FindsQuote, Fetches, FetchAnswers,
     FetchFails, Gets, quoteVars
<1> QED BY <1>1, <1>3 DEF Fetches, StillOld, LockIsOfFetcher

(* Where a new price of the runner comes from.                             *)
LEMMA PriceSource ==
  ASSUME Next, lastPrice' # lastPrice
  PROVE  TickServes \/ Own \in young' \/ ask[Own] = "fetch"
<1>1. CASE PollsTick
  BY <1>1 DEF PollsTick
<1>2. ASSUME NEW c \in Callers, PollsQuote(c) \/ QuoteStep(c)
      PROVE  Own \in young' \/ ask[Own] = "fetch"
  BY <1>2 DEF PollsQuote, QuoteStep, Keeps, HitsCache, FindsQuote, StillOld, FetchAnswers, quoteVars
<1> QED
  BY <1>1, <1>2 DEF Next, Packet, FuturePacket, LastPacket, Exchange, Connection, Ageing, Flushing, Shutdown,
     marketVars

-----------------------------------------------------------------------------
(* The bars.  What is in a sequence that is appended to, put before        *)
(* another, or cut at its front.                                           *)
Elems(s) == {s[k] : k \in DOMAIN s}

LEMMA ElemsAppend ==
  ASSUME NEW S, NEW s \in Seq(S), NEW b \in S
  PROVE  /\ Append(s, b) \in Seq(S) /\ Elems(Append(s, b)) = Elems(s) \cup {b}
         /\ Len(Append(s, b)) = Len(s) + 1
<1> DEFINE t == Append(s, b)
<1>1. /\ t \in Seq(S) /\ Len(t) = Len(s) + 1 /\ DOMAIN t = 1..(Len(s) + 1) /\ DOMAIN s = 1..Len(s)
      /\ t[Len(s) + 1] = b /\ \A k \in 1..Len(s) : t[k] = s[k]
  OBVIOUS
<1> HIDE DEF t
<1>2. Elems(t) \subseteq Elems(s) \cup {b}
  <2> SUFFICES ASSUME NEW k \in DOMAIN t  PROVE t[k] \in Elems(s) \cup {b}
    BY DEF Elems
  <2>1. k \in 1..Len(s) \/ k = Len(s) + 1
    BY <1>1
  <2> QED BY <1>1, <2>1 DEF Elems
<1>3. Elems(s) \cup {b} \subseteq Elems(t)
  <2>1. Len(s) + 1 \in DOMAIN t /\ \A k \in DOMAIN s : k \in DOMAIN t
    BY <1>1
  <2> QED BY <1>1, <2>1 DEF Elems
<1> QED BY <1>1, <1>2, <1>3 DEF t

LEMMA ElemsConcat ==
  ASSUME NEW S, NEW s \in Seq(S), NEW t \in Seq(S)
  PROVE  /\ s \o t \in Seq(S) /\ Len(s \o t) = Len(s) + Len(t)
         /\ Elems(s \o t) = Elems(s) \cup Elems(t)
<1> DEFINE u == s \o t
<1>1. /\ u \in Seq(S) /\ Len(u) = Len(s) + Len(t) /\ DOMAIN u = 1..(Len(s) + Len(t))
      /\ DOMAIN s = 1..Len(s) /\ DOMAIN t = 1..Len(t) /\ Len(s) \in Nat /\ Len(t) \in Nat
      /\ \A k \in 1..(Len(s) + Len(t)) : u[k] = IF k <= Len(s) THEN s[k] ELSE t[k - Len(s)]
  OBVIOUS
<1> HIDE DEF u
<1>2. Elems(u) \subseteq Elems(s) \cup Elems(t)
  <2> SUFFICES ASSUME NEW k \in DOMAIN u  PROVE u[k] \in Elems(s) \cup Elems(t)
    BY DEF Elems
  <2>1. CASE k <= Len(s)
    BY <1>1, <2>1 DEF Elems
  <2>2. CASE ~(k <= Len(s))
    <3>1. k - Len(s) \in DOMAIN t
      BY <1>1, <2>2
    <3> QED BY <1>1, <2>2, <3>1 DEF Elems
  <2> QED BY <2>1, <2>2
<1>3. Elems(s) \subseteq Elems(u)
  BY <1>1 DEF Elems
<1>4. Elems(t) \subseteq Elems(u)
  <2> SUFFICES ASSUME NEW k \in 1..Len(t)  PROVE t[k] \in Elems(u)
    BY <1>1 DEF Elems
  <2>1. k \in Nat /\ k >= 1 /\ k <= Len(t)
    BY <1>1
  <2>2. /\ k + Len(s) \in 1..(Len(s) + Len(t)) /\ ~(k + Len(s) <= Len(s))
        /\ (k + Len(s)) - Len(s) = k
    BY <1>1, <2>1
  <2>3. u[k + Len(s)] = t[(k + Len(s)) - Len(s)]
    BY <1>1, <2>2
  <2>4. u[k + Len(s)] = t[k] /\ k + Len(s) \in DOMAIN u
    BY <1>1, <2>2, <2>3
  <2> QED BY <2>4 DEF Elems
<1> QED BY <1>1, <1>2, <1>3, <1>4 DEF u

LEMMA ElemsCut ==
  ASSUME NEW S, NEW s \in Seq(S), NEW n \in 0..Len(s)
  PROVE  /\ SubSeq(s, n + 1, Len(s)) \in Seq(S) /\ Len(SubSeq(s, n + 1, Len(s))) = Len(s) - n
         /\ Elems(SubSeq(s, n + 1, Len(s))) \subseteq Elems(s)
         /\ \A k \in DOMAIN s : s[k] \in Elems(SubSeq(s, n + 1, Len(s))) \/ k \in 1..n
<1> DEFINE u == SubSeq(s, n + 1, Len(s))
<1>1. /\ u \in Seq(S) /\ Len(u) = Len(s) - n /\ DOMAIN u = 1..(Len(s) - n)
      /\ \A k \in 1..(Len(s) - n) : u[k] = s[k + n]
      /\ Len(s) \in Nat /\ DOMAIN s = 1..Len(s)
  OBVIOUS
<1> HIDE DEF u
<1>2. Elems(u) \subseteq Elems(s)
  <2> SUFFICES ASSUME NEW k \in DOMAIN u  PROVE u[k] \in Elems(s)
    BY DEF Elems
  <2>1. k + n \in DOMAIN s /\ u[k] = s[k + n]
    BY <1>1
  <2> QED BY <2>1 DEF Elems
<1>3. ASSUME NEW k \in DOMAIN s, k \notin 1..n  PROVE s[k] \in Elems(u)
  <2>1. k - n \in DOMAIN u /\ u[k - n] = s[k]
    BY <1>1, <1>3
  <2> QED BY <2>1 DEF Elems
<1> QED BY <1>1, <1>2, <1>3 DEF u

LEMMA QueuedIs ==
  \A b : b \in Queued <=> b \in Elems(pending) \/ \E f \in Flushers : b \in Elems(batch[f])
BY DEF Queued, Elems

LEMMA BarInit == Init => BarInv
<1> SUFFICES ASSUME Init  PROVE BarInv
  OBVIOUS
<1> USE MarketConstants
<1>1. /\ cur = NoBar /\ base = 0 /\ pending = <<>> /\ batch = [f \in Flushers |-> <<>>]
      /\ stored = [m \in Minutes |-> NoBar] /\ closed = [m \in Minutes |-> {}]
      /\ forced = {} /\ dropped = {} /\ counted = 0 /\ rewound = FALSE
  BY DEF Init, InitBars
<1>2. BarTypes
  <2>1. rewound \in BOOLEAN
    BY <1>1
  <2>2. base \in 0..MaxTrades /\ counted \in Nat
    BY <1>1
  <2> QED BY <1>1, <2>1, <2>2 DEF BarTypes
<1>3. Queued = {}
  BY <1>1, QueuedIs DEF Elems
<1>4. CurrentHasTrades /\ QueueBound /\ ClosedLiesBehind
  BY <1>1 DEF CurrentHasTrades, QueueBound, ClosedLiesBehind
<1>5. CopiesAreClosed /\ NoBarLost
  BY <1>1, <1>3 DEF CopiesAreClosed, StoredAtItsMinute, NoBarLost
<1>6. ClosedBarIsWhole
  <2>1. \A m \in Minutes : NoBar.minute # m
    BY DEF NoBar, Minutes
  <2> QED BY <1>1, <1>3, <2>1 DEF ClosedBarIsWhole
<1>7. VolumeCountedOnce
  BY <1>1 DEF VolumeCountedOnce, Larger
<1> QED BY <1>2, <1>4, <1>5, <1>6, <1>7 DEF BarInv

(* Copies move from the queue to a batch, the table or out of the cap: the *)
(* promises about them stay.                                               *)
Shelf == CopiesAreClosed /\ NoBarLost /\ ClosedBarIsWhole

LEMMA ShelfKept ==
  ASSUME BarTypes, BarTypes', Shelf, UNCHANGED <<closed, forced>>,
         dropped \subseteq dropped', Queued' \subseteq Queued,
         \A m \in Minutes : stored'[m] = stored[m] \/ (stored'[m] \in Queued /\ stored'[m].minute = m),
         \A b \in Queued : b \in Queued' \/ stored'[b.minute] # NoBar \/ b.minute \in dropped',
         NoBar \notin Queued
  PROVE  Shelf'
<1>1. CopiesAreClosed'
  <2>1. StoredAtItsMinute'
    BY DEF Shelf, CopiesAreClosed, StoredAtItsMinute
  <2>2. ASSUME NEW b \in Queued', b # NoBar  PROVE IsCopy(b)'
    BY <2>2 DEF Shelf, CopiesAreClosed, IsCopy
  <2>3. ASSUME NEW m \in Minutes, stored'[m] # NoBar  PROVE closed'[stored'[m].minute] # {} /\ stored'[m].minute \in Minutes
    BY <2>3 DEF Shelf, CopiesAreClosed, IsCopy
  <2> QED BY <2>1, <2>2, <2>3 DEF CopiesAreClosed, IsCopy
<1>2. NoBarLost'
  <2> SUFFICES ASSUME NEW m \in Minutes, m \notin dropped', closed[m] # {}
               PROVE  stored'[m] # NoBar \/ \E b \in Queued' : b.minute = m
    BY DEF NoBarLost
  <2>1. CASE stored[m] # NoBar
    BY <2>1
  <2>2. CASE \E b \in Queued : b.minute = m
    BY <2>2
  <2> QED BY <2>1, <2>2 DEF Shelf, NoBarLost
<1>3. ClosedBarIsWhole'
  BY DEF Shelf, ClosedBarIsWhole
<1> QED BY <1>1, <1>2, <1>3 DEF Shelf

LEMMA ShelfSame ==
  ASSUME Shelf, UNCHANGED <<closed, forced, stored, dropped>>, Queued' = Queued
  PROVE  Shelf'
<1>1. CopiesAreClosed'
  BY DEF Shelf, CopiesAreClosed, StoredAtItsMinute, IsCopy
<1>2. NoBarLost'
  BY DEF Shelf, NoBarLost
<1>3. ClosedBarIsWhole'
  BY DEF Shelf, ClosedBarIsWhole
<1> QED BY <1>1, <1>2, <1>3 DEF Shelf

(* The bar in progress joins the queue, closed by a tick or by a flush.    *)
LEMMA ShelfGains ==
  ASSUME BarTypes, Shelf, ClosedLiesBehind, CurrentHasTrades, cur # NoBar,
         Queued' = Queued \cup {cur}, UNCHANGED <<stored, dropped>>,
         closed' = [closed EXCEPT ![cur.minute] = @ \cup cur.got],
         forced' \in {forced, forced \cup {cur.minute}}
  PROVE  Shelf'
<1>1. cur \in Bars /\ cur.minute \in Minutes /\ cur.got # {}
  BY DEF BarTypes, Bars, CurrentHasTrades
<1>2. /\ closed'[cur.minute] = closed[cur.minute] \cup cur.got
      /\ \A m \in Minutes : m # cur.minute => closed'[m] = closed[m]
  BY <1>1 DEF BarTypes
<1>3. \A m \in Minutes : closed[m] # {} => closed'[m] # {}
  BY <1>2
<1>4. CopiesAreClosed'
  <2>1. StoredAtItsMinute'
    BY DEF Shelf, CopiesAreClosed, StoredAtItsMinute
  <2>2. ASSUME NEW b \in Queued', b # NoBar  PROVE IsCopy(b)'
    BY <1>1, <1>2, <1>3, <2>2 DEF Shelf, CopiesAreClosed, IsCopy
  <2>3. ASSUME NEW m \in Minutes, stored'[m] # NoBar
        PROVE  closed'[stored'[m].minute] # {} /\ stored'[m].minute \in Minutes
    BY <1>3, <2>3 DEF Shelf, CopiesAreClosed, IsCopy
  <2> QED BY <2>1, <2>2, <2>3 DEF CopiesAreClosed, IsCopy
<1>5. NoBarLost'
  BY <1>2 DEF Shelf, NoBarLost
<1>6. ClosedBarIsWhole'
  <2> SUFFICES ASSUME NEW m \in Minutes, m \notin dropped, \A f \in forced' : f < m,
                      NEW b \in Queued \cup {cur} \cup {stored[m]}, b.minute = m
               PROVE  b.got = closed'[m]
    BY DEF ClosedBarIsWhole
  <2>1. \A f \in forced : f < m
    OBVIOUS
  <2>2. CASE m # cur.minute
    BY <1>2, <2>1, <2>2 DEF Shelf, ClosedBarIsWhole
  <2>3. CASE m = cur.minute
    <3>1. m \in Int /\ forced \subseteq Int
      BY DEF BarTypes, Minutes
    <3>2. closed[m] = {}
      BY <2>1, <2>3, <3>1 DEF ClosedLiesBehind
    <3>3. \A x \in Queued \cup {stored[m]} : x # NoBar => x.minute # m
      BY <3>2 DEF Shelf, CopiesAreClosed, IsCopy
    <3>4. NoBar.minute # m
      BY DEF NoBar, Minutes
    <3>5. b = cur
      BY <3>3, <3>4
    <3> QED BY <1>2, <2>3, <3>2, <3>5
  <2> QED BY <2>2, <2>3
<1> QED BY <1>4, <1>5, <1>6 DEF Shelf

LEMMA BarsAreBars ==
  /\ NoBar \notin Bars
  /\ \A b \in Bars : b.minute \in Minutes /\ b.minute \in Nat /\ b.vol \in Nat
  /\ BarTypes => \A b \in Queued : b \in Bars
<1>1. NoBar \notin Bars
  BY DEF NoBar, Bars, Minutes
<1>2. \A b \in Bars : b.minute \in Minutes /\ b.minute \in Nat /\ b.vol \in Nat
  BY MarketConstants DEF Bars, Minutes
<1>3. BarTypes => \A b \in Queued : b \in Bars
  BY DEF BarTypes, Queued
<1> QED BY <1>1, <1>2, <1>3

(* The volume: the baseline moves with every packet.                       *)
LEMMA VolumeStep ==
  ASSUME DayTypes, BarTypes, VolumeCountedOnce, NEW i \in DOMAIN trades, OnTick(i, trades[i])
  PROVE  /\ base' \in 0..MaxTrades /\ counted' \in Nat /\ rewound' \in BOOLEAN
         /\ VolumeCountedOnce'
<1> USE MarketConstants
<1> DEFINE delta == IF base = 0 THEN 0 ELSE Larger(0, i - base)
<1>1. i \in Nat /\ i >= 1 /\ i <= MaxTrades /\ base \in Nat /\ base <= MaxTrades /\ counted \in Nat
  BY DEF DayTypes, BarTypes
<1>2. base' = i /\ (rewound' <=> (rewound \/ i < base))
  BY DEF OnTick, Baseline
<1>3. rewound' \in BOOLEAN
  BY DEF OnTick
<1>4. counted' \in {0, counted, counted + delta} /\ (rewound' => counted' = 0)
  BY DEF OnTick
<1>5. delta \in Nat /\ (~rewound' => delta = IF base = 0 THEN 0 ELSE i - base)
  BY <1>1, <1>2 DEF Larger
<1> HIDE DEF delta
<1>6. counted' \in Nat
  BY <1>1, <1>4, <1>5
<1>7. ASSUME ~rewound'  PROVE counted' <= Larger(0, i - 1)
  <2>1. counted <= Larger(0, base - 1) /\ i >= base
    BY <1>1, <1>2, <1>7 DEF VolumeCountedOnce
  <2> QED BY <1>1, <1>4, <1>5, <1>7, <2>1 DEF Larger
<1> QED BY <1>1, <1>2, <1>3, <1>6, <1>7 DEF VolumeCountedOnce

(* The bar a packet leaves in progress. *)
LEMMA CurrentStep ==
  ASSUME DayTypes, BarTypes, CurrentHasTrades, NEW i \in DOMAIN trades, OnTick(i, trades[i])
  PROVE  cur' \in Bars /\ CurrentHasTrades'
<1> USE MarketConstants
<1> DEFINE m == trades[i]
           delta == IF base = 0 THEN 0 ELSE Larger(0, i - base)
<1>1. m \in Minutes /\ i \in 1..MaxTrades /\ trades' = trades
  BY DEF DayTypes, OnTick
<1>2. delta \in Nat
  BY <1>1 DEF BarTypes, Larger
<1>3. \/ cur' = cur /\ cur # NoBar
      \/ cur' = Updated(i, delta) /\ cur # NoBar /\ cur.minute = m
      \/ cur' = Opened(m, i, delta)
  <2>1. NoBar.minute # m
    BY <1>1 DEF NoBar, Minutes
  <2> QED BY <2>1 DEF OnTick, Late
<1> HIDE DEF delta
<1>4. CASE cur' = cur /\ cur # NoBar
  BY <1>1, <1>4 DEF BarTypes, CurrentHasTrades
<1>5. CASE cur' = Updated(i, delta) /\ cur # NoBar /\ cur.minute = m
  <2>1. cur \in Bars
    BY <1>5 DEF BarTypes
  <2>2. cur' = [cur EXCEPT !.got = cur.got \cup {i}, !.vol = cur.vol + delta]
    BY <1>5 DEF Updated
  <2>3. cur.got \cup {i} \in SUBSET (1..MaxTrades) /\ cur.vol + delta \in Nat
    BY <1>1, <1>2, <2>1 DEF Bars
  <2>4. cur' \in Bars /\ cur'.got = cur.got \cup {i} /\ cur'.minute = cur.minute
    BY <2>1, <2>2, <2>3 DEF Bars
  <2> QED BY <1>1, <1>5, <2>4 DEF CurrentHasTrades
<1>6. CASE cur' = Opened(m, i, delta)
  BY <1>1, <1>2, <1>6 DEF Opened, Bars, CurrentHasTrades
<1> QED BY <1>3, <1>4, <1>5, <1>6

LEMMA TickStep ==
  ASSUME DayTypes, BarInv, NEW i \in DOMAIN trades, OnTick(i, trades[i])
  PROVE  BarInv'
<1> USE MarketConstants
<1> DEFINE m == trades[i]
<1>0. /\ BarTypes /\ CurrentHasTrades /\ QueueBound /\ ClosedLiesBehind /\ Shelf /\ VolumeCountedOnce
  BY DEF BarInv, Shelf
<1>1. /\ m \in Minutes /\ m \in Nat /\ UNCHANGED <<now, trades, batch, stored, forced, dropped>>
  BY DEF DayTypes, OnTick, Minutes
<1>2. /\ base' \in 0..MaxTrades /\ counted' \in Nat /\ rewound' \in BOOLEAN /\ VolumeCountedOnce'
  BY <1>0, VolumeStep
<1>3. cur' \in Bars /\ CurrentHasTrades' /\ cur' # NoBar
  BY <1>0, CurrentStep, BarsAreBars
<1>4. CASE UNCHANGED <<pending, closed>>
  <2>1. BarTypes'
    BY <1>0, <1>1, <1>2, <1>3, <1>4 DEF BarTypes
  <2>2. Queued' = Queued
    BY <1>1, <1>4 DEF Queued
  <2>3. Shelf'
    BY <1>0, <1>1, <1>4, <2>2, ShelfSame
  <2>4. cur = NoBar \/ (cur # NoBar /\ cur'.minute = cur.minute)
    <3>1. cur # NoBar => cur' = cur \/ \E v : cur' = Updated(i, v)
                         \/ (cur.minute # m /\ ~Late(m) /\ Closes(cur))
      BY DEF OnTick
    <3>2. cur # NoBar => cur \in Bars /\ ~Closes(cur)
      <4>1. ASSUME cur # NoBar, Closes(cur)  PROVE FALSE
        <5>1. cur \in Bars /\ pending \in Seq(Bars) /\ pending' = Append(pending, cur)
          BY <1>0, <4>1 DEF BarTypes, Closes
        <5>2. Len(pending') = Len(pending) + 1 /\ Len(pending) \in Nat
          BY <5>1
        <5> QED BY <1>4, <5>2
      <4> QED BY <1>0, <4>1 DEF BarTypes
    <3> QED BY <3>1, <3>2 DEF Updated, Bars
  <2>5. QueueBound'
    <3>1. \A k \in DOMAIN trades : k \in Nat /\ k >= 1
      BY DEF DayTypes
    <3>2. Len(pending) \in Nat
      BY <1>0 DEF BarTypes
    <3> QED BY <1>0, <1>1, <1>3, <1>4, <2>4, <3>1, <3>2 DEF QueueBound
  <2>6. ClosedLiesBehind'
    BY <1>0, <1>1, <1>3, <1>4, <2>4 DEF ClosedLiesBehind
  <2> QED BY <1>2, <1>3, <2>1, <2>3, <2>5, <2>6 DEF BarInv, Shelf
<1>5. CASE cur # NoBar /\ cur.minute # m /\ ~Late(m) /\ Closes(cur)
  <2>1. /\ cur \in Bars /\ cur.minute \in Minutes /\ cur.minute \in Nat /\ cur.minute < m
        /\ cur.got \in SUBSET (1..MaxTrades)
    <3>1. cur \in Bars /\ cur.minute \in Minutes /\ cur.minute \in Nat /\ cur.got \in SUBSET (1..MaxTrades)
      BY <1>0, <1>5, BarsAreBars DEF BarTypes, Bars
    <3> QED BY <1>1, <1>5, <3>1 DEF Late
  <2>2. \E v : cur' = Opened(m, i, v)
    BY <1>5 DEF OnTick
  <2>3. cur'.minute = m
    BY <2>2 DEF Opened
  <2>4. /\ pending' = Append(pending, cur) /\ pending \in Seq(Bars)
        /\ closed' = [closed EXCEPT ![cur.minute] = closed[cur.minute] \cup cur.got]
    BY <1>0, <1>5 DEF Closes, BarTypes
  <2>5. /\ pending' \in Seq(Bars) /\ Elems(pending') = Elems(pending) \cup {cur}
        /\ Len(pending') = Len(pending) + 1
    BY <2>1, <2>4, ElemsAppend
  <2>6. closed' \in [Minutes -> SUBSET (1..MaxTrades)]
    BY <1>0, <2>1, <2>4 DEF BarTypes
  <2>7. BarTypes'
    BY <1>0, <1>1, <1>2, <1>3, <2>5, <2>6 DEF BarTypes
  <2>8. Queued' = Queued \cup {cur}
    <3>1. Queued' = Elems(pending') \cup UNION {Elems(batch[f]) : f \in Flushers}
      BY <1>1 DEF Queued, Elems
    <3>2. Queued = Elems(pending) \cup UNION {Elems(batch[f]) : f \in Flushers}
      BY DEF Queued, Elems
    <3> QED BY <2>5, <3>1, <3>2
  <2>9. Shelf'
    BY <1>0, <1>1, <1>5, <2>4, <2>8, ShelfGains
  <2>10. ClosedLiesBehind'
    <3> SUFFICES ASSUME NEW x \in Minutes, closed'[x] # {}
                 PROVE  x < m \/ \E f \in forced : x <= f
      BY <1>1, <1>3, <2>3 DEF ClosedLiesBehind
    <3>1. CASE x = cur.minute
      BY <2>1, <3>1
    <3>2. CASE x # cur.minute
      <4>1. closed[x] # {} /\ x \in Nat
        BY <1>0, <2>1, <2>4, <3>2 DEF BarTypes, Minutes
      <4> QED BY <1>0, <1>1, <2>1, <4>1 DEF ClosedLiesBehind
    <3> QED BY <3>1, <3>2
  <2>11. QueueBound'
    <3> SUFFICES ASSUME NEW k \in DOMAIN trades, trades[k] >= m
                 PROVE  Len(pending') <= MaxPending + k - 1
      BY <1>1, <1>3, <2>3 DEF QueueBound
    <3>1. PICK j \in cur.got : j \in DOMAIN trades /\ trades[j] = cur.minute
      BY <1>0, <1>5 DEF CurrentHasTrades
    <3>2. j \in Nat /\ k \in Nat /\ trades[k] \in Nat /\ trades[j] \in Nat
      BY <3>1 DEF DayTypes, Minutes
    <3>3. j < k
      <4>1. ~(k <= j)
        <5> SUFFICES ASSUME k <= j  PROVE FALSE
          OBVIOUS
        <5>1. k = j \/ k < j
          BY <3>2
        <5>2. trades[k] <= trades[j]
          BY <3>1, <3>2, <5>1 DEF DayTypes
        <5> QED BY <1>1, <2>1, <3>1, <3>2, <5>2
      <4> QED BY <3>2, <4>1
    <3>4. Len(pending) <= MaxPending + j - 1
      BY <1>0, <1>5, <2>1, <3>1 DEF QueueBound
    <3>5. Len(pending) \in Nat
      BY <2>4
    <3> QED BY <2>5, <3>2, <3>3, <3>4, <3>5
  <2> QED BY <1>2, <1>3, <2>7, <2>9, <2>10, <2>11 DEF BarInv, Shelf
<1> QED BY <1>4, <1>5 DEF OnTick

(* A flush takes what is pending, the bar in progress too if its minute    *)
(* has passed.                                                             *)
LEMMA FlushStep ==
  ASSUME DayTypes, BarInv, NEW f \in Flushers, Flush(f)
  PROVE  BarInv'
<1> USE MarketConstants
<1>0. BarTypes /\ CurrentHasTrades /\ QueueBound /\ ClosedLiesBehind /\ Shelf /\ VolumeCountedOnce
  BY DEF BarInv, Shelf
<1>1. /\ batch[f] = <<>> /\ batch' = [batch EXCEPT ![f] = Taken] /\ pending' = <<>>
      /\ UNCHANGED <<trades, base, stored, dropped, counted, rewound>>
      /\ pending \in Seq(Bars) /\ batch \in [Flushers -> Seq(Bars)]
  BY <1>0 DEF Flush, BarTypes
<1>2. Passed => cur \in Bars /\ cur # NoBar /\ cur.minute \in Minutes
  BY <1>0, BarsAreBars DEF Passed, BarTypes
<1>3. /\ Taken \in Seq(Bars)
      /\ Elems(Taken) = Elems(pending) \cup (IF Passed THEN {cur} ELSE {})
  BY <1>1, <1>2, ElemsAppend DEF Taken
<1>4. Queued' = Queued \cup (IF Passed THEN {cur} ELSE {})
  <2>1. ASSUME NEW b  PROVE b \in Queued' <=> b \in Queued \/ (Passed /\ b = cur)
    <3>1. b \in Queued' <=> b \in Elems(pending') \/ \E g \in Flushers : b \in Elems(batch'[g])
      BY DEF Queued, Elems
    <3>2. Elems(pending') = {} /\ Elems(batch[f]) = {}
      BY <1>1 DEF Elems
    <3>3. \A g \in Flushers : batch'[g] = IF g = f THEN Taken ELSE batch[g]
      BY <1>1
    <3>4. b \in Queued' <=> b \in Elems(Taken) \/ \E g \in Flushers : g # f /\ b \in Elems(batch[g])
      BY <3>1, <3>2, <3>3
    <3>5. b \in Queued <=> b \in Elems(pending) \/ \E g \in Flushers : g # f /\ b \in Elems(batch[g])
      BY <3>2, QueuedIs
    <3> QED BY <1>3, <3>4, <3>5
  <2> QED BY <2>1
<1>5. QueueBound'
  <2>1. Len(pending') = 0 /\ \A k \in DOMAIN trades : k \in Nat /\ k >= 1
    BY <1>1 DEF DayTypes
  <2>2. \A k \in DOMAIN trades : 0 <= MaxPending + k - 1
    BY <2>1
  <2> QED BY <1>1, <2>1, <2>2 DEF QueueBound
<1>6. CASE Passed
  <2>1. /\ cur' = NoBar /\ forced' = forced \cup {cur.minute}
        /\ closed' = [closed EXCEPT ![cur.minute] = closed[cur.minute] \cup cur.got]
    BY <1>6 DEF Flush
  <2>2. cur.got \in SUBSET (1..MaxTrades)
    BY <1>2, <1>6 DEF Bars
  <2>3. closed' \in [Minutes -> SUBSET (1..MaxTrades)] /\ forced' \in SUBSET Minutes
    BY <1>0, <1>2, <1>6, <2>1, <2>2 DEF BarTypes
  <2>4. BarTypes'
    BY <1>0, <1>1, <1>3, <2>1, <2>3 DEF BarTypes
  <2>5. Shelf'
    BY <1>0, <1>1, <1>2, <1>4, <1>6, <2>1, ShelfGains
  <2>6. ClosedLiesBehind'
    <3> SUFFICES ASSUME NEW x \in Minutes, closed'[x] # {}
                 PROVE  \E g \in forced \cup {cur.minute} : x <= g
      BY <2>1 DEF ClosedLiesBehind
    <3>1. x \in Nat /\ cur.minute \in Nat
      BY <1>2, <1>6 DEF Minutes
    <3>2. CASE x = cur.minute
      BY <3>1, <3>2
    <3>3. CASE x # cur.minute
      <4>1. closed[x] # {}
        BY <1>0, <1>2, <1>6, <2>1, <3>3 DEF BarTypes
      <4>2. (cur # NoBar /\ x < cur.minute) \/ \E g \in forced : x <= g
        BY <1>0, <4>1 DEF ClosedLiesBehind
      <4> QED BY <3>1, <4>2
    <3> QED BY <3>2, <3>3
  <2>7. CurrentHasTrades' /\ VolumeCountedOnce'
    BY <1>0, <1>1, <2>1 DEF CurrentHasTrades, VolumeCountedOnce
  <2> QED BY <1>5, <2>4, <2>5, <2>6, <2>7 DEF BarInv, Shelf
<1>7. CASE ~Passed
  <2>1. UNCHANGED <<cur, forced, closed>> /\ Queued' = Queued
    BY <1>4, <1>7 DEF Flush
  <2>2. BarTypes'
    BY <1>0, <1>1, <1>3, <2>1 DEF BarTypes
  <2>3. Shelf'
    BY <1>0, <1>1, <2>1, ShelfSame
  <2>4. CurrentHasTrades' /\ ClosedLiesBehind' /\ VolumeCountedOnce'
    BY <1>0, <1>1, <2>1 DEF CurrentHasTrades, ClosedLiesBehind, VolumeCountedOnce
  <2> QED BY <1>5, <2>2, <2>3, <2>4 DEF BarInv, Shelf
<1> QED BY <1>6, <1>7

(* A finite set of numbers has a greatest one.                             *)
LEMMA GreatestExists ==
  ASSUME NEW S \in SUBSET Int, IsFiniteSet(S), S # {}
  PROVE  \E x \in S : \A y \in S : y <= x
<1> DEFINE Top(s) == \E x \in s : \A y \in s : y <= x
           Bad == {s \in SUBSET S : s # {} /\ ~Top(s)}
<1>1. Bad = {}
  <2> SUFFICES ASSUME Bad # {}  PROVE FALSE
    OBVIOUS
  <2>1. IsWellFoundedOn(StrictSubsetOrdering(S), SUBSET S)
    BY FS_StrictSubsetOrderingWellFounded, FS_FiniteSubsetsOfFinite
  <2>2. PICK s \in Bad : \A r \in Bad : <<r, s>> \notin StrictSubsetOrdering(S)
    <3>1. Bad \subseteq SUBSET S
      OBVIOUS
    <3> HIDE DEF Bad
    <3> QED BY <2>1, <3>1, WFMin
  <2>3. PICK x \in s : TRUE
    BY <2>2
  <2>4. s \ {x} \notin Bad
    BY <2>2, <2>3 DEF StrictSubsetOrdering
  <2>5. CASE s \ {x} = {}
    BY <2>2, <2>3, <2>5
  <2>6. CASE s \ {x} # {}
    <3>1. PICK m \in s \ {x} : \A y \in s \ {x} : y <= m
      BY <2>2, <2>4, <2>6
    <3>2. m \in Int /\ x \in Int /\ \A y \in s : y \in Int
      BY <2>2, <2>3
    <3>3. Top(s)
      <4>1. CASE m <= x
        BY <2>3, <3>1, <3>2, <4>1
      <4>2. CASE x <= m
        BY <2>3, <3>1, <3>2, <4>2
      <4> QED BY <3>2, <4>1, <4>2
    <3> QED BY <2>2, <3>3
  <2> QED BY <2>5, <2>6
<1>2. S \notin Bad
  BY <1>1
<1> QED BY <1>2

(* The last bar a batch has for a minute is the one that stays.            *)
LEMMA LastOfIs ==
  ASSUME NEW s \in Seq(Bars), NEW m, NEW k \in DOMAIN s, s[k].minute = m
  PROVE  LastOf(s, m) \in Elems(s) /\ LastOf(s, m).minute = m
<1> DEFINE At == {n \in DOMAIN s : s[n].minute = m}
           last == CHOOSE j \in At : \A n \in At : n <= j
<1>1. Len(s) \in Nat /\ DOMAIN s = 1..Len(s) /\ k \in At /\ At \in SUBSET Int
  OBVIOUS
<1>2. IsFiniteSet(At)
  <2>1. IsFiniteSet(1..Len(s)) /\ At \in SUBSET (1..Len(s))
    BY <1>1, FS_Interval
  <2> HIDE DEF At
  <2> QED BY <2>1, FS_Subset
<1>3. \E j \in At : \A n \in At : n <= j
  <2> HIDE DEF At
  <2> QED BY <1>1, <1>2, GreatestExists
<1>4. last \in At
  BY <1>3
<1>5. LastOf(s, m) = s[last]
  BY DEF LastOf
<1> HIDE DEF last
<1> QED BY <1>4, <1>5 DEF Elems

LEMMA WrittenStep ==
  ASSUME BarInv, NEW f \in Flushers, FlushWritten(f)
  PROVE  BarInv'
<1>0. BarTypes /\ CurrentHasTrades /\ QueueBound /\ ClosedLiesBehind /\ Shelf /\ VolumeCountedOnce
  BY DEF BarInv, Shelf
<1>1. /\ stored' = Upserted(batch[f]) /\ batch' = [batch EXCEPT ![f] = <<>>]
      /\ UNCHANGED <<trades, cur, base, pending, closed, forced, dropped, counted, rewound>>
      /\ batch \in [Flushers -> Seq(Bars)] /\ batch[f] \in Seq(Bars)
  BY <1>0 DEF FlushWritten, BarTypes
<1>2. \A m \in Minutes : stored'[m] =
        IF \E k \in DOMAIN batch[f] : batch[f][k].minute = m THEN LastOf(batch[f], m) ELSE stored[m]
  BY <1>1 DEF Upserted
<1>3. ASSUME NEW b  PROVE b \in Queued <=> b \in Queued' \/ b \in Elems(batch[f])
  <2>1. b \in Queued' <=> b \in Elems(pending) \/ \E g \in Flushers : b \in Elems(batch'[g])
    BY <1>1 DEF Queued, Elems
  <2>2. \A g \in Flushers : Elems(batch'[g]) = IF g = f THEN {} ELSE Elems(batch[g])
    <3>1. \A g \in Flushers : batch'[g] = IF g = f THEN <<>> ELSE batch[g]
      BY <1>1
    <3> QED BY <3>1 DEF Elems
  <2> QED BY <2>1, <2>2, QueuedIs
<1>4. \A b \in Elems(batch[f]) : b \in Bars /\ b \in Queued /\ b.minute \in Minutes
  BY <1>0, <1>3, BarsAreBars
<1>5. \A m \in Minutes :
        stored'[m] = stored[m] \/ (stored'[m] \in Elems(batch[f]) /\ stored'[m].minute = m)
  BY <1>1, <1>2, LastOfIs
<1>6. \A b \in Elems(batch[f]) : stored'[b.minute] \in Elems(batch[f])
  <2> SUFFICES ASSUME NEW k \in DOMAIN batch[f]
               PROVE  stored'[batch[f][k].minute] \in Elems(batch[f])
    BY DEF Elems
  <2>1. batch[f][k].minute \in Minutes
    BY <1>4 DEF Elems
  <2>2. stored'[batch[f][k].minute] = LastOf(batch[f], batch[f][k].minute)
    BY <1>2, <2>1
  <2> QED BY <1>1, <2>2, LastOfIs
<1>7. BarTypes'
  <2>1. batch' \in [Flushers -> Seq(Bars)]
    <3>1. <<>> \in Seq(Bars)
      OBVIOUS
    <3> QED BY <1>1, <3>1
  <2>2. stored' \in [Minutes -> Bars \cup {NoBar}]
    <3>1. stored' = [m \in Minutes |-> stored'[m]]
      BY <1>1 DEF Upserted
    <3>2. \A m \in Minutes : stored'[m] \in Bars \cup {NoBar}
      BY <1>0, <1>4, <1>5 DEF BarTypes
    <3> QED BY <3>1, <3>2
  <2> QED BY <1>0, <1>1, <2>1, <2>2 DEF BarTypes
<1>8. Shelf'
  <2>1. Queued' \subseteq Queued /\ NoBar \notin Queued
    BY <1>0, <1>3, BarsAreBars
  <2>2. \A m \in Minutes : stored'[m] = stored[m] \/ (stored'[m] \in Queued /\ stored'[m].minute = m)
    BY <1>4, <1>5
  <2>3. \A b \in Queued : b \in Queued' \/ stored'[b.minute] # NoBar
    BY <1>3, <1>4, <1>6, <2>1
  <2> QED BY <1>0, <1>1, <1>7, <2>1, <2>2, <2>3, ShelfKept
<1>9. CurrentHasTrades' /\ ClosedLiesBehind' /\ VolumeCountedOnce' /\ QueueBound'
  BY <1>0, <1>1 DEF CurrentHasTrades, ClosedLiesBehind, VolumeCountedOnce, QueueBound
<1> QED BY <1>7, <1>8, <1>9 DEF BarInv, Shelf

(* A write that fails puts its batch back to the front; what the cap cuts  *)
(* off is remembered as dropped.                                           *)
LEMMA RequeueStep ==
  ASSUME DayTypes, BarInv, NEW f \in Flushers, FlushRequeues(f)
  PROVE  BarInv'
<1> USE MarketConstants
<1> DEFINE all == Requeued(f)
           n == Excess(all)
<1>0. BarTypes /\ CurrentHasTrades /\ QueueBound /\ ClosedLiesBehind /\ Shelf /\ VolumeCountedOnce
  BY DEF BarInv, Shelf
<1>1. /\ pending' = SubSeq(all, n + 1, Len(all)) /\ batch' = [batch EXCEPT ![f] = <<>>]
      /\ dropped' = dropped \cup {all[k].minute : k \in 1..n}
      /\ UNCHANGED <<trades, cur, base, stored, closed, forced, counted, rewound>>
      /\ batch \in [Flushers -> Seq(Bars)] /\ batch[f] \in Seq(Bars) /\ pending \in Seq(Bars)
  BY <1>0 DEF FlushRequeues, BarTypes
<1>2. /\ all \in Seq(Bars) /\ Elems(all) = Elems(batch[f]) \cup Elems(pending)
  BY <1>1, ElemsConcat DEF Requeued
<1> HIDE DEF all
<1>3. n \in 0..Len(all) /\ Len(all) - n <= MaxPending
  <2>1. Len(all) \in Nat
    BY <1>2
  <2> QED BY <2>1 DEF Excess, Larger
<1> HIDE DEF n
<1>4. /\ pending' \in Seq(Bars) /\ Len(pending') <= MaxPending
      /\ Elems(pending') \subseteq Elems(all)
      /\ \A k \in DOMAIN all : all[k] \in Elems(pending') \/ k \in 1..n
  BY <1>1, <1>2, <1>3, ElemsCut
<1>5. \A b \in Elems(all) : b \in Elems(pending') \/ b.minute \in dropped'
  BY <1>1, <1>4 DEF Elems
<1>6. \A g \in Flushers : Elems(batch'[g]) = IF g = f THEN {} ELSE Elems(batch[g])
  <2>1. \A g \in Flushers : batch'[g] = IF g = f THEN <<>> ELSE batch[g]
    BY <1>1
  <2> QED BY <2>1 DEF Elems
<1>7. \A b : b \in Queued' <=> b \in Elems(pending') \/ \E g \in Flushers : b \in Elems(batch'[g])
  BY DEF Queued, Elems
<1>8. Queued' \subseteq Queued
  BY <1>2, <1>4, <1>6, <1>7, QueuedIs
<1>9. \A b \in Queued : b \in Queued' \/ b.minute \in dropped'
  BY <1>2, <1>5, <1>6, <1>7, QueuedIs
<1>10. BarTypes'
  <2>1. batch' \in [Flushers -> Seq(Bars)]
    <3>1. <<>> \in Seq(Bars)
      OBVIOUS
    <3> QED BY <1>1, <3>1
  <2>2. dropped' \in SUBSET Minutes
    <3>1. \A k \in 1..n : all[k] \in Bars
      BY <1>2, <1>3
    <3> QED BY <1>0, <1>1, <3>1, BarsAreBars DEF BarTypes
  <2> QED BY <1>0, <1>1, <1>4, <2>1, <2>2 DEF BarTypes
<1>11. Shelf'
  <2>1. NoBar \notin Queued /\ dropped \subseteq dropped'
    BY <1>0, <1>1, BarsAreBars
  <2> QED BY <1>0, <1>1, <1>8, <1>9, <1>10, <2>1, ShelfKept
<1>12. QueueBound'
  <2>1. \A k \in DOMAIN trades : k \in Nat /\ k >= 1
    BY DEF DayTypes
  <2>2. Len(pending') \in Nat
    BY <1>4
  <2>3. \A k \in DOMAIN trades : Len(pending') <= MaxPending + k - 1
    BY <1>4, <2>1, <2>2
  <2> QED BY <1>1, <1>4, <2>3 DEF QueueBound
<1>13. CurrentHasTrades' /\ ClosedLiesBehind' /\ VolumeCountedOnce'
  BY <1>0, <1>1 DEF CurrentHasTrades, ClosedLiesBehind, VolumeCountedOnce
<1> QED BY <1>10, <1>11, <1>12, <1>13 DEF BarInv, Shelf

(* A trade is the newest: of no earlier minute than the bar in progress,   *)
(* whose own trades came before it.                                        *)
LEMMA NewTradeStep ==
  ASSUME DayTypes, BarInv, Trade
  PROVE  BarInv'
<1> USE MarketConstants
<1>0. BarTypes /\ CurrentHasTrades /\ QueueBound /\ ClosedLiesBehind /\ Shelf /\ VolumeCountedOnce
  BY DEF BarInv, Shelf
<1>1. UNCHANGED <<now, cur, base, pending, batch, stored, closed, forced, dropped, counted, rewound>>
  BY DEF Trade
<1>2. /\ DOMAIN trades' = 1..(Len(trades) + 1) /\ DOMAIN trades = 1..Len(trades)
      /\ Len(trades) \in Nat /\ \A k \in DOMAIN trades : trades'[k] = trades[k]
  BY TradeFacts DEF DayTypes
<1>3. BarTypes'
  BY <1>0, <1>1 DEF BarTypes
<1>4. Shelf'
  <2>1. Queued' = Queued
    BY <1>1 DEF Queued
  <2> QED BY <1>0, <1>1, <2>1, ShelfSame
<1>5. CurrentHasTrades'
  <2>1. \A k \in DOMAIN trades : k \in DOMAIN trades'
    BY <1>2
  <2> QED BY <1>0, <1>1, <1>2, <2>1 DEF CurrentHasTrades
<1>6. QueueBound'
  <2>1. Len(pending) \in Nat
    BY <1>0 DEF BarTypes
  <2> SUFFICES ASSUME cur # NoBar, NEW k \in DOMAIN trades', trades'[k] >= cur.minute
               PROVE  Len(pending) <= MaxPending + k - 1
    BY <1>0, <1>1 DEF QueueBound
  <2>2. CASE k \in DOMAIN trades
    BY <1>0, <1>2, <2>2 DEF QueueBound
  <2>3. CASE k \notin DOMAIN trades
    <3>1. k = Len(trades) + 1
      BY <1>2, <2>3
    <3>2. PICK j \in cur.got : j \in DOMAIN trades /\ trades[j] = cur.minute
      BY <1>0 DEF CurrentHasTrades
    <3>3. j \in Nat /\ j <= Len(trades) /\ trades[j] \in Nat
      BY <1>2, <3>2 DEF DayTypes, Minutes
    <3>4. trades[j] >= cur.minute
      BY <3>2, <3>3
    <3>5. Len(pending) <= MaxPending + j - 1
      BY <1>0, <3>2, <3>4 DEF QueueBound
    <3> QED BY <1>2, <2>1, <3>1, <3>3, <3>5
  <2> QED BY <2>2, <2>3
<1>7. ClosedLiesBehind' /\ VolumeCountedOnce'
  BY <1>0, <1>1 DEF ClosedLiesBehind, VolumeCountedOnce
<1> QED BY <1>3, <1>4, <1>5, <1>6, <1>7 DEF BarInv, Shelf

(* The invariant of the bars speaks of these variables alone. *)
LEMMA BarsUntouched ==
  ASSUME BarInv,
         UNCHANGED <<trades, cur, base, pending, batch, stored, closed, forced, dropped, counted,
                     rewound>>
  PROVE  BarInv'
<1>0. BarTypes /\ CurrentHasTrades /\ QueueBound /\ ClosedLiesBehind /\ Shelf /\ VolumeCountedOnce
  BY DEF BarInv, Shelf
<1>1. BarTypes'
  BY <1>0 DEF BarTypes
<1>2. Shelf'
  <2>1. Queued' = Queued
    BY DEF Queued
  <2> QED BY <1>0, <2>1, ShelfSame
<1>3. CurrentHasTrades' /\ QueueBound' /\ ClosedLiesBehind' /\ VolumeCountedOnce'
  BY <1>0 DEF CurrentHasTrades, QueueBound, ClosedLiesBehind, VolumeCountedOnce
<1> QED BY <1>1, <1>2, <1>3 DEF BarInv, Shelf

LEMMA BarStep ==
  ASSUME DayTypes, BarInv, Next
  PROVE  BarInv'
<1>1. ASSUME NEW i \in 1..MaxTrades, Packet(i) \/ LastPacket(i)  PROVE BarInv'
  BY <1>1, TickStep DEF Packet, LastPacket
<1>2. CASE Trade
  BY <1>2, NewTradeStep
<1>3. ASSUME NEW f \in Flushers, Flush(f) \/ FlushWritten(f) \/ FlushRequeues(f)  PROVE BarInv'
  BY <1>3, FlushStep, WrittenStep, RequeueStep
<1>4. CASE Flushing
  <2>1. "loop" \in Flushers
    BY DEF Flushers
  <2> QED BY <1>3, <1>4, <2>1 DEF Flushing
<1>5. CASE Shutdown
  <2>1. CASE Flush("shutdown")
    <3>1. "shutdown" \in Flushers
      BY DEF Flushers
    <3> QED BY <1>3, <2>1, <3>1
  <2>2. CASE ~Flush("shutdown")
    <3>1. UNCHANGED <<trades, cur, base, pending, batch, stored, closed, forced, dropped, counted,
                      rewound>>
      BY <1>5, <2>2 DEF Shutdown
    <3> QED BY <3>1, BarsUntouched
  <2> QED BY <2>1, <2>2
<1>6. CASE ~(Trade \/ Flushing \/ Shutdown
             \/ \E i \in 1..MaxTrades : Packet(i) \/ LastPacket(i))
  <2>1. UNCHANGED <<trades, cur, base, pending, batch, stored, closed, forced, dropped, counted,
                    rewound>>
    BY <1>6 DEF Next, FuturePacket, Exchange, MinuteTurns, Connection, Ageing, PollsTick,
       PollsQuote, QuoteStep, barVars
  <2> QED BY <2>1, BarsUntouched
<1> QED BY <1>1, <1>2, <1>4, <1>5, <1>6

LEMMA MarketInvStep ==
  ASSUME MarketInv, [Next]_vars
  PROVE  MarketInv'
<1>1. CASE Next
  BY <1>1, DayStep, PriceStep, BarStep DEF MarketInv
<1>2. CASE UNCHANGED vars
  <2>1. UNCHANGED <<now, trades, cur, base, pending, batch, stored, closed, forced, dropped,
                    counted, rewound>>
    BY <1>2 DEF vars, barVars
  <2>2. UNCHANGED <<socket, tick, fresh, sent, ask, holder, quote, young, lastPrice>>
    BY <1>2 DEF vars, feedVars, quoteVars, marketVars
  <2>3. BarInv'
    BY <2>1, BarsUntouched DEF MarketInv
  <2>4. DayTypes'
    BY <2>1 DEF MarketInv, DayTypes
  <2>5. PriceInv'
    BY <2>1, <2>2 DEF MarketInv, PriceInv, FeedTypes, QuoteTypes, NoTickWithoutSocket, LockIsOfFetcher
  <2> QED BY <2>3, <2>4, <2>5 DEF MarketInv
<1> QED BY <1>1, <1>2

LEMMA MarketAlways == Spec => []MarketInv
<1>1. Init => MarketInv
  BY DayInit, PriceInit, BarInit DEF MarketInv
<1>2. MarketInv /\ [Next]_vars => MarketInv'
  BY MarketInvStep
<1> QED BY <1>1, <1>2, PTL DEF Spec

-----------------------------------------------------------------------------
(* The queue never holds more than its cap and the trades of the day.      *)
LEMMA QueueIsBounded ==
  ASSUME DayTypes, BarTypes, CurrentHasTrades, QueueBound
  PROVE  Len(pending) <= MaxPending + MaxTrades
<1> USE MarketConstants
<1>1. Len(pending) \in Nat
  BY DEF BarTypes
<1>2. CASE cur = NoBar
  BY <1>1, <1>2 DEF QueueBound
<1>3. CASE cur # NoBar
  <2>1. PICK j \in cur.got : j \in DOMAIN trades /\ trades[j] = cur.minute
    BY <1>3 DEF CurrentHasTrades
  <2>2. j \in 1..MaxTrades /\ trades[j] \in Nat
    BY <2>1 DEF DayTypes, Minutes
  <2>3. trades[j] >= cur.minute
    BY <2>1, <2>2
  <2>4. Len(pending) <= MaxPending + j - 1
    BY <1>3, <2>1, <2>3 DEF QueueBound
  <2> QED BY <1>1, <2>2, <2>4
<1> QED BY <1>2, <1>3

LEMMA MarketTypes == MarketInv => MarketTypeOK
<1> SUFFICES ASSUME MarketInv  PROVE MarketTypeOK
  OBVIOUS
<1>1. DayTypes /\ BarTypes /\ CurrentHasTrades /\ QueueBound /\ FeedTypes /\ QuoteTypes
  BY DEF MarketInv, BarInv, PriceInv
<1>2. cur # NoBar => cur.minute \in Minutes /\ cur.got # {}
  BY <1>1 DEF BarTypes, CurrentHasTrades, Bars
<1>3. \A f \in Flushers : \A k \in DOMAIN batch[f] : batch[f][k].minute \in Minutes
  <2> SUFFICES ASSUME NEW f \in Flushers, NEW k \in DOMAIN batch[f]
               PROVE  batch[f][k].minute \in Minutes
    OBVIOUS
  <2>1. batch[f] \in Seq(Bars)
    BY <1>1 DEF BarTypes
  <2>2. batch[f][k] \in Bars
    BY <2>1
  <2> QED BY <2>2 DEF Bars
<1>4. Len(pending) <= MaxPending + MaxTrades
  BY <1>1, QueueIsBounded
<1>5. now \in Minutes /\ Len(trades) <= MaxTrades /\ base \in 0..MaxTrades
  BY <1>1 DEF DayTypes, BarTypes
<1>6. /\ socket \in {"connecting", "open", "closing", "waiting", "closed"}
      /\ {tick, sent} \subseteq 0..Len(trades)
  BY <1>1 DEF FeedTypes
<1>7. quote \in [Callers -> {0, 1}] /\ lastPrice \in {0, 1} /\ young \subseteq Callers
  BY <1>1 DEF QuoteTypes
<1> QED BY <1>2, <1>3, <1>4, <1>5, <1>6, <1>7 DEF MarketTypeOK

(* The prices are sound for every number of runners, trades and drops: a   *)
(* held position is not marked at zero, a tick is of the open socket and   *)
(* the lock of the request under way.                                      *)
THEOREM PricesAlwaysSound == Spec => []PricesSound
<1>1. MarketInv => PricesSound
  <2> SUFFICES ASSUME MarketInv  PROVE PricesSound
    OBVIOUS
  <2>1. HeldPriceNeverZero
    BY DEF HeldPriceNeverZero, LtpLookup, TickServes
  <2>2. NoTickWithoutSocket /\ LockIsOfFetcher
    BY DEF MarketInv, PriceInv
  <2> QED BY <2>1, <2>2, MarketTypes DEF PricesSound
<1> QED BY <1>1, MarketAlways, PTL

(* No bar is lost between the tick, the queue, the batch of a flush and    *)
(* the table, none loses a trade that was in it when it closed, and no     *)
(* volume is counted twice.                                                *)
THEOREM BarsAlwaysSound == Spec => []BarsSound
<1>1. MarketInv => BarsSound
  BY DEF MarketInv, BarInv, BarsSound
<1> QED BY <1>1, MarketAlways, PTL

(* One request at a time and for old entries only; a price that a runner   *)
(* takes is young unless its own request came back without it.             *)
THEOREM QuotesAlwaysFresh == Spec => QuotesFresh
<1>1. MarketInv /\ [Next]_vars =>
        [\A c \in Callers : ask[c] = "lock" /\ ask'[c] = "fetch"
           => c \notin young /\ \A d \in Callers : ask[d] # "fetch"]_quoteVars
  <2> SUFFICES ASSUME MarketInv, [Next]_vars, NEW c \in Callers, ask[c] = "lock", ask'[c] = "fetch"
               PROVE  c \notin young /\ \A d \in Callers : ask[d] # "fetch"
    OBVIOUS
  <2>1. CASE Next
    BY <2>1, FetchBegins DEF MarketInv
  <2>2. CASE UNCHANGED vars
    BY <2>2 DEF vars, quoteVars
  <2> QED BY <2>1, <2>2
<1>2. [Next]_vars =>
        [lastPrice' # lastPrice => TickServes \/ Own \in young' \/ ask[Own] = "fetch"]_vars
  BY PriceSource
<1>3. Spec => OneFetchPerTtl
  BY <1>1, MarketAlways, PTL DEF Spec, OneFetchPerTtl
<1>4. Spec => OldPriceOnlyFromFetch
  BY <1>2, PTL DEF Spec, OldPriceOnlyFromFetch
<1> QED BY <1>3, <1>4 DEF QuotesFresh
=============================================================================
