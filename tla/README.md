# Verification of the dhan_algo trading engine

TLA+ models of the engine in this repository, the TLC runs that check them and
the TLAPS proofs about them. Paths below are relative to the repository root.
`PROJECT.json` holds the machine-readable side: components, hazards with their
lines, runs, mutants, findings, theorems and, for every definition that models
code, the lines it stands for.

1. [The system](#1-the-system)
2. [Modelled components](#2-modelled-components)
3. [Runs](#3-runs)
4. [Fairness](#4-fairness)
5. [Proofs](#5-proofs)
6. [Where code and documentation differ](#6-where-code-and-documentation-differ)
7. [What is not modelled](#7-what-is-not-modelled)
8. [Plan](#8-plan)

## 1. The system

The engine trades Indian equities and index options through the Dhan broker.
Two processes run side by side under systemd (`infra/systemd/`):

* **dhan-trader** (`apps/trader.py`): one asyncio event loop. Its tasks are the
  live feed, the bar builder, the risk monitor, the token manager, the
  heartbeat, one `StrategyRunner` per security of the watchlist, and the
  optional options-scalper sleeve.
* **dhan-api** (`apps/api.py`): read handlers for the dashboard, and two
  commands, kill and resume.

They share the database and a few files (`run/killswitch`, `run/resume`,
`run/halt_state.json`, the token file); there is no other channel. systemd
restarts the trader on failure (`Restart=on-failure`), and everything that is
not in the database, on disk or at the broker is then gone.

Within the trader there are no threads that touch engine state: a task runs
alone from one `await` to the next. All interleaving is at awaits, so *the code
between two awaits is one action* in every module here.

| component | state | operations | talks to | hard part |
|---|---|---|---|---|
| strategy runner `engine/runner.py` | entries today, last price | poll, entry, exit | strategy, risk gate, executor, portfolio | state read before an await and used after it |
| ORB strategy `strategies/orb.py` | range, tried flags, its view of the position | `on_tick`, notifications, seeding | runner | its view must follow the portfolio; restarts |
| execution `engine/execution.py` | none | `submit` | broker client | lost, late, partial and assumed answers |
| portfolio `engine/portfolio.py` | positions, open trade ids | `apply_fill`, two reconciliations | database, broker | memory, row and broker book change at different times |
| risk engine `engine/risk.py` | halt, kill, scope, P&L, slots | `check_intent`, evaluation, halt, resume | files, database, runners | file commands against an evaluation; restart |
| flatten on halt `apps/trader.py` | none | `on_halt`, `flatten_all` | portfolio, executor, strategies | runs against the runners without a lock |
| api commands `apps/routes/heartbeat.py` | none | kill, resume | files | two file operations that are not one |
| trade journal `core/journal.py` | trades rows | entry row, exit update | portfolio, risk engine | the loss meter is read from it |
| scalper orchestrator `engine/scalper_orchestrator.py` | session, state, legs | `boot`, `tick`, `flatten_open` | engine, resolver, governor, portfolio | the tick against a halt, restarts in mid-session |
| daily governor `engine/daily_governor.py` | meters, lock, streak | records, `recompute` | orchestrator | latches and seeds |
| options scalper `strategies/options_scalper.py` | tranches, pending entry | `on_tick`, `notify_fill` | adapters | its book can part from the portfolio's |
| live feed, bars, quotes `core/live_feed.py`, `engine/bar_builder.py`, `core/batched_ohlc.py` | tick cache, open bars, queue, quote cache | ticks, flush, fetch | broker, database, runners, risk loop | reconnection, late ticks, bounded queue, two flushers, a shared fetch that fails |
| request path `core/client.py`, `core/token_manager.py` | windows, token, header, file | request, renew | broker, token file | retries with a token that two parties renew; an order whose answer is lost |
| usage counters `core/api_usage.py` | calls today, last reported | count, flush | client, database | midnight, failed and cancelled flushes |
| historical backfill `backfill.py` | checkpoint, bars | run, repair, seed | broker, token file | expiry of the token, crashes between chunk and checkpoint |
| option history `core/dhan_option_history.py`, `core/expiry.py`, `core/fno_backfill.py` | IV and chain rows | pull | broker, database | the rolling code against the real expiry, a leg that fails, the budget |
| F&O paper ledger `core/fno_paper.py`, `core/fno_collector.py`, `scripts/fno_*.py` | paper trades, snapshots | collect, enter, resolve | database | overlapping cron processes, a day without a bar |
| vol column and gates `core/fno_derived.py`, `ml/fno_vol_gate.py` | `realized_vol_20d` | recompute, gate, calibrate | paper ledger, research | a stored column against corrected bars |
| research `research/backtest/` | none beyond a run | backtests, routers, restatement | tables of the collectors | look-ahead, order of the input, margin against the worst loss |

The properties that make the system correct, in the order of what goes wrong
when they fail: what the engine believes is what the broker holds; every
position has someone who will close it; an exit never opens the other side; a
halt and a loss limit hold over requests, races and restarts; the loss meter
tells the truth; the daily caps survive a restart; an order is placed once; a
bar or a row once written is whole and stays; and what the research reports was
known at the time, with the loss it says it risks. The hazards list of
`PROJECT.json` names the lines where each is at risk.

## 2. Modelled components

```
OrderFlow --+-- HaltSweep            RiskHalt --implements--> HaltLatch
            +-- PositionLimit

TradeJournal       DailyGovernor --- ScalperSleeve

RateLimit --+                        BarBuilder --+
            +-- Gateway              LiveFeed ----+-- MarketData
TokenStore -+                        BatchedOhlc -+

      Backfill --------------------------+
      Expiry --- OptionHistory ----------+-- OfflineJobs
      Condor --- PaperLedger ------------+
      UsageReport -----------------------+

VolGate -- VolSeries --------------------------------+
   +------ CondorSim (with Condor) -- EdgeRestate ---+
              +-- Strategies -- Router --------------+-- Research
              |       +-- Harvester -----------------+
Cycles ----------------------------------------------+
PortfolioReplay, ScalperReplay ----------------------+

proofs:  OrderFlowProofs (OrderFlow, PositionLimit, HaltSweep)
         RiskHaltProofs (RiskHalt)
         TradeJournalProofs   ScalperSleeveProofs (and DailyGovernor)
         GatewayProofs   MarketProofs
         JobsProofs (all of OfflineJobs)   ResearchProofs (all of Research)
```

A run whose constants a `.cfg` can write checks module `X` itself; where they
need definitions, `MC_X` holds them. The data is abstracted the same way
everywhere: a price is what it makes the code decide, a quantity is a small
integer, a timestamp is a phase of the trading day or a day's number.

In OrderFlow's, RiskHalt's, Gateway's and MarketData's family the composed
modules really share steps: a poll reads the cache a packet wrote, a refused
request refreshes the token the renewal loop holds. `OfflineJobs` and
`Research` compose what runs as processes of their own and shares at most
read-only tables or the token file: a behaviour follows one of them (variable
`followed`), which is what the properties, each about one, can tell apart.

### OrderFlow: runner, strategy, gate, executor, portfolio

| variable | code |
|---|---|
| `qty`, `row`, `rowToday` | `Portfolio.positions[s].qty`; the row of `engine_positions` and whether its `session_date` is today |
| `view` | `ORB.position` |
| `session` | range state, `_long_tried`/`_short_tried`, the runner's `_entries_today` |
| `slots` | keys of `RiskEngine._open_risk` |
| `pc`, `order` | the await at which `_poll_once` stands, and the intent or fill it holds |
| `book` | the broker's net quantity |
| `afloat` | what LIVE orders that nobody follows any more may still trade, by side |
| `halted`, `phase` | the risk halt; the exchange clock |
| `entered`, `untold` | history: sides entered today; those of them that the bars did not show at the last boot |

A poll is one step to its first await (`BuildRange`, `QuietPoll`,
`DecideEntry`, `DecideExit`); an entry goes on through `gate` (the Kronos gate
and the average-volume query), `submit` and `persist`; an exit through `submit`
and `persist`. `FillOrder` and `NoFill` are what an executor may answer:
PAPER fills whole; LIVE fills whole or in part, refuses, assumes an unconfirmed
order filled, or loses the answer of a placed order. In the last two cases
nobody follows the order any more: it is `afloat`, and `AtBroker` lets the
broker trade any part of it, or end it without, at any later time. `PersistRow`
may fail, as `_persist` swallows it. `Crash` loses the memory and leaves a LIVE
order under way afloat, so it may trade before the restart, or after `Boot` has
read the broker's book. `Boot` is `reconcile_on_boot`, `reconcile_with_broker`,
the slots and views, and `seed_opening_ranges`, each of which may fail. The
sides that the seeding marks as tried are those on which the stored bars pass
the bars' own range; these need not be the sides entered, since an entry is made
on a polled price over the polled range, so `Boot` takes any set of sides.
A halt that a boot restored is in OrderFlow (`Boot`, `Resume`); one that begins
while the process runs sets off a flatten and is in HaltSweep.

### PositionLimit: runners that check at once

Extends OrderFlow's steps with two histories: the positions the process found
when it started (`base`) and the most entries that have since been between
`check_intent` and their fill together (`peak`). `check_intent` counts open
positions and booked slots before the await of the executor; the position
appears after it, the slot after the await of `apply_fill` as well, and nothing
is reserved. `LimitsHold` says what that leaves of the limits: fewer than
`peak` positions above the maximum (none, if no two entries overlap), and no
open position outside the budget but one whose entry is being booked.

### HaltSweep: the flatten of a halt

Extends OrderFlow with the coroutine of the risk task: `on_halt` awaits its
alert, takes a snapshot of the open positions, and submits, books and reports
them one by one, interleaved with every runner step. `Advance` is the `for`
loop. A crash leaves the sweep's own order afloat like a runner's. The history
`contested` records securities for which both had an order in flight, `residual`
those the sweep reported flat after a partial fill.

### RiskHalt and HaltLatch: when the engine is halted

Every stretch of `_evaluate` between two awaits, the two file operations of
`resume_handler`, the kill handler, and days and weeks that end. The two
processes meet at the kill switch file: `EvalKillVanished` and
`EvalResumeVanished` are the evaluations that raise because `resume_handler`
removes it between their `exists()` and their `read_text()` or `unlink()`; the
latter has cleared the halt already and leaves its record and the request.
A crash or a failure in the middle of writing `halt_state.json` leaves a torn
file, which `Boot` removes as it removes one out of scope. Of the P&L the model
keeps which budgets are exceeded. `HaltLatch` is the promise: halting latches,
only a request made to the running process rearms, and a loss halt that is on
record for a day or week not over survives a restart. `RiskHalt!HaltLatches` is
the refinement.

### TradeJournal: rows and the loss meter

One security's `apply_fill` with its two or three awaits, called by the runner
and by the sweep, and the rows of the trades table: insertion, closing by
remembered id or by the most recent OPEN row, failures of each write, and the
restart with the id forgotten: the position of today restored, one of an earlier
session zeroed with its row left OPEN (`abandoned`), the table unreadable, or,
in LIVE, what the broker holds adopted. Every closed unit loses 1, so the meter
counts the units whose loss it knows of, and `realized` those really closed.

### DailyGovernor and ScalperSleeve: the options-scalper sleeve

`DailyGovernor` holds the governor's operations as operators on a record.
`ScalperSleeve` has two tasks, the tick (exits, square-off, governor, entries)
and the halt (`flatten_open`, then the sweep over the portfolio), which meet
only at the awaits of an order. The signal engine may exit what it holds and
enter when it holds nothing; the resolver may pick any strike. The sleeve is
modelled as `apps/trader.py` runs it: PAPER, simple mode, one lot. The histories
`tangled`, `blind` and `strays` mark what the code does not protect against:
both tasks with an order out at once, a seed query that failed, a restored
position the screener no longer picks.

### RateLimit, TokenStore, Gateway: the way of a request

`RateLimit` is `RateLimiter.acquire()` with its short windows and the quota of
the day. A window is only as long as it has entries, so time is the ageing of
entries. `TokenStore` has the broker's tokens, the manager's, the file's and the
one in the client's header; those who refresh are the refused requests, behind
`_refresh_lock`, and the renewal loop, which does not take it. `Gateway` is
`_request()` and `place_order()` around both: acquire, send, an answer, a break
or a timeout (the order may have landed, or land later), refresh after DH-901,
retry, and the query by correlation id after a failure.

### BarBuilder, LiveFeed, BatchedOhlc, MarketData: the way of a price

A trade of the exchange is its place in a list; a bar is the set of trades it
has seen. `BarBuilder` has `on_tick`, the flush with its await in the middle, run
by the loop and once more by the shutdown, failed writes and the capped queue.
`LiveFeed` has the socket's life and the tick cache: a failed socket loses its
cache before the flag says that it is gone, and `stop()` clears the flag only, so
that one packet may still come before the read ends or the task is cancelled. The
length of the pauses between attempts is left out. `BatchedOhlc` is the shared
fetch. `MarketData` lets one security's price go through all of them to the
runner's poll and the risk loop's `ltp_lookup`, ticks again after a
reconnection, packets of another day and the last packet of a stopped feed
included.

### Backfill, OptionHistory, PaperLedger, UsageReport: offline jobs

`Backfill` is `run_backfill()`: batches of concurrent securities, each with its
chunks, retries and waits for a token, against a trader whose token expires, is
revoked or rotates; a checkpoint after each batch, a crash anywhere, forced runs
and the seeded start. A process has arguments of its own, one of `Arguments`: a
list (the segment's or that of `--ids`), `--from`, and minute bars, daily bars
or both; all unforced processes of a segment share one checkpoint of an id and a
place. What the checkpoint vouches for is stated for histories of like arguments
(`mixed` is false); what holds whatever ran before is that a process leaves
nothing of its own list unfetched between where it started and where it is
(`RunCovers`). `Expiry` holds the calendar's rules, `OptionHistory` a pull of
rolling options by code, window and strike, leg by leg, with its budget. A leg
answers with the last bar of the days that have bars, each with its time and
perhaps without a usable IV; a row's key is its day, that time and the expiry,
and a write may fail before or after the IV rows of its place are in.
`PaperLedger` is the paper log of condors, each statement a step of a process
that cron starts beside others; `Condor` the arithmetic of four legs it shares
with the backtest. `UsageReport` is one flush of the counters, step by step.

### Research: gates, backtests, routers

Vols are whole points, returns are pairs or thousandths, Black-76 is a table of
small numbers; the control of the code, which cycle is gated by what, in which
order, which exit comes first, is kept. `VolGate` has both gates and the
estimators, `VolSeries` the stored column; `Cycles` the loader, `CondorSim` the
condor backtest, `Strategies` the multi-leg one, `Router` and `Harvester` the two
that choose between structures, `EdgeRestate` the verdict on a series,
`PortfolioReplay` and `ScalperReplay` the intraday replays. Where the code draws
random numbers from a seed, any draw may come.

## 3. Runs

Every property of a passing run has a mutant in `PROJECT.json`: one mapped
definition changed the way a plausible bug would, under which the property
fails.

| run | instance | states | shows |
|---|---|---|---|
| `orderflow_live` | 1 security, both sides, quantity up to 2, 2 days, 2 faults, LIVE | 734,814 | the strategy, the portfolio and the risk slots agree between orders; an exit only reduces; engine and broker agree on every security whose orders were all answered truly and none of which was with the broker when a boot read the book; no side is entered twice a day unless a restart's bars did not show the first entry; the square-off ends flat |
| `orderflow_paper` | 2 securities sharing one slot, 2 days, 2 faults, PAPER | 746,692 | runners pass the limit on positions by overlap only, and less than overlapped; a restart restores every position whose last fill was written |
| `haltsweep` | 1 security, long only, quantity up to 2, 1 fault, LIVE, fair | 586,204 | views and books survive a sweep that no runner contests (the risk slots do not: a sweep whose order fails releases the slot of a position that is still open, section 6); only a contested position is ever reversed; without a contest the square-off ends flat through any halts and resumes |
| `halt_flat` | 1 security, PAPER | | violation, section 6 |
| `riskhalt` | 2 faults | 37,134 | breaches hold against resumes, the latch refinement, kill and resume take effect |
| `riskhalt_kill` | no faults | | violation, section 6 |
| `journal` | quantity up to 2, 2 rows, 2 faults, PAPER and LIVE | 5,386,165 | the meter is complete in PAPER and never overstates, OPEN rows are the position and those of positions a boot cleared, closed rows stay |
| `sleeve` | 2 underlyings, 1 strike each, 2 trades, loss cap 2, 1 fault, 2 days | 1,508,162 | caps survive restarts, no entry past the loss cap, no unmanaged position, the governor latches, the square-off closes every leg |
| `gateway` | 2 orders at once, 2 attempts, 3 tokens, 1 fault, limits 1, 2 and 3 | 3,106,992 | the windows hold but for a call that slept; an order is booked once, and was if it is reported placed; header, file and memory hold one token, never an older one behind the lock |
| `market` | 3 trades in 2 minutes, queue of 1, 1 reconnection, 2 runners | 6,689,796 | no bar is lost or stored in part unless the cap or a forced close says so; a held position is never marked at zero; one fetch serves all |
| `jobs` | backfill: 3 securities in batches of 2, two runs of three kinds of arguments (all, daily bars only, one id); history: 2 codes, 4 days, 2 pulls, 2 kinds of last bars, 1 cutover; ledger: 2 processes, 3 days, 1 expiry; usage: 2 days | 1,127,838 | a run leaves nothing of its list behind, and a checkpoint of like runs claims no more than was done; rows lie under the exchange's expiry and from one pull; a trade is entered and settled once, at its close; counts are exact; the backfill ends and a matured trade is resolved |
| `research` | up to 4 cycles or days per report, values on either side of every threshold | 467,564 | what is decided was known, losses stay within what a trade says it risks, figures and verdicts mean what they say |

Related statements are the conjuncts of one property: `HistorySound` names five
of them, each with its comment beside its definition, and a counterexample
prints the state from which the false one is read off.

**Bounds.** Every bound is a constant that appears in a guard. *MaxFaults*
counts crashes and failed accesses together. Two are needed for a failure
followed by a crash, the shortest way to lose something that only memory still
knows; the compositions, whose interleavings are more, take one. *MaxQty = 2* is
the least quantity with a partial fill. *MaxDays = 2* gives a row, a tried flag,
a governor and a resume of yesterday. *MaxOpen = 1* with two runners fills the
gate; there the limit on positions bites while the entries of one life of the
process have not overlapped, and more of it is left to the theorem. *MaxEntries
= 2* in LIVE lets both sides be traded in a day. In the sleeve, P&L of -2, -1
and 1 against a cap and a lock of 2 and 1 reaches the loss stop in one exit and
in two, the streak stop, the arming of the lock and its floor; *MaxShort* bounds
what tangled SELLs may oversell. *MaxRows = 2* has a closed row beside an open
one. In the gateway two orders and three tokens are a refresh, one that another
caller has made meanwhile, and one more; a quota of 3 ends a retry. Three trades
in two minutes are a bar with two trades, a later tick that closes it and a late
one; a queue of 1 overflows at the second bar. In the backfill a batch of two
with a third security behind it has a checkpoint in the middle; two processes
are a crash and its restart, or a run after one with other arguments. The option
history's four days span a window's end, a holiday on an expiry and the change
of the expiry weekday; a budget of 4 ends the pulls of one code without strikes
beside the money and exhausts the others, for which the theorem stands alone.
Last bars with an IV and later ones without let two pulls of one day agree or
differ in the row's time. *Lookback = 1* is the least for which a missed
collection is made good by the next one. The research inputs hold for every
threshold of the code a value below, at and above it, and None where a field may
be missing. *MaxMinute = 1*, two minutes, is as much as TLC can exhaust for the
prices and the bars together; the proof of the bars (section 5) needs no bound
and found what a third minute adds, see section 6. For every safety property
that section 5 lists the bounds matter to TLC only: the theorem holds for all of
them.

`CHECK_DEADLOCK FALSE` is set where the system really stops: the journal when
its rows are used up, the two runs of OrderFlow and the sleeve after their last
day, the exchange day, the jobs and the reports when they are done.

**Liveness and the clock.** The square-off properties of OrderFlow and
HaltSweep read "if the process stays up and the clock stays in the square-off
phase, every position is eventually closed for good": the clock is not fair
and nothing in the code promises that the minutes before the close suffice.

## 4. Fairness

* `WF(Boot)`: systemd restarts a failed process.
* Weak fairness of what a task does next: the event loop resumes every task
  whose await is over, and every runner polls again and again. `DecideExit` is
  fair because a held position is evaluated on every poll, on its last or its
  average price if there is no other (`runner.py` 104-123).
* `SF(OrderFilled)`, `SF(SweepFilled)`: a broker that is asked again and again
  eventually fills. The code retries a refused exit for ever; strong fairness
  is what makes that retry worth something.
* `WF(ApiUnlink)`: an HTTP handler that has begun ends.
* `BackfillFairness`: the process goes on with its batch, the broker answers a
  security that asks, and the trader, which has a token loop of its own, ends a
  time without a token. Nothing is assumed of expiry and revocation.
* `PaperFairness`: days go by, a process that cron started runs on, and cron
  starts a collector again and again (strong: a start is impossible while the
  last one runs). `MaturedResolves` needs the number of failed collections to be
  at most the lookback, which is an assumption of `PaperLedger`.
* Crashes, halts, operator commands, fills in the market, what becomes of an
  order that nobody follows, P&L and the clock are not fair.

## 5. Proofs

`tlapm` checks these from nothing, for every value of the constants that the
named assumptions allow: any number of securities, runners, requests, processes,
quantities, days and faults. Each theorem on a property goes the same way: an
invariant that is inductive (`...Inv`), one lemma per action that it is
preserved, and the property as a consequence.

**OrderFlowProofs.** `OrderFlowTyped` is the type invariant. `RunnersInStep`
(`ViewAgrees` and `SlotsMatchPositions`) and `ExitOnlyReduces` are not
inductive: that the view agrees when a runner is idle depends on what it held
while its order was in flight. `ConsistentInv` states that for every position of
the coroutine: at `gate` and at `submit` of an entry, view and quantity are both
flat; at `submit` of an exit, the order has the closing side and the quantity
held; at `persist` of an entry the quantity is the fill and the view still flat;
at `persist` of an exit the view keeps its sign and so does what is left. The
slot follows the view throughout. `BookAgrees` needs `AfloatDoubted`: a security
with an order afloat is `doubted`, so what the broker trades on its own never
moves the book of another (`BooksInv`). `OneEntryPerSide` needs that the day's
memory is somewhere: a side entered is among the tried flags of a live session
whose range is locked, or the last boot's bars did not show it (`untold`), which
is when it may be entered once more (`EntryMemory`). `RestartsRestore` rests on
`RowsWritten`: what no task is about to write, and whose last write did not
fail, stands in the table as it stands in the portfolio, so a boot that can read
the table reads it back.

`LimitsAlwaysHold`, for any number of runners and any maximum: an entry is
submitted only by a runner that is flat, so the admission that lets it pass has
seen fewer open positions than the maximum, and beside those there are at most
`peak` entries under way; no other step lets a security join the two sets
together, since a fill is of an entry under way or of an exit (`OnlyEntriesJoin`).
That a slot is missing only while its entry is booked is read off
`ConsistentInv`.

The sweep of a halt adds a second actor to the same state. For a security that
is neither `contested` nor `residual`, `Known` says what the runner knows while
the sweep is elsewhere, and what the sweep knows while it is there: at its
order, the runner is idle and the position is the one the order was computed
from; while its fill is written, the position is flat or has kept its sign, or
the runner has already begun another entry. `SweepAlwaysKeepsBooks` and
`ReversedAfterContestOnly` follow, the latter since a fill of the sweep on a
known security takes at most what is there.

**RiskHaltProofs.** `RiskHaltTyped`; `NoResumePastBreach` from `CheckHolds`,
which says at each await of an evaluation what has been decided so far; and
`RiskHaltLatches`, the refinement of `HaltLatch`, from `Recorded`: the history
`standing` is true exactly while the file holds a halt in scope. An evaluation
that raised in `resume()` is a step of the latch that rearms on a request; the
record it leaves brings the halt back at the next boot.

**TradeJournalProofs.** `RowsAlwaysFollowTrades`: the meter plus what exits have
realized and not yet written never exceeds what was lost (`Bounded`), in any
mode and with anything torn. As long as nothing is torn one caller is inside
`apply_fill` (`Alone`), and `InStep` says at each of its awaits what the OPEN
rows are, with and without the remembered id: the row of the position is newer
than every abandoned one (`Newest`), which is why an exit that must search finds
it; a restart comes into it only at rest, because one in between is what `torn`
records. `ClosedRowsAlwaysStay` holds without that: both ways of choosing a row
ask for OPEN.

**ScalperSleeveProofs.** `SleeveTyped`; and `GovernorOnlyTightens`, from lemmas
on the governor's operations: each of them `Tightens` the governor, and only a
new session and a boot start from another one. `TradesCapped` and `LossCapped`:
what the journal books of a day is what the governor counts, plus the one order
that is between its fill and the rest of its handler (`Accounts`). A boot may
therefore seed the governor from the journal without losing anything. That needs
`Orderly`: nothing is short, an exit sells no more than is held, and the two
tasks never both have an order out, which is what the code does not enforce and
the history `tangled` records; and `Derives`: from its governor step on, a tick
scans under a state derived from the realized P&L it still has. `InPlace` says
at which awaits each task can be at all. `LegsAlwaysAccounted` needs `Kept`, in
three parts. A contract is *managed* while it is a leg or has been sold and the
governor is still to be told, because a halt's flatten may drop a leg between
the two: the meter counts what is managed (`Metered`). What is open is a leg, or
an entry between its fill and its registration (`NoOrphan`). And a governor
stands down silently only with nothing open, or else asks for a flatten, after
which what is open is what that flatten has yet to sell (`Served`).

**GatewayProofs.** `WindowsAlwaysHold`: a call counted in the second's window is
counted in the minute's too (`RateInv`), or the ageing of the one could drive
the other below zero. `TokensAlwaysAgree`: the lock is held by the one request
that calls the broker, the loop calls beside it only if `raced`, and while it is
not, an answer that has not been stored yet is newer than the token
(`AnswersAreNewer`). `OrdersAlwaysOnce`: until an attempt has been given up or
answered the broker has nothing of its order (`UnsentIsUnknown`), which is why
sending again after DH-901 books nothing twice. That a refused attempt was
not carried out is the model's assumption about the broker.

**MarketProofs.** `BarsAlwaysSound` follows each bar through the queue, the batch
of either flusher, the table and back (`Shelf`): copies are of closed minutes, a
closed minute outside `dropped` has a copy, and each copy is whole. A copy can
only be outdated by a second bar of its minute, and `ClosedLiesBehind` says why
there is none unless a flush has closed a bar of that minute or a later one.
`PricesAlwaysSound` includes the length of the queue: a failed write cuts it to
the cap, and after that a bar joins it only when a trade of a later minute
arrives, so it has at most the cap and the trades before the bar in progress
(`QueueBound`). `QuotesAlwaysFresh` needs the lock: its holder is the caller
whose request is out.

**JobsProofs.** `CheckpointAlwaysSound` and `CheckpointNeverFalls`: each
security of a batch has settled every part before the one it is at (`Fetched`),
which for any arguments gives `RunCovers`. As long as runs were alike (`Alike`),
everything behind the batch is settled or was cut by a crash (`Behind`), no
security has bars that has an unknown one before it outside the batch (`NoGap`),
which is what a start seeded from the table relies on, and the place in the file
is one of the list (`FileFits`). That a forced run leaves the file alone holds
without it. `PaperAlwaysSound`: a process holds what it read, a snapshot of an
expiry ahead, the close of an expiry that is over (`Held`), so a claim that
meets another process's row changes nothing, and what is written is right
although it was read several awaits ago. The bound on the loss rests on the
strikes: both wings lie outside the shorts because rounding and the search for
the nearest quoted strike keep order (`RoundKeepsOrder`, `NearestKeepsOrder`),
and a condor loses at most one wing (`CondorLoses`). It uses the assumption that
a chain with the ATM pair quotes at least one strike beside a gap: without one
the code records nothing. `WrittenAlwaysStays` adds that no job rewrites an
entry. `ReportAlwaysExact` carries the promise `Exact` from one counter to the
next, over midnight, for the flush that is under way. `NextWeeklyIsFirst` is the
calendar's rule for every day and every cutover on a Monday.

`HistoryAlwaysSound` first says what the n-th expiry on or after a day is. The
model counts the calendar's dates; `NthExists` and `NthIs` show by a smallest
counterexample that the count has its n-th and that walking from one weekly
expiry to the next finds it, and `NthAre` carries that over to the exchange's
dates, where a holiday moves an expiry to the day before and may thus move it
behind the day a pull asks for. `FrontIs` then is the heart of it: on a trading
day the expiry the code attaches is never none, it is the exchange's own
wherever the calendar reaches back to the day, and else the rule's or an entry
of the calendar on or after the day, for any holidays and any cutover.
`WindowsTile` shows that windows of any width leave out no day of a pull, the
last one cut at its end. What a step needs is `HistoryInv`: every stored row is
a trading day's under the expiry in front of it (`RowsInFront`), every place the
pull has behind it has a row of this pull (`Fresh`) for every day or is missed
(`BehindCovered`), and each leg that is still to come is paid for with all its
retries (`SentPaid`). It assumes of the days asked for that they are counted
from a day that none of them lies before.

**ResearchProofs.** `ReplaysAlwaysSound`, for every list of securities, set of
bars, length of a day and budget. `ReplayInv` adds to the property what carries
it through an event: whoever waits to enter holds nothing and has an entry left
(`EntriesWaitFlat`), a strategy's decision is from an earlier minute, or from
this one and the security has had its event (`DecidedBefore`), and the largest
budget of the day covers the one in force (`CrestCovers`). The loss of a day
plus the risk at the stops then grows in a step by no more than `excess` does,
except where an entry passed the budget's check. Committed risk is a fold, so
the module first proves of sums what a step needs (an element may be taken out
first, a changed summand changes the sum by the difference, a sum may be taken
in two parts), each by a smallest counterexample on the subsets of a finite
set. The scalper's `ScalperInv` is inductive as it stands; `RateDecides` (the
break-even rate is reached exactly when the trades earned money) is then
arithmetic on two such sums, and `StreakCovers` (no run of losses is longer than
the reported streak) follows the left fold from one prefix to the next, again
by a smallest counterexample. Both need of the data only what
`ReplayAssumption` and `ScalperAssumption` say: prices and amounts are naturals,
closes positive, divisors not zero. `CyclesAlwaysSound`, for every number of
weeks, pattern of sessions, holidays and expiry weekdays: the type invariant of
`Cycles` is inductive, and the rest follows from it, since a loader of a year
that is half over sees a finite set of days with a first and a last. Of the
constants it needs that the weekday changes on a Monday, as 2025-09-01 is, so
that a week has one rule. `StrategiesAlwaysSound`, for every week, grid of
strikes, slippage and time value: `StrategyInv` says that every trade of the run
is the one its structure and a priced week give, and the rest is shown of each
structure of the registry. `SettledIs` splits what a trade comes to into the
premium it keeps and what its legs owe, `StructureOwes` bounds the second by the
widest spread, or by nothing for what is bought, `LizardOwes` does so for a
lizard at or above its put, and `SortedByEntry` shows that ordering by entry,
ties by place, is a rank that meets every place once. That the grid may round a put
strike above the spot came out of this proof: a lizard's upside is stated, and
holds, from its put strike upwards, not from the spot.

`RoutersAlwaysSound`, for every table of days, list of cycles, moving average and
set of strikes. For the router the invariant is that a report *is* the decisions
of the cycles so far as they would be taken now (`RouterInv`): that it stays one
when a day is added is what no look-ahead means, since every decision filters the
table to the days before its entry. For the harvester it is that what it has
heard and routed is what a look over the whole list gives (`HarvesterInv`), which
turns the agreement of its two gates into an equality; its losses are the
arithmetic of four strikes with wings of unlike width, of a put bought further
out.

`CondorRunAlwaysSound`, for every set of cycles whose marks lie within a wing.
`SimInv` says that the first book holds a trade of every cycle behind it that the
first gate takes, and the second book trades of such cycles only; that the
second gate refines the first, and sells a richer premium whenever a poorer one
(`RicherSells`), is shown of the gate itself. `GoesAreEarned` compares the running
drawdown with the deepest fall between any two moments, by an induction on the
list written as a smallest counterexample. `EdgeAlwaysSound`, for every set of
trades, block length and draw: `WorstIsWorst` (the sum of the k smallest is the
least of all sums of k) and `FitsHold` (the square of a covariance is at most the
product of the variances, Cauchy and Schwarz for folds over the integers) are
lemmas on sums of their own. `VolsAlwaysAgree`, for every set of bars, window and
number of corrections: a day's column is compared with the estimate from the
prefix up to that day (`ColumnAgrees`), a constant added to every return leaves
the variance as it was (`NeitherDrifts`), and the calibrated threshold is the
entry at its rank of the ascending ratios (`ThresholdIs`).

Of their constants these four assume what `GateAssumption`, `SeriesAssumption`,
`SimAssumption`, `RouterAssumption`, `SurfaceAssumption` and `EdgeAssumption` say
beside the modules: prices, vols and days are naturals or missing, no price
difference is the number that stands for missing, lists of deltas are not empty,
divisors are positive. To be reasoned about, the models filter by sets of places
and rank by counting (`InOrder`), not by recursive sequences.

**Only model-checked.** All liveness properties, `CommandsHold` among them, and
what rests on `ENABLED`: out of the prover's reach. Every safety invariant and
every action property that a run checks is a theorem.

## 6. Where code and documentation differ

Two are runs with a counterexample, and `PROJECT.json` "findings" quotes both
sides.

* `halt_flat`: an entry submitted before a halt fills after the sweep took its
  snapshot. The halted engine keeps the position, where `apps/trader.py` says
  that a halt flattens every open position.
* `riskhalt_kill`: a kill given while a resume request is still on disk is
  removed together with that request.

Others are limits of the code that the passing properties name in their
hypotheses or in the histories they exclude, without a run of their own.

* Engine, orders: a runner's exit and the sweep may sell the same position; the
  portfolio is then short, the strategy believes it is flat and the square-off
  does not close it (`contested`). A partial fill of the sweep leaves a residual
  no strategy knows (`residual`), and a sweep whose order fails releases the
  slot of a position that is still open (`apps/trader.py` 221-231). A crash
  between `apply_fill`'s change and the write of the row loses a PAPER fill. A
  lost broker answer is repaired by the next boot only, and an order that a
  crash left with the broker may trade after that boot has read the book: then
  nothing tells the engine of the position (`engine/portfolio.py` 196-239,
  `doubted`). A loss halt restored at boot does not sweep. Concurrent runners
  can exceed `max_open_positions`: the slot is taken after the await (by how
  much is `LimitsHold`).
* Engine, sides: a side may be entered a second time after a restart. The entry
  broke the polled range at a polled price (`strategies/orb.py` 135-137, 180);
  the restart marks a side as tried only if the stored bars pass the bars' own
  range (202-220), and the minute of the breakout may not be stored yet
  (`untold`).
* Risk: `resume()` clears the halt before it removes the kill switch file
  (`engine/risk.py` 460-461), which `resume_handler` may have removed meanwhile
  (`apps/routes/heartbeat.py` 164-166): the evaluation raises, the engine is
  armed with `halt_state.json` still there, and a restart halts it again. The
  comment that a `resume()` that raised is retried on the next tick
  (`engine/risk.py` 334) does not hold: the next evaluation finds nothing halted
  and drops the request. The record is written in place (180-190): one cut off
  by a crash cannot be read at the boot (154-158), and the halt is gone.
* Journal: in LIVE the meter can miss the loss of a position that a restart
  restored (`core/journal.py` 205 against `engine/risk.py` 10-11). A position of
  an earlier session that a boot zeroes leaves its row of the trades table OPEN
  for ever (`engine/portfolio.py` 184-191, `abandoned`).
* Backfill: runs with `--ids`, `--daily` or `--from` share the checkpoint of
  their segment (`backfill.py` 393, 417-432). After `--ids 2885`
  (`docs/Setup-Guide.md` 53) the run of the whole segment that the guide asks for
  next (205) starts behind that id and never fetches those before it; after a
  `--daily` run a full one leaves the minute bars of what the checkpoint claims.
  "Every index < end is complete" (506) holds of runs with the same arguments
  (`mixed`).
* Option history: the key of an IV row has the time of the day's last bar
  (`core/dhan_option_history.py` 545-548), so a pull whose last bar has another
  time leaves the older row beside its own. Readers take the latest of a day
  (`research/backtest/fno_condor.py` 1815-1824) or one row of a day, chosen
  by its days to expiry alone (`ml/fno_vol_gate.py` 452-460).
* Feed: the flag says connected while a failed socket is still being closed, and
  a `connect()` that ends after `stop()` sets it again for good
  (`core/live_feed.py` 240-241, 367-370); one packet after `stop()` reaches the
  bars. The cache is empty in all these cases or its socket open
  (`NoTickWithoutSocket`).
* Sleeve: a restored contract that the screener no longer picks gets no leg and
  no square-off (`engine/scalper_orchestrator.py` 454 against 268), and a halt
  whose order is out together with the tick's may sell one contract twice
  (`tangled`).
* Request path: a call that slept in the minute's window is not checked against
  the second's again (`SecondHoldsUnlessSlept`). The feed reconnects with the
  token it was constructed with (`core/live_feed.py` 273).
* Bars: after a flush has closed the bar in progress there is none to be later
  than, so a late tick opens a bar of its own minute, or of any older one
  (`engine/bar_builder.py` 130 against 89). That bar has one trade, and its
  upsert replaces a whole row. The older minute needs three minutes and was
  found when `ClosedBarIsWhole` would not be proved; the property now excludes
  every minute up to which a flush has closed a bar.
* Vol gate: rebasing multiplies a trading-basis vol by the root of 252/365,
  about 0.83, so the raw vol is the higher one and sells *less* often; the doc
  comments say that it is biased towards SELL by 17% (`ml/fno_vol_gate.py`
  139-143, 636-637, 691-692, 774-775, 818-820). `BaselineTradesToo` states what
  the code does: whatever the router sells on the raw vol
  (`fno_orchestrator.py` 459), the baseline sells on the rebased one.
* Research: the margin of a diagonal is that of its wing; the re-run with
  implied vols cut to 0.8 does not cut the proxy that takes the place of a cut
  vol too low to be believed (`fno_raven.py` 791); the kill switch's exits see
  the bar they are filled on (`portfolio_engine.py` 374 against 17), as does the
  scalper's gap stop (`scalper_backtest.py` 445 against 422-426); the harvester
  gates a structure twice; two thresholds of the orchestrator cannot be reached
  (`fno_orchestrator.py` 187) and `n_traded` counts decisions (718); passive
  returns may be a session out of step (`fno_edge_restate.py` 989 against
  315-317).

## 7. What is not modelled

Prices, indicators and scores of the live strategies (nondeterministic decisions
instead), average prices and the arithmetic of P&L, sizing (any quantity), the
notional cap and the risk budget (the choice to drop an entry), slippage,
logging and notifications (only the await of a halt's alert). The scalper's LIVE
path and its multi-lot ladders are not run by `apps/trader.py`. The backfill's
`--dry-run` and `--to` and a list that names a security twice are left out, and
so is the harvester's re-run with implied vols cut (`fno_raven.py` 735-791): the
program runs it over the cycles already gated, what it made out of sample is an
input of `EdgeRestate` (`cutRom`). A straddle vol that is no positive number, on
which the orchestrator raises, is no input of `Router`. Packet decoders, option
pricing and report texts are left out of the modules beside which they stand.

Whole components left out, each with its reason in `PROJECT.json`: the scalper
screener (a pure function of the chain), the F&O instruments and the equity
collectors (downloads nothing modelled reads), research costs, sweeps and
reports (formulas and loops over the modelled backtests), the api's read
handlers, the ML signal engine and its calibration, instruments, screener,
watchlist and sessions, notifications, schema and infrastructure, the dashboard.

## 8. Plan

Done: the engine, the sleeve, the request path, market data, the offline jobs
and the research modules, their runs, and the proofs of section 5. What would
come next, in this order:

1. The amounts of the risk budget (`check_intent` and sizing, `engine/risk.py`
   295-305) beside the positions that `PositionLimit` counts: by how much money
   runners that check at once can exceed it.
2. An abstract *intended position* that OrderFlow's runner implements (flat,
   entered, flat, once per side).
3. The file import of the F&O history (`core/fno_backfill.py`) as a third writer
   beside the pull and the collectors.
