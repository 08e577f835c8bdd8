----------------------------- MODULE PaperLedger -----------------------------
(***************************************************************************)
(* The forward paper log of the F&O research.  The evening collector       *)
(* (core/fno_collector.py), the evening runner and the five-minute runner  *)
(* (scripts/) are processes that cron starts without excluding one         *)
(* another; each snapshots the option chain or not, enters at most one     *)
(* condor per expiry (record_paper_entry) and resolves those that have     *)
(* expired (resolve_paper_trades), in sessions of their own.               *)
(***************************************************************************)
EXTENDS Condor

CONSTANTS
  Collectors, \* collector processes that may run at the same time
  Runners,    \* processes of the evening or the five-minute runner
  MaxDay,     \* bound: days 0..MaxDay, all traded
  Expiries,   \* the days an option series expires
  Lookback,   \* days of index bars a collection asks for
  Spots,      \* values of the index in a snapshot
  Closes,     \* its closes
  Strikes,    \* the strike grid
  Gaps,       \* what a snapshot may lack: a strike, or 0 for nothing
  Step, Wings, Reach,  \* its step, the wings in steps, the short strikes' distance
  MaxFaults   \* bound: crashes and failed sources

ASSUME PaperAssumption ==
  /\ Collectors \cap Runners = {}
  /\ {MaxDay, MaxFaults, Reach} \subseteq Nat /\ {Step, Wings} \subseteq Nat \ {0}
  /\ Expiries \subseteq 0..MaxDay /\ Lookback \in Nat /\ MaxFaults <= Lookback
  /\ Spots \cup Closes \cup Strikes \subseteq Nat
  /\ \A gap \in Gaps : Strikes \ {gap} # {}

Processes == Collectors \cup Runners
Days == 0..MaxDay
NoTrade == [status |-> "none"]
NoSnapshot == [spot |-> -1]
NoClose == -1

VARIABLES
  date, phase,  \* the date, and its session: "open", or "post" until the next
  collected,   \* the evening's collection of the day has run
  close,       \* the closes of the sessions that are over
  snapshot,    \* the latest snapshot of every expiry: [spot, gap], spot 0: NULL
  bars,        \* days that have an index bar
  rated,       \* those with a realized volatility
  trade,       \* fno_paper_trades, by expiry
  job,         \* every process: [at, kind, today, expiry, snap, open, spot]
  claims,      \* per expiry, the calls that said they recorded or resolved it
  faults

marketDay == <<date, phase, close>>
tables    == <<snapshot, bars, rated>>
paperVars == <<marketDay, collected, tables, trade, job, claims, faults>>

Idle == [at |-> "idle", kind |-> "none", today |-> 0, expiry |-> 0,
         snap |-> NoSnapshot, open |-> {}, spot |-> 0]

InitPaper ==
  /\ date = 0 /\ phase = "open" /\ collected = FALSE /\ close = [d \in Days |-> NoClose]
  /\ snapshot = [e \in Expiries |-> NoSnapshot] /\ bars = {} /\ rated = {}
  /\ trade = [e \in Expiries |-> NoTrade]
  /\ job = [p \in Processes |-> Idle]
  /\ claims = [e \in Expiries |-> [recorded |-> 0, resolved |-> 0]]
  /\ faults = 0

-----------------------------------------------------------------------------
(* A session ends with its close; a day ends after its evening collection. *)
SessionTurns ==
  /\ \/ /\ phase = "open" /\ phase' = "post"
        /\ \E c \in Closes : close' = [close EXCEPT ![date] = c]
        /\ UNCHANGED <<date, collected>>
     \/ /\ phase = "post" /\ date < MaxDay /\ collected
        /\ date' = date + 1 /\ phase' = "open" /\ collected' = FALSE
        /\ UNCHANGED close
  /\ UNCHANGED <<tables, trade, job, claims, faults>>

At(p, where) == job[p].at = where
Goes(p, where) == job' = [job EXCEPT ![p].at = where]

(* Where a process goes after its entry, and after its resolving. *)
AfterRecord(p) == IF job[p].kind = "collector" THEN Idle
                  ELSE [job[p] EXCEPT !.at = "resolve"]
AfterResolve(p) == IF job[p].kind = "collector" THEN [job[p] EXCEPT !.at = "record"] ELSE Idle

(* cron; the five-minute runner leaves at once outside market hours. *)
Starts(p, kind) ==
  /\ At(p, "idle") /\ (kind = "collector" <=> p \in Collectors)
  /\ kind = "intraday" => phase = "open"
  /\ job' = [job EXCEPT ![p] =
       [Idle EXCEPT !.at = CASE kind = "collector" -> "collect"
                             [] kind = "evening" -> "record"
                             [] kind = "intraday" -> "snapshot",
                    !.kind = kind]]
  /\ UNCHANGED <<marketDay, collected, tables, trade, claims, faults>>

(* _assert_off_hours() *)
OffHours == phase # "open"

(* A source fails: its step of the collector is skipped, or a process dies. *)
Fault == faults < MaxFaults /\ faults' = faults + 1

(* Mutant: today's bar alone is asked for. *)
WindowToday == {date}

(* The days of bars a collection asks for. *)
Window == {d \in Days : date - Lookback <= d /\ d <= date}

(* run_eod_collection(), first step: the bars of the lookback window; then *)
(* compute_index_realized_vol(), which reads them all.                     *)
CollectsBars(p) ==
  /\ At(p, "collect")
  /\ \/ OffHours /\ UNCHANGED faults
        /\ bars' = bars \cup Window
     \/ ~OffHours /\ UNCHANGED <<bars, faults>>
     \/ Fault /\ UNCHANGED bars
  /\ collected' = (collected \/ phase = "post")
  /\ Goes(p, "snapshot")
  /\ UNCHANGED <<marketDay, snapshot, rated, trade, claims>>

(* snapshot_option_chain() of an expiry to come: the spot and the strikes  *)
(* that are quoted.  The collector is refused while the session is open.   *)
Snapshots(p) ==
  /\ At(p, "snapshot")
  /\ \/ /\ job[p].kind = "collector" => OffHours
        /\ \E e \in {x \in Expiries : x >= date}, s \in Spots, gap \in Gaps :
             snapshot' = [snapshot EXCEPT ![e] =
                            [spot |-> s, gap |-> gap]]
        /\ UNCHANGED faults
     \/ /\ (job[p].kind = "collector" /\ ~OffHours) \/ \A e \in Expiries : e < date
        /\ UNCHANGED <<snapshot, faults>>
     \/ job[p].kind = "collector" /\ Fault /\ UNCHANGED snapshot
  /\ Goes(p, IF job[p].kind = "collector" THEN "rate" ELSE "record")
  /\ UNCHANGED <<marketDay, collected, bars, rated, trade, claims>>

(* The recomputation is guarded: it may fail, and the log is written all   *)
(* the same.                                                               *)
Rates(p) ==
  /\ At(p, "rate")
  /\ \/ rated' = bars /\ UNCHANGED faults
     \/ Fault /\ UNCHANGED rated
  /\ Goes(p, "resolve")
  /\ UNCHANGED <<marketDay, collected, snapshot, bars, trade, claims>>

(* An option-history pull writes bars of the chain without a spot.         *)
HistoryRows(e) ==
  /\ snapshot[e] # NoSnapshot /\ snapshot[e].spot # 0
  /\ snapshot' = [snapshot EXCEPT ![e].spot = 0]
  /\ Fault
  /\ UNCHANGED <<marketDay, collected, bars, rated, trade, job, claims>>

(* A crash loses nothing but the process.                                  *)
Dies(p) ==
  /\ ~At(p, "idle") /\ Fault
  /\ job' = [job EXCEPT ![p] = Idle]
  /\ UNCHANGED <<marketDay, collected, tables, trade, claims>>

-----------------------------------------------------------------------------
(* record_paper_entry(): the first session. *)
Offered == {e \in Expiries : e >= date /\ snapshot[e] # NoSnapshot}

ReadsChain(p) ==
  /\ At(p, "record")
  /\ job' = [job EXCEPT ![p] =
       IF Offered = {} \/ snapshot[Min(Offered)].spot = 0 THEN AfterRecord(p)
       ELSE [@ EXCEPT !.at = "gate", !.today = date, !.expiry = Min(Offered),
                      !.snap = snapshot[Min(Offered)]]]
  /\ UNCHANGED <<marketDay, collected, tables, trade, claims, faults>>

(* The second session and the gate, which sells or not: the volatility of  *)
(* the latest bar, if it has one.  An expiry of the same day has no        *)
(* expected move.                                                          *)
Gate(p, sells) ==
  /\ At(p, "gate")
  /\ job' = [job EXCEPT ![p] =
       IF sells /\ bars # {} /\ Max(bars) \in rated /\ job[p].expiry > job[p].today
       THEN [@ EXCEPT !.at = "insert"] ELSE AfterRecord(p)]
  /\ UNCHANGED <<marketDay, collected, tables, trade, claims, faults>>

(* _nearest_strike(): of two as near, the one the chain has first. *)
Nearest(listed, k) ==
  LET away(x) == IF x > k THEN x - k ELSE k - x
  IN  CHOOSE x \in listed : \A y \in listed : away(x) <= away(y)

Premium(spot, k) == Max({1, 4 - (IF k > spot THEN k - spot ELSE spot - k)})

(* The condor on the strikes that are quoted, its credit, and the loss it  *)
(* is recorded with: that of the put wing.                                 *)
EnteredOn(s, gap) ==
  LET ideal == BuildCondor(s, Reach, Wings, Step)
      k     == [n \in DOMAIN ideal |-> Nearest(Strikes \ {gap}, ideal[n])]
      credit == Premium(s, k.shortPut) + Premium(s, k.shortCall)
                - Premium(s, k.longPut) - Premium(s, k.longCall)
  IN  [strikes |-> k, credit |-> credit, maxLoss |-> Positive(PutWing(k) - credit)]

Entered == [s \in Spots |-> [gap \in Gaps |-> EnteredOn(s, gap)]]

Entry(p) ==
  LET on == Entered[job[p].snap.spot][job[p].snap.gap]
  IN  [strikes |-> on.strikes, credit |-> on.credit, maxLoss |-> on.maxLoss,
       status |-> "OPEN", entered |-> job[p].today, settled |-> NoClose, gross |-> 0]

(* Mutant: ON CONFLICT DO UPDATE. *)
InsertsOver(p) ==
  /\ trade' = [trade EXCEPT ![job[p].expiry] = Entry(p)]
  /\ claims' = [claims EXCEPT ![job[p].expiry].recorded = @ + 1]

(* ON CONFLICT DO NOTHING, and the row count. *)
Inserts(p) ==
  LET e == job[p].expiry
  IN  IF trade[e] = NoTrade
      THEN /\ trade' = [trade EXCEPT ![e] = Entry(p)]
           /\ claims' = [claims EXCEPT ![e].recorded = @ + 1]
      ELSE UNCHANGED <<trade, claims>>

Records(p) ==
  /\ At(p, "insert")
  /\ Inserts(p)
  /\ job' = [job EXCEPT ![p] = AfterRecord(p)]
  /\ UNCHANGED <<marketDay, collected, tables, faults>>

-----------------------------------------------------------------------------
(* resolve_paper_trades(): the open trades whose expiry has passed.        *)
Matured == {e \in Expiries : e < date /\ trade[e].status = "OPEN"}

ReadsOpen(p) ==
  /\ At(p, "resolve")
  /\ job' = [job EXCEPT ![p] = IF Matured = {} THEN AfterResolve(p)
                               ELSE [@ EXCEPT !.at = "settle", !.open = Matured]]
  /\ UNCHANGED <<marketDay, collected, tables, trade, claims, faults>>

(* Mutant: the latest close there is. *)
LatestClose(e) == IF bars = {} THEN NoClose ELSE close[Max(bars)]

(* The settlement proxy: the index bar of the expiry day. *)
SettlementOf(e) == IF e \in bars THEN close[e] ELSE NoClose

NextOpen(p, left) ==
  IF left = {} THEN [AfterResolve(p) EXCEPT !.open = {}, !.spot = 0]
  ELSE [job[p] EXCEPT !.at = "settle", !.open = left, !.spot = 0]

(* No bar of that day: the trade is left for a later call. *)
ReadsClose(p) ==
  LET e == Min(job[p].open)
  IN  /\ At(p, "settle")
      /\ job' = [job EXCEPT ![p] =
           IF SettlementOf(e) = NoClose THEN NextOpen(p, job[p].open \ {e})
           ELSE [@ EXCEPT !.at = "update", !.spot = SettlementOf(e)]]
      /\ UNCHANGED <<marketDay, collected, tables, trade, claims, faults>>

StillOpen(e) == trade[e].status = "OPEN"

(* UPDATE ... WHERE id = :trade_id AND status = 'OPEN' *)
Resolves(p) ==
  LET e == Min(job[p].open)
  IN  /\ At(p, "update")
      /\ IF StillOpen(e)
         THEN /\ trade' = [trade EXCEPT ![e].status = "RESOLVED", ![e].settled = job[p].spot,
                             ![e].gross = ResolveCondor(trade[e].strikes, trade[e].credit,
                                                        job[p].spot)]
              /\ claims' = [claims EXCEPT ![e].resolved = @ + 1]
         ELSE UNCHANGED <<trade, claims>>
      /\ job' = [job EXCEPT ![p] = NextOpen(p, job[p].open \ {e})]
      /\ UNCHANGED <<marketDay, collected, tables, faults>>

Runs(p) ==
  \/ CollectsBars(p) \/ Snapshots(p) \/ Rates(p) \/ ReadsChain(p) \/ Records(p)
  \/ ReadsOpen(p) \/ ReadsClose(p) \/ Resolves(p)
  \/ \E sells \in BOOLEAN : Gate(p, sells)

PaperNext ==
  \/ SessionTurns
  \/ \E p \in Processes : Runs(p) \/ Dies(p)
  \/ \E p \in Processes, kind \in {"collector", "evening", "intraday"} : Starts(p, kind)
  \/ \E e \in Expiries : HistoryRows(e)

-----------------------------------------------------------------------------
PaperTypeOK ==
  /\ phase \in {"open", "post"} /\ rated \subseteq bars
  /\ bars \subseteq {d \in Days : close[d] # NoClose}
  /\ \A e \in Expiries : trade[e].status \in {"none", "OPEN", "RESOLVED"}
  /\ \A p \in Processes : job[p].open \subseteq Expiries

(* However the processes overlap, crash and repeat, one call says that it  *)
(* recorded the trade of an expiry and one that it resolved it.            *)
ClaimedOnce ==
  \A e \in Expiries :
    /\ claims[e].recorded = (IF trade[e] = NoTrade THEN 0 ELSE 1)
    /\ claims[e].resolved = (IF trade[e].status = "RESOLVED" THEN 1 ELSE 0)

(* A trade was entered before its expiry, and is resolved after it at the  *)
(* close of the expiry day itself.                                         *)
SettledAtItsExpiry ==
  \A e \in Expiries :
    /\ trade[e] # NoTrade => trade[e].entered < e
    /\ trade[e].status = "RESOLVED" => e < date /\ trade[e].settled = close[e]

(* A resolved trade never loses more than its wider wing less the credit,  *)
(* which is the loss on record if the quoted wings are equally wide.       *)
LossIsBounded ==
  \A e \in Expiries : trade[e].status = "RESOLVED" =>
    LET t == trade[e]
    IN  /\ t.gross >= t.credit - WiderWing(t.strikes)
        /\ PutWing(t.strikes) >= CallWing(t.strikes) => -t.gross <= t.maxLoss

(* The paper ledger, however many processes write it: each trade is        *)
(* recorded and settled once, at its own expiry and within its stated      *)
(* loss.                                                                   *)
PaperSound ==
  PaperTypeOK /\ ClaimedOnce /\ SettledAtItsExpiry /\ LossIsBounded

(* What was entered stays as entered, and what is resolved stays resolved. *)
EntryKept ==
  [][\A e \in Expiries : trade[e] # NoTrade =>
       /\ trade'[e].strikes = trade[e].strikes /\ trade'[e].credit = trade[e].credit
       /\ trade[e].status = "RESOLVED" => trade'[e] = trade[e]]_paperVars

(* A trade that has expired is resolved at last, if fewer collections fail *)
(* than the lookback spans days.                                           *)
MaturedResolves ==
  \A e \in Expiries : e < MaxDay => (trade[e].status = "OPEN" ~> trade[e].status = "RESOLVED")
=============================================================================
