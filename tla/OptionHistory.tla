---------------------------- MODULE OptionHistory ----------------------------
(***************************************************************************)
(* The option history (core/dhan_option_history.py): for every rolling     *)
(* expiry code, window of days and strike around the money a pull asks for *)
(* the call leg and the put leg, collapses the legs at the money into one  *)
(* IV row per day, taken from the day's last bars, and keeps all bars as   *)
(* chain rows.  The value of an IV is abstracted to the pull that brought  *)
(* it, 0 for NULL; of a leg's bars only the last of a day is followed.     *)
(***************************************************************************)
EXTENDS Expiry

CONSTANTS
  Firsts,      \* first days a pull is asked for, none of them negative
  Span,        \* days asked for
  MaxWindow,   \* _MAX_WINDOW_DAYS
  MaxCode,     \* highest rolling code
  MaxOffset,   \* strikes on either side, the per-instrument cap
  Holidays,    \* exchange holidays
  Budget,      \* cap less headroom
  RateRetries, \* _RL_MAX_RETRIES
  Bars,        \* what a day's last bar may be: [time, iv], an IV that can be used
  MaxPulls     \* bound: pulls started

ASSUME HistoryAssumption ==
  /\ {Span, MaxWindow, MaxCode, MaxPulls} \subseteq Nat \ {0}
  /\ {MaxOffset, Budget, RateRetries} \subseteq Nat
  /\ IsFiniteSet(Firsts) /\ Firsts \subseteq Nat
  /\ IsFiniteSet(Holidays) /\ Holidays \subseteq Int
  /\ Bars \subseteq [time : Nat, iv : BOOLEAN]

VARIABLES
  asked,  \* the request: [first, codes, offset], and the calendar's entries
  pulls,  \* pulls started
  leg,    \* what the pull waits for: "none", "next", "call", "put"
  todo,   \* the places (code, window and strike) it has left
  call,   \* the call leg's answer: its last bar of every day that has one
  attempts, \* rate-limited attempts of the leg
  used,   \* _Budget.used
  sent,   \* requests of the pull, retries included
  end,    \* how the last pull ended: "none", "done", "failed", "exhausted"
  atm,    \* option_atm_iv: records [day, time, expiry, call, put]
  chain,  \* the chain rows just written: [day, expiry, strike, side]
  missed  \* history: [code, day] for which this pull got no IV from either leg

historyVars == <<asked, pulls, leg, todo, call, attempts, used, sent, end, atm, chain, missed>>

-----------------------------------------------------------------------------
(* Mutant: the next window starts two days after the last. *)
WindowsGap(from, to) ==
  {<<d, Min({d + MaxWindow - 1, to})>> :
     d \in {x \in from..to : (x - from) % (MaxWindow + 1) = 0}}

(* date_windows() *)
Windows(from, to) ==
  {<<d, Min({d + MaxWindow - 1, to})>> : d \in {x \in from..to : (x - from) % MaxWindow = 0}}

(* strike_params(): at the money first, then outward. *)
StrikeRank(n) == IF n < 0 THEN -2 * n - 1 ELSE 2 * n

StrikeOffsets(n) == LET m == Min({n, MaxOffset}) IN (-m)..m

(* The three loops of ingest_underlying(). *)
PlacesOf(request) ==
  [code : request.codes, window : Windows(request.first, request.first + Span - 1),
   strike : StrikeOffsets(request.offset)]

Here ==
  LET code  == Min({p.code : p \in todo})
      first == Min({p.window[1] : p \in {q \in todo : q.code = code}})
      left  == {p \in todo : p.code = code /\ p.window[1] = first}
      rank  == Min({StrikeRank(p.strike) : p \in left})
  IN  CHOOSE p \in left : StrikeRank(p.strike) = rank

-----------------------------------------------------------------------------
(* The exchange: an expiry on a holiday is moved to the day before.        *)
Traded(d) == d \notin Holidays /\ Weekday(d) < 5

Moved(e) == IF e \in Holidays THEN e - 1 ELSE e

(* The code-th of the dates. *)
NthOf(dates, code) == CHOOSE e \in dates : Cardinality({x \in dates : x < e}) = code - 1

AskedDays == Min(Firsts)..(Max(Firsts) + Span - 1)
Codes == 1..MaxCode
Ahead(day) == day..(day + 13 + 7 * MaxCode)

(* The code-th expiry on or after a day, as held and as the rule has it.   *)
RealExpiry ==
  [day \in AskedDays |-> [code \in Codes |->
     NthOf({e \in Ahead(day) : \E w \in {e, e + 1} : IsWeekly(w) /\ Moved(w) = e}, code)]]

RuleExpiry ==
  [day \in AskedDays |-> [code \in Codes |-> NthOf({e \in Ahead(day) : IsWeekly(e)}, code)]]

(* _load_expiry_dates(): nothing, or the real expiries from some day on.   *)
Calendars ==
  LET all == {Moved(e) : e \in {x \in (Min(Firsts) - 7)..(Max(Firsts) + Span + 7 * MaxCode + 14) :
                                  IsWeekly(x)}}
  IN  {{}, all, {e \in all : e >= Cutover}}

Covered(day) == \E e \in asked.calendar : e <= day

(* derive_front_expiry() with each calendar. *)
Front ==
  [day \in AskedDays |-> [code \in Codes |-> [calendar \in Calendars |->
     FrontExpiry(day, code, calendar)]]]

Requests ==
  [first : Firsts, codes : (SUBSET Codes) \ {{}}, offset : 0..MaxOffset, calendar : Calendars]

NoRequest == [codes |-> {}]

InitHistory ==
  /\ asked = NoRequest
  /\ pulls = 0 /\ leg = "none" /\ todo = {} /\ call = <<>> /\ attempts = 0
  /\ used = 0 /\ sent = 0 /\ end = "none" /\ atm = {} /\ chain = {} /\ missed = {}

(* The pull of a request, and the same pull again. *)
StartPull(request) ==
  /\ leg = "none" /\ pulls < MaxPulls
  /\ asked \in {NoRequest, request} /\ asked' = request
  /\ pulls' = pulls + 1 /\ leg' = "next" /\ todo' = PlacesOf(request)
  /\ used' = 0 /\ sent' = 0 /\ end' = "none" /\ missed' = {}
  /\ UNCHANGED <<call, attempts, atm, chain>>

Ended(how) == leg' = "none" /\ end' = how /\ attempts' = 0

(* _Budget.charge(2) *)
CannotAfford == Budget - used < 2

NextPlace ==
  /\ leg = "next" /\ todo # {}
  /\ IF CannotAfford THEN Ended("exhausted") /\ UNCHANGED used
     ELSE used' = used + 2 /\ leg' = "call" /\ UNCHANGED <<end, attempts>>
  /\ chain' = {}
  /\ UNCHANGED <<asked, pulls, todo, call, sent, atm, missed>>

PullDone ==
  /\ leg = "next" /\ todo = {}
  /\ Ended("done")
  /\ UNCHANGED <<asked, pulls, todo, call, used, sent, atm, chain, missed>>

LastAttempt == attempts = RateRetries

(* _fetch_side_with_backoff(): a rate limit is retried, then raised. *)
RateLimited ==
  /\ leg \in {"call", "put"}
  /\ sent' = sent + 1
  /\ IF LastAttempt THEN Ended("failed")
     ELSE attempts' = attempts + 1 /\ UNCHANGED <<leg, end>>
  /\ UNCHANGED <<asked, pulls, todo, call, used, atm, chain, missed>>

DaysOf(window) == {d \in window[1]..window[2] : Traded(d)}

(* Bars on some days of the window, some with an IV that is no positive    *)
(* number, or {} after any other error.                                    *)
Answers(window) == UNION {[days -> Bars] : days \in SUBSET DaysOf(window)}

CallAnswers ==
  /\ leg = "call"
  /\ call' \in Answers(Here.window)
  /\ sent' = sent + 1 /\ leg' = "put" /\ attempts' = 0
  /\ UNCHANGED <<asked, pulls, todo, used, end, atm, chain, missed>>

Attached(day, code) == Front[day][code][asked.calendar]

Kept(place) == {d \in DaysOf(place.window) : Attached(d, place.code) # NoExpiry}

Usable(side, d) == d \in DOMAIN side /\ side[d].iv

(* atm_iv_rows_from_legs(): days with no IV are left out, a leg without    *)
(* one leaves a NULL, and the call's bar, if there is one, gives the time. *)
AtmRow(place, put, d) ==
  [day |-> d, expiry |-> Attached(d, place.code),
   time |-> IF d \in DOMAIN call THEN call[d].time ELSE put[d].time,
   call |-> IF Usable(call, d) THEN pulls ELSE 0,
   put  |-> IF Usable(put, d) THEN pulls ELSE 0]

AtmRows(place, put) ==
  IF place.strike # 0 THEN {}
  ELSE {AtmRow(place, put, d) : d \in {x \in Kept(place) : Usable(call, x) \/ Usable(put, x)}}

(* chain_snapshot_rows_from_side(), of the days that have bars.            *)
ChainRows(place, put) ==
  {[day |-> d, expiry |-> Attached(d, place.code), strike |-> place.strike, side |-> "CE"] :
     d \in Kept(place) \cap DOMAIN call}
  \cup
  {[day |-> d, expiry |-> Attached(d, place.code), strike |-> place.strike, side |-> "PE"] :
     d \in Kept(place) \cap DOMAIN put}

SameKey(a, b) == a.day = b.day /\ a.time = b.time /\ a.expiry = b.expiry

(* _upsert_atm_iv(): the columns of a row are replaced, by NULLs too; a    *)
(* row of another time of that day stays beside it.                        *)
Upserted(rows) == {r \in atm : \A n \in rows : ~SameKey(r, n)} \cup rows

Without(place, put) ==
  IF place.strike # 0 THEN {}
  ELSE {[code |-> place.code, day |-> d] :
          d \in {x \in DaysOf(place.window) : ~Usable(call, x) /\ ~Usable(put, x)}}

(* The put leg's answer and the writes that follow it at once. *)
PutAnswers(put) ==
  LET place == Here
  IN  /\ put \in Answers(place.window)
      /\ atm' = Upserted(AtmRows(place, put)) /\ chain' = ChainRows(place, put)
      /\ missed' = missed \cup Without(place, put)
      /\ todo' = todo \ {place}
      /\ sent' = sent + 1 /\ attempts' = 0 /\ call' = <<>> /\ leg' = "next"
      /\ UNCHANGED <<asked, pulls, used, end>>

(* A write fails and the pull ends: the first one, with nothing of this    *)
(* place, or the second, with its IV rows and none of its chain.           *)
WriteRaises(put) ==
  LET place == Here
  IN  /\ put \in Answers(place.window)
      /\ \/ AtmRows(place, put) # {} /\ atm' = atm
         \/ ChainRows(place, put) # {} /\ atm' = Upserted(AtmRows(place, put))
      /\ sent' = sent + 1 /\ call' = <<>> /\ Ended("failed")
      /\ UNCHANGED <<asked, pulls, todo, used, chain, missed>>

PutLeg == leg = "put" /\ \E put \in Answers(Here.window) : PutAnswers(put) \/ WriteRaises(put)

HistoryNext ==
  \/ \E request \in Requests : StartPull(request)
  \/ NextPlace \/ PullDone \/ RateLimited \/ CallAnswers \/ PutLeg

-----------------------------------------------------------------------------
HistoryTypeOK ==
  /\ leg \in {"none", "next", "call", "put"} /\ pulls \in 0..MaxPulls
  /\ pulls > 0 => todo \subseteq PlacesOf(asked)
  /\ attempts \in 0..RateRetries /\ {used, sent} \subseteq Nat
  /\ \A r \in atm : {r.call, r.put} \subseteq 0..MaxPulls

(* A row is kept under the expiry that was in front that day, by the       *)
(* exchange's own dates where the calendar reaches back to the day and by  *)
(* the weekly rule, or an entry of the calendar near it, elsewhere.        *)
ExpiryAttached(day, expiry, codes) ==
  \E c \in codes : expiry = IF Covered(day) THEN RealExpiry[day][c] ELSE RuleExpiry[day][c]

RowsAtTheirExpiry ==
  \A r \in atm \cup chain :
    \/ ExpiryAttached(r.day, r.expiry, asked.codes)
    \/ ~Covered(r.day) /\ r.expiry \in asked.calendar /\ r.expiry >= r.day

(* The two volatilities whose mean is a row's straddle come from one pull: *)
(* a leg that failed in a later pull empties its column instead of         *)
(* leaving the older value beside the new one, or the row of that pull has *)
(* another time and its own two columns.                                   *)
StraddleOfOnePull == \A r \in atm : r.call = r.put \/ 0 \in {r.call, r.put}

(* A pull that comes to its end has left a row of its own for every        *)
(* trading day and code, except for a day on which neither leg at the      *)
(* money brought an IV: no day falls between two windows, none is filed    *)
(* under another code's expiry, and no place's rows undo another's.        *)
DonePullCovers ==
  end = "done" /\ leg = "none" =>
    \A d \in DaysOf(<<asked.first, asked.first + Span - 1>>), c \in asked.codes :
      \/ \E r \in atm : /\ r.day = d /\ r.expiry = Front[d][c][asked.calendar]
                       /\ pulls \in {r.call, r.put}
      \/ [code |-> c, day |-> d] \in missed

(* The budget is never overdrawn, and what a pull really sends stays       *)
(* within the retries' multiple of it.                                     *)
BudgetHolds == used <= Budget /\ sent <= used * (1 + RateRetries)

(* What a pull of the option history leaves in the tables, and what it     *)
(* spends.                                                                 *)
HistorySound ==
  /\ HistoryTypeOK /\ RowsAtTheirExpiry /\ StraddleOfOnePull
  /\ DonePullCovers /\ BudgetHolds
=============================================================================
