------------------------------ MODULE Gateway ------------------------------
(***************************************************************************)
(* The way of a request to the broker (core/client.py, _request and        *)
(* place_order): limiter, attempt, refresh of the token after DH-901,      *)
(* retry, and for an order the query by correlation id.  Requests run      *)
(* concurrently, as the coroutines of one event loop, with the renewal     *)
(* loop and the ageing of tokens (TokenStore) and of windows (RateLimit).  *)
(*                                                                         *)
(* Orders are the POSTs sent with idempotent=False, reads are everything   *)
(* else.  The limiters of the other categories only delay and are left     *)
(* out.  What the broker does with a request is external.                  *)
(***************************************************************************)
EXTENDS RateLimit, TokenStore

CONSTANTS
  Orders,      \* the requests that place an order
  MaxAttempts  \* max_retries

ASSUME GatewayAssumption ==
  Orders \subseteq Reqs /\ MaxAttempts \in Nat \ {0}

VARIABLES
  pc,       \* every request: where it stands
  phase,    \* "main", or "query": get_order_by_correlation_id
  attempt,  \* the attempt under way
  used,     \* the token the attempt was sent with
  landed,   \* the broker: how often it booked an order
  late      \* orders still on their way when their attempt was given up

reqVars == <<pc, phase, attempt, used, landed, late>>
vars == <<windowVars, tokenVars, reqVars>>

Init ==
  /\ InitRate /\ InitToken
  /\ pc = [r \in Reqs |-> "idle"] /\ phase = [r \in Reqs |-> "main"]
  /\ attempt = [r \in Reqs |-> 0] /\ used = [r \in Reqs |-> 0]
  /\ landed = [o \in Orders |-> 0] /\ late = {}

(* Mutant: every request is retried alike. *)
IdempotentAlways(r) == TRUE

Idempotent(r) == r \notin Orders \/ phase[r] = "query"
Final == {"done", "failed"}

(* acquire() begins; only orders have windows that decide anything. *)
Acquires(r) == IF Idempotent(r) THEN "send" ELSE "second"
Goes(r, where) == pc' = [pc EXCEPT ![r] = where]

(* A request that is over keeps nothing. *)
Ends(r, how) ==
  /\ Goes(r, how)
  /\ phase' = [phase EXCEPT ![r] = "main"]
  /\ attempt' = [attempt EXCEPT ![r] = 0]

Start(r) ==
  /\ pc[r] = "idle"
  /\ Goes(r, Acquires(r))
  /\ attempt' = [attempt EXCEPT ![r] = 1]
  /\ UNCHANGED <<windowVars, tokenVars, phase, used, landed, late>>

-----------------------------------------------------------------------------
Sent(r) ==
  /\ Goes(r, "flight")
  /\ used' = [used EXCEPT ![r] = header]
  /\ UNCHANGED <<tokenVars, phase, attempt, landed, late>>

(* A free second and a free minute: no await from the first check on. *)
AcquireAtOnce(r) == pc[r] = "second" /\ SecondFree /\ Record(FALSE) /\ Sent(r)

(* The minute window is full: the call sleeps there, past the first check. *)
AcquireSleeps(r) ==
  /\ pc[r] = "second" /\ SecondFree /\ ~MinuteFree
  /\ Goes(r, "minute")
  /\ UNCHANGED <<windowVars, tokenVars, phase, attempt, used, landed, late>>

AcquireWakes(r) == pc[r] = "minute" /\ Record(TRUE) /\ Sent(r)

SendUncounted(r) == pc[r] = "send" /\ Sent(r) /\ UNCHANGED windowVars

(* RateLimitExceeded passes through place_order. *)
QuotaSpent(r) ==
  /\ \/ pc[r] = "second" /\ SecondFree
     \/ pc[r] = "minute"
  /\ MinuteFree /\ ~DayFree
  /\ Ends(r, "failed")
  /\ UNCHANGED <<windowVars, tokenVars, used, landed, late>>

-----------------------------------------------------------------------------
(* What an attempt comes to.                                               *)
Returns(r) == used' = [used EXCEPT ![r] = 0]

Booked(r) == IF r \in Orders /\ phase[r] = "main"
             THEN landed' = [landed EXCEPT ![r] = @ + 1]
             ELSE UNCHANGED landed

(* _request raises: an order is looked up, and a failed query is no order. *)
Raises(r) ==
  IF r \in Orders /\ phase[r] = "main"
  THEN /\ Goes(r, "send")
       /\ phase' = [phase EXCEPT ![r] = "query"]
       /\ attempt' = [attempt EXCEPT ![r] = 1]
  ELSE Ends(r, "failed")

Again(r) ==
  /\ Goes(r, Acquires(r))
  /\ attempt' = [attempt EXCEPT ![r] = @ + 1]
  /\ UNCHANGED phase

(* 200: of a query, only an answer with an order in it counts. *)
Answered(r) ==
  /\ pc[r] = "flight" /\ used[r] \in accepted
  /\ Booked(r)
  /\ Ends(r, IF phase[r] = "query" /\ landed[r] = 0 THEN "failed" ELSE "done")
  /\ Returns(r)
  /\ UNCHANGED <<windowVars, tokenVars, late>>

(* An error code other than the token's: DhanAPIError. *)
Rejected(r) ==
  /\ pc[r] = "flight" /\ used[r] \in accepted
  /\ Raises(r) /\ Returns(r)
  /\ UNCHANGED <<windowVars, tokenVars, landed, late>>

Refused(r) ==
  /\ pc[r] = "flight" /\ used[r] \notin accepted
  /\ Goes(r, "auth")
  /\ AsksRefresh(r) /\ Returns(r)
  /\ UNCHANGED <<windowVars, minted, accepted, over, short, token, file, header, feed,
                 reply, lock, unsaved, raced, faults>>
  /\ UNCHANGED <<phase, attempt, landed, late>>

Retry(r) == Idempotent(r) /\ attempt[r] < MaxAttempts
NextTry(r) == IF Retry(r) THEN Again(r) ELSE Raises(r)

(* 429, 5xx or a broken connection; the request may have been carried out, *)
(* or still be on its way.                                                 *)
Breaks(r) ==
  /\ pc[r] = "flight" /\ Fault
  /\ NextTry(r) /\ Returns(r)
  /\ \/ UNCHANGED <<landed, late>>
     \/ used[r] \in accepted /\ Booked(r) /\ UNCHANGED late
     \/ /\ r \in Orders /\ phase[r] = "main" /\ used[r] \in accepted
        /\ late' = late \cup {r} /\ UNCHANGED landed
  /\ UNCHANGED <<windowVars, minted, accepted, over, short, token, file, header, feed, rp,
                 reply, seen, lock, unsaved, raced>>

(* The session's timeout is no ClientError: never retried. *)
TimesOut(r) ==
  /\ pc[r] = "flight" /\ Fault
  /\ Raises(r) /\ Returns(r)
  /\ \/ UNCHANGED <<landed, late>>
     \/ used[r] \in accepted /\ Booked(r) /\ UNCHANGED late
  /\ UNCHANGED <<windowVars, minted, accepted, over, short, token, file, header, feed, rp,
                 reply, seen, lock, unsaved, raced>>

LandsLate(o) ==
  /\ o \in late
  /\ late' = late \ {o}
  /\ landed' = [landed EXCEPT ![o] = @ + 1]
  /\ UNCHANGED <<windowVars, tokenVars, pc, phase, attempt, used>>

-----------------------------------------------------------------------------
(* After DH-901: a refresh that answers leads to the next attempt, even of *)
(* an order; the last attempt's is in vain.                                *)
AfterRefresh(r) ==
  IF attempt[r] < MaxAttempts THEN Again(r) ELSE Raises(r)

RefreshAnswers(r) ==
  /\ pc[r] = "auth" /\ (FindsRefreshed(r) \/ Stores(r))
  /\ AfterRefresh(r)
  /\ UNCHANGED <<windowVars, used, landed, late>>

RefreshGoesOn(r) ==
  /\ pc[r] = "auth"
  /\ TakesLock(r) \/ Mints(r) \/ RenewFails(r) \/ (rp[r] = "renew" /\ WriteFails(r))
  /\ UNCHANGED <<windowVars, reqVars>>

RefreshFails(r) ==
  /\ pc[r] = "auth"
  /\ GenerateFails(r) \/ (rp[r] = "generate" /\ WriteFails(r))
  /\ Raises(r)
  /\ UNCHANGED <<windowVars, used, landed, late>>

LoopStep ==
  /\ \/ LoopWakes \/ Mints(Loop) \/ Stores(Loop) \/ RenewFails(Loop)
     \/ WriteFails(Loop) \/ GenerateFails(Loop)
  /\ UNCHANGED <<windowVars, reqVars>>

World ==
  /\ \/ TokenAges
     \/ FeedDrops \/ FeedReconnects
  /\ UNCHANGED <<windowVars, reqVars>>

Windows == (SecondPasses \/ MinutePasses) /\ UNCHANGED <<tokenVars, reqVars>>

-----------------------------------------------------------------------------
Acquire(r) == AcquireAtOnce(r) \/ AcquireSleeps(r) \/ AcquireWakes(r)
              \/ SendUncounted(r) \/ QuotaSpent(r)
Outcome(r) == Answered(r) \/ Rejected(r) \/ Refused(r) \/ Breaks(r) \/ TimesOut(r)
Refresh(r) == RefreshAnswers(r) \/ RefreshGoesOn(r) \/ RefreshFails(r)
Advance(r) == Acquire(r) \/ Outcome(r) \/ Refresh(r)

(* Every request has had its answer and nobody calls the broker: the only  *)
(* state the gateway may rest in.                                          *)
Rests ==
  /\ \A r \in Reqs : pc[r] \in Final /\ rp[r] = "none"
  /\ lock = Free
  /\ UNCHANGED vars

Next ==
  \/ \E r \in Reqs : Start(r) \/ Advance(r)
  \/ \E o \in Orders : LandsLate(o)
  \/ LoopStep \/ World \/ Windows
  \/ Rests

Spec == Init /\ [][Next]_vars

-----------------------------------------------------------------------------
(* Types. *)
GatewayTypeOK ==
  /\ sec \in Nat /\ min \in Nat /\ calls \in Nat
  /\ minted \in Tokens /\ accepted \subseteq 1..minted
  /\ {token, file, header} \subseteq 1..minted
  /\ pc \in [Reqs -> {"idle", "second", "minute", "send", "flight", "auth"} \cup Final]
  /\ attempt \in [Reqs -> 0..MaxAttempts]
  /\ \A r \in Reqs : rp[r] # "none" <=> pc[r] = "auth"
  /\ lock \in Reqs \cup {Free} /\ (lock # Free => Calling(lock))

(* Whatever is retried, refreshed or looked up, the broker books an order  *)
(* at most once: the code sends its POST again only after a DH-901, and    *)
(* that attempt was not carried out.                                       *)
OrderAtMostOnce ==
  \A o \in Orders : landed[o] + (IF o \in late THEN 1 ELSE 0) <= 1

(* An order reported as placed is at the broker. *)
PlacedIsBooked == \A o \in Orders : pc[o] = "done" => landed[o] = 1

(* What a request to place an order comes to, over all its retries.        *)
OrdersOnceAndBooked == GatewayTypeOK /\ OrderAtMostOnce /\ PlacedIsBooked
=============================================================================
