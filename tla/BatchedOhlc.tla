---------------------------- MODULE BatchedOhlc ----------------------------
(***************************************************************************)
(* The shared REST quotes (core/batched_ohlc.py): a runner whose tick is   *)
(* stale asks for the quote of its security, one of them fetches the whole *)
(* watchlist behind a lock, the others find its answer in the cache.  A    *)
(* runner stands for its security; a quote is 1, and 0 is none.            *)
(***************************************************************************)
EXTENDS Integers, FiniteSets

CONSTANT Callers  \* the runners

ASSUME QuoteAssumption == IsFiniteSet(Callers)

VARIABLES
  ask,      \* every caller: "idle", "lock", "fetch"
  holder,   \* _lock: the callers that hold it
  quote,    \* _cache: the value of a security, 0 for none
  young     \* the securities whose entry is within the TTL

quoteVars == <<ask, holder, quote, young>>

InitQuotes ==
  /\ ask = [c \in Callers |-> "idle"] /\ holder = {}
  /\ quote = [c \in Callers |-> 0] /\ young = {}

(* Entries age together, those of the last fetch after the others. *)
QuotesAge ==
  /\ young # {}
  /\ young' = {}
  /\ UNCHANGED <<ask, holder, quote>>

Gets(c) == ask' = [ask EXCEPT ![c] = "idle"]

(* What get() returns to c in this step: its entry, 0 for None.        *)
Given(c) == quote'[c]

(* get(), up to its first await. *)
Asks(c) ==
  /\ ask[c] = "idle" /\ c \notin young
  /\ ask' = [ask EXCEPT ![c] = "lock"]
  /\ UNCHANGED <<holder, quote, young>>

HitsCache(c) ==
  /\ ask[c] = "idle" /\ c \in young
  /\ UNCHANGED quoteVars

(* Mutant: the cache is not looked up again. *)
StillOldUnasked(c) == TRUE

(* The cache is looked up again under the lock. *)
StillOld(c) == c \notin young

FindsQuote(c) ==
  /\ ask[c] = "lock" /\ holder = {} /\ ~StillOld(c)
  /\ Gets(c)
  /\ UNCHANGED <<holder, quote, young>>

Fetches(c) ==
  /\ ask[c] = "lock" /\ holder = {} /\ StillOld(c)
  /\ holder' = {c}
  /\ ask' = [ask EXCEPT ![c] = "fetch"]
  /\ UNCHANGED <<quote, young>>

(* The answer has the securities of got, each worth v or nothing.  One     *)
(* that is missing keeps its entry, which its caller has found too old and *)
(* is given all the same.                                                  *)
FetchAnswers(c, got, v) ==
  /\ ask[c] = "fetch"
  /\ holder' = holder \ {c}
  /\ quote' = [s \in Callers |-> IF s \in got THEN v ELSE quote[s]]
  /\ young' = young \cup got
  /\ Gets(c)

(* Any error: None, and nothing is cached. *)
FetchFails(c) ==
  /\ ask[c] = "fetch"
  /\ holder' = holder \ {c}
  /\ Gets(c)
  /\ UNCHANGED <<quote, young>>

-----------------------------------------------------------------------------
(* The callers that found their entries too old make one request between   *)
(* them: none is sent while another is under way, or for a security whose  *)
(* entry another caller's request has brought.                             *)
OneFetchPerTtl ==
  [][\A c \in Callers : ask[c] = "lock" /\ ask'[c] = "fetch"
       => c \notin young /\ \A d \in Callers : ask[d] # "fetch"]_quoteVars

(* The lock is held by the caller whose request is under way, and a        *)
(* request that fails gives it back: nobody waits for a caller that left.  *)
LockIsOfFetcher == holder = {c \in Callers : ask[c] = "fetch"}
=============================================================================
