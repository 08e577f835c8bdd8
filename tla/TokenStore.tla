----------------------------- MODULE TokenStore -----------------------------
(***************************************************************************)
(* The life of the access token (core/token_manager.py).  Those who        *)
(* refresh it are the requests the broker refused (DH-901), one at a time  *)
(* behind _refresh_lock, and the renewal loop, which does not take the     *)
(* lock.  A call of the login SDK is two events: the broker mints a token, *)
(* and the answer arrives or is lost (wait_for abandons the thread).       *)
(*                                                                         *)
(* A token is its number, 0 is none.  A newer token may or may not revoke  *)
(* the older ones: the code assumes neither.                               *)
(***************************************************************************)
EXTENDS Integers, FiniteSets

CONSTANTS
  Reqs,       \* the requests of the trader
  MaxTokens,  \* bound: tokens minted
  MaxFaults   \* bound: lost answers, failed writes, dropped connections

Loop == "loop"
Refreshers == Reqs \cup {Loop}
Free == "free"

ASSUME TokenAssumption ==
  /\ Loop \notin Reqs /\ Free \notin Refreshers
  /\ MaxTokens \in Nat \ {0} /\ MaxFaults \in Nat

VARIABLES
  minted, accepted,  \* the broker: tokens issued, tokens it takes
  over, short,       \* tokens expire in the order of issue: the last one that
                     \* has, and whether the next one soon will
  token,             \* MasterTokenManager._token
  file,              \* dhan_token.json
  header,            \* DhanClient.access_token and its session's header
  feed,              \* the market feed's socket is open
  rp, reply,         \* every refresher: where it stands, the answer under way
  seen,              \* token_before_lock
  lock,              \* _refresh_lock: its holder
  unsaved,           \* history: the newest token stored was not written
  raced,             \* history: the loop and a request called the broker at once
  faults             \* faults so far (bound)

tokenVars == <<minted, accepted, over, short, token, file, header, feed, rp, reply,
               seen, lock, unsaved, raced, faults>>

Tokens == 1..MaxTokens
BootToken == 1

InitToken ==
  /\ minted = BootToken /\ accepted = {BootToken}
  /\ over = 0 /\ short = FALSE
  /\ token = BootToken /\ file = BootToken /\ header = BootToken
  /\ feed = TRUE
  /\ rp = [p \in Refreshers |-> "none"]
  /\ reply = [p \in Refreshers |-> 0]
  /\ seen = [r \in Reqs |-> 0]
  /\ lock = Free /\ unsaved = FALSE /\ raced = FALSE /\ faults = 0

Fault == faults < MaxFaults /\ faults' = faults + 1

-----------------------------------------------------------------------------
(* Time: less than REFRESH_BEFORE_MIN is left, then the token expires.     *)
TokenAges ==
  /\ over < minted
  /\ short' = ~short
  /\ over' = IF short THEN over + 1 ELSE over
  /\ accepted' = accepted \ 1..over'
  /\ UNCHANGED <<minted, token, file, header, feed, rp, reply, seen, lock,
                 unsaved, raced, faults>>

Expires(t) == t <= over \/ (t = over + 1 /\ short)

Calling(p) == rp[p] \in {"renew", "generate"}

(* is_valid() *)
IsValid == token > over

(* run(): every ten minutes. *)
LoopWakes ==
  /\ rp[Loop] = "none" /\ Expires(token) /\ minted < MaxTokens
  /\ rp' = [rp EXCEPT ![Loop] = "renew"]
  /\ raced' = (raced \/ \E r \in Reqs : Calling(r))
  /\ UNCHANGED <<minted, accepted, over, short, token, file, header, feed, reply, seen,
                 lock, unsaved, faults>>

(* handle_auth_error(), up to the lock. *)
AsksRefresh(r) ==
  /\ seen' = [seen EXCEPT ![r] = token]
  /\ rp' = [rp EXCEPT ![r] = "lock"]

(* token_before_lock is not read again past the lock. *)
Forgets(r) == [seen EXCEPT ![r] = 0]

(* Another caller has refreshed the token while r waited for the lock. *)
Refreshed(r) == token # seen[r] /\ IsValid

(* Mutant: the lock is not waited for. *)
TakesLockHeld(r) ==
  /\ rp[r] = "lock" /\ ~Refreshed(r)
  /\ lock' = r /\ seen' = Forgets(r)
  /\ rp' = [rp EXCEPT ![r] = "renew"]
  /\ raced' = (raced \/ Calling(Loop))
  /\ UNCHANGED <<minted, accepted, over, short, token, file, header, feed, reply,
                 unsaved, faults>>

TakesLock(r) ==
  /\ rp[r] = "lock" /\ lock = Free /\ ~Refreshed(r)
  /\ lock' = r /\ seen' = Forgets(r)
  /\ rp' = [rp EXCEPT ![r] = "renew"]
  /\ raced' = (raced \/ Calling(Loop))
  /\ UNCHANGED <<minted, accepted, over, short, token, file, header, feed, reply,
                 unsaved, faults>>

(* The double check: the refreshed token, and no call of the broker. *)
FindsRefreshed(r) ==
  /\ rp[r] = "lock" /\ lock = Free /\ Refreshed(r)
  /\ header' = token /\ seen' = Forgets(r)
  /\ rp' = [rp EXCEPT ![r] = "none"]
  /\ UNCHANGED <<minted, accepted, over, short, token, file, feed, reply, lock,
                 unsaved, faults, raced>>

-----------------------------------------------------------------------------
Released(p) == IF lock = p THEN Free ELSE lock

(* The broker mints a token: renewal needs the old one to be accepted. *)
Mints(p) ==
  /\ Calling(p) /\ reply[p] = 0 /\ minted < MaxTokens
  /\ rp[p] = "renew" => token \in accepted
  /\ minted' = minted + 1
  /\ reply' = [reply EXCEPT ![p] = minted + 1]
  /\ accepted' \in {accepted \cup {minted + 1}, {minted + 1}}
  /\ UNCHANGED <<over, short, token, file, header, feed, rp, seen, lock, unsaved, faults, raced>>

(* The answer: memory, file and callbacks change between two awaits. *)
Stores(p) ==
  /\ reply[p] # 0
  /\ token' = reply[p] /\ file' = reply[p] /\ header' = reply[p]
  /\ unsaved' = FALSE
  /\ reply' = [reply EXCEPT ![p] = 0]
  /\ rp' = [rp EXCEPT ![p] = "none"]
  /\ lock' = Released(p)
  /\ UNCHANGED <<minted, accepted, over, short, feed, seen, faults, raced>>

(* _renew() swallows every failure and _generate() follows. *)
RenewFails(p) ==
  /\ rp[p] = "renew"
  /\ \/ /\ reply[p] = 0 /\ (token \notin accepted \/ minted = MaxTokens)
        /\ UNCHANGED faults
     \/ Fault
  /\ reply' = [reply EXCEPT ![p] = 0]
  /\ rp' = [rp EXCEPT ![p] = "generate"]
  /\ UNCHANGED <<minted, accepted, over, short, token, file, header, feed, seen, lock,
                 unsaved, raced>>

(* The token is in memory, the write of the file raises: no callback. *)
WriteFails(p) ==
  /\ reply[p] # 0 /\ Fault
  /\ token' = reply[p] /\ unsaved' = TRUE
  /\ reply' = [reply EXCEPT ![p] = 0]
  /\ rp' = [rp EXCEPT ![p] = IF rp[p] = "renew" THEN "generate" ELSE "none"]
  /\ lock' = IF rp[p] = "renew" THEN lock ELSE Released(p)
  /\ UNCHANGED <<minted, accepted, over, short, file, header, feed, seen, raced>>

(* The loop survives; a request gets the exception, the lock is released. *)
GenerateFails(p) ==
  /\ rp[p] = "generate"
  /\ \/ reply[p] = 0 /\ minted = MaxTokens /\ UNCHANGED faults
     \/ Fault
  /\ reply' = [reply EXCEPT ![p] = 0]
  /\ rp' = [rp EXCEPT ![p] = "none"]
  /\ lock' = Released(p)
  /\ UNCHANGED <<minted, accepted, over, short, token, file, header, feed, seen,
                 unsaved, raced>>

-----------------------------------------------------------------------------
(* core/live_feed.py: a dropped socket is opened again, for ever, with the *)
(* token the feed was constructed with.                                    *)
FeedDrops ==
  /\ feed /\ Fault
  /\ feed' = FALSE
  /\ UNCHANGED <<minted, accepted, over, short, token, file, header, rp, reply, seen,
                 lock, unsaved, raced>>

FeedReconnects ==
  /\ ~feed /\ BootToken \in accepted
  /\ feed' = TRUE
  /\ UNCHANGED <<minted, accepted, over, short, token, file, header, rp, reply, seen,
                 lock, unsaved, faults, raced>>

-----------------------------------------------------------------------------
(* The client sends what the manager has, and what the other processes     *)
(* read is the same token: the three differ only after the file could not  *)
(* be written, however the loop and the requests interleave.               *)
StoresAgree == ~unsaved => header = token /\ file = token

(* The lock does its work: the manager's token is never exchanged for an   *)
(* older one, unless the loop, which does not take the lock, was calling   *)
(* the broker at the same time as a request.                               *)
NeverOlderBehindLock == [][token' < token => raced]_tokenVars

(* The token of the manager, of the client and of the file, over renewals  *)
(* and refreshes in any order.                                             *)
TokensAgree == []StoresAgree /\ NeverOlderBehindLock
=============================================================================
