---------------------------- MODULE GatewayProofs ----------------------------
(***************************************************************************)
(* Theorems of Gateway, for every set of requests and every limit: the     *)
(* windows of the limiter, the tokens behind the refresh lock, and the     *)
(* order that is booked at most once.  Each has an inductive invariant of  *)
(* its own; the orders' needs the tokens' to know who waits for a token.   *)
(***************************************************************************)
EXTENDS Gateway, TLAPS

-----------------------------------------------------------------------------
(* The limiter.  A call counted in the short window is counted in the long *)
(* one too, or ageing could drive the count of the long one below zero.    *)
RateInv ==
  /\ sec \in Nat /\ min \in Nat /\ calls \in Nat /\ slept \in BOOLEAN
  /\ sec <= min
  /\ WindowsHold

(* All that a step of the gateway does to the windows. *)
LEMMA RateSteps ==
  ASSUME [Next]_vars
  PROVE  \/ SecondFree /\ Record(FALSE)
         \/ Record(TRUE)
         \/ SecondPasses \/ MinutePasses
         \/ UNCHANGED windowVars
<1>1. ASSUME NEW r \in Reqs, Start(r) \/ Advance(r)
      PROVE  \/ SecondFree /\ Record(FALSE)
             \/ Record(TRUE)
             \/ UNCHANGED windowVars
  <2>1. CASE Start(r)
    BY <2>1 DEF Start
  <2>2. CASE Acquire(r)
    BY <2>2 DEF Acquire, AcquireAtOnce, AcquireSleeps, AcquireWakes, SendUncounted, QuotaSpent
  <2>3. CASE Outcome(r)
    BY <2>3 DEF Outcome, Answered, Rejected, Refused, Breaks, TimesOut
  <2>4. CASE Refresh(r)
    BY <2>4 DEF Refresh, RefreshAnswers, RefreshGoesOn, RefreshFails
  <2> QED BY <1>1, <2>1, <2>2, <2>3, <2>4 DEF Advance
<1>2. ASSUME NEW o \in Orders, LandsLate(o)  PROVE UNCHANGED windowVars
  BY <1>2 DEF LandsLate
<1>3. CASE LoopStep \/ World \/ Rests \/ UNCHANGED vars
  BY <1>3 DEF LoopStep, World, Rests, vars
<1>4. CASE Windows
  BY <1>4 DEF Windows
<1> QED BY <1>1, <1>2, <1>3, <1>4 DEF Next

LEMMA RateInit == Init => RateInv
<1> SUFFICES ASSUME Init  PROVE RateInv
  OBVIOUS
<1>1. slept \in BOOLEAN
  BY DEF Init, InitRate
<1>2. /\ sec \in Nat /\ min \in Nat /\ calls \in Nat
      /\ sec <= min /\ min <= PerMin /\ calls <= PerDay /\ sec <= PerSec
  BY RateAssumption DEF Init, InitRate
<1> QED
  BY <1>1, <1>2 DEF RateInv, WindowsHold, LongWindowsHold, SecondHoldsUnlessSlept

LEMMA RateStep ==
  ASSUME RateInv, [Next]_vars
  PROVE  RateInv'
<1> USE RateAssumption DEF RateInv, WindowsHold, LongWindowsHold, SecondHoldsUnlessSlept
<1>1. CASE SecondFree /\ Record(FALSE)
  BY <1>1 DEF SecondFree, MinuteFree, DayFree, Record
<1>2. CASE Record(TRUE)
  <2>1. slept' = TRUE
    BY <1>2 DEF Record
  <2>2. /\ sec' \in Nat /\ min' \in Nat /\ calls' \in Nat
        /\ sec' <= min' /\ min' <= PerMin /\ calls' <= PerDay
    BY <1>2 DEF MinuteFree, DayFree, Record
  <2> QED BY <2>1, <2>2
<1>3. CASE SecondPasses
  BY <1>3 DEF SecondPasses
<1>4. CASE MinutePasses
  BY <1>4 DEF MinutePasses
<1>5. CASE UNCHANGED windowVars
  BY <1>5 DEF windowVars
<1> QED BY <1>1, <1>2, <1>3, <1>4, <1>5, RateSteps

(* No minute has more calls than its limit and no day more than its quota, *)
(* and the second's limit is passed only by calls that slept in the minute *)
(* window: RateLimiter.acquire(), whatever waits in it and for how long.   *)
THEOREM WindowsAlwaysHold == Spec => []WindowsHold
<1>1. Init => RateInv
  BY RateInit
<1>2. RateInv /\ [Next]_vars => RateInv'
  BY RateStep
<1>3. RateInv => WindowsHold
  BY DEF RateInv
<1> QED BY <1>1, <1>2, <1>3, PTL DEF Spec

-----------------------------------------------------------------------------
(* Where a request stands, and that it waits for a token exactly while it  *)
(* is in handle_auth_error().                                              *)
Places == {"idle", "second", "minute", "send", "flight", "auth"} \cup Final
RefreshStates == {"none", "lock", "renew", "generate"}

PlaceInv ==
  /\ pc \in [Reqs -> Places]
  /\ rp \in [Refreshers -> RefreshStates]
  /\ \A r \in Reqs : rp[r] # "none" <=> pc[r] = "auth"

LEMMA LeavesAttempt ==
  ASSUME NEW r \in Reqs, Again(r) \/ Raises(r)
  PROVE  \E x \in {"second", "send", "failed"} : pc' = [pc EXCEPT ![r] = x]
<1>1. CASE Again(r)
  BY <1>1 DEF Again, Goes, Acquires
<1>2. CASE Raises(r)
  BY <1>2 DEF Raises, Ends, Goes
<1> QED BY <1>1, <1>2

LEMMA PlaceInit == Init => PlaceInv
BY DEF Init, InitToken, PlaceInv, Places, RefreshStates, Refreshers

LEMMA PlaceRequest ==
  ASSUME PlaceInv, NEW r \in Reqs, Start(r) \/ Advance(r)
  PROVE  PlaceInv'
<1> USE DEF PlaceInv, Places, RefreshStates, Refreshers, Final
<1>1. ASSUME pc[r] # "auth", NEW x \in Places \ {"auth"},
             pc' = [pc EXCEPT ![r] = x], UNCHANGED rp
      PROVE  PlaceInv'
  BY <1>1
<1>2. CASE Start(r)
  <2>1. pc[r] # "auth" /\ UNCHANGED rp
    BY <1>2 DEF Start, tokenVars
  <2>2. \E x \in {"send", "second"} : pc' = [pc EXCEPT ![r] = x]
    BY <1>2 DEF Start, Goes, Acquires
  <2> QED BY <1>1, <2>1, <2>2
<1>3. CASE Acquire(r)
  <2>1. pc[r] # "auth" /\ UNCHANGED rp
    BY <1>3 DEF Acquire, AcquireAtOnce, AcquireSleeps, AcquireWakes, SendUncounted,
                QuotaSpent, Sent, tokenVars
  <2>2. \E x \in {"flight", "minute", "failed"} : pc' = [pc EXCEPT ![r] = x]
    BY <1>3 DEF Acquire, AcquireAtOnce, AcquireSleeps, AcquireWakes, SendUncounted,
                QuotaSpent, Sent, Goes, Ends
  <2> QED BY <1>1, <2>1, <2>2
<1>4. CASE Answered(r)
  <2>1. pc[r] # "auth" /\ UNCHANGED rp
    BY <1>4 DEF Answered, tokenVars
  <2>2. \E x \in {"done", "failed"} : pc' = [pc EXCEPT ![r] = x]
    BY <1>4 DEF Answered, Ends, Goes
  <2> QED BY <1>1, <2>1, <2>2
<1>5. CASE Rejected(r)
  <2>1. pc[r] # "auth" /\ UNCHANGED rp /\ Raises(r)
    BY <1>5 DEF Rejected, tokenVars
  <2> QED BY <1>1, <2>1, LeavesAttempt
<1>6. CASE Breaks(r) \/ TimesOut(r)
  <2>1. pc[r] # "auth" /\ UNCHANGED rp /\ (Again(r) \/ Raises(r))
    BY <1>6 DEF Breaks, TimesOut, NextTry
  <2> QED BY <1>1, <2>1, LeavesAttempt
<1>7. CASE Refused(r)
  <2>1. pc' = [pc EXCEPT ![r] = "auth"] /\ rp' = [rp EXCEPT ![r] = "lock"]
    BY <1>7 DEF Refused, Goes, AsksRefresh
  <2> QED BY <2>1
<1>8. CASE RefreshAnswers(r) \/ RefreshFails(r)
  <2>1. Again(r) \/ Raises(r)
    BY <1>8 DEF RefreshAnswers, RefreshFails, AfterRefresh
  <2>2. rp' = [rp EXCEPT ![r] = "none"]
    BY <1>8 DEF RefreshAnswers, RefreshFails, FindsRefreshed, Stores, GenerateFails, WriteFails
  <2> QED BY <2>1, <2>2, LeavesAttempt
<1>9. CASE RefreshGoesOn(r)
  <2>1. pc[r] = "auth" /\ UNCHANGED pc
    BY <1>9 DEF RefreshGoesOn, reqVars
  <2>2. UNCHANGED rp \/ \E x \in {"renew", "generate"} : rp' = [rp EXCEPT ![r] = x]
    BY <1>9 DEF RefreshGoesOn, TakesLock, Mints, RenewFails, WriteFails
  <2> QED BY <2>1, <2>2
<1> QED
  BY <1>2, <1>3, <1>4, <1>5, <1>6, <1>7, <1>8, <1>9 DEF Advance, Outcome, Refresh

LEMMA PlaceStep ==
  ASSUME PlaceInv, [Next]_vars
  PROVE  PlaceInv'
<1>1. ASSUME NEW r \in Reqs, Start(r) \/ Advance(r)  PROVE PlaceInv'
  BY <1>1, PlaceRequest
<1>2. ASSUME UNCHANGED <<pc, rp>>  PROVE PlaceInv'
  BY <1>2 DEF PlaceInv
<1>3. ASSUME NEW o \in Orders, LandsLate(o)  PROVE PlaceInv'
  BY <1>2, <1>3 DEF LandsLate, tokenVars
<1>4. CASE LoopStep
  <2>1. UNCHANGED pc
    BY <1>4 DEF LoopStep, reqVars
  <2>2. \/ UNCHANGED rp
        \/ \E x \in RefreshStates : rp' = [rp EXCEPT ![Loop] = x]
    BY <1>4 DEF LoopStep, LoopWakes, Mints, Stores, RenewFails, WriteFails, GenerateFails,
                RefreshStates
  <2> QED BY <2>1, <2>2, TokenAssumption DEF PlaceInv, Refreshers, RefreshStates
<1>5. CASE World
  BY <1>2, <1>5 DEF World, TokenAges, FeedDrops, FeedReconnects, reqVars
<1>6. CASE Windows \/ Rests \/ UNCHANGED vars
  BY <1>2, <1>6 DEF Windows, Rests, vars, tokenVars, reqVars
<1> QED BY <1>1, <1>3, <1>4, <1>5, <1>6 DEF Next

-----------------------------------------------------------------------------
(* The tokens.  Who calls the broker holds the lock or is the loop, an     *)
(* answer is under way only to one who calls, and unless two called at     *)
(* once the answer is newer than the token it will replace.                *)
TokenType ==
  /\ minted \in Tokens /\ accepted \subseteq 1..minted
  /\ token \in 1..minted /\ file \in 1..minted /\ header \in 1..minted
  /\ reply \in [Refreshers -> 0..minted]
  /\ lock \in Reqs \cup {Free}
  /\ raced \in BOOLEAN

LockInv ==
  /\ lock # Free => Calling(lock)
  /\ \A r \in Reqs : Calling(r) => lock = r
  /\ \A p \in Refreshers : reply[p] # 0 => Calling(p)
  /\ ~raced => lock = Free \/ ~Calling(Loop)

AnswersAreNewer == ~raced => \A p \in Refreshers : reply[p] # 0 => reply[p] > token

TokenCore == TokenType /\ LockInv /\ AnswersAreNewer /\ StoresAgree
TokenInv == PlaceInv /\ TokenCore

(* The steps that leave all of it as it is, but for tokens that expire. *)
TokenQuiet ==
  /\ UNCHANGED <<minted, token, file, header, rp, reply, lock, unsaved, raced>>
  /\ accepted' \subseteq accepted

(* A caller other than the loop is the holder of the lock; without a race  *)
(* there is one caller at most.                                            *)
LEMMA OneCaller ==
  ASSUME LockInv, ~raced, NEW p \in Refreshers, NEW q \in Refreshers,
         Calling(p), Calling(q)
  PROVE  p = q
<1>1. ASSUME NEW r \in Reqs, Calling(r)  PROVE lock = r /\ lock # Free /\ ~Calling(Loop)
  BY <1>1, TokenAssumption DEF LockInv, Refreshers
<1> QED BY <1>1 DEF Refreshers

(* All that a step of the gateway does to the tokens. *)
LEMMA TokenSteps ==
  ASSUME [Next]_vars
  PROVE  \/ \E r \in Reqs :
              \/ pc[r] = "flight" /\ AsksRefresh(r)
                 /\ UNCHANGED <<minted, accepted, token, file, header, reply, lock,
                                unsaved, raced>>
              \/ TakesLock(r) \/ FindsRefreshed(r)
         \/ LoopWakes
         \/ \E p \in Refreshers :
              \/ Mints(p) \/ Stores(p) \/ RenewFails(p) \/ WriteFails(p)
              \/ rp[p] = "generate" /\ GenerateFails(p)
         \/ TokenQuiet
<1>1. ASSUME UNCHANGED tokenVars  PROVE TokenQuiet
  BY <1>1 DEF tokenVars, TokenQuiet
<1>2. ASSUME NEW r \in Reqs, Start(r) \/ Acquire(r)  PROVE TokenQuiet
  BY <1>1, <1>2 DEF Start, Acquire, AcquireAtOnce, AcquireSleeps, AcquireWakes,
                    SendUncounted, QuotaSpent, Sent
<1>3. ASSUME NEW r \in Reqs, Answered(r) \/ Rejected(r) \/ Breaks(r) \/ TimesOut(r)
      PROVE  TokenQuiet
  BY <1>1, <1>3 DEF Answered, Rejected, Breaks, TimesOut, TokenQuiet
<1>4. ASSUME NEW r \in Reqs, Refused(r)
      PROVE  pc[r] = "flight" /\ AsksRefresh(r)
             /\ UNCHANGED <<minted, accepted, token, file, header, reply, lock, unsaved, raced>>
  BY <1>4 DEF Refused
<1>5. ASSUME NEW r \in Reqs, Refresh(r)
      PROVE  \/ TakesLock(r) \/ FindsRefreshed(r) \/ Mints(r) \/ Stores(r)
             \/ RenewFails(r) \/ WriteFails(r)
             \/ rp[r] = "generate" /\ GenerateFails(r)
  BY <1>5 DEF Refresh, RefreshAnswers, RefreshGoesOn, RefreshFails, GenerateFails
<1>6. ASSUME LoopStep
      PROVE  \/ LoopWakes
             \/ Mints(Loop) \/ Stores(Loop) \/ RenewFails(Loop) \/ WriteFails(Loop)
             \/ rp[Loop] = "generate" /\ GenerateFails(Loop)
  BY <1>6 DEF LoopStep, GenerateFails
<1>7. CASE World
  BY <1>7 DEF World, TokenAges, FeedDrops, FeedReconnects, TokenQuiet
<1>8. ASSUME NEW o \in Orders, LandsLate(o)  PROVE TokenQuiet
  BY <1>1, <1>8 DEF LandsLate
<1>9. CASE Windows \/ Rests \/ UNCHANGED vars
  BY <1>1, <1>9 DEF Windows, Rests, vars
<1>10. Reqs \subseteq Refreshers /\ Loop \in Refreshers
  BY DEF Refreshers
<1>11. CASE \E r \in Reqs : Start(r) \/ Advance(r)
  <2>1. PICK r \in Reqs : Start(r) \/ Advance(r)
    BY <1>11
  <2>2. CASE Start(r) \/ Acquire(r)
    BY <1>2, <2>2
  <2>3. CASE Outcome(r)
    BY <1>3, <1>4, <2>3 DEF Outcome
  <2>4. CASE Refresh(r)
    BY <1>5, <1>10, <2>4
  <2> QED BY <2>1, <2>2, <2>3, <2>4 DEF Advance
<1>12. CASE LoopStep
  BY <1>6, <1>10, <1>12
<1> QED BY <1>7, <1>8, <1>9, <1>11, <1>12 DEF Next

LEMMA QuietKeeps ==
  ASSUME TokenInv, TokenQuiet  PROVE TokenCore'
BY DEF TokenInv, TokenCore, TokenType, LockInv, AnswersAreNewer, StoresAgree, TokenQuiet, Calling

(* r waits for the lock, or leaves having found the token refreshed. *)
LEMMA WaitingKeeps ==
  ASSUME TokenInv, NEW r \in Reqs, NEW x \in {"none", "lock"},
         rp[r] \in {"none", "lock"}, rp' = [rp EXCEPT ![r] = x],
         header' = header \/ header' = token,
         UNCHANGED <<minted, accepted, token, file, reply, lock, unsaved, raced>>
  PROVE  TokenCore'
<1> USE DEF TokenInv, TokenCore
<1>1. \A p \in Refreshers : Calling(p)' <=> Calling(p)
  BY DEF PlaceInv, Refreshers, Calling
<1>2. TokenType'
  BY DEF TokenType
<1>3. LockInv'
  BY <1>1 DEF LockInv, Refreshers, TokenType
<1>4. AnswersAreNewer' /\ StoresAgree'
  BY DEF AnswersAreNewer, StoresAgree
<1> QED BY <1>2, <1>3, <1>4

LEMMA WakesKeeps ==
  ASSUME TokenInv, LoopWakes  PROVE TokenCore'
<1> USE DEF TokenInv, TokenCore
<1>1. /\ rp[Loop] = "none" /\ rp' = [rp EXCEPT ![Loop] = "renew"]
      /\ raced' = (raced \/ \E r \in Reqs : Calling(r))
      /\ UNCHANGED <<minted, accepted, token, file, header, reply, lock, unsaved>>
  BY DEF LoopWakes
<1>2. Loop \in Refreshers /\ Reqs \subseteq Refreshers /\ Loop \notin Reqs /\ lock # Loop
  BY TokenAssumption DEF TokenType, Refreshers
<1>3. \A p \in Refreshers \ {Loop} : Calling(p)' <=> Calling(p)
  BY <1>1 DEF PlaceInv, Calling
<1>4. ~Calling(Loop)
  BY <1>1 DEF Calling
<1>5. TokenType'
  BY <1>1 DEF TokenType
<1>6. LockInv'
  <2>1. (lock # Free => Calling(lock))'
    BY <1>1, <1>2, <1>3 DEF LockInv, TokenType
  <2>2. (\A r \in Reqs : Calling(r) => lock = r)'
    BY <1>1, <1>2, <1>3 DEF LockInv
  <2>3. (\A p \in Refreshers : reply[p] # 0 => Calling(p))'
    BY <1>1, <1>3, <1>4 DEF LockInv
  <2>4. (~raced => lock = Free \/ ~Calling(Loop))'
    BY <1>1 DEF LockInv, TokenType
  <2> QED BY <2>1, <2>2, <2>3, <2>4 DEF LockInv
<1>7. AnswersAreNewer' /\ StoresAgree'
  BY <1>1 DEF AnswersAreNewer, StoresAgree
<1> QED BY <1>5, <1>6, <1>7

LEMMA TakesKeeps ==
  ASSUME TokenInv, NEW r \in Reqs, TakesLock(r)  PROVE TokenCore'
<1> USE DEF TokenInv, TokenCore
<1>1. /\ rp[r] = "lock" /\ lock = Free /\ lock' = r
      /\ rp' = [rp EXCEPT ![r] = "renew"]
      /\ raced' = (raced \/ Calling(Loop))
      /\ UNCHANGED <<minted, accepted, token, file, header, reply, unsaved>>
  BY DEF TakesLock
<1>2. r \in Refreshers /\ r # Loop /\ Reqs \subseteq Refreshers /\ Loop \in Refreshers
  BY TokenAssumption DEF Refreshers
<1>3. Calling(r)' /\ \A p \in Refreshers \ {r} : Calling(p)' <=> Calling(p)
  BY <1>1, <1>2 DEF PlaceInv, Calling
<1>4. \A q \in Reqs : ~Calling(q)
  BY <1>1, TokenAssumption DEF LockInv, Refreshers
<1>5. TokenType'
  BY <1>1 DEF TokenType
<1>6. LockInv'
  <2>1. (lock # Free => Calling(lock))'
    BY <1>1, <1>3
  <2>2. (\A q \in Reqs : Calling(q) => lock = q)'
    BY <1>1, <1>2, <1>3, <1>4
  <2>3. (\A p \in Refreshers : reply[p] # 0 => Calling(p))'
    BY <1>1, <1>3 DEF LockInv
  <2>4. (~raced => lock = Free \/ ~Calling(Loop))'
    BY <1>1, <1>2, <1>3
  <2> QED BY <2>1, <2>2, <2>3, <2>4 DEF LockInv
<1>7. AnswersAreNewer' /\ StoresAgree'
  BY <1>1 DEF AnswersAreNewer, StoresAgree
<1> QED BY <1>5, <1>6, <1>7

LEMMA MintsKeeps ==
  ASSUME TokenInv, NEW p \in Refreshers, Mints(p)  PROVE TokenCore'
<1> USE DEF TokenInv, TokenCore
<1>1. /\ Calling(p) /\ minted < MaxTokens /\ minted' = minted + 1
      /\ reply' = [reply EXCEPT ![p] = minted + 1]
      /\ accepted' \in {accepted \cup {minted + 1}, {minted + 1}}
      /\ UNCHANGED <<token, file, header, rp, lock, unsaved, raced>>
  BY DEF Mints
<1>2. minted \in Nat /\ minted' \in Tokens /\ 1..minted \subseteq 1..minted'
      /\ 0..minted \subseteq 0..minted' /\ minted + 1 \in 1..minted'
  BY <1>1, TokenAssumption DEF TokenType, Tokens
<1>3. TokenType'
  BY <1>1, <1>2 DEF TokenType
<1>4. LockInv'
  BY <1>1 DEF LockInv, Calling, TokenType
<1>5. AnswersAreNewer' /\ StoresAgree'
  BY <1>1, <1>2 DEF AnswersAreNewer, StoresAgree, TokenType
<1> QED BY <1>3, <1>4, <1>5

(* What a call of the broker comes to, whether its answer was stored, was  *)
(* only kept in memory, or never came: the caller goes on to generate a    *)
(* token or leaves and gives back the lock.                                *)
LEMMA CallEnds ==
  ASSUME TokenInv, NEW p \in Refreshers, Calling(p), NEW x \in {"none", "generate"},
         reply' = [reply EXCEPT ![p] = 0],
         rp' = [rp EXCEPT ![p] = x],
         lock' = IF x = "none" THEN Released(p) ELSE lock,
         token' = token \/ (reply[p] # 0 /\ token' = reply[p]),
         file' = file \/ file' = token', header' = header \/ header' = token',
         UNCHANGED <<minted, accepted, raced>>
  PROVE  TokenType' /\ LockInv' /\ AnswersAreNewer'
<1> USE DEF TokenInv, TokenCore
<1>1. \A q \in Refreshers \ {p} : Calling(q)' <=> Calling(q)
  BY DEF PlaceInv, Calling
<1>2. TokenType'
  <2>1. token' \in 1..minted'
    BY DEF TokenType
  <2>2. reply' \in [Refreshers -> 0..minted'] /\ minted' \in Tokens
    BY DEF TokenType, Tokens
  <2>3. lock' \in Reqs \cup {Free}
    BY DEF TokenType, Released
  <2> QED BY <2>1, <2>2, <2>3 DEF TokenType
<1>3. LockInv'
  <2>0. Reqs \subseteq Refreshers /\ Loop \in Refreshers /\ Free \notin Refreshers
        /\ Loop \notin Reqs
    BY TokenAssumption DEF Refreshers
  <2>1. (lock # Free => Calling(lock))'
    <3>1. CASE x = "none"
      BY <1>1, <2>0, <3>1 DEF LockInv, Released, TokenType
    <3>2. CASE x = "generate"
      <4>1. Calling(p)'
        BY <3>2 DEF PlaceInv, Calling
      <4> QED BY <1>1, <2>0, <3>2, <4>1 DEF LockInv, TokenType
    <3> QED BY <3>1, <3>2
  <2>2. (\A r \in Reqs : Calling(r) => lock = r)'
    <3> SUFFICES ASSUME NEW r \in Reqs, Calling(r)'  PROVE lock' = r
      OBVIOUS
    <3>1. CASE r # p
      BY <1>1, <2>0, <3>1 DEF LockInv, Released
    <3>2. CASE r = p
      <4>1. x = "generate"
        BY <3>2 DEF PlaceInv, Calling
      <4> QED BY <3>2, <4>1 DEF LockInv
    <3> QED BY <3>1, <3>2
  <2>3. (\A q \in Refreshers : reply[q] # 0 => Calling(q))'
    BY <1>1 DEF LockInv, TokenType
  <2>4. (~raced => lock = Free \/ ~Calling(Loop))'
    <3>1. CASE Calling(Loop)
      BY <2>0, <3>1 DEF LockInv, Released
    <3>2. CASE ~Calling(Loop)
      BY <1>1, <2>0, <3>2
    <3> QED BY <3>1, <3>2
  <2> QED BY <2>1, <2>2, <2>3, <2>4 DEF LockInv
<1>4. AnswersAreNewer'
  <2> SUFFICES ASSUME ~raced, NEW q \in Refreshers, reply'[q] # 0
               PROVE  reply'[q] > token'
    BY DEF AnswersAreNewer
  <2>1. q # p /\ reply'[q] = reply[q]
    BY DEF TokenType
  <2>2. Calling(q)
    BY <2>1 DEF LockInv
  <2>3. q = p
    BY <2>2, OneCaller
  <2> QED BY <2>1, <2>3
<1> QED BY <1>2, <1>3, <1>4

LEMMA StoresKeeps ==
  ASSUME TokenInv, NEW p \in Refreshers, Stores(p)  PROVE TokenCore'
<1>1. Calling(p)
  BY DEF Stores, TokenInv, TokenCore, LockInv
<1>2. StoresAgree'
  BY DEF Stores, StoresAgree
<1> QED BY <1>1, <1>2, CallEnds DEF Stores, TokenCore

LEMMA RenewFailsKeeps ==
  ASSUME TokenInv, NEW p \in Refreshers, RenewFails(p)  PROVE TokenCore'
<1>1. Calling(p)
  BY DEF RenewFails, Calling
<1>2. StoresAgree'
  BY DEF RenewFails, StoresAgree, TokenInv, TokenCore
<1> QED BY <1>1, <1>2, CallEnds DEF RenewFails, TokenCore

LEMMA WriteFailsKeeps ==
  ASSUME TokenInv, NEW p \in Refreshers, WriteFails(p)  PROVE TokenCore'
<1>1. Calling(p)
  BY DEF WriteFails, TokenInv, TokenCore, LockInv
<1>2. StoresAgree'
  BY DEF WriteFails, StoresAgree
<1>3. CASE rp[p] = "renew"
  BY <1>1, <1>2, <1>3, CallEnds DEF WriteFails, TokenCore
<1>4. CASE rp[p] = "generate"
  BY <1>1, <1>2, <1>4, CallEnds DEF WriteFails, TokenCore
<1> QED BY <1>1, <1>3, <1>4 DEF Calling

LEMMA GenerateFailsKeeps ==
  ASSUME TokenInv, NEW p \in Refreshers, GenerateFails(p)  PROVE TokenCore'
<1>1. Calling(p)
  BY DEF GenerateFails, Calling
<1>2. StoresAgree'
  BY DEF GenerateFails, StoresAgree, TokenInv, TokenCore
<1> QED BY <1>1, <1>2, CallEnds DEF GenerateFails, TokenCore

LEMMA TokenInit == Init => TokenInv
<1> SUFFICES ASSUME Init  PROVE TokenCore
  BY PlaceInit DEF TokenInv
<1>1. \A p \in Refreshers : reply[p] = 0 /\ ~Calling(p)
  BY DEF Init, InitToken, Calling
<1>2. TokenType
  <2>1. /\ minted = 1 /\ accepted = {1} /\ token = 1 /\ file = 1 /\ header = 1
        /\ lock = Free /\ raced = FALSE /\ reply = [p \in Refreshers |-> 0]
    BY DEF Init, InitToken, BootToken
  <2>2. reply \in [Refreshers -> 0..minted] /\ minted \in Tokens
    BY <2>1, TokenAssumption DEF Tokens
  <2>3. accepted \subseteq 1..minted /\ {token, file, header} \subseteq 1..minted
    BY <2>1
  <2>4. lock \in Reqs \cup {Free} /\ raced \in BOOLEAN
    BY <2>1
  <2> QED BY <2>2, <2>3, <2>4 DEF TokenType
<1>3. LockInv
  BY <1>1, TokenAssumption DEF Init, InitToken, LockInv, Refreshers
<1> QED
  BY <1>1, <1>2, <1>3 DEF TokenCore, AnswersAreNewer, StoresAgree, Init, InitToken

LEMMA TokenStep ==
  ASSUME TokenInv, [Next]_vars
  PROVE  TokenInv'
<1>1. PlaceInv'
  BY PlaceStep DEF TokenInv
<1>2. ASSUME NEW r \in Reqs, pc[r] = "flight" /\ AsksRefresh(r),
             UNCHANGED <<minted, accepted, token, file, header, reply, lock, unsaved, raced>>
      PROVE  TokenCore'
  <2>1. rp[r] = "none" /\ rp' = [rp EXCEPT ![r] = "lock"]
    BY <1>2 DEF TokenInv, PlaceInv, AsksRefresh, Refreshers, RefreshStates
  <2> QED BY <1>2, <2>1, WaitingKeeps
<1>3. ASSUME NEW r \in Reqs, FindsRefreshed(r)  PROVE TokenCore'
  BY <1>3, WaitingKeeps DEF FindsRefreshed
<1> QED
  BY <1>1, <1>2, <1>3, TokenSteps, QuietKeeps, WakesKeeps, TakesKeeps, MintsKeeps,
     StoresKeeps, RenewFailsKeeps, WriteFailsKeeps, GenerateFailsKeeps DEF TokenInv

(* A step replaces the token by an older one only after a race. *)
LEMMA StepNeverOlder ==
  ASSUME TokenInv, [Next]_vars, token' < token
  PROVE  raced
<1> SUFFICES ASSUME ~raced  PROVE FALSE
  OBVIOUS
<1>1. ASSUME NEW p \in Refreshers, reply[p] # 0, token' = reply[p]  PROVE FALSE
  BY <1>1 DEF TokenInv, TokenCore, TokenType, AnswersAreNewer
<1>2. token' # token
  BY DEF TokenInv, TokenCore, TokenType
<1> QED
  BY <1>1, <1>2, TokenSteps DEF AsksRefresh, TakesLock, FindsRefreshed, LoopWakes, Mints,
     Stores, RenewFails, WriteFails, GenerateFails, TokenQuiet

(* The client, the manager and the file have the same token but for a file *)
(* that could not be written, and behind the lock no token is exchanged    *)
(* for an older one: token_manager.py, under every interleaving of the     *)
(* renewal loop with any number of refused requests.                       *)
THEOREM TokensAlwaysAgree == Spec => TokensAgree
<1>1. TokenInv /\ [Next]_vars => TokenInv'
  BY TokenStep
<1>2. TokenInv => StoresAgree
  BY DEF TokenInv, TokenCore
<1>3. TokenInv /\ [Next]_vars => [token' < token => raced]_tokenVars
  BY StepNeverOlder
<1> QED
  BY TokenInit, <1>1, <1>2, <1>3, PTL DEF Spec, TokensAgree, NeverOlderBehindLock

-----------------------------------------------------------------------------
(* The orders.  Until an attempt has been given up or answered the broker  *)
(* has nothing of an order: only then does the code look it up instead of  *)
(* sending it.                                                             *)
OrderType ==
  /\ phase \in [Reqs -> {"main", "query"}]
  /\ attempt \in [Reqs -> 0..MaxAttempts]
  /\ landed \in [Orders -> Nat] /\ late \subseteq Orders

UnsentIsUnknown ==
  \A o \in Orders : phase[o] = "main" /\ pc[o] \notin Final => landed[o] = 0 /\ o \notin late

OrderCore == OrderType /\ UnsentIsUnknown /\ OrderAtMostOnce /\ PlacedIsBooked
OrderInv == TokenInv /\ OrderCore

(* What OrderCore says of one order, in terms of its own values. *)
Sound(place, ph, n, l) ==
  /\ ph = "main" /\ place \notin Final => n = 0 /\ ~l
  /\ n + (IF l THEN 1 ELSE 0) <= 1
  /\ place = "done" => n = 1

LEMMA OrdersSound ==
  OrderCore <=> OrderType /\ \A o \in Orders : Sound(pc[o], phase[o], landed[o], o \in late)
BY DEF OrderCore, UnsentIsUnknown, OrderAtMostOnce, PlacedIsBooked, Sound

(* A step of one request: the other orders are as they were. *)
LEMMA OneRequest ==
  ASSUME OrderInv, NEW r \in Reqs, OrderType',
         NEW x, pc' = [pc EXCEPT ![r] = x],
         \A q \in Reqs \ {r} : phase'[q] = phase[q],
         \A o \in Orders \ {r} : landed'[o] = landed[o] /\ (o \in late' <=> o \in late),
         r \in Orders => Sound(x, phase'[r], landed'[r], r \in late')
  PROVE  OrderCore'
<1>1. pc \in [Reqs -> Places] /\ Orders \subseteq Reqs
  BY GatewayAssumption DEF OrderInv, TokenInv, PlaceInv
<1>2. ASSUME NEW o \in Orders
      PROVE  Sound(pc'[o], phase'[o], landed'[o], o \in late')
  <2>1. CASE o = r
    BY <1>1, <2>1
  <2>2. CASE o # r
    <3>1. /\ pc'[o] = pc[o] /\ phase'[o] = phase[o] /\ landed'[o] = landed[o]
          /\ (o \in late' <=> o \in late)
      BY <1>1, <2>2
    <3>2. Sound(pc[o], phase[o], landed[o], o \in late)
      BY OrdersSound DEF OrderInv
    <3> QED BY <3>1, <3>2 DEF Sound
  <2> QED BY <2>1, <2>2
<1>3. (OrderType /\ \A o \in Orders : Sound(pc[o], phase[o], landed[o], o \in late))'
  BY <1>2
<1> QED BY <1>3 DEF OrderCore, UnsentIsUnknown, OrderAtMostOnce, PlacedIsBooked, Sound

(* _request raises: what is left of the order is a query, or nothing. *)
LEMMA RaisesKeeps ==
  ASSUME OrderInv, NEW r \in Reqs, Raises(r),
         landed' \in [Orders -> Nat], late' \subseteq Orders,
         \A o \in Orders \ {r} : landed'[o] = landed[o] /\ (o \in late' <=> o \in late),
         r \in Orders => landed'[r] + (IF r \in late' THEN 1 ELSE 0) <= 1
  PROVE  OrderCore'
<1> USE DEF OrderInv, OrderCore
<1>1. 1 \in 0..MaxAttempts /\ 0 \in 0..MaxAttempts
  BY GatewayAssumption
<1>2. CASE r \in Orders /\ phase[r] = "main"
  <2>1. /\ pc' = [pc EXCEPT ![r] = "send"]
        /\ phase' = [phase EXCEPT ![r] = "query"] /\ attempt' = [attempt EXCEPT ![r] = 1]
    BY <1>2 DEF Raises, Goes
  <2>2. OrderType' /\ phase'[r] = "query" /\ \A q \in Reqs \ {r} : phase'[q] = phase[q]
    BY <1>1, <2>1 DEF OrderType
  <2>3. r \in Orders => Sound("send", phase'[r], landed'[r], r \in late')
    BY <2>2 DEF Sound
  <2> QED BY <2>1, <2>2, <2>3, OneRequest
<1>3. CASE ~(r \in Orders /\ phase[r] = "main")
  <2>1. /\ pc' = [pc EXCEPT ![r] = "failed"]
        /\ phase' = [phase EXCEPT ![r] = "main"] /\ attempt' = [attempt EXCEPT ![r] = 0]
    BY <1>3 DEF Raises, Ends, Goes
  <2>2. OrderType' /\ \A q \in Reqs \ {r} : phase'[q] = phase[q]
    BY <1>1, <2>1 DEF OrderType
  <2>3. r \in Orders => Sound("failed", phase'[r], landed'[r], r \in late')
    BY DEF Sound, Final
  <2> QED BY <2>1, <2>2, <2>3, OneRequest
<1> QED BY <1>2, <1>3

(* The next attempt: nothing has changed at the broker. *)
LEMMA AgainKeeps ==
  ASSUME OrderInv, NEW r \in Reqs, Again(r), attempt[r] < MaxAttempts,
         pc[r] \notin Final, UNCHANGED <<landed, late>>
  PROVE  OrderCore'
<1> USE DEF OrderInv, OrderCore
<1>1. PICK x \in {"send", "second"} : pc' = [pc EXCEPT ![r] = x]
  BY DEF Again, Goes, Acquires
<1>2. OrderType'
  BY GatewayAssumption DEF Again, OrderType
<1>3. r \in Orders => Sound(x, phase'[r], landed'[r], r \in late')
  <2> SUFFICES ASSUME r \in Orders  PROVE Sound(x, phase'[r], landed'[r], r \in late')
    OBVIOUS
  <2>1. Sound(pc[r], phase[r], landed[r], r \in late)
    BY OrdersSound
  <2>2. phase' = phase
    BY DEF Again
  <2> QED BY <2>1, <2>2 DEF Sound
<1> QED BY <1>1, <1>2, <1>3, OneRequest DEF Again

(* A step that moves a request on its way and changes nothing else of it. *)
LEMMA MovesKeeps ==
  ASSUME OrderInv, NEW r \in Reqs, NEW x \in Places \ {"done"},
         pc[r] \notin Final, pc' = [pc EXCEPT ![r] = x],
         OrderType', x = "failed" \/ phase' = phase,
         \A q \in Reqs \ {r} : phase'[q] = phase[q],
         UNCHANGED <<landed, late>>
  PROVE  OrderCore'
<1>1. r \in Orders => Sound(x, phase'[r], landed'[r], r \in late')
  BY OrdersSound DEF OrderInv, Sound, Final
<1> QED BY <1>1, OneRequest

LEMMA OrdersQuiet ==
  ASSUME OrderInv, UNCHANGED <<pc, phase, attempt, landed, late>>
  PROVE  OrderCore'
BY DEF OrderInv, OrderCore, OrderType, UnsentIsUnknown, OrderAtMostOnce, PlacedIsBooked

(* An order that raises after an attempt the broker may have carried out:  *)
(* it had nothing of it before.                                            *)
LEMMA AttemptLost ==
  ASSUME OrderInv, NEW r \in Reqs, pc[r] = "flight", Raises(r),
         \/ UNCHANGED <<landed, late>>
         \/ Booked(r) /\ UNCHANGED late
         \/ /\ r \in Orders /\ phase[r] = "main"
            /\ late' = late \cup {r} /\ UNCHANGED landed
  PROVE  OrderCore'
<1>1. OrderType /\ (r \in Orders => Sound(pc[r], phase[r], landed[r], r \in late))
  BY OrdersSound DEF OrderInv
<1>2. CASE UNCHANGED <<landed, late>>
  BY <1>1, <1>2, RaisesKeeps DEF OrderType, Sound
<1>3. CASE /\ r \in Orders /\ phase[r] = "main"
           /\ landed' = [landed EXCEPT ![r] = @ + 1] /\ UNCHANGED late
  <2>1. landed[r] = 0 /\ r \notin late
    BY <1>1, <1>3 DEF Sound, Final
  <2>2. landed' \in [Orders -> Nat] /\ landed'[r] = 1 /\ late' \subseteq Orders
    BY <1>1, <1>3, <2>1 DEF OrderType
  <2> QED BY <1>3, <2>1, <2>2, RaisesKeeps
<1>4. CASE /\ r \in Orders /\ phase[r] = "main"
           /\ late' = late \cup {r} /\ UNCHANGED landed
  <2>1. landed[r] = 0
    BY <1>1, <1>4 DEF Sound, Final
  <2>2. landed' \in [Orders -> Nat] /\ late' \subseteq Orders
    BY <1>1, <1>4 DEF OrderType
  <2> QED BY <1>4, <2>1, <2>2, RaisesKeeps
<1> QED BY <1>2, <1>3, <1>4 DEF Booked

(* The broker's answer ends the order: booked now, or known to be booked.  *)
LEMMA AnsweredKeeps ==
  ASSUME OrderInv, NEW r \in Reqs, Answered(r)
  PROVE  OrderCore'
<1> DEFINE how == IF phase[r] = "query" /\ landed[r] = 0 THEN "failed" ELSE "done"
<1>1. OrderType /\ (r \in Orders => Sound(pc[r], phase[r], landed[r], r \in late))
  BY OrdersSound DEF OrderInv
<1>2. /\ pc[r] = "flight" /\ pc' = [pc EXCEPT ![r] = how]
      /\ phase' = [phase EXCEPT ![r] = "main"] /\ attempt' = [attempt EXCEPT ![r] = 0]
      /\ Booked(r) /\ UNCHANGED late
  BY DEF Answered, Ends, Goes
<1>3. CASE r \in Orders /\ phase[r] = "main"
  <2>1. landed[r] = 0 /\ r \notin late /\ landed' = [landed EXCEPT ![r] = @ + 1]
    BY <1>1, <1>2, <1>3 DEF Sound, Final, Booked
  <2>2. landed'[r] = 1 /\ r \notin late' /\ how = "done"
    BY <1>1, <1>2, <1>3, <2>1 DEF OrderType
  <2>3. OrderType'
    <3>1. landed' \in [Orders -> Nat] /\ late' \subseteq Orders
      <4>1. landed \in [Orders -> Nat] /\ late \subseteq Orders /\ late' = late
        BY <1>1, <1>2 DEF OrderType
      <4> QED BY <1>3, <2>1, <4>1
    <3>2. phase' \in [Reqs -> {"main", "query"}] /\ attempt' \in [Reqs -> 0..MaxAttempts]
      BY <1>1, <1>2, GatewayAssumption DEF OrderType
    <3> QED BY <3>1, <3>2 DEF OrderType
  <2>4. Sound(how, phase'[r], landed'[r], r \in late')
    BY <2>2 DEF Sound, Final
  <2> QED BY <1>1, <1>2, <2>1, <2>3, <2>4, OneRequest DEF OrderType
<1>4. CASE ~(r \in Orders /\ phase[r] = "main")
  <2>1. UNCHANGED landed
    BY <1>2, <1>4 DEF Booked
  <2>2. OrderType'
    BY <1>1, <1>2, <2>1, GatewayAssumption DEF OrderType
  <2>3. ASSUME r \in Orders  PROVE Sound(how, phase'[r], landed'[r], r \in late')
    <3>1. phase[r] = "query" /\ landed[r] \in Nat
      BY <1>1, <1>4, <2>3 DEF OrderType
    <3>2. how = "done" => landed[r] = 1
      BY <1>1, <2>3, <3>1 DEF Sound
    <3> QED BY <1>1, <1>2, <2>1, <2>3, <3>1, <3>2 DEF Sound, Final
  <2> QED BY <1>1, <1>2, <2>1, <2>2, <2>3, OneRequest DEF OrderType
<1> QED BY <1>3, <1>4

LEMMA LandsLateKeeps ==
  ASSUME OrderInv, NEW o \in Orders, LandsLate(o)
  PROVE  OrderCore'
<1>1. OrderType /\ \A q \in Orders : Sound(pc[q], phase[q], landed[q], q \in late)
  BY OrdersSound DEF OrderInv
<1>2. /\ o \in late /\ late' = late \ {o} /\ landed' = [landed EXCEPT ![o] = @ + 1]
      /\ UNCHANGED <<pc, phase, attempt>>
  BY DEF LandsLate
<1>3. OrderType'
  BY <1>1, <1>2 DEF OrderType
<1>4. landed[o] = 0 /\ landed'[o] = 1
  BY <1>1, <1>2 DEF OrderType, Sound
<1>5. ASSUME NEW q \in Orders  PROVE Sound(pc[q], phase[q], landed'[q], q \in late')
  <2>1. CASE q = o
    BY <1>1, <1>2, <1>4, <2>1 DEF Sound
  <2>2. CASE q # o
    BY <1>1, <1>2, <2>2 DEF OrderType
  <2> QED BY <2>1, <2>2
<1> QED
  BY <1>2, <1>3, <1>5 DEF OrderCore, UnsentIsUnknown, OrderAtMostOnce, PlacedIsBooked, Sound

LEMMA RequestKeeps ==
  ASSUME OrderInv, NEW r \in Reqs, Start(r) \/ Advance(r)
  PROVE  OrderCore'
<1>1. OrderType /\ 0 \in 0..MaxAttempts /\ 1 \in 0..MaxAttempts
  BY GatewayAssumption DEF OrderInv, OrderCore
<1>2. ASSUME NEW x \in Places \ {"done"}, pc[r] \notin Final, pc' = [pc EXCEPT ![r] = x],
             (x = "failed" /\ phase' = [phase EXCEPT ![r] = "main"]) \/ phase' = phase,
             attempt' = attempt \/ \E n \in {0, 1} : attempt' = [attempt EXCEPT ![r] = n],
             UNCHANGED <<landed, late>>
      PROVE  OrderCore'
  <2>1. OrderType' /\ \A q \in Reqs \ {r} : phase'[q] = phase[q]
    BY <1>1, <1>2 DEF OrderType
  <2> QED BY <1>2, <2>1, MovesKeeps
<1>3. CASE Start(r)
  <2>1. PICK x \in {"send", "second"} : pc' = [pc EXCEPT ![r] = x]
    BY <1>3 DEF Start, Goes, Acquires
  <2>2. phase' = phase /\ attempt' = [attempt EXCEPT ![r] = 1] /\ pc[r] \notin Final
        /\ UNCHANGED <<landed, late>>
    BY <1>3 DEF Start, Final
  <2>3. x \in Places \ {"done"}
    BY DEF Places, Final
  <2> QED BY <1>2, <2>1, <2>2, <2>3
<1>4. CASE Acquire(r)
  <2>1. CASE QuotaSpent(r)
    <3>1. /\ pc' = [pc EXCEPT ![r] = "failed"] /\ phase' = [phase EXCEPT ![r] = "main"]
          /\ attempt' = [attempt EXCEPT ![r] = 0] /\ UNCHANGED <<landed, late>>
      BY <2>1 DEF QuotaSpent, Ends, Goes
    <3>2. pc[r] \notin Final /\ "failed" \in Places \ {"done"}
      BY <2>1 DEF QuotaSpent, Places, Final
    <3> QED BY <1>2, <3>1, <3>2
  <2>2. CASE AcquireSleeps(r)
    BY <1>2, <2>2 DEF AcquireSleeps, Goes, Places, Final
  <2>3. CASE AcquireAtOnce(r) \/ AcquireWakes(r) \/ SendUncounted(r)
    BY <1>2, <2>3 DEF AcquireAtOnce, AcquireWakes, SendUncounted, Sent, Goes, Places, Final
  <2> QED BY <1>4, <2>1, <2>2, <2>3 DEF Acquire
<1>5. CASE Answered(r)
  BY <1>5, AnsweredKeeps
<1>6. CASE Rejected(r)
  BY <1>6, AttemptLost DEF Rejected
<1>7. CASE Refused(r)
  BY <1>2, <1>7 DEF Refused, Goes, Places, Final
<1>8. CASE Breaks(r)
  <2>1. CASE Retry(r)
    <3>1. Again(r) /\ pc[r] = "flight" /\ attempt[r] < MaxAttempts
      BY <1>8, <2>1 DEF Breaks, NextTry, Retry
    <3>2. ~(r \in Orders /\ phase[r] = "main")
      BY <2>1 DEF Retry, Idempotent
    <3>3. UNCHANGED <<landed, late>>
      BY <1>8, <3>2 DEF Breaks, Booked
    <3> QED BY <3>1, <3>3, AgainKeeps DEF Final
  <2>2. CASE ~Retry(r)
    BY <1>8, <2>2, AttemptLost DEF Breaks, NextTry
  <2> QED BY <2>1, <2>2
<1>9. CASE TimesOut(r)
  BY <1>9, AttemptLost DEF TimesOut
<1>10. ASSUME (Again(r) /\ attempt[r] < MaxAttempts) \/ Raises(r), pc[r] = "auth",
              UNCHANGED <<landed, late>>
       PROVE  OrderCore'
  <2>1. CASE Again(r) /\ attempt[r] < MaxAttempts
    BY <1>10, <2>1, AgainKeeps DEF Final
  <2>2. CASE Raises(r)
    BY <1>1, <1>10, <2>2, RaisesKeeps, OrdersSound DEF OrderInv, OrderType, Sound
  <2> QED BY <1>10, <2>1, <2>2
<1>11. CASE Refresh(r)
  BY <1>10, <1>11, OrdersQuiet
     DEF Refresh, RefreshAnswers, RefreshGoesOn, RefreshFails, AfterRefresh, reqVars
<1> QED BY <1>3, <1>4, <1>5, <1>6, <1>7, <1>8, <1>9, <1>11 DEF Advance, Outcome

LEMMA OrderInit == Init => OrderInv
<1> SUFFICES ASSUME Init  PROVE OrderCore
  BY TokenInit DEF OrderInv
<1>1. OrderType
  BY GatewayAssumption DEF Init, OrderType
<1>2. \A o \in Orders : pc[o] = "idle" /\ landed[o] = 0 /\ o \notin late
  BY GatewayAssumption DEF Init
<1> QED BY <1>1, <1>2 DEF OrderCore, UnsentIsUnknown, OrderAtMostOnce, PlacedIsBooked

LEMMA OrderStep ==
  ASSUME OrderInv, [Next]_vars
  PROVE  OrderInv'
<1>1. TokenInv'
  BY TokenStep DEF OrderInv
<1>2. ASSUME UNCHANGED reqVars  PROVE OrderCore'
  BY <1>2, OrdersQuiet DEF reqVars
<1>3. ASSUME NEW r \in Reqs, Start(r) \/ Advance(r)  PROVE OrderCore'
  BY <1>3, RequestKeeps
<1>4. ASSUME NEW o \in Orders, LandsLate(o)  PROVE OrderCore'
  BY <1>4, LandsLateKeeps
<1>5. CASE LoopStep \/ World \/ Windows
  BY <1>1, <1>2, <1>5 DEF OrderInv, LoopStep, World, Windows
<1>6. CASE Rests \/ UNCHANGED vars
  BY <1>1, <1>2, <1>6 DEF OrderInv, Rests, vars
<1> QED BY <1>1, <1>3, <1>4, <1>5, <1>6 DEF OrderInv, Next

(* However often it is retried, refreshed, timed out or looked up, an      *)
(* order is booked by the broker at most once, and one reported as placed  *)
(* is booked: _request and place_order for any number of orders, attempts  *)
(* and tokens.                                                             *)
THEOREM OrdersAlwaysOnce == Spec => []OrdersOnceAndBooked
<1>1. OrderInv /\ [Next]_vars => OrderInv'
  BY OrderStep
<1>2. RateInv /\ OrderInv => OrdersOnceAndBooked
  <2> SUFFICES ASSUME RateInv, OrderInv  PROVE GatewayTypeOK
    BY DEF OrderInv, OrderCore, OrdersOnceAndBooked
  <2> QED
    BY DEF RateInv, OrderInv, OrderCore, OrderType, TokenInv, TokenCore, TokenType, LockInv,
           PlaceInv, Places, GatewayTypeOK
<1>3. RateInv /\ [Next]_vars => RateInv'
  BY RateStep
<1> QED BY OrderInit, RateInit, <1>1, <1>2, <1>3, PTL DEF Spec
=============================================================================
