------------------------------ MODULE JobsProofs ------------------------------
(***************************************************************************)
(* Theorems of OfflineJobs and of the modules it follows, for every value  *)
(* of their constants: the weekly expiry of a day, the usage report, the   *)
(* checkpoint of the backfill, the paper ledger and the option history.    *)
(***************************************************************************)
EXTENDS OfflineJobs, FiniteSetTheorems, FunctionTheorems, TLAPS

(* The next day of a given weekday is at most six days ahead, and no day   *)
(* before it has that weekday.                                             *)
LEMMA OnOrAfterFacts ==
  ASSUME NEW day \in Int, NEW wd \in 0..6
  PROVE  /\ OnOrAfter(day, wd) \in Int
         /\ day <= OnOrAfter(day, wd) /\ OnOrAfter(day, wd) <= day + 6
         /\ Weekday(OnOrAfter(day, wd)) = wd
         /\ \A e \in Int : day <= e /\ e < OnOrAfter(day, wd) => Weekday(e) # wd
BY DEF OnOrAfter, Weekday

LEMMA RuleIsWeekday ==
  ASSUME NEW day \in Int
  PROVE  WeekdayRule(day) \in {1, 3} /\ WeekdayRule(day) \in 0..6
BY ExpiryAssumption DEF WeekdayRule

(* The expiry attached to a day lies on or after it, falls on the weekday  *)
(* in force on its own date, and no expiry of the series comes before it:  *)
(* a bar in the week of the cutover gets neither a Thursday that no longer *)
(* exists nor the Tuesday after next.                                      *)
THEOREM NextWeeklyIsFirst ==
  ASSUME NEW day \in Int
  PROVE  /\ NextWeekly(day) \in Int /\ day <= NextWeekly(day)
         /\ IsWeekly(NextWeekly(day))
         /\ \A e \in Int : day <= e /\ e < NextWeekly(day) => ~IsWeekly(e)
<1> DEFINE first  == OnOrAfter(day, WeekdayRule(day))
           second == OnOrAfter(day, WeekdayRule(first))
<1>1. /\ first \in Int /\ day <= first /\ first <= day + 6
      /\ Weekday(first) = WeekdayRule(day)
      /\ \A e \in Int : day <= e /\ e < first => Weekday(e) # WeekdayRule(day)
  BY RuleIsWeekday, OnOrAfterFacts
<1>2. CASE WeekdayRule(first) = WeekdayRule(day)
  <2>1. NextWeekly(day) = first
    BY <1>2 DEF NextWeekly
  <2>2. ASSUME NEW e \in Int, day <= e, e < first  PROVE WeekdayRule(e) = WeekdayRule(day)
    BY <1>1, <1>2, <2>2, ExpiryAssumption DEF WeekdayRule
  <2> QED
    BY <1>1, <1>2, <2>1, <2>2 DEF IsWeekly
<1>3. CASE WeekdayRule(first) # WeekdayRule(day)
  <2>1. day < Cutover /\ Cutover <= first /\ WeekdayRule(day) = 3 /\ WeekdayRule(first) = 1
    BY <1>1, <1>3, ExpiryAssumption DEF WeekdayRule
  <2>2. Cutover \in Int /\ Cutover % 7 = 0 /\ first % 7 = 3
    BY <1>1, <2>1, ExpiryAssumption DEF Weekday
  <2>3. first = Cutover + 3
    BY <1>1, <2>1, <2>2
  <2>4. day >= Cutover - 3
    BY <1>1, <2>1, <2>2, <2>3 DEF Weekday
  <2>5. /\ second \in Int /\ day <= second /\ second <= day + 6
        /\ Weekday(second) = 1
        /\ \A e \in Int : day <= e /\ e < second => Weekday(e) # 1
    BY <1>1, <2>1, OnOrAfterFacts
  <2>6. second = Cutover + 1
    BY <2>1, <2>2, <2>4, <2>5 DEF Weekday
  <2>7. WeekdayRule(second) = 1
    BY <2>6, <2>2, ExpiryAssumption DEF WeekdayRule
  <2>8. NextWeekly(day) = second
    BY <1>3, <2>1, <2>7 DEF NextWeekly
  <2>9. ASSUME NEW e \in Int, day <= e, e < second  PROVE ~IsWeekly(e)
    <3>1. CASE e < Cutover
      BY <2>2, <2>4, <2>9, <3>1, ExpiryAssumption DEF IsWeekly, WeekdayRule, Weekday
    <3>2. CASE Cutover <= e
      BY <2>2, <2>5, <2>9, <3>2, ExpiryAssumption DEF IsWeekly, WeekdayRule
    <3> QED
      BY <2>2, <3>1, <3>2
  <2> QED
    BY <2>5, <2>7, <2>8, <2>9 DEF IsWeekly
<1> QED
  BY <1>2, <1>3

-----------------------------------------------------------------------------
(* The usage report.  Exact says what the rows add up to (u) when r was    *)
(* the last counter reported: all of it before the counter restarts, and   *)
(* from then on at most the first day's calls more than it.  A flush under *)
(* way carries the promise from one counter to the next, whichever day its *)
(* counter is from.                                                        *)
Exact(u, r) ==
  \/ u = r /\ r <= made[1]
  \/ counted = 2 /\ r <= made[2] /\ u <= made[1] + r

Used == usage[1] + usage[2]

UsageTypes ==
  /\ today \in 1..2 /\ counted \in 1..2 /\ counted <= today
  /\ made \in [1..2 -> Nat] /\ calls = made[counted]
  /\ counted = 1 => made[2] = 0
  /\ usage \in [1..2 -> Nat] /\ reported \in Nat /\ torn \in BOOLEAN
  /\ flush \in [at : {"none", "write", "written"}, seen : Nat, delta : Nat, row : 1..2]

FlushPromise ==
  /\ flush.at \in {"none", "write"} => Exact(Used, reported)
  /\ flush.at = "write" => Exact(Used + flush.delta, flush.seen)
  /\ flush.at = "written" => Exact(Used, flush.seen)

FirstDayOnly == today = 1 => usage[2] = 0 /\ flush.row = 1

UsageInv == UsageTypes /\ (~torn => FlushPromise /\ FirstDayOnly)

LEMMA UsageInit == InitUsage => UsageInv
<1> SUFFICES ASSUME InitUsage  PROVE UsageInv
  OBVIOUS
<1>1. UsageTypes
  <2>1. flush \in [at : {"none", "write", "written"}, seen : Nat, delta : Nat, row : 1..2]
    BY DEF InitUsage, NoFlush
  <2>2. made \in [1..2 -> Nat] /\ made[1] = 0 /\ made[2] = 0 /\ usage \in [1..2 -> Nat]
    BY DEF InitUsage
  <2>3. torn \in BOOLEAN
    BY DEF InitUsage
  <2> QED BY <2>1, <2>2, <2>3 DEF InitUsage, UsageTypes
<1>2. FlushPromise /\ FirstDayOnly
  BY DEF InitUsage, FlushPromise, FirstDayOnly, Exact, Used, NoFlush
<1> QED BY <1>1, <1>2 DEF UsageInv

LEMMA UsageTypesStep ==
  ASSUME UsageTypes, UsageNext
  PROVE  UsageTypes'
<1> USE DEF UsageTypes
<1>1. CASE Call
  BY <1>1 DEF Call
<1>2. CASE Midnight
  BY <1>2 DEF Midnight
<1>3. CASE FlushReads
  BY <1>3 DEF FlushReads, clientVars, NoFlush, Delta
<1>4. CASE FlushWrites
  BY <1>4 DEF FlushWrites, clientVars
<1>5. CASE FlushFails
  BY <1>5 DEF FlushFails, clientVars, NoFlush, AfterFailure
<1>6. CASE FlushEnds
  BY <1>6 DEF FlushEnds, clientVars, NoFlush
<1>7. CASE FlushCancelled
  BY <1>7 DEF FlushCancelled, clientVars, NoFlush
<1> QED BY <1>1, <1>2, <1>3, <1>4, <1>5, <1>6, <1>7 DEF UsageNext

LEMMA UsageStep ==
  ASSUME UsageInv, UsageNext
  PROVE  UsageInv'
<1>1. UsageTypes /\ UsageTypes'
  BY UsageTypesStep DEF UsageInv
<1> SUFFICES ASSUME ~torn'  PROVE FlushPromise' /\ FirstDayOnly'
  BY <1>1 DEF UsageInv
<1>2. ~torn
  BY DEF UsageNext, Call, Midnight, FlushReads, FlushWrites, FlushFails, FlushEnds,
     FlushCancelled
<1>3. FlushPromise /\ FirstDayOnly
  BY <1>2 DEF UsageInv
<1>4. /\ made \in [1..2 -> Nat] /\ usage \in [1..2 -> Nat] /\ reported \in Nat
      /\ flush.seen \in Nat /\ flush.delta \in Nat /\ flush.row \in 1..2
      /\ Used \in Nat
  BY <1>1 DEF UsageTypes, Used
<1>5. CASE Call
  <2>1. UNCHANGED <<today, reported, usage, flush>> /\ Used' = Used
    BY <1>5 DEF Call, Used
  <2>2. \A u, r \in Nat : Exact(u, r) => Exact(u, r)'
    BY <1>1, <1>5 DEF Call, Exact, UsageTypes
  <2>3. FlushPromise'
    BY <1>3, <1>4, <2>1, <2>2 DEF FlushPromise
  <2> QED BY <1>3, <2>1, <2>3 DEF FirstDayOnly
<1>6. CASE Midnight
  BY <1>3, <1>6 DEF Midnight, FlushPromise, FirstDayOnly, Exact, Used
<1>7. CASE FlushReads
  <2>1. UNCHANGED <<today, counted, calls, made, reported, usage>>
    BY <1>7 DEF FlushReads, clientVars
  <2>2. Exact(Used, reported) /\ flush.at = "none"
    BY <1>3, <1>7 DEF FlushReads, FlushPromise
  <2>3. CASE Delta <= 0
    BY <1>3, <1>7, <2>1, <2>2, <2>3 DEF FlushReads, FlushPromise, FirstDayOnly, Exact, Used, NoFlush
  <2>4. CASE ~(Delta <= 0)
    <3>1. flush' = [at |-> "write", seen |-> calls, delta |-> Delta, row |-> today]
      BY <1>7, <2>4 DEF FlushReads
    <3>2. Exact(Used + Delta, calls)
      BY <1>1, <1>4, <2>2, <2>4 DEF Exact, Delta, UsageTypes
    <3> QED BY <1>3, <2>1, <2>2, <3>1, <3>2 DEF FlushPromise, FirstDayOnly, Exact, Used
  <2> QED BY <2>3, <2>4
<1>8. CASE FlushWrites
  <2>1. /\ UNCHANGED <<today, counted, made>> /\ Used' = Used + flush.delta
        /\ flush.at = "write" /\ flush'.at = "written"
        /\ flush'.seen = flush.seen /\ flush'.row = flush.row
        /\ today = 1 => usage'[2] = usage[2]
    BY <1>1, <1>3, <1>4, <1>8 DEF FlushWrites, clientVars, Used, UsageTypes, FirstDayOnly
  <2> QED BY <1>3, <2>1 DEF FlushPromise, FirstDayOnly, Exact
<1>9. CASE FlushFails
  BY <1>3, <1>9 DEF FlushFails, clientVars, FlushPromise, FirstDayOnly, Exact, Used, NoFlush,
     AfterFailure
<1>10. CASE FlushEnds
  BY <1>3, <1>10 DEF FlushEnds, clientVars, FlushPromise, FirstDayOnly, Exact, Used, NoFlush
<1>11. CASE FlushCancelled
  BY <1>11 DEF FlushCancelled
<1> QED BY <1>5, <1>6, <1>7, <1>8, <1>9, <1>10, <1>11 DEF UsageNext

LEMMA UsageImplies == UsageInv => ReportIsExact
<1> SUFFICES ASSUME UsageInv, ~torn
             PROVE  /\ today = 1 /\ flush.at = "none" => usage[1] = reported
                    /\ usage[1] + usage[2] <= made[1] + made[2]
  BY DEF ReportIsExact
<1>1. /\ UsageTypes /\ FlushPromise /\ FirstDayOnly
      /\ made[1] \in Nat /\ made[2] \in Nat /\ usage[1] \in Nat /\ reported \in Nat
      /\ flush.seen \in Nat
  BY DEF UsageInv, UsageTypes
<1> QED BY <1>1 DEF UsageTypes, FlushPromise, FirstDayOnly, Exact, Used

(* api_usage.py: until a flush is cancelled in its middle, the first day's *)
(* row is what was reported and no call is reported twice, for any number  *)
(* of calls, flushes and failed writes, and however midnight falls.        *)
THEOREM ReportAlwaysExact == Spec => []ReportIsExact
<1>1. Init => UsageInv
  BY UsageInit DEF Init
<1>2. UsageInv /\ [Next]_vars => UsageInv'
  <2> SUFFICES ASSUME UsageInv, [Next]_vars  PROVE UsageInv'
    OBVIOUS
  <2>1. CASE UsageNext
    BY <2>1, UsageStep
  <2>2. CASE UNCHANGED usageVars
    BY <2>2 DEF usageVars, clientVars, UsageInv, UsageTypes, FlushPromise, FirstDayOnly, Exact, Used
  <2> QED BY <2>1, <2>2 DEF Next, vars
<1> QED BY <1>1, <1>2, UsageImplies, PTL DEF Spec

-----------------------------------------------------------------------------
(* Least and greatest elements, as the community modules choose them. *)
LEMMA MinOfTwo ==
  ASSUME NEW a \in Int, NEW b \in Int
  PROVE  Min({a, b}) = IF a <= b THEN a ELSE b
<1> DEFINE m == IF a <= b THEN a ELSE b
<1>1. m \in {a, b} /\ \A y \in {a, b} : m <= y
  OBVIOUS
<1>2. \A x \in {a, b} : (\A y \in {a, b} : x <= y) => x = m
  OBVIOUS
<1>3. Min({a, b}) \in {a, b} /\ \A y \in {a, b} : Min({a, b}) <= y
  BY <1>1 DEF Min
<1> QED BY <1>2, <1>3

LEMMA MaxExists ==
  ASSUME NEW S \in SUBSET Int, IsFiniteSet(S), S # {}
  PROVE  Max(S) \in S /\ \A y \in S : Max(S) >= y
<1> DEFINE Top(s) == \E x \in s : \A y \in s : x >= y
           Bad == {s \in SUBSET S : s # {} /\ ~Top(s)}
<1>1. Bad = {}
  <2> SUFFICES ASSUME Bad # {}  PROVE FALSE
    OBVIOUS
  <2>1. IsWellFoundedOn(StrictSubsetOrdering(S), SUBSET S)
    BY FS_StrictSubsetOrderingWellFounded, FS_FiniteSubsetsOfFinite
  <2>2. PICK s \in Bad : \A r \in Bad : <<r, s>> \notin StrictSubsetOrdering(S)
    <3>1. Bad \subseteq SUBSET S
      OBVIOUS
    <3> HIDE DEF Bad
    <3> QED BY <2>1, <3>1, WFMin
  <2>3. PICK x \in s : TRUE
    BY <2>2
  <2>4. s \ {x} \notin Bad
    BY <2>2, <2>3 DEF StrictSubsetOrdering
  <2>5. CASE s \ {x} = {}
    BY <2>2, <2>3, <2>5
  <2>6. CASE s \ {x} # {}
    <3>1. PICK m \in s \ {x} : \A y \in s \ {x} : m >= y
      BY <2>2, <2>4, <2>6
    <3>2. m \in Int /\ x \in Int /\ \A y \in s : y \in Int
      BY <2>2, <2>3
    <3>3. Top(s)
      <4>1. CASE x >= m
        BY <3>1, <3>2, <4>1
      <4>2. CASE m >= x
        BY <3>1, <3>2, <4>2
      <4> QED BY <3>2, <4>1, <4>2
    <3> QED BY <2>2, <3>3
  <2> QED BY <2>5, <2>6
<1>2. Top(S)
  BY <1>1
<1> QED BY <1>2 DEF Max

-----------------------------------------------------------------------------
(* The backfill.  A security is known if all that the runs fetch of it was *)
(* fetched, or its batch was cut; as long as the runs were alike, what a   *)
(* process has left behind it is known, and before a security with bars in *)
(* their list nothing is unknown but the batch under way.  That is why a   *)
(* start that seeds itself from the bars passes over no security that no   *)
(* crash has cut.                                                          *)
KnownOf(i) == Settled(args, i) \/ i \in interrupted

Where == {"idle", "fetch", "wait", "done"}
What == {"none", "bars", "nothing"}

WorkTypes ==
  /\ at \in [Securities -> Where] /\ part \in [Securities -> Parts]
  /\ tries \in [Securities -> 0..MaxTries]
  /\ stored \in [Securities -> [Parts -> What]]

TokenTypes ==
  /\ held \in 0..MaxTokens /\ good \in 0..MaxTokens
  /\ file \in [gen : 0..MaxTokens, live : BOOLEAN]

RunTypes ==
  /\ proc \in {"none", "between", "batch"} /\ force \in BOOLEAN
  /\ args \in Arguments /\ mixed \in BOOLEAN
  /\ ckpt \in [id : 0..Ids, place : Nat] /\ runs \in 0..MaxRuns /\ start \in Nat \ {0} /\ began \in Nat \ {0}
  /\ proc = "batch" => start <= Len(args.list)

(* A security of the batch is settled up to the part it is at; no other is *)
(* at work.                                                                *)
Fetched ==
  proc = "batch" => \A i \in Securities :
    /\ i \notin Batch => at[i] = "idle"
    /\ part[i] <= LastPart(args)
    /\ \A p \in Parts : FirstPart(args) <= p /\ p < part[i] => stored[i][p] # "none"
    /\ at[i] = "done" => Settled(args, i)

Behind ==
  proc # "none" => \A k \in DOMAIN args.list : k < start =>
    KnownOf(args.list[k]) /\ (~force => Settled(args, args.list[k]) \/ args.list[k] \in passed)

NoGap ==
  \A j \in DOMAIN args.list : (\E p \in Parts : stored[args.list[j]][p] # "none") =>
    \A k \in 1..j : KnownOf(args.list[k]) \/ (proc = "batch" /\ args.list[k] \in Batch)

FileBehind == proc # "none" /\ ~force => Mark(args) < start

FileFits == ckpt.place <= Len(args.list)

Alike == FileFits /\ Behind /\ NoGap /\ FileBehind /\ CheckpointCovers /\ PassedWasInterrupted

Progress == Fetched /\ RunCovers /\ (~mixed => Alike)

BackfillInv == RunTypes /\ WorkTypes /\ TokenTypes /\ Progress

LEMMA BackfillConstants ==
  /\ Ids \in Nat /\ Ids >= 1 /\ Chunks \in Nat /\ Chunks >= 1
  /\ Concurrency \in Nat /\ Concurrency >= 1 /\ MaxTokens \in Nat /\ MaxTokens >= 1
  /\ MaxRuns \in Nat /\ MaxTries \in Nat
BY BackfillAssumption

LEMMA PartFacts ==
  ASSUME NEW a \in Arguments
  PROVE  /\ a.from \in Parts /\ Chunks \in Parts /\ Daily \in Parts
         /\ FirstPart(a) \in Parts /\ LastPart(a) \in Parts /\ FirstPart(a) <= LastPart(a)
         /\ \A p \in Parts : p \in Nat /\ (p < LastPart(a) => p + 1 \in Parts)
<1>1. a.from \in 1..Chunks /\ a.ask \in {"minutes", "daily", "all"}
  BY ArgumentsAssumption
<1>2. a.ask = "minutes" => FirstPart(a) = a.from /\ LastPart(a) = Chunks
  BY DEF FirstPart, LastPart
<1>3. a.ask # "minutes" => FirstPart(a) \in {a.from, Daily} /\ LastPart(a) = Daily
  BY DEF FirstPart, LastPart
<1> QED BY <1>1, <1>2, <1>3, BackfillConstants DEF Parts, Daily

(* A list of securities has no one twice.                                  *)
LEMMA ListFacts ==
  ASSUME NEW a \in Arguments
  PROVE  /\ a.list \in Seq(Securities) /\ Len(a.list) \in Nat
         /\ DOMAIN a.list = 1..Len(a.list)
         /\ \A k \in DOMAIN a.list : k \in Nat /\ k >= 1 /\ a.list[k] \in Securities
         /\ \A k, m \in DOMAIN a.list : a.list[k] = a.list[m] => k = m
<1>1. a.list \in Seq(Securities) /\ \A k, m \in DOMAIN a.list : a.list[k] = a.list[m] => k = m
  BY ArgumentsAssumption
<1> QED BY <1>1

(* The greatest of places in a list, 0 if there are none.                  *)
LEMMA GreatestPlace ==
  ASSUME NEW n \in Nat, NEW S \in SUBSET (1..n)
  PROVE  /\ Max({0} \cup S) \in 0..n /\ (Max({0} \cup S) # 0 => Max({0} \cup S) \in S)
         /\ \A k \in S : Max({0} \cup S) >= k
<1>1. IsFiniteSet(1..n)
  BY FS_Interval
<1>2. IsFiniteSet(S)
  BY <1>1, FS_Subset
<1>3. IsFiniteSet(S \cup {0})
  BY <1>2, FS_AddElement
<1> DEFINE T == {0} \cup S
<1>4. T = S \cup {0} /\ T \in SUBSET Int /\ T # {}
  OBVIOUS
<1>5. IsFiniteSet(T)
  BY <1>3, <1>4
<1> HIDE DEF T
<1>6. Max(T) \in T /\ \A y \in T : Max(T) >= y
  BY <1>4, <1>5, MaxExists
<1> DEFINE m == Max(T)
<1>7. m \in T /\ \A y \in T : m >= y
  BY <1>6
<1> HIDE DEF m
<1>8. m \in 0..n /\ (m # 0 => m \in S) /\ \A k \in S : m >= k
  BY <1>7 DEF T
<1> QED BY <1>8 DEF m, T

(* The checkpoint's place is the one place where its security stands.      *)
LEMMA MarkFacts ==
  ASSUME NEW a \in Arguments
  PROVE  /\ Mark(a) \in 0..Len(a.list)
         /\ Mark(a) # 0 => a.list[Mark(a)] = ckpt.id
         /\ \A k \in DOMAIN a.list : ckpt.id = a.list[k] => Mark(a) = k
<1> DEFINE S == {k \in DOMAIN a.list : a.list[k] = ckpt.id}
           m == Max({0} \cup S)
<1>1. Mark(a) = m
  BY DEF Mark
<1>2. S \in SUBSET (1..Len(a.list)) /\ Len(a.list) \in Nat
  BY ListFacts
<1> HIDE DEF S
<1>3. m \in 0..Len(a.list) /\ (m # 0 => m \in S) /\ \A k \in S : m >= k
  BY <1>2, GreatestPlace
<1> HIDE DEF m
<1>4. ASSUME NEW k \in DOMAIN a.list, ckpt.id = a.list[k]  PROVE m = k
  <2>1. k \in S /\ k \in Nat /\ k >= 1
    BY <1>4, ListFacts DEF S
  <2>2. m \in S
    BY <1>2, <1>3, <2>1
  <2> QED BY <1>4, <2>2, ListFacts DEF S
<1> QED BY <1>1, <1>3, <1>4 DEF S

(* A seeded start: just after the last security that is loaded.            *)
LEMMA SeedFacts ==
  ASSUME NEW a \in Arguments
  PROVE  /\ Seed(a) \in 1..(Len(a.list) + 1)
         /\ Seed(a) > 1 => Seed(a) - 1 \in Loaded(a)
<1> DEFINE S == Loaded(a)
           m == Max({0} \cup S)
<1>1. S \cup {0} = {0} \cup S
  OBVIOUS
<1>2. Seed(a) = 1 + m
  BY <1>1 DEF Seed
<1>3. S \in SUBSET (1..Len(a.list)) /\ Len(a.list) \in Nat
  BY ListFacts DEF Loaded
<1> HIDE DEF S
<1>4. m \in 0..Len(a.list) /\ (m # 0 => m \in S)
  BY <1>3, GreatestPlace
<1> HIDE DEF m
<1>5. Seed(a) \in 1..(Len(a.list) + 1) /\ Seed(a) - 1 = m /\ (Seed(a) > 1 => m # 0)
  BY <1>2, <1>3, <1>4
<1> QED BY <1>4, <1>5 DEF S

(* What a start needs of the file and of the bars.                         *)
LEMMA StartFacts ==
  ASSUME RunTypes, NEW a \in Arguments, NEW f \in BOOLEAN, NEW seeded \in BOOLEAN,
         StartBackfill(a, f, seeded)
  PROVE  /\ start' \in 1..(Len(a.list) + 1) /\ began' = start'
         /\ passed' \subseteq passed \cup {i \in {a.list[k] : k \in 1..(start' - 1)} : ~Settled(a, i)}
         /\ passed \subseteq passed'
<1>1. Mark(a) \in 0..Len(a.list) /\ Seed(a) \in 1..(Len(a.list) + 1) /\ Len(a.list) \in Nat
  BY MarkFacts, SeedFacts, ListFacts
<1>2. start' \in {1, Mark(a) + 1, Seed(a)} /\ began' = start'
  BY DEF StartBackfill, Resumed
<1>3. passed' \in {passed, passed \cup {i \in {a.list[k] : k \in 1..(start' - 1)} : ~Settled(a, i)}}
  BY DEF StartBackfill
<1> QED BY <1>1, <1>2, <1>3

LEMMA BackfillInit == InitBackfill => BackfillInv
<1> SUFFICES ASSUME InitBackfill  PROVE BackfillInv
  OBVIOUS
<1> USE BackfillConstants
<1>0. args \in Arguments
  BY DEF InitBackfill
<1>1. RunTypes
  <2>1. /\ proc \in {"none", "between", "batch"} /\ force \in BOOLEAN /\ mixed \in BOOLEAN
        /\ proc # "batch"
    BY DEF InitBackfill
  <2> QED BY <1>0, <2>1 DEF InitBackfill, NoFile, RunTypes
<1>2. WorkTypes
  BY DEF InitBackfill, WorkTypes, Where, What, Parts, Daily
<1>3. TokenTypes
  BY DEF InitBackfill, TokenTypes
<1>4. Progress
  <2>0. FileFits
    BY <1>0, ListFacts DEF InitBackfill, NoFile, FileFits
  <2>1. Fetched /\ RunCovers /\ Behind /\ FileBehind /\ PassedWasInterrupted
    BY DEF InitBackfill, Fetched, RunCovers, Behind, FileBehind, PassedWasInterrupted
  <2>2. NoGap
    BY <1>0, ListFacts DEF InitBackfill, NoGap
  <2>3. CheckpointCovers
    <3>1. ckpt.id = 0
      BY DEF InitBackfill, NoFile
    <3>2. Mark(args) = 0
      <4>1. Mark(args) \in DOMAIN args.list \/ Mark(args) = 0
        BY <1>0, MarkFacts, ListFacts
      <4>2. Mark(args) # 0 => args.list[Mark(args)] \in Securities /\ args.list[Mark(args)] = 0
        BY <1>0, <3>1, <4>1, MarkFacts, ListFacts
      <4> QED BY <4>2 DEF Securities
    <3> QED BY <3>2 DEF CheckpointCovers
  <2> QED BY <2>0, <2>1, <2>2, <2>3 DEF Progress, Alike
<1> QED BY <1>1, <1>2, <1>3, <1>4 DEF BackfillInv

(* Every answer of a fetch settles the part it asked for. *)
SettlesSome(i) ==
  /\ Fetching(i)
  /\ \E what \in {"bars", "nothing"} : Settles(i, what)

LEMMA SecuritySteps ==
  ASSUME WorkTypes, NEW i \in Securities, Security(i)
  PROVE  SettlesSome(i) \/ RetryChunk(i) \/ AuthFails(i) \/ Resumes(i)
<1>1. stored[i][part[i]] \in What
  BY DEF WorkTypes
<1>2. (IF stored[i][part[i]] = "none" THEN "nothing" ELSE stored[i][part[i]]) \in {"bars", "nothing"}
  BY <1>1 DEF What
<1> QED BY <1>2 DEF Security, SkipChunk, Answered, AnswerChunk, SettlesSome

(* The security that a batch saves stands at the batch's last place.       *)
LastOfBatch == Min({start + Concurrency - 1, Len(args.list)})

LEMMA SavedPlace ==
  ASSUME RunTypes, proc = "batch"
  PROVE  /\ LastOfBatch \in DOMAIN args.list
         /\ start <= LastOfBatch /\ LastOfBatch < start + Concurrency
         /\ Saves = IF force THEN ckpt ELSE [id |-> args.list[LastOfBatch], place |-> LastOfBatch]
         /\ Saves \in [id : 0..Ids, place : Nat]
<1>1. /\ args \in Arguments /\ start \in Nat /\ start >= 1 /\ start <= Len(args.list)
      /\ ckpt \in [id : 0..Ids, place : Nat]
  BY DEF RunTypes
<1>2. Len(args.list) \in Nat /\ DOMAIN args.list = 1..Len(args.list)
  BY <1>1, ListFacts
<1>3. LastOfBatch = IF start + Concurrency - 1 <= Len(args.list) THEN start + Concurrency - 1
                    ELSE Len(args.list)
  <2>1. start + Concurrency - 1 \in Int /\ Len(args.list) \in Int
    <3>1. start \in Nat /\ Concurrency \in Nat
      BY <1>1, BackfillConstants
    <3> QED BY <3>1, <1>2
  <2> QED BY <2>1, MinOfTwo DEF LastOfBatch
<1>4. LastOfBatch \in DOMAIN args.list /\ start <= LastOfBatch /\ LastOfBatch < start + Concurrency
  BY <1>1, <1>2, <1>3, BackfillConstants
<1>5. Saves = IF force THEN ckpt ELSE [id |-> args.list[LastOfBatch], place |-> LastOfBatch]
  BY DEF Saves, LastOf, LastOfBatch
<1>6. args.list[LastOfBatch] \in 0..Ids /\ LastOfBatch \in Nat
  BY <1>1, <1>4, ListFacts, BackfillConstants DEF Securities
<1> QED BY <1>1, <1>4, <1>5, <1>6

(* The place of a checkpoint that a batch writes.                          *)
LEMMA MarkSaved ==
  ASSUME RunTypes, proc = "batch", ~force, ckpt' = Saves, args' = args
  PROVE  /\ Mark(args)' = LastOfBatch /\ LastOfBatch \in DOMAIN args.list
         /\ LastOfBatch < start + Concurrency
<1> DEFINE last == LastOfBatch
           S == {k \in DOMAIN args.list : args.list[k] = args.list[last]}
<1>1. args \in Arguments /\ last \in DOMAIN args.list /\ last < start + Concurrency
  BY SavedPlace DEF RunTypes
<1>2. ckpt'.id = args.list[last]
  BY SavedPlace
<1> HIDE DEF last
<1>3. S = {last} /\ last \in Nat /\ last >= 1
  BY <1>1, ListFacts
<1>4. Mark(args)' = Max({0} \cup S)
  BY <1>2 DEF Mark
<1>5. Max({0} \cup {last}) = last
  <2>1. {last} \in SUBSET (1..last)
    BY <1>3
  <2>2. /\ Max({0} \cup {last}) \in 0..last
        /\ \A k \in {last} : Max({0} \cup {last}) >= k
    BY <1>3, <2>1, GreatestPlace
  <2>3. Max({0} \cup {last}) >= last
    BY <2>2
  <2> QED BY <1>3, <2>2, <2>3
<1> QED BY <1>1, <1>3, <1>4, <1>5 DEF last

LEMMA RunTypesStep ==
  ASSUME BackfillInv, BackfillNext
  PROVE  RunTypes'
<1> USE BackfillConstants
<1>0. RunTypes /\ WorkTypes
  BY DEF BackfillInv
<1>1. ASSUME NEW a \in Arguments, NEW f \in BOOLEAN, NEW seeded \in BOOLEAN,
             StartBackfill(a, f, seeded)
      PROVE  RunTypes'
  <2>1. start' \in Nat \ {0} /\ began' \in Nat \ {0}
    BY <1>0, <1>1, StartFacts, ListFacts
  <2>2. proc' = "between" /\ force' \in BOOLEAN /\ runs' \in 0..MaxRuns
    BY <1>0, <1>1 DEF StartBackfill, RunTypes
  <2>3. args' \in Arguments /\ mixed' \in BOOLEAN /\ ckpt' = ckpt
    BY <1>0, <1>1 DEF StartBackfill, RunTypes
  <2> QED BY <1>0, <2>1, <2>2, <2>3 DEF RunTypes
<1>2. CASE BeginBatch
  <2>1. /\ UNCHANGED <<force, args, mixed, ckpt, runs, start, began>> /\ proc' = "batch"
    BY <1>2 DEF BeginBatch, traceVars
  <2>2. PICK k \in DOMAIN args.list : start <= k
    BY <1>2 DEF BeginBatch, Batch, Turn
  <2>3. start <= Len(args.list)
    BY <1>0, <2>2, ListFacts DEF RunTypes
  <2> QED BY <1>0, <2>1, <2>3 DEF RunTypes
<1>3. CASE BatchDone
  <2>1. ckpt' \in [id : 0..Ids, place : Nat]
    BY <1>0, <1>3, SavedPlace DEF BatchDone
  <2>2. /\ UNCHANGED <<force, args, mixed, runs, began>> /\ proc' = "between"
        /\ start' = start + Concurrency
    BY <1>3 DEF BatchDone, traceVars
  <2> QED BY <1>0, <2>1, <2>2 DEF RunTypes
<1>4. CASE Finish \/ Crash
  <2>1. proc' = "none" /\ force' = FALSE /\ start' = 1 /\ began' = 1
    BY <1>4 DEF Finish, Crash, Ends
  <2>2. UNCHANGED <<args, mixed, ckpt, runs>>
    BY <1>4 DEF Finish, Crash, Ends, traceVars
  <2>3. start' \in Nat \ {0} /\ began' \in Nat \ {0}
    BY <2>1
  <2>4. proc' \in {"none", "between", "batch"} /\ proc' # "batch"
    BY <2>1
  <2>5. force' \in BOOLEAN
    BY <2>1
  <2>6. args' \in Arguments /\ mixed' \in BOOLEAN /\ ckpt' \in [id : 0..Ids, place : Nat] /\ runs' \in 0..MaxRuns
    BY <1>0, <2>2 DEF RunTypes
  <2> QED BY <2>3, <2>4, <2>5, <2>6 DEF RunTypes
<1>5. CASE Trader
  BY <1>0, <1>5 DEF Trader, Rotates, RunTypes, workVars, traceVars
<1>6. ASSUME NEW i \in Securities, Security(i)  PROVE RunTypes'
  <2>1. UNCHANGED <<proc, force, args, mixed, ckpt, runs, start, began>>
    BY <1>0, <1>6, SecuritySteps DEF SettlesSome, Settles, RetryChunk, AuthFails, Resumes,
       traceVars
  <2> QED BY <1>0, <2>1 DEF RunTypes
<1> QED BY <1>1, <1>2, <1>3, <1>4, <1>5, <1>6 DEF BackfillNext

LEMMA WorkTypesStep ==
  ASSUME BackfillInv, BackfillNext
  PROVE  WorkTypes'
<1> USE BackfillConstants
<1>0. WorkTypes /\ args \in Arguments /\ Fetched
  BY DEF BackfillInv, RunTypes, Progress
<1>1. NoWork => /\ at' \in [Securities -> Where] /\ part' \in [Securities -> Parts]
                /\ tries' \in [Securities -> 0..MaxTries]
  BY DEF NoWork, Where, Parts, Daily
<1>2. ASSUME NEW a \in Arguments, NEW f \in BOOLEAN, NEW seeded \in BOOLEAN,
             StartBackfill(a, f, seeded)
      PROVE  WorkTypes'
  BY <1>0, <1>2 DEF StartBackfill, WorkTypes
<1>3. CASE BeginBatch
  <2>1. FirstPart(args) \in Parts
    BY <1>0, PartFacts
  <2> QED BY <1>0, <1>3, <2>1 DEF BeginBatch, WorkTypes, Where
<1>4. CASE BatchDone
  BY <1>0, <1>1, <1>4 DEF BatchDone, WorkTypes
<1>5. CASE Finish \/ Crash
  BY <1>0, <1>1, <1>5 DEF Finish, Crash, Ends, WorkTypes
<1>6. CASE Trader
  BY <1>0, <1>6 DEF Trader, Rotates, WorkTypes, workVars
<1>7. ASSUME NEW i \in Securities, SettlesSome(i)  PROVE WorkTypes'
  <2>1. part' \in [Securities -> Parts]
    <3>1. part[i] \in Parts /\ part[i] <= LastPart(args) /\ part[i] \in Nat /\ LastPart(args) \in Nat
      BY <1>0, <1>7, PartFacts DEF WorkTypes, Fetched, SettlesSome, Fetching
    <3>2. part[i] # LastPart(args) => part[i] + 1 \in Parts
      BY <1>0, <3>1, PartFacts
    <3>3. part' = [part EXCEPT ![i] = IF part[i] = LastPart(args) THEN part[i] ELSE part[i] + 1]
      BY <1>7 DEF SettlesSome, Settles
    <3> QED BY <1>0, <3>1, <3>2, <3>3 DEF WorkTypes
  <2>2. at' \in [Securities -> Where] /\ tries' \in [Securities -> 0..MaxTries]
    BY <1>0, <1>7 DEF SettlesSome, Settles, WorkTypes, Where
  <2>3. stored' \in [Securities -> [Parts -> What]]
    <3>1. PICK what \in What : stored' = [stored EXCEPT ![i] = [stored[i] EXCEPT ![part[i]] = what]]
      BY <1>7 DEF SettlesSome, Settles, What
    <3>2. [stored[i] EXCEPT ![part[i]] = what] \in [Parts -> What]
      BY <1>0 DEF WorkTypes
    <3> QED BY <1>0, <3>1, <3>2 DEF WorkTypes
  <2> QED BY <2>1, <2>2, <2>3 DEF WorkTypes
<1>8. ASSUME NEW i \in Securities, RetryChunk(i)  PROVE WorkTypes'
  BY <1>0, <1>8 DEF RetryChunk, WorkTypes
<1>9. ASSUME NEW i \in Securities, AuthFails(i) \/ Resumes(i)  PROVE WorkTypes'
  <2>1. PICK first \in Parts : first = FirstPart(args)
    BY <1>0, PartFacts
  <2>2. part' \in {part, [part EXCEPT ![i] = first]}
    BY <1>9, <2>1 DEF AuthFails, Resumes
  <2>3. tries' \in {tries, [tries EXCEPT ![i] = 0]} /\ stored' = stored
    BY <1>9 DEF AuthFails, Resumes
  <2>4. at' \in {at, [at EXCEPT ![i] = "wait"], [at EXCEPT ![i] = "fetch"]}
    BY <1>0, <1>9 DEF AuthFails, Resumes, WorkTypes
  <2>5. part' \in [Securities -> Parts]
    BY <1>0, <2>2 DEF WorkTypes
  <2>6. tries' \in [Securities -> 0..MaxTries]
    BY <1>0, <2>3 DEF WorkTypes
  <2>7. at' \in [Securities -> Where]
    BY <1>0, <2>4 DEF WorkTypes, Where
  <2> QED BY <1>0, <2>3, <2>5, <2>6, <2>7 DEF WorkTypes
<1> QED
  BY <1>0, <1>2, <1>3, <1>4, <1>5, <1>6, <1>7, <1>8, <1>9, SecuritySteps DEF BackfillNext

LEMMA TokenTypesStep ==
  ASSUME BackfillInv, BackfillNext
  PROVE  TokenTypes'
<1> USE BackfillConstants
<1>0. TokenTypes /\ WorkTypes
  BY DEF BackfillInv
<1>1. Reloaded \in 0..MaxTokens /\ (IF file.live THEN file.gen ELSE held) \in 0..MaxTokens
  BY <1>0 DEF Reloaded, TokenTypes
<1>2. CASE Trader
  <2>1. file.gen \in 0..MaxTokens /\ file.gen < MaxTokens => file.gen + 1 \in 0..MaxTokens
    BY <1>0 DEF TokenTypes
  <2>2. file' \in [gen : 0..MaxTokens, live : BOOLEAN]
    <3>1. CASE Rotate
      BY <1>0, <2>1, <3>1 DEF Rotate, TokenTypes
    <3>2. CASE Expire
      BY <1>0, <3>2 DEF Expire, TokenTypes
    <3>3. CASE Revoke
      BY <1>0, <3>3 DEF Revoke, TokenTypes
    <3> QED BY <1>2, <3>1, <3>2, <3>3 DEF Trader, Rotates
  <2>3. held' = held /\ good' \in 0..MaxTokens
    <3>1. file.gen \in 0..MaxTokens
      BY <1>0 DEF TokenTypes
    <3> QED BY <1>0, <1>2, <3>1 DEF Trader, Rotates, Rotate, Expire, Revoke, TokenTypes
  <2>4. held' \in 0..MaxTokens
    BY <1>0, <2>3 DEF TokenTypes
  <2> QED BY <2>2, <2>3, <2>4 DEF TokenTypes
<1>3. CASE ~Trader
  <2>1. UNCHANGED <<file, good>> /\ held' \in {held, 0, Reloaded}
    BY <1>0, <1>3, SecuritySteps DEF BackfillNext, StartBackfill, BeginBatch, BatchDone,
       Finish, Crash, Ends, SettlesSome, Settles, RetryChunk, AuthFails, Resumes, tokenVars,
       Reloaded
  <2> QED BY <1>0, <1>1, <2>1 DEF TokenTypes
<1> QED BY <1>2, <1>3

-----------------------------------------------------------------------------
(* What a step that leaves the record of the work alone keeps.             *)
LEMMA ProgressKept ==
  ASSUME Progress,
         UNCHANGED <<proc, force, args, ckpt, start, began, at, part, stored,
                     interrupted, passed, mixed>>
  PROVE  Progress'
<1>1. /\ Batch' = Batch /\ (\A i : Settled(args, i)' <=> Settled(args, i))
      /\ Mark(args)' = Mark(args) /\ FirstPart(args)' = FirstPart(args)
      /\ LastPart(args)' = LastPart(args)
  BY DEF Batch, Turn, Settled, Mark, FirstPart, LastPart
<1>2. Fetched' /\ RunCovers'
  BY <1>1 DEF Progress, Fetched, RunCovers
<1>3. ASSUME Alike  PROVE Alike'
  <2>1. FileFits' /\ Behind' /\ NoGap' /\ FileBehind'
    BY <1>1, <1>3 DEF Alike, FileFits, Behind, NoGap, KnownOf, FileBehind
  <2>2. CheckpointCovers' /\ PassedWasInterrupted'
    BY <1>1, <1>3 DEF Alike, CheckpointCovers, PassedWasInterrupted
  <2> QED BY <2>1, <2>2 DEF Alike
<1> QED BY <1>2, <1>3 DEF Progress

(* A start with the arguments of the runs before: from the file, from the  *)
(* bars, or from the first security.                                       *)
LEMMA StartAlike ==
  ASSUME BackfillInv, Alike, NEW f \in BOOLEAN, NEW seeded \in BOOLEAN,
         StartBackfill(args, f, seeded), ~mixed
  PROVE  Alike'
<1> DEFINE l == args.list
           m == Mark(args)
           s == Seed(args)
<1>0. RunTypes /\ WorkTypes /\ args \in Arguments
  BY DEF BackfillInv, RunTypes
<1>1. /\ proc = "none" /\ proc' = "between" /\ force' = f
      /\ UNCHANGED <<args, ckpt, stored, interrupted>>
  BY DEF StartBackfill
<1>2. /\ \A i : (Settled(args, i)' <=> Settled(args, i)) /\ (KnownOf(i)' <=> KnownOf(i))
      /\ Mark(args)' = m
  BY <1>1 DEF Settled, KnownOf, Mark, FirstPart, LastPart
<1>3. /\ start' \in 1..(Len(l) + 1) /\ passed \subseteq passed'
      /\ passed' \subseteq passed \cup {i \in {l[k] : k \in 1..(start' - 1)} : ~Settled(args, i)}
  BY <1>0, StartFacts
<1>4. /\ m \in 0..Len(l) /\ s \in 1..(Len(l) + 1) /\ Len(l) \in Nat /\ DOMAIN l = 1..Len(l)
      /\ s > 1 => s - 1 \in Loaded(args)
  BY <1>0, MarkFacts, SeedFacts, ListFacts
<1> HIDE DEF m, s
<1>5. FileFits' /\ NoGap' /\ m = Resumed(args)
  BY <1>0, <1>1, <1>2 DEF FileFits, NoGap, Alike, Resumed, m
<1>6. CheckpointCovers'
  BY <1>1, <1>2, <1>3 DEF CheckpointCovers, Alike, m
<1>7. CASE f \/ ~seeded
  <2>1. start' = 1 /\ (~f => m = 0)
    BY <1>5, <1>7 DEF StartBackfill
  <2>2. Behind'
    BY <1>1, <1>4, <2>1 DEF Behind
  <2>3. FileBehind'
    BY <1>1, <1>2, <2>1 DEF FileBehind
  <2>4. passed' = passed
    <3>1. 1..(start' - 1) = {}
      BY <2>1
    <3> QED BY <1>3, <3>1
  <2>5. PassedWasInterrupted'
    BY <1>1, <1>2, <2>4 DEF PassedWasInterrupted, Alike
  <2> QED BY <1>5, <1>6, <2>2, <2>3, <2>5 DEF Alike
<1>8. CASE ~f /\ seeded /\ m # 0
  <2>1. start' = m + 1 /\ passed' = passed
    BY <1>5, <1>8 DEF StartBackfill
  <2>2. PassedWasInterrupted'
    BY <1>1, <1>2, <2>1 DEF PassedWasInterrupted, Alike
  <2>3. Behind'
    <3> SUFFICES ASSUME NEW k \in DOMAIN l, k < start'
                 PROVE  KnownOf(l[k])' /\ (Settled(args, l[k])' \/ l[k] \in passed')
      BY <1>1 DEF Behind
    <3>1. k \in 1..m
      BY <1>4, <2>1
    <3>2. Settled(args, l[k]) \/ l[k] \in passed
      BY <3>1 DEF CheckpointCovers, Alike, m
    <3>3. l[k] \in passed => Settled(args, l[k]) \/ l[k] \in interrupted
      BY DEF PassedWasInterrupted, Alike
    <3> QED BY <1>1, <1>2, <2>1, <3>2, <3>3 DEF KnownOf
  <2>4. FileBehind'
    BY <1>2, <1>4, <2>1 DEF FileBehind
  <2> QED BY <1>5, <1>6, <2>2, <2>3, <2>4 DEF Alike
<1>9. CASE ~f /\ seeded /\ m = 0
  <2> DEFINE Before == {l[k] : k \in 1..(s - 1)}
  <2>1. start' = s /\ passed' = passed \cup {i \in Before : ~Settled(args, i)}
    BY <1>5, <1>9 DEF StartBackfill, s
  <2>2. ASSUME NEW k \in 1..(s - 1)  PROVE KnownOf(l[k])
    <3>1. s - 1 \in Loaded(args) /\ s - 1 \in DOMAIN l
      BY <1>4, <2>2
    <3>2. stored[l[s - 1]][args.from] # "none" /\ args.from \in Parts
      BY <1>0, <3>1, PartFacts DEF Loaded
    <3> QED BY <1>1, <3>1, <3>2 DEF NoGap, Alike
  <2>3. PassedWasInterrupted'
    <3>1. \A i \in passed : Settled(args, i) \/ i \in interrupted
      BY DEF PassedWasInterrupted, Alike
    <3>2. \A i \in Before : Settled(args, i) \/ i \in interrupted
      BY <2>2 DEF KnownOf
    <3> QED BY <1>1, <1>2, <2>1, <3>1, <3>2 DEF PassedWasInterrupted
  <2>4. Behind'
    <3> SUFFICES ASSUME NEW k \in DOMAIN l, k < start'
                 PROVE  KnownOf(l[k])' /\ (Settled(args, l[k])' \/ l[k] \in passed')
      BY <1>1 DEF Behind
    <3>1. k \in 1..(s - 1)
      BY <1>4, <2>1
    <3> QED BY <1>1, <1>2, <2>1, <2>2, <3>1
  <2>5. FileBehind'
    BY <1>2, <1>4, <1>9, <2>1 DEF FileBehind
  <2> QED BY <1>5, <1>6, <2>3, <2>4, <2>5 DEF Alike
<1> QED BY <1>7, <1>8, <1>9

LEMMA StartProgress ==
  ASSUME BackfillInv, NEW a \in Arguments, NEW f \in BOOLEAN, NEW seeded \in BOOLEAN,
         StartBackfill(a, f, seeded)
  PROVE  Progress'
<1>1. proc' = "between" /\ args' = a /\ mixed' = (mixed \/ a # args) /\ began' = start'
  BY DEF StartBackfill
<1>2. start' \in Nat
  BY StartFacts, ListFacts DEF BackfillInv
<1>3. Fetched' /\ RunCovers'
  BY <1>1, <1>2 DEF Fetched, RunCovers
<1>4. ~mixed' => Alike'
  BY <1>1, StartAlike DEF BackfillInv, Progress
<1> QED BY <1>3, <1>4 DEF Progress

(* The end of a process, with its batch marked if it was cut.              *)
LEMMA EndsProgress ==
  ASSUME BackfillInv, Finish \/ Crash
  PROVE  Progress'
<1>0. RunTypes /\ Progress
  BY DEF BackfillInv
<1>1. /\ proc' = "none" /\ UNCHANGED <<args, ckpt, stored, passed, mixed>>
      /\ interrupted \subseteq interrupted'
      /\ (proc = "batch" => Batch \subseteq interrupted')
  BY DEF Finish, Crash, Ends, traceVars
<1>2. /\ \A i : (Settled(args, i)' <=> Settled(args, i)) /\ (KnownOf(i) => KnownOf(i)')
      /\ Mark(args)' = Mark(args)
  BY <1>1 DEF Settled, KnownOf, Mark, FirstPart, LastPart
<1>3. Fetched' /\ RunCovers' /\ Behind' /\ FileBehind'
  BY <1>1 DEF Fetched, RunCovers, Behind, FileBehind
<1>4. ASSUME Alike  PROVE FileFits' /\ NoGap' /\ CheckpointCovers' /\ PassedWasInterrupted'
  <2>1. FileFits' /\ NoGap'
    BY <1>1, <1>2, <1>4 DEF FileFits, NoGap, Alike, KnownOf
  <2>2. CheckpointCovers'
    BY <1>1, <1>2, <1>4 DEF CheckpointCovers, Alike
  <2>3. PassedWasInterrupted'
    BY <1>1, <1>2, <1>4 DEF PassedWasInterrupted, Alike
  <2> QED BY <2>1, <2>2, <2>3
<1> QED BY <1>0, <1>1, <1>3, <1>4 DEF Progress, Alike

LEMMA BeginProgress ==
  ASSUME BackfillInv, BeginBatch
  PROVE  Progress'
<1>0. RunTypes /\ WorkTypes /\ Progress /\ args \in Arguments
  BY DEF BackfillInv, RunTypes
<1>1. /\ proc = "between" /\ proc' = "batch" /\ Batch' = Batch
      /\ UNCHANGED <<force, args, ckpt, start, began, stored, interrupted, passed, mixed>>
  BY DEF BeginBatch, Batch, Turn, traceVars
<1>2. /\ \A i : (Settled(args, i)' <=> Settled(args, i)) /\ (KnownOf(i)' <=> KnownOf(i))
      /\ Mark(args)' = Mark(args) /\ FirstPart(args)' = FirstPart(args)
      /\ LastPart(args)' = LastPart(args)
  BY <1>1 DEF Settled, KnownOf, Mark, FirstPart, LastPart
<1>3. Fetched'
  <2> SUFFICES ASSUME NEW i \in Securities
               PROVE  /\ i \notin Batch => at'[i] = "idle"
                      /\ part'[i] <= LastPart(args)
                      /\ \A p \in Parts : FirstPart(args) <= p /\ p < part'[i] => stored'[i][p] # "none"
                      /\ at'[i] = "done" => Settled(args, i)'
    BY <1>1, <1>2 DEF Fetched
  <2>1. part'[i] = FirstPart(args) /\ at'[i] = (IF i \in Batch THEN "fetch" ELSE "idle")
    BY DEF BeginBatch
  <2>2. /\ FirstPart(args) \in Nat /\ FirstPart(args) <= LastPart(args)
        /\ \A p \in Parts : p \in Nat
    BY <1>0, PartFacts
  <2> QED BY <2>1, <2>2
<1>4. RunCovers'
  BY <1>0, <1>1, <1>2 DEF RunCovers, Progress
<1>5. ASSUME Alike  PROVE Alike'
  <2>1. FileFits' /\ Behind' /\ FileBehind'
    BY <1>1, <1>2, <1>5 DEF FileFits, Behind, FileBehind, Alike
  <2>2. NoGap'
    BY <1>1, <1>2, <1>5 DEF NoGap, Alike
  <2>3. CheckpointCovers' /\ PassedWasInterrupted'
    BY <1>1, <1>2, <1>5 DEF CheckpointCovers, PassedWasInterrupted, Alike
  <2> QED BY <2>1, <2>2, <2>3 DEF Alike
<1> QED BY <1>0, <1>1, <1>3, <1>4, <1>5 DEF Progress

(* The checkpoint moves over the batch that was fetched, and no further.   *)
LEMMA DoneProgress ==
  ASSUME BackfillInv, BatchDone
  PROVE  Progress'
<1> USE BackfillConstants
<1> DEFINE l == args.list
<1>0. /\ RunTypes /\ WorkTypes /\ Progress /\ args \in Arguments
      /\ start \in Nat /\ start >= 1 /\ began \in Nat
  BY DEF BackfillInv, RunTypes
<1>1. /\ proc = "batch" /\ proc' = "between" /\ ckpt' = Saves /\ start' = start + Concurrency
      /\ UNCHANGED <<force, args, began, stored, interrupted, passed, mixed>>
  BY DEF BatchDone, traceVars
<1>2. \A i : (Settled(args, i)' <=> Settled(args, i)) /\ (KnownOf(i)' <=> KnownOf(i))
  BY <1>1 DEF Settled, KnownOf, FirstPart, LastPart
<1>3. /\ \A k \in DOMAIN l : k \in Nat /\ k >= 1 /\ l[k] \in Securities
      /\ DOMAIN l = 1..Len(l) /\ Len(l) \in Nat
  BY <1>0, ListFacts
<1>4. \A k \in DOMAIN l : start <= k /\ k < start + Concurrency => l[k] \in Batch
  BY DEF Batch, Turn
<1>5. \A i \in Batch : Settled(args, i)
  <2>1. \A i \in Batch : i \in Securities
    BY <1>3 DEF Batch, Turn
  <2> QED BY <1>0, <1>1, <2>1 DEF BatchDone, Progress, Fetched
<1>6. \A k \in DOMAIN l : k < start + Concurrency => k < start \/ Settled(args, l[k])
  BY <1>0, <1>3, <1>4, <1>5
<1>7. Fetched'
  BY <1>1 DEF Fetched
<1>8. RunCovers'
  <2> SUFFICES ASSUME NEW k \in began..(start' - 1), k \in DOMAIN l
               PROVE  Settled(args, l[k])
    BY <1>1, <1>2 DEF RunCovers
  <2>1. k < start + Concurrency /\ (k < start => k \in began..(start - 1))
    BY <1>0, <1>1, <1>3
  <2>2. k < start => Settled(args, l[k])
    BY <1>0, <1>1, <2>1 DEF RunCovers, Progress
  <2> QED BY <1>6, <2>1, <2>2
<1>9. ASSUME Alike, ~mixed  PROVE Alike'
  <2>1. \A k \in DOMAIN l : k < start + Concurrency =>
          KnownOf(l[k]) /\ (~force => Settled(args, l[k]) \/ l[k] \in passed)
    BY <1>1, <1>6, <1>9 DEF Alike, Behind, KnownOf
  <2>2. Behind'
    BY <1>1, <1>2, <2>1 DEF Behind
  <2>3. NoGap'
    BY <1>1, <1>2, <1>5, <1>9 DEF NoGap, Alike, KnownOf
  <2>4. PassedWasInterrupted'
    BY <1>1, <1>2, <1>9 DEF PassedWasInterrupted, Alike
  <2>5. CASE force
    <3>1. ckpt' = ckpt /\ force'
      BY <1>0, <1>1, <2>5, SavedPlace
    <3>2. Mark(args)' = Mark(args)
      BY <1>1, <3>1 DEF Mark
    <3>3. FileFits' /\ CheckpointCovers' /\ FileBehind'
      BY <1>1, <1>2, <1>9, <3>1, <3>2 DEF FileFits, CheckpointCovers, FileBehind, Alike
    <3> QED BY <2>2, <2>3, <2>4, <3>3 DEF Alike
  <2>6. CASE ~force
    <3>1. Mark(args)' = LastOfBatch /\ LastOfBatch \in DOMAIN l /\ LastOfBatch < start + Concurrency
      BY <1>0, <1>1, <2>6, MarkSaved
    <3>2. FileBehind' /\ FileFits'
      <4>1. ckpt'.place = LastOfBatch
        BY <1>0, <1>1, <2>6, SavedPlace
      <4> QED BY <1>1, <1>3, <3>1, <4>1 DEF FileBehind, FileFits
    <3>3. \A k \in 1..LastOfBatch : k \in DOMAIN l /\ k < start + Concurrency
      <4> DEFINE last == LastOfBatch
      <4>1. last \in Nat /\ last \in 1..Len(l) /\ last < start + Concurrency
        BY <1>3, <3>1
      <4> HIDE DEF last
      <4>2. \A k \in 1..last : k \in 1..Len(l) /\ k < start + Concurrency
        BY <1>0, <1>3, <4>1
      <4> QED BY <1>3, <4>2 DEF last
    <3>4. CheckpointCovers'
      BY <1>1, <1>2, <2>1, <2>6, <3>1, <3>3 DEF CheckpointCovers
    <3> QED BY <2>2, <2>3, <2>4, <3>2, <3>4 DEF Alike
  <2> QED BY <2>5, <2>6
<1> QED BY <1>0, <1>1, <1>7, <1>8, <1>9 DEF Progress

(* A part is settled: what was known stays known, and the security is of   *)
(* the batch, so that nothing before it is neither known nor in the batch. *)
LEMMA SettlesProgress ==
  ASSUME BackfillInv, NEW i \in Securities, SettlesSome(i)
  PROVE  Progress'
<1> USE BackfillConstants
<1> DEFINE l == args.list
<1>0. /\ RunTypes /\ WorkTypes /\ Progress /\ args \in Arguments
      /\ start \in Nat
  BY DEF BackfillInv, RunTypes
<1>1. /\ proc = "batch" /\ at[i] = "fetch" /\ i \in Batch /\ Batch' = Batch
      /\ UNCHANGED <<proc, force, args, ckpt, start, began, interrupted, passed, mixed>>
  BY <1>0 DEF SettlesSome, Settles, Fetching, Progress, Fetched, Batch, Turn, traceVars
<1>1a. /\ Mark(args)' = Mark(args) /\ FirstPart(args)' = FirstPart(args)
       /\ LastPart(args)' = LastPart(args)
  BY <1>1 DEF Mark, FirstPart, LastPart
<1>1b. \A k \in DOMAIN l : k \in Nat /\ l[k] \in Securities
  BY <1>0, ListFacts
<1>2. PICK what \in {"bars", "nothing"} : Settles(i, what)
  BY DEF SettlesSome
<1>3. part[i] \in Parts /\ stored'[i] = [stored[i] EXCEPT ![part[i]] = what]
  BY <1>0, <1>2 DEF Settles, WorkTypes
<1>4. \A j \in Securities : j # i =>
        stored'[j] = stored[j] /\ at'[j] = at[j] /\ part'[j] = part[j]
  BY <1>0, <1>2 DEF Settles, WorkTypes
<1>5. \A p \in Parts : stored'[i][p] = IF p = part[i] THEN what ELSE stored[i][p]
  BY <1>0, <1>3 DEF WorkTypes
<1>5a. FirstPart(args)..LastPart(args) \subseteq Parts
  BY <1>0, PartFacts DEF Parts
<1>6. \A j \in Securities : (Settled(args, j) => Settled(args, j)') /\ (KnownOf(j) => KnownOf(j)')
  BY <1>1, <1>1a, <1>4, <1>5, <1>5a DEF Settled, KnownOf
<1>7. ASSUME NEW p \in Parts, FirstPart(args) <= p, p <= part[i]  PROVE stored'[i][p] # "none"
  <2>1. p < part[i] => stored[i][p] # "none"
    BY <1>0, <1>1, <1>7 DEF Progress, Fetched
  <2>2. p < part[i] \/ p = part[i]
    <3>1. p \in Nat /\ part[i] \in Nat
      BY <1>0, <1>3, PartFacts
    <3> QED BY <1>7, <3>1
  <2>3. what # "none" /\ stored'[i][p] = IF p = part[i] THEN what ELSE stored[i][p]
    BY <1>5
  <2>4. CASE p = part[i]
    BY <2>3, <2>4
  <2>5. CASE p # part[i]
    BY <2>1, <2>2, <2>3, <2>5
  <2> QED BY <2>4, <2>5
<1>8. Fetched'
  <2> SUFFICES ASSUME NEW j \in Securities
               PROVE  /\ j \notin Batch => at'[j] = "idle"
                      /\ part'[j] <= LastPart(args)
                      /\ \A p \in Parts : FirstPart(args) <= p /\ p < part'[j] => stored'[j][p] # "none"
                      /\ at'[j] = "done" => Settled(args, j)'
    BY <1>1, <1>1a DEF Fetched
  <2>1. CASE j = i
    <3>1. /\ part'[i] = IF part[i] = LastPart(args) THEN part[i] ELSE part[i] + 1
          /\ at'[i] = IF part[i] = LastPart(args) THEN "done" ELSE "fetch"
      BY <1>0, <1>2 DEF Settles, WorkTypes
    <3>2. part[i] \in Nat /\ LastPart(args) \in Nat /\ part[i] <= LastPart(args)
      BY <1>0, <1>1, <1>3, PartFacts DEF Progress, Fetched
    <3>3. part'[i] <= LastPart(args)
      BY <3>1, <3>2
    <3>4. ASSUME NEW p \in Parts, p < part'[i]  PROVE p <= part[i]
      <4>1. part'[i] \in {part[i], part[i] + 1} /\ p \in Nat
        BY <1>0, <3>1, PartFacts
      <4> QED BY <3>2, <3>4, <4>1
    <3>5. at'[i] = "done" => Settled(args, i)'
      <4> SUFFICES ASSUME part[i] = LastPart(args), NEW p \in FirstPart(args)..LastPart(args)
                   PROVE  stored'[i][p] # "none"
        BY <1>1a, <3>1 DEF Settled
      <4>1. p \in Parts /\ FirstPart(args) <= p /\ p <= part[i]
        BY <1>0, <1>5a, PartFacts
      <4> QED BY <1>7, <4>1
    <3> QED BY <1>1, <1>7, <2>1, <3>3, <3>4, <3>5
  <2>2. CASE j # i
    BY <1>0, <1>1, <1>4, <1>6, <2>2 DEF Progress, Fetched
  <2> QED BY <2>1, <2>2
<1>9. RunCovers'
  BY <1>0, <1>1, <1>1b, <1>6 DEF Progress, RunCovers
<1>10. ASSUME Alike, ~mixed  PROVE Alike'
  <2>1. FileFits' /\ Behind' /\ FileBehind'
    BY <1>1, <1>1a, <1>1b, <1>6, <1>10 DEF Alike, FileFits, Behind, FileBehind
  <2>2. NoGap'
    <3> SUFFICES ASSUME NEW j \in DOMAIN l, \E p \in Parts : stored'[l[j]][p] # "none", NEW k \in 1..j
                 PROVE  KnownOf(l[k])' \/ l[k] \in Batch
      BY <1>1 DEF NoGap
    <3>1. k \in DOMAIN l /\ l[k] \in Securities /\ l[j] \in Securities
      BY <1>0, ListFacts
    <3>2. CASE l[j] = i
      <4>1. PICK t \in Turn : i = l[t]
        BY <1>1 DEF Batch
      <4>2. j \in Turn
        BY <1>0, <3>2, <4>1, ListFacts DEF Turn
      <4>3. k < start \/ k \in Turn
        BY <1>0, <1>1b, <3>1, <4>2 DEF Turn
      <4> QED BY <1>1, <1>6, <1>10, <3>1, <4>3 DEF Alike, Behind, Batch
    <3>3. CASE l[j] # i
      <4>1. \E p \in Parts : stored[l[j]][p] # "none"
        BY <1>4, <3>1, <3>3
      <4> QED BY <1>1, <1>6, <1>10, <3>1, <4>1 DEF Alike, NoGap
    <3> QED BY <3>2, <3>3
  <2>3. CheckpointCovers'
    <3>1. \A k \in 1..Mark(args) : l[k] \in Securities
      BY <1>0, MarkFacts, ListFacts
    <3> QED BY <1>1, <1>1a, <1>6, <1>10, <3>1 DEF Alike, CheckpointCovers
  <2>4. PassedWasInterrupted'
    <3>1. \A j \in passed : Settled(args, j) => Settled(args, j)'
      <4>1. \A j : j = i \/ j \notin Securities \/ stored'[j] = stored[j]
        BY <1>4
      <4>2. \A j : j \notin Securities => stored'[j] = stored[j]
        BY <1>0, <1>2 DEF Settles, WorkTypes
      <4> QED BY <1>1, <1>1a, <1>6, <4>2 DEF Settled
    <3> QED BY <1>1, <1>10, <3>1 DEF Alike, PassedWasInterrupted
  <2> QED BY <2>1, <2>2, <2>3, <2>4 DEF Alike
<1> QED BY <1>0, <1>1, <1>8, <1>9, <1>10 DEF Progress

(* A retry, a refused token and a restart of a security settle nothing.    *)
LEMMA OtherProgress ==
  ASSUME BackfillInv, NEW i \in Securities, RetryChunk(i) \/ AuthFails(i) \/ Resumes(i)
  PROVE  Progress'
<1>0. RunTypes /\ WorkTypes /\ Progress /\ args \in Arguments
  BY DEF BackfillInv, RunTypes
<1>1. CASE RetryChunk(i)
  BY <1>0, <1>1, ProgressKept DEF RetryChunk, traceVars
<1>2. CASE AuthFails(i) \/ Resumes(i)
  <2>1. /\ proc = "batch" /\ i \in Batch /\ Batch' = Batch
        /\ UNCHANGED <<proc, force, args, ckpt, start, began, stored, interrupted, passed, mixed>>
    BY <1>0, <1>2 DEF AuthFails, Resumes, Fetching, Progress, Fetched, Batch, Turn, traceVars
  <2>2. /\ \A j : (Settled(args, j)' <=> Settled(args, j)) /\ (KnownOf(j)' <=> KnownOf(j))
        /\ Mark(args)' = Mark(args) /\ FirstPart(args)' = FirstPart(args)
        /\ LastPart(args)' = LastPart(args)
    BY <2>1 DEF Settled, KnownOf, Mark, FirstPart, LastPart
  <2>3. /\ \A j \in Securities : j # i => at'[j] = at[j] /\ part'[j] = part[j]
        /\ at'[i] # "done" /\ part'[i] \in {part[i], FirstPart(args)}
    BY <1>0, <1>2 DEF AuthFails, Resumes, Fetching, WorkTypes
  <2>4. /\ FirstPart(args) <= LastPart(args) /\ FirstPart(args) \in Nat
        /\ \A p \in Parts : p \in Nat
    BY <1>0, PartFacts
  <2>5. \A p \in Parts : ~(FirstPart(args) <= p /\ p < FirstPart(args))
    BY <2>4
  <2>6. Fetched'
    BY <1>0, <2>1, <2>2, <2>3, <2>4, <2>5 DEF Progress, Fetched
  <2>7. RunCovers'
    BY <1>0, <2>1, <2>2 DEF Progress, RunCovers
  <2>8. ASSUME Alike  PROVE Alike'
    <3>1. FileFits' /\ Behind' /\ FileBehind'
      BY <2>1, <2>2, <2>8 DEF Alike, FileFits, Behind, FileBehind
    <3>2. NoGap'
      BY <2>1, <2>2, <2>8 DEF Alike, NoGap
    <3>3. CheckpointCovers' /\ PassedWasInterrupted'
      BY <2>1, <2>2, <2>8 DEF Alike, CheckpointCovers, PassedWasInterrupted
    <3> QED BY <3>1, <3>2, <3>3 DEF Alike
  <2> QED BY <1>0, <2>1, <2>6, <2>7, <2>8 DEF Progress
<1> QED BY <1>1, <1>2

LEMMA BackfillStep ==
  ASSUME BackfillInv, BackfillNext
  PROVE  BackfillInv'
<1>1. RunTypes' /\ WorkTypes' /\ TokenTypes'
  BY RunTypesStep, WorkTypesStep, TokenTypesStep
<1>2. WorkTypes /\ Progress
  BY DEF BackfillInv
<1>3. Progress'
  <2>1. CASE Trader
    BY <1>2, <2>1, ProgressKept DEF Trader, Rotates, workVars, traceVars
  <2>2. ASSUME NEW i \in Securities, Security(i)  PROVE Progress'
    BY <1>2, <2>2, SecuritySteps, SettlesProgress, OtherProgress
  <2> QED BY <2>1, <2>2, StartProgress, BeginProgress, DoneProgress, EndsProgress DEF BackfillNext
<1> QED BY <1>1, <1>3 DEF BackfillInv

LEMMA BackfillStutter == BackfillInv /\ UNCHANGED backfillVars => BackfillInv'
<1> SUFFICES ASSUME BackfillInv, UNCHANGED backfillVars  PROVE BackfillInv'
  OBVIOUS
<1>1. RunTypes' /\ WorkTypes' /\ TokenTypes'
  BY DEF BackfillInv, RunTypes, WorkTypes, TokenTypes, backfillVars, workVars, tokenVars, traceVars
<1>2. Progress'
  BY ProgressKept DEF BackfillInv, backfillVars, workVars, traceVars
<1> QED BY <1>1, <1>2 DEF BackfillInv

LEMMA BackfillInvSound == BackfillInv => BackfillSound
<1> SUFFICES ASSUME BackfillInv  PROVE BackfillSound
  OBVIOUS
<1>1. BackfillTypeOK
  <2>1. {held, good, file.gen} \subseteq 0..MaxTokens
    BY DEF BackfillInv, TokenTypes
  <2>2. \A i \in Securities : stored[i] \in [Parts -> {"none", "bars", "nothing"}]
    BY DEF BackfillInv, WorkTypes, What
  <2> QED BY <2>1, <2>2 DEF BackfillInv, BackfillTypeOK, RunTypes, WorkTypes, Where
<1>2. CheckpointCovers /\ PassedWasInterrupted
  BY DEF BackfillInv, Progress, Alike, CheckpointCovers, PassedWasInterrupted
<1> QED BY <1>1, <1>2 DEF BackfillInv, Progress, BackfillSound

(* The checkpoint of a process that is not forced is behind the batch it   *)
(* is at, as long as the runs were alike.                                  *)
CheckpointMoves == ckpt' # ckpt => ~force /\ (~mixed => Mark(args)' > Mark(args))

LEMMA CheckpointStep == BackfillInv /\ BackfillNext => CheckpointMoves
<1> SUFFICES ASSUME BackfillInv, BackfillNext, ckpt' # ckpt
             PROVE  ~force /\ (~mixed => Mark(args)' > Mark(args))
  BY DEF CheckpointMoves
<1>0. RunTypes /\ WorkTypes /\ args \in Arguments /\ start \in Nat
  BY DEF BackfillInv, RunTypes
<1>1. BatchDone
  BY <1>0, SecuritySteps DEF BackfillNext, StartBackfill, BeginBatch, Finish, Crash,
     Ends, Trader, Rotates, SettlesSome, Settles, RetryChunk, AuthFails, Resumes
<1>2. proc = "batch" /\ ckpt' = Saves /\ args' = args
  BY <1>1 DEF BatchDone
<1>3. ~force
  BY <1>0, <1>2, SavedPlace
<1>4. Mark(args)' = LastOfBatch /\ start <= LastOfBatch /\ LastOfBatch \in Nat
  <2>1. LastOfBatch \in DOMAIN args.list
    BY <1>0, <1>2, SavedPlace
  <2> QED BY <1>0, <1>2, <1>3, <2>1, MarkSaved, SavedPlace, ListFacts
<1>5. ~mixed => Mark(args) < start
  BY <1>2, <1>3 DEF BackfillInv, Progress, Alike, FileBehind
<1>6. Mark(args) \in Nat
  BY <1>0, MarkFacts, ListFacts
<1> QED BY <1>0, <1>3, <1>4, <1>5, <1>6

LEMMA BackfillInductive ==
  /\ Init => BackfillInv
  /\ BackfillInv /\ [Next]_vars => BackfillInv'
  /\ BackfillInv /\ [Next]_vars => [CheckpointMoves]_backfillVars
<1>1. Init => BackfillInv
  BY BackfillInit DEF Init
<1>2. [Next]_vars => BackfillNext \/ UNCHANGED backfillVars
  BY DEF Next, vars
<1> QED BY <1>1, <1>2, BackfillStep, BackfillStutter, CheckpointStep

(* backfill.py, through any crash, expired or revoked token and forced     *)
(* run: a process leaves no security of its list unfetched from where it   *)
(* started to where it is, whatever was run before it; and as long as the  *)
(* runs had one list and asked for the same bars, the checkpoint names no  *)
(* security that was not fetched or left behind by a start seeded from the *)
(* bars, and such a start leaves behind only securities whose batch a      *)
(* crash has cut.                                                          *)
THEOREM CheckpointAlwaysSound == Spec => []BackfillSound
BY BackfillInductive, BackfillInvSound, PTL DEF Spec

(* No forced run, whatever its list, touches the segment's checkpoint, and *)
(* as long as the runs were alike no other one sets it back.               *)
THEOREM CheckpointNeverFalls == Spec => CheckpointKept
BY BackfillInductive, PTL DEF Spec, CheckpointKept, CheckpointMoves

-----------------------------------------------------------------------------
(* The paper ledger.  First the arithmetic of a condor: rounding to the    *)
(* strike grid and taking the nearest quoted strike keep the order of two  *)
(* prices, so that the strikes entered are in order.                       *)
LEMMA MinExists ==
  ASSUME NEW S \in SUBSET Nat, S # {}
  PROVE  Min(S) \in S /\ \A y \in S : Min(S) <= y
<1>1. PICK z \in S : TRUE
  OBVIOUS
<1> DEFINE Below == {d \in 0..z : z - d \in S}
<1>2. Below \in SUBSET Int /\ IsFiniteSet(Below) /\ Below # {}
  <2>1. 0 \in Below
    BY <1>1
  <2>2. IsFiniteSet(0..z) /\ Below \in SUBSET (0..z)
    BY <1>1, FS_Interval
  <2>3. 0..z \subseteq Int
    OBVIOUS
  <2> HIDE DEF Below
  <2> QED BY <2>1, <2>2, <2>3, FS_Subset
<1>3. PICK d \in Below : \A c \in Below : d >= c
  <2> HIDE DEF Below
  <2> QED BY <1>2, MaxExists
<1>4. \A y \in S : z - d <= y
  <2> SUFFICES ASSUME NEW y \in S, y < z - d  PROVE FALSE
    BY <1>1, <1>3
  <2>1. z - y \in Below
    BY <1>1, <1>3
  <2> QED BY <1>1, <1>3, <2>1
<1>5. z - d \in S
  BY <1>3
<1> QED BY <1>4, <1>5 DEF Min

LEMMA DivKeepsOrder ==
  ASSUME NEW x \in Int, NEW y \in Int, NEW d \in Nat \ {0}, x <= y
  PROVE  x \div d \in Int /\ y \div d \in Int /\ x \div d <= y \div d
OBVIOUS

LEMMA RoundKeepsOrder ==
  ASSUME NEW x \in Int, NEW y \in Int, NEW step \in Nat \ {0}, x <= y
  PROVE  /\ RoundToStep(x, step) \in Int /\ RoundToStep(y, step) \in Int
         /\ RoundToStep(x, step) <= RoundToStep(y, step)
<1> DEFINE a == (2 * x + step) \div (2 * step)
           b == (2 * y + step) \div (2 * step)
<1>1. a \in Int /\ b \in Int /\ a <= b
  <2>1. 2 * step \in Nat \ {0} /\ 2 * x + step \in Int /\ 2 * y + step \in Int
        /\ 2 * x + step <= 2 * y + step
    OBVIOUS
  <2> QED BY <2>1, DivKeepsOrder
<1> HIDE DEF a, b
<1>2. a * step \in Int /\ b * step \in Int /\ a * step <= b * step
  BY <1>1
<1>3. RoundToStep(x, step) = a * step /\ RoundToStep(y, step) = b * step
  BY DEF RoundToStep, a, b
<1> QED BY <1>2, <1>3

Away(x, k) == IF x > k THEN x - k ELSE k - x

LEMMA NearestIs ==
  ASSUME NEW L \in SUBSET Nat, L # {}, NEW k \in Int
  PROVE  Nearest(L, k) \in L /\ \A y \in L : Away(Nearest(L, k), k) <= Away(y, k)
<1> DEFINE D == {n \in Nat : \E x \in L : Away(x, k) = n}
<1>1. \A x \in L : Away(x, k) \in Nat
  BY DEF Away
<1>2. D \in SUBSET Nat /\ D # {}
  BY <1>1
<1>3. PICK n \in D : \A m \in D : n <= m
  <2> HIDE DEF D
  <2> QED BY <1>2, MinExists
<1>4. PICK x \in L : Away(x, k) = n
  BY <1>3
<1>5. \A y \in L : Away(x, k) <= Away(y, k)
  BY <1>1, <1>3, <1>4
<1>6. Nearest(L, k) = CHOOSE u \in L : \A y \in L : Away(u, k) <= Away(y, k)
  BY Zenon DEF Nearest, Away
<1> QED BY <1>5, <1>6

LEMMA NearestKeepsOrder ==
  ASSUME NEW L \in SUBSET Nat, L # {}, NEW j \in Int, NEW k \in Int, j <= k
  PROVE  Nearest(L, j) <= Nearest(L, k)
<1>1. CASE j = k
  <2>1. Nearest(L, j) \in Nat
    BY NearestIs
  <2> QED BY <1>1, <2>1
<1>2. CASE j < k
  <2> DEFINE x == Nearest(L, j)
             y == Nearest(L, k)
  <2>1. x \in Nat /\ y \in Nat /\ Away(x, j) <= Away(y, j) /\ Away(y, k) <= Away(x, k)
    BY NearestIs
  <2> HIDE DEF x, y
  <2>2. x <= y
    BY <1>2, <2>1 DEF Away
  <2> QED BY <2>2 DEF x, y
<1> QED BY <1>1, <1>2

StrikeNames == {"shortPut", "longPut", "shortCall", "longCall"}
StrikeSet == [StrikeNames -> Nat]

LEMMA PaperConstants ==
  /\ MaxDay \in Nat /\ Reach \in Nat /\ Step \in Nat \ {0} /\ Wings \in Nat \ {0}
  /\ Expiries \in SUBSET (0..MaxDay) /\ Lookback \in Nat /\ MaxFaults \in Nat
  /\ Spots \subseteq Nat /\ Closes \subseteq Nat /\ Strikes \subseteq Nat
  /\ \A gap \in Gaps : Strikes \ {gap} \in SUBSET Nat /\ Strikes \ {gap} # {}
  /\ -1 \notin Closes /\ -1 \notin Spots
BY PaperAssumption

LEMMA PremiumIsInt ==
  ASSUME NEW s \in Int, NEW k \in Int
  PROVE  Premium(s, k) \in Int
<1> DEFINE v == 4 - (IF k > s THEN k - s ELSE s - k)
<1>1. v \in Int
  OBVIOUS
<1> HIDE DEF v
<1>2. {1, v} \in SUBSET Int /\ {1, v} # {} /\ IsFiniteSet({1, v})
  <2>1. IsFiniteSet({1} \cup {v})
    BY FS_Singleton, FS_AddElement
  <2>2. {1, v} = {1} \cup {v}
    OBVIOUS
  <2>3. IsFiniteSet({1, v})
    BY <2>1, <2>2, Zenon
  <2> QED BY <1>1, <2>3
<1>3. Max({1, v}) \in {1, v}
  BY <1>2, MaxExists
<1>4. Premium(s, k) = Max({1, v})
  BY DEF Premium, v
<1> QED BY <1>1, <1>3, <1>4

(* The condor of a snapshot: its strikes are quoted and in order, and the  *)
(* loss on record is that of its put wing.                                 *)
LEMMA EnteredIs ==
  ASSUME NEW s \in Spots, NEW gap \in Gaps
  PROVE  /\ Entered[s][gap] = EnteredOn(s, gap)
         /\ EnteredOn(s, gap) \in [strikes : StrikeSet, credit : Int, maxLoss : Int]
         /\ Ordered(EnteredOn(s, gap).strikes)
         /\ EnteredOn(s, gap).maxLoss =
              Positive(PutWing(EnteredOn(s, gap).strikes) - EnteredOn(s, gap).credit)
<1> USE PaperConstants
<1> DEFINE L == Strikes \ {gap}
           sp == RoundToStep(s - Reach, Step)
           sc == RoundToStep(s + Reach, Step)
           lp == sp - Wings * Step
           lc == sc + Wings * Step
           ideal == BuildCondor(s, Reach, Wings, Step)
           k == [n \in DOMAIN ideal |-> Nearest(L, ideal[n])]
           credit == Premium(s, k.shortPut) + Premium(s, k.shortCall)
                     - Premium(s, k.longPut) - Premium(s, k.longCall)
<1>1. sp \in Int /\ sc \in Int /\ sp <= sc
  <2>1. s - Reach \in Int /\ s + Reach \in Int /\ s - Reach <= s + Reach
    OBVIOUS
  <2> QED BY <2>1, RoundKeepsOrder
<1>2. ideal = [shortPut |-> sp, longPut |-> lp, shortCall |-> sc, longCall |-> lc]
  BY DEF BuildCondor
<1> HIDE DEF sp, sc
<1>3. lp \in Int /\ lc \in Int /\ lp <= sp /\ sc <= lc
  <2>1. Wings * Step \in Nat
    OBVIOUS
  <2> QED BY <1>1, <2>1
<1> HIDE DEF lp, lc, ideal
<1>4. DOMAIN ideal = StrikeNames
  BY <1>2 DEF StrikeNames
<1>5. /\ k.shortPut = Nearest(L, sp) /\ k.longPut = Nearest(L, lp)
      /\ k.shortCall = Nearest(L, sc) /\ k.longCall = Nearest(L, lc)
  BY <1>2, <1>4 DEF StrikeNames
<1>6. L \in SUBSET Nat /\ L # {}
  OBVIOUS
<1> HIDE DEF L
<1>7. \A x \in Int : Nearest(L, x) \in Nat
  BY <1>6, NearestIs
<1>8. k \in StrikeSet
  <2>1. \A n \in StrikeNames : ideal[n] \in Int
    BY <1>1, <1>2, <1>3 DEF StrikeNames
  <2> QED BY <1>4, <1>7, <2>1 DEF StrikeSet
<1>9. Ordered(k)
  <2>1. /\ Nearest(L, lp) <= Nearest(L, sp) /\ Nearest(L, sp) <= Nearest(L, sc)
        /\ Nearest(L, sc) <= Nearest(L, lc)
    BY <1>1, <1>3, <1>6, NearestKeepsOrder
  <2> QED BY <1>5, <2>1 DEF Ordered
<1>10. EnteredOn(s, gap) =
         [strikes |-> k, credit |-> credit, maxLoss |-> Positive(PutWing(k) - credit)]
  BY DEF EnteredOn, L, ideal
<1>11. k.shortPut \in Nat /\ k.longPut \in Nat /\ k.shortCall \in Nat /\ k.longCall \in Nat
  BY <1>8 DEF StrikeSet, StrikeNames
<1> HIDE DEF k
<1>12. credit \in Int
  <2>1. /\ s \in Int /\ k.shortPut \in Int /\ k.longPut \in Int
        /\ k.shortCall \in Int /\ k.longCall \in Int
    BY <1>11
  <2>2. /\ Premium(s, k.shortPut) \in Int /\ Premium(s, k.shortCall) \in Int
        /\ Premium(s, k.longPut) \in Int /\ Premium(s, k.longCall) \in Int
    BY <2>1, PremiumIsInt
  <2> QED BY <2>2
<1> HIDE DEF credit
<1>13. Positive(PutWing(k) - credit) \in Int
  BY <1>11, <1>12 DEF Positive, PutWing
<1>14. Entered[s][gap] = EnteredOn(s, gap)
  BY DEF Entered
<1> QED BY <1>8, <1>9, <1>10, <1>12, <1>13, <1>14

(* Only one wing of a condor in order can be in the money.                 *)
LEMMA CondorLoses ==
  ASSUME NEW k \in StrikeSet, Ordered(k), NEW credit \in Int, NEW s \in Int
  PROVE  /\ ResolveCondor(k, credit, s) \in Int
         /\ ResolveCondor(k, credit, s) >= credit - WiderWing(k)
         /\ PutWing(k) >= CallWing(k) =>
              -ResolveCondor(k, credit, s) <= Positive(PutWing(k) - credit)
<1>1. /\ k.shortPut \in Nat /\ k.longPut \in Nat /\ k.shortCall \in Nat /\ k.longCall \in Nat
  BY DEF StrikeSet, StrikeNames
<1> QED BY <1>1 DEF Ordered, ResolveCondor, PutLoss, CallLoss, Positive, WiderWing, PutWing, CallWing

-----------------------------------------------------------------------------
(* What is true of the ledger at every step.  A process that has read      *)
(* something holds what it read: an expiry ahead of it, a snapshot with a  *)
(* spot, the close of the expiry it is about to settle.                    *)
Ats == {"idle", "collect", "snapshot", "rate", "resolve", "record", "gate", "insert", "settle",
        "update"}

Kinds == {"none", "collector", "evening", "intraday"}
SnapSet == {NoSnapshot} \cup [spot : Spots \cup {0}, gap : Gaps]

JobSet == [at : Ats, kind : Kinds, today : Days, expiry : Days, snap : SnapSet,
           open : SUBSET Expiries, spot : Int]

TradeSet == [strikes : StrikeSet, credit : Int, maxLoss : Int, status : {"OPEN", "RESOLVED"},
             entered : Int, settled : Int, gross : Int]

TableTypes ==
  /\ date \in Days /\ phase \in {"open", "post"}
  /\ close \in [Days -> Closes \cup {NoClose}]
  /\ \A d \in Days : d < date \/ (d = date /\ phase = "post") => close[d] # NoClose
  /\ bars \subseteq {d \in Days : close[d] # NoClose} /\ rated \subseteq bars
  /\ snapshot \in [Expiries -> SnapSet]

Held(j) ==
  /\ j.at \in {"gate", "insert"} =>
       j.expiry \in Expiries /\ j.snap \in [spot : Spots, gap : Gaps]
  /\ j.at = "insert" => j.today < j.expiry
  /\ j.at \in {"settle", "update"} => j.open # {} /\ \A e \in j.open : e < date
  /\ j.at = "update" => j.spot = close[Min(j.open)]

JobsHold == job \in [Processes -> JobSet] /\ \A p \in Processes : Held(job[p])

TradeHolds(e) ==
  trade[e] # NoTrade =>
    /\ trade[e] \in TradeSet /\ Ordered(trade[e].strikes) /\ trade[e].entered < e
    /\ trade[e].maxLoss = Positive(PutWing(trade[e].strikes) - trade[e].credit)
    /\ trade[e].status = "RESOLVED" =>
         /\ e < date /\ trade[e].settled = close[e]
         /\ trade[e].gross = ResolveCondor(trade[e].strikes, trade[e].credit, trade[e].settled)

TradesHold ==
  /\ trade \in [Expiries -> TradeSet \cup {NoTrade}]
  /\ \A e \in Expiries : TradeHolds(e)

ClaimTypes == claims \in [Expiries -> [recorded : Nat, resolved : Nat]]

PaperInv == TableTypes /\ JobsHold /\ TradesHold /\ ClaimTypes /\ ClaimedOnce

LEMMA PaperInit == InitPaper => PaperInv
<1> SUFFICES ASSUME InitPaper  PROVE PaperInv
  OBVIOUS
<1> USE PaperConstants
<1>1. TableTypes
  <2>1. date = 0 /\ 0 \in Days /\ \A d \in Days : ~(d < 0)
    BY DEF InitPaper, Days
  <2> QED BY <2>1 DEF InitPaper, TableTypes, SnapSet
<1>2. JobsHold
  <2>1. Idle \in JobSet
    BY DEF Idle, JobSet, Ats, Kinds, SnapSet, Days
  <2>2. job \in [Processes -> JobSet] /\ \A p \in Processes : job[p].at = "idle"
    BY <2>1 DEF InitPaper, Idle
  <2> QED BY <2>2 DEF JobsHold, Held
<1>3. TradesHold
  BY DEF InitPaper, TradesHold, TradeHolds
<1>4. ClaimTypes /\ ClaimedOnce
  BY DEF InitPaper, ClaimTypes, ClaimedOnce, NoTrade
<1> QED BY <1>1, <1>2, <1>3, <1>4 DEF PaperInv

(* The earliest of a set of expiries. *)
LEMMA EarliestIs ==
  ASSUME NEW S \in SUBSET Expiries, S # {}
  PROVE  Min(S) \in S /\ Min(S) \in Expiries /\ Min(S) \in Days
<1>1. S \in SUBSET Nat
  BY PaperConstants
<1>2. Min(S) \in S
  BY <1>1, MinExists
<1> QED BY <1>2, PaperConstants DEF Days

(* A step of one process leaves the market day alone.                      *)
LEMMA JobMoves ==
  ASSUME JobsHold, UNCHANGED <<date, close>>, NEW p \in Processes,
         NEW j \in JobSet, Held(j), job' = [job EXCEPT ![p] = j]
  PROVE  JobsHold'
<1>1. job' \in [Processes -> JobSet]
  BY DEF JobsHold
<1>2. ASSUME NEW q \in Processes  PROVE Held(job[q])'
  <2>1. job'[q] = (IF q = p THEN j ELSE job[q])
    BY DEF JobsHold
  <2>2. Held(job'[q])
    BY <2>1 DEF JobsHold
  <2> QED BY <2>2 DEF Held
<1> QED BY <1>1, <1>2 DEF JobsHold

LEMMA Moves ==
  ASSUME JobsHold, NEW p \in Processes
  PROVE  /\ job[p] \in JobSet
         /\ \A at1 \in Ats : [job[p] EXCEPT !.at = at1] \in JobSet
         /\ AfterRecord(p) \in JobSet /\ Held(AfterRecord(p))
         /\ AfterResolve(p) \in JobSet /\ Held(AfterResolve(p))
         /\ Idle \in JobSet /\ Held(Idle)
<1>1. job[p] \in JobSet
  BY DEF JobsHold
<1>2. Idle \in JobSet /\ Idle.at = "idle"
  BY PaperConstants DEF Idle, JobSet, Ats, Kinds, SnapSet, Days
<1>3. \A at1 \in Ats : [job[p] EXCEPT !.at = at1] \in JobSet /\ [job[p] EXCEPT !.at = at1].at = at1
  BY <1>1 DEF JobSet
<1>4. AfterRecord(p) \in JobSet /\ AfterRecord(p).at \in {"idle", "resolve"}
  BY <1>2, <1>3 DEF AfterRecord, Ats
<1>5. AfterResolve(p) \in JobSet /\ AfterResolve(p).at \in {"idle", "record"}
  BY <1>2, <1>3 DEF AfterResolve, Ats
<1> QED BY <1>1, <1>2, <1>3, <1>4, <1>5 DEF Held

LEMMA NextOpenHolds ==
  ASSUME JobsHold, NEW p \in Processes, NEW left \in SUBSET Expiries,
         \A e \in left : e < date
  PROVE  NextOpen(p, left) \in JobSet /\ Held(NextOpen(p, left))
<1>1. CASE left = {}
  <2>1. AfterResolve(p) \in JobSet /\ AfterResolve(p).at \in {"idle", "record"}
    BY Moves DEF AfterResolve, Idle, JobSet
  <2>2. NextOpen(p, left) = [AfterResolve(p) EXCEPT !.open = {}, !.spot = 0]
    BY <1>1 DEF NextOpen
  <2>3. NextOpen(p, left) \in JobSet /\ NextOpen(p, left).at \in {"idle", "record"}
    <3> DEFINE r == AfterResolve(p)
    <3>1. r \in JobSet /\ r.at \in {"idle", "record"}
      BY <2>1
    <3> HIDE DEF r
    <3>2. {} \in SUBSET Expiries
      OBVIOUS
    <3>3. PICK n \in Int : n = 0
      OBVIOUS
    <3>4. [r EXCEPT !.open = {}, !.spot = n] \in JobSet /\ [r EXCEPT !.open = {}, !.spot = n].at = r.at
      BY <3>1, <3>2 DEF JobSet
    <3> QED BY <2>2, <3>1, <3>3, <3>4 DEF r
  <2> QED BY <2>3 DEF Held
<1>2. CASE left # {}
  <2>1. NextOpen(p, left) = [job[p] EXCEPT !.at = "settle", !.open = left, !.spot = 0]
    BY <1>2 DEF NextOpen
  <2>2. NextOpen(p, left) \in JobSet /\ NextOpen(p, left).at = "settle"
        /\ NextOpen(p, left).open = left
    <3> DEFINE r == job[p]
    <3>1. r \in JobSet
      BY Moves
    <3> HIDE DEF r
    <3>2. PICK n \in Int : n = 0
      OBVIOUS
    <3>3. /\ [r EXCEPT !.at = "settle", !.open = left, !.spot = n] \in JobSet
          /\ [r EXCEPT !.at = "settle", !.open = left, !.spot = n].at = "settle"
          /\ [r EXCEPT !.at = "settle", !.open = left, !.spot = n].open = left
      BY <3>1 DEF JobSet, Ats
    <3> QED BY <2>1, <3>2, <3>3 DEF r
  <2> QED BY <1>2, <2>2 DEF Held
<1> QED BY <1>1, <1>2

(* The days that go by: what has a close keeps it.                         *)
LEMMA DayFacts ==
  ASSUME TableTypes, SessionTurns
  PROVE  /\ date' \in Days /\ date <= date'
         /\ \A d \in Days : d < date => close'[d] = close[d]
<1>1. date \in Nat /\ date <= MaxDay /\ MaxDay \in Nat
  BY PaperConstants DEF TableTypes, Days
<1>2. CASE phase = "open" /\ UNCHANGED date
  <2>1. \A d \in Days : d < date => d # date
    BY <1>1 DEF Days
  <2>2. \A d \in Days : d < date => close'[d] = close[d]
    BY <1>2, <2>1 DEF SessionTurns, TableTypes
  <2> QED BY <1>1, <1>2, <2>2 DEF TableTypes
<1>3. CASE date' = date + 1 /\ date < MaxDay /\ UNCHANGED close
  BY <1>1, <1>3 DEF Days
<1> QED BY <1>2, <1>3 DEF SessionTurns

LEMMA TableStep ==
  ASSUME TableTypes, PaperNext
  PROVE  TableTypes'
<1> USE PaperConstants
<1>0. date \in Nat /\ date <= MaxDay
  BY DEF TableTypes, Days
<1>1. CASE SessionTurns
  <2>1. date' \in Days /\ date <= date' /\ UNCHANGED <<snapshot, bars, rated>>
    BY <1>1, DayFacts DEF SessionTurns, tables
  <2>2. CASE phase = "open"
    <3>1. PICK c \in Closes : close' = [close EXCEPT ![date] = c]
      BY <1>1, <2>2 DEF SessionTurns
    <3>2. date' = date /\ phase' = "post"
      BY <1>1, <2>2 DEF SessionTurns
    <3>3. /\ close' \in [Days -> Closes \cup {NoClose}] /\ close'[date] # NoClose
          /\ \A d \in Days : d # date => close'[d] = close[d]
      BY <3>1 DEF TableTypes, NoClose
    <3>4. \A d \in Days : close[d] # NoClose => close'[d] # NoClose
      BY <3>3
    <3>5. \A d \in Days : d < date' \/ (d = date' /\ phase' = "post") => close'[d] # NoClose
      BY <3>2, <3>3, <3>4 DEF TableTypes
    <3>6. bars' \subseteq {d \in Days : close'[d] # NoClose}
      BY <2>1, <3>4 DEF TableTypes
    <3> QED BY <2>1, <3>2, <3>3, <3>5, <3>6 DEF TableTypes
  <2>3. CASE phase = "post"
    <3>1. date' = date + 1 /\ phase' = "open" /\ UNCHANGED close
      BY <1>1, <2>3 DEF SessionTurns
    <3>2. \A d \in Days : d < date' => d < date \/ d = date
      BY <1>0, <3>1 DEF Days
    <3> QED BY <2>1, <2>3, <3>1, <3>2 DEF TableTypes
  <2> QED BY <1>1, <2>2, <2>3 DEF SessionTurns
<1>2. ASSUME NEW p \in Processes, CollectsBars(p)  PROVE TableTypes'
  <2>1. UNCHANGED <<date, phase, close, snapshot, rated>>
    BY <1>2 DEF CollectsBars, marketDay
  <2>2. bars' = bars \/ (phase = "post" /\ bars' = bars \cup Window)
    BY <1>2 DEF CollectsBars, OffHours, TableTypes
  <2>3. phase = "post" => \A d \in Window : d \in Days /\ close[d] # NoClose
    BY <1>0 DEF Window, TableTypes, Days
  <2>4. bars' \subseteq {d \in Days : close[d] # NoClose} /\ bars \subseteq bars'
    BY <2>2, <2>3 DEF TableTypes
  <2> QED BY <2>1, <2>4 DEF TableTypes
<1>3. ASSUME NEW p \in Processes, Snapshots(p)  PROVE TableTypes'
  <2>1. UNCHANGED <<date, phase, close, bars, rated>>
    BY <1>3 DEF Snapshots, marketDay
  <2>2. \/ UNCHANGED snapshot
        \/ \E e \in Expiries, s \in Spots, gap \in Gaps :
             snapshot' = [snapshot EXCEPT ![e] = [spot |-> s, gap |-> gap]]
    BY <1>3 DEF Snapshots
  <2>3. snapshot' \in [Expiries -> SnapSet]
    BY <2>2 DEF TableTypes, SnapSet
  <2> QED BY <2>1, <2>3 DEF TableTypes
<1>4. ASSUME NEW p \in Processes, Rates(p)  PROVE TableTypes'
  <2>1. UNCHANGED <<date, phase, close, bars, snapshot>> /\ rated' \in {bars, rated}
    BY <1>4 DEF Rates, marketDay
  <2> QED BY <2>1 DEF TableTypes
<1>5. ASSUME NEW e \in Expiries, HistoryRows(e)  PROVE TableTypes'
  <2>1. UNCHANGED <<date, phase, close, bars, rated>>
    BY <1>5 DEF HistoryRows, marketDay
  <2>2. snapshot[e] \in [spot : Spots \cup {0}, gap : Gaps]
    BY <1>5 DEF HistoryRows, TableTypes, SnapSet
  <2>3. snapshot' = [snapshot EXCEPT ![e] = [snapshot[e] EXCEPT !.spot = 0]]
    BY <1>5 DEF HistoryRows
  <2>4. [snapshot[e] EXCEPT !.spot = 0] \in [spot : Spots \cup {0}, gap : Gaps]
    BY <2>2
  <2>5. snapshot' \in [Expiries -> SnapSet]
    BY <2>3, <2>4 DEF TableTypes, SnapSet
  <2> QED BY <2>1, <2>5 DEF TableTypes
<1>6. CASE UNCHANGED <<marketDay, tables>>
  BY <1>6 DEF marketDay, tables, TableTypes
<1>7. ASSUME NEW p \in Processes,
             Dies(p) \/ (\E kind \in {"collector", "evening", "intraday"} : Starts(p, kind))
             \/ (\E sells \in BOOLEAN : Gate(p, sells)) \/ ReadsChain(p) \/ Records(p)
             \/ ReadsOpen(p) \/ ReadsClose(p) \/ Resolves(p)
      PROVE  UNCHANGED <<marketDay, tables>>
  BY <1>7 DEF Dies, Starts, Gate, ReadsChain, Records, ReadsOpen, ReadsClose, Resolves
<1> QED BY <1>1, <1>2, <1>3, <1>4, <1>5, <1>6, <1>7 DEF PaperNext, Runs

(* What a process does to its own place.                                   *)
LEMMA JobStep ==
  ASSUME PaperInv, PaperNext
  PROVE  JobsHold'
<1> USE PaperConstants
<1>0. TableTypes /\ JobsHold
  BY DEF PaperInv
<1>1. CASE SessionTurns
  <2>1. /\ job' = job /\ date <= date' /\ date' \in Days
        /\ \A d \in Days : d < date => close'[d] = close[d]
    BY <1>0, <1>1, DayFacts DEF SessionTurns
  <2>2. ASSUME NEW p \in Processes  PROVE Held(job[p])'
    <3>1. Held(job[p]) /\ job[p].open \in SUBSET Expiries
      BY <1>0 DEF JobsHold, JobSet
    <3>2. \A e \in Expiries : e < date => e < date'
      BY <1>0, <2>1 DEF TableTypes, Days
    <3>3. job[p].at = "update" => close'[Min(job[p].open)] = close[Min(job[p].open)]
      BY <2>1, <3>1, EarliestIs DEF Held
    <3> QED BY <2>1, <3>1, <3>2, <3>3 DEF Held
  <2> QED BY <1>0, <2>1, <2>2 DEF JobsHold
<1>2. CASE \E e \in Expiries : HistoryRows(e)
  BY <1>0, <1>2 DEF HistoryRows, marketDay, JobsHold, Held
<1>3. ASSUME NEW p \in Processes, Dies(p)  PROVE JobsHold'
  BY <1>0, <1>3, JobMoves, Moves DEF Dies, marketDay
<1>4. ASSUME NEW p \in Processes, NEW kind \in {"collector", "evening", "intraday"},
             Starts(p, kind)
      PROVE  JobsHold'
  <2> DEFINE where == CASE kind = "collector" -> "collect"
                        [] kind = "evening" -> "record"
                        [] kind = "intraday" -> "snapshot"
             j == [Idle EXCEPT !.at = where, !.kind = kind]
  <2>1. where \in {"collect", "record", "snapshot"} /\ kind \in Kinds
    BY DEF Kinds
  <2> HIDE DEF where
  <2>2. Idle \in JobSet
    BY <1>0, Moves
  <2>3. j \in JobSet /\ j.at = where
    BY <2>1, <2>2 DEF JobSet, Ats
  <2>4. job' = [job EXCEPT ![p] = j] /\ UNCHANGED <<date, close>>
    BY <1>4 DEF Starts, marketDay, where
  <2> HIDE DEF j
  <2>5. Held(j)
    BY <2>1, <2>3 DEF Held
  <2> QED BY <1>0, <2>3, <2>4, <2>5, JobMoves
<1>5. ASSUME NEW p \in Processes, CollectsBars(p) \/ Snapshots(p) \/ Rates(p)
      PROVE  JobsHold'
  <2>1. PICK where \in {"snapshot", "rate", "record", "resolve"} : Goes(p, where)
    BY <1>5 DEF CollectsBars, Snapshots, Rates
  <2> DEFINE j == [job[p] EXCEPT !.at = where]
  <2>2. job' = [job EXCEPT ![p] = j] /\ UNCHANGED <<date, close>>
    BY <1>5, <2>1 DEF Goes, CollectsBars, Snapshots, Rates, marketDay
  <2>3. j \in JobSet /\ j.at = where
    <3>1. job[p] \in JobSet
      BY <1>0, Moves
    <3> QED BY <3>1 DEF Ats, JobSet
  <2> HIDE DEF j
  <2>4. Held(j)
    BY <2>1, <2>3 DEF Held
  <2> QED BY <1>0, <2>2, <2>3, <2>4, JobMoves
<1>6. ASSUME NEW p \in Processes, ReadsChain(p)  PROVE JobsHold'
  <2> DEFINE first == Min(Offered)
             j == [job[p] EXCEPT !.at = "gate", !.today = date, !.expiry = first,
                                 !.snap = snapshot[first]]
  <2>1. UNCHANGED <<date, close>>
    BY <1>6 DEF ReadsChain, marketDay
  <2>2. CASE Offered = {} \/ snapshot[first].spot = 0
    BY <1>0, <1>6, <2>1, <2>2, JobMoves, Moves DEF ReadsChain
  <2>3. CASE ~(Offered = {} \/ snapshot[first].spot = 0)
    <3>1. first \in Offered /\ first \in Expiries /\ first \in Days
      BY <2>3, EarliestIs DEF Offered
    <3>2. snapshot[first] \in [spot : Spots \cup {0}, gap : Gaps]
      BY <1>0, <3>1 DEF Offered, TableTypes, SnapSet
    <3>3. snapshot[first] \in [spot : Spots, gap : Gaps] /\ snapshot[first] \in SnapSet
      BY <2>3, <3>2 DEF SnapSet
    <3>4. job' = [job EXCEPT ![p] = j]
      BY <1>6, <2>3 DEF ReadsChain
    <3> HIDE DEF first
    <3>5. job[p] \in JobSet /\ date \in Days
      BY <1>0, Moves DEF TableTypes
    <3>6. j \in JobSet /\ j.at = "gate" /\ j.expiry = first /\ j.snap = snapshot[first]
      BY <3>1, <3>3, <3>5 DEF JobSet, Ats
    <3> HIDE DEF j
    <3>7. Held(j)
      BY <3>1, <3>3, <3>6 DEF Held
    <3> QED BY <1>0, <2>1, <3>4, <3>6, <3>7, JobMoves
  <2> QED BY <2>2, <2>3
<1>7. ASSUME NEW p \in Processes, NEW sells \in BOOLEAN, Gate(p, sells)  PROVE JobsHold'
  <2> DEFINE j == [job[p] EXCEPT !.at = "insert"]
  <2>1. UNCHANGED <<date, close>> /\ job[p].at = "gate"
    BY <1>7 DEF Gate, marketDay, At
  <2>2. CASE job' = [job EXCEPT ![p] = AfterRecord(p)]
    BY <1>0, <2>1, <2>2, JobMoves, Moves
  <2>3. CASE job' = [job EXCEPT ![p] = j] /\ job[p].expiry > job[p].today
    <3>1. job[p] \in JobSet /\ Held(job[p])
      BY <1>0 DEF JobsHold
    <3>2. /\ j \in JobSet /\ j.at = "insert" /\ j.expiry = job[p].expiry /\ j.snap = job[p].snap
          /\ j.today = job[p].today
      BY <3>1 DEF JobSet, Ats
    <3>3. job[p].today < job[p].expiry
      BY <2>3, <3>1 DEF JobSet, Days
    <3> HIDE DEF j
    <3>4. Held(j)
      BY <2>1, <3>1, <3>2, <3>3 DEF Held
    <3> QED BY <1>0, <2>1, <2>3, <3>2, <3>4, JobMoves DEF j
  <2> QED BY <1>7, <2>2, <2>3 DEF Gate
<1>8. ASSUME NEW p \in Processes, Records(p)  PROVE JobsHold'
  BY <1>0, <1>8, JobMoves, Moves DEF Records, marketDay
<1>9. ASSUME NEW p \in Processes, ReadsOpen(p)  PROVE JobsHold'
  <2> DEFINE j == [job[p] EXCEPT !.at = "settle", !.open = Matured]
  <2>1. UNCHANGED <<date, close>>
    BY <1>9 DEF ReadsOpen, marketDay
  <2>2. CASE Matured = {}
    BY <1>0, <1>9, <2>1, <2>2, JobMoves, Moves DEF ReadsOpen
  <2>3. CASE Matured # {}
    <3>1. job' = [job EXCEPT ![p] = j]
      BY <1>9, <2>3 DEF ReadsOpen
    <3>2. job[p] \in JobSet /\ Matured \in SUBSET Expiries
      BY <1>0, Moves DEF Matured
    <3>3. j \in JobSet /\ j.at = "settle" /\ j.open = Matured
      BY <3>2 DEF JobSet, Ats
    <3> HIDE DEF j
    <3>4. Held(j)
      BY <2>3, <3>3 DEF Held, Matured
    <3> QED BY <1>0, <2>1, <3>1, <3>3, <3>4, JobMoves
  <2> QED BY <2>2, <2>3
<1>10. ASSUME NEW p \in Processes, ReadsClose(p) \/ Resolves(p)  PROVE JobsHold'
  <2> DEFINE e == Min(job[p].open)
             left == job[p].open \ {e}
  <2>1. UNCHANGED <<date, close>> /\ job[p].at \in {"settle", "update"}
    BY <1>10 DEF ReadsClose, Resolves, marketDay, At
  <2>2. job[p] \in JobSet /\ Held(job[p]) /\ job[p].open \in SUBSET Expiries
    BY <1>0 DEF JobsHold, JobSet
  <2>3. e \in job[p].open /\ e \in Expiries
    BY <2>1, <2>2, EarliestIs DEF Held
  <2>4. left \in SUBSET Expiries /\ \A x \in left : x < date
    BY <2>1, <2>2 DEF Held
  <2>5. NextOpen(p, left) \in JobSet /\ Held(NextOpen(p, left))
    BY <1>0, <2>4, NextOpenHolds
  <2>6. CASE job' = [job EXCEPT ![p] = NextOpen(p, left)]
    BY <1>0, <2>1, <2>5, <2>6, JobMoves
  <2>7. CASE /\ job' = [job EXCEPT ![p] = [job[p] EXCEPT !.at = "update", !.spot = SettlementOf(e)]]
             /\ SettlementOf(e) # NoClose
    <3>1. SettlementOf(e) = close[e] /\ close[e] \in Int
      <4>1. close[e] \in Closes \cup {NoClose}
        BY <1>0, <2>3 DEF TableTypes, Days
      <4> QED BY <2>7, <4>1 DEF SettlementOf, NoClose
    <3> DEFINE c == SettlementOf(e)
               j == [job[p] EXCEPT !.at = "update", !.spot = c]
    <3>2. c \in Int /\ c = close[e]
      BY <3>1
    <3> HIDE DEF c
    <3>3. j \in JobSet /\ j.at = "update" /\ j.open = job[p].open /\ j.spot = c
      BY <2>2, <3>2 DEF JobSet, Ats
    <3>4. job' = [job EXCEPT ![p] = j]
      BY <2>7 DEF c
    <3> HIDE DEF j
    <3>5. Held(j)
      BY <2>1, <2>2, <3>2, <3>3 DEF Held
    <3> QED BY <1>0, <2>1, <3>3, <3>4, <3>5, JobMoves
  <2> QED BY <1>10, <2>6, <2>7 DEF ReadsClose, Resolves
<1> QED
  BY <1>1, <1>2, <1>3, <1>4, <1>5, <1>6, <1>7, <1>8, <1>9, <1>10 DEF PaperNext, Runs

(* What a process writes into the ledger is the entry it read for, or the  *)
(* settlement of a trade that is open still.                               *)
WritesEntry(p) ==
  LET e == job[p].expiry
  IN  /\ At(p, "insert") /\ trade[e] = NoTrade
      /\ trade' = [trade EXCEPT ![e] = Entry(p)]
      /\ claims' = [claims EXCEPT ![e].recorded = @ + 1]

WritesSettlement(p) ==
  LET e == Min(job[p].open)
  IN  /\ At(p, "update") /\ StillOpen(e)
      /\ trade' = [trade EXCEPT ![e].status = "RESOLVED", ![e].settled = job[p].spot,
                      ![e].gross = ResolveCondor(trade[e].strikes, trade[e].credit, job[p].spot)]
      /\ claims' = [claims EXCEPT ![e].resolved = @ + 1]

LEMMA Writes ==
  ASSUME PaperNext
  PROVE  \/ UNCHANGED <<trade, claims>>
         \/ /\ UNCHANGED <<date, close>>
            /\ \E p \in Processes : WritesEntry(p) \/ WritesSettlement(p)
<1>1. ASSUME NEW p \in Processes, Records(p)
      PROVE  UNCHANGED <<date, close>> /\ (WritesEntry(p) \/ UNCHANGED <<trade, claims>>)
  BY <1>1 DEF Records, Inserts, WritesEntry, marketDay
<1>2. ASSUME NEW p \in Processes, Resolves(p)
      PROVE  UNCHANGED <<date, close>> /\ (WritesSettlement(p) \/ UNCHANGED <<trade, claims>>)
  BY <1>2 DEF Resolves, WritesSettlement, marketDay
<1>3. ASSUME NEW p \in Processes,
             Dies(p) \/ (\E kind \in {"collector", "evening", "intraday"} : Starts(p, kind))
             \/ (\E sells \in BOOLEAN : Gate(p, sells)) \/ ReadsChain(p) \/ ReadsOpen(p)
             \/ ReadsClose(p) \/ CollectsBars(p) \/ Snapshots(p) \/ Rates(p)
      PROVE  UNCHANGED <<trade, claims>>
  BY <1>3 DEF Dies, Starts, Gate, ReadsChain, ReadsOpen, ReadsClose, CollectsBars, Snapshots, Rates
<1>4. SessionTurns \/ (\E e \in Expiries : HistoryRows(e)) => UNCHANGED <<trade, claims>>
  BY DEF SessionTurns, HistoryRows
<1> QED BY <1>1, <1>2, <1>3, <1>4 DEF PaperNext, Runs

(* The entry: nobody has one for that expiry.                              *)
LEMMA EntryStep ==
  ASSUME PaperInv, UNCHANGED <<date, close>>, NEW p \in Processes, WritesEntry(p)
  PROVE  TradesHold' /\ ClaimTypes' /\ ClaimedOnce'
<1> USE PaperConstants
<1> DEFINE on == EnteredOn(job[p].snap.spot, job[p].snap.gap)
           t == [strikes |-> on.strikes, credit |-> on.credit, maxLoss |-> on.maxLoss,
                 status |-> "OPEN", entered |-> job[p].today, settled |-> NoClose, gross |-> 0]
<1>0. TradesHold /\ ClaimTypes /\ ClaimedOnce /\ job[p] \in JobSet /\ Held(job[p])
  BY DEF PaperInv, JobsHold
<1>0a. PICK e \in Expiries : e = job[p].expiry
  BY <1>0 DEF WritesEntry, At, Held
<1>1. /\ e \in Expiries /\ e \in Int /\ job[p].today \in Int /\ job[p].today < e
      /\ job[p].snap \in [spot : Spots, gap : Gaps]
  BY <1>0, <1>0a DEF WritesEntry, At, Held, JobSet, Days
<1>2. /\ Entry(p) = t
      /\ on \in [strikes : StrikeSet, credit : Int, maxLoss : Int] /\ Ordered(on.strikes)
      /\ on.maxLoss = Positive(PutWing(on.strikes) - on.credit)
  BY <1>1, EnteredIs DEF Entry
<1>3. trade' = [trade EXCEPT ![e] = t] /\ trade[e] = NoTrade
  BY <1>0a, <1>2 DEF WritesEntry
<1> HIDE DEF on
<1>4. t \in TradeSet
  BY <1>1, <1>2 DEF TradeSet, NoClose
<1>5. /\ t.status = "OPEN" /\ t.strikes = on.strikes /\ t.entered = job[p].today
      /\ t.credit = on.credit /\ t.maxLoss = on.maxLoss
  OBVIOUS
<1>6. t # NoTrade
  BY <1>5 DEF NoTrade
<1> HIDE DEF t
<1>7. /\ trade'[e] = t /\ \A x \in Expiries : x # e => trade'[x] = trade[x]
      /\ trade' \in [Expiries -> TradeSet \cup {NoTrade}]
  BY <1>0, <1>1, <1>3, <1>4 DEF TradesHold
<1>8. TradesHold'
  <2>1. ASSUME NEW x \in Expiries, x # e  PROVE TradeHolds(x)'
    BY <1>0, <1>7, <2>1 DEF TradesHold, TradeHolds
  <2>2. TradeHolds(e)'
    BY <1>1, <1>2, <1>4, <1>5, <1>7 DEF TradeHolds
  <2> QED BY <1>7, <2>1, <2>2 DEF TradesHold
<1>9. /\ claims[e].recorded = 0 /\ claims[e].resolved = 0 /\ claims[e] \in [recorded : Nat, resolved : Nat]
  BY <1>0, <1>1, <1>3 DEF ClaimedOnce, ClaimTypes, NoTrade
<1>10. /\ claims' = [claims EXCEPT ![e] = [claims[e] EXCEPT !.recorded = claims[e].recorded + 1]]
  BY <1>0a DEF WritesEntry
<1>11. [claims[e] EXCEPT !.recorded = claims[e].recorded + 1] = [recorded |-> 1, resolved |-> 0]
  BY <1>9
<1>12. /\ claims'[e] = [recorded |-> 1, resolved |-> 0]
       /\ \A x \in Expiries : x # e => claims'[x] = claims[x]
       /\ claims' \in [Expiries -> [recorded : Nat, resolved : Nat]]
  BY <1>0, <1>1, <1>10, <1>11 DEF ClaimTypes
<1>13. ClaimedOnce'
  <2>1. ASSUME NEW x \in Expiries, x # e
        PROVE  /\ claims'[x].recorded = (IF trade'[x] = NoTrade THEN 0 ELSE 1)
               /\ claims'[x].resolved = (IF trade'[x].status = "RESOLVED" THEN 1 ELSE 0)
    BY <1>0, <1>7, <1>12, <2>1 DEF ClaimedOnce
  <2>2. /\ claims'[e].recorded = (IF trade'[e] = NoTrade THEN 0 ELSE 1)
        /\ claims'[e].resolved = (IF trade'[e].status = "RESOLVED" THEN 1 ELSE 0)
    BY <1>5, <1>6, <1>7, <1>12
  <2> QED BY <2>1, <2>2 DEF ClaimedOnce
<1> QED BY <1>8, <1>12, <1>13 DEF ClaimTypes

(* The settlement: the trade is open, its expiry is over, and what the     *)
(* process holds is the close of that day.                                 *)
LEMMA SettlementStep ==
  ASSUME PaperInv, UNCHANGED <<date, close>>, NEW p \in Processes, WritesSettlement(p)
  PROVE  TradesHold' /\ ClaimTypes' /\ ClaimedOnce'
<1> USE PaperConstants
<1> DEFINE c == job[p].spot
<1>0. TradesHold /\ ClaimTypes /\ ClaimedOnce /\ job[p] \in JobSet /\ Held(job[p])
  BY DEF PaperInv, JobsHold
<1>0a. /\ job[p].at = "update" /\ job[p].open # {} /\ job[p].open \in SUBSET Expiries
  BY <1>0 DEF WritesSettlement, At, Held, JobSet
<1>0b. PICK e \in Expiries : e = Min(job[p].open) /\ e \in job[p].open
  BY <1>0a, EarliestIs
<1> DEFINE g == ResolveCondor(trade[e].strikes, trade[e].credit, c)
           t == [trade[e] EXCEPT !.status = "RESOLVED", !.settled = c, !.gross = g]
<1>1. e < date /\ c = close[e] /\ c \in Int
  BY <1>0, <1>0a, <1>0b DEF Held, JobSet
<1>2. trade' = [trade EXCEPT ![e] = t] /\ trade[e].status = "OPEN"
  BY <1>0b DEF WritesSettlement, StillOpen
<1>3. trade[e] # NoTrade /\ trade[e] \in TradeSet /\ TradeHolds(e)
  BY <1>0, <1>1, <1>2 DEF TradesHold, NoTrade
<1> HIDE DEF c
<1>4. g \in Int
  <2>1. trade[e].strikes \in StrikeSet /\ trade[e].credit \in Int /\ Ordered(trade[e].strikes)
    BY <1>3 DEF TradeSet, TradeHolds
  <2> QED BY <1>1, <2>1, CondorLoses
<1>5. /\ g = ResolveCondor(trade[e].strikes, trade[e].credit, c)
  OBVIOUS
<1> HIDE DEF g
<1>6. /\ t \in TradeSet /\ t.status = "RESOLVED" /\ t.settled = c /\ t.gross = g
      /\ t.strikes = trade[e].strikes /\ t.credit = trade[e].credit
      /\ t.maxLoss = trade[e].maxLoss /\ t.entered = trade[e].entered
  BY <1>1, <1>3, <1>4 DEF TradeSet
<1> HIDE DEF t
<1>7. t # NoTrade
  BY <1>6 DEF NoTrade
<1>8. /\ trade'[e] = t /\ \A x \in Expiries : x # e => trade'[x] = trade[x]
      /\ trade' \in [Expiries -> TradeSet \cup {NoTrade}]
  BY <1>0, <1>1, <1>2, <1>6 DEF TradesHold
<1>9. TradesHold'
  <2>1. ASSUME NEW x \in Expiries, x # e  PROVE TradeHolds(x)'
    BY <1>0, <1>8, <2>1 DEF TradesHold, TradeHolds
  <2>2. TradeHolds(e)'
    BY <1>1, <1>3, <1>5, <1>6, <1>8 DEF TradeHolds
  <2> QED BY <1>8, <2>1, <2>2 DEF TradesHold
<1>10. /\ claims[e].recorded = 1 /\ claims[e].resolved = 0
       /\ claims[e] \in [recorded : Nat, resolved : Nat]
  BY <1>0, <1>1, <1>2, <1>3 DEF ClaimedOnce, ClaimTypes
<1>11. claims' = [claims EXCEPT ![e] = [claims[e] EXCEPT !.resolved = claims[e].resolved + 1]]
  BY <1>0b DEF WritesSettlement
<1>12. [claims[e] EXCEPT !.resolved = claims[e].resolved + 1] = [recorded |-> 1, resolved |-> 1]
  BY <1>10
<1>13. /\ claims'[e] = [recorded |-> 1, resolved |-> 1]
       /\ \A x \in Expiries : x # e => claims'[x] = claims[x]
       /\ claims' \in [Expiries -> [recorded : Nat, resolved : Nat]]
  BY <1>0, <1>1, <1>11, <1>12 DEF ClaimTypes
<1>14. ClaimedOnce'
  <2>1. ASSUME NEW x \in Expiries, x # e
        PROVE  /\ claims'[x].recorded = (IF trade'[x] = NoTrade THEN 0 ELSE 1)
               /\ claims'[x].resolved = (IF trade'[x].status = "RESOLVED" THEN 1 ELSE 0)
    BY <1>0, <1>8, <1>13, <2>1 DEF ClaimedOnce
  <2>2. /\ claims'[e].recorded = (IF trade'[e] = NoTrade THEN 0 ELSE 1)
        /\ claims'[e].resolved = (IF trade'[e].status = "RESOLVED" THEN 1 ELSE 0)
    BY <1>6, <1>7, <1>8, <1>13
  <2> QED BY <2>1, <2>2 DEF ClaimedOnce
<1> QED BY <1>9, <1>13, <1>14 DEF ClaimTypes

LEMMA LedgerStep ==
  ASSUME PaperInv, PaperNext
  PROVE  TradesHold' /\ ClaimTypes' /\ ClaimedOnce'
<1>0. TableTypes /\ TradesHold /\ ClaimTypes /\ ClaimedOnce
  BY DEF PaperInv
<1>1. CASE UNCHANGED <<trade, claims>>
  <2>1. ClaimTypes' /\ ClaimedOnce'
    BY <1>0, <1>1 DEF ClaimTypes, ClaimedOnce
  <2>2. \A e \in Expiries : e < date => e < date' /\ close'[e] = close[e]
    <3>1. CASE SessionTurns
      <4>1. date \in Int /\ date' \in Int /\ date <= date' /\ \A e \in Expiries : e \in Int /\ e \in Days
        BY <1>0, <3>1, DayFacts, PaperConstants DEF TableTypes, Days
      <4> QED BY <1>0, <3>1, <4>1, DayFacts
    <3>2. CASE ~SessionTurns
      BY <3>2 DEF PaperNext, Runs, CollectsBars, Snapshots, Rates, ReadsChain, Records, ReadsOpen,
         ReadsClose, Resolves, Gate, Dies, Starts, HistoryRows, marketDay
    <3> QED BY <3>1, <3>2
  <2>3. ASSUME NEW e \in Expiries  PROVE TradeHolds(e)'
    BY <1>0, <1>1, <2>2 DEF TradesHold, TradeHolds
  <2> QED BY <1>0, <1>1, <2>1, <2>3 DEF TradesHold
<1>2. CASE ~ UNCHANGED <<trade, claims>>
  BY <1>2, Writes, EntryStep, SettlementStep
<1> QED BY <1>1, <1>2

LEMMA PaperInductive ==
  /\ Init => PaperInv
  /\ PaperInv /\ [Next]_vars => PaperInv'
<1>1. Init => PaperInv
  BY PaperInit DEF Init
<1>2. ASSUME PaperInv, PaperNext  PROVE PaperInv'
  BY <1>2, TableStep, JobStep, LedgerStep DEF PaperInv
<1>3. ASSUME PaperInv, UNCHANGED paperVars  PROVE PaperInv'
  <2>1. UNCHANGED <<date, phase, close, snapshot, bars, rated, trade, job, claims>>
    BY <1>3 DEF paperVars, marketDay, tables
  <2>2. TableTypes' /\ ClaimTypes' /\ ClaimedOnce'
    BY <1>3, <2>1 DEF PaperInv, TableTypes, ClaimTypes, ClaimedOnce
  <2>3. JobsHold' /\ TradesHold'
    BY <1>3, <2>1 DEF PaperInv, JobsHold, Held, TradesHold, TradeHolds
  <2> QED BY <2>2, <2>3 DEF PaperInv
<1>4. [Next]_vars => PaperNext \/ UNCHANGED paperVars
  BY DEF Next, vars
<1> QED BY <1>1, <1>2, <1>3, <1>4

LEMMA PaperInvSound == PaperInv => PaperSound
<1> SUFFICES ASSUME PaperInv  PROVE PaperSound
  OBVIOUS
<1> USE PaperConstants
<1>1. PaperTypeOK
  <2>1. \A e \in Expiries : trade[e].status \in {"none", "OPEN", "RESOLVED"}
    BY DEF PaperInv, TradesHold, TradeSet, NoTrade
  <2>2. \A p \in Processes : job[p].open \subseteq Expiries
    BY DEF PaperInv, JobsHold, JobSet
  <2> QED BY <2>1, <2>2 DEF PaperInv, TableTypes, PaperTypeOK
<1>2. \A e \in Expiries : trade[e].status = "RESOLVED" => trade[e] # NoTrade
  BY DEF NoTrade
<1>3. SettledAtItsExpiry
  BY <1>2 DEF PaperInv, TradesHold, TradeHolds, SettledAtItsExpiry
<1>4. LossIsBounded
  <2> SUFFICES ASSUME NEW e \in Expiries, trade[e].status = "RESOLVED"
               PROVE  /\ trade[e].gross >= trade[e].credit - WiderWing(trade[e].strikes)
                      /\ PutWing(trade[e].strikes) >= CallWing(trade[e].strikes) =>
                           -trade[e].gross <= trade[e].maxLoss
    BY DEF LossIsBounded
  <2>1. TradeHolds(e) /\ trade[e] # NoTrade
    BY <1>2 DEF PaperInv, TradesHold
  <2>2. /\ trade[e].strikes \in StrikeSet /\ trade[e].credit \in Int /\ trade[e].settled \in Int
        /\ Ordered(trade[e].strikes)
        /\ trade[e].gross = ResolveCondor(trade[e].strikes, trade[e].credit, trade[e].settled)
        /\ trade[e].maxLoss = Positive(PutWing(trade[e].strikes) - trade[e].credit)
    BY <2>1 DEF TradeHolds, TradeSet
  <2> QED BY <2>2, CondorLoses
<1> QED BY <1>1, <1>3, <1>4 DEF PaperInv, PaperSound

(* What a step may not rewrite.                                            *)
LEMMA EntryKeptStep ==
  ASSUME PaperInv, PaperNext, NEW e \in Expiries, trade[e] # NoTrade
  PROVE  /\ trade'[e].strikes = trade[e].strikes /\ trade'[e].credit = trade[e].credit
         /\ trade[e].status = "RESOLVED" => trade'[e] = trade[e]
<1>0. trade \in [Expiries -> TradeSet \cup {NoTrade}] /\ trade[e] \in TradeSet
  BY DEF PaperInv, TradesHold
<1>1. ASSUME NEW p \in Processes, WritesEntry(p)  PROVE trade'[e] = trade[e]
  BY <1>0, <1>1 DEF WritesEntry
<1>2. ASSUME NEW p \in Processes, WritesSettlement(p)
      PROVE  /\ trade'[e].strikes = trade[e].strikes /\ trade'[e].credit = trade[e].credit
             /\ trade[e].status = "RESOLVED" => trade'[e] = trade[e]
  BY <1>0, <1>2 DEF WritesSettlement, StillOpen, TradeSet
<1> QED BY <1>1, <1>2, Writes

(* fno_paper.py: however many collectors and runners overlap, repeat and   *)
(* die, each expiry's trade is recorded by one call and resolved by one,   *)
(* is entered before its expiry and settled after it at that day's own     *)
(* close, and loses no more than its wider wing less the credit.           *)
THEOREM PaperAlwaysSound == Spec => []PaperSound
BY PaperInductive, PaperInvSound, PTL DEF Spec

(* backfill.py and fno_paper.py: what the jobs have written stays.         *)
THEOREM WrittenAlwaysStays == Spec => WrittenStays
<1>1. PaperInv /\ [Next]_vars =>
        [\A e \in Expiries : trade[e] # NoTrade =>
           /\ trade'[e].strikes = trade[e].strikes /\ trade'[e].credit = trade[e].credit
           /\ trade[e].status = "RESOLVED" => trade'[e] = trade[e]]_paperVars
  <2>1. [Next]_vars => PaperNext \/ UNCHANGED paperVars
    BY DEF Next, vars
  <2> QED BY <2>1, EntryKeptStep
<1> QED BY <1>1, PaperInductive, CheckpointNeverFalls, PTL DEF Spec, WrittenStays, EntryKept

-----------------------------------------------------------------------------
(* The option history.  First the calendar: what the n-th expiry on or     *)
(* after a day is, by the rule and by the exchange's dates.                *)
LEMMA LeastFrom ==
  ASSUME NEW b \in Int, NEW S \in SUBSET Int, S # {}, \A x \in S : b <= x
  PROVE  Min(S) \in S /\ \A y \in S : Min(S) <= y
<1> DEFINE Above == {n \in Nat : b + n \in S}
<1>1. \A x \in S : x - b \in Above
  OBVIOUS
<1>2. Above \in SUBSET Nat /\ Above # {}
  BY <1>1
<1>3. PICK n \in Above : \A k \in Above : n <= k
  <2> HIDE DEF Above
  <2> QED BY <1>2, MinExists
<1>4. b + n \in S /\ \A y \in S : b + n <= y
  BY <1>1, <1>3
<1> QED BY <1>4 DEF Min

(* Two expiries of the series lie five days apart, in the week of the      *)
(* cutover, or more; and none is further than six days ahead.              *)
LEMMA WeeklyApart ==
  ASSUME NEW a \in Int, NEW b \in Int, IsWeekly(a), IsWeekly(b), a < b
  PROVE  a + 5 <= b
BY ExpiryAssumption DEF IsWeekly, Weekday, WeekdayRule

LEMMA NextWeeklySoon ==
  ASSUME NEW day \in Int
  PROVE  NextWeekly(day) <= day + 6
<1>1. NextWeekly(day) \in Int /\ \A e \in Int : day <= e /\ e < NextWeekly(day) => ~IsWeekly(e)
  BY NextWeeklyIsFirst
<1>2. PICK a \in Int : day <= a /\ a <= day + 6 /\ a % 7 = 3
  <2>1. 3 \in 0..6
    OBVIOUS
  <2> QED BY <2>1, OnOrAfterFacts DEF Weekday
<1>3. PICK b \in Int : day <= b /\ b <= day + 6 /\ b % 7 = 1
  <2>1. 1 \in 0..6
    OBVIOUS
  <2> QED BY <2>1, OnOrAfterFacts DEF Weekday
<1>4. a < Cutover => IsWeekly(a)
  BY <1>2, ExpiryAssumption DEF IsWeekly, Weekday, WeekdayRule
<1>5. b >= Cutover => IsWeekly(b)
  BY <1>3, ExpiryAssumption DEF IsWeekly, Weekday, WeekdayRule
<1>6. a < Cutover \/ b >= Cutover
  BY <1>2, <1>3, ExpiryAssumption
<1> QED BY <1>1, <1>2, <1>3, <1>4, <1>5, <1>6

(* f lists the next n expiries of the series, as the code counts them.     *)
IsNth(f, day, n) ==
  f = [k \in 1..n |-> IF k = 1 THEN NextWeekly(day) ELSE NextWeekly(f[k - 1] + 1)]

LEMMA NthExists ==
  ASSUME NEW day \in Int, NEW n \in Nat \ {0}
  PROVE  \E f : IsNth(f, day, n) /\ NthWeekly(day, n) = f[n]
<1> DEFINE Bad == {k \in Nat \ {0} : ~\E f : IsNth(f, day, k)}
<1>1. Bad = {}
  <2> SUFFICES ASSUME Bad # {}  PROVE FALSE
    OBVIOUS
  <2>1. Bad \in SUBSET Nat
    OBVIOUS
  <2>2. PICK k \in Bad : \A j \in Bad : k <= j
    <3> HIDE DEF Bad
    <3> QED BY <2>1, MinExists
  <2>3. CASE k = 1
    <3>1. IsNth([i \in 1..1 |-> NextWeekly(day)], day, 1)
      BY DEF IsNth
    <3> QED BY <2>2, <2>3, <3>1
  <2>4. CASE k # 1
    <3>1. k - 1 \in Nat \ {0} /\ k - 1 \notin Bad
      BY <2>2, <2>4
    <3>2. PICK g : IsNth(g, day, k - 1)
      BY <3>1
    <3> DEFINE f == [i \in 1..k |-> IF i = k THEN NextWeekly(g[k - 1] + 1) ELSE g[i]]
    <3>3. \A i \in 1..k : i # k => i \in 1..(k - 1) /\ (i # 1 => i - 1 \in 1..(k - 1))
      BY <3>1
    <3>4. \A i \in 1..(k - 1) :
            g[i] = IF i = 1 THEN NextWeekly(day) ELSE NextWeekly(g[i - 1] + 1)
      BY <3>2 DEF IsNth
    <3>5. \A i \in 1..k :
            f[i] = IF i = 1 THEN NextWeekly(day) ELSE NextWeekly(f[i - 1] + 1)
      BY <2>2, <2>4, <3>1, <3>3, <3>4
    <3>6. IsNth(f, day, k)
      BY <3>5 DEF IsNth
    <3> QED BY <2>2, <3>6
  <2> QED BY <2>3, <2>4
<1>2. \E f : IsNth(f, day, n)
  BY <1>1
<1>3. NthWeekly(day, n) = (CHOOSE f : IsNth(f, day, n))[n]
  BY DEF NthWeekly, IsNth
<1> QED BY <1>2, <1>3


(* What f lists: increasing, a week apart at most, all of the series, and  *)
(* nothing of the series left out.                                         *)
ListsUpTo(f, day, k) ==
  /\ f[k] \in Int /\ day <= f[k] /\ f[k] <= day + 7 * k - 1 /\ IsWeekly(f[k])
  /\ \A e \in Int : day <= e /\ e <= f[k] /\ IsWeekly(e) => \E i \in 1..k : e = f[i]
  /\ \A i \in 1..(k - 1) : f[i] < f[k]

LEMMA NthLists ==
  ASSUME NEW day \in Int, NEW n \in Nat \ {0}, NEW f, IsNth(f, day, n)
  PROVE  \A k \in 1..n : ListsUpTo(f, day, k)
<1> DEFINE Bad == {k \in 1..n : ~ListsUpTo(f, day, k)}
<1> SUFFICES ASSUME Bad # {}  PROVE FALSE
  OBVIOUS
<1>1. Bad \in SUBSET Nat
  OBVIOUS
<1>2. PICK k \in Bad : \A j \in Bad : k <= j
  <2> HIDE DEF Bad
  <2> QED BY <1>1, MinExists
<1>3. k \in 1..n /\ f[k] = IF k = 1 THEN NextWeekly(day) ELSE NextWeekly(f[k - 1] + 1)
  BY <1>2 DEF IsNth
<1>4. CASE k = 1
  <2>1. f[1] = NextWeekly(day)
    BY <1>3, <1>4
  <2>2. /\ f[1] \in Int /\ day <= f[1] /\ f[1] <= day + 6 /\ IsWeekly(f[1])
        /\ \A e \in Int : day <= e /\ e < f[1] => ~IsWeekly(e)
    BY <2>1, NextWeeklyIsFirst, NextWeeklySoon
  <2>3. \A e \in Int : day <= e /\ e <= f[1] /\ IsWeekly(e) => e = f[1]
    BY <2>2
  <2>4. ListsUpTo(f, day, 1)
    BY <2>2, <2>3 DEF ListsUpTo
  <2> QED BY <1>2, <1>4, <2>4
<1>5. CASE k # 1
  <2> DEFINE p == f[k - 1]
  <2>1. k - 1 \in 1..n /\ k \in Nat /\ k > 1
    BY <1>3, <1>5
  <2>2. ListsUpTo(f, day, k - 1)
    BY <1>2, <2>1
  <2>3. /\ p \in Int /\ day <= p /\ p <= day + 7 * (k - 1) - 1
        /\ \A e \in Int : day <= e /\ e <= p /\ IsWeekly(e) => \E i \in 1..(k - 1) : e = f[i]
        /\ \A i \in 1..(k - 2) : f[i] < p
    BY <2>1, <2>2 DEF ListsUpTo
  <2>4. f[k] = NextWeekly(p + 1)
    BY <1>3, <1>5
  <2> HIDE DEF p
  <2>5. /\ f[k] \in Int /\ p + 1 <= f[k] /\ f[k] <= p + 7 /\ IsWeekly(f[k])
        /\ \A e \in Int : p + 1 <= e /\ e < f[k] => ~IsWeekly(e)
    <3>1. p + 1 \in Int
      BY <2>3
    <3> QED BY <2>3, <2>4, <3>1, NextWeeklyIsFirst, NextWeeklySoon
  <2>6. f[k] \in Int /\ day <= f[k] /\ f[k] <= day + 7 * k - 1
    BY <2>1, <2>3, <2>5
  <2>7. ASSUME NEW e \in Int, day <= e, e <= f[k], IsWeekly(e)
        PROVE  \E i \in 1..k : e = f[i]
    <3>1. CASE e <= p
      <4>1. PICK i \in 1..(k - 1) : e = f[i]
        BY <2>3, <2>7, <3>1
      <4>2. i \in 1..k
        BY <2>1
      <4> QED BY <4>1, <4>2
    <3>2. CASE ~(e <= p)
      <4>1. e = f[k] /\ k \in 1..k
        BY <2>1, <2>3, <2>5, <2>7, <3>2
      <4> QED BY <4>1
    <3> QED BY <3>1, <3>2
  <2>8. ASSUME NEW i \in 1..(k - 1)  PROVE f[i] < f[k]
    <3>1. CASE i = k - 1
      BY <2>3, <2>5, <3>1 DEF p
    <3>2. CASE i # k - 1
      <4>1. i \in 1..(k - 2) /\ i \in 1..n
        BY <1>3, <2>1, <3>2
      <4>2. f[i] < p
        BY <2>3, <4>1
      <4>3. f[i] \in Int
        <5>1. i \notin Bad
          BY <1>2, <2>1, <3>2
        <5> QED BY <4>1, <5>1 DEF ListsUpTo
      <4> QED BY <2>3, <2>5, <4>2, <4>3
    <3> QED BY <3>1, <3>2
  <2>9. ListsUpTo(f, day, k)
    BY <2>5, <2>6, <2>7, <2>8 DEF ListsUpTo
  <2> QED BY <1>2, <2>9
<1> QED BY <1>4, <1>5

(* Of a set of dates listed in order, the n-th is the last of the list.    *)
LEMMA NthIs ==
  ASSUME NEW dates \in SUBSET Int, IsFiniteSet(dates), NEW n \in Nat \ {0}, NEW f,
         \A i \in 1..n : f[i] \in dates,
         \A j \in 1..n : \A i \in 1..(j - 1) : f[i] < f[j],
         \A y \in dates : y <= f[n] => \E i \in 1..n : y = f[i]
  PROVE  NthOf(dates, n) = f[n]
<1> DEFINE Before(e) == {x \in dates : x < e}
           m == n - 1
<1>1. n \in 1..n /\ m \in Nat /\ \A i \in 1..m : i \in 1..n /\ i \in 1..(n - 1)
  OBVIOUS
<1>0. f[n] \in dates /\ f[n] \in Int /\ \A i \in 1..m : f[i] < f[n]
  BY <1>1
<1>2. Cardinality(Before(f[n])) = m
  <2> DEFINE g == [i \in 1..m |-> f[i]]
             T == Before(f[n])
  <2>1. \A i \in 1..m : i \in 1..n /\ f[i] \in dates /\ f[i] < f[n]
    BY <1>0, <1>1
  <2>2. g \in [1..m -> T]
    BY <2>1
  <2>3. \A i, j \in 1..m : i # j => g[i] # g[j]
    <3> SUFFICES ASSUME NEW i \in 1..m, NEW j \in 1..m, i < j  PROVE f[i] # f[j]
      BY <1>1
    <3>1. j \in 1..n /\ i \in 1..(j - 1)
      BY <1>1
    <3>2. f[i] < f[j] /\ f[i] \in Int
      BY <2>1, <3>1
    <3> QED BY <3>2
  <2>4. ASSUME NEW y \in T  PROVE \E i \in 1..m : g[i] = y
    <3>1. y \in dates /\ y < f[n] /\ y \in Int
      OBVIOUS
    <3>2. PICK i \in 1..n : y = f[i]
      BY <1>0, <3>1
    <3>3. i # n
      BY <1>0, <3>1, <3>2
    <3>4. i \in 1..m
      BY <3>3
    <3> QED BY <3>2, <3>4
  <2>5. IsFiniteSet(1..m) /\ Cardinality(1..m) = m
    BY <1>1, FS_Interval
  <2> HIDE DEF g, T, m
  <2>6. g \in Bijection(1..m, T)
    BY <2>2, <2>3, <2>4, Fun_IsBij
  <2>7. ExistsBijection(1..m, T)
    BY <2>6 DEF ExistsBijection
  <2>8. Cardinality(T) = Cardinality(1..m)
    BY <2>5, <2>7, FS_Bijection
  <2> QED BY <2>5, <2>8 DEF T
<1>3. ASSUME NEW a \in dates, NEW b \in dates, a < b
      PROVE  Cardinality(Before(a)) < Cardinality(Before(b))
  <2>1. Before(a) \in SUBSET Before(b) /\ Before(b) \in SUBSET dates /\ a \in Before(b)
        /\ a \notin Before(a)
    <3>1. \A x, y, z \in Int : ~(x < x) /\ (x < y /\ y < z => x < z)
      OBVIOUS
    <3>2. a \in Int /\ b \in Int /\ \A x \in dates : x \in Int
      OBVIOUS
    <3>3. \A x \in dates : x < a => x < b
      BY <1>3, <3>1, <3>2
    <3> QED BY <1>3, <3>1, <3>2, <3>3
  <2> DEFINE A == Before(a)
             B == Before(b)
  <2> HIDE DEF Before
  <2>2. IsFiniteSet(B) /\ IsFiniteSet(A)
    BY <2>1, FS_Subset
  <2>3. Cardinality(A) <= Cardinality(B) /\ Cardinality(B) # Cardinality(A)
    BY <2>1, <2>2, FS_Subset
  <2>4. Cardinality(A) \in Nat /\ Cardinality(B) \in Nat
    BY <2>2, FS_CardinalityType
  <2> QED BY <2>3, <2>4
<1>4. ASSUME NEW e \in dates, Cardinality(Before(e)) = m  PROVE e = f[n]
  <2>1. ~(e < f[n]) /\ ~(f[n] < e)
    <3> DEFINE C(x) == Cardinality(Before(x))
    <3>1. C(e) = m /\ C(f[n]) = m
      BY <1>2, <1>4
    <3>2. /\ e < f[n] => C(e) < C(f[n])
          /\ f[n] < e => C(f[n]) < C(e)
      BY <1>0, <1>3
    <3> HIDE DEF C, m
    <3> QED BY <1>1, <3>1, <3>2
  <2> QED BY <1>0, <2>1
<1> QED BY <1>0, <1>2, <1>4 DEF NthOf


(* The n-th expiry by the rule, and the n-th by the exchange's dates: on a *)
(* trading day the second is the first's, moved.                           *)
LEMMA MovedIs ==
  ASSUME NEW a \in Int
  PROVE  Moved(a) \in Int /\ Moved(a) <= a /\ a <= Moved(a) + 1
BY DEF Moved

LEMMA NthAre ==
  ASSUME NEW day \in Int, NEW n \in Codes, NEW a, a = NthWeekly(day, n)
  PROVE  /\ a \in Int /\ day <= a /\ a <= day + 7 * n - 1 /\ IsWeekly(a)
         /\ NthOf({e \in Ahead(day) : IsWeekly(e)}, n) = a
         /\ Traded(day) =>
              /\ day <= Moved(a)
              /\ NthOf({e \in Ahead(day) : \E w \in {e, e + 1} : IsWeekly(w) /\ Moved(w) = e}, n)
                   = Moved(a)
<1>1. n \in Nat \ {0} /\ n <= MaxCode /\ MaxCode \in Nat /\ n \in 1..n
  BY HistoryAssumption DEF Codes
<1>2. PICK f : IsNth(f, day, n) /\ a = f[n]
  BY <1>1, NthExists
<1>3. \A k \in 1..n : ListsUpTo(f, day, k)
  BY <1>1, <1>2, NthLists
<1>4. /\ \A k \in 1..n : /\ f[k] \in Int /\ day <= f[k] /\ f[k] <= day + 7 * k - 1
                         /\ IsWeekly(f[k]) /\ \A i \in 1..(k - 1) : f[i] < f[k]
      /\ \A e \in Int : day <= e /\ e <= f[n] /\ IsWeekly(e) => \E i \in 1..n : e = f[i]
  BY <1>1, <1>3 DEF ListsUpTo
<1>5. a \in Int /\ day <= a /\ a <= day + 7 * n - 1 /\ IsWeekly(a)
  BY <1>1, <1>2, <1>4
<1>6. \A k \in 1..n : f[k] <= day + 7 * MaxCode - 1 /\ f[k] \in Ahead(day)
  BY <1>1, <1>4 DEF Ahead
<1>7. IsFiniteSet(Ahead(day)) /\ Ahead(day) \in SUBSET Int
  <2>1. day + 13 + 7 * MaxCode \in Int
    BY <1>1
  <2>2. IsFiniteSet(Ahead(day))
    BY <2>1, FS_Interval DEF Ahead
  <2> QED BY <2>2 DEF Ahead
<1>8. NthOf({e \in Ahead(day) : IsWeekly(e)}, n) = a
  <2> DEFINE dates == {e \in Ahead(day) : IsWeekly(e)}
  <2>1. dates \in SUBSET Ahead(day) /\ dates \in SUBSET Int
    BY <1>7
  <2>2. IsFiniteSet(dates)
    BY <1>7, <2>1, FS_Subset
  <2>3. \A i \in 1..n : f[i] \in dates
    BY <1>4, <1>6
  <2>4. \A y \in dates : y <= f[n] => \E i \in 1..n : y = f[i]
    BY <1>1, <1>4 DEF Ahead
  <2> HIDE DEF dates
  <2>5. NthOf(dates, n) = f[n]
    BY <1>1, <1>4, <2>1, <2>2, <2>3, <2>4, NthIs
  <2> QED BY <1>2, <2>5 DEF dates
<1>9. ASSUME Traded(day)
      PROVE  /\ day <= Moved(a)
             /\ NthOf({e \in Ahead(day) : \E w \in {e, e + 1} : IsWeekly(w) /\ Moved(w) = e}, n)
                  = Moved(a)
  <2> DEFINE dates == {e \in Ahead(day) : \E w \in {e, e + 1} : IsWeekly(w) /\ Moved(w) = e}
             g == [i \in 1..n |-> Moved(f[i])]
  <2>1. \A w \in Int : day <= w => day <= Moved(w)
    BY <1>9 DEF Moved, Traded
  <2>2. dates \in SUBSET Ahead(day) /\ dates \in SUBSET Int
    BY <1>7
  <2>3. IsFiniteSet(dates)
    BY <1>7, <2>2, FS_Subset
  <2>4. \A i \in 1..n : g[i] = Moved(f[i]) /\ g[i] \in Int /\ day <= g[i]
    BY <1>4, <2>1, MovedIs
  <2>5. ASSUME NEW i \in 1..n  PROVE g[i] \in dates
    <3>1. f[i] \in Int /\ IsWeekly(f[i]) /\ f[i] <= day + 7 * MaxCode - 1
      BY <1>4, <1>6
    <3>2. g[i] = Moved(f[i]) /\ g[i] \in Int /\ day <= g[i] /\ f[i] \in {g[i], g[i] + 1}
          /\ g[i] <= f[i]
      BY <2>4, <3>1 DEF Moved
    <3> HIDE DEF g
    <3>3. g[i] \in Ahead(day)
      BY <1>1, <3>1, <3>2 DEF Ahead
    <3> QED BY <3>1, <3>2, <3>3
  <2>6. ASSUME NEW v \in Int, NEW w \in Int, IsWeekly(v), IsWeekly(w), v < w
        PROVE  Moved(v) < Moved(w)
    BY <2>6, WeeklyApart, MovedIs
  <2>7. ASSUME NEW j \in 1..n, NEW i \in 1..(j - 1)  PROVE g[i] < g[j]
    <3>1. i \in 1..n /\ f[i] < f[j]
      BY <1>1, <1>4
    <3>2. /\ f[i] \in Int /\ f[j] \in Int /\ IsWeekly(f[i]) /\ IsWeekly(f[j])
          /\ g[i] = Moved(f[i]) /\ g[j] = Moved(f[j])
      BY <1>4, <2>4, <3>1
    <3> QED BY <2>6, <3>1, <3>2
  <2>8. ASSUME NEW y \in dates, y <= g[n]  PROVE \E i \in 1..n : y = g[i]
    <3>1. y \in Int /\ day <= y
      BY <1>1 DEF Ahead
    <3>2. PICK w \in {y, y + 1} : IsWeekly(w) /\ Moved(w) = y
      OBVIOUS
    <3>3. w \in Int /\ day <= w
      BY <3>1, <3>2
    <3>4. f[n] \in Int /\ IsWeekly(f[n]) /\ g[n] = Moved(f[n])
      BY <1>1, <1>4, <2>4
    <3>5. Moved(f[n]) \in Int /\ y <= Moved(f[n])
      BY <2>8, <3>4, MovedIs
    <3> HIDE DEF g, dates
    <3>6. ~(f[n] < w)
      BY <2>6, <3>1, <3>2, <3>3, <3>4, <3>5
    <3>7. PICK i \in 1..n : w = f[i]
      BY <1>4, <3>2, <3>3, <3>4, <3>6
    <3> QED BY <2>4, <3>2, <3>7
  <2>9. NthOf(dates, n) = g[n] /\ g[n] = Moved(a) /\ day <= g[n]
    <3>1. g[n] = Moved(a) /\ day <= g[n]
      BY <1>1, <1>2, <2>4
    <3> HIDE DEF g, dates
    <3> QED BY <1>1, <2>2, <2>3, <2>5, <2>7, <2>8, <3>1, NthIs
  <2> QED BY <2>9 DEF dates
<1> QED BY <1>5, <1>8, <1>9


(* What a calendar holds: exchange dates only, and where it reaches back   *)
(* to a day, those that follow.                                            *)
LEMMA AskedDaysAre ==
  ASSUME NEW request \in Requests
  PROVE  /\ request.first \in Firsts /\ Firsts \in SUBSET Nat
         /\ Min(Firsts) \in Nat /\ Max(Firsts) \in Nat
         /\ Min(Firsts) <= request.first /\ request.first <= Max(Firsts)
         /\ Span \in Nat \ {0} /\ MaxWindow \in Nat \ {0} /\ MaxCode \in Nat \ {0}
<1>1. request.first \in Firsts /\ Firsts \in SUBSET Nat /\ Firsts \in SUBSET Int
      /\ IsFiniteSet(Firsts) /\ Firsts # {}
  BY HistoryAssumption DEF Requests
<1>2. Min(Firsts) \in Firsts /\ \A y \in Firsts : Min(Firsts) <= y
  BY <1>1, MinExists
<1>3. Max(Firsts) \in Firsts /\ \A y \in Firsts : Max(Firsts) >= y
  BY <1>1, MaxExists
<1>4. Max(Firsts) >= request.first /\ Max(Firsts) \in Nat /\ request.first \in Nat
  BY <1>1, <1>3
<1>5. request.first <= Max(Firsts)
  BY <1>4
<1> QED BY <1>1, <1>2, <1>4, <1>5, HistoryAssumption

LEMMA CalendarIs ==
  ASSUME NEW request \in Requests, NEW cal \in Calendars, NEW day \in AskedDays
  PROVE  /\ day \in Nat
         /\ \A x \in cal : x \in Int /\ \E w \in Int : IsWeekly(w) /\ x = Moved(w)
         /\ (\E x \in cal : x <= day) =>
              \A w \in Int : /\ IsWeekly(w) /\ day <= w /\ w <= day + 7 * MaxCode - 1
                             /\ day <= Moved(w)
                             => Moved(w) \in cal
<1> DEFINE low == Min(Firsts) - 7
           high == Max(Firsts) + Span + 7 * MaxCode + 14
           all == {Moved(e) : e \in {x \in low..high : IsWeekly(x)}}
<1>1. /\ Min(Firsts) \in Nat /\ Max(Firsts) \in Nat /\ Span \in Nat /\ MaxCode \in Nat
      /\ Min(Firsts) <= day /\ day <= Max(Firsts) + Span - 1 /\ day \in Nat
  BY AskedDaysAre DEF AskedDays
<1>2. low \in Int /\ high \in Int
  BY <1>1
<1>3. cal = {} \/ cal = all \/ cal = {e \in all : e >= Cutover}
  BY DEF Calendars
<1>4. \A x \in all : x \in Int /\ \E w \in Int : IsWeekly(w) /\ x = Moved(w)
  BY <1>2, MovedIs
<1>5. \A w \in Int : IsWeekly(w) /\ day <= w /\ w <= day + 7 * MaxCode - 1 => Moved(w) \in all
  <2> SUFFICES ASSUME NEW w \in Int, IsWeekly(w), day <= w, w <= day + 7 * MaxCode - 1
               PROVE  w \in low..high
    OBVIOUS
  <2> QED BY <1>1
<1> HIDE DEF all, low, high
<1>6. \A x \in cal : x \in Int /\ \E w \in Int : IsWeekly(w) /\ x = Moved(w)
  BY <1>3, <1>4
<1>7. ASSUME NEW x \in cal, x <= day,
             NEW w \in Int, IsWeekly(w), day <= w, w <= day + 7 * MaxCode - 1, day <= Moved(w)
      PROVE  Moved(w) \in cal
  <2>1. Moved(w) \in all /\ Moved(w) \in Int /\ x \in Int
    BY <1>5, <1>6, <1>7, MovedIs
  <2>2. cal = {e \in all : e >= Cutover} => Cutover <= Moved(w)
    BY <1>1, <1>7, <2>1, ExpiryAssumption
  <2> QED BY <1>3, <1>7, <2>1, <2>2, ExpiryAssumption
<1> QED BY <1>1, <1>6, <1>7

LEMMA RefinedIs ==
  ASSUME NEW a \in Int, NEW day \in Int, NEW cal \in SUBSET Int
  PROVE  \/ Refined(a, day, cal) = a /\ \A e \in cal : e >= day => Distance(e, a) > Slack
         \/ /\ Refined(a, day, cal) \in cal /\ Refined(a, day, cal) >= day
            /\ Distance(Refined(a, day, cal), a) <= Slack
            /\ \A e \in cal : e >= day => Distance(Refined(a, day, cal), a) <= Distance(e, a)
<1> DEFINE near == {e \in cal : e >= day /\ Distance(e, a) <= Slack}
           Ways == {Distance(e, a) : e \in near}
           best == Min(Ways)
           nearest == {e \in near : Distance(e, a) = best}
<1>1. \A e \in cal : e \in Int /\ Distance(e, a) \in Nat
  BY DEF Distance
<1>2. Refined(a, day, cal) = IF near = {} THEN a ELSE Min(nearest)
  BY DEF Refined
<1>3. CASE near = {}
  BY <1>1, <1>2, <1>3 DEF Slack
<1>4. CASE near # {}
  <2>1. Ways \in SUBSET Nat /\ Ways # {}
    BY <1>1, <1>4
  <2>2. best \in Ways /\ \A y \in Ways : best <= y
    <3> HIDE DEF Ways
    <3> QED BY <2>1, MinExists
  <2>3. nearest \in SUBSET Int /\ nearest # {} /\ \A e \in nearest : day <= e
    BY <1>1, <2>2
  <2>4. Min(nearest) \in nearest
    <3> HIDE DEF nearest
    <3> QED BY <2>3, LeastFrom
  <2>5. \A e \in near : best <= Distance(e, a)
    BY <2>2
  <2>6. best \in Nat /\ best <= Slack
    BY <1>1, <2>2
  <2>7. \A e \in cal : e >= day => best <= Distance(e, a)
    BY <1>1, <2>5, <2>6 DEF Slack
  <2> HIDE DEF best
  <2> QED BY <1>2, <1>4, <2>4, <2>7
<1> QED BY <1>3, <1>4

(* The expiry a bar of a trading day is kept under: the exchange's where   *)
(* the calendar reaches back to the day, and never none.                   *)
LEMMA FrontIs ==
  ASSUME NEW request \in Requests, NEW cal \in Calendars, NEW day \in AskedDays, NEW n \in Codes,
         Traded(day)
  PROVE  LET e == Front[day][n][cal]
         IN  /\ e # NoExpiry
             /\ IF \E x \in cal : x <= day THEN e = RealExpiry[day][n]
                ELSE e = RuleExpiry[day][n] \/ (e \in cal /\ e >= day)
<1> DEFINE a == NthWeekly(day, n)
           e == Refined(a, day, cal)
<1>1. /\ day \in Nat /\ cal \in SUBSET Int /\ n \in Nat \ {0} /\ n <= MaxCode /\ MaxCode \in Nat
      /\ \A x \in cal : \E w \in Int : IsWeekly(w) /\ x = Moved(w)
  <2>1. n \in Nat \ {0} /\ n <= MaxCode /\ MaxCode \in Nat
    BY HistoryAssumption DEF Codes
  <2> QED BY <2>1, CalendarIs
<1>2. /\ a \in Int /\ day <= a /\ a <= day + 7 * n - 1 /\ IsWeekly(a)
      /\ RuleExpiry[day][n] = a /\ RealExpiry[day][n] = Moved(a) /\ day <= Moved(a)
  <2>1. RuleExpiry[day][n] = NthOf({x \in Ahead(day) : IsWeekly(x)}, n)
    BY DEF RuleExpiry
  <2>2. RealExpiry[day][n] =
          NthOf({x \in Ahead(day) : \E w \in {x, x + 1} : IsWeekly(w) /\ Moved(w) = x}, n)
    BY DEF RealExpiry
  <2>3. day \in Int
    BY <1>1
  <2> QED BY <2>1, <2>2, <2>3, NthAre
<1> HIDE DEF a
<1>0. \/ e = a /\ \A x \in cal : x >= day => Distance(x, a) > Slack
      \/ /\ e \in cal /\ e >= day /\ Distance(e, a) <= Slack
         /\ \A x \in cal : x >= day => Distance(e, a) <= Distance(x, a)
  BY <1>1, <1>2, RefinedIs
<1>3. /\ e \in Int /\ day <= e /\ e <= a + 4
      /\ e = a \/ e \in cal
  <2> HIDE DEF e
  <2>1. e = a \/ (e \in cal /\ e >= day /\ Distance(e, a) <= Slack)
    BY <1>0
  <2>2. day \in Int /\ a \in Int /\ day <= a /\ \A x \in cal : x \in Int
    BY <1>1, <1>2
  <2>3. \A x \in Int : Distance(x, a) <= 4 => x <= a + 4
    BY <2>2 DEF Distance
  <2>4. CASE e = a
    BY <2>2, <2>4
  <2>5. CASE e \in cal /\ e >= day /\ Distance(e, a) <= 4
    <3>1. e \in Int /\ e <= a + 4
      BY <2>2, <2>3, <2>5
    <3> QED BY <2>2, <2>5, <3>1
  <2> QED BY <2>1, <2>4, <2>5 DEF Slack
<1>4. FrontExpiry(day, n, cal) = e
  <2>1. e - day <= MaxDays + 7 * (n - 1)
    BY <1>1, <1>2, <1>3 DEF MaxDays
  <2>2. FrontExpiry(day, n, cal) = IF e - day > MaxDays + 7 * (n - 1) \/ e < day THEN NoExpiry ELSE e
    BY DEF FrontExpiry, a
  <2> HIDE DEF e
  <2> QED BY <1>1, <1>3, <2>1, <2>2 DEF MaxDays
<1>5. Front[day][n][cal] = e /\ e # NoExpiry
  BY <1>1, <1>3, <1>4 DEF Front, NoExpiry
<1>6. ASSUME NEW x \in cal, x <= day  PROVE e = Moved(a)
  <2>1. Moved(a) \in cal /\ Moved(a) \in Int
    <3>1. 7 * n <= 7 * MaxCode
      BY <1>1
    <3>2. a <= day + 7 * MaxCode - 1
      BY <1>1, <1>2, <3>1
    <3> QED BY <1>2, <1>6, <3>2, CalendarIs, MovedIs
  <2>2. Distance(Moved(a), a) <= 1
    BY <1>2, MovedIs DEF Distance
  <2>3. e \in cal /\ Distance(e, a) <= 1
    <3> HIDE DEF e
    <3> QED BY <1>0, <1>1, <1>2, <1>3, <2>1, <2>2 DEF Distance, Slack
  <2>4. PICK w \in Int : IsWeekly(w) /\ e = Moved(w)
    BY <1>1, <2>3
  <2>5. w = a
    <3>1. Moved(w) <= w /\ w <= Moved(w) + 1 /\ Moved(w) \in Int
      BY MovedIs
    <3>2. w < a => w + 5 <= a
      BY <1>2, <2>4, WeeklyApart
    <3>3. a < w => a + 5 <= w
      BY <1>2, <2>4, WeeklyApart
    <3> HIDE DEF e
    <3> QED BY <1>2, <2>3, <2>4, <3>1, <3>2, <3>3 DEF Distance
  <2> QED BY <2>4, <2>5
<1> HIDE DEF e
<1> QED BY <1>2, <1>3, <1>5, <1>6


-----------------------------------------------------------------------------
(* The places of a pull. *)
LEMMA MultipleNext ==
  ASSUME NEW m \in Nat, NEW w \in Nat \ {0}, m % w = 0  PROVE (m + w) % w = 0
<1>1. PICK q \in Nat : m = q * w
  <2>1. m = (m \div w) * w + (m % w) /\ m \div w \in Nat
    BY SMTT(60)
  <2>2. m = (m \div w) * w
    BY <2>1
  <2> QED BY <2>1, <2>2
<1>2. m + w = (q + 1) * w /\ q + 1 \in Nat
  BY <1>1
<1>3. \A x \in Nat : (x * w) % w = 0
  BY SMTT(60)
<1> QED BY <1>2, <1>3

LEMMA MultipleBelow ==
  ASSUME NEW n \in Nat, NEW w \in Nat \ {0}
  PROVE  \E m \in 0..n : m % w = 0 /\ n < m + w
<1> DEFINE Bad == {k \in Nat : ~\E m \in 0..k : m % w = 0 /\ k < m + w}
<1> SUFFICES ASSUME Bad # {}  PROVE FALSE
  OBVIOUS
<1>1. PICK k \in Bad : \A j \in Bad : k <= j
  <2>1. Bad \in SUBSET Nat
    OBVIOUS
  <2> HIDE DEF Bad
  <2> QED BY <2>1, MinExists
<1>2. CASE k < w
  <2>1. 0 % w = 0 /\ 0 \in 0..k /\ k < 0 + w
    BY <1>1, <1>2
  <2> QED BY <1>1, <2>1
<1>3. CASE ~(k < w)
  <2>1. k \in Nat /\ k - w \in Nat /\ k - w < k
    BY <1>3
  <2>2. k - w \notin Bad
    <3> HIDE DEF Bad
    <3> QED BY <1>1, <2>1
  <2>3. PICK m \in 0..(k - w) : m % w = 0 /\ k - w < m + w
    BY <2>1, <2>2
  <2>4. m + w \in 0..k /\ k < m + w + w
    BY <2>1, <2>3
  <2>5. (m + w) % w = 0
    <3>1. m \in Nat
      OBVIOUS
    <3> QED BY <2>3, <3>1, MultipleNext
  <2> QED BY <1>1, <2>4, <2>5
<1> QED BY <1>2, <1>3


(* The windows of a pull lie within what it asks for, and leave no day out.*)
LEMMA WindowsTile ==
  ASSUME NEW request \in Requests, NEW to, to = request.first + Span - 1
  PROVE  /\ \A window \in Windows(request.first, to) :
              /\ window[1] \in Int /\ request.first <= window[1]
              /\ DaysOf(window) \in SUBSET DaysOf(<<request.first, to>>)
         /\ \A d \in request.first..to :
              \E window \in Windows(request.first, to) : window[1] <= d /\ d <= window[2]
         /\ DaysOf(<<request.first, to>>) \in SUBSET AskedDays
<1> DEFINE from == request.first
           End(d) == Min({d + MaxWindow - 1, to})
<1>1. /\ from \in Nat /\ to \in Int /\ MaxWindow \in Nat \ {0} /\ Span \in Nat
      /\ Min(Firsts) \in Nat /\ Max(Firsts) \in Nat /\ Min(Firsts) <= from /\ from <= Max(Firsts)
  BY AskedDaysAre
<1>2. Windows(from, to) = {<<d, End(d)>> : d \in {x \in from..to : (x - from) % MaxWindow = 0}}
  BY DEF Windows
<1>3. \A d \in Int : End(d) = IF d + MaxWindow - 1 <= to THEN d + MaxWindow - 1 ELSE to
  <2> TAKE d \in Int
  <2>1. d + MaxWindow - 1 \in Int
    BY <1>1
  <2> QED BY <1>1, <2>1, MinOfTwo
<1>4. DaysOf(<<from, to>>) = {d \in from..to : Traded(d)}
  BY DEF DaysOf
<1>5. ASSUME NEW window \in Windows(from, to)
      PROVE  /\ window[1] \in Int /\ from <= window[1]
             /\ DaysOf(window) \in SUBSET DaysOf(<<from, to>>)
  <2>1. PICK x \in from..to : window = <<x, End(x)>>
    BY <1>2
  <2>2. window[1] = x /\ window[2] = End(x) /\ x \in Int
    BY <1>1, <2>1
  <2>3. DaysOf(window) = {d \in x..End(x) : Traded(d)}
    BY <2>2 DEF DaysOf
  <2>4. End(x) <= to /\ End(x) \in Int
    BY <1>1, <1>3, <2>2
  <2> HIDE DEF End
  <2>5. \A d \in x..End(x) : d \in from..to
    BY <1>1, <2>2, <2>4
  <2> QED BY <1>1, <1>4, <2>2, <2>3, <2>5
<1>6. ASSUME NEW d \in from..to
      PROVE  \E window \in Windows(from, to) : window[1] <= d /\ d <= window[2]
  <2>1. d - from \in Nat
    BY <1>1
  <2>2. PICK m \in 0..(d - from) : m % MaxWindow = 0 /\ d - from < m + MaxWindow
    BY <1>1, <2>1, MultipleBelow
  <2> DEFINE x == from + m
             window == <<x, End(x)>>
  <2>3. x \in from..to /\ x \in Int /\ x - from = m /\ x <= d /\ d <= x + MaxWindow - 1 /\ d <= to
    BY <1>1, <2>2
  <2>4. window \in Windows(from, to)
    BY <1>2, <2>2, <2>3
  <2>5. d <= End(x)
    <3> HIDE DEF End
    <3> QED BY <1>1, <1>3, <2>3
  <2>6. window[1] = x /\ window[2] = End(x)
    OBVIOUS
  <2> HIDE DEF window, End
  <2> QED BY <2>3, <2>4, <2>5, <2>6
<1>7. DaysOf(<<from, to>>) \in SUBSET AskedDays
  BY <1>1, <1>4 DEF AskedDays
<1> QED BY <1>5, <1>6, <1>7

(* The places of a pull that a member of the set may be taken from.        *)
LEMMA HereIs ==
  ASSUME NEW request \in Requests, todo \in SUBSET PlacesOf(request), todo # {}
  PROVE  Here \in todo
<1> DEFINE codes == {p.code : p \in todo}
           code == Min(codes)
           same == {q \in todo : q.code = code}
           firsts == {p.window[1] : p \in same}
           first == Min(firsts)
           left == {p \in todo : p.code = code /\ p.window[1] = first}
           ranks == {StrikeRank(p.strike) : p \in left}
           rank == Min(ranks)
<1>1. \A p \in todo : /\ p.code \in Nat /\ p.window[1] \in Int /\ request.first <= p.window[1]
                      /\ p.strike \in Int
  <2>1. request.codes \in SUBSET Nat /\ request.offset \in Int /\ MaxOffset \in Int
    BY HistoryAssumption DEF Requests, Codes
  <2>2. Min({request.offset, MaxOffset}) \in Int
    BY <2>1, MinOfTwo
  <2>3. StrikeOffsets(request.offset) \in SUBSET Int
    BY <2>2 DEF StrikeOffsets
  <2>4. \A p \in todo : /\ p.code \in request.codes /\ p.strike \in StrikeOffsets(request.offset)
                        /\ p.window \in Windows(request.first, request.first + Span - 1)
    BY DEF PlacesOf
  <2> QED BY <2>1, <2>3, <2>4, WindowsTile
<1>2. code \in codes
  <2>1. codes \in SUBSET Nat /\ codes # {}
    BY <1>1
  <2> HIDE DEF codes
  <2> QED BY <2>1, MinExists
<1>3. first \in firsts
  <2>1. firsts \in SUBSET Int /\ firsts # {} /\ \A x \in firsts : request.first <= x
    BY <1>1, <1>2
  <2>2. request.first \in Int
    BY AskedDaysAre
  <2> HIDE DEF firsts
  <2> QED BY <2>1, <2>2, LeastFrom
<1>4. rank \in ranks
  <2>1. \A n \in Int : StrikeRank(n) \in Nat
    BY DEF StrikeRank
  <2>2. ranks \in SUBSET Nat /\ ranks # {}
    BY <1>1, <1>3, <2>1
  <2> HIDE DEF ranks
  <2> QED BY <2>2, MinExists
<1>5. Here = CHOOSE p \in left : StrikeRank(p.strike) = rank
  BY DEF Here
<1>6. \E p \in left : StrikeRank(p.strike) = rank
  BY <1>4
<1>7. left \in SUBSET todo
  OBVIOUS
<1> HIDE DEF left, rank
<1> QED BY <1>5, <1>6, <1>7


-----------------------------------------------------------------------------
(* The pulls.  Every row is under the expiry in front on its trading day;  *)
(* every place the pull has behind it has a row of this pull for each day, *)
(* or the day is missed; and what is sent is paid for, each leg with its   *)
(* retries.                                                                *)
Fronts(day, codes, calendar) == {Front[day][c][calendar] : c \in codes}

HistoryTypes ==
  /\ leg \in {"none", "next", "call", "put"}
  /\ pulls \in 0..MaxPulls /\ attempts \in 0..RateRetries
  /\ used \in Nat /\ sent \in Nat /\ used <= Budget
  /\ pulls = 0 => /\ leg = "none" /\ end = "none" /\ asked = NoRequest
                  /\ atm = {} /\ chain = {}
  /\ pulls > 0 => asked \in Requests /\ todo \in SUBSET PlacesOf(asked)
  /\ leg # "none" => end = "none"
  /\ leg \in {"call", "put"} => todo # {}
  /\ end = "done" => todo = {}

Legs == IF leg = "call" THEN 2 ELSE IF leg = "put" THEN 1 ELSE 0

SentPaid ==
  sent + Legs * (1 + RateRetries) <=
    used * (1 + RateRetries) + IF leg \in {"call", "put"} THEN attempts ELSE 0

FrontRow(r) ==
  r.day \in AskedDays /\ Traded(r.day) /\ r.expiry \in Fronts(r.day, asked.codes, asked.calendar)

OnePull(r) == r.call \in 0..MaxPulls /\ r.put \in 0..MaxPulls /\ (r.call = r.put \/ 0 \in {r.call, r.put})

RowsInFront == (\A r \in atm \cup chain : FrontRow(r)) /\ \A r \in atm : OnePull(r)

Fresh(r) == pulls \in {r.call, r.put}

RowFor(rows, day, code) ==
  \E r \in rows : r.day = day /\ r.expiry = Front[day][code][asked.calendar] /\ Fresh(r)

BehindCovered ==
  pulls > 0 => \A p \in PlacesOf(asked) \ todo : p.strike = 0 =>
    \A d \in DaysOf(p.window) : RowFor(atm, d, p.code) \/ [code |-> p.code, day |-> d] \in missed

HistoryInv == HistoryTypes /\ SentPaid /\ RowsInFront /\ BehindCovered

LEMMA HistoryInit == InitHistory => HistoryInv
<1> SUFFICES ASSUME InitHistory  PROVE HistoryInv
  OBVIOUS
<1>1. RateRetries \in Nat /\ Budget \in Nat /\ MaxPulls \in Nat
  BY HistoryAssumption
<1>2. HistoryTypes
  BY <1>1 DEF InitHistory, HistoryTypes
<1>3. SentPaid
  BY <1>1 DEF InitHistory, SentPaid, Legs
<1>4. RowsInFront /\ BehindCovered
  BY DEF InitHistory, RowsInFront, BehindCovered
<1> QED BY <1>2, <1>3, <1>4 DEF HistoryInv

(* A request names its pull. *)
LEMMA RequestIs ==
  ASSUME NEW request \in Requests
  PROVE  /\ request # NoRequest /\ request.codes \in SUBSET Codes /\ request.calendar \in Calendars
         /\ \A p \in PlacesOf(request) :
              /\ p.code \in request.codes
              /\ p.window \in Windows(request.first, request.first + Span - 1)
              /\ DaysOf(p.window) \in SUBSET AskedDays
              /\ \A d \in DaysOf(p.window) : Traded(d)
<1>1. request.codes \in SUBSET Codes /\ request.codes # {} /\ request.calendar \in Calendars
  BY DEF Requests
<1>2. request # NoRequest
  BY <1>1 DEF NoRequest
<1>3. \A p \in PlacesOf(request) :
        /\ p.code \in request.codes
        /\ p.window \in Windows(request.first, request.first + Span - 1)
  BY DEF PlacesOf
<1>4. ASSUME NEW p \in PlacesOf(request)
      PROVE  DaysOf(p.window) \in SUBSET AskedDays /\ \A d \in DaysOf(p.window) : Traded(d)
  <2>1. DaysOf(p.window) \in SUBSET AskedDays
    BY <1>3, WindowsTile
  <2> QED BY <2>1 DEF DaysOf
<1> QED BY <1>1, <1>2, <1>3, <1>4

LEMMA HistoryTypesStep == HistoryInv /\ HistoryNext => HistoryTypes'
<1> SUFFICES ASSUME HistoryTypes, HistoryNext  PROVE HistoryTypes'
  BY DEF HistoryInv
<1>1. RateRetries \in Nat /\ Budget \in Nat /\ MaxPulls \in Nat
  BY HistoryAssumption
<1>2. ASSUME NEW request \in Requests, StartPull(request)  PROVE HistoryTypes'
  <2>1. pulls \in Nat /\ pulls < MaxPulls /\ pulls' = pulls + 1
    BY <1>1, <1>2 DEF StartPull, HistoryTypes
  <2>2. pulls' \in 0..MaxPulls /\ pulls' > 0
    BY <1>1, <2>1
  <2> QED BY <1>1, <1>2, <2>2 DEF StartPull, HistoryTypes
<1>3. CASE NextPlace
  <2>1. leg = "next" /\ todo # {} /\ pulls > 0 /\ UNCHANGED <<asked, pulls, todo, call, sent, atm>>
    BY <1>3 DEF NextPlace, HistoryTypes
  <2>2. CASE CannotAfford
    BY <1>1, <1>3, <2>1, <2>2 DEF NextPlace, Ended, HistoryTypes
  <2>3. CASE ~CannotAfford
    <3>1. used' = used + 2 /\ leg' = "call" /\ end' = end /\ attempts' = attempts
      BY <1>3, <2>3 DEF NextPlace
    <3>2. used' \in Nat /\ used' <= Budget
      BY <1>1, <2>3, <3>1 DEF CannotAfford, HistoryTypes
    <3> QED BY <2>1, <3>1, <3>2 DEF HistoryTypes
  <2> QED BY <2>2, <2>3
<1>4. CASE PullDone
  BY <1>1, <1>4 DEF PullDone, Ended, HistoryTypes
<1>5. CASE RateLimited
  BY <1>1, <1>5 DEF RateLimited, LastAttempt, Ended, HistoryTypes
<1>6. CASE CallAnswers
  BY <1>1, <1>6 DEF CallAnswers, HistoryTypes
<1>7. ASSUME NEW put, leg = "put", WriteRaises(put)  PROVE HistoryTypes'
  <2>1. /\ leg' = "none" /\ end' = "failed" /\ sent' = sent + 1 /\ attempts' = 0
        /\ UNCHANGED <<asked, pulls, todo, used>>
    BY <1>7 DEF WriteRaises, Ended
  <2>2. pulls > 0
    BY <1>7 DEF HistoryTypes
  <2> QED BY <1>1, <2>1, <2>2 DEF HistoryTypes
<1>8. ASSUME NEW put, leg = "put", PutAnswers(put)  PROVE HistoryTypes'
  <2>1. /\ leg = "put" /\ leg' = "next" /\ sent' = sent + 1 /\ attempts' = 0
        /\ todo' = todo \ {Here} /\ UNCHANGED <<asked, pulls, used, end>>
    BY <1>8 DEF PutAnswers
  <2>2. pulls > 0 /\ end # "done"
    BY <2>1 DEF HistoryTypes
  <2> QED BY <1>1, <2>1, <2>2 DEF HistoryTypes
<1> QED BY <1>2, <1>3, <1>4, <1>5, <1>6, <1>7, <1>8 DEF HistoryNext, PutLeg

LEMMA SentPaidStep == HistoryInv /\ HistoryNext => SentPaid'
<1> SUFFICES ASSUME HistoryTypes, SentPaid, HistoryNext, HistoryTypes'  PROVE SentPaid'
  BY HistoryTypesStep DEF HistoryInv
<1> DEFINE k == 1 + RateRetries
<1>1. /\ RateRetries \in Nat /\ k \in Nat /\ sent \in Nat /\ used \in Nat
      /\ attempts \in 0..RateRetries
  BY HistoryAssumption DEF HistoryTypes
<1>2. \A n, m \in Nat : n * m \in Nat /\ (n + 2) * m = n * m + 2 * m
  OBVIOUS
<1> DEFINE paid == used * k
<1>3. paid \in Nat /\ (used + 2) * k = paid + 2 * k
  BY <1>1, <1>2
<1>4. /\ leg = "call" => sent + 2 * k <= paid + attempts
      /\ leg = "put" => sent + k <= paid + attempts
      /\ leg \notin {"call", "put"} => sent <= paid
  BY <1>1 DEF SentPaid, Legs
<1>0. sent' \in Nat /\ used' \in Nat /\ attempts' \in Nat
  BY <1>1 DEF HistoryTypes
<1> DEFINE given == used' * k
<1>a. given \in Nat
  BY <1>0, <1>1, <1>2
<1>5. /\ leg' = "call" /\ sent' + 2 * k <= given + attempts' => SentPaid'
      /\ leg' = "put" /\ sent' + k <= given + attempts' => SentPaid'
      /\ leg' \notin {"call", "put"} /\ sent' <= given => SentPaid'
  <2>1. SentPaid' = (sent' + Legs' * k <= given + IF leg' \in {"call", "put"} THEN attempts' ELSE 0)
    BY DEF SentPaid
  <2>2. CASE leg' = "call"
    <3>1. Legs' = 2
      BY <2>2 DEF Legs
    <3> HIDE DEF given, k
    <3> QED BY <2>1, <2>2, <3>1
  <2>3. CASE leg' = "put"
    <3>1. Legs' = 1 /\ 1 * k = k
      BY <1>1, <2>3 DEF Legs
    <3> HIDE DEF given, k
    <3> QED BY <2>1, <2>3, <3>1
  <2>4. CASE leg' \notin {"call", "put"}
    <3>1. Legs' = 0 /\ 0 * k = 0
      BY <1>1, <2>4 DEF Legs
    <3>2. sent' + Legs' * k <= given + 0 => SentPaid'
      BY <2>1, <2>4
    <3>3. sent' <= given => sent' + Legs' * k <= given + 0
      <4> HIDE DEF given, k
      <4> QED BY <1>0, <1>a, <3>1
    <3> QED BY <2>4, <3>2, <3>3
  <2> QED BY <2>2, <2>3, <2>4
<1> HIDE DEF k
<1>6. ASSUME NEW request \in Requests, StartPull(request)  PROVE SentPaid'
  <2>1. leg' = "next" /\ sent' = 0 /\ used' = 0
    BY <1>6 DEF StartPull
  <2> QED BY <1>1, <1>5, <2>1
<1>7. CASE NextPlace
  <2>1. leg = "next" /\ sent' = sent
    BY <1>7 DEF NextPlace
  <2>2. CASE CannotAfford
    <3>1. leg' = "none" /\ used' = used
      BY <1>7, <2>2 DEF NextPlace, Ended
    <3> QED BY <1>1, <1>3, <1>4, <1>5, <2>1, <3>1
  <2>3. CASE ~CannotAfford
    <3>1. leg' = "call" /\ used' = used + 2 /\ attempts' = attempts
      BY <1>7, <2>3 DEF NextPlace
    <3>2. used' * k = paid + 2 * k
      BY <1>3, <3>1
    <3> HIDE DEF paid
    <3> QED BY <1>1, <1>3, <1>4, <1>5, <2>1, <3>1, <3>2
  <2> QED BY <2>2, <2>3
<1>8. CASE PullDone
  <2>1. leg = "next" /\ leg' = "none" /\ used' = used /\ sent' = sent
    BY <1>8 DEF PullDone, Ended
  <2> QED BY <1>1, <1>3, <1>4, <1>5, <2>1
<1>9. CASE RateLimited
  <2>1. leg \in {"call", "put"} /\ sent' = sent + 1 /\ used' = used
    BY <1>9 DEF RateLimited
  <2>2. used' * k = paid
    BY <2>1
  <2> HIDE DEF paid
  <2>3. CASE LastAttempt
    <3>1. leg' = "none" /\ attempts = RateRetries
      BY <1>9, <2>3 DEF RateLimited, Ended, LastAttempt
    <3>2. sent + 1 <= paid
      BY <1>1, <1>3, <1>4, <2>1, <3>1 DEF k
    <3> QED BY <1>1, <1>3, <1>5, <2>1, <2>2, <3>1, <3>2
  <2>4. CASE ~LastAttempt
    <3>1. leg' = leg /\ attempts' = attempts + 1
      BY <1>9, <2>4 DEF RateLimited
    <3> QED BY <1>1, <1>3, <1>4, <1>5, <2>1, <2>2, <3>1
  <2> QED BY <2>3, <2>4
<1>10. CASE CallAnswers
  <2>1. leg = "call" /\ leg' = "put" /\ sent' = sent + 1 /\ attempts' = 0 /\ used' = used
    BY <1>10 DEF CallAnswers
  <2>2. used' * k = paid
    BY <2>1
  <2> HIDE DEF paid
  <2>3. sent + 1 + k <= paid
    BY <1>1, <1>3, <1>4, <2>1 DEF k
  <2> QED BY <1>1, <1>3, <1>5, <2>1, <2>2, <2>3
<1>11. CASE PutLeg
  <2>1. leg = "put" /\ leg' \in {"none", "next"} /\ sent' = sent + 1 /\ used' = used
    BY <1>11 DEF PutLeg, WriteRaises, Ended, PutAnswers
  <2>2. used' * k = paid
    BY <2>1
  <2> HIDE DEF paid
  <2>3. sent + 1 <= paid
    BY <1>1, <1>3, <1>4, <2>1 DEF k
  <2> QED BY <1>1, <1>3, <1>5, <2>1, <2>2, <2>3
<1> QED BY <1>6, <1>7, <1>8, <1>9, <1>10, <1>11 DEF HistoryNext

(* A write leaves a row for each row it brings, and drops no row but for   *)
(* one of its own with the same key.                                       *)
LEMMA UpsertedIs ==
  ASSUME NEW rows
  PROVE  /\ \A r \in Upserted(rows) : r \in atm \/ r \in rows
         /\ \A n \in rows : n \in Upserted(rows)
         /\ \A r \in atm : r \in Upserted(rows) \/ \E n \in rows : SameKey(r, n)
BY DEF Upserted, SameKey

LEMMA RowForSurvives ==
  ASSUME NEW rows, \A n \in rows : Fresh(n), NEW day, NEW code, RowFor(atm, day, code)
  PROVE  RowFor(Upserted(rows), day, code)
<1>1. PICK r \in atm : r.day = day /\ r.expiry = Front[day][code][asked.calendar] /\ Fresh(r)
  BY DEF RowFor
<1>2. CASE r \in Upserted(rows)
  BY <1>1, <1>2 DEF RowFor
<1>3. CASE \E n \in rows : SameKey(r, n)
  <2>1. PICK n \in rows : SameKey(r, n)
    BY <1>3
  <2> QED BY <1>1, <2>1, UpsertedIs DEF RowFor, SameKey
<1> QED BY <1>2, <1>3, UpsertedIs

(* The rows that one place brings: one for every day of its window on      *)
(* which a leg has an IV.                                                  *)
LEMMA PlaceRows ==
  ASSUME HistoryTypes, pulls > 0, NEW place \in PlacesOf(asked), NEW put
  PROVE  /\ \A r \in AtmRows(place, put) : FrontRow(r) /\ OnePull(r) /\ Fresh(r)
         /\ \A r \in ChainRows(place, put) : FrontRow(r)
         /\ place.strike = 0 =>
              \A d \in DaysOf(place.window) :
                \/ RowFor(AtmRows(place, put), d, place.code)
                \/ [code |-> place.code, day |-> d] \in Without(place, put)
<1>1. /\ asked \in Requests /\ place.code \in asked.codes /\ asked.codes \in SUBSET Codes
      /\ asked.calendar \in Calendars /\ DaysOf(place.window) \in SUBSET AskedDays
      /\ \A d \in DaysOf(place.window) : Traded(d)
  BY RequestIs DEF HistoryTypes
<1>2. \A d \in DaysOf(place.window) : Attached(d, place.code) # NoExpiry
  BY <1>1, FrontIs DEF Attached
<1>3. Kept(place) = DaysOf(place.window)
  BY <1>2 DEF Kept
<1>4. ASSUME NEW d \in DaysOf(place.window), NEW r,
             r.day = d, r.expiry = Attached(d, place.code)
      PROVE  FrontRow(r)
  BY <1>1, <1>4 DEF FrontRow, Fronts, Attached
<1>5. pulls \in 0..MaxPulls /\ 0 \in 0..MaxPulls
  BY HistoryAssumption DEF HistoryTypes
<1> DEFINE Some(d) == Usable(call, d) \/ Usable(put, d)
<1>6. AtmRows(place, put) =
        IF place.strike # 0 THEN {}
        ELSE {AtmRow(place, put, d) : d \in {x \in DaysOf(place.window) : Some(x)}}
  BY <1>3 DEF AtmRows
<1>7. ASSUME NEW d
      PROVE  /\ AtmRow(place, put, d).day = d
             /\ AtmRow(place, put, d).expiry = Attached(d, place.code)
             /\ AtmRow(place, put, d).call = IF Usable(call, d) THEN pulls ELSE 0
             /\ AtmRow(place, put, d).put = IF Usable(put, d) THEN pulls ELSE 0
  BY DEF AtmRow
<1>8. ASSUME NEW r \in AtmRows(place, put)  PROVE FrontRow(r) /\ OnePull(r) /\ Fresh(r)
  <2>1. PICK d \in DaysOf(place.window) : r = AtmRow(place, put, d) /\ Some(d)
    BY <1>6
  <2>2. FrontRow(r)
    BY <1>4, <1>7, <2>1
  <2>3. r.call \in {0, pulls} /\ r.put \in {0, pulls} /\ pulls \in {r.call, r.put}
    BY <1>7, <2>1
  <2> QED BY <1>5, <2>2, <2>3 DEF OnePull, Fresh
<1>9. ASSUME NEW r \in ChainRows(place, put)  PROVE FrontRow(r)
  <2>1. PICK d \in Kept(place) : r.day = d /\ r.expiry = Attached(d, place.code)
    BY DEF ChainRows
  <2> QED BY <1>3, <1>4, <2>1
<1>10. ASSUME place.strike = 0, NEW d \in DaysOf(place.window)
       PROVE  \/ RowFor(AtmRows(place, put), d, place.code)
              \/ [code |-> place.code, day |-> d] \in Without(place, put)
  <2>1. CASE Some(d)
    <3>1. AtmRow(place, put, d) \in AtmRows(place, put)
      BY <1>6, <1>10, <2>1
    <3>2. Fresh(AtmRow(place, put, d))
      BY <1>8, <3>1
    <3> QED BY <1>7, <3>1, <3>2 DEF RowFor, Attached
  <2>2. CASE ~Some(d)
    BY <1>10, <2>2 DEF Without
  <2> QED BY <2>1, <2>2
<1> QED BY <1>8, <1>9, <1>10

LEMMA RowsInFrontStep == HistoryInv /\ HistoryNext => RowsInFront'
<1> SUFFICES ASSUME HistoryTypes, RowsInFront, HistoryNext  PROVE RowsInFront'
  BY DEF HistoryInv
<1>1. ASSUME asked' = asked, atm' = atm, chain' \in {{}, chain}  PROVE RowsInFront'
  <2>1. \A r : FrontRow(r)' <=> FrontRow(r)
    BY <1>1 DEF FrontRow, Fronts
  <2>2. \A r \in atm' \cup chain' : r \in atm \cup chain
    BY <1>1
  <2> QED BY <1>1, <2>1, <2>2 DEF RowsInFront
<1>2. ASSUME NEW request \in Requests, StartPull(request)  PROVE RowsInFront'
  <2>1. asked \in {NoRequest, request} /\ asked' = request /\ atm' = atm /\ chain' = chain
    BY <1>2 DEF StartPull
  <2>2. CASE asked = request
    BY <1>1, <2>1, <2>2
  <2>3. CASE asked = NoRequest
    <3>1. pulls = 0
      BY <2>3, RequestIs DEF HistoryTypes
    <3>2. atm = {} /\ chain = {}
      BY <3>1 DEF HistoryTypes
    <3> QED BY <2>1, <3>2 DEF RowsInFront
  <2> QED BY <2>1, <2>2, <2>3
<1>3. CASE NextPlace \/ PullDone \/ RateLimited \/ CallAnswers
  <2>1. asked' = asked /\ atm' = atm /\ chain' \in {{}, chain}
    BY <1>3 DEF NextPlace, PullDone, RateLimited, CallAnswers
  <2> QED BY <1>1, <2>1
<1>4. ASSUME NEW put, leg = "put", PutAnswers(put) \/ WriteRaises(put)  PROVE RowsInFront'
  <2>1. /\ asked' = asked /\ atm' \in {atm, Upserted(AtmRows(Here, put))}
        /\ chain' \in {chain, ChainRows(Here, put)}
    BY <1>4 DEF PutAnswers, WriteRaises
  <2>2. pulls > 0 /\ asked \in Requests /\ todo \in SUBSET PlacesOf(asked) /\ todo # {}
    <3>1. pulls \in Nat /\ pulls # 0
      BY <1>4, HistoryAssumption DEF HistoryTypes
    <3> QED BY <1>4, <3>1 DEF HistoryTypes
  <2>3. Here \in PlacesOf(asked)
    BY <2>2, HereIs
  <2>4. /\ \A r \in AtmRows(Here, put) : FrontRow(r) /\ OnePull(r)
        /\ \A r \in ChainRows(Here, put) : FrontRow(r)
    BY <2>2, <2>3, PlaceRows
  <2>5. \A r : FrontRow(r)' <=> FrontRow(r)
    BY <2>1 DEF FrontRow, Fronts
  <2>6. \A r \in atm' : FrontRow(r) /\ OnePull(r)
    BY <2>1, <2>4, UpsertedIs DEF RowsInFront
  <2>7. \A r \in chain' : FrontRow(r)
    BY <2>1, <2>4 DEF RowsInFront
  <2> QED BY <2>5, <2>6, <2>7 DEF RowsInFront
<1> QED BY <1>2, <1>3, <1>4 DEF HistoryNext, PutLeg

LEMMA BehindCoveredStep == HistoryInv /\ HistoryNext => BehindCovered'
<1> SUFFICES ASSUME HistoryTypes, BehindCovered, HistoryNext  PROVE BehindCovered'
  BY DEF HistoryInv
<1>1. pulls \in Nat /\ MaxPulls \in Nat
  BY HistoryAssumption DEF HistoryTypes
<1>2. ASSUME NEW request \in Requests, StartPull(request)  PROVE BehindCovered'
  <2>1. asked' = request /\ todo' = PlacesOf(request)
    BY <1>2 DEF StartPull
  <2>2. PlacesOf(asked') = PlacesOf(request)
    BY <2>1
  <2> QED BY <2>1, <2>2 DEF BehindCovered
<1>3. ASSUME UNCHANGED <<asked, pulls, todo, atm, missed>>  PROVE BehindCovered'
  BY <1>3 DEF BehindCovered, RowFor, Fresh, PlacesOf
<1>4. CASE NextPlace \/ PullDone \/ RateLimited \/ CallAnswers
  BY <1>3, <1>4 DEF NextPlace, PullDone, RateLimited, CallAnswers
<1>5. ASSUME NEW put, leg = "put", PutAnswers(put) \/ WriteRaises(put)  PROVE BehindCovered'
  <2> DEFINE rows == AtmRows(Here, put)
  <2>1. /\ asked' = asked /\ pulls' = pulls /\ atm' \in {atm, Upserted(rows)}
        /\ \/ todo' = todo /\ missed' = missed
           \/ /\ todo' = todo \ {Here} /\ missed' = missed \cup Without(Here, put)
              /\ atm' = Upserted(rows)
    BY <1>5 DEF PutAnswers, WriteRaises
  <2>2. pulls > 0 /\ asked \in Requests /\ todo \in SUBSET PlacesOf(asked) /\ todo # {}
    BY <1>1, <1>5 DEF HistoryTypes
  <2>3. Here \in PlacesOf(asked)
    BY <2>2, HereIs
  <2>4. \A n \in rows : Fresh(n)
    BY <2>2, <2>3, PlaceRows
  <2> SUFFICES ASSUME NEW p \in PlacesOf(asked) \ todo', p.strike = 0, NEW d \in DaysOf(p.window)
               PROVE  RowFor(atm', d, p.code) \/ [code |-> p.code, day |-> d] \in missed'
    <3>1. PlacesOf(asked') = PlacesOf(asked) /\ \A d, c : RowFor(atm, d, c)' = RowFor(atm', d, c)
      BY <2>1 DEF RowFor, Fresh
    <3> QED BY <3>1 DEF BehindCovered
  <2>5. CASE p \in todo
    <3>1. p = Here /\ missed' = missed \cup Without(Here, put) /\ atm' = Upserted(rows)
      BY <2>1, <2>5
    <3>2. RowFor(rows, d, p.code) \/ [code |-> p.code, day |-> d] \in Without(Here, put)
      BY <2>2, <2>3, <3>1, PlaceRows
    <3> QED BY <3>1, <3>2, UpsertedIs DEF RowFor
  <2>6. CASE p \notin todo
    <3>1. RowFor(atm, d, p.code) \/ [code |-> p.code, day |-> d] \in missed
      BY <2>2, <2>6 DEF BehindCovered
    <3>2. missed \subseteq missed'
      BY <2>1
    <3> QED BY <2>1, <2>4, <3>1, <3>2, RowForSurvives
  <2> QED BY <2>5, <2>6
<1> QED BY <1>2, <1>4, <1>5 DEF HistoryNext, PutLeg

LEMMA HistoryStep == HistoryInv /\ HistoryNext => HistoryInv'
BY HistoryTypesStep, SentPaidStep, RowsInFrontStep, BehindCoveredStep DEF HistoryInv

LEMMA HistoryStutter == HistoryInv /\ UNCHANGED historyVars => HistoryInv'
<1> SUFFICES ASSUME HistoryInv, UNCHANGED historyVars  PROVE HistoryInv'
  OBVIOUS
<1>1. HistoryTypes' /\ SentPaid'
  BY DEF HistoryInv, historyVars, HistoryTypes, SentPaid, Legs, PlacesOf
<1>2. RowsInFront'
  BY DEF HistoryInv, historyVars, RowsInFront, FrontRow, Fronts, OnePull
<1>3. BehindCovered'
  BY DEF HistoryInv, historyVars, BehindCovered, RowFor, Fresh, PlacesOf
<1> QED BY <1>1, <1>2, <1>3 DEF HistoryInv

(* What the invariant says of the rows, the end of a pull and its budget. *)
LEMMA RowsWellDated == HistoryInv => RowsAtTheirExpiry
<1> SUFFICES ASSUME HistoryInv, NEW r \in atm \cup chain
             PROVE  \/ ExpiryAttached(r.day, r.expiry, asked.codes)
                    \/ ~Covered(r.day) /\ r.expiry \in asked.calendar /\ r.expiry >= r.day
  BY DEF RowsAtTheirExpiry
<1>1. pulls \in Nat /\ pulls # 0 /\ FrontRow(r)
  BY HistoryAssumption DEF HistoryInv, HistoryTypes, RowsInFront
<1>2. asked \in Requests
  BY <1>1 DEF HistoryInv, HistoryTypes
<1>3. asked.codes \in SUBSET Codes /\ asked.calendar \in Calendars
  BY <1>2, RequestIs
<1>4. PICK c \in asked.codes : r.expiry = Front[r.day][c][asked.calendar]
  BY <1>1 DEF FrontRow, Fronts
<1>5. r.day \in AskedDays /\ Traded(r.day) /\ c \in Codes
  BY <1>1, <1>3 DEF FrontRow
<1>6. IF \E x \in asked.calendar : x <= r.day THEN r.expiry = RealExpiry[r.day][c]
      ELSE r.expiry = RuleExpiry[r.day][c] \/ (r.expiry \in asked.calendar /\ r.expiry >= r.day)
  BY <1>2, <1>3, <1>4, <1>5, FrontIs
<1> QED BY <1>6 DEF ExpiryAttached, Covered

LEMMA DoneCovers == HistoryInv => DonePullCovers
<1> SUFFICES ASSUME HistoryInv, end = "done", leg = "none",
                    NEW d \in DaysOf(<<asked.first, asked.first + Span - 1>>), NEW c \in asked.codes
             PROVE  \/ \E r \in atm : /\ r.day = d /\ r.expiry = Front[d][c][asked.calendar]
                                      /\ pulls \in {r.call, r.put}
                    \/ [code |-> c, day |-> d] \in missed
  BY DEF DonePullCovers
<1>1. pulls \in Nat /\ pulls > 0 /\ asked \in Requests /\ todo = {}
  BY HistoryAssumption DEF HistoryInv, HistoryTypes
<1>2. asked.first \in Nat /\ Span \in Nat /\ asked.offset \in Nat /\ MaxOffset \in Nat
  <2>1. asked.offset \in 0..MaxOffset /\ MaxOffset \in Nat
    BY <1>1, HistoryAssumption DEF Requests
  <2>2. asked.first \in Nat /\ Span \in Nat
    <3>1. asked.first \in Firsts /\ Firsts \in SUBSET Nat /\ Span \in Nat
      BY <1>1, AskedDaysAre
    <3> QED BY <3>1
  <2> QED BY <2>1, <2>2
<1> DEFINE to == asked.first + Span - 1
<1>3. d \in asked.first..to /\ Traded(d)
  BY DEF DaysOf
<1>4. PICK window \in Windows(asked.first, to) : window[1] <= d /\ d <= window[2]
  BY <1>1, <1>3, WindowsTile
<1>5. 0 \in StrikeOffsets(asked.offset)
  <2>1. Min({asked.offset, MaxOffset}) \in Nat
    BY <1>2, MinOfTwo
  <2> QED BY <2>1 DEF StrikeOffsets
<1> DEFINE p == [code |-> c, window |-> window, strike |-> 0]
<1>6. p \in PlacesOf(asked)
  BY <1>4, <1>5 DEF PlacesOf
<1>7. p.code = c /\ p.window = window /\ p.strike = 0
  OBVIOUS
<1> HIDE DEF p
<1>8. d \in DaysOf(window)
  <2>1. window[1] \in Int
    BY <1>1, WindowsTile
  <2>2. window[2] \in Int
    <3>1. PICK x \in asked.first..to : window = <<x, Min({x + MaxWindow - 1, to})>>
      BY <1>4 DEF Windows
    <3>2. x + MaxWindow - 1 \in Int /\ to \in Int
      BY <1>2, <3>1, HistoryAssumption
    <3>3. Min({x + MaxWindow - 1, to}) \in Int
      BY <3>2, MinOfTwo
    <3> QED BY <3>1, <3>3
  <2> QED BY <1>2, <1>3, <1>4, <2>1, <2>2 DEF DaysOf
<1>9. RowFor(atm, d, c) \/ [code |-> c, day |-> d] \in missed
  BY <1>1, <1>6, <1>7, <1>8 DEF HistoryInv, BehindCovered
<1> QED BY <1>9 DEF RowFor, Fresh

LEMMA BudgetKept == HistoryInv => BudgetHolds
<1> SUFFICES ASSUME HistoryInv  PROVE BudgetHolds
  OBVIOUS
<1>1. RateRetries \in Nat /\ sent \in Nat /\ used \in Nat /\ used <= Budget /\ attempts \in 0..RateRetries
  BY HistoryAssumption DEF HistoryInv, HistoryTypes
<1> DEFINE k == 1 + RateRetries
           paid == used * k
<1>2. k \in Nat /\ \A n, m \in Nat : n * m \in Nat
  BY <1>1
<1>3. paid \in Nat
  BY <1>1, <1>2
<1>4. sent + Legs * k <= paid + IF leg \in {"call", "put"} THEN attempts ELSE 0
  BY DEF HistoryInv, SentPaid
<1>5. attempts <= k
  BY <1>1
<1>6. CASE leg = "call"
  <2>1. Legs = 2
    BY <1>6 DEF Legs
  <2> HIDE DEF paid, k
  <2>2. sent <= paid
    BY <1>1, <1>2, <1>3, <1>4, <1>5, <1>6, <2>1
  <2> QED BY <1>1, <2>2 DEF BudgetHolds, paid, k
<1>7. CASE leg = "put"
  <2>1. Legs = 1 /\ 1 * k = k
    BY <1>2, <1>7 DEF Legs
  <2> HIDE DEF paid, k
  <2>2. sent <= paid
    BY <1>1, <1>2, <1>3, <1>4, <1>5, <1>7, <2>1
  <2> QED BY <1>1, <2>2 DEF BudgetHolds, paid, k
<1>8. CASE leg \notin {"call", "put"}
  <2>1. Legs = 0 /\ 0 * k = 0
    BY <1>2, <1>8 DEF Legs
  <2> HIDE DEF paid, k
  <2>2. sent <= paid
    BY <1>1, <1>2, <1>3, <1>4, <1>8, <2>1
  <2> QED BY <1>1, <2>2 DEF BudgetHolds, paid, k
<1> QED BY <1>6, <1>7, <1>8

LEMMA HistoryInvSound == HistoryInv => HistorySound
<1> SUFFICES ASSUME HistoryInv  PROVE HistorySound
  OBVIOUS
<1>1. HistoryTypeOK
  BY DEF HistoryInv, HistoryTypes, RowsInFront, OnePull, HistoryTypeOK
<1>2. StraddleOfOnePull
  BY DEF HistoryInv, RowsInFront, OnePull, StraddleOfOnePull
<1> QED BY <1>1, <1>2, RowsWellDated, DoneCovers, BudgetKept DEF HistorySound

(* dhan_option_history.py: every stored row is under the expiry that was   *)
(* in front on its day, its two volatilities are of one pull, a pull that  *)
(* comes to its end leaves a row of its own for every trading day on which *)
(* a leg at the money brought an IV, and the budget holds.                 *)
THEOREM HistoryAlwaysSound == Spec => []HistorySound
<1>1. Init => HistoryInv
  BY HistoryInit DEF Init
<1>2. HistoryInv /\ [Next]_vars => HistoryInv'
  <2>1. [Next]_vars => HistoryNext \/ UNCHANGED historyVars
    BY DEF Next, vars
  <2> QED BY <2>1, HistoryStep, HistoryStutter
<1> QED BY <1>1, <1>2, HistoryInvSound, PTL DEF Spec
=============================================================================
