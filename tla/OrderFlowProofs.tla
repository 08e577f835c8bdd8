--------------------------- MODULE OrderFlowProofs ---------------------------
(***************************************************************************)
(* Theorems of OrderFlow, of PositionLimit, which counts what its runners  *)
(* do at once, and of HaltSweep, which lets a flatten trade beside them    *)
(* without a lock, for every set of securities and every bound.            *)
(***************************************************************************)
EXTENDS HaltSweep, PositionLimit, FiniteSetTheorems, TLAPS

(* What holds of one security at each await of its runner.  ViewAgrees and *)
(* SlotsMatchPositions speak of the idle runner only; to carry them across *)
(* an order one has to say what the position, the view and the slot are    *)
(* while it is under way.                                                  *)
RunnerKnows(s) ==
  /\ pc[s] = "idle" => SameSign(view[s], qty[s])
  /\ pc[s] = "gate" => order[s].kind = "entry" /\ qty[s] = 0 /\ view[s] = 0
  /\ pc[s] \in {"submit", "persist"} => order[s].kind \in {"entry", "exit"}
  /\ pc[s] = "submit" /\ order[s].kind = "entry" =>
       qty[s] = 0 /\ view[s] = 0 /\ order[s].qty > 0
  /\ pc[s] = "submit" /\ order[s].kind = "exit" =>
       SameSign(view[s], qty[s]) /\ IsExit(s, order[s].side) /\ order[s].qty = Abs(qty[s])
  /\ pc[s] = "persist" /\ order[s].kind = "entry" =>
       order[s].qty > 0 /\ qty[s] = Signed(order[s].side, order[s].qty) /\ view[s] = 0
  /\ pc[s] = "persist" /\ order[s].kind = "exit" =>
       view[s] # 0 /\ (qty[s] = 0 \/ SameSign(view[s], qty[s]))

SlotKnown(s) ==
  /\ pc[s] = "idle" => (s \in slots <=> qty[s] # 0)
  /\ pc[s] = "gate" => s \notin slots
  /\ pc[s] \in {"submit", "persist"} => (s \in slots <=> order[s].kind = "exit")

Consistent(s) == RunnerKnows(s) /\ SlotKnown(s)

ConsistentInv == up => \A s \in Sids : Consistent(s)

-----------------------------------------------------------------------------
(* A poll that reaches on_tick leaves a well-formed session.               *)
LEMMA SessionType ==
  ASSUME TypeOK, NEW s \in Sids
  PROVE  Session(s) \in Sessions /\ Ticked(s) \in Sessions
  BY SMTT(40) DEF TypeOK, Session, Ticked, Sessions, NewSession, Ranges, BothWays

LEMMA NoOrderType == NoOrder \in Orders
  BY DEF NoOrder, Orders, BothWays

LEMMA NewSessionType == NewSession \in Sessions
  BY DEF NewSession, Sessions, Ranges

LEMMA InitTypeOK == Init => TypeOK
<1> SUFFICES ASSUME Init PROVE TypeOK
  OBVIOUS
<1>1. 1 \in 1..MaxDays /\ 0 \in 0..MaxFaults
  BY OrderFlowAssumption DEF OrderFlowAssumption
<1>2. /\ session \in [Sids -> Sessions]
      /\ order \in [Sids -> Orders]
  BY NoOrderType, NewSessionType DEF Init
<1>3. /\ qty \in [Sids -> Int] /\ view \in [Sids -> Int]
      /\ row \in [Sids -> Int] /\ book \in [Sids -> Int]
  BY DEF Init
<1>4. /\ pc \in [Sids -> {"idle", "gate", "submit", "persist"}]
      /\ rowToday \in [Sids -> BOOLEAN]
  BY DEF Init
<1>5. /\ afloat \in [Sids -> [BothWays -> Nat]]
      /\ entered \in [Sids -> SUBSET BothWays] /\ untold \in [Sids -> SUBSET BothWays]
  BY DEF Init
<1>6. /\ up \in BOOLEAN /\ halted \in BOOLEAN /\ blind \in BOOLEAN
      /\ phase \in Phases /\ slots \subseteq Sids /\ unsaved \subseteq Sids
      /\ doubted \subseteq Sids
  BY DEF Init, Phases
<1> QED BY <1>1, <1>2, <1>3, <1>4, <1>5, <1>6 DEF Init, TypeOK

LEMMA PersistRowType ==
  ASSUME TypeOK, NEW s \in Sids, PersistRow(s)
  PROVE  /\ row' \in [Sids -> Int] /\ rowToday' \in [Sids -> BOOLEAN]
         /\ unsaved' \subseteq Sids /\ faults' \in 0..MaxFaults
<1>1. CASE /\ row' = [row EXCEPT ![s] = qty[s]]
           /\ rowToday' = [rowToday EXCEPT ![s] = TRUE]
           /\ unsaved' = unsaved \ {s}
           /\ UNCHANGED faults
  <2>1. row' \in [Sids -> Int] /\ unsaved' \subseteq Sids /\ faults' \in 0..MaxFaults
    BY <1>1 DEF TypeOK
  <2>2. rowToday' \in [Sids -> BOOLEAN]
    BY <1>1 DEF TypeOK
  <2> QED BY <2>1, <2>2
<1>2. CASE /\ faults < MaxFaults
           /\ faults' = faults + 1
           /\ unsaved' = unsaved \cup {s}
           /\ UNCHANGED database
  BY <1>2, OrderFlowAssumption DEF TypeOK, database, OrderFlowAssumption
<1> QED BY <1>1, <1>2 DEF PersistRow

(* What an executor's answer does to the books. *)
LEMMA DoubtType ==
  ASSUME TypeOK, NEW s \in Sids, NEW side \in BothWays, NEW ordered \in Nat,
         Doubt(s, side, ordered)
  PROVE  /\ book' = book /\ afloat' \in [Sids -> [BothWays -> Nat]]
         /\ doubted' \subseteq Sids /\ faults' \in 0..MaxFaults
<1> DEFINE more == [afloat[s] EXCEPT ![side] = @ + ordered]
<1>1. more \in [BothWays -> Nat]
  BY DEF TypeOK
<1>2. afloat' \in [Sids -> [BothWays -> Nat]]
  <2>1. afloat' = [afloat EXCEPT ![s] = more]
    BY Zenon DEF Doubt
  <2>2. afloat \in [Sids -> [BothWays -> Nat]]
    BY DEF TypeOK
  <2> HIDE DEF more
  <2> QED BY <1>1, <2>1, <2>2
<1>3. faults' \in 0..MaxFaults
  BY OrderFlowAssumption DEF Doubt, TypeOK, OrderFlowAssumption
<1> QED BY <1>2, <1>3 DEF Doubt, TypeOK

LEMMA AnswerType ==
  ASSUME TypeOK, NEW s \in Sids, NEW side \in BothWays, NEW ordered \in Nat,
         \/ NoFill(s, side, ordered)
         \/ \E n \in 1..ordered : FillOrder(s, side, ordered, n)
  PROVE  /\ qty' \in [Sids -> Int] /\ book' \in [Sids -> Int]
         /\ afloat' \in [Sids -> [BothWays -> Nat]]
         /\ doubted' \subseteq Sids /\ faults' \in 0..MaxFaults
<1>1. CASE NoFill(s, side, ordered)
  BY <1>1, DoubtType DEF NoFill, TypeOK, exchange
<1>2. ASSUME NEW n \in 1..ordered, FillOrder(s, side, ordered, n)
      PROVE  /\ qty' \in [Sids -> Int] /\ book' \in [Sids -> Int]
             /\ afloat' \in [Sids -> [BothWays -> Nat]]
             /\ doubted' \subseteq Sids /\ faults' \in 0..MaxFaults
  <2>1. qty' \in [Sids -> Int]
    BY <1>2 DEF FillOrder, Confirmed, Booked, TypeOK, Signed
  <2>2. CASE Confirmed(s, side, ordered, n)
    BY <2>1, <2>2 DEF Confirmed, TypeOK, Signed
  <2>3. CASE Doubt(s, side, ordered)
    BY <2>1, <2>3, DoubtType DEF TypeOK
  <2> QED BY <1>2, <2>2, <2>3 DEF FillOrder
<1> QED BY <1>1, <1>2

LEMMA RunnerTypeOK ==
  ASSUME TypeOK, NEW s \in Sids, Runner(s)
  PROVE  TypeOK'
<1> USE OrderFlowAssumption DEF OrderFlowAssumption
<1> Session(s) \in Sessions /\ Ticked(s) \in Sessions
  BY SessionType
<1>1. CASE BuildRange(s)
  <2>1. [Session(s) EXCEPT !.range = "building"] \in Sessions
    BY DEF Sessions, Ranges
  <2>2. session' \in [Sids -> Sessions]
    BY <1>1, <2>1 DEF BuildRange, TypeOK
  <2> QED BY <1>1, <2>2
    DEF BuildRange, TypeOK, market, coroutine, database, exchange, history
<1>2. CASE QuietPoll(s)
  BY <1>2 DEF QuietPoll, TypeOK, market, coroutine, database, exchange, history
<1>3. CASE DecideEntry(s)
  <2> PICK side \in Sides \ Ticked(s).tried :
       /\ session' = [session EXCEPT ![s] = [Ticked(s) EXCEPT !.tried = @ \cup {side}]]
       /\ IF Session(s).entries >= MaxEntries
          THEN UNCHANGED coroutine
          ELSE /\ pc' = [pc EXCEPT ![s] = "gate"]
               /\ order' = [order EXCEPT ![s] = [kind |-> "entry", side |-> side, qty |-> 0]]
    BY <1>3 DEF DecideEntry
  <2>1. [Ticked(s) EXCEPT !.tried = @ \cup {side}] \in Sessions
    BY DEF Sessions, BothWays
  <2>2. session' \in [Sids -> Sessions]
    BY <2>1 DEF TypeOK
  <2>4. pc' \in [Sids -> {"idle", "gate", "submit", "persist"}]
    BY DEF TypeOK, coroutine
  <2>5. [kind |-> "entry", side |-> side, qty |-> 0] \in Orders
    BY DEF Orders, BothWays
  <2>6. order' \in [Sids -> Orders]
    BY <2>5 DEF TypeOK, coroutine
  <2> QED BY <1>3, <2>2, <2>4, <2>6
    DEF DecideEntry, TypeOK, market, database, exchange, history
<1>4. CASE DecideExit(s)
  <2>1. session' \in [Sids -> Sessions] /\ view' \in [Sids -> Int]
    BY <1>4 DEF DecideExit, NotifyFlat, TypeOK
  <2>2. pc' \in [Sids -> {"idle", "gate", "submit", "persist"}]
    BY <1>4 DEF DecideExit, TypeOK, coroutine
  <2>3. [kind |-> "exit", side |-> ExitSide(s), qty |-> ExitQty(s)] \in Orders
    BY DEF TypeOK, Orders, BothWays, ExitSide, ExitQty, Abs
  <2>4. order' \in [Sids -> Orders]
    BY <1>4, <2>3 DEF DecideExit, TypeOK, coroutine
  <2> QED BY <1>4, <2>1, <2>2, <2>4
    DEF DecideExit, TypeOK, market, database, exchange, history
<1>5. CASE EntryDropped(s)
  BY <1>5, NoOrderType DEF EntryDropped, Finish, TypeOK, market, memory, database, exchange, history
<1>6. CASE EntrySubmitted(s)
  <2>1. order[s] \in Orders /\ order[s].side \in BothWays
    BY DEF TypeOK, Orders
  <2>2. /\ entered' \in [Sids -> SUBSET BothWays] /\ untold' \in [Sids -> SUBSET BothWays]
    BY <1>6, <2>1 DEF EntrySubmitted, TypeOK
  <2>3. /\ order' \in [Sids -> Orders] /\ pc' \in [Sids -> {"idle", "gate", "submit", "persist"}]
    BY <1>6, <2>1 DEF EntrySubmitted, SizedQty, TypeOK, Orders, BothWays
  <2> QED BY <1>6, <2>2, <2>3 DEF EntrySubmitted, TypeOK, market, memory, database, exchange
<1>7. CASE OrderFailed(s)
  <2>0. order[s].side \in BothWays /\ order[s].qty \in Nat
    BY DEF TypeOK, Orders
  <2>1. /\ book' \in [Sids -> Int] /\ afloat' \in [Sids -> [BothWays -> Nat]]
        /\ doubted' \subseteq Sids /\ faults' \in 0..MaxFaults
    BY <1>7, <2>0, AnswerType DEF OrderFailed
  <2> QED BY <1>7, <2>1, NoOrderType, ZenonT(40)
    DEF OrderFailed, NoFill, NotifyFlat, Finish, TypeOK, market, database
<1>8. CASE OrderFilled(s)
  <2> PICK n \in 1..order[s].qty :
       /\ FillOrder(s, order[s].side, order[s].qty, n)
       /\ order' = [order EXCEPT ![s].qty = n]
    BY <1>8 DEF OrderFilled
  <2>0. order[s].side \in BothWays /\ order[s].qty \in Nat
    BY DEF TypeOK, Orders
  <2>1. /\ qty' \in [Sids -> Int] /\ book' \in [Sids -> Int]
        /\ afloat' \in [Sids -> [BothWays -> Nat]]
        /\ doubted' \subseteq Sids /\ faults' \in 0..MaxFaults
    BY <2>0, AnswerType
  <2>2. order' \in [Sids -> Orders]
    <3>1. order[s] \in Orders /\ n \in Nat
      BY <2>0 DEF TypeOK
    <3>2. [order[s] EXCEPT !.qty = n] \in Orders
      BY <3>1 DEF Orders
    <3>3. order' = [order EXCEPT ![s] = [order[s] EXCEPT !.qty = n]]
      BY DEF TypeOK
    <3> QED BY <3>2, <3>3 DEF TypeOK
  <2> QED BY <1>8, <2>1, <2>2 DEF OrderFilled, TypeOK, market, database
<1>9. CASE EntrySettled(s)
  <2>1. session' \in [Sids -> Sessions]
    <3>0. session[s] \in Sessions
      BY DEF TypeOK
    <3>1. [session[s] EXCEPT !.entries = @ + 1] \in Sessions
      BY <3>0 DEF Sessions
    <3>2. session' = [session EXCEPT ![s] = [session[s] EXCEPT !.entries = @ + 1]]
      BY <1>9 DEF EntrySettled, TypeOK
    <3> QED BY <3>1, <3>2 DEF TypeOK
  <2>2. view' \in [Sids -> Int]
    BY <1>9 DEF EntrySettled, NotifyFill, TypeOK, Orders, Signed
  <2>3. /\ row' \in [Sids -> Int] /\ rowToday' \in [Sids -> BOOLEAN]
        /\ unsaved' \subseteq Sids /\ faults' \in 0..MaxFaults
    BY <1>9, PersistRowType DEF EntrySettled
  <2> QED BY <1>9, <2>1, <2>2, <2>3, NoOrderType
    DEF EntrySettled, Finish, TypeOK, market, exchange
<1>10. CASE ExitSettled(s)
  <2>1. view' \in [Sids -> Int] /\ slots' \subseteq Sids
    BY <1>10 DEF ExitSettled, NotifyFlat, TypeOK
  <2>2. /\ row' \in [Sids -> Int] /\ rowToday' \in [Sids -> BOOLEAN]
        /\ unsaved' \subseteq Sids /\ faults' \in 0..MaxFaults
    BY <1>10, PersistRowType DEF ExitSettled
  <2> QED BY <1>10, <2>1, <2>2, NoOrderType
    DEF ExitSettled, Finish, TypeOK, market, exchange
<1> QED BY <1>1, <1>2, <1>3, <1>4, <1>5, <1>6, <1>7, <1>8, <1>9, <1>10 DEF Runner

LEMMA DeathTypeOK ==
  ASSUME TypeOK, ProcessDies, afloat' \in [Sids -> [BothWays -> Nat]]
  PROVE  TypeOK'
<1>1. /\ view' \in [Sids -> Int] /\ session' \in [Sids -> Sessions]
      /\ order' \in [Sids -> Orders] /\ slots' \subseteq Sids
  BY NewSessionType, NoOrderType DEF ProcessDies
<1>2. faults' \in 0..MaxFaults
  BY OrderFlowAssumption DEF ProcessDies, TypeOK, OrderFlowAssumption
<1> QED BY <1>1, <1>2 DEF ProcessDies, TypeOK, market, database, history

LEMMA UnderWayType ==
  ASSUME TypeOK, NEW s \in Sids, NEW side  PROVE UnderWay(s, side) \in Nat
  BY DEF TypeOK, Orders, UnderWay

LEMMA EnvironmentTypeOK ==
  ASSUME TypeOK, Environment
  PROVE  TypeOK'
<1> USE OrderFlowAssumption DEF OrderFlowAssumption
<1>1. CASE Crash
  <2>1. \A s \in Sids, side \in BothWays : afloat[s][side] + UnderWay(s, side) \in Nat
    BY UnderWayType DEF TypeOK
  <2>2. afloat' \in [Sids -> [BothWays -> Nat]]
    BY <1>1, <2>1 DEF Crash
  <2> QED BY <1>1, <2>2, DeathTypeOK DEF Crash
<1>2. CASE Boot
  <2> PICK db \in BOOLEAN, broker \in BOOLEAN :
       /\ faults' = faults + (IF db THEN 0 ELSE 1) + (IF broker THEN 0 ELSE 1)
       /\ faults' <= MaxFaults
       /\ qty' = Reconciled(db, broker)
       /\ blind' = (Live /\ ~broker)
       /\ IF db
          THEN /\ row' = qty'
               /\ rowToday' = [s \in Sids |-> rowToday[s] \/ row[s] # 0 \/ qty'[s] # 0]
               /\ unsaved' = {}
          ELSE /\ UNCHANGED database
               /\ unsaved' = {s \in Sids : row[s] # qty'[s]}
    BY <1>2 DEF Boot
  <2>1. faults' \in 0..MaxFaults
    BY DEF TypeOK
  <2>2. qty' \in [Sids -> Int]
    BY DEF TypeOK, Reconciled, Restored
  <2>3. row' \in [Sids -> Int] /\ unsaved' \subseteq Sids
    BY <2>2 DEF TypeOK, database
  <2>4. rowToday' \in [Sids -> BOOLEAN]
    <3>1. CASE db
      BY <3>1, Zenon DEF TypeOK, database
    <3>2. CASE ~db
      BY <3>2 DEF TypeOK, database
    <3> QED BY <3>1, <3>2
  <2>5. view' \in [Sids -> Int] /\ slots' \subseteq Sids
    BY <1>2, <2>2 DEF Boot
  <2>7. session' \in [Sids -> Sessions] /\ untold' \in [Sids -> SUBSET BothWays]
    <3> PICK ok \in [Sids -> BOOLEAN], shown \in [Sids -> SUBSET Sides] :
          /\ session' = [s \in Sids |-> Seeded(s, ok[s], shown[s])]
          /\ untold' = [s \in Sids |-> entered[s] \ shown[s]]
      BY <1>2 DEF Boot
    <3>1. \A s \in Sids : shown[s] \subseteq BothWays
      BY DEF BothWays
    <3>2. \A s \in Sids : Seeded(s, ok[s], shown[s]) \in Sessions
      BY <3>1, NewSessionType DEF Seeded, Sessions, Ranges
    <3> QED BY <3>2 DEF TypeOK
  <2>8. /\ pc' \in [Sids -> {"idle", "gate", "submit", "persist"}]
        /\ order' \in [Sids -> Orders]
    BY <1>2, NoOrderType DEF Boot
  <2>9. /\ phase' \in Phases /\ day' \in 1..MaxDays
        /\ book' \in [Sids -> Int] /\ entered' \in [Sids -> SUBSET BothWays]
        /\ afloat' \in [Sids -> [BothWays -> Nat]]
    BY <1>2 DEF Boot, TypeOK, market, exchange
  <2>10. blind' \in BOOLEAN
    BY Zenon
  <2>11. up' \in BOOLEAN /\ halted' \in BOOLEAN
    BY <1>2, Zenon DEF Boot
  <2>12. doubted' \subseteq Sids
    BY <1>2 DEF Boot
  <2> QED BY <2>1, <2>2, <2>3, <2>4, <2>5, <2>7, <2>8, <2>9, <2>10, <2>11, <2>12
    DEF TypeOK
<1>3. CASE NextPhase
  BY <1>3 DEF NextPhase, After, TypeOK, Phases, memory, coroutine, database, exchange, history
<1>4. CASE NextDay
  <2>1. [NewSession EXCEPT !.range = "stale"] \in Sessions
    BY DEF NewSession, Sessions, Ranges
  <2>2. session' \in [Sids -> Sessions]
    BY <1>4, <2>1 DEF NextDay, TypeOK
  <2>3. phase' \in Phases /\ day' \in 1..MaxDays
    BY <1>4 DEF NextDay, After, TypeOK, Phases
  <2>4. rowToday' \in [Sids -> BOOLEAN]
    BY <1>4 DEF NextDay
  <2>5. /\ untold' \in [Sids -> SUBSET BothWays]
        /\ entered' \in [Sids -> SUBSET BothWays]
    BY <1>4 DEF NextDay
  <2> QED BY <1>4, <2>2, <2>3, <2>4, <2>5 DEF NextDay, TypeOK, coroutine, exchange
<1>5. CASE Resume
  BY <1>5 DEF Resume, TypeOK, market, memory, coroutine, database, exchange, history
<1>6. ASSUME NEW s \in Sids, AtBroker(s)  PROVE TypeOK'
  <2>1. PICK side \in BothWays : \E n \in 1..afloat[s][side], traded \in BOOLEAN :
          /\ afloat' = [afloat EXCEPT ![s][side] = @ - n]
          /\ book' = [book EXCEPT ![s] = IF traded THEN @ + Signed(side, n) ELSE @]
    BY <1>6 DEF AtBroker
  <2>2. PICK n \in 1..afloat[s][side], traded \in BOOLEAN :
          /\ afloat' = [afloat EXCEPT ![s][side] = @ - n]
          /\ book' = [book EXCEPT ![s] = IF traded THEN @ + Signed(side, n) ELSE @]
    BY <2>1
  <2>3. afloat[s][side] - n \in Nat /\ n \in Nat
    BY DEF TypeOK
  <2> DEFINE rest == [afloat[s] EXCEPT ![side] = @ - n]
  <2>4. rest \in [BothWays -> Nat]
    BY <2>3 DEF TypeOK
  <2>5. book' \in [Sids -> Int]
    BY <2>2, <2>3 DEF TypeOK, Signed
  <2>6. afloat' \in [Sids -> [BothWays -> Nat]]
    <3>1. afloat' = [afloat EXCEPT ![s] = rest]
      BY <2>2, Zenon
    <3>2. afloat \in [Sids -> [BothWays -> Nat]]
      BY DEF TypeOK
    <3> HIDE DEF rest
    <3> QED BY <2>4, <3>1, <3>2
  <2> QED BY <1>6, <2>5, <2>6 DEF AtBroker, TypeOK, market, memory, coroutine, database, history
<1> QED BY <1>1, <1>2, <1>3, <1>4, <1>5, <1>6 DEF Environment

LEMMA NextTypeOK == TypeOK /\ [Next]_vars => TypeOK'
<1> SUFFICES ASSUME TypeOK, [Next]_vars PROVE TypeOK'
  OBVIOUS
<1>1. CASE Environment
  BY <1>1, EnvironmentTypeOK
<1>2. CASE \E s \in Sids : Runner(s)
  BY <1>2, RunnerTypeOK
<1>3. CASE UNCHANGED vars
  BY <1>3 DEF vars, TypeOK, market, memory, coroutine, database, exchange, history
<1> QED BY <1>1, <1>2, <1>3 DEF Next

(* Every reachable state of the order path is well typed.                  *)
THEOREM OrderFlowTyped == Spec => []TypeOK
<1>1. Init => TypeOK
  BY InitTypeOK
<1>2. TypeOK /\ [Next]_vars => TypeOK'
  BY NextTypeOK
<1> QED BY <1>1, <1>2, PTL DEF Spec

-----------------------------------------------------------------------------
(* A runner leaves the other securities alone. *)
LEMMA OthersUntouched ==
  ASSUME NEW s \in Sids, NEW t \in Sids, s # t, TypeOK, Runner(s)
  PROVE  /\ qty'[t] = qty[t] /\ view'[t] = view[t] /\ pc'[t] = pc[t] /\ order'[t] = order[t]
         /\ t \in slots' <=> t \in slots
<1>1. CASE BuildRange(s) \/ QuietPoll(s)
  BY <1>1 DEF BuildRange, QuietPoll, coroutine
<1>2. CASE DecideEntry(s) \/ DecideExit(s)
  BY <1>2 DEF DecideEntry, DecideExit, NotifyFlat, coroutine, TypeOK
<1>3. CASE EntryDropped(s) \/ EntrySubmitted(s)
  BY <1>3 DEF EntryDropped, EntrySubmitted, SizedQty, Finish, memory, TypeOK
<1>4. CASE OrderFailed(s) \/ OrderFilled(s)
  BY <1>4 DEF OrderFailed, OrderFilled, NotifyFlat, NoFill, FillOrder, Confirmed, Finish, TypeOK
<1>5. CASE EntrySettled(s) \/ ExitSettled(s)
  BY <1>5 DEF EntrySettled, ExitSettled, NotifyFill, NotifyFlat, Finish, TypeOK
<1> QED BY <1>1, <1>2, <1>3, <1>4, <1>5 DEF Runner

LEMMA OthersConsistent ==
  ASSUME NEW s \in Sids, NEW t \in Sids, s # t, TypeOK, Runner(s), Consistent(t)
  PROVE  Consistent(t)'
BY OthersUntouched DEF Consistent, RunnerKnows, SlotKnown, SameSign, IsExit

(* The runner's own security: one step per action. *)
LEMMA OwnRunnerKnows ==
  ASSUME NEW s \in Sids, TypeOK, Runner(s), RunnerKnows(s)
  PROVE  RunnerKnows(s)'
<1> /\ qty[s] \in Int /\ view[s] \in Int /\ order[s].qty \in Nat
    /\ order[s].side \in {"BUY", "SELL"} /\ order[s].kind \in {"none", "entry", "exit"}
  BY DEF TypeOK, Orders, BothWays
<1>1. CASE BuildRange(s) \/ QuietPoll(s)
  BY <1>1 DEF BuildRange, QuietPoll, coroutine, RunnerKnows, SameSign, IsExit
<1>2. CASE DecideEntry(s)
  <2>1. /\ pc[s] = "idle" /\ view[s] = 0
        /\ qty' = qty /\ view' = view
        /\ \/ pc' = pc /\ order' = order
           \/ pc'[s] = "gate" /\ order'[s].kind = "entry"
    BY <1>2 DEF DecideEntry, Polls, coroutine, TypeOK
  <2> QED BY <2>1 DEF RunnerKnows, SameSign, IsExit
<1>3. CASE DecideExit(s)
  <2>1. CASE qty[s] = 0
    BY <1>3, <2>1 DEF DecideExit, NotifyFlat, TypeOK, Polls, coroutine, RunnerKnows, SameSign
  <2>2. CASE qty[s] # 0
    <3>1. /\ pc[s] = "idle" /\ pc'[s] = "submit" /\ order'[s].kind = "exit"
          /\ order'[s].side = IF qty[s] > 0 THEN "SELL" ELSE "BUY"
          /\ order'[s].qty = Abs(qty[s])
          /\ qty' = qty /\ view' = view
      BY <1>3, <2>2 DEF DecideExit, ExitSide, ExitQty, Polls, TypeOK
    <3> QED BY <2>2, <3>1 DEF RunnerKnows, SameSign, IsExit, Abs
  <2> QED BY <2>1, <2>2
<1>4. CASE EntryDropped(s)
  BY <1>4 DEF EntryDropped, Finish, memory, TypeOK, RunnerKnows, SameSign
<1>5. CASE EntrySubmitted(s)
  <2>1. /\ pc[s] = "gate" /\ pc'[s] = "submit" /\ order'[s].kind = order[s].kind
        /\ order'[s].qty > 0
        /\ qty' = qty /\ view' = view
    BY <1>5, OrderFlowAssumption DEF EntrySubmitted, SizedQty, memory, TypeOK, Orders, OrderFlowAssumption
  <2> QED BY <2>1 DEF RunnerKnows
<1>6. CASE OrderFailed(s)
  <2>1. pc[s] = "submit" /\ pc'[s] = "idle" /\ qty' = qty
    BY <1>6 DEF OrderFailed, NoFill, Finish, TypeOK
  <2>2. CASE order[s].kind = "entry"
    BY <1>6, <2>1, <2>2 DEF OrderFailed, RunnerKnows, SameSign
  <2>3. CASE order[s].kind = "exit"
    BY <1>6, <2>1, <2>3 DEF OrderFailed, NotifyFlat, TypeOK, RunnerKnows, SameSign, IsExit
  <2> QED BY <2>1, <2>2, <2>3 DEF RunnerKnows
<1>7. CASE OrderFilled(s)
  <2> PICK n \in 1..order[s].qty :
       /\ qty' = [qty EXCEPT ![s] = @ + Signed(order[s].side, n)]
       /\ order' = [order EXCEPT ![s].qty = n]
    BY <1>7 DEF OrderFilled, FillOrder, Confirmed, Booked
  <2>1. /\ pc[s] = "submit" /\ pc'[s] = "persist" /\ view' = view
        /\ order'[s].kind = order[s].kind /\ order'[s].side = order[s].side
        /\ order'[s].qty = n /\ qty'[s] = qty[s] + Signed(order[s].side, n)
    BY <1>7 DEF OrderFilled, TypeOK, Orders
  <2>2. CASE order[s].kind = "entry"
    BY <2>1, <2>2 DEF RunnerKnows, Signed
  <2>3. CASE order[s].kind = "exit"
    BY <2>1, <2>3 DEF RunnerKnows, SameSign, IsExit, Signed, Abs
  <2> QED BY <2>1, <2>2, <2>3 DEF RunnerKnows
<1>8. CASE EntrySettled(s)
  <2>1. /\ pc[s] = "persist" /\ order[s].kind = "entry" /\ pc'[s] = "idle"
        /\ qty' = qty
        /\ view'[s] = view[s] + Signed(order[s].side, order[s].qty)
    BY <1>8 DEF EntrySettled, NotifyFill, Finish, TypeOK
  <2> QED BY <2>1 DEF RunnerKnows, SameSign, Signed
<1>9. CASE ExitSettled(s)
  <2>1. /\ pc[s] = "persist" /\ order[s].kind = "exit" /\ pc'[s] = "idle" /\ qty' = qty
        /\ qty[s] # 0 => view' = view
        /\ qty[s] = 0 => view'[s] = 0
    BY <1>9 DEF ExitSettled, ExitComplete, NotifyFlat, Finish, TypeOK
  <2> QED BY <2>1 DEF RunnerKnows, SameSign
<1> QED BY <1>1, <1>2, <1>3, <1>4, <1>5, <1>6, <1>7, <1>8, <1>9 DEF Runner

(* The slot is booked when an entry is settled, released when an exit is.  *)
LEMMA OwnSlotKnown ==
  ASSUME NEW s \in Sids, TypeOK, Runner(s), Consistent(s)
  PROVE  SlotKnown(s)'
<1> USE DEF Consistent, RunnerKnows, SlotKnown
<1>1. CASE BuildRange(s) \/ QuietPoll(s)
  BY <1>1 DEF BuildRange, QuietPoll, coroutine
<1>2. CASE DecideEntry(s) \/ DecideExit(s)
  <2>1. /\ pc[s] = "idle" /\ qty' = qty /\ slots' = slots
        /\ \/ pc' = pc
           \/ pc'[s] = "gate" /\ qty[s] = 0
           \/ pc'[s] = "submit" /\ order'[s].kind = "exit" /\ qty[s] # 0
    BY <1>2 DEF DecideEntry, DecideExit, Polls, coroutine, TypeOK, SameSign
  <2> QED BY <2>1
<1>3. CASE EntryDropped(s) \/ EntrySubmitted(s)
  <2>1. /\ pc[s] = "gate" /\ qty' = qty /\ slots' = slots
        /\ \/ pc'[s] = "idle"
           \/ pc'[s] = "submit" /\ order'[s].kind = order[s].kind
    BY <1>3 DEF EntryDropped, EntrySubmitted, SizedQty, Finish, memory, TypeOK, Orders
  <2> QED BY <2>1
<1>4. CASE OrderFailed(s)
  BY <1>4 DEF OrderFailed, NoFill, Finish, TypeOK, IsExit
<1>5. CASE OrderFilled(s)
  BY <1>5 DEF OrderFilled, TypeOK, Orders
<1>6. CASE EntrySettled(s)
  <2>1. pc[s] = "persist" /\ order[s].kind = "entry" /\ pc'[s] = "idle" /\ qty' = qty
        /\ s \in slots'
    BY <1>6 DEF EntrySettled, Finish, TypeOK
  <2>2. qty[s] # 0
    BY <2>1 DEF TypeOK, Orders, Signed
  <2> QED BY <2>1, <2>2
<1>7. CASE ExitSettled(s)
  BY <1>7 DEF ExitSettled, ExitComplete, Finish, TypeOK
<1> QED BY <1>1, <1>2, <1>3, <1>4, <1>5, <1>6, <1>7 DEF Runner

LEMMA OwnConsistent ==
  ASSUME NEW s \in Sids, TypeOK, Runner(s), Consistent(s)
  PROVE  Consistent(s)'
BY OwnRunnerKnows, OwnSlotKnown DEF Consistent

LEMMA EnvironmentConsistent ==
  ASSUME TypeOK, ConsistentInv, Environment
  PROVE  ConsistentInv'
<1>1. CASE Crash
  BY <1>1 DEF Crash, ProcessDies, ConsistentInv
<1>2. CASE Boot
  <2>1. ASSUME NEW s \in Sids PROVE Consistent(s)'
    <3>1. qty' \in [Sids -> Int]
      BY <1>2, EnvironmentTypeOK DEF Environment, TypeOK
    <3>2. view' = qty' /\ slots' = {t \in Sids : qty'[t] # 0} /\ pc'[s] = "idle"
      BY <1>2 DEF Boot
    <3> QED BY <3>1, <3>2 DEF Consistent, RunnerKnows, SlotKnown, SameSign
  <2> QED BY <2>1 DEF ConsistentInv
<1>3. CASE NextPhase \/ NextDay \/ Resume \/ (\E s \in Sids : AtBroker(s))
  <2>1. UNCHANGED <<up, qty, view, slots, coroutine>>
    BY <1>3 DEF NextPhase, NextDay, Resume, AtBroker, memory
  <2> QED BY <2>1 DEF ConsistentInv, Consistent, RunnerKnows, SlotKnown, coroutine, IsExit
<1> QED BY <1>1, <1>2, <1>3 DEF Environment

LEMMA NextConsistent == TypeOK /\ ConsistentInv /\ [Next]_vars => ConsistentInv'
<1> SUFFICES ASSUME TypeOK, ConsistentInv, [Next]_vars PROVE ConsistentInv'
  OBVIOUS
<1> TypeOK'
  BY NextTypeOK
<1>1. CASE Environment
  BY <1>1, EnvironmentConsistent
<1>2. ASSUME NEW s \in Sids, Runner(s) PROVE ConsistentInv'
  <2>1. up
    BY <1>2 DEF Runner, BuildRange, QuietPoll, DecideEntry, DecideExit, Polls, EntryDropped,
                EntrySubmitted, OrderFailed, OrderFilled, EntrySettled, ExitSettled
  <2>2. Consistent(s)'
    BY <1>2, <2>1, OwnConsistent DEF ConsistentInv
  <2>3. ASSUME NEW t \in Sids, t # s PROVE Consistent(t)'
    BY <1>2, <2>1, <2>3, OthersConsistent DEF ConsistentInv
  <2> QED BY <2>2, <2>3 DEF ConsistentInv
<1>3. CASE UNCHANGED vars
  BY <1>3 DEF vars, ConsistentInv, Consistent, RunnerKnows, SlotKnown, IsExit, memory, coroutine
<1> QED BY <1>1, <1>2, <1>3 DEF Next

LEMMA ConsistentImplies ==
  TypeOK /\ ConsistentInv => ViewAgrees /\ SlotsMatchPositions /\ ExitOnlyReduces
  BY DEF TypeOK, Orders, ConsistentInv, Consistent, RunnerKnows, SlotKnown, ViewAgrees, SlotsMatchPositions,
         ExitOnlyReduces, SameSign, IsExit, Abs

LEMMA OrderFlowConsistent == Spec => []ConsistentInv
<1>1. Init => ConsistentInv
  BY DEF Init, ConsistentInv, Consistent, RunnerKnows, SlotKnown, SameSign
<1>2. TypeOK /\ ConsistentInv /\ [Next]_vars => ConsistentInv'
  BY NextConsistent
<1> QED BY <1>1, <1>2, OrderFlowTyped, PTL DEF Spec

(* Between orders, strategy and portfolio agree on being long, short or    *)
(* flat, for any number of securities, crashes and partial fills.          *)
THEOREM StrategyAgreesWithPortfolio == Spec => []ViewAgrees
  BY OrderFlowConsistent, OrderFlowTyped, ConsistentImplies, PTL

(* Between orders, risk slots are booked for exactly the open positions.   *)
THEOREM RiskBookedExactly == Spec => []SlotsMatchPositions
  BY OrderFlowConsistent, OrderFlowTyped, ConsistentImplies, PTL

(* Between orders the portfolio, the strategy and the risk registry say    *)
(* the same of every security.                                             *)
THEOREM RunnersAlwaysInStep == Spec => []RunnersInStep
  BY StrategyAgreesWithPortfolio, RiskBookedExactly, PTL DEF RunnersInStep

(* An exit under way never exceeds, and never adds to, its position.       *)
THEOREM ExitsOnlyReduce == Spec => []ExitOnlyReduces
  BY OrderFlowConsistent, OrderFlowTyped, ConsistentImplies, PTL

-----------------------------------------------------------------------------
(* The position limit.  Only check_intent adds to the entries that wait    *)
(* for their executor, and only they add to the open positions; so the two *)
(* together are bounded by what the last check_intent saw.                 *)
LimitInv ==
  /\ base \in Nat /\ peak \in Nat
  /\ up => Cardinality(Entering) <= peak /\ OpenWithinOverlap

LEMMA UnionCounted ==
  ASSUME NEW A \in SUBSET Sids, NEW B \in SUBSET Sids
  PROVE  /\ IsFiniteSet(A \cup B)
         /\ Cardinality(A) \in Nat /\ Cardinality(B) \in Nat /\ Cardinality(A \cup B) \in Nat
         /\ Cardinality(A \cup B) <= Cardinality(A) + Cardinality(B)
<1>1. IsFiniteSet(Sids) /\ A \cup B \in SUBSET Sids /\ A \cap B \in SUBSET Sids
  BY OrderFlowAssumption DEF OrderFlowAssumption
<1>2. IsFiniteSet(A) /\ IsFiniteSet(B) /\ IsFiniteSet(A \cup B) /\ IsFiniteSet(A \cap B)
  BY <1>1, FS_Subset
<1>3. Cardinality(A \cup B) = Cardinality(A) + Cardinality(B) - Cardinality(A \cap B)
  BY <1>2, FS_Union
<1> QED BY <1>2, <1>3, FS_CardinalityType

(* Other than by an entry submitted, no security joins those that are open *)
(* or about to be: a fill was awaited, or it is one of an exit.            *)
LEMMA OnlyEntriesJoin ==
  ASSUME TypeOK, ConsistentInv, up, up', [Next]_vars, NEW t \in Sids, ~EntrySubmitted(t),
         t \in Open' \cup Entering'
  PROVE  t \in Open \cup Entering
<1> SUFFICES ASSUME ~OrderFilled(t)  PROVE t \in Open \cup Entering
  <2>1. ASSUME OrderFilled(t)  PROVE t \in Open \cup Entering
    BY <2>1 DEF OrderFilled, ConsistentInv, Consistent, RunnerKnows, IsExit, Open, Entering,
                TypeOK
  <2> QED BY <2>1
<1> SUFFICES /\ qty'[t] = qty[t]
             /\ pc'[t] = "submit" /\ order'[t].kind = "entry" =>
                  pc[t] = "submit" /\ order[t].kind = "entry"
  BY DEF Open, Entering
<1>1. CASE NextPhase \/ NextDay \/ Resume \/ (\E s \in Sids : AtBroker(s)) \/ UNCHANGED vars
  BY <1>1 DEF NextPhase, NextDay, Resume, AtBroker, vars, memory, coroutine
<1>2. ASSUME NEW s \in Sids, s # t, Runner(s)
      PROVE  qty'[t] = qty[t] /\ pc'[t] = pc[t] /\ order'[t] = order[t]
  BY <1>2, OthersUntouched
<1>3. CASE BuildRange(t) \/ QuietPoll(t)
  BY <1>3 DEF BuildRange, QuietPoll, coroutine
<1>4. CASE DecideEntry(t) \/ DecideExit(t)
  BY <1>4 DEF DecideEntry, DecideExit, coroutine, TypeOK
<1>5. CASE EntryDropped(t) \/ OrderFailed(t) \/ EntrySettled(t) \/ ExitSettled(t)
  BY <1>5 DEF EntryDropped, OrderFailed, NoFill, EntrySettled, ExitSettled, Finish, memory, TypeOK
<1> QED BY <1>1, <1>2, <1>3, <1>4, <1>5 DEF Next, Environment, Crash, ProcessDies, Boot, Runner

LEMMA LimitStep ==
  ASSUME TypeOK, ConsistentInv, LimitInv, [LimitNext]_limitVars
  PROVE  LimitInv'
<1>0. [Next]_vars /\ MaxOpen \in Nat
  BY OrderFlowAssumption DEF LimitNext, limitVars, OrderFlowAssumption
<1>1. /\ Cardinality(Open') \in Nat /\ Cardinality(Entering') \in Nat
      /\ IsFiniteSet(Open \cup Entering) /\ Cardinality(Open \cup Entering) \in Nat
      /\ Cardinality(Open' \cup Entering') \in Nat
      /\ Cardinality(Open' \cup Entering') <= Cardinality(Open') + Cardinality(Entering')
  <2>1. /\ Open \in SUBSET Sids /\ Open' \in SUBSET Sids
        /\ Entering \in SUBSET Sids /\ Entering' \in SUBSET Sids
    BY DEF Open, Entering
  <2> QED BY <2>1, UnionCounted
<1>2. CASE UNCHANGED limitVars
  BY <1>2 DEF limitVars, vars, memory, coroutine, LimitInv, OpenWithinOverlap, Open, Entering
<1>3. CASE LimitNext /\ Started
  <2>1. /\ base' = Cardinality(Open') /\ peak' = 0 /\ Boot
    BY <1>3 DEF LimitNext, Started, Next, Environment, Crash, ProcessDies, AtBroker, NextPhase,
       NextDay, Resume,
       Runner, BuildRange, QuietPoll, DecideEntry, DecideExit, Polls, EntryDropped,
       EntrySubmitted, OrderFailed, OrderFilled, EntrySettled, ExitSettled
  <2>2. Entering' = {}
    BY <2>1 DEF Boot, Entering
  <2> QED BY <1>1, <2>1, <2>2, FS_EmptySet DEF LimitInv, OpenWithinOverlap
<1>4. CASE LimitNext /\ ~Started
  <2>1. /\ base' = base /\ peak' \in Nat /\ base \in Nat /\ peak \in Nat
        /\ peak <= peak' /\ Cardinality(Entering') <= peak'
    BY <1>1, <1>4 DEF LimitNext, LimitInv
  <2>2. ASSUME up'  PROVE OpenWithinOverlap'
    <3>1. up
      BY <1>4, <2>2 DEF Started
    <3>2. CASE \E s \in Sids : EntrySubmitted(s)
      <4>1. PICK s \in Sids : EntrySubmitted(s)
        BY <3>2
      <4>2. qty[s] = 0 /\ Open' = Open
        BY <3>1, <4>1 DEF EntrySubmitted, ConsistentInv, Consistent, RunnerKnows, memory, Open
      <4>3. Cardinality(Open) < MaxOpen
        BY <4>1, <4>2 DEF EntrySubmitted, Admitted, IsExit
      <4> QED BY <1>0, <1>1, <2>1, <4>2, <4>3 DEF OpenWithinOverlap
    <3>3. CASE ~\E s \in Sids : EntrySubmitted(s)
      <4>1. Open' \cup Entering' \in SUBSET (Open \cup Entering)
        <5>1. \A t \in Open' \cup Entering' : t \in Sids
          BY DEF Open, Entering
        <5> QED BY <1>0, <2>2, <3>1, <3>3, <5>1, OnlyEntriesJoin
      <4>2. Cardinality(Open' \cup Entering') <= Cardinality(Open \cup Entering)
        BY <1>1, <4>1, FS_Subset
      <4>3. OpenWithinOverlap
        BY <3>1 DEF LimitInv
      <4> QED BY <1>0, <1>1, <2>1, <4>2, <4>3 DEF OpenWithinOverlap
    <3> QED BY <3>2, <3>3
  <2> QED BY <2>1, <2>2 DEF LimitInv
<1> QED BY <1>2, <1>3, <1>4

(* Runners that check at once pass the limit on open positions by less     *)
(* than the entries that waited together, never by more however long they  *)
(* trade and whatever crashes, and the only open risk not in the budget is *)
(* that of entries being booked (check_intent, register_risk).             *)
THEOREM LimitsAlwaysHold == LimitSpec => []LimitsHold
<1>1. LimitInit => Init /\ LimitInv
  <2> SUFFICES ASSUME LimitInit  PROVE LimitInv
    BY DEF LimitInit
  <2>1. Open = {} /\ Entering = {} /\ Open \cup Entering = {}
    BY DEF LimitInit, Init, Open, Entering
  <2> QED BY <2>1, FS_EmptySet DEF LimitInit, LimitInv, OpenWithinOverlap
<1>2. [LimitNext]_limitVars => [Next]_vars
  BY DEF LimitNext, limitVars
<1>3. LimitSpec => Spec
  BY <1>1, <1>2, PTL DEF LimitSpec, Spec
<1>4. TypeOK /\ ConsistentInv /\ LimitInv /\ [LimitNext]_limitVars => LimitInv'
  BY LimitStep
<1>5. TypeOK /\ ConsistentInv /\ LimitInv => LimitsHold
  BY DEF TypeOK, ConsistentInv, Consistent, RunnerKnows, SlotKnown, LimitInv, LimitsHold,
         UnbookedAreSettling, Open
<1> QED BY <1>1, <1>3, <1>4, <1>5, OrderFlowTyped, OrderFlowConsistent, PTL DEF LimitSpec

-----------------------------------------------------------------------------
(* The engine's quantities and the broker's move together.  In LIVE they   *)
(* part where the broker still trades an order that nobody follows: such a *)
(* security is doubted, since the answer or since the boot.                *)
AfloatDoubted ==
  up => \A s \in Sids : (\E side \in BothWays : afloat[s][side] > 0) => s \in doubted

BooksInv == BookAgrees /\ AfloatDoubted

(* What an answer leaves of both, for a runner's order or the sweep's. *)
LEMMA AnswerKeepsBooks ==
  ASSUME TypeOK, BooksInv, up, up' = up, blind' = blind,
         NEW s \in Sids, NEW side \in BothWays, NEW ordered \in Nat,
         \/ NoFill(s, side, ordered)
         \/ \E n \in 1..ordered : FillOrder(s, side, ordered, n)
  PROVE  BooksInv'
<1>1. CASE Doubt(s, side, ordered)
  <2>1. /\ doubted' = doubted \cup {s} /\ book' = book
        /\ \A t \in Sids : t # s => afloat'[t] = afloat[t] /\ qty'[t] = qty[t]
    BY <1>1 DEF Doubt, NoFill, FillOrder, Confirmed, TypeOK
  <2> QED BY <2>1 DEF BooksInv, BookAgrees, AfloatDoubted
<1>2. CASE NoFill(s, side, ordered) /\ ~Doubt(s, side, ordered)
  <2>1. UNCHANGED <<qty, book, afloat, doubted>>
    BY <1>2 DEF NoFill, exchange
  <2> QED BY <2>1 DEF BooksInv, BookAgrees, AfloatDoubted
<1>3. ASSUME NEW n \in 1..ordered, Confirmed(s, side, ordered, n)  PROVE BooksInv'
  <2>1. /\ UNCHANGED <<afloat, doubted>>
        /\ \A t \in Sids : qty[t] = book[t] => qty'[t] = book'[t]
    BY <1>3 DEF Confirmed, Booked, TypeOK
  <2> QED BY <2>1 DEF BooksInv, BookAgrees, AfloatDoubted
<1> QED BY <1>1, <1>2, <1>3 DEF FillOrder

LEMMA BrokerKeepsBooks ==
  ASSUME TypeOK, BooksInv, NEW s \in Sids, AtBroker(s)
  PROVE  BooksInv'
<1>1. PICK side \in BothWays : \E n \in 1..afloat[s][side], traded \in BOOLEAN :
        /\ afloat' = [afloat EXCEPT ![s][side] = @ - n]
        /\ book' = [book EXCEPT ![s] = IF traded THEN @ + Signed(side, n) ELSE @]
  BY DEF AtBroker
<1>2. afloat[s][side] > 0 /\ UNCHANGED <<up, qty, blind, doubted>>
  BY <1>1 DEF AtBroker, memory, history, TypeOK
<1>3. \A t \in Sids : t # s => afloat'[t] = afloat[t] /\ book'[t] = book[t]
  BY <1>1 DEF TypeOK
<1> QED BY <1>2, <1>3 DEF BooksInv, BookAgrees, AfloatDoubted

LEMMA BootKeepsBooks ==
  ASSUME TypeOK, Boot
  PROVE  BooksInv'
<1>1. BookAgrees'
  BY DEF Boot, Reconciled, BookAgrees, exchange
<1>2. AfloatDoubted'
  BY DEF Boot, AfloatDoubted, exchange
<1> QED BY <1>1, <1>2 DEF BooksInv

LEMMA NextKeepsBooks == TypeOK /\ BooksInv /\ [Next]_vars => BooksInv'
<1> SUFFICES ASSUME TypeOK, BooksInv, [Next]_vars  PROVE BooksInv'
  OBVIOUS
<1>1. CASE Boot
  BY <1>1, BootKeepsBooks
<1>2. CASE Crash
  BY <1>2 DEF Crash, ProcessDies, BooksInv, BookAgrees, AfloatDoubted
<1>3. CASE NextPhase \/ NextDay \/ Resume \/ UNCHANGED vars
  <2>1. UNCHANGED <<up, qty, book, afloat, blind, doubted>>
    BY <1>3 DEF NextPhase, NextDay, Resume, vars, memory, exchange, history
  <2> QED BY <2>1 DEF BooksInv, BookAgrees, AfloatDoubted
<1>4. ASSUME NEW s \in Sids, OrderFilled(s) \/ OrderFailed(s)  PROVE BooksInv'
  <2>1. order[s].side \in BothWays /\ order[s].qty \in Nat
    BY DEF TypeOK, Orders
  <2>2. up /\ up' = up /\ blind' = blind
    BY <1>4 DEF OrderFilled, OrderFailed
  <2> QED BY <1>4, <2>1, <2>2, AnswerKeepsBooks DEF OrderFilled, OrderFailed
<1>5. ASSUME NEW s \in Sids, Runner(s), ~OrderFilled(s), ~OrderFailed(s)
      PROVE  BooksInv'
  <2>1. UNCHANGED <<up, qty, book, afloat, blind, doubted>>
    BY <1>5 DEF Runner, BuildRange, QuietPoll, DecideEntry, DecideExit, EntryDropped,
                EntrySubmitted, EntrySettled, ExitSettled, memory, exchange, history
  <2> QED BY <2>1 DEF BooksInv, BookAgrees, AfloatDoubted
<1>6. ASSUME NEW s \in Sids, AtBroker(s)  PROVE BooksInv'
  BY <1>6, BrokerKeepsBooks
<1> QED BY <1>1, <1>2, <1>3, <1>4, <1>5, <1>6 DEF Next, Environment

LEMMA InitBooks == Init => BooksInv
  BY DEF Init, BooksInv, BookAgrees, AfloatDoubted

(* LIVE, once the broker was read at boot: where the executor's answers    *)
(* are true and no order was left with the broker unfinished when a boot   *)
(* read its book, the engine never believes in a position the broker does  *)
(* not have, nor misses one it has, whenever the broker trades what it was *)
(* left.                                                                   *)
THEOREM EngineAgreesWithBroker == Spec => []BookAgrees
<1>1. BooksInv => BookAgrees
  BY DEF BooksInv
<1> QED BY <1>1, InitBooks, NextKeepsBooks, OrderFlowTyped, PTL DEF Spec

-----------------------------------------------------------------------------
(* The rows.  What is not being written and was not failed to be written   *)
(* is in the table, LIVE or PAPER, with the process up or down.            *)
RowsWritten == \A s \in Sids : pc[s] # "persist" /\ s \notin unsaved => row[s] = qty[s]

LEMMA NextRowsWritten == TypeOK /\ RowsWritten /\ [Next]_vars => RowsWritten'
<1> SUFFICES ASSUME TypeOK, RowsWritten, [Next]_vars, NEW t \in Sids,
                    pc'[t] # "persist", t \notin unsaved'
             PROVE  row'[t] = qty'[t]
  BY DEF RowsWritten
<1>1. CASE Boot
  <2>1. PICK db \in BOOLEAN :
          IF db THEN row' = qty'
                ELSE row' = row /\ unsaved' = {s \in Sids : row[s] # qty'[s]}
    BY <1>1 DEF Boot, database
  <2>2. CASE db
    BY <2>1, <2>2
  <2>3. CASE ~db
    BY <2>1, <2>3
  <2> QED BY <2>2, <2>3
<1>2. CASE \/ Crash \/ NextPhase \/ NextDay \/ Resume \/ (\E s \in Sids : AtBroker(s))
           \/ UNCHANGED vars
  <2>1. UNCHANGED <<pc, row, qty, unsaved>>
    BY <1>2 DEF Crash, ProcessDies, NextPhase, NextDay, Resume, AtBroker, vars, memory, coroutine,
                database, history
  <2> QED BY <2>1 DEF RowsWritten
<1>3. ASSUME NEW s \in Sids, OrderFilled(s)  PROVE row'[t] = qty'[t]
  <2>1. PICK n \in 1..order[s].qty : FillOrder(s, order[s].side, order[s].qty, n)
    BY <1>3 DEF OrderFilled
  <2>2. pc' = [pc EXCEPT ![s] = "persist"] /\ UNCHANGED <<row, unsaved>>
    BY <1>3 DEF OrderFilled, database
  <2>3. t # s
    BY <2>2 DEF TypeOK
  <2>4. pc'[t] = pc[t] /\ qty'[t] = qty[t]
    BY <2>1, <2>2, <2>3 DEF FillOrder, Confirmed, TypeOK
  <2> QED BY <2>2, <2>4 DEF RowsWritten
<1>4. ASSUME NEW s \in Sids, EntrySettled(s) \/ ExitSettled(s)  PROVE row'[t] = qty'[t]
  <2>1. PersistRow(s) /\ UNCHANGED qty /\ pc' = [pc EXCEPT ![s] = "idle"]
    BY <1>4 DEF EntrySettled, ExitSettled, Finish
  <2>2. CASE t = s
    BY <2>1, <2>2 DEF PersistRow, TypeOK
  <2>3. CASE t # s
    <3>1. row'[t] = row[t] /\ pc'[t] = pc[t] /\ t \notin unsaved
      BY <2>1, <2>3 DEF PersistRow, database, TypeOK
    <3> QED BY <2>1, <3>1 DEF RowsWritten
  <2> QED BY <2>2, <2>3
<1>5. ASSUME NEW s \in Sids, Runner(s), ~OrderFilled(s), ~EntrySettled(s), ~ExitSettled(s)
      PROVE  row'[t] = qty'[t]
  <2>1. UNCHANGED <<row, qty, unsaved>>
    BY <1>5 DEF Runner, BuildRange, QuietPoll, DecideEntry, DecideExit, EntryDropped,
                EntrySubmitted, OrderFailed, NoFill, memory, database, history
  <2>2. pc[t] # "persist"
    BY <1>5 DEF Runner, BuildRange, QuietPoll, DecideEntry, DecideExit, EntryDropped, Polls,
                EntrySubmitted, OrderFailed, Finish, coroutine, TypeOK
  <2> QED BY <2>1, <2>2 DEF RowsWritten
<1> QED BY <1>1, <1>2, <1>3, <1>4, <1>5 DEF Next, Environment, Runner

(* A restart gives the engine back every position of the day whose last    *)
(* fill had been written, unless the table could not be read               *)
(* (reconcile_on_boot).                                                    *)
THEOREM RestartsRestore == Spec => RestartRestoresSettled
<1>1. Init => RowsWritten
  BY DEF Init, RowsWritten
<1>2. Spec => []RowsWritten
  BY <1>1, NextRowsWritten, OrderFlowTyped, PTL DEF Spec
<1>3. TypeOK /\ RowsWritten /\ [Next]_vars =>
        [~up /\ up' /\ ~Live /\ unsaved' = {} =>
           \A s \in Sids :
             pc[s] # "persist" /\ s \notin unsaved /\ (rowToday[s] \/ qty[s] = 0)
               => qty'[s] = qty[s]]_vars
  <2> SUFFICES ASSUME TypeOK, RowsWritten, Next, ~up, up', ~Live, unsaved' = {}, NEW s \in Sids,
                      pc[s] # "persist", s \notin unsaved, rowToday[s] \/ qty[s] = 0
               PROVE  qty'[s] = qty[s]
    OBVIOUS
  <2>1. Boot
    BY DEF Next, Environment, Crash, ProcessDies, AtBroker, NextPhase, NextDay, Resume, Runner,
       BuildRange, QuietPoll,
       DecideEntry, DecideExit, Polls, EntryDropped, EntrySubmitted, OrderFailed, OrderFilled,
       EntrySettled, ExitSettled
  <2>2. row[s] = qty[s]
    BY DEF RowsWritten
  <2>3. PICK db \in BOOLEAN :
          /\ qty' = Restored(db)
          /\ ~db => unsaved' = {x \in Sids : row[x] # qty'[x]}
    BY <2>1 DEF Boot, Reconciled
  <2>4. qty'[s] = IF db /\ rowToday[s] THEN row[s] ELSE 0
    BY <2>3 DEF Restored
  <2>5. CASE db
    BY <2>2, <2>4, <2>5
  <2>6. CASE ~db
    <3>1. row[s] = qty'[s]
      BY <2>3, <2>6
    <3> QED BY <2>2, <3>1
  <2> QED BY <2>5, <2>6
<1> QED BY <1>2, <1>3, OrderFlowTyped, PTL DEF Spec, RestartRestoresSettled

-----------------------------------------------------------------------------
(* Why a side is traded once a day.  An entry needs a locked range, and a  *)
(* locked range remembers every side entered today but those that the last *)
(* boot did not find in the bars (untold); a range that could not be       *)
(* rebuilt never locks again that day.                                     *)
Remembered(s) ==
  /\ phase = "range" => entered[s] = {}
  /\ phase = "range" => session[s].range # "locked"
  /\ up /\ session[s].range \in {"building", "locked"} =>
       entered[s] \subseteq session[s].tried \cup untold[s]
  /\ session[s].range # "locked" => session[s].tried = {}
  /\ up /\ session[s].range = "building" => entered[s] = {}
  /\ ~up => session[s].range = "none"
  /\ up /\ pc[s] = "gate" =>
       /\ session[s].range = "locked"
       /\ order[s].side \in session[s].tried
       /\ order[s].side \in entered[s] => order[s].side \in untold[s]

EntryMemory == \A s \in Sids : Remembered(s)

LEMMA SubmittedOnce ==
  ASSUME TypeOK, EntryMemory, NEW s \in Sids, up, pc[s] = "gate"
  PROVE  order[s].side \in entered[s] => order[s].side \in untold[s]
  BY DEF EntryMemory, Remembered

LEMMA OthersRemembered ==
  ASSUME NEW s \in Sids, NEW t \in Sids, s # t, TypeOK, Runner(s), Remembered(t)
  PROVE  Remembered(t)'
<1>1. /\ session'[t] = session[t] /\ pc'[t] = pc[t] /\ order'[t] = order[t]
      /\ untold'[t] = untold[t] /\ entered'[t] = entered[t]
      /\ up' = up /\ phase' = phase
  <2>1. CASE BuildRange(s) \/ QuietPoll(s)
    BY <2>1 DEF BuildRange, QuietPoll, coroutine, market, history, TypeOK
  <2>2. CASE DecideEntry(s) \/ DecideExit(s)
    BY <2>2 DEF DecideEntry, DecideExit, coroutine, market, history, TypeOK
  <2>3. CASE EntryDropped(s) \/ EntrySubmitted(s)
    BY <2>3 DEF EntryDropped, EntrySubmitted, Finish, memory, market, history, TypeOK
  <2>4. CASE OrderFailed(s) \/ OrderFilled(s)
    BY <2>4 DEF OrderFailed, OrderFilled, Finish, market, history, TypeOK
  <2>5. CASE EntrySettled(s) \/ ExitSettled(s)
    BY <2>5 DEF EntrySettled, ExitSettled, Finish, market, TypeOK
  <2> QED BY <2>1, <2>2, <2>3, <2>4, <2>5 DEF Runner
<1> QED BY <1>1 DEF Remembered

LEMMA OwnRemembered ==
  ASSUME NEW s \in Sids, TypeOK, Runner(s), Remembered(s)
  PROVE  Remembered(s)'
<1> /\ session[s] \in Sessions /\ Session(s) \in Sessions /\ Ticked(s) \in Sessions
    /\ order[s] \in Orders
  BY SessionType DEF TypeOK
<1>1. CASE BuildRange(s)
  <2>1. /\ session'[s].range = "building" /\ session'[s].tried = Session(s).tried
        /\ pc'[s] = "idle" /\ phase = "range" /\ up
        /\ UNCHANGED <<up, phase, untold, entered>>
    BY <1>1 DEF BuildRange, Polls, coroutine, market, history, TypeOK, Sessions
  <2>2. Session(s).tried = {}
    BY <2>1 DEF Remembered, Session, NewSession, Sessions, Ranges
  <2> QED BY <2>1, <2>2 DEF Remembered
<1>2. /\ Ticked(s).range \in {"building", "locked"} =>
           entered[s] \subseteq Ticked(s).tried \cup untold[s]
      /\ Ticked(s).range = "building" => entered[s] = {}
      /\ Ticked(s).range # "locked" => Ticked(s).tried = {}
      /\ Ticked(s).range = "locked" =>
           session[s].range \in {"building", "locked"} /\ Ticked(s).tried = session[s].tried
      /\ session[s].tried = {} \/ Ticked(s).tried = session[s].tried
  <2>1. up
    BY DEF Runner, BuildRange, QuietPoll, DecideEntry, DecideExit, Polls, EntryDropped,
           EntrySubmitted, OrderFailed, OrderFilled, EntrySettled, ExitSettled
  <2> QED BY <2>1 DEF Remembered, Ticked, Session, NewSession, Sessions
<1>3. CASE QuietPoll(s) \/ DecideExit(s)
  <2>1. /\ session'[s] = Ticked(s) /\ phase # "range" /\ up /\ pc'[s] # "gate"
        /\ UNCHANGED <<up, phase, untold, entered>>
    BY <1>3 DEF QuietPoll, DecideExit, Polls, coroutine, market, history, TypeOK
  <2> QED BY <1>2, <2>1 DEF Remembered
<1>4. CASE DecideEntry(s)
  <2> PICK side \in Sides \ Ticked(s).tried :
       /\ session' = [session EXCEPT ![s] = [Ticked(s) EXCEPT !.tried = @ \cup {side}]]
       /\ IF Session(s).entries >= MaxEntries
          THEN UNCHANGED coroutine
          ELSE /\ pc' = [pc EXCEPT ![s] = "gate"]
               /\ order' = [order EXCEPT ![s] = [kind |-> "entry", side |-> side, qty |-> 0]]
    BY <1>4 DEF DecideEntry
  <2>1. /\ session'[s].range = "locked" /\ session'[s].tried = Ticked(s).tried \cup {side}
        /\ pc'[s] = "gate" => order'[s].side = side
        /\ side \notin Ticked(s).tried
        /\ pc[s] = "idle" /\ phase = "trade" /\ up /\ Ticked(s).range = "locked"
        /\ UNCHANGED <<up, phase, untold, entered>>
    BY <1>4 DEF DecideEntry, Polls, coroutine, market, history, TypeOK, Sessions
  <2> QED BY <1>2, <2>1 DEF Remembered
<1>5. CASE EntryDropped(s) \/ OrderFailed(s) \/ OrderFilled(s)
  <2>1. /\ pc'[s] # "gate"
        /\ UNCHANGED <<up, phase, session, untold, entered>>
    BY <1>5 DEF EntryDropped, OrderFailed, OrderFilled, Finish, memory, market, history, TypeOK
  <2> QED BY <2>1 DEF Remembered
<1>6. CASE EntrySubmitted(s)
  <2>1. /\ up /\ pc[s] = "gate" /\ pc'[s] # "gate"
        /\ entered'[s] = entered[s] \cup {order[s].side}
        /\ untold'[s] = untold[s] \ {order[s].side}
        /\ UNCHANGED <<up, phase, session>>
    BY <1>6 DEF EntrySubmitted, memory, market, TypeOK
  <2> QED BY <2>1 DEF Remembered
<1>7. CASE EntrySettled(s) \/ ExitSettled(s)
  <2>1. /\ pc'[s] # "gate" /\ UNCHANGED <<up, phase, untold, entered>>
        /\ session'[s].range = session[s].range /\ session'[s].tried = session[s].tried
    BY <1>7 DEF EntrySettled, ExitSettled, Finish, market, TypeOK, Sessions
  <2> QED BY <2>1 DEF Remembered
<1> QED BY <1>1, <1>3, <1>4, <1>5, <1>6, <1>7 DEF Runner

LEMMA NextRemembered == TypeOK /\ EntryMemory /\ [Next]_vars => EntryMemory'
<1> SUFFICES ASSUME TypeOK, EntryMemory, [Next]_vars PROVE EntryMemory'
  OBVIOUS
<1>1. ASSUME NEW s \in Sids, Runner(s) PROVE EntryMemory'
  <2>1. \A t \in Sids : t # s => Remembered(t)'
    BY <1>1, OthersRemembered DEF EntryMemory
  <2>2. Remembered(s)'
    BY <1>1, OwnRemembered DEF EntryMemory
  <2> QED BY <2>1, <2>2 DEF EntryMemory
<1>2. CASE Boot
  <2> SUFFICES ASSUME NEW s \in Sids PROVE Remembered(s)'
    BY DEF EntryMemory
  <2> PICK ok \in [Sids -> BOOLEAN], shown \in [Sids -> SUBSET Sides] :
        /\ session' = [t \in Sids |-> Seeded(t, ok[t], shown[t])]
        /\ untold' = [t \in Sids |-> entered[t] \ shown[t]]
    BY <1>2 DEF Boot
  <2>1. /\ phase' = phase /\ entered' = entered /\ pc'[s] = "idle" /\ up'
    BY <1>2 DEF Boot, market
  <2>2. session'[s] = Seeded(s, ok[s], shown[s]) /\ untold'[s] = entered[s] \ shown[s]
    OBVIOUS
  <2> QED BY <2>1, <2>2 DEF EntryMemory, Remembered, Seeded, NewSession
<1>3. CASE Crash
  BY <1>3 DEF Crash, ProcessDies, EntryMemory, Remembered, NewSession, market, history
<1>4. CASE NextDay
  <2> SUFFICES ASSUME NEW s \in Sids PROVE Remembered(s)'
    BY DEF EntryMemory
  <2>1. /\ entered'[s] = {} /\ up' = up /\ pc' = pc
        /\ up => pc[s] = "idle"
        /\ session'[s] = IF up THEN [NewSession EXCEPT !.range = "stale"] ELSE session[s]
    BY <1>4 DEF NextDay, coroutine
  <2> QED BY <2>1 DEF EntryMemory, Remembered, NewSession
<1>5. CASE NextPhase
  BY <1>5 DEF NextPhase, After, EntryMemory, Remembered, memory, coroutine, history, TypeOK, Phases
<1>6. CASE Resume \/ (\E s \in Sids : AtBroker(s)) \/ UNCHANGED vars
  BY <1>6 DEF Resume, AtBroker, vars, EntryMemory, Remembered, market, memory, coroutine, history
<1> QED BY <1>1, <1>2, <1>3, <1>4, <1>5, <1>6 DEF Next, Environment

LEMMA OrderFlowRemembers == Spec => []EntryMemory
<1>1. Init => EntryMemory
  BY DEF Init, EntryMemory, Remembered, NewSession
<1> QED BY <1>1, NextRemembered, OrderFlowTyped, PTL DEF Spec

(* No breakout side is entered twice in a day, whatever crashes, failed    *)
(* range rebuilds and restarts lie between, but after a boot whose bars    *)
(* did not show it.                                                        *)
THEOREM NoSecondEntryPerSide == Spec => OneEntryPerSide
<1> DEFINE Once == \A s \in Sids : pc[s] = "gate" /\ pc'[s] = "submit"
                                      /\ order[s].side \in entered[s]
                                     => order[s].side \in untold[s]
<1>1. TypeOK /\ EntryMemory /\ [Next]_vars => [Once]_vars
  <2> SUFFICES ASSUME TypeOK, EntryMemory, Next, NEW s \in Sids,
                      pc[s] = "gate", pc'[s] = "submit", order[s].side \in entered[s]
               PROVE  order[s].side \in untold[s]
    OBVIOUS
  <2>1. up
    BY DEF Next, Environment, Runner, BuildRange, QuietPoll, DecideEntry, DecideExit, Polls,
           EntryDropped, EntrySubmitted, OrderFailed, OrderFilled, EntrySettled, ExitSettled,
           Boot, Crash, ProcessDies, AtBroker, NextPhase, NextDay, Resume, coroutine
  <2> QED BY <2>1, SubmittedOnce
<1> QED BY <1>1, OrderFlowRemembers, OrderFlowTyped, PTL DEF Spec, OneEntryPerSide

-----------------------------------------------------------------------------
(* What holds of a security that the two have not both had an order for,   *)
(* and of which no sweep left a rest: what its runner knows (RunnerKnows)  *)
(* while the sweep is not at it, and what the sweep knows while it is: the *)
(* runner has no order, so the quantity the sweep computed is still the    *)
(* position.                                                               *)
SweepKnows(s) ==
  /\ sweep.pc = "submit" =>
       /\ pc[s] = "idle" /\ qty[s] # 0 /\ SameSign(view[s], qty[s])
       /\ sweep.side = ExitSide(s) /\ sweep.qty = ExitQty(s)
  /\ sweep.pc = "persist" =>
       \/ pc[s] = "idle" /\ (qty[s] = 0 \/ SameSign(view[s], qty[s]))
       \/ pc[s] = "gate" /\ order[s].kind = "entry" /\ qty[s] = 0 /\ view[s] = 0

Known(s) == IF Sweeping(s) THEN SweepKnows(s) ELSE RunnerKnows(s)

(* A sweep has one order at a time, and none survives a crash. *)
OneOrder ==
  /\ ~up => sweep.pc = "idle"
  /\ sweep.pc \in {"submit", "persist"} => \E s \in Sids : sweep.sid = {s}

KnownInv == up => \A s \in Sids \ (contested \cup residual) : Known(s)

-----------------------------------------------------------------------------
(* Types.                                                                  *)
SweepStates ==
  [pc : {"idle", "alert", "submit", "persist", "done"},
   todo : SUBSET Sids, sid : SUBSET Sids, side : {"BUY", "SELL"}, qty : Nat]

LEMMA IdleTyped ==
  /\ Idle \in SweepStates /\ Done \in SweepStates
  /\ [Idle EXCEPT !.pc = "alert"] \in SweepStates
BY DEF Idle, Done, SweepStates

(* What a sweep goes on with: nothing, or the exit of one open position. *)
LEMMA AdvanceFacts ==
  ASSUME TypeOK, NEW todo \in SUBSET Sids, Advance(todo)
  PROVE  /\ sweep' \in SweepStates
         /\ \/ sweep' = Done
            \/ \E s \in Sids :
                 /\ qty[s] # 0
                 /\ sweep'.pc = "submit" /\ sweep'.sid = {s}
                 /\ sweep'.side = ExitSide(s) /\ sweep'.qty = ExitQty(s)
<1>1. CASE sweep' = Done
  BY <1>1, IdleTyped
<1>2. CASE \E s \in {t \in todo : qty[t] # 0}, skipped \in SUBSET (todo \ {t \in todo : qty[t] # 0}) :
             sweep' = [pc |-> "submit", todo |-> todo \ ({s} \cup skipped), sid |-> {s},
                       side |-> ExitSide(s), qty |-> ExitQty(s)]
  <2> PICK s \in {t \in todo : qty[t] # 0}, skipped \in SUBSET (todo \ {t \in todo : qty[t] # 0}) :
             sweep' = [pc |-> "submit", todo |-> todo \ ({s} \cup skipped), sid |-> {s},
                       side |-> ExitSide(s), qty |-> ExitQty(s)]
    BY <1>2
  <2>1. s \in Sids /\ qty[s] \in Int /\ qty[s] # 0
    BY DEF TypeOK
  <2>2. ExitSide(s) \in {"BUY", "SELL"} /\ ExitQty(s) \in Nat
    BY <2>1 DEF ExitSide, ExitQty, Abs
  <2>3. sweep' \in SweepStates
    BY <2>1, <2>2 DEF SweepStates
  <2> QED BY <2>1, <2>3
<1> QED BY <1>1, <1>2 DEF Advance

(* All a step of the composed system does to the order path. *)
LEMMA SweepSteps ==
  ASSUME [SweepNext]_allVars
  PROVE  \/ [Next]_vars
         \/ HaltRequested \/ CrashSweep
         \/ \E s \in Sids : SweepFailed(s) \/ SweepFilled(s) \/ SweepSettled(s)
<1>1. CASE OrderStep \/ ResumeRequested \/ BootSweep
  BY <1>1 DEF OrderStep, ResumeRequested, BootSweep, Next, Environment
<1>2. CASE SweepStart \/ UNCHANGED allVars
  BY <1>2 DEF SweepStart, allVars
<1> QED BY <1>1, <1>2 DEF SweepNext, Sweep

(* A crash leaves the sweep's order with the broker. *)
LEMMA LeftByCrash ==
  ASSUME SweepTypeOK, CrashSweep
  PROVE  ProcessDies /\ afloat' \in [Sids -> [BothWays -> Nat]]
<1>1. \A s \in Sids, side \in BothWays :
        afloat[s][side] + UnderWay(s, side) + SweptUnderWay(s, side) \in Nat
  <2> SUFFICES ASSUME NEW s \in Sids, NEW side \in BothWays
               PROVE  afloat[s][side] + UnderWay(s, side) + SweptUnderWay(s, side) \in Nat
    OBVIOUS
  <2>1. afloat[s][side] \in Nat /\ UnderWay(s, side) \in Nat
    BY UnderWayType DEF SweepTypeOK, TypeOK
  <2>2. SweptUnderWay(s, side) \in Nat
    BY DEF SweepTypeOK, SweptUnderWay
  <2> QED BY <2>1, <2>2
<1> QED BY <1>1 DEF CrashSweep

LEMMA SweepTyped ==
  ASSUME SweepTypeOK, [SweepNext]_allVars
  PROVE  SweepTypeOK'
<1> USE OrderFlowAssumption DEF OrderFlowAssumption
<1>1. TypeOK'
  <2>1. CASE [Next]_vars
    BY <2>1, NextTypeOK DEF SweepTypeOK
  <2>0. sweep.side \in BothWays /\ sweep.qty \in Nat /\ TypeOK
    BY DEF SweepTypeOK, BothWays
  <2>2. ASSUME NEW s \in Sids, SweepFailed(s)  PROVE TypeOK'
    <3>1. /\ qty' \in [Sids -> Int] /\ slots' \subseteq Sids
          /\ book' \in [Sids -> Int] /\ afloat' \in [Sids -> [BothWays -> Nat]]
          /\ doubted' \subseteq Sids /\ faults' \in 0..MaxFaults
      BY <2>0, <2>2, AnswerType DEF SweepFailed, TypeOK
    <3> QED BY <2>2, <3>1
      DEF SweepFailed, SweepTypeOK, TypeOK, market, coroutine, database
  <2>3. ASSUME NEW s \in Sids, SweepFilled(s)  PROVE TypeOK'
    <3>1. \E n \in 1..sweep.qty : FillOrder(s, sweep.side, sweep.qty, n)
      BY <2>3 DEF SweepFilled
    <3>2. /\ qty' \in [Sids -> Int] /\ book' \in [Sids -> Int]
          /\ afloat' \in [Sids -> [BothWays -> Nat]]
          /\ doubted' \subseteq Sids /\ faults' \in 0..MaxFaults
      BY <2>0, <3>1, AnswerType
    <3> QED BY <2>3, <3>2
      DEF SweepFilled, SweepTypeOK, TypeOK, market, coroutine, database
  <2>4. ASSUME NEW s \in Sids, SweepSettled(s)  PROVE TypeOK'
    <3>1. /\ row' \in [Sids -> Int] /\ rowToday' \in [Sids -> BOOLEAN]
          /\ unsaved' \subseteq Sids /\ faults' \in 0..MaxFaults
      BY <2>4, PersistRowType DEF SweepSettled, SweepTypeOK
    <3>2. view' \in [Sids -> Int] /\ slots' \subseteq Sids
      BY <2>4 DEF SweepSettled, NotifyFlat, SweepTypeOK, TypeOK
    <3> QED BY <2>4, <3>1, <3>2
      DEF SweepSettled, SweepTypeOK, TypeOK, market, coroutine, exchange
  <2>5. CASE HaltRequested
    BY <2>5 DEF HaltRequested, SweepTypeOK, TypeOK, market, memory, coroutine, database, exchange,
                history
  <2>6. CASE CrashSweep
    BY <2>0, <2>6, LeftByCrash, DeathTypeOK
  <2> QED BY <2>1, <2>2, <2>3, <2>4, <2>5, <2>6, SweepSteps
<1>2. sweep' \in SweepStates
  <2>1. CASE sweep' = sweep \/ sweep' = Idle \/ sweep' = [Idle EXCEPT !.pc = "alert"]
    BY <2>1, IdleTyped DEF SweepTypeOK, SweepStates
  <2>2. CASE \E todo \in SUBSET Sids : Advance(todo)
    BY <2>2, AdvanceFacts DEF SweepTypeOK
  <2>3. ASSUME NEW s \in Sids, SweepFilled(s)  PROVE sweep' \in SweepStates
    <3>1. PICK n \in 1..sweep.qty : sweep' = [sweep EXCEPT !.pc = "persist", !.qty = n]
      BY <2>3 DEF SweepFilled
    <3>2. sweep \in SweepStates /\ n \in Nat
      BY <3>1 DEF SweepTypeOK, SweepStates
    <3> QED BY <3>1, <3>2 DEF SweepStates
  <2>4. CASE OrderStep \/ HaltRequested \/ ResumeRequested \/ CrashSweep \/ BootSweep
             \/ UNCHANGED allVars
    BY <2>1, <2>4 DEF OrderStep, HaltRequested, ResumeRequested, CrashSweep, BootSweep,
                      allVars, sweepVars
  <2>5. CASE SweepStart \/ \E s \in Sids : SweepFailed(s) \/ SweepSettled(s)
    <3>1. Open \in SUBSET Sids /\ sweep.todo \in SUBSET Sids
      BY DEF Open, SweepTypeOK
    <3> QED BY <2>2, <2>5, <3>1 DEF SweepStart, SweepFailed, SweepSettled
  <2> QED BY <2>3, <2>4, <2>5 DEF SweepNext, Sweep
<1>3. cause' \in Causes
  BY DEF SweepNext, OrderStep, HaltRequested, ResumeRequested, CrashSweep, BootSweep,
         Sweep, SweepStart, SweepFailed, SweepFilled, SweepSettled, allVars, sweepVars,
         SweepTypeOK, Causes
<1>4. contested' \subseteq Sids /\ residual' \subseteq Sids
  BY DEF SweepNext, OrderStep, HaltRequested, ResumeRequested, CrashSweep, BootSweep,
         Sweep, SweepStart, SweepFailed, SweepFilled, SweepSettled, Contest, allVars, sweepVars,
         SweepTypeOK
<1> QED BY <1>1, <1>2, <1>3, <1>4 DEF SweepTypeOK, SweepStates

-----------------------------------------------------------------------------
LEMMA OneOrderStep ==
  ASSUME SweepTypeOK, OneOrder, [SweepNext]_allVars
  PROVE  OneOrder'
<1>1. CASE OrderStep \/ UNCHANGED allVars
  <2>1. up' = up
    BY <1>1 DEF OrderStep, Runner, BuildRange, QuietPoll, DecideEntry, DecideExit,
       EntryDropped, EntrySubmitted, OrderFailed, OrderFilled, EntrySettled, ExitSettled,
       NextPhase, NextDay, AtBroker, allVars, vars
  <2>2. sweep' = sweep
    BY <1>1 DEF OrderStep, allVars, sweepVars
  <2> QED BY <2>1, <2>2 DEF OneOrder
<1>2. CASE HaltRequested \/ ResumeRequested \/ CrashSweep
  <2>1. sweep' = Idle \/ (up' /\ sweep' = [Idle EXCEPT !.pc = "alert"])
    BY <1>2 DEF HaltRequested, ResumeRequested, CrashSweep
  <2> QED BY <2>1 DEF OneOrder, Idle
<1>3. CASE BootSweep
  BY <1>3 DEF BootSweep, Boot, OneOrder
<1>4. CASE SweepStart \/ \E s \in Sids : SweepFailed(s) \/ SweepSettled(s)
  <2>1. up'
    BY <1>4 DEF SweepStart, SweepFailed, SweepSettled, vars
  <2>2. \E todo \in SUBSET Sids : Advance(todo)
    BY <1>4 DEF SweepStart, SweepFailed, SweepSettled, SweepTypeOK, Open
  <2> QED BY <2>1, <2>2, AdvanceFacts DEF SweepTypeOK, OneOrder, Done, Idle
<1>5. ASSUME NEW s \in Sids, SweepFilled(s)  PROVE OneOrder'
  BY <1>5 DEF SweepFilled, OneOrder, SweepTypeOK
<1> QED BY <1>1, <1>2, <1>3, <1>4, <1>5 DEF SweepNext, Sweep

-----------------------------------------------------------------------------
(* A step keeps what is known of a security if the position, the view, the *)
(* order and the place of its runner do not change, and the sweep stays    *)
(* where it is with it.                                                    *)
Same(s) ==
  /\ qty'[s] = qty[s] /\ view'[s] = view[s] /\ pc'[s] = pc[s] /\ order'[s] = order[s]

LEMMA SameKnown ==
  ASSUME NEW s \in Sids, Known(s), Same(s),
         sweep' = sweep \/ ~(Sweeping(s) \/ Sweeping(s)')
  PROVE  Known(s)'
BY DEF Known, Same, Sweeping, SweepKnows, RunnerKnows, IsExit, SameSign, ExitSide, ExitQty

(* A security the sweep newly takes up without a contest: its runner was   *)
(* idle, and so was the sweep as far as the security goes.                 *)
LEMMA TakenUpKnown ==
  ASSUME SweepTypeOK, NEW s \in Sids, NEW todo \in SUBSET Sids, Advance(todo),
         pc'[s] \in {"submit", "persist"} => ~Sweeping(s)',
         UNCHANGED <<qty, pc, order>>, RunnerKnows(s)'
  PROVE  Known(s)'
<1>1. CASE ~Sweeping(s)'
  BY <1>1 DEF Known
<1>2. CASE Sweeping(s)'
  <2>1. PICK t \in Sids : /\ qty[t] # 0 /\ sweep'.pc = "submit" /\ sweep'.sid = {t}
                          /\ sweep'.side = ExitSide(t) /\ sweep'.qty = ExitQty(t)
    BY <1>2, AdvanceFacts DEF SweepTypeOK, Sweeping, Done, Idle
  <2>2. t = s
    BY <1>2, <2>1 DEF Sweeping
  <2>3. pc[s] \in {"idle", "gate"}
    BY <1>2 DEF SweepTypeOK, TypeOK
  <2>4. pc[s] = "idle" /\ SameSign(view'[s], qty[s])
    BY <2>1, <2>2, <2>3 DEF RunnerKnows
  <2> QED BY <1>2, <2>1, <2>2, <2>4 DEF Known, SweepKnows, ExitSide, ExitQty
<1> QED BY <1>1, <1>2

-----------------------------------------------------------------------------
(* A step of a runner on its own security.  While the sweep has an order   *)
(* for it, the runner may only find out that the position is gone.         *)
LEMMA OwnKnown ==
  ASSUME SweepTypeOK, NEW t \in Sids, Runner(t), Known(t), sweep' = sweep,
         Sweeping(t) => pc'[t] \notin {"submit", "persist"}
  PROVE  Known(t)'
<1>0. TypeOK /\ (Sweeping(t)' <=> Sweeping(t))
  BY DEF SweepTypeOK, Sweeping
<1>1. CASE ~Sweeping(t)
  <2>1. RunnerKnows(t)
    BY <1>1 DEF Known
  <2>2. RunnerKnows(t)'
    BY <1>0, <2>1, OwnRunnerKnows
  <2> QED BY <1>0, <1>1, <2>2 DEF Known
<1>2. CASE Sweeping(t)
  <2> SUFFICES SweepKnows(t)'
    BY <1>0, <1>2 DEF Known
  <2>0. SweepKnows(t) /\ qty[t] \in Int /\ view[t] \in Int /\ pc[t] \in {"idle", "gate"}
    BY <1>2, <1>0 DEF Known, SweepKnows, Sweeping, TypeOK
  <2> USE DEF SweepKnows, Sweeping
  <2>1. CASE BuildRange(t) \/ QuietPoll(t)
    BY <2>0, <2>1, SameKnown, <1>2 DEF BuildRange, QuietPoll, coroutine, Known, Same
  <2>2. CASE DecideEntry(t)
    <3>1. /\ pc[t] = "idle" /\ view[t] = 0 /\ qty' = qty /\ view' = view
          /\ \/ pc' = pc /\ order' = order
             \/ pc'[t] = "gate" /\ order'[t].kind = "entry"
      BY <1>0, <2>2 DEF DecideEntry, Polls, coroutine, TypeOK
    <3>2. qty[t] = 0
      BY <1>2, <2>0, <3>1 DEF SameSign
    <3> QED BY <1>2, <2>0, <3>1, <3>2 DEF SameSign
  <2>3. CASE DecideExit(t)
    <3>1. qty[t] = 0 /\ pc[t] = "idle" /\ pc' = pc /\ qty' = qty
      BY <1>0, <1>2, <2>3 DEF DecideExit, Polls, coroutine, TypeOK
    <3> QED BY <1>2, <2>0, <3>1
  <2>4. CASE EntryDropped(t)
    <3>1. pc[t] = "gate" /\ pc'[t] = "idle" /\ qty' = qty
      BY <1>0, <2>4 DEF EntryDropped, Finish, memory, TypeOK
    <3> QED BY <1>2, <2>0, <3>1
  <2>5. CASE EntrySubmitted(t)
    BY <1>0, <1>2, <2>5 DEF EntrySubmitted, TypeOK
  <2>6. CASE OrderFailed(t) \/ OrderFilled(t) \/ EntrySettled(t) \/ ExitSettled(t)
    BY <2>0, <2>6 DEF OrderFailed, OrderFilled, EntrySettled, ExitSettled
  <2> QED BY <2>1, <2>2, <2>3, <2>4, <2>5, <2>6 DEF Runner
<1> QED BY <1>1, <1>2

(* A step of the sweep, on a security it holds or not. *)
LEMMA SweepKnown ==
  ASSUME SweepTypeOK, OneOrder, Sweep, NEW t \in Sids, t \notin contested', t \notin residual',
         Known(t)
  PROVE  Known(t)'
<1>0. /\ TypeOK /\ t \notin contested /\ qty[t] \in Int /\ view[t] \in Int
      /\ pc'[t] \in {"submit", "persist"} => ~Sweeping(t)'
  BY DEF SweepTypeOK, TypeOK, Sweep, SweepStart, SweepFailed, SweepFilled, SweepSettled,
         Contest, Sweeping
<1>1. CASE SweepStart
  <2>1. RunnerKnows(t) /\ Advance(Open) /\ Open \in SUBSET Sids /\ UNCHANGED vars
    BY <1>1 DEF SweepStart, Known, Sweeping, Open
  <2>2. RunnerKnows(t)' /\ UNCHANGED <<qty, pc, order>>
    BY <2>1 DEF RunnerKnows, vars, memory, coroutine, IsExit
  <2> QED BY <1>0, <2>1, <2>2, TakenUpKnown
<1>2. ASSUME NEW s \in Sids, SweepFailed(s)  PROVE Known(t)'
  <2>1. /\ sweep.pc = "submit" /\ s \in sweep.sid /\ sweep.todo \in SUBSET Sids
        /\ Advance(sweep.todo) /\ UNCHANGED <<qty, view, pc, order>>
    BY <1>2 DEF SweepFailed, NoFill, coroutine, SweepTypeOK
  <2>2. RunnerKnows(t)
    <3>1. CASE t = s
      BY <2>1, <3>1 DEF Known, Sweeping, SweepKnows, RunnerKnows
    <3>2. CASE t # s
      BY <2>1, <3>2 DEF Known, Sweeping, OneOrder
    <3> QED BY <3>1, <3>2
  <2>3. RunnerKnows(t)'
    BY <2>1, <2>2 DEF RunnerKnows, IsExit
  <2> QED BY <1>0, <2>1, <2>3, TakenUpKnown
<1>3. ASSUME NEW s \in Sids, SweepFilled(s)  PROVE Known(t)'
  <2>1. PICK n \in 1..sweep.qty :
          /\ qty' = [qty EXCEPT ![s] = @ + Signed(sweep.side, n)]
          /\ sweep' = [sweep EXCEPT !.pc = "persist", !.qty = n]
    BY <1>3 DEF SweepFilled, FillOrder, Confirmed, Booked
  <2>2. sweep.pc = "submit" /\ s \in sweep.sid /\ UNCHANGED <<view, pc, order>>
    BY <1>3 DEF SweepFilled, coroutine
  <2>3. CASE t = s
    <3>1. /\ pc[s] = "idle" /\ qty[s] # 0 /\ SameSign(view[s], qty[s])
          /\ sweep.side = ExitSide(s) /\ sweep.qty = ExitQty(s)
      BY <2>2, <2>3 DEF Known, Sweeping, SweepKnows
    <3>2. qty'[s] = qty[s] + Signed(sweep.side, n)
      BY <1>0, <2>1 DEF TypeOK
    <3>3. qty'[s] = 0 \/ SameSign(view'[s], qty'[s])
      BY <1>0, <2>2, <2>3, <3>1, <3>2 DEF SameSign, ExitSide, ExitQty, Abs, Signed
    <3>4. sweep'.pc = "persist" /\ sweep'.sid = sweep.sid
      BY <2>1 DEF SweepTypeOK
    <3> QED BY <2>2, <2>3, <3>1, <3>3, <3>4 DEF Known, Sweeping, SweepKnows
  <2>4. CASE t # s
    <3>1. ~Sweeping(t) /\ ~Sweeping(t)'
      BY <2>1, <2>2, <2>4 DEF Sweeping, OneOrder, SweepTypeOK
    <3>2. Same(t)
      BY <1>0, <2>1, <2>2, <2>4 DEF Same, TypeOK
    <3> QED BY <3>1, <3>2, SameKnown
  <2> QED BY <2>3, <2>4
<1>4. ASSUME NEW s \in Sids, SweepSettled(s)  PROVE Known(t)'
  <2>1. /\ sweep.pc = "persist" /\ s \in sweep.sid /\ sweep.todo \in SUBSET Sids
        /\ Advance(sweep.todo) /\ UNCHANGED <<qty, pc, order>>
        /\ view' = [view EXCEPT ![s] = 0]
        /\ residual' = IF qty[s] # 0 /\ s \notin contested THEN residual \cup {s} ELSE residual
    BY <1>4 DEF SweepSettled, NotifyFlat, coroutine, SweepTypeOK
  <2>2. RunnerKnows(t)'
    <3>1. CASE t = s
      <4>1. qty[s] = 0 /\ view'[s] = 0
        BY <1>0, <2>1, <3>1 DEF TypeOK
      <4> QED BY <2>1, <3>1, <4>1 DEF Known, Sweeping, SweepKnows, RunnerKnows, SameSign
    <3>2. CASE t # s
      <4>1. RunnerKnows(t)
        BY <2>1, <3>2 DEF Known, Sweeping, OneOrder
      <4>2. view'[t] = view[t]
        BY <1>0, <2>1, <3>2 DEF TypeOK
      <4> QED BY <2>1, <4>1, <4>2 DEF RunnerKnows, IsExit
    <3> QED BY <3>1, <3>2
  <2> QED BY <1>0, <2>1, <2>2, TakenUpKnown
<1> QED BY <1>1, <1>2, <1>3, <1>4 DEF Sweep

LEMMA KnownStep ==
  ASSUME SweepTypeOK, OneOrder, KnownInv, [SweepNext]_allVars
  PROVE  KnownInv'
<1> SUFFICES ASSUME up', NEW t \in Sids, t \notin contested', t \notin residual'
             PROVE  Known(t)'
  BY DEF KnownInv
<1>1. CASE BootSweep
  <2>1. /\ ~Sweeping(t)' /\ pc'[t] = "idle" /\ view' = qty'
    BY <1>1 DEF BootSweep, Boot, OneOrder, Sweeping
  <2>2. qty' \in [Sids -> Int]
    BY SweepTyped DEF SweepTypeOK, TypeOK
  <2> QED BY <2>1, <2>2 DEF Known, RunnerKnows, SameSign
<1>2. CASE ~BootSweep
  <2>1. up /\ t \notin contested /\ t \notin residual
    BY <1>2 DEF SweepNext, OrderStep, HaltRequested, ResumeRequested, CrashSweep, ProcessDies,
       AtBroker, Resume, Runner, BuildRange, QuietPoll, DecideEntry, DecideExit, Polls, EntryDropped,
       EntrySubmitted, OrderFailed, OrderFilled, EntrySettled, ExitSettled, NextPhase, NextDay,
       Sweep, SweepStart, SweepFailed, SweepFilled, SweepSettled, Contest, allVars, vars, sweepVars
  <2>2. Known(t)
    BY <2>1 DEF KnownInv
  <2>3. ASSUME NEW s \in Sids, Runner(s), OrderStep  PROVE Known(t)'
    <3>1. sweep' = sweep /\ (Sweeping(t) => pc'[t] \notin {"submit", "persist"})
      BY <2>3 DEF OrderStep, Contest, Sweeping
    <3>2. CASE s = t
      BY <2>2, <2>3, <3>1, <3>2, OwnKnown
    <3>3. CASE s # t
      <4>1. Same(t)
        BY <2>3, <3>3, OthersUntouched DEF SweepTypeOK, Same
      <4> QED BY <2>2, <3>1, <4>1, SameKnown
    <3> QED BY <3>2, <3>3
  <2>4. CASE (NextPhase \/ NextDay \/ (\E s \in Sids : AtBroker(s))) /\ OrderStep
    <3>1. Same(t) /\ sweep' = sweep
      BY <2>4 DEF NextPhase, NextDay, AtBroker, OrderStep, memory, coroutine, Same
    <3> QED BY <2>2, <3>1, SameKnown
  <2>5. CASE HaltRequested \/ ResumeRequested
    <3>1. Same(t)
      BY <2>5 DEF HaltRequested, ResumeRequested, Resume, memory, coroutine, Same
    <3>2. sweep.pc \in {"idle", "done"} /\ sweep'.pc \in {"idle", "alert"}
      <4>1. CASE HaltRequested
        BY <4>1 DEF HaltRequested, Idle
      <4>2. CASE ResumeRequested
        BY <4>2 DEF ResumeRequested, Idle
      <4> QED BY <2>5, <4>1, <4>2
    <3> QED BY <2>2, <3>1, <3>2, SameKnown DEF Sweeping
  <2>6. CASE UNCHANGED allVars
    BY <2>2, <2>6, SameKnown DEF allVars, vars, sweepVars, memory, coroutine, Same
  <2>7. CASE Sweep
    BY <2>2, <2>7, SweepKnown
  <2>8. CASE CrashSweep
    BY <2>8 DEF CrashSweep, ProcessDies
  <2> QED BY <1>2, <2>3, <2>4, <2>5, <2>6, <2>7, <2>8 DEF SweepNext, OrderStep
<1> QED BY <1>1, <1>2

-----------------------------------------------------------------------------
(* The engine's quantities and the broker's: the sweep's fills are booked  *)
(* like the runners'.                                                      *)
LEMMA SweepKeepsBooksInv ==
  ASSUME SweepTypeOK, BooksInv, [SweepNext]_allVars
  PROVE  BooksInv'
<1>0. TypeOK /\ sweep.side \in BothWays /\ sweep.qty \in Nat
  BY DEF SweepTypeOK, BothWays
<1>1. CASE [Next]_vars
  BY <1>0, <1>1, NextKeepsBooks
<1>2. ASSUME NEW s \in Sids, SweepFailed(s) \/ SweepFilled(s)  PROVE BooksInv'
  <2>1. up /\ up' = up /\ blind' = blind
    BY <1>2 DEF SweepFailed, SweepFilled
  <2> QED BY <1>0, <1>2, <2>1, AnswerKeepsBooks DEF SweepFailed, SweepFilled
<1>3. CASE HaltRequested \/ \E s \in Sids : SweepSettled(s)
  <2>1. UNCHANGED <<up, qty, book, afloat, blind, doubted>>
    BY <1>3 DEF HaltRequested, SweepSettled, memory, exchange, history
  <2> QED BY <2>1 DEF BooksInv, BookAgrees, AfloatDoubted
<1>4. CASE CrashSweep
  BY <1>4 DEF CrashSweep, ProcessDies, BooksInv, BookAgrees, AfloatDoubted
<1> QED BY <1>1, <1>2, <1>3, <1>4, SweepSteps

SweepInv == SweepTypeOK /\ OneOrder /\ KnownInv /\ BooksInv

LEMMA SweepInvariant == SweepSpec => []SweepInv
<1>1. SweepInit => SweepInv
  <2> SUFFICES ASSUME SweepInit  PROVE SweepInv
    OBVIOUS
  <2>1. SweepTypeOK
    BY InitTypeOK, IdleTyped DEF SweepInit, SweepTypeOK, SweepStates, Causes
  <2>2. OneOrder
    BY DEF SweepInit, Init, OneOrder, Idle
  <2>3. KnownInv
    BY DEF SweepInit, Init, KnownInv, Known, Sweeping, Idle, RunnerKnows, SameSign
  <2>4. BooksInv
    BY InitBooks DEF SweepInit
  <2> QED BY <2>1, <2>2, <2>3, <2>4 DEF SweepInv
<1>2. SweepInv /\ [SweepNext]_allVars => SweepInv'
  BY SweepTyped, OneOrderStep, KnownStep, SweepKeepsBooksInv DEF SweepInv
<1> QED BY <1>1, <1>2, PTL DEF SweepSpec

(* Through any number of halts, strategy and portfolio agree on every      *)
(* security that a runner and the sweep did not trade at once and that no  *)
(* sweep left a rest of, and the portfolio and the broker on every         *)
(* security whose orders were answered truthfully and finished, crashes    *)
(* that leave the sweep's order with the broker among them: flatten_all    *)
(* and the runners share the books without a lock.                         *)
THEOREM SweepAlwaysKeepsBooks == SweepSpec => []SweepKeepsBooks
<1>1. SweepInv => SweepKeepsBooks
  <2> SUFFICES ASSUME SweepInv  PROVE AgreesUnlessContested
    BY DEF SweepInv, SweepKeepsBooks, BooksInv, BookAgrees, BookAgreesInSweep
  <2> QED BY DEF SweepInv, KnownInv, Known, RunnerKnows, AgreesUnlessContested
<1> QED BY <1>1, SweepInvariant, PTL

(* No step of a runner or of the sweep turns a position round, unless both *)
(* had an order for it or a sweep left a rest of it.                       *)
THEOREM ReversedAfterContestOnly == SweepSpec => ReversedOnlyIfContested
<1> DEFINE Reversed == \A s \in Sids : up /\ up' /\ qty[s] * qty'[s] < 0
                                        => s \in contested \cup residual
<1>1. SweepInv /\ [SweepNext]_allVars => [Reversed]_allVars
  <2> SUFFICES ASSUME SweepInv, SweepNext, NEW t \in Sids, up, up',
                      t \notin contested, t \notin residual
               PROVE  ~(qty[t] * qty'[t] < 0)
    OBVIOUS
  <2>0. /\ TypeOK /\ Known(t) /\ OneOrder
        /\ qty[t] \in Int /\ view[t] \in Int /\ order[t] \in Orders
    BY DEF SweepInv, SweepTypeOK, TypeOK, KnownInv
  <2>1. ASSUME qty'[t] = qty[t]  PROVE ~(qty[t] * qty'[t] < 0)
    BY <2>0, <2>1
  <2>2. ASSUME qty[t] = 0, qty'[t] \in Int  PROVE ~(qty[t] * qty'[t] < 0)
    BY <2>2
  <2>3. ASSUME NEW side, NEW n \in 1..Abs(qty[t]), IsExit(t, side),
               qty'[t] = qty[t] + Signed(side, n)
        PROVE  ~(qty[t] * qty'[t] < 0)
    <3>1. CASE qty[t] > 0
      <4>1. qty'[t] \in Nat
        BY <2>0, <2>3, <3>1 DEF IsExit, Signed, Abs
      <4> QED BY <2>0, <3>1, <4>1
    <3>2. CASE qty[t] < 0
      <4>1. -qty'[t] \in Nat /\ qty'[t] \in Int
        BY <2>0, <2>3, <3>2 DEF IsExit, Signed, Abs
      <4> QED BY <2>0, <3>2, <4>1
    <3> QED BY <2>0, <2>3, <3>1, <3>2 DEF IsExit
  <2>4. CASE OrderStep
    <3>1. ASSUME NEW s \in Sids, Runner(s)  PROVE ~(qty[t] * qty'[t] < 0)
      <4>1. CASE s # t
        BY <2>0, <2>1, <3>1, <4>1, OthersUntouched
      <4>2. CASE s = t /\ OrderFilled(t)
        <5>1. PICK n \in 1..order[t].qty :
                qty' = [qty EXCEPT ![t] = @ + Signed(order[t].side, n)]
          BY <4>2 DEF OrderFilled, FillOrder, Confirmed, Booked
        <5>2. qty'[t] = qty[t] + Signed(order[t].side, n) /\ pc[t] = "submit"
          BY <2>0, <4>2, <5>1 DEF OrderFilled, TypeOK
        <5>3. sweep' = sweep /\ RunnerKnows(t)
          BY <2>0, <2>4, <5>2 DEF OrderStep, Known, SweepKnows, Sweeping
        <5>4. CASE order[t].kind = "entry"
          BY <2>0, <2>2, <5>2, <5>3, <5>4 DEF RunnerKnows, Orders, Signed
        <5>5. CASE order[t].kind = "exit"
          BY <2>0, <2>3, <5>1, <5>2, <5>3, <5>5 DEF RunnerKnows
        <5> QED BY <5>2, <5>3, <5>4, <5>5 DEF RunnerKnows
      <4>3. CASE s = t /\ ~OrderFilled(t)
        <5>1. qty' = qty
          BY <3>1, <4>3 DEF Runner, BuildRange, QuietPoll, DecideEntry, DecideExit,
             EntryDropped, EntrySubmitted, OrderFailed, NoFill, EntrySettled, ExitSettled, memory
        <5> QED BY <2>1, <5>1
      <4> QED BY <4>1, <4>2, <4>3
    <3> QED BY <2>1, <2>4, <3>1 DEF OrderStep, AtBroker, NextPhase, NextDay, memory
  <2>5. CASE HaltRequested \/ ResumeRequested \/ CrashSweep \/ BootSweep \/ SweepStart
    BY <2>1, <2>5 DEF HaltRequested, ResumeRequested, CrashSweep, BootSweep, SweepStart,
       Resume, ProcessDies, Boot, memory, vars
  <2>6. ASSUME NEW s \in Sids, SweepFailed(s) \/ SweepSettled(s)
        PROVE  ~(qty[t] * qty'[t] < 0)
    BY <2>1, <2>6 DEF SweepFailed, SweepSettled, NoFill
  <2>7. ASSUME NEW s \in Sids, SweepFilled(s)  PROVE ~(qty[t] * qty'[t] < 0)
    <3>1. PICK n \in 1..sweep.qty : qty' = [qty EXCEPT ![s] = @ + Signed(sweep.side, n)]
      BY <2>7 DEF SweepFilled, FillOrder, Confirmed, Booked
    <3>2. CASE t = s
      <4>1. /\ qty[t] # 0 /\ sweep.side = ExitSide(t) /\ sweep.qty = Abs(qty[t])
        BY <2>0, <2>7, <3>2 DEF SweepFilled, Known, Sweeping, SweepKnows, ExitQty
      <4>2. IsExit(t, sweep.side) /\ qty'[t] = qty[t] + Signed(sweep.side, n)
        BY <2>0, <3>1, <3>2, <4>1 DEF IsExit, ExitSide, TypeOK
      <4> QED BY <2>3, <3>1, <4>1, <4>2
    <3>3. CASE t # s
      BY <2>0, <2>1, <3>1, <3>3 DEF TypeOK
    <3> QED BY <3>2, <3>3
  <2> QED BY <2>4, <2>5, <2>6, <2>7 DEF SweepNext, Sweep
<1> QED BY <1>1, SweepInvariant, PTL DEF SweepSpec, ReversedOnlyIfContested
=============================================================================
