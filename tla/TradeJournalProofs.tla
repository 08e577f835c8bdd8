------------------------- MODULE TradeJournalProofs -------------------------
(***************************************************************************)
(* Theorems of TradeJournal, for every size of an entry, of the table and  *)
(* of the faults: the rows follow the trades, and a closed row stays.  The *)
(* meter is a fold over a set of rows; the first part gives such sums the  *)
(* three facts that a step needs (empty, extended by one, unchanged),      *)
(* each from a smallest counterexample.                                    *)
(***************************************************************************)
EXTENDS TradeJournal, FiniteSetTheorems, TLAPS

-----------------------------------------------------------------------------
(* A family of subsets of a finite set has a smallest member. *)
LEMMA SmallestSet ==
  ASSUME NEW S, IsFiniteSet(S), NEW F \in SUBSET SUBSET S, F # {}
  PROVE  \E s \in F : \A r \in F : r \subseteq s => r = s
<1>1. IsWellFoundedOn(StrictSubsetOrdering(S), SUBSET S)
  BY FS_StrictSubsetOrderingWellFounded, FS_FiniteSubsetsOfFinite
<1>2. PICK s \in F : \A r \in F : <<r, s>> \notin StrictSubsetOrdering(S)
  BY <1>1, WFMin
<1>3. ASSUME NEW r \in F, r \subseteq s  PROVE r = s
  BY <1>2, <1>3 DEF StrictSubsetOrdering
<1> QED BY <1>3

(* The element that a fold over s takes first. *)
Pick(s) == CHOOSE x \in s : TRUE

(* g adds w up over every subset of S, as the community modules fold. *)
IsSum(g, w, S) ==
  g = [s \in SUBSET S |-> IF s = {} THEN 0 ELSE w[Pick(s)] + g[s \ {Pick(s)}]]

SumFn(w, S) == CHOOSE g : IsSum(g, w, S)

(* w[x] added over the elements x of a finite set. *)
Sum(w, S) == SumFn(w, S)[S]

LEMMA Picks == ASSUME NEW s, s # {}  PROVE Pick(s) \in s
BY DEF Pick

LEMMA SumUnfolds ==
  ASSUME NEW g, NEW w, NEW S, IsSum(g, w, S), NEW s \in SUBSET S
  PROVE  g[s] = (IF s = {} THEN 0 ELSE w[Pick(s)] + g[s \ {Pick(s)}])
BY DEF IsSum

(* Two such functions agree wherever their summands do. *)
LEMMA SumsAgree ==
  ASSUME NEW S, NEW R, IsFiniteSet(S), NEW g, NEW h, NEW w, NEW v,
         IsSum(g, w, S), IsSum(h, v, R),
         NEW s \in SUBSET (S \cap R), \A x \in s : w[x] = v[x]
  PROVE  g[s] = h[s]
<1> DEFINE Bad == {r \in SUBSET s : g[r] # h[r]}
<1> SUFFICES ASSUME Bad # {}  PROVE FALSE
  OBVIOUS
<1>1. PICK r \in Bad : \A q \in Bad : q \subseteq r => q = r
  <2>1. IsFiniteSet(s)
    BY FS_Subset
  <2>2. Bad \in SUBSET SUBSET s
    OBVIOUS
  <2> HIDE DEF Bad
  <2> QED BY <2>1, <2>2, SmallestSet
<1> r \in SUBSET s /\ r \in SUBSET S /\ r \in SUBSET R
  BY <1>1
<1>2. g[r] = (IF r = {} THEN 0 ELSE w[Pick(r)] + g[r \ {Pick(r)}])
  BY SumUnfolds
<1>3. h[r] = (IF r = {} THEN 0 ELSE v[Pick(r)] + h[r \ {Pick(r)}])
  BY SumUnfolds
<1>4. r # {}
  BY <1>2, <1>3
<1>5. Pick(r) \in r
  BY <1>4, Picks
<1>6. g[r \ {Pick(r)}] = h[r \ {Pick(r)}]
  BY <1>1, <1>5
<1> QED BY <1>2, <1>3, <1>5, <1>6

(* A sum over a finite set exists. *)
LEMMA SumExists ==
  ASSUME NEW S, IsFiniteSet(S), NEW w
  PROVE  \E g : IsSum(g, w, S)
<1> DEFINE Bad == {r \in SUBSET S : ~ \E g : IsSum(g, w, r)}
<1> SUFFICES ASSUME Bad # {}  PROVE FALSE
  OBVIOUS
<1>1. PICK s \in Bad : \A q \in Bad : q \subseteq s => q = s
  <2>1. Bad \in SUBSET SUBSET S
    OBVIOUS
  <2> HIDE DEF Bad
  <2> QED BY <2>1, SmallestSet
<1> DEFINE h(q) == SumFn(w, q)[q]
           k(q) == IF q = {} THEN 0 ELSE w[Pick(q)] + h(q \ {Pick(q)})
           g == [q \in SUBSET s |-> k(q)]
<1>2. ASSUME NEW q \in SUBSET s, q # s  PROVE h(q) = k(q)
  <2>1. IsSum(SumFn(w, q), w, q)
    BY <1>1, <1>2 DEF SumFn
  <2>2. h(q) = IF q = {} THEN 0 ELSE w[Pick(q)] + SumFn(w, q)[q \ {Pick(q)}]
    BY <2>1, SumUnfolds
  <2>3. CASE q = {}
    BY <2>2, <2>3
  <2>4. CASE q # {}
    <3> DEFINE p == q \ {Pick(q)}
    <3>1. p \in SUBSET q /\ p \in SUBSET s /\ p # s
      BY <2>4, Picks
    <3>2. IsSum(SumFn(w, p), w, p)
      BY <1>1, <3>1 DEF SumFn
    <3>3. IsFiniteSet(q)
      BY FS_Subset
    <3>4. SumFn(w, q)[p] = SumFn(w, p)[p]
      BY <2>1, <3>1, <3>2, <3>3, SumsAgree
    <3> QED BY <2>2, <2>4, <3>4
  <2> QED BY <2>3, <2>4
<1>3. ASSUME NEW q \in SUBSET s
      PROVE  g[q] = IF q = {} THEN 0 ELSE w[Pick(q)] + g[q \ {Pick(q)}]
  <2>1. CASE q = {}
    BY <2>1
  <2>2. CASE q # {}
    <3>1. /\ q \ {Pick(q)} \in SUBSET s /\ q \ {Pick(q)} # s
      BY <2>2, Picks
    <3>2. g[q \ {Pick(q)}] = h(q \ {Pick(q)})
      BY <3>1, <1>2
    <3> QED BY <2>2, <3>2
  <2> QED BY <2>1, <2>2
<1>4. IsSum(g, w, s)
  <2> HIDE DEF k
  <2> QED BY <1>3 DEF IsSum
<1> QED BY <1>1, <1>4

LEMMA SumIs ==
  ASSUME NEW S, IsFiniteSet(S), NEW w
  PROVE  IsSum(SumFn(w, S), w, S)
BY SumExists DEF SumFn

LEMMA SumSame ==
  ASSUME NEW S, IsFiniteSet(S), NEW w, NEW v, \A x \in S : w[x] = v[x]
  PROVE  Sum(w, S) = Sum(v, S)
BY SumIs, SumsAgree DEF Sum

LEMMA SumPicked ==
  ASSUME NEW S, IsFiniteSet(S), NEW w, S # {}
  PROVE  Sum(w, S) = w[Pick(S)] + Sum(w, S \ {Pick(S)})
<1> DEFINE f == SumFn(w, S)
           R == S \ {Pick(S)}
<1>1. IsSum(f, w, S)
  BY SumIs
<1>2. f[S] = w[Pick(S)] + f[R]
  BY <1>1, SumUnfolds
<1>3. IsFiniteSet(R)
  BY FS_Subset
<1>4. IsSum(SumFn(w, R), w, R)
  BY <1>3, SumIs
<1>5. f[R] = Sum(w, R)
  <2>1. R \in SUBSET (S \cap R)
    OBVIOUS
  <2>2. f[R] = SumFn(w, R)[R]
    <3> HIDE DEF f, R
    <3> QED BY <1>1, <1>4, <2>1, SumsAgree
  <2> QED BY <2>2 DEF Sum
<1> QED BY <1>2, <1>5 DEF Sum

LEMMA SumEmpty == ASSUME NEW w PROVE Sum(w, {}) = 0
<1> DEFINE f == SumFn(w, {})
<1>1. IsSum(f, w, {})
  BY SumIs, FS_EmptySet
<1> QED BY <1>1, SumUnfolds DEF Sum

LEMMA SumNat ==
  ASSUME NEW S, IsFiniteSet(S), NEW w, \A x \in S : w[x] \in Nat
  PROVE  Sum(w, S) \in Nat
<1> DEFINE Bad == {r \in SUBSET S : Sum(w, r) \notin Nat}
<1> SUFFICES ASSUME Bad # {}  PROVE FALSE
  OBVIOUS
<1>1. PICK s \in Bad : \A q \in Bad : q \subseteq s => q = s
  <2>1. Bad \in SUBSET SUBSET S
    OBVIOUS
  <2> HIDE DEF Bad
  <2> QED BY <2>1, SmallestSet
<1>2. s # {}
  <2>1. Sum(w, s) \notin Nat
    BY <1>1
  <2> QED BY <2>1, SumEmpty
<1>3. IsFiniteSet(s)
  BY FS_Subset
<1>4. Sum(w, s) = w[Pick(s)] + Sum(w, s \ {Pick(s)})
  BY <1>2, <1>3, SumPicked
<1>5. Pick(s) \in s
  BY <1>2, Picks
<1>6. Sum(w, s \ {Pick(s)}) \in Nat
  BY <1>1, <1>5
<1> QED BY <1>4, <1>5, <1>6

(* Any element may be taken out first. *)
LEMMA SumRemove ==
  ASSUME NEW S, IsFiniteSet(S), NEW w, \A x \in S : w[x] \in Nat, NEW a \in S
  PROVE  Sum(w, S) = w[a] + Sum(w, S \ {a})
<1> DEFINE Bad == {r \in SUBSET S : \E c \in r : Sum(w, r) # w[c] + Sum(w, r \ {c})}
<1> SUFFICES ASSUME Bad # {}  PROVE FALSE
  OBVIOUS
<1>1. PICK s \in Bad : \A q \in Bad : q \subseteq s => q = s
  <2>1. Bad \in SUBSET SUBSET S
    OBVIOUS
  <2> HIDE DEF Bad
  <2> QED BY <2>1, SmallestSet
<1>2. PICK c \in s : Sum(w, s) # w[c] + Sum(w, s \ {c})
  BY <1>1
<1> DEFINE b == Pick(s)
<1>3. b \in s
  BY <1>2, Picks
<1>4. s \in SUBSET S /\ s \ {c} \in SUBSET S /\ s \ {b} \in SUBSET S
  BY <1>1
<1>5. IsFiniteSet(s)
  BY <1>4, FS_Subset
<1>6. Sum(w, s) = w[b] + Sum(w, s \ {b})
  BY <1>2, <1>5, SumPicked
<1>7. b # c
  BY <1>2, <1>6
<1>8. s \ {b} \notin Bad /\ s \ {c} \notin Bad
  BY <1>1, <1>2, <1>3
<1>9. Sum(w, s \ {b}) = w[c] + Sum(w, (s \ {b}) \ {c})
  BY <1>2, <1>4, <1>7, <1>8
<1>10. Sum(w, s \ {c}) = w[b] + Sum(w, (s \ {c}) \ {b})
  BY <1>3, <1>4, <1>7, <1>8
<1>11. (s \ {b}) \ {c} = (s \ {c}) \ {b}
  OBVIOUS
<1>12. Sum(w, (s \ {c}) \ {b}) \in Nat
  BY <1>4, FS_Subset, SumNat
<1>13. w[b] \in Nat /\ w[c] \in Nat
  BY <1>2, <1>3, <1>4
<1> HIDE DEF b, Bad
<1> QED BY <1>2, <1>6, <1>9, <1>10, <1>11, <1>12, <1>13

-----------------------------------------------------------------------------
(* The table as data: its rows, the open ones, the loss of the others. *)
Row == [status : {"OPEN", "CLOSED"}, pnl : Nat]
OpenOf(rs) == {i \in DOMAIN rs : rs[i].status = "OPEN"}
KnownOf(rs) == DOMAIN rs \ OpenOf(rs)
LossOf(rs) == Sum([i \in DOMAIN rs |-> rs[i].pnl], KnownOf(rs))

(* The fold of Meter is that sum. *)
MeterIsLoss == rows \in Seq(Row) => Meter = LossOf(rows)

LEMMA MeterFolds == MeterIsLoss
<1> SUFFICES ASSUME rows \in Seq(Row)  PROVE Meter = LossOf(rows)
  BY DEF MeterIsLoss
<1> DEFINE S == KnownOf(rows)
           w == [i \in DOMAIN rows |-> rows[i].pnl]
           Is(g) == g = [s \in SUBSET S |-> IF s = {} THEN 0
                      ELSE rows[CHOOSE x \in s : TRUE].pnl + g[s \ {CHOOSE x \in s : TRUE}]]
<1>1. Meter = (CHOOSE g : Is(g))[S]
  BY DEF Meter, MapThenSumSet, MapThenFoldSet, KnownOf, OpenOf, OpenRows
<1>2. IsFiniteSet(S)
  BY FS_Interval, FS_Subset DEF KnownOf
<1>3. IsSum(SumFn(w, S), w, S)
  BY <1>2, SumIs
<1>4. ASSUME NEW g PROVE Is(g) <=> IsSum(g, w, S)
  <2>1. ASSUME NEW s \in SUBSET S, s # {}
        PROVE  rows[CHOOSE x \in s : TRUE].pnl = w[Pick(s)]
    BY <2>1, Picks DEF Pick, KnownOf
  <2>2. [s \in SUBSET S |-> IF s = {} THEN 0
                      ELSE rows[CHOOSE x \in s : TRUE].pnl + g[s \ {CHOOSE x \in s : TRUE}]]
        = [s \in SUBSET S |-> IF s = {} THEN 0 ELSE w[Pick(s)] + g[s \ {Pick(s)}]]
    <3> HIDE DEF S, w
    <3> QED BY <2>1 DEF Pick
  <2> QED BY <2>2 DEF IsSum
<1>5. Is(CHOOSE g : Is(g))
  <2> HIDE DEF Is
  <2> QED BY <1>3, <1>4
<1>6. IsSum(CHOOSE g : Is(g), w, S)
  <2> HIDE DEF Is
  <2> QED BY <1>5, <1>4
<1>7. (CHOOSE g : Is(g))[S] = SumFn(w, S)[S]
  <2> HIDE DEF Is, w, S
  <2> QED BY <1>2, <1>3, <1>6, SumsAgree
<1> QED BY <1>1, <1>7 DEF LossOf, Sum

LEMMA MeterFoldsNext == MeterIsLoss'
BY MeterFolds, PTL
LEMMA MeterNext == rows' \in Seq(Row) => Meter' = LossOf(rows')
BY MeterFoldsNext DEF MeterIsLoss

LEMMA PnlType == ASSUME NEW rs \in Seq(Row), NEW i \in DOMAIN rs  PROVE rs[i].pnl \in Nat
<1>1. rs[i] \in Row
  OBVIOUS
<1> QED BY <1>1 DEF Row

LEMMA FiniteKnown == ASSUME NEW rs \in Seq(Row)  PROVE IsFiniteSet(KnownOf(rs))
BY FS_Interval, FS_Subset DEF KnownOf

(* A row that is opened adds no loss. *)
LEMMA LossOfOpened ==
  ASSUME NEW rs \in Seq(Row), NEW rt, rt = Append(rs, [status |-> "OPEN", pnl |-> 0])
  PROVE  /\ rt \in Seq(Row) /\ Len(rt) = Len(rs) + 1
         /\ OpenOf(rt) = OpenOf(rs) \cup {Len(rt)}
         /\ LossOf(rt) = LossOf(rs)
<1>1. /\ rt \in Seq(Row) /\ Len(rt) = Len(rs) + 1
      /\ DOMAIN rt = DOMAIN rs \cup {Len(rt)}
      /\ Len(rt) \notin DOMAIN rs
      /\ rt[Len(rt)] = [status |-> "OPEN", pnl |-> 0]
      /\ \A i \in DOMAIN rs : rt[i] = rs[i]
  BY DEF Row
<1>2. OpenOf(rt) = OpenOf(rs) \cup {Len(rt)} /\ KnownOf(rt) = KnownOf(rs)
  BY <1>1 DEF OpenOf, KnownOf
<1>3. IsFiniteSet(KnownOf(rs))
  BY FiniteKnown
<1>4. LossOf(rt) = LossOf(rs)
  <2> DEFINE w == [i \in DOMAIN rs |-> rs[i].pnl]
             v == [i \in DOMAIN rt |-> rt[i].pnl]
  <2>1. \A i \in KnownOf(rs) : v[i] = w[i]
    BY <1>1 DEF KnownOf
  <2>2. Sum(v, KnownOf(rs)) = Sum(w, KnownOf(rs))
    <3> HIDE DEF v, w
    <3> QED BY <1>3, <2>1, SumSame
  <2> QED BY <1>2, <2>2 DEF LossOf
<1> QED BY <1>1, <1>2, <1>4

(* An open row that is closed adds the loss it is closed with. *)
LEMMA LossOfClosed ==
  ASSUME NEW rs \in Seq(Row), NEW k \in OpenOf(rs), NEW n \in Nat, NEW rt,
         rt = [i \in DOMAIN rs |-> IF i = k THEN [status |-> "CLOSED", pnl |-> n] ELSE rs[i]]
  PROVE  /\ rt \in Seq(Row) /\ Len(rt) = Len(rs)
         /\ OpenOf(rt) = OpenOf(rs) \ {k}
         /\ LossOf(rt) = LossOf(rs) + n
<1>1. /\ rt \in Seq(Row) /\ Len(rt) = Len(rs) /\ DOMAIN rt = DOMAIN rs
      /\ k \in DOMAIN rs /\ rt[k] = [status |-> "CLOSED", pnl |-> n]
      /\ \A i \in DOMAIN rs \ {k} : rt[i] = rs[i]
  BY DEF Row, OpenOf
<1>2. /\ OpenOf(rt) = OpenOf(rs) \ {k}
      /\ k \in KnownOf(rt) /\ KnownOf(rt) \ {k} = KnownOf(rs)
  BY <1>1 DEF OpenOf, KnownOf
<1>3. IsFiniteSet(KnownOf(rs)) /\ IsFiniteSet(KnownOf(rt))
  BY <1>1, FiniteKnown
<1>4. LossOf(rt) = LossOf(rs) + n
  <2> DEFINE w == [i \in DOMAIN rs |-> rs[i].pnl]
             v == [i \in DOMAIN rt |-> rt[i].pnl]
  <2>1. \A i \in KnownOf(rs) : v[i] = w[i]
    BY <1>1, <1>2 DEF KnownOf
  <2>2. /\ \A i \in KnownOf(rt) : v[i] \in Nat
        /\ \A i \in KnownOf(rs) : w[i] \in Nat
        /\ v[k] = n
    BY <1>1, PnlType DEF KnownOf
  <2>3. /\ Sum(v, KnownOf(rs)) = Sum(w, KnownOf(rs))
        /\ Sum(v, KnownOf(rt)) = n + Sum(v, KnownOf(rs))
        /\ Sum(w, KnownOf(rs)) \in Nat
    <3> HIDE DEF v, w
    <3>1. Sum(v, KnownOf(rs)) = Sum(w, KnownOf(rs))
      BY <1>3, <2>1, SumSame
    <3>2. Sum(v, KnownOf(rt)) = v[k] + Sum(v, KnownOf(rt) \ {k})
      BY <1>2, <1>3, <2>2, SumRemove, SMTT(40)
    <3>3. Sum(v, KnownOf(rt)) = n + Sum(v, KnownOf(rs))
      BY <1>2, <2>2, <3>2, Zenon
    <3>4. Sum(w, KnownOf(rs)) \in Nat
      BY <1>3, <2>2, SumNat
    <3> QED BY <3>1, <3>3, <3>4
  <2> HIDE DEF v, w
  <2>4. Sum(v, KnownOf(rt)) = Sum(w, KnownOf(rs)) + n
    BY <2>3
  <2> QED BY <2>4 DEF LossOf, v, w
<1> QED BY <1>1, <1>2, <1>4

LEMMA LossType == ASSUME NEW rs \in Seq(Row)  PROVE LossOf(rs) \in Nat
<1>1. IsFiniteSet(KnownOf(rs))
  BY FiniteKnown
<1> DEFINE w == [i \in DOMAIN rs |-> rs[i].pnl]
<1>2. \A i \in KnownOf(rs) : w[i] \in Nat
  BY PnlType DEF KnownOf
<1>3. Sum(w, KnownOf(rs)) \in Nat
  <2> HIDE DEF w
  <2> QED BY <1>1, <1>2, SumNat
<1> QED BY <1>3 DEF LossOf

-----------------------------------------------------------------------------
(* The inductive invariant.  What an exit has realized and not yet written *)
(* is pending; at every await of the one caller inside apply_fill the open *)
(* rows are known, until something is torn.                                *)
Types == TypeOK /\ \A c \in Callers : leg[c].id <= Len(rows)

Pending(c) == IF pc[c] = "close" THEN leg[c].closing ELSE 0

Bounded == Meter + Pending("runner") + Pending("sweep") <= realized

Alone == ~torn => \A c, d \in Callers : pc[c] # "idle" /\ pc[d] # "idle" => c = d

DownIsEmpty == ~up => qty = 0 /\ openId = 0 /\ \A c \in Callers : pc[c] = "idle"

(* k is the row of the position: besides it only abandoned rows, all of    *)
(* them older, are OPEN.                                                   *)
Newest(k) == OpenRows = abandoned \cup {k} /\ \A j \in abandoned : j < k

OneRow(id) == \E k \in DOMAIN rows : Newest(k) /\ id \in {0, k}

RowOf(q) == IF q = 0 THEN OpenRows = abandoned /\ openId = 0 ELSE OneRow(openId)

Stage(c) ==
  /\ pc[c] = "order" => /\ RowOf(qty) /\ saved = qty
                        /\ IF qty = 0 THEN leg[c].n > 0 ELSE leg[c].n = -qty
  /\ pc[c] = "insert" => qty # 0 /\ OpenRows = abandoned /\ openId = 0
  /\ pc[c] = "inserted" => qty # 0 /\ Newest(leg[c].id) /\ openId = 0
  /\ pc[c] = "close" => /\ qty = 0 /\ openId = 0 /\ ~leg[c].opens
                        /\ OneRow(leg[c].id)
                        /\ realized = Meter + leg[c].closing
  /\ pc[c] = "persist" => RowOf(qty)
  /\ pc[c] = "write" => RowOf(qty) /\ leg[c].n = qty

InStep ==
  mode = "PAPER" /\ ~torn =>
    /\ (\A c \in Callers : pc[c] = "idle") => RowOf(saved) /\ (up => saved = qty)
    /\ (\A c \in Callers : pc[c] # "close") => realized = Meter
    /\ \A c \in Callers : Stage(c)

JournalInv == Types /\ Bounded /\ Alone /\ DownIsEmpty /\ InStep

LEMMA MeterNow == ASSUME Types  PROVE Meter = LossOf(rows) /\ LossOf(rows) \in Nat
BY MeterFolds, LossType DEF MeterIsLoss, Types, TypeOK, Row

LEMMA MeterThen == ASSUME Types'  PROVE Meter' = LossOf(rows') /\ LossOf(rows') \in Nat
BY MeterNext, LossType DEF Types, TypeOK, Row

Legs == [n : Int, closing : Nat, id : Nat, opens : BOOLEAN]
Places == {"idle", "order", "insert", "inserted", "close", "persist", "write"}

(* The types, in the parts that a step disturbs separately. *)
TypeParts ==
  /\ mode \in Modes /\ up \in BOOLEAN /\ torn \in BOOLEAN /\ faults \in 0..MaxFaults
  /\ qty \in Int /\ saved \in Int /\ realized \in Nat /\ abandoned \subseteq Nat
  /\ rows \in Seq(Row) /\ openId \in Nat /\ openId <= Len(rows)
  /\ pc \in [Callers -> Places]
  /\ leg \in [Callers -> Legs] /\ \A c \in Callers : leg[c].id <= Len(rows)

LEMMA TypesInParts == Types <=> TypeParts
BY DEF Types, TypeOK, TypeParts, Row, Legs, Places

LEMMA JournalInit == Init => JournalInv
<1> SUFFICES ASSUME Init  PROVE JournalInv
  OBVIOUS
<1>1. Types
  <2>1. leg \in [Callers -> Legs] /\ \A c \in Callers : leg[c].id <= Len(rows)
    BY DEF Init, NoLeg, Legs
  <2>2. rows \in Seq(Row) /\ openId \in Nat /\ openId <= Len(rows)
    BY DEF Init
  <2>3. pc \in [Callers -> Places]
    BY DEF Init, Places
  <2>4. mode \in Modes /\ up \in BOOLEAN /\ torn \in BOOLEAN
    BY DEF Init
  <2>5. faults \in 0..MaxFaults /\ qty \in Int /\ saved \in Int /\ realized \in Nat
    BY TradeJournalAssumption DEF Init
  <2>6. abandoned \subseteq Nat
    BY DEF Init
  <2> QED BY <2>1, <2>2, <2>3, <2>4, <2>5, <2>6, TypesInParts DEF TypeParts
<1>2. LossOf(rows) = 0
  <2>1. KnownOf(rows) = {}
    BY DEF Init, KnownOf
  <2> QED BY <2>1, SumEmpty DEF LossOf
<1>3. Meter = 0 /\ OpenRows = {}
  BY <1>1, <1>2, MeterNow DEF Init, OpenRows
<1> QED
  BY <1>1, <1>3 DEF Init, JournalInv, Bounded, Pending, Alone, DownIsEmpty, InStep, Stage,
     RowOf, Callers

-----------------------------------------------------------------------------
(* A caller is given another leg; the table only grows. *)
LEMMA LegGiven ==
  ASSUME TypeParts, NEW c \in Callers, NEW l \in Legs, l.id <= Len(rows'),
         Len(rows') \in Nat, Len(rows) <= Len(rows'), leg' = [leg EXCEPT ![c] = l]
  PROVE  leg' \in [Callers -> Legs] /\ \A d \in Callers : leg'[d].id <= Len(rows')
<1>1. leg \in [Callers -> Legs] /\ Len(rows) \in Nat /\ \A d \in Callers : leg[d].id <= Len(rows)
  BY DEF TypeParts
<1>2. \A d \in Callers : leg[d].id \in Nat
  BY <1>1 DEF Legs
<1>3. \A d \in Callers : leg'[d] = IF d = c THEN l ELSE leg[d]
  BY <1>1
<1>4. leg' \in [Callers -> Legs]
  BY <1>1
<1>5. ASSUME NEW d \in Callers  PROVE leg'[d].id <= Len(rows')
  BY <1>1, <1>2, <1>3
<1> QED BY <1>4, <1>5

(* What Filled does, for the signed quantity that was filled. *)
FilledBy(c, signed) ==
  /\ qty' = qty + signed
  /\ realized' = realized + Closed(signed)
  /\ openId' = IF Adds(signed) THEN openId ELSE 0
  /\ leg' = [leg EXCEPT ![c] =
       [n |-> signed, closing |-> Closed(signed),
        id |-> IF Adds(signed) THEN 0 ELSE openId,
        opens |-> Adds(signed) \/ Abs(signed) > Abs(qty)]]
  /\ pc' = [pc EXCEPT ![c] = IF Adds(signed) THEN "insert" ELSE "close"]

LEMMA FilledSome ==
  ASSUME NEW c \in Callers, Filled(c)
  PROVE  \E m \in 1..Abs(leg[c].n) :
           /\ mode = "PAPER" => m = Abs(leg[c].n)
           /\ FilledBy(c, IF leg[c].n > 0 THEN m ELSE -m)
BY DEF Filled, FilledBy, Goto

(* The table after a close: the same rows, or one open row closed. *)
LEMMA CloseRowCloses ==
  ASSUME TypeParts, NEW c \in Callers, CloseRow(c)
  PROVE  \/ UNCHANGED rows
         \/ \E k \in OpenOf(rows) :
              /\ k \in RowsToClose(leg[c].id)
              /\ rows' = [i \in DOMAIN rows |->
                           IF i = k THEN [status |-> "CLOSED", pnl |-> leg[c].closing]
                           ELSE rows[i]]
<1> OpenRows = OpenOf(rows)
  BY DEF OpenRows, OpenOf
<1> rows \in Seq(Row)
  BY DEF TypeParts
<1>1. SUFFICES ASSUME rows' = [i \in DOMAIN rows |->
                                IF i \in RowsToClose(leg[c].id)
                                THEN [status |-> "CLOSED", pnl |-> leg[c].closing]
                                ELSE rows[i]]
               PROVE  \/ UNCHANGED rows
                      \/ \E k \in OpenOf(rows) :
                           /\ k \in RowsToClose(leg[c].id)
                           /\ rows' = [i \in DOMAIN rows |->
                                IF i = k THEN [status |-> "CLOSED", pnl |-> leg[c].closing]
                                ELSE rows[i]]
  BY DEF CloseRow
<1>2. CASE RowsToClose(leg[c].id) = {}
  <2>1. rows' = [i \in DOMAIN rows |-> rows[i]]
    BY <1>1, <1>2
  <2> QED BY <2>1
<1>3. ASSUME NEW k \in RowsToClose(leg[c].id)
      PROVE  k \in OpenOf(rows) /\ RowsToClose(leg[c].id) = {k}
  <2>1. OpenOf(rows) \subseteq Int
    BY DEF OpenOf
  <2> QED BY <1>3, <2>1 DEF RowsToClose
<1> QED BY <1>1, <1>2, <1>3

LEMMA PartsStep ==
  ASSUME TypeParts, [Next]_vars
  PROVE  TypeParts'
<1>a. /\ mode \in Modes /\ up \in BOOLEAN /\ torn \in BOOLEAN
      /\ rows \in Seq(Row) /\ Len(rows) \in Nat
      /\ pc \in [Callers -> Places]
      /\ leg \in [Callers -> Legs] /\ \A c \in Callers : leg[c].id <= Len(rows)
  BY DEF TypeParts
<1>b. /\ faults \in 0..MaxFaults
      /\ qty \in Int /\ saved \in Int /\ realized \in Nat
      /\ openId \in Nat /\ openId <= Len(rows)
      /\ abandoned \subseteq Nat
  BY DEF TypeParts
<1>c. \A c \in Callers : /\ leg[c].n \in Int /\ leg[c].closing \in Nat
                        /\ leg[c].id \in Nat /\ leg[c].opens \in BOOLEAN
  BY <1>a DEF Legs
<1>d. NoLeg \in Legs /\ NoLeg.id = 0
  BY DEF NoLeg, Legs
<1>e. ASSUME NEW c \in Callers, NEW w \in Places, Goto(c, w)
      PROVE  pc' \in [Callers -> Places]
  BY <1>a, <1>e DEF Goto
<1>f. Fails => torn' \in BOOLEAN /\ faults' \in 0..MaxFaults
  <2>1. Fails => torn' \in BOOLEAN
    BY DEF Fails
  <2> QED BY <1>b, <2>1, TradeJournalAssumption DEF Fails
<1>g. {"idle", "order", "insert", "inserted", "close", "persist", "write"} = Places
  BY DEF Places
<1>1. ASSUME NEW c \in Callers, Submit(c)  PROVE TypeParts'
  <2>1. PICK n \in Int : leg' = [leg EXCEPT ![c] = [NoLeg EXCEPT !.n = n]]
    <3>1. (IF qty # 0 THEN {-qty}
           ELSE IF c = "runner" /\ Len(rows) < MaxRows THEN 1..MaxQty ELSE {}) \subseteq Int
      BY <1>b
    <3> QED BY <1>1, <3>1 DEF Submit
  <2>2. [NoLeg EXCEPT !.n = n] \in Legs /\ [NoLeg EXCEPT !.n = n].id = 0
    BY DEF NoLeg, Legs
  <2>3. UNCHANGED <<mode, abandoned, up, qty, openId, rows, saved, realized, faults>> /\ torn' \in BOOLEAN
    BY <1>1 DEF Submit
  <2>4. leg' \in [Callers -> Legs] /\ \A d \in Callers : leg'[d].id <= Len(rows')
    BY <1>a, <2>1, <2>2, <2>3, LegGiven
  <2>5. pc' \in [Callers -> Places]
    BY <1>1, <1>e, <1>g DEF Submit
  <2> QED BY <1>a, <1>b, <2>3, <2>4, <2>5 DEF TypeParts
<1>2. ASSUME NEW c \in Callers, Filled(c)  PROVE TypeParts'
  <2>1. PICK signed \in Int : FilledBy(c, signed)
    BY <1>2, <1>c, FilledSome
  <2>2. Closed(signed) \in Nat
    BY <1>b DEF Closed, Smaller, Abs
  <2>3. UNCHANGED <<mode, abandoned, up, rows, saved, torn, faults>>
    BY <1>2 DEF Filled
  <2> DEFINE l == [n |-> signed, closing |-> Closed(signed),
                   id |-> IF Adds(signed) THEN 0 ELSE openId,
                   opens |-> Adds(signed) \/ Abs(signed) > Abs(qty)]
  <2>4. l \in Legs /\ l.id <= Len(rows)
    BY <1>a, <1>b, <2>2 DEF Legs
  <2>5. leg' \in [Callers -> Legs] /\ \A d \in Callers : leg'[d].id <= Len(rows')
    <3>1. leg' = [leg EXCEPT ![c] = l]
      BY <2>1 DEF FilledBy
    <3> HIDE DEF l
    <3> QED BY <1>a, <2>3, <2>4, <3>1, LegGiven
  <2>6. pc' \in [Callers -> Places]
    BY <1>a, <2>1 DEF FilledBy, Places
  <2>7. qty' \in Int /\ realized' \in Nat /\ openId' \in Nat /\ openId' <= Len(rows)
    BY <1>a, <1>b, <2>1, <2>2 DEF FilledBy
  <2> QED BY <1>a, <1>b, <2>3, <2>5, <2>6, <2>7 DEF TypeParts
<1>3. ASSUME NEW c \in Callers, Unfilled(c)  PROVE TypeParts'
  <2>1. UNCHANGED <<mode, abandoned, up, qty, openId, rows, saved, realized, torn, faults>>
    BY <1>3 DEF Unfilled
  <2>2. leg' \in [Callers -> Legs] /\ \A d \in Callers : leg'[d].id <= Len(rows')
    BY <1>3, <1>a, <1>d, <2>1, LegGiven DEF Unfilled
  <2>3. pc' \in [Callers -> Places]
    BY <1>3, <1>e, <1>g DEF Unfilled
  <2> QED BY <1>a, <1>b, <2>1, <2>2, <2>3 DEF TypeParts
<1>4. ASSUME NEW c \in Callers, InsertRow(c)  PROVE TypeParts'
  <2>1. rows' \in Seq(Row) /\ Len(rows') \in Nat /\ Len(rows) <= Len(rows')
    BY <1>4, <1>a, LossOfOpened DEF InsertRow
  <2>2. torn' \in BOOLEAN /\ faults' \in 0..MaxFaults
    BY <1>4, <1>a, <1>b, <1>f DEF InsertRow
  <2>3. PICK i \in Nat : i <= Len(rows') /\ leg' = [leg EXCEPT ![c].id = i]
    BY <1>4, <2>1 DEF InsertRow
  <2>4. [leg[c] EXCEPT !.id = i] \in Legs /\ [leg[c] EXCEPT !.id = i].id = i
    BY <1>a DEF Legs
  <2>5. leg' \in [Callers -> Legs] /\ \A d \in Callers : leg'[d].id <= Len(rows')
    BY <2>1, <2>3, <2>4, LegGiven
  <2>6. pc' \in [Callers -> Places]
    BY <1>4, <1>e, <1>g DEF InsertRow
  <2>7. UNCHANGED <<mode, abandoned, up, qty, openId, saved, realized>>
    BY <1>4 DEF InsertRow
  <2>8. openId' <= Len(rows')
    BY <1>a, <1>b, <2>1, <2>7
  <2> QED BY <1>a, <1>b, <2>1, <2>2, <2>5, <2>6, <2>7, <2>8 DEF TypeParts
<1>5. ASSUME NEW c \in Callers, RememberRow(c)  PROVE TypeParts'
  <2>1. pc' \in [Callers -> Places]
    BY <1>5, <1>e, <1>g DEF RememberRow
  <2>2. openId' \in Nat /\ openId' <= Len(rows)
    BY <1>5, <1>a, <1>c DEF RememberRow
  <2>3. UNCHANGED <<mode, abandoned, up, qty, rows, saved, leg, realized, torn, faults>>
    BY <1>5 DEF RememberRow
  <2> QED BY <1>a, <1>b, <2>1, <2>2, <2>3 DEF TypeParts
<1>6. ASSUME NEW c \in Callers, CloseRow(c)  PROVE TypeParts'
  <2>1. rows' \in Seq(Row) /\ Len(rows') = Len(rows)
    BY <1>6, <1>a, <1>c, CloseRowCloses, LossOfClosed, SMTT(40)
  <2>2. pc' \in [Callers -> Places]
    <3>1. (IF leg[c].opens THEN "insert" ELSE "persist") \in Places
      BY DEF Places
    <3> QED BY <1>6, <1>e, <3>1 DEF CloseRow
  <2>3. torn' \in BOOLEAN /\ faults' \in 0..MaxFaults
    BY <1>6, <1>a, <1>b, <1>f DEF CloseRow
  <2>4. UNCHANGED <<mode, abandoned, up, qty, openId, saved, leg, realized>>
    BY <1>6 DEF CloseRow
  <2> QED BY <1>a, <1>b, <2>1, <2>2, <2>3, <2>4 DEF TypeParts
<1>7. ASSUME NEW c \in Callers, ReadPosition(c)  PROVE TypeParts'
  <2>1. UNCHANGED <<mode, abandoned, up, qty, openId, rows, saved, realized, torn, faults>>
    BY <1>7 DEF ReadPosition
  <2>2. [leg[c] EXCEPT !.n = qty] \in Legs /\ [leg[c] EXCEPT !.n = qty].id = leg[c].id
    BY <1>a, <1>b DEF Legs
  <2>3. leg' = [leg EXCEPT ![c] = [leg[c] EXCEPT !.n = qty]]
    BY <1>7 DEF ReadPosition
  <2>4. leg' \in [Callers -> Legs] /\ \A d \in Callers : leg'[d].id <= Len(rows')
    BY <1>a, <2>1, <2>2, <2>3, LegGiven
  <2>5. pc' \in [Callers -> Places]
    BY <1>7, <1>e, <1>g DEF ReadPosition
  <2> QED BY <1>a, <1>b, <2>1, <2>4, <2>5 DEF TypeParts
<1>8. ASSUME NEW c \in Callers, WritePosition(c)  PROVE TypeParts'
  <2>1. UNCHANGED <<mode, abandoned, up, qty, openId, rows, realized>>
    BY <1>8 DEF WritePosition
  <2>2. torn' \in BOOLEAN /\ faults' \in 0..MaxFaults
    BY <1>8, <1>a, <1>b, <1>f DEF WritePosition
  <2>3. saved' \in Int
    BY <1>8, <1>b, <1>c DEF WritePosition
  <2>4. leg' \in [Callers -> Legs] /\ \A d \in Callers : leg'[d].id <= Len(rows')
    BY <1>8, <1>a, <1>d, <2>1, LegGiven DEF WritePosition
  <2>5. pc' \in [Callers -> Places]
    BY <1>8, <1>e, <1>g DEF WritePosition
  <2> QED BY <1>a, <1>b, <2>1, <2>2, <2>3, <2>4, <2>5 DEF TypeParts
<1>9. CASE Crash
  <2>1. leg' \in [Callers -> Legs] /\ \A d \in Callers : leg'[d].id = 0
    BY <1>9, <1>d DEF Crash
  <2>2. pc' \in [Callers -> Places]
    BY <1>9 DEF Crash, Places
  <2>3. UNCHANGED <<mode, abandoned, rows, saved, realized>> /\ up' \in BOOLEAN /\ torn' \in BOOLEAN
    BY <1>9 DEF Crash
  <2>4. faults' \in 0..MaxFaults /\ qty' = 0 /\ openId' = 0
    BY <1>9, <1>b, TradeJournalAssumption DEF Crash
  <2> QED BY <1>a, <1>b, <2>1, <2>2, <2>3, <2>4 DEF TypeParts
<1>10. CASE Boot
  <2>1. UNCHANGED <<mode, openId, rows, pc, leg, realized>> /\ up' \in BOOLEAN
    BY <1>10 DEF Boot
  <2>2. qty' \in Int /\ saved' \in Int
    BY <1>10, <1>b, TradeJournalAssumption
       DEF Boot, Restores, ClearsStale, StartsEmpty, AdoptsBroker
  <2>3. abandoned' \subseteq Nat
    <3>1. OpenRows \subseteq Nat
      BY <1>a DEF OpenRows
    <3> QED BY <1>10, <1>b, <3>1
        DEF Boot, Restores, ClearsStale, StartsEmpty, AdoptsBroker
  <2>4. torn' \in BOOLEAN /\ faults' \in 0..MaxFaults
    BY <1>10, <1>a, <1>b, <1>f, Zenon
       DEF Boot, Restores, ClearsStale, StartsEmpty, AdoptsBroker
  <2> QED BY <1>a, <1>b, <2>1, <2>2, <2>3, <2>4 DEF TypeParts
<1>11. CASE UNCHANGED vars
  BY <1>11 DEF vars, TypeParts
<1> QED
  BY <1>1, <1>2, <1>3, <1>4, <1>5, <1>6, <1>7, <1>8, <1>9, <1>10, <1>11 DEF Next, ApplyFill

LEMMA TypesStep ==
  ASSUME Types, [Next]_vars
  PROVE  Types'
<1>1. TypeParts'
  BY TypesInParts, PartsStep
<1> QED BY <1>1 DEF Types, TypeOK, TypeParts, Row, Legs, Places

-----------------------------------------------------------------------------
(* How an action of one caller moves the meter and what is pending. *)
LEMMA PendingType ==
  ASSUME TypeParts, NEW c \in Callers  PROVE Pending(c) \in Nat
BY DEF TypeParts, Pending, Legs

LEMMA OthersWait ==
  ASSUME TypeParts, NEW c \in Callers, ApplyFill(c), NEW d \in Callers \ {c}
  PROVE  pc'[d] = pc[d] /\ leg'[d] = leg[d]
<1> USE DEF TypeParts
<1>1. CASE Submit(c)
  BY <1>1 DEF Submit, Goto
<1>2. CASE Filled(c)
  <2>1. \E w, l : pc' = [pc EXCEPT ![c] = w] /\ leg' = [leg EXCEPT ![c] = l]
    BY <1>2, FilledSome DEF FilledBy
  <2> QED BY <2>1
<1>3. CASE Unfilled(c)
  BY <1>3 DEF Unfilled, Goto
<1>4. CASE InsertRow(c)
  BY <1>4 DEF InsertRow, Goto
<1>5. CASE RememberRow(c)
  BY <1>5 DEF RememberRow, Goto
<1>6. CASE CloseRow(c)
  BY <1>6 DEF CloseRow, Goto
<1>7. CASE ReadPosition(c)
  BY <1>7 DEF ReadPosition, Goto
<1>8. CASE WritePosition(c)
  BY <1>8 DEF WritePosition, Goto
<1> QED BY <1>1, <1>2, <1>3, <1>4, <1>5, <1>6, <1>7, <1>8 DEF ApplyFill

(* The rows and the realized loss, step by step. *)
LEMMA RowsMove ==
  ASSUME TypeParts, NEW c \in Callers, ApplyFill(c)
  PROVE  \/ pc[c] # "close" /\ pc'[c] # "close" /\ LossOf(rows') = LossOf(rows)
            /\ realized' = realized
         \/ pc[c] # "close" /\ UNCHANGED rows /\ realized' = realized + Pending(c)'
         \/ /\ pc[c] = "close" /\ pc'[c] # "close" /\ realized' = realized
            /\ \/ UNCHANGED rows
               \/ LossOf(rows') = LossOf(rows) + leg[c].closing
<1>1. CASE Submit(c)
  BY <1>1 DEF Submit, Goto, TypeParts
<1>2. CASE Filled(c)
  <2>1. pc[c] = "order" /\ UNCHANGED rows
    BY <1>2 DEF Filled
  <2>2. PICK signed \in Int : FilledBy(c, signed)
    BY <1>2, FilledSome DEF TypeParts, Legs
  <2>3. realized' = realized + Closed(signed) /\ leg'[c].closing = Closed(signed)
    BY <2>2 DEF FilledBy, TypeParts
  <2>4. pc'[c] = IF Adds(signed) THEN "insert" ELSE "close"
    BY <2>2 DEF FilledBy, TypeParts
  <2>5. realized \in Nat
    BY DEF TypeParts
  <2> QED BY <2>1, <2>3, <2>4, <2>5 DEF Pending, Closed
<1>3. CASE Unfilled(c)
  BY <1>3 DEF Unfilled, Goto, TypeParts
<1>4. CASE InsertRow(c)
  <2>1. LossOf(rows') = LossOf(rows)
    BY <1>4, LossOfOpened DEF InsertRow, TypeParts
  <2> QED BY <1>4, <2>1 DEF InsertRow, Goto, TypeParts
<1>5. CASE RememberRow(c)
  BY <1>5 DEF RememberRow, Goto, TypeParts
<1>6. CASE CloseRow(c)
  <2>1. pc[c] = "close" /\ realized' = realized
    BY <1>6 DEF CloseRow
  <2>2. pc'[c] # "close"
    BY <1>6 DEF CloseRow, Goto, TypeParts
  <2>3. UNCHANGED rows \/ LossOf(rows') = LossOf(rows) + leg[c].closing
    <3>1. rows \in Seq(Row) /\ leg[c].closing \in Nat
      BY DEF TypeParts, Legs
    <3>2. CASE UNCHANGED rows
      BY <3>2
    <3>3. CASE \E k \in OpenOf(rows) :
                 rows' = [i \in DOMAIN rows |->
                           IF i = k THEN [status |-> "CLOSED", pnl |-> leg[c].closing]
                           ELSE rows[i]]
      <4> PICK k \in OpenOf(rows) :
                 rows' = [i \in DOMAIN rows |->
                           IF i = k THEN [status |-> "CLOSED", pnl |-> leg[c].closing]
                           ELSE rows[i]]
        BY <3>3
      <4> QED BY <3>1, LossOfClosed
    <3>4. \/ UNCHANGED rows
          \/ \E k \in OpenOf(rows) :
                 rows' = [i \in DOMAIN rows |->
                           IF i = k THEN [status |-> "CLOSED", pnl |-> leg[c].closing]
                           ELSE rows[i]]
      BY <1>6, CloseRowCloses
    <3> QED BY <3>2, <3>3, <3>4
  <2> QED BY <2>1, <2>2, <2>3
<1>7. CASE ReadPosition(c)
  BY <1>7 DEF ReadPosition, Goto, TypeParts
<1>8. CASE WritePosition(c)
  BY <1>8 DEF WritePosition, Goto, TypeParts
<1> QED BY <1>1, <1>2, <1>3, <1>4, <1>5, <1>6, <1>7, <1>8 DEF ApplyFill

LEMMA BoundedStep ==
  ASSUME Types, Types', Bounded, [Next]_vars
  PROVE  Bounded'
<1> TypeParts /\ TypeParts'
  <2>1. TypeParts
    BY TypesInParts
  <2>2. TypeParts'
    BY DEF Types, TypeOK, TypeParts, Row, Legs, Places
  <2> QED BY <2>1, <2>2
<1>1. /\ LossOf(rows) \in Nat /\ LossOf(rows') \in Nat
      /\ LossOf(rows) + Pending("runner") + Pending("sweep") <= realized
  BY MeterNow, MeterThen DEF Bounded
<1>2. realized \in Nat
  BY DEF TypeParts
<1>3. \A c \in Callers : Pending(c) \in Nat /\ Pending(c)' \in Nat
  <2> TAKE c \in Callers
  <2>1. Pending(c)' \in Nat
    BY DEF TypeParts, Pending, Legs
  <2> QED BY <2>1, PendingType
<1>4. LossOf(rows') + Pending("runner")' + Pending("sweep")' <= realized'
  <2>1. ASSUME NEW c \in Callers, ApplyFill(c), NEW d \in Callers, d # c
        PROVE  LossOf(rows') + Pending(c)' + Pending(d)' <=
               realized' - realized + LossOf(rows) + Pending(c) + Pending(d)
    <3>1. Pending(d)' = Pending(d)
      BY <2>1, OthersWait DEF Pending
    <3>2. \/ /\ Pending(c) = 0 /\ Pending(c)' = 0
            /\ LossOf(rows') = LossOf(rows) /\ realized' = realized
         \/ /\ Pending(c) = 0 /\ LossOf(rows') = LossOf(rows)
            /\ realized' = realized + Pending(c)'
         \/ /\ Pending(c)' = 0 /\ realized' = realized
            /\ LossOf(rows') <= LossOf(rows) + Pending(c)
      BY <2>1, <1>1, <1>3, RowsMove DEF Pending
    <3> HIDE DEF Pending
    <3>3. Pending(c) \in Nat /\ Pending(d) \in Nat /\ Pending(c)' \in Nat
      BY <2>1, <1>3
    <3> QED BY <1>1, <1>2, <3>1, <3>2, <3>3
  <2>2. CASE \E c \in Callers : ApplyFill(c)
    <3>1. "runner" \in Callers /\ "sweep" \in Callers /\ "runner" # "sweep"
      BY DEF Callers
    <3>2. realized' \in Nat
      BY DEF TypeParts
    <3>3. CASE ApplyFill("runner")
      BY <1>1, <1>2, <1>3, <2>1, <3>1, <3>2, <3>3
    <3>4. CASE ApplyFill("sweep")
      BY <1>1, <1>2, <1>3, <2>1, <3>1, <3>2, <3>4
    <3> QED BY <2>2, <3>3, <3>4 DEF Callers
  <2>3. CASE Crash
    <3>1. Pending("runner")' = 0 /\ Pending("sweep")' = 0
      BY <2>3 DEF Crash, Pending, Callers
    <3>2. UNCHANGED <<rows, realized>>
      BY <2>3 DEF Crash
    <3>3. Pending("runner") \in Nat /\ Pending("sweep") \in Nat
      BY <1>3 DEF Callers
    <3> QED BY <1>1, <1>2, <3>1, <3>2, <3>3
  <2>4. CASE Boot \/ UNCHANGED vars
    <3>1. UNCHANGED <<rows, realized, pc, leg>>
      BY <2>4 DEF Boot, vars
    <3> QED BY <1>1, <3>1 DEF Pending
  <2> QED BY <2>2, <2>3, <2>4 DEF Next
<1> QED BY <1>4, MeterThen DEF Bounded

-----------------------------------------------------------------------------
LEMMA OrderStep ==
  ASSUME Types, Alone, DownIsEmpty, [Next]_vars
  PROVE  Alone' /\ DownIsEmpty'
<1>1. TypeParts
  BY TypesInParts
<1>2. ASSUME NEW c \in Callers, ApplyFill(c)  PROVE Alone' /\ DownIsEmpty'
  <2>1. up /\ up' = up
    BY <1>2 DEF ApplyFill, Submit, Filled, Unfilled, InsertRow, RememberRow, CloseRow,
       ReadPosition, WritePosition
  <2>2. \A d \in Callers \ {c} : pc'[d] = pc[d]
    BY <1>1, <1>2, OthersWait
  <2>3. ~torn' => \A d \in Callers \ {c} : pc[d] = "idle"
    <3>1. CASE Submit(c)
      BY <3>1 DEF Submit
    <3>2. CASE ~Submit(c)
      <4>1. pc[c] # "idle" /\ (~torn' => ~torn)
        BY <1>2, <3>2 DEF ApplyFill, Filled, Unfilled, InsertRow, RememberRow, CloseRow,
           ReadPosition, WritePosition, Fails
      <4> QED BY <4>1 DEF Alone
    <3> QED BY <3>1, <3>2
  <2> QED BY <2>1, <2>2, <2>3 DEF Alone, DownIsEmpty
<1>3. CASE Crash
  BY <1>3 DEF Crash, Alone, DownIsEmpty
<1>4. CASE Boot
  <2>1. up' /\ UNCHANGED pc /\ ~up
    BY <1>4 DEF Boot
  <2> QED BY <2>1 DEF Alone, DownIsEmpty
<1>5. CASE UNCHANGED vars
  BY <1>5 DEF vars, Alone, DownIsEmpty
<1> QED BY <1>2, <1>3, <1>4, <1>5 DEF Next

(* The one caller that is inside apply_fill, in one piece so far. *)
LEMMA StageStep ==
  ASSUME JournalInv, Types', NEW c \in Callers, ApplyFill(c), mode = "PAPER", ~torn'
  PROVE  /\ \A d \in Callers \ {c} : pc'[d] = "idle"
         /\ Stage(c)'
         /\ pc'[c] # "close" => realized' = Meter'
         /\ pc'[c] = "idle" => RowOf(saved)' /\ saved' = qty'
<1>1. TypeParts /\ Types /\ Alone /\ DownIsEmpty /\ InStep
  BY TypesInParts DEF JournalInv
<1>2. \A d \in Callers \ {c} : pc'[d] = pc[d]
  BY <1>1, OthersWait
<1>3. ~torn
  BY DEF ApplyFill, Submit, Filled, Unfilled, InsertRow, RememberRow, CloseRow,
     ReadPosition, WritePosition, Fails
<1>4. \A d \in Callers \ {c} : pc[d] = "idle"
  <2>1. CASE Submit(c)
    BY <2>1 DEF Submit
  <2>2. CASE ~Submit(c)
    <3>1. pc[c] # "idle"
      BY <2>2 DEF ApplyFill, Filled, Unfilled, InsertRow, RememberRow, CloseRow,
         ReadPosition, WritePosition
    <3> QED BY <1>1, <1>3, <3>1 DEF Alone
  <2> QED BY <2>1, <2>2
<1>5. /\ Meter = LossOf(rows) /\ Meter' = LossOf(rows') /\ Meter \in Nat
      /\ OpenRows = OpenOf(rows) /\ OpenRows' = OpenOf(rows')
  BY <1>1, MeterNow, MeterThen DEF OpenRows, OpenOf
<1>6. /\ Stage(c)
      /\ pc[c] # "close" => realized = Meter
      /\ pc[c] = "idle" => RowOf(saved) /\ (up => saved = qty)
  BY <1>1, <1>3, <1>4 DEF InStep
<1>7. /\ rows \in Seq(Row) /\ Len(rows) \in Nat /\ qty \in Int /\ saved \in Int /\ realized \in Nat
      /\ leg \in [Callers -> Legs] /\ pc \in [Callers -> Places]
      /\ openId \in Nat /\ abandoned \subseteq Nat
  BY <1>1 DEF TypeParts
<1>9. abandoned' = abandoned
  BY DEF ApplyFill, Submit, Filled, Unfilled, InsertRow, RememberRow, CloseRow,
     ReadPosition, WritePosition
<1>8. SUFFICES /\ Stage(c)'
               /\ pc'[c] # "close" => realized' = Meter'
               /\ pc'[c] = "idle" => RowOf(saved)' /\ saved' = qty'
  BY <1>2, <1>4
<1>11. CASE Submit(c)
  <2>1. /\ UNCHANGED <<qty, openId, rows, saved, realized>> /\ up /\ pc[c] = "idle"
        /\ pc'[c] = "order"
    BY <1>11, <1>7 DEF Submit, Goto
  <2>2. IF qty = 0 THEN leg'[c].n > 0 ELSE leg'[c].n = -qty
    BY <1>11, <1>7, TradeJournalAssumption DEF Submit, NoLeg
  <2> QED BY <1>5, <1>6, <1>9, <2>1, <2>2 DEF Stage, RowOf, OneRow, Newest
<1>12. CASE Filled(c)
  <2>1. pc[c] = "order" /\ UNCHANGED rows
    BY <1>12 DEF Filled
  <2>2. PICK m \in 1..Abs(leg[c].n) :
             m = Abs(leg[c].n) /\ FilledBy(c, IF leg[c].n > 0 THEN m ELSE -m)
    BY <1>12, FilledSome
  <2>3. RowOf(qty) /\ (IF qty = 0 THEN leg[c].n > 0 ELSE leg[c].n = -qty)
    BY <1>6, <2>1 DEF Stage
  <2>4. leg[c].n \in Int
    BY <1>7 DEF Legs
  <2>5. FilledBy(c, leg[c].n)
    BY <2>2, <2>4 DEF Abs
  <2>6. CASE qty = 0
    <3>1. Adds(leg[c].n) /\ Closed(leg[c].n) = 0
      BY <2>6 DEF Adds, Closed
    <3>2. pc'[c] = "insert" /\ qty' # 0 /\ openId' = openId /\ realized' = realized
      BY <1>7, <2>3, <2>4, <2>5, <2>6, <3>1 DEF FilledBy
    <3> QED BY <1>5, <1>6, <1>9, <2>1, <2>3, <2>6, <3>2 DEF Stage, RowOf
  <2>7. CASE qty # 0
    <3>1. leg[c].n = -qty
      BY <2>3, <2>7
    <3>2. ~Adds(leg[c].n) /\ Closed(leg[c].n) = Abs(qty) /\ ~(Abs(leg[c].n) > Abs(qty))
      BY <1>7, <2>7, <3>1 DEF Adds, Closed, Smaller, Abs
    <3>3. /\ pc'[c] = "close" /\ qty' = 0 /\ openId' = 0 /\ realized' = realized + Abs(qty)
          /\ leg'[c].id = openId /\ ~leg'[c].opens /\ leg'[c].closing = Abs(qty)
      <4>1. /\ pc'[c] = "close" /\ openId' = 0 /\ qty' = qty + leg[c].n
            /\ realized' = realized + Closed(leg[c].n)
        BY <1>7, <2>5, <3>2 DEF FilledBy
      <4>2. leg'[c] = [n |-> leg[c].n, closing |-> Closed(leg[c].n), id |-> openId, opens |-> FALSE]
        BY <1>7, <2>5, <3>2 DEF FilledBy
      <4> QED BY <1>7, <3>1, <3>2, <4>1, <4>2
    <3>4. OneRow(openId)
      BY <2>3, <2>7 DEF RowOf
    <3> QED BY <1>5, <1>6, <1>9, <2>1, <3>3, <3>4 DEF Stage, OneRow, Newest
  <2> QED BY <2>6, <2>7
<1>13. CASE Unfilled(c)
  BY <1>13 DEF Unfilled
<1>14. CASE InsertRow(c)
  <2>1. /\ pc[c] = "insert" /\ pc'[c] = "inserted"
        /\ UNCHANGED <<qty, openId, saved, realized>>
    BY <1>14, <1>7 DEF InsertRow, Goto
  <2>2. /\ rows' = Append(rows, [status |-> "OPEN", pnl |-> 0])
        /\ leg' = [leg EXCEPT ![c].id = Len(rows')]
    BY <1>14 DEF InsertRow, Fails
  <2>3. Newest(leg[c].id)' /\ LossOf(rows') = LossOf(rows)
    <3>1. leg'[c].id = Len(rows')
      BY <1>7, <2>2 DEF Legs
    <3>2. OpenRows = abandoned
      BY <1>6, <2>1 DEF Stage
    <3>3. Len(rows') = Len(rows) + 1
      BY <1>7, <2>2
    <3>4. OpenRows' = abandoned \cup {Len(rows')} /\ LossOf(rows') = LossOf(rows)
      BY <1>5, <1>7, <2>2, <3>2, LossOfOpened
    <3>5. \A j \in abandoned : j < Len(rows')
      BY <1>7, <3>2, <3>3 DEF OpenRows
    <3> QED BY <1>9, <3>1, <3>4, <3>5 DEF Newest
  <2> QED BY <1>5, <1>6, <1>9, <2>1, <2>3 DEF Stage
<1>15. CASE RememberRow(c)
  <2>1. /\ pc[c] = "inserted" /\ pc'[c] = "persist" /\ openId' = leg[c].id
        /\ UNCHANGED <<qty, rows, saved, realized>>
    BY <1>15, <1>7 DEF RememberRow, Goto
  <2>2. qty # 0 /\ Newest(leg[c].id)
    BY <1>6, <2>1 DEF Stage
  <2>3. leg[c].id \in DOMAIN rows
    BY <2>2 DEF Newest, OpenRows
  <2> QED BY <1>5, <1>6, <1>9, <2>1, <2>2, <2>3 DEF Stage, RowOf, OneRow, Newest
<1>16. CASE CloseRow(c)
  <2>1. /\ pc[c] = "close" /\ UNCHANGED <<qty, openId, saved, realized, leg>>
        /\ rows' = [i \in DOMAIN rows |->
                      IF i \in RowsToClose(leg[c].id)
                      THEN [status |-> "CLOSED", pnl |-> leg[c].closing]
                      ELSE rows[i]]
    BY <1>16 DEF CloseRow, Fails
  <2>2. /\ qty = 0 /\ openId = 0 /\ ~leg[c].opens /\ OneRow(leg[c].id)
        /\ realized = Meter + leg[c].closing
    BY <1>6, <2>1 DEF Stage
  <2>3. pc'[c] = "persist"
    BY <1>16, <1>7, <2>2 DEF CloseRow, Goto
  <2>4. PICK k \in DOMAIN rows : Newest(k) /\ leg[c].id \in {0, k}
    BY <2>2 DEF OneRow
  <2>5. RowsToClose(leg[c].id) = {k}
    <3>1. CASE leg[c].id = 0
      <4>1. k \in Int /\ abandoned \subseteq Int
        BY <1>7, <2>4
      <4>2. ASSUME NEW i \in abandoned \cup {k}
            PROVE  (\A j \in abandoned \cup {k} : j <= i) <=> i = k
        <5>1. /\ i \in Int /\ \A j \in abandoned : j \in Int /\ j < k
              /\ i = k \/ i < k
          BY <2>4, <4>1, <4>2 DEF Newest
        <5> QED BY <4>1, <5>1
      <4>3. {i \in abandoned \cup {k} : \A j \in abandoned \cup {k} : j <= i} = {k}
        BY <4>2
      <4>4. OpenRows = abandoned \cup {k} /\ mode # "LIVE"
        BY <2>4 DEF Newest
      <4> QED BY <3>1, <4>3, <4>4, Zenon DEF RowsToClose
    <3>2. CASE leg[c].id # 0
      BY <2>4, <3>2 DEF RowsToClose, Newest
    <3> QED BY <3>1, <3>2
  <2>6. OpenRows' = abandoned /\ LossOf(rows') = LossOf(rows) + leg[c].closing
    <3>1. leg[c].closing \in Nat /\ k \in OpenOf(rows)
      BY <1>5, <1>7, <2>4 DEF Legs, Newest
    <3>2. rows' = [i \in DOMAIN rows |->
                    IF i = k THEN [status |-> "CLOSED", pnl |-> leg[c].closing] ELSE rows[i]]
      BY <2>1, <2>5
    <3>3. /\ OpenOf(rows') = OpenOf(rows) \ {k}
          /\ LossOf(rows') = LossOf(rows) + leg[c].closing
      <4>1. rows \in Seq(Row)
        BY <1>7
      <4>2. ASSUME NEW rt, rt = [i \in DOMAIN rows |->
                        IF i = k THEN [status |-> "CLOSED", pnl |-> leg[c].closing] ELSE rows[i]]
            PROVE  /\ OpenOf(rt) = OpenOf(rows) \ {k}
                   /\ LossOf(rt) = LossOf(rows) + leg[c].closing
        BY <3>1, <4>1, <4>2, LossOfClosed
      <4> QED BY <3>2, <4>2
    <3>4. (abandoned \cup {k}) \ {k} = abandoned
      BY <1>7, <2>4 DEF Newest
    <3> QED BY <1>5, <2>4, <3>3, <3>4 DEF Newest
  <2> QED BY <1>5, <1>9, <2>1, <2>2, <2>3, <2>6 DEF Stage, RowOf
<1>17. CASE ReadPosition(c)
  <2>1. /\ pc[c] = "persist" /\ pc'[c] = "write" /\ leg'[c].n = qty
        /\ UNCHANGED <<qty, openId, rows, saved, realized>>
    BY <1>17, <1>7 DEF ReadPosition, Goto, Legs
  <2> QED BY <1>5, <1>6, <1>9, <2>1 DEF Stage, RowOf, OneRow, Newest
<1>18. CASE WritePosition(c)
  <2>1. /\ pc[c] = "write" /\ pc'[c] = "idle" /\ saved' = leg[c].n
        /\ UNCHANGED <<qty, openId, rows, realized>>
    BY <1>18, <1>7 DEF WritePosition, Goto, Fails
  <2> QED BY <1>5, <1>6, <1>9, <2>1 DEF Stage, RowOf, OneRow, Newest
<1> QED BY <1>11, <1>12, <1>13, <1>14, <1>15, <1>16, <1>17, <1>18 DEF ApplyFill

LEMMA InStepStep ==
  ASSUME JournalInv, Types', [Next]_vars
  PROVE  InStep'
<1> SUFFICES ASSUME mode' = "PAPER", ~torn'
             PROVE  /\ (\A c \in Callers : pc'[c] = "idle") => RowOf(saved)' /\ (up' => saved' = qty')
                    /\ (\A c \in Callers : pc'[c] # "close") => realized' = Meter'
                    /\ \A c \in Callers : Stage(c)'
  BY DEF InStep
<1>1. mode = "PAPER"
  BY DEF Next, ApplyFill, Submit, Filled, Unfilled, InsertRow, RememberRow, CloseRow,
     ReadPosition, WritePosition, Crash, Boot, vars
<1>2. CASE \E c \in Callers : ApplyFill(c)
  <2>1. PICK c \in Callers : ApplyFill(c)
    BY <1>2
  <2>2. /\ \A d \in Callers \ {c} : pc'[d] = "idle"
        /\ Stage(c)'
        /\ pc'[c] # "close" => realized' = Meter'
        /\ pc'[c] = "idle" => RowOf(saved)' /\ saved' = qty'
    BY <1>1, <2>1, StageStep
  <2>3. ASSUME NEW d \in Callers \ {c}  PROVE Stage(d)'
    BY <2>2, <2>3 DEF Stage
  <2> QED BY <2>2, <2>3
<1>3. CASE Crash
  <2>1. /\ ~torn /\ \A c \in Callers : pc[c] = "idle" /\ pc'[c] = "idle"
        /\ up /\ ~up' /\ openId' = 0 /\ UNCHANGED <<rows, saved, realized>>
    BY <1>3 DEF Crash, JournalInv, Types, TypeOK
  <2>2. RowOf(saved) /\ realized = Meter
    BY <1>1, <2>1 DEF JournalInv, InStep
  <2>3. OpenRows' = OpenRows /\ Meter' = Meter /\ abandoned' = abandoned
    BY <1>3, <2>1, MeterNow, MeterThen DEF Crash, OpenRows, JournalInv
  <2> QED BY <2>1, <2>2, <2>3 DEF Stage, RowOf, OneRow, Newest
<1>4. CASE Boot
  <2>1. /\ ~torn /\ ~up /\ UNCHANGED <<openId, rows, pc, leg, realized>>
        /\ \/ qty' = saved /\ UNCHANGED <<saved, abandoned>>
           \/ qty' = 0 /\ saved' = 0 /\ abandoned' = OpenRows
    BY <1>1, <1>4 DEF Boot, Restores, ClearsStale, StartsEmpty, AdoptsBroker, Fails
  <2>2. \A c \in Callers : pc[c] = "idle"
    BY <2>1 DEF JournalInv, DownIsEmpty
  <2>3. RowOf(saved) /\ realized = Meter
    BY <1>1, <2>1, <2>2 DEF JournalInv, InStep
  <2>4. OpenRows' = OpenRows /\ Meter' = Meter
    BY <2>1, MeterNow, MeterThen DEF OpenRows, JournalInv
  <2>5. openId' = 0
    BY <2>1 DEF JournalInv, DownIsEmpty
  <2>6. RowOf(saved)'
    <3>1. CASE qty' = saved /\ UNCHANGED <<saved, abandoned>>
      BY <2>1, <2>3, <2>4, <3>1 DEF RowOf, OneRow, Newest
    <3>2. CASE qty' = 0 /\ saved' = 0 /\ abandoned' = OpenRows
      BY <2>4, <2>5, <3>2 DEF RowOf
    <3> QED BY <2>1, <3>1, <3>2
  <2> QED BY <2>1, <2>2, <2>3, <2>4, <2>6 DEF Stage
<1>5. CASE UNCHANGED vars
  <2>1. OpenRows' = OpenRows /\ Meter' = Meter
    BY <1>5, MeterNow, MeterThen DEF OpenRows, JournalInv, vars
  <2> QED BY <1>1, <1>5, <2>1 DEF JournalInv, InStep, Stage, RowOf, OneRow, Newest, vars
<1> QED BY <1>2, <1>3, <1>4, <1>5 DEF Next

-----------------------------------------------------------------------------
LEMMA JournalStep ==
  ASSUME JournalInv, [Next]_vars
  PROVE  JournalInv'
<1>1. Types'
  BY TypesStep DEF JournalInv
<1> QED BY <1>1, BoundedStep, OrderStep, InStepStep DEF JournalInv

LEMMA JournalImplies == JournalInv => RowsFollowTrades
<1> SUFFICES ASSUME JournalInv  PROVE RowsFollowTrades
  OBVIOUS
<1>1. TypeParts
  BY TypesInParts DEF JournalInv
<1>2. MeterComplete
  BY DEF MeterComplete, AtRest, JournalInv, InStep
<1>3. MeterNeverOverstates
  <2>1. Meter \in Nat
    BY MeterNow DEF JournalInv
  <2>2. Pending("runner") \in Nat /\ Pending("sweep") \in Nat
    BY <1>1, PendingType DEF Callers
  <2>3. realized \in Nat /\ Meter + Pending("runner") + Pending("sweep") <= realized
    BY <1>1 DEF TypeParts, JournalInv, Bounded
  <2> QED BY <2>1, <2>2, <2>3 DEF MeterNeverOverstates
<1>4. OpenRowIsPosition
  <2> SUFFICES ASSUME AtRest, ~torn, mode = "PAPER"
               PROVE  /\ abandoned \subseteq OpenRows
                      /\ Cardinality(OpenRows \ abandoned) = IF qty = 0 THEN 0 ELSE 1
    BY DEF OpenRowIsPosition
  <2>1. RowOf(qty)
    BY DEF AtRest, JournalInv, InStep
  <2>2. CASE qty = 0
    <3>1. OpenRows = abandoned /\ OpenRows \ abandoned = {}
      BY <2>1, <2>2 DEF RowOf
    <3> QED BY <2>2, <3>1, FS_EmptySet
  <2>3. CASE qty # 0
    <3>1. PICK k \in DOMAIN rows : Newest(k)
      BY <2>1, <2>3 DEF RowOf, OneRow
    <3>2. k \in Nat /\ abandoned \subseteq Nat
      BY <1>1 DEF TypeParts
    <3>3. abandoned \subseteq OpenRows /\ OpenRows \ abandoned = {k}
      BY <3>1, <3>2 DEF Newest
    <3> QED BY <2>3, <3>3, FS_Singleton
  <2> QED BY <2>2, <2>3
<1> QED BY <1>2, <1>3, <1>4 DEF RowsFollowTrades, JournalInv, Types

(* The trades table knows every loss of an exit that was not torn, none    *)
(* twice whatever fails or overlaps, and in PAPER mode exactly the open    *)
(* position besides the rows that a boot has abandoned: apply_fill,        *)
(* log_trade_entry, log_trade_exit and a restart between them, for every   *)
(* quantity, any number of rows and of faults.                             *)
THEOREM RowsAlwaysFollowTrades == Spec => []RowsFollowTrades
<1>1. Spec => []JournalInv
  BY JournalInit, JournalStep, PTL DEF Spec
<1> QED BY <1>1, JournalImplies, PTL

(* log_trade_exit writes an OPEN row only: no step of either caller, no    *)
(* crash and no restart changes a row that is CLOSED.                      *)
THEOREM ClosedRowsAlwaysStay == Spec => ClosedRowsStay
<1>1. ASSUME TypeParts, [Next]_vars
      PROVE  \A i \in DOMAIN rows : rows[i].status = "CLOSED" => rows'[i] = rows[i]
  <2>1. CASE \E c \in Callers : CloseRow(c)
    BY <1>1, <2>1, CloseRowCloses DEF OpenOf
  <2>2. CASE \E c \in Callers : InsertRow(c)
    <3>1. rows' = rows \/ rows' = Append(rows, [status |-> "OPEN", pnl |-> 0])
      BY <2>2 DEF InsertRow
    <3>2. rows \in Seq(Row)
      BY <1>1 DEF TypeParts
    <3> QED BY <3>1, <3>2
  <2>3. CASE ~ \E c \in Callers : CloseRow(c) \/ InsertRow(c)
    <3>1. rows' = rows
      BY <1>1, <2>3 DEF Next, ApplyFill, Submit, Filled, Unfilled, RememberRow,
         ReadPosition, WritePosition, Crash, Boot, vars
    <3> QED BY <3>1
  <2> QED BY <2>1, <2>2, <2>3
<1>2. Init => TypeParts
  BY JournalInit, TypesInParts DEF JournalInv
<1>3. TypeParts /\ [Next]_vars => TypeParts'
  BY PartsStep
<1>4. TypeParts /\ [Next]_vars
      => [\A i \in DOMAIN rows : rows[i].status = "CLOSED" => rows'[i] = rows[i]]_vars
  BY <1>1
<1> QED BY <1>2, <1>3, <1>4, PTL DEF Spec, ClosedRowsStay
=============================================================================
