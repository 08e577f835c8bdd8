---------------------------- MODULE ResearchProofs ----------------------------
(***************************************************************************)
(* Theorems of Research, for every value of its constants: the two         *)
(* intraday replays, the cycle loader, the strategy backtest, the router,  *)
(* the two condor runs, the restated edge and the vol column beside the    *)
(* index's bars.  Committed risk, the trades' net, what the legs owe and a *)
(* window's spread are folds; the first part gives sums the facts a step   *)
(* needs, each from a smallest counterexample.                             *)
(***************************************************************************)
EXTENDS Research, FiniteSetTheorems, SequenceTheorems, TLAPS

-----------------------------------------------------------------------------
LEMMA CountTo == ASSUME NEW n \in Nat  PROVE IsFiniteSet(1 .. n) /\ Cardinality(1 .. n) = n
BY FS_Interval

LEMMA PlacesOf ==
  ASSUME NEW S, NEW s \in Seq(S)
  PROVE  /\ DOMAIN s = 1 .. Len(s) /\ Len(s) \in Nat
         /\ IsFiniteSet(DOMAIN s) /\ Cardinality(DOMAIN s) = Len(s)
BY CountTo

LEMMA Within ==
  ASSUME NEW n \in Nat, NEW S \in SUBSET (0 .. n)
  PROVE  IsFiniteSet(S) /\ \A x \in S : x \in Int
<1>1. IsFiniteSet(0 .. n)
  BY FS_Interval
<1>2. IsFiniteSet(S)
  BY <1>1, FS_Subset
<1> QED BY <1>2

LEMMA PlacesFinite ==
  ASSUME NEW n \in Nat, NEW S \in SUBSET (1 .. n)
  PROVE  IsFiniteSet(S) /\ \A i \in S : i \in Int
<1>1. IsFiniteSet(S)
  BY CountTo, FS_Subset
<1> QED BY <1>1

(* A family of subsets of a finite set has a smallest member. *)
LEMMA SmallestSet ==
  ASSUME NEW S, IsFiniteSet(S), NEW F \in SUBSET SUBSET S, F # {}
  PROVE  \E s \in F : \A r \in F : r \subseteq s => r = s
<1>1. IsWellFoundedOn(StrictSubsetOrdering(S), SUBSET S)
  BY FS_StrictSubsetOrderingWellFounded, FS_FiniteSubsetsOfFinite
<1>2. PICK s \in F : \A r \in F : <<r, s>> \notin StrictSubsetOrdering(S)
  BY <1>1, WFMin
<1>3. ASSUME NEW r \in F, r \subseteq s  PROVE r = s
  BY <1>2, <1>3 DEF StrictSubsetOrdering
<1> QED BY <1>3

(* The element that a fold over s takes first. *)
Pick(s) == CHOOSE x \in s : TRUE

(* g adds w up over every subset of S, as the community modules fold. *)
IsSum(g, w, S) ==
  g = [s \in SUBSET S |-> IF s = {} THEN 0 ELSE w[Pick(s)] + g[s \ {Pick(s)}]]

SumFn(w, S) == CHOOSE g : IsSum(g, w, S)

(* w[x] added over the elements x of a finite set. *)
Sum(w, S) == SumFn(w, S)[S]

LEMMA Picks == ASSUME NEW s, s # {}  PROVE Pick(s) \in s
BY DEF Pick

LEMMA SumUnfolds ==
  ASSUME NEW g, NEW w, NEW S, IsSum(g, w, S), NEW s \in SUBSET S
  PROVE  g[s] = (IF s = {} THEN 0 ELSE w[Pick(s)] + g[s \ {Pick(s)}])
BY DEF IsSum

(* Two such functions agree wherever their summands do. *)
LEMMA SumsAgree ==
  ASSUME NEW S, NEW R, IsFiniteSet(S), NEW g, NEW h, NEW w, NEW v,
         IsSum(g, w, S), IsSum(h, v, R),
         NEW s \in SUBSET (S \cap R), \A x \in s : w[x] = v[x]
  PROVE  g[s] = h[s]
<1> DEFINE Bad == {r \in SUBSET s : g[r] # h[r]}
<1> SUFFICES ASSUME Bad # {}  PROVE FALSE
  OBVIOUS
<1>1. PICK r \in Bad : \A q \in Bad : q \subseteq r => q = r
  <2>1. IsFiniteSet(s)
    BY FS_Subset
  <2>2. Bad \in SUBSET SUBSET s
    OBVIOUS
  <2> HIDE DEF Bad
  <2> QED BY <2>1, <2>2, SmallestSet
<1> r \in SUBSET s /\ r \in SUBSET S /\ r \in SUBSET R
  BY <1>1
<1>2. g[r] = (IF r = {} THEN 0 ELSE w[Pick(r)] + g[r \ {Pick(r)}])
  BY SumUnfolds
<1>3. h[r] = (IF r = {} THEN 0 ELSE v[Pick(r)] + h[r \ {Pick(r)}])
  BY SumUnfolds
<1>4. r # {}
  BY <1>2, <1>3
<1>5. Pick(r) \in r
  BY <1>4, Picks
<1>6. g[r \ {Pick(r)}] = h[r \ {Pick(r)}]
  BY <1>1, <1>5
<1> QED BY <1>2, <1>3, <1>5, <1>6

(* A sum over a finite set exists. *)
LEMMA SumExists ==
  ASSUME NEW S, IsFiniteSet(S), NEW w
  PROVE  \E g : IsSum(g, w, S)
<1> DEFINE Bad == {r \in SUBSET S : ~ \E g : IsSum(g, w, r)}
<1> SUFFICES ASSUME Bad # {}  PROVE FALSE
  OBVIOUS
<1>1. PICK s \in Bad : \A q \in Bad : q \subseteq s => q = s
  <2>1. Bad \in SUBSET SUBSET S
    OBVIOUS
  <2> HIDE DEF Bad
  <2> QED BY <2>1, SmallestSet
<1> DEFINE h(q) == SumFn(w, q)[q]
           k(q) == IF q = {} THEN 0 ELSE w[Pick(q)] + h(q \ {Pick(q)})
           g == [q \in SUBSET s |-> k(q)]
<1>2. ASSUME NEW q \in SUBSET s, q # s  PROVE h(q) = k(q)
  <2>1. IsSum(SumFn(w, q), w, q)
    BY <1>1, <1>2 DEF SumFn
  <2>2. h(q) = IF q = {} THEN 0 ELSE w[Pick(q)] + SumFn(w, q)[q \ {Pick(q)}]
    BY <2>1, SumUnfolds
  <2>3. CASE q = {}
    BY <2>2, <2>3
  <2>4. CASE q # {}
    <3> DEFINE p == q \ {Pick(q)}
    <3>1. p \in SUBSET q /\ p \in SUBSET s /\ p # s
      BY <2>4, Picks
    <3>2. IsSum(SumFn(w, p), w, p)
      BY <1>1, <3>1 DEF SumFn
    <3>3. IsFiniteSet(q)
      BY FS_Subset
    <3>4. SumFn(w, q)[p] = SumFn(w, p)[p]
      BY <2>1, <3>1, <3>2, <3>3, SumsAgree
    <3> QED BY <2>2, <2>4, <3>4
  <2> QED BY <2>3, <2>4
<1>3. ASSUME NEW q \in SUBSET s
      PROVE  g[q] = IF q = {} THEN 0 ELSE w[Pick(q)] + g[q \ {Pick(q)}]
  <2>1. CASE q = {}
    BY <2>1
  <2>2. CASE q # {}
      BY <1>2, <2>2, Picks
  <2> QED BY <2>1, <2>2
<1>4. IsSum(g, w, s)
  <2> HIDE DEF k
  <2> QED BY <1>3 DEF IsSum
<1> QED BY <1>1, <1>4

LEMMA SumIs ==
  ASSUME NEW S, IsFiniteSet(S), NEW w
  PROVE  IsSum(SumFn(w, S), w, S)
BY SumExists DEF SumFn

LEMMA SumSame ==
  ASSUME NEW S, IsFiniteSet(S), NEW w, NEW v, \A x \in S : w[x] = v[x]
  PROVE  Sum(w, S) = Sum(v, S)
BY SumIs, SumsAgree DEF Sum

LEMMA SumPicked ==
  ASSUME NEW S, IsFiniteSet(S), NEW w, S # {}
  PROVE  Sum(w, S) = w[Pick(S)] + Sum(w, S \ {Pick(S)})
<1> DEFINE f == SumFn(w, S)
           R == S \ {Pick(S)}
<1>1. IsSum(f, w, S)
  BY SumIs
<1>2. f[S] = w[Pick(S)] + f[R]
  BY <1>1, SumUnfolds
<1>3. IsFiniteSet(R)
  BY FS_Subset
<1>4. IsSum(SumFn(w, R), w, R)
  BY <1>3, SumIs
<1>5. f[R] = Sum(w, R)
  <2>1. R \in SUBSET (S \cap R)
    OBVIOUS
  <2>2. f[R] = SumFn(w, R)[R]
    <3> HIDE DEF f, R
    <3> QED BY <1>1, <1>4, <2>1, SumsAgree
  <2> QED BY <2>2 DEF Sum
<1> QED BY <1>2, <1>5 DEF Sum

LEMMA SumEmpty == ASSUME NEW w PROVE Sum(w, {}) = 0
<1> DEFINE f == SumFn(w, {})
<1>1. IsSum(f, w, {})
  BY SumIs, FS_EmptySet
<1> QED BY <1>1, SumUnfolds DEF Sum

LEMMA SumNat ==
  ASSUME NEW S, IsFiniteSet(S), NEW w, \A x \in S : w[x] \in Nat
  PROVE  Sum(w, S) \in Nat
<1> DEFINE Bad == {r \in SUBSET S : Sum(w, r) \notin Nat}
<1> SUFFICES ASSUME Bad # {}  PROVE FALSE
  OBVIOUS
<1>1. PICK s \in Bad : \A q \in Bad : q \subseteq s => q = s
  <2>1. Bad \in SUBSET SUBSET S
    OBVIOUS
  <2> HIDE DEF Bad
  <2> QED BY <2>1, SmallestSet
<1>2. s # {}
  <2>1. Sum(w, s) \notin Nat
    BY <1>1
  <2> QED BY <2>1, SumEmpty
<1>3. IsFiniteSet(s)
  BY FS_Subset
<1>4. Sum(w, s) = w[Pick(s)] + Sum(w, s \ {Pick(s)})
  BY <1>2, <1>3, SumPicked
<1>5. Pick(s) \in s
  BY <1>2, Picks
<1>6. Sum(w, s \ {Pick(s)}) \in Nat
  BY <1>1, <1>5
<1> QED BY <1>4, <1>5, <1>6

LEMMA SumInt ==
  ASSUME NEW S, IsFiniteSet(S), NEW w, \A x \in S : w[x] \in Int
  PROVE  Sum(w, S) \in Int
<1> DEFINE Bad == {r \in SUBSET S : Sum(w, r) \notin Int}
<1> SUFFICES ASSUME Bad # {}  PROVE FALSE
  OBVIOUS
<1>1. PICK s \in Bad : \A q \in Bad : q \subseteq s => q = s
  <2>1. Bad \in SUBSET SUBSET S
    OBVIOUS
  <2> HIDE DEF Bad
  <2> QED BY <2>1, SmallestSet
<1>2. s # {}
  <2>1. Sum(w, s) \notin Int
    BY <1>1
  <2> QED BY <2>1, SumEmpty
<1>3. IsFiniteSet(s)
  BY FS_Subset
<1>4. Sum(w, s) = w[Pick(s)] + Sum(w, s \ {Pick(s)})
  BY <1>2, <1>3, SumPicked
<1>5. Pick(s) \in s
  BY <1>2, Picks
<1>6. Sum(w, s \ {Pick(s)}) \in Int
  BY <1>1, <1>5
<1> QED BY <1>4, <1>5, <1>6

(* Any element may be taken out first. *)
LEMMA SumRemove ==
  ASSUME NEW S, IsFiniteSet(S), NEW w, \A x \in S : w[x] \in Int, NEW a \in S
  PROVE  Sum(w, S) = w[a] + Sum(w, S \ {a})
<1> DEFINE Bad == {r \in SUBSET S : \E c \in r : Sum(w, r) # w[c] + Sum(w, r \ {c})}
<1> SUFFICES ASSUME Bad # {}  PROVE FALSE
  OBVIOUS
<1>1. PICK s \in Bad : \A q \in Bad : q \subseteq s => q = s
  <2>1. Bad \in SUBSET SUBSET S
    OBVIOUS
  <2> HIDE DEF Bad
  <2> QED BY <2>1, SmallestSet
<1>2. PICK c \in s : Sum(w, s) # w[c] + Sum(w, s \ {c})
  BY <1>1
<1> DEFINE b == Pick(s)
<1>3. b \in s
  BY <1>2, Picks
<1>4. s \in SUBSET S /\ s \ {c} \in SUBSET S /\ s \ {b} \in SUBSET S
  BY <1>1
<1>5. IsFiniteSet(s)
  BY <1>4, FS_Subset
<1>6. Sum(w, s) = w[b] + Sum(w, s \ {b})
  BY <1>2, <1>5, SumPicked
<1>7. b # c
  BY <1>2, <1>6
<1>8. s \ {b} \notin Bad /\ s \ {c} \notin Bad
  BY <1>1, <1>2, <1>3
<1>9. Sum(w, s \ {b}) = w[c] + Sum(w, (s \ {b}) \ {c})
  BY <1>2, <1>4, <1>7, <1>8
<1>10. Sum(w, s \ {c}) = w[b] + Sum(w, (s \ {c}) \ {b})
  BY <1>3, <1>4, <1>7, <1>8
<1>11. (s \ {b}) \ {c} = (s \ {c}) \ {b}
  OBVIOUS
<1>12. Sum(w, (s \ {c}) \ {b}) \in Int
  BY <1>4, FS_Subset, SumInt
<1>13. w[b] \in Int /\ w[c] \in Int
  BY <1>2, <1>3, <1>4
<1>14. Sum(w, (s \ {b}) \ {c}) = Sum(w, (s \ {c}) \ {b})
  BY <1>11
<1> DEFINE t == Sum(w, (s \ {c}) \ {b})
<1>15. Sum(w, s) = w[b] + (w[c] + t) /\ Sum(w, s \ {c}) = w[b] + t
  BY <1>6, <1>9, <1>10, <1>14
<1>16. t \in Int
  BY <1>12
<1> HIDE DEF b, Bad, t
<1>17. Sum(w, s) = w[c] + Sum(w, s \ {c})
  BY <1>13, <1>15, <1>16
<1> QED BY <1>2, <1>17

(* A changed summand changes the sum by the difference. *)
LEMMA SumChange ==
  ASSUME NEW S, IsFiniteSet(S), NEW w, NEW v, NEW a \in S,
         \A x \in S : w[x] \in Int /\ v[x] \in Int,
         \A x \in S \ {a} : v[x] = w[x]
  PROVE  Sum(v, S) = Sum(w, S) - w[a] + v[a]
<1>1. Sum(w, S) = w[a] + Sum(w, S \ {a}) /\ Sum(v, S) = v[a] + Sum(v, S \ {a})
  BY SumRemove
<1>2. IsFiniteSet(S \ {a})
  BY FS_Subset
<1>3. Sum(v, S \ {a}) = Sum(w, S \ {a})
  BY <1>2, SumSame
<1>4. Sum(w, S \ {a}) \in Int
  BY <1>2, SumInt
<1> QED BY <1>1, <1>3, <1>4

(* A sum may be taken in two parts. *)
LEMMA SumParts ==
  ASSUME NEW S, IsFiniteSet(S), NEW w, \A x \in S : w[x] \in Int, NEW T \in SUBSET S
  PROVE  Sum(w, S) = Sum(w, T) + Sum(w, S \ T)
<1> DEFINE InParts(r) == Sum(w, r \cap T) + Sum(w, r \ T)
           Bad == {r \in SUBSET S : Sum(w, r) # InParts(r)}
<1>1. ASSUME Bad # {}  PROVE FALSE
  <2>1. PICK s \in Bad : \A q \in Bad : q \subseteq s => q = s
    <3>1. Bad \in SUBSET SUBSET S
      OBVIOUS
    <3> HIDE DEF Bad
    <3> QED BY <1>1, <3>1, SmallestSet
  <2>2. s # {}
    <3>1. {} \cap T = {} /\ {} \ T = {}
      OBVIOUS
    <3>2. InParts({}) = 0 /\ Sum(w, {}) = 0
      BY <3>1, SumEmpty
    <3> QED BY <2>1, <3>2
  <2> DEFINE b == Pick(s)
             q == s \ {b}
  <2>3. b \in s /\ b \in S /\ w[b] \in Int
    BY <2>1, <2>2, Picks
  <2>4. /\ IsFiniteSet(s) /\ IsFiniteSet(s \cap T) /\ IsFiniteSet(s \ T)
        /\ IsFiniteSet(q \cap T) /\ IsFiniteSet(q \ T)
    BY <2>1, FS_Subset
  <2>5. Sum(w, s) = w[b] + Sum(w, q)
    BY <2>2, <2>4, SumPicked
  <2>6. Sum(w, q) = InParts(q)
    BY <2>1, <2>3
  <2>7. Sum(w, q \cap T) \in Int /\ Sum(w, q \ T) \in Int
    BY <2>1, <2>4, SumInt
  <2>8. InParts(s) = w[b] + InParts(q)
    <3>1. CASE b \in T
      <4>1. q \cap T = (s \cap T) \ {b} /\ q \ T = s \ T
        BY <3>1
      <4>2. Sum(w, s \cap T) = w[b] + Sum(w, q \cap T)
        BY <2>1, <2>3, <2>4, <3>1, <4>1, SumRemove
      <4>3. Sum(w, s \ T) = Sum(w, q \ T)
        BY <4>1
      <4> HIDE DEF b, q
      <4> QED BY <4>2, <4>3, <2>3, <2>7
    <3>2. CASE b \notin T
      <4>1. q \ T = (s \ T) \ {b} /\ q \cap T = s \cap T
        BY <3>2
      <4>2. Sum(w, s \ T) = w[b] + Sum(w, q \ T)
        BY <2>1, <2>3, <2>4, <3>2, <4>1, SumRemove
      <4>3. Sum(w, s \cap T) = Sum(w, q \cap T)
        BY <4>1
      <4> HIDE DEF b, q
      <4> QED BY <4>2, <4>3, <2>3, <2>7
    <3> QED BY <3>1, <3>2
  <2>9. Sum(w, s) = InParts(s)
    BY <2>5, <2>6, <2>8
  <2> QED BY <2>1, <2>9
<1>2. Sum(w, S) = InParts(S)
  BY <1>1
<1>3. S \cap T = T
  OBVIOUS
<1> QED BY <1>2, <1>3

LEMMA TermWithin ==
  ASSUME NEW S, IsFiniteSet(S), NEW w, \A x \in S : w[x] \in Nat, NEW x \in S
  PROVE  w[x] <= Sum(w, S)
<1>1. \A y \in S : w[y] \in Int
  OBVIOUS
<1>2. Sum(w, S) = w[x] + Sum(w, S \ {x})
  BY <1>1, SumRemove
<1>3. Sum(w, S \ {x}) \in Nat
  BY FS_Subset, SumNat
<1> QED BY <1>2, <1>3

(* A sum of positive terms is positive, one of negative terms negative. *)
LEMMA SumPositive ==
  ASSUME NEW S, IsFiniteSet(S), S # {}, NEW w, \A x \in S : w[x] \in Nat /\ w[x] > 0
  PROVE  Sum(w, S) \in Int /\ Sum(w, S) > 0
<1>1. Pick(S) \in S /\ IsFiniteSet(S \ {Pick(S)})
  BY Picks, FS_Subset
<1>2. Sum(w, S \ {Pick(S)}) \in Nat
  BY <1>1, SumNat
<1> QED BY <1>1, <1>2, SumPicked

(* v is the linear combination of w and u over S. *)
Combines(v, a, w, b, u, c, S) ==
  /\ a \in Int /\ b \in Int /\ c \in Int
  /\ \A x \in S : w[x] \in Int /\ u[x] \in Int /\ v[x] = a * w[x] + b * u[x] + c

LEMMA SumLinear ==
  ASSUME NEW S, IsFiniteSet(S), NEW w, NEW u, NEW v, NEW a, NEW b, NEW c,
         Combines(v, a, w, b, u, c, S)
  PROVE  Sum(v, S) = a * Sum(w, S) + b * Sum(u, S) + c * Cardinality(S)
<1> a \in Int /\ b \in Int /\ c \in Int
  BY DEF Combines
<1> DEFINE Comb(r) == a * Sum(w, r) + b * Sum(u, r) + c * Cardinality(r)
           Bad == {r \in SUBSET S : Sum(v, r) # Comb(r)}
<1> SUFFICES ASSUME Bad # {}  PROVE FALSE
  OBVIOUS
<1>1. PICK s \in Bad : \A q \in Bad : q \subseteq s => q = s
  <2>1. Bad \in SUBSET SUBSET S
    OBVIOUS
  <2> HIDE DEF Bad
  <2> QED BY <2>1, SmallestSet
<1>2. s # {}
  <2>1. Sum(v, {}) = 0 /\ Sum(w, {}) = 0 /\ Sum(u, {}) = 0 /\ Cardinality({}) = 0
    BY SumEmpty, FS_EmptySet
  <2>2. Sum(v, {}) = Comb({})
    BY <2>1
  <2> QED BY <1>1, <2>2
<1> DEFINE d == Pick(s)
           q == s \ {d}
<1>3. IsFiniteSet(s) /\ IsFiniteSet(q) /\ d \in s
  BY <1>2, Picks, FS_Subset
<1>4. Sum(w, s) = w[d] + Sum(w, q) /\ Sum(u, s) = u[d] + Sum(u, q) /\ Sum(v, s) = v[d] + Sum(v, q)
  BY <1>2, <1>3, SumPicked
<1>5. Sum(v, q) = Comb(q)
  BY <1>1, <1>3
<1>6. Sum(w, q) \in Int /\ Sum(u, q) \in Int
  <2> HIDE DEF q
  <2>1. \A x \in q : w[x] \in Int /\ u[x] \in Int
    BY DEF q, Combines
  <2> QED BY <1>3, <2>1, SumInt
<1>7. Cardinality(q) \in Nat /\ Cardinality(s) = Cardinality(q) + 1
    BY <1>3, FS_RemoveElement, FS_CardinalityType
<1>8. w[d] \in Int /\ u[d] \in Int /\ v[d] = a * w[d] + b * u[d] + c
  BY <1>3 DEF Combines
<1>9. \A x, y, X, Y, m \in Int :
        (a * x + b * y + c) + (a * X + b * Y + c * m) = a * (x + X) + b * (y + Y) + c * (m + 1)
  OBVIOUS
<1> HIDE DEF d, q
<1>10. Sum(v, s) = Comb(s)
  BY <1>4, <1>5, <1>6, <1>7, <1>8, <1>9
<1> QED BY <1>1, <1>10

(* A sum of terms none of which is above t. *)
LEMMA SumBelow ==
  ASSUME NEW S, IsFiniteSet(S), NEW w, NEW t \in Int, \A x \in S : w[x] \in Int /\ w[x] <= t
  PROVE  Sum(w, S) \in Int /\ Sum(w, S) <= t * Cardinality(S)
<1> DEFINE v == [x \in S |-> t - w[x]]
<1>1. \A x \in S : v[x] \in Nat /\ v[x] = (-1) * w[x] + 0 * w[x] + t
  OBVIOUS
<1> HIDE DEF v
<1>2. Combines(v, -1, w, 0, w, t, S)
  BY <1>1 DEF Combines
<1>3. Sum(v, S) = (-1) * Sum(w, S) + 0 * Sum(w, S) + t * Cardinality(S)
  BY <1>2, SumLinear
<1>4. Sum(v, S) \in Nat
  BY <1>1, SumNat
<1>5. Sum(w, S) \in Int
  BY SumInt
<1>6. t * Cardinality(S) \in Int
  BY FS_CardinalityType
<1> QED BY <1>3, <1>4, <1>5, <1>6

LEMMA SumAbove ==
  ASSUME NEW S, IsFiniteSet(S), NEW w, NEW t \in Int, \A x \in S : w[x] \in Int /\ t <= w[x]
  PROVE  Sum(w, S) \in Int /\ t * Cardinality(S) <= Sum(w, S)
<1> DEFINE v == [x \in S |-> w[x] - t]
<1>1. \A x \in S : v[x] \in Nat /\ v[x] = 1 * w[x] + 0 * w[x] + (-t)
  OBVIOUS
<1> HIDE DEF v
<1>2. Combines(v, 1, w, 0, w, -t, S)
  BY <1>1 DEF Combines
<1>3. Sum(v, S) = 1 * Sum(w, S) + 0 * Sum(w, S) + (-t) * Cardinality(S)
  BY <1>2, SumLinear
<1>4. Sum(v, S) \in Nat
  BY <1>1, SumNat
<1>5. Sum(w, S) \in Int
  BY SumInt
<1>6. Cardinality(S) \in Nat
  BY FS_CardinalityType
<1>7. \A x, c, y \in Int : x = 1 * y + 0 * y + (-t) * c /\ x >= 0 => t * c <= y
  OBVIOUS
<1> QED BY <1>3, <1>4, <1>5, <1>6, <1>7

LEMMA SumOpposite ==
  ASSUME NEW S, IsFiniteSet(S), NEW w, NEW v,
         \A x \in S : w[x] \in Int /\ v[x] = 0 - w[x]
  PROVE  Sum(v, S) = 0 - Sum(w, S)
<1>1. Combines(v, 0 - 1, w, 0, w, 0, S)
  BY DEF Combines
<1>2. Sum(v, S) = (0 - 1) * Sum(w, S) + 0 * Sum(w, S) + 0 * Cardinality(S)
  BY <1>1, SumLinear
<1> QED BY <1>2, SumInt, FS_CardinalityType

(* The community modules' fold of + is this sum. *)
LEMMA FoldIsSum ==
  ASSUME NEW w
  PROVE  FoldFunction(+, 0, w) = Sum(w, DOMAIN w)
BY DEF FoldFunction, FoldFunctionOnSet, MapThenFoldSet, Sum, SumFn, IsSum, Pick

-----------------------------------------------------------------------------
(* A nonempty finite set of integers has a least element. *)
LEMMA LeastOf ==
  ASSUME NEW S, IsFiniteSet(S), \A x \in S : x \in Int, S # {}
  PROVE  Min(S) \in S /\ \A x \in S : Min(S) <= x
<1> DEFINE Least(s) == \E x \in s : \A y \in s : x <= y
           Bad == {s \in SUBSET S : s # {} /\ ~Least(s)}
<1>1. ASSUME Bad # {}  PROVE FALSE
  <2>1. PICK s \in Bad : \A q \in Bad : q \subseteq s => q = s
    <3>1. Bad \in SUBSET SUBSET S
      OBVIOUS
    <3> HIDE DEF Bad
    <3> QED BY <1>1, <3>1, SmallestSet
  <2>2. PICK x \in s : TRUE
    BY <2>1
  <2>3. s \ {x} \notin Bad
    BY <2>1, <2>2
  <2>4. CASE s = {x}
    BY <2>1, <2>4
  <2>5. CASE s # {x}
    <3>1. Least(s \ {x})
      BY <2>1, <2>2, <2>3, <2>5
    <3>2. PICK z \in s \ {x} : \A y \in s \ {x} : z <= y
      BY <3>1
    <3>3. x \in Int /\ z \in Int /\ \A y \in s : y \in Int
      BY <2>1, <2>2, <3>2
    <3>4. CASE x <= z
        BY <2>1, <2>2, <3>2, <3>3, <3>4
    <3>5. CASE z <= x
        BY <2>1, <3>2, <3>3, <3>5
    <3> QED BY <3>3, <3>4, <3>5
  <2> QED BY <2>4, <2>5
<1>2. Least(S)
  BY <1>1
<1> QED BY <1>2 DEF Min

-----------------------------------------------------------------------------
(* The portfolio replay. *)

Sides == {"LONG", "SHORT", "FLAT"}
Lot == [side : Sides, qty : Nat, entry : Nat, stop : Int, target : Int]
Order == [kind : {"none", "ENTER", "EXIT"}, side : Sides, stop : Int, target : Int,
          at : Nat, kill : BOOLEAN]
Earnings == [day : Int, week : Int, total : Int]

ReplayTyped ==
  /\ solo \in BOOLEAN /\ stopped \in BOOLEAN
  /\ session \in Nat /\ minute \in Nat /\ turn \in SUBSET Listed
  /\ grid \in [Listed -> SUBSET (1 .. Minutes)]
  /\ quotes \in [Listed -> BarSet \cup {NoBar}]
  /\ marks \in [Listed -> Nat] /\ traded \in [Listed -> Nat]
  /\ sessions \in [Listed -> Seq(Nat)]
  /\ lots \in [Listed -> Lot] /\ waiting \in [Listed -> Order]
  /\ entries \in [Listed -> Nat] /\ earned \in Earnings
  /\ crest \in Nat /\ excess \in Nat /\ decided \in Nat

(* Events happen within a session, at bars that exist. *)
ReplayInSession ==
  /\ turn # {} => minute \in 1 .. Minutes /\ \A s \in turn : quotes[s] # NoBar
  /\ session = 0 => minute = 0 /\ ~stopped
  /\ solo => ~stopped

(* Whoever waits to enter holds nothing and, in the book's replay, has an  *)
(* entry left.                                                             *)
EntriesWaitFlat ==
  \A s \in Listed :
    /\ waiting[s].kind = "none" => waiting[s] = NoOrder
    /\ waiting[s].kind = "ENTER" => lots[s] = Flat /\ (solo \/ entries[s] < MaxOrders)

(* A decision of the strategy was made before this minute, or in it, and   *)
(* then the security has had its event.                                    *)
DecidedBefore ==
  \A s \in Listed :
    minute > 0 /\ waiting[s].kind # "none" /\ ~waiting[s].kill =>
      waiting[s].at < minute \/ (waiting[s].at = minute /\ turn # {} /\ s \notin turn)

(* The day's largest budget is at least the one in force. *)
CrestCovers == minute > 0 => DayBudget(earned) <= crest

ReplayInv ==
  /\ ReplayTyped /\ ReplayInSession /\ EntriesWaitFlat /\ DecidedBefore /\ CrestCovers
  /\ PortfolioSound

(* The arithmetic stays in the naturals. *)
LEMMA AccountNat ==
  ASSUME NEW e \in Earnings, solo \in BOOLEAN
  PROVE  AccountOf(e) \in Nat /\ DayBudget(e) \in Nat
BY ReplayAssumption DEF Earnings, AccountOf, Larger, DayBudget

LEMMA RiskNat ==
  ASSUME NEW p \in Lot
  PROVE  RiskOf(p) \in Nat
BY ReplayAssumption DEF Lot, Larger, Gap, RiskOf, PositionRisk

LEMMA FlatIsLot == Flat \in Lot /\ RiskOf(Flat) = 0
BY ReplayAssumption DEF Flat, Lot, Sides, Larger, Gap, RiskOf, PositionRisk

(* Committed risk as a sum. *)
Risks(h) == [s \in Listed |-> RiskOf(h[s])]

LEMMA CommittedIsSum ==
  ASSUME NEW h
  PROVE  CommittedRisk(h) = Sum(Risks(h), Listed)
<1>1. DOMAIN Risks(h) = Listed
  BY DEF Risks
<1>2. CommittedRisk(h) = FoldFunction(+, 0, Risks(h))
  BY DEF CommittedRisk, Risks
<1> QED BY <1>1, <1>2, FoldIsSum

LEMMA CommittedNat ==
  ASSUME NEW h \in [Listed -> Lot]
  PROVE  CommittedRisk(h) \in Nat
BY ReplayAssumption, RiskNat, CommittedIsSum, SumNat DEF Risks

LEMMA CommittedChange ==
  ASSUME NEW h \in [Listed -> Lot], NEW k \in [Listed -> Lot], NEW s \in Listed,
         \A n \in Listed \ {s} : k[n] = h[n]
  PROVE  CommittedRisk(k) = CommittedRisk(h) - RiskOf(h[s]) + RiskOf(k[s])
<1>1. IsFiniteSet(Listed)
  BY ReplayAssumption
<1>2. \A x \in Listed : Risks(h)[x] \in Int /\ Risks(k)[x] \in Int
  BY RiskNat DEF Risks
<1>3. \A x \in Listed \ {s} : Risks(k)[x] = Risks(h)[x]
  BY DEF Risks
<1>4. Sum(Risks(k), Listed) = Sum(Risks(h), Listed) - Risks(h)[s] + Risks(k)[s]
  BY <1>1, <1>2, <1>3, SumChange
<1> QED BY <1>4, CommittedIsSum DEF Risks

LEMMA NothingCommitted ==
  CommittedRisk([s \in Listed |-> Flat]) = 0
<1> DEFINE w == Risks([s \in Listed |-> Flat])
<1>1. IsFiniteSet(Listed) /\ \A x \in Listed : w[x] = 0
  BY ReplayAssumption, FlatIsLot DEF Risks
<1> HIDE DEF w
<1>2. \A x \in Listed : w[x] \in Int /\ w[x] = 0 - w[x]
  BY <1>1
<1>3. Sum(w, Listed) = 0 - Sum(w, Listed)
  BY <1>1, <1>2, SumOpposite
<1>4. Sum(w, Listed) \in Int
  BY <1>1, <1>2, SumInt
<1>5. Sum(w, Listed) = 0
  BY <1>3, <1>4
<1> QED BY <1>5, CommittedIsSum DEF w

LEMMA SizeNat ==
  ASSUME ReplayTyped, NEW s \in Listed, NEW entry \in Nat \ {0}, NEW stop \in Int
  PROVE  SizePosition(s, entry, stop) \in Nat
<1> DEFINE sum == FoldSeq(+, 0, sessions[s])
           parts == Larger(1, Len(sessions[s]))
           adv == sum \div parts
           wide == Larger(Gap(entry, stop), MinStop)
           risked == (Account \div TradePart) \div wide
           sized == Smaller(risked, (Account \div NotionalPart) \div entry)
<1>1. {TradePart, NotionalPart, AdvPart, MinStop} \subseteq Nat \ {0}
  BY ReplayAssumption
<1>2. Account \in Nat
  BY AccountNat DEF Account, ReplayTyped
<1>3. wide \in Nat \ {0}
  BY <1>1 DEF Larger, Gap
<1>4. sized \in Nat
  <2>1. Account \div TradePart \in Nat /\ Account \div NotionalPart \in Nat
    BY <1>1, <1>2
  <2> HIDE DEF wide
  <2>2. risked \in Nat /\ (Account \div NotionalPart) \div entry \in Nat
    BY <2>1, <1>3
  <2> QED BY <2>2 DEF Smaller
<1>5. sessions[s] \in Seq(Nat)
  BY DEF ReplayTyped
<1>6. sum \in Nat
  <2>1. sum = Sum(sessions[s], DOMAIN sessions[s])
    BY FoldIsSum DEF FoldSeq
  <2>2. IsFiniteSet(DOMAIN sessions[s]) /\ \A x \in DOMAIN sessions[s] : sessions[s][x] \in Nat
    BY <1>5, PlacesOf
  <2> QED BY <2>1, <2>2, SumNat
<1>7. parts \in Nat \ {0}
  BY <1>5 DEF Larger
<1>8. adv \div AdvPart \in Nat
  <2> HIDE DEF sum, parts
  <2>1. adv \in Nat
    BY <1>6, <1>7
  <2> HIDE DEF adv
  <2> QED BY <2>1, <1>1
<1>9. SizePosition(s, entry, stop) = IF ~solo /\ sum > 0
                                     THEN Smaller(sized, adv \div AdvPart) ELSE sized
  BY DEF SizePosition
<1> HIDE DEF sized, adv
<1> QED BY <1>4, <1>8, <1>9 DEF Smaller

(* The legs of an event: what the fill at the open leaves ... *)
FillFacts(s, f) ==
  /\ f \in [p : Lot, net : Int, done : BOOLEAN, in : {0, 1}]
  /\ f.in = 0 => f.p \in {lots[s], Flat}
  /\ f.in = 1 =>
       /\ waiting[s].kind = "ENTER" /\ CanEnter
       /\ ~solo => CommittedRisk(lots) + Larger(0, -earned.day) + RiskOf(f.p) <= DayBudget(earned)
  /\ f.done => waiting[s].kind = "EXIT"
  /\ waiting[s].kind = "EXIT" => f.p = Flat

LEMMA NetInt ==
  ASSUME NEW p \in Lot, NEW price \in Int
  PROVE  Net(p, price) \in Int
<1>1. p.qty \in Int /\ p.entry \in Int /\ Fee \in Int /\ SlipTick \in Int
  BY ReplayAssumption DEF Lot
<1>2. Sign(p.side) \in Int /\ Sign(Opposite(p.side)) \in Int
  BY DEF Sign
<1> DEFINE gain == Slip(price, Opposite(p.side)) - p.entry
<1>3. gain \in Int
  BY <1>1, <1>2 DEF Slip
<1> HIDE DEF gain
<1>4. gain * p.qty \in Int
  BY <1>1, <1>3
<1>5. gain * p.qty * Sign(p.side) \in Int
  BY <1>2, <1>4
<1>6. Net(p, price) = gain * p.qty * Sign(p.side) - Fee
  BY DEF Net, gain
<1> QED BY <1>1, <1>5, <1>6

LEMMA BarPrices ==
  ASSUME ReplayTyped, NEW s \in Listed
  PROVE  /\ quotes[s].o \in Nat /\ quotes[s].h \in Nat /\ quotes[s].l \in Nat
         /\ quotes[s].c \in Nat /\ quotes[s].v \in Nat
<1> DEFINE prices == [o : Nat, h : Nat, l : Nat, c : Nat, v : Nat]
<1>1. BarSet \subseteq [o : Nat, h : Nat, l : Nat, c : Nat \ {0}, v : Nat]
  BY ReplayAssumption
<1>2. BarSet \subseteq prices
  BY <1>1
<1>3. NoBar \in prices
  BY DEF NoBar
<1>4. quotes[s] \in BarSet \cup {NoBar}
  BY DEF ReplayTyped
<1>5. quotes[s] \in prices
  BY <1>2, <1>3, <1>4
<1> QED BY <1>5

LEMMA EnterFacts ==
  ASSUME ReplayTyped, NEW s \in Listed,
         NEW d, d = waiting[s], NEW b, b = quotes[s],
         EnterQty(s, d, b) # 0
  PROVE  /\ EnterQty(s, d, b) \in Nat /\ Slip(b.o, d.side) \in Nat \ {0}
         /\ ~solo => WithinBudget(PositionRisk(Slip(b.o, d.side), d.stop, EnterQty(s, d, b)),
                                  lots, earned)
<1> DEFINE px == Slip(b.o, d.side)
           q == IF solo THEN SizePosition(s, px, d.stop)
                ELSE Smaller(SizePosition(s, px, d.stop), b.v)
           lacking == px <= 0 \/ (~solo /\ ~WithinBudget(PositionRisk(px, d.stop, q), lots, earned))
<1>1. EnterQty(s, d, b) = IF lacking THEN 0 ELSE Larger(0, q)
  BY DEF EnterQty
<1>2. ~lacking /\ EnterQty(s, d, b) = Larger(0, q)
  BY <1>1
<1>3. d.stop \in Int /\ b.o \in Nat /\ b.v \in Nat
  BY BarPrices DEF ReplayTyped, Order
<1>4. px \in Int
    BY <1>3, ReplayAssumption DEF Sign, Slip
<1>5. px \in Nat \ {0}
  BY <1>2, <1>4
<1>6. q \in Nat
  <2>1. SizePosition(s, px, d.stop) \in Nat
    BY <1>3, <1>5, SizeNat
  <2> HIDE DEF px
  <2> QED BY <1>3, <2>1 DEF Smaller
<1>7. EnterQty(s, d, b) = q
  <2> HIDE DEF q
  <2> QED BY <1>2, <1>6 DEF Larger
<1> QED BY <1>2, <1>5, <1>6, <1>7

LEMMA FillsAtOpen ==
  ASSUME ReplayTyped, NEW s \in Listed
  PROVE  FillFacts(s, FilledAtOpen(s))
<1> DEFINE d == waiting[s]
           b == quotes[s]
           px == Slip(b.o, d.side)
           q == IF d.kind = "ENTER" /\ CanEnter THEN EnterQty(s, d, b) ELSE 0
           held == [side |-> d.side, qty |-> q, entry |-> px, stop |-> d.stop,
                    target |-> d.target]
           f == FilledAtOpen(s)
<1>1. lots[s] \in Lot /\ d \in Order /\ b.o \in Nat
  BY BarPrices DEF ReplayTyped
<1>2. f = IF q > 0 THEN [p |-> held, net |-> 0, done |-> FALSE, in |-> 1]
          ELSE IF d.kind = "EXIT" /\ lots[s] # Flat
          THEN [p |-> Flat, net |-> Net(lots[s], b.o), done |-> TRUE, in |-> 0]
          ELSE [p |-> lots[s], net |-> 0, done |-> FALSE, in |-> 0]
  BY DEF FilledAtOpen
<1>3. CASE q > 0
  <2>1. d.kind = "ENTER" /\ CanEnter /\ q = EnterQty(s, d, b) /\ q # 0
    BY <1>3
  <2>2. /\ q \in Nat /\ px \in Nat \ {0}
        /\ ~solo => WithinBudget(PositionRisk(px, d.stop, q), lots, earned)
    BY <2>1, EnterFacts
  <2>3. held \in Lot
    <3> HIDE DEF q, px
    <3> QED BY <1>1, <2>2 DEF Lot, Order
  <2>4. RiskOf(held) = PositionRisk(px, d.stop, q)
    BY DEF RiskOf
  <2> HIDE DEF q, px
  <2> QED BY <1>2, <1>3, <2>1, <2>2, <2>3, <2>4 DEF FillFacts, WithinBudget
<1>4. CASE ~(q > 0) /\ d.kind = "EXIT" /\ lots[s] # Flat
  <2>1. Net(lots[s], b.o) \in Int
    BY <1>1, NetInt
  <2> HIDE DEF q
  <2> QED BY <1>2, <1>4, <2>1, FlatIsLot DEF FillFacts
<1>5. CASE ~(q > 0) /\ ~(d.kind = "EXIT" /\ lots[s] # Flat)
  <2> HIDE DEF q
  <2> QED BY <1>1, <1>2, <1>5 DEF FillFacts
<1> QED BY <1>3, <1>4, <1>5

(* ... and what the range of the bar leaves of that. *)
LEMMA RangeLeaves ==
  ASSUME ReplayTyped, NEW s \in Listed, NEW f, FillFacts(s, f)
  PROVE  LET r == AfterRange(s, f)
         IN  /\ r.p \in {f.p, Flat} /\ r.p \in Lot /\ r.net \in Int /\ r.in = f.in
             /\ r.done \in BOOLEAN /\ (r.done => r.p = Flat)
<1> DEFINE px == IF f.p = Flat THEN 0 ELSE IntrabarExit(f.p, quotes[s])
<1>1. px \in Int
    BY BarPrices DEF FillFacts, Lot, IntrabarExit, Smaller, Larger
<1> HIDE DEF px
<1>2. Net(f.p, px) \in Int
  BY <1>1, NetInt DEF FillFacts
<1>3. AfterRange(s, f) = IF px = 0 THEN [f EXCEPT !.done = FALSE]
                         ELSE [p |-> Flat, net |-> f.net + Net(f.p, px), done |-> TRUE, in |-> f.in]
  BY DEF AfterRange, px
<1>4. CASE px = 0
  BY <1>3, <1>4 DEF FillFacts
<1>5. CASE px # 0
  BY <1>2, <1>3, <1>5, FlatIsLot DEF FillFacts
<1> QED BY <1>4, <1>5

(* An event, taken apart: the fill f, what the range leaves of it, r, the  *)
(* book h after both, and whether the kill switch fires.                   *)
EventParts(s, d, f, r, h, fires) ==
  /\ s \in turn /\ turn' = turn \ {s} /\ d \in Decisions
  /\ FillFacts(s, f)
  /\ r \in [p : Lot, net : Int, done : BOOLEAN, in : {0, 1}]
  /\ r.p \in {f.p, Flat} /\ r.in = f.in /\ (r.done => r.p = Flat)
  /\ h = [lots EXCEPT ![s] = r.p]
  /\ fires \in BOOLEAN /\ (fires => ~solo /\ ~stopped)
  /\ Decides(s, d, f, r, h, fires)
  /\ IF turn = {s}
     THEN quotes' = [n \in Listed |-> NoBar] /\ minute' = minute + 1
     ELSE UNCHANGED <<quotes, minute>>
  /\ UNCHANGED <<dayVars, marks, traded, sessions>>

LEMMA EventUnfolds ==
  ASSUME ReplayInv, NEW s \in Listed, NEW d \in Decisions, Event(s, d)
  PROVE  \E f, r, h, fires : EventParts(s, d, f, r, h, fires)
<1> DEFINE f == FilledAtOpen(s)
           r == AfterRange(s, f)
           h == [lots EXCEPT ![s] = r.p]
           fires == ~solo /\ ~r.done /\ ~stopped /\ KillFires(h, Added(r.net))
<1>1. ReplayTyped
  BY DEF ReplayInv
<1>2. FillFacts(s, f)
  BY <1>1, FillsAtOpen
<1>3. /\ r \in [p : Lot, net : Int, done : BOOLEAN, in : {0, 1}]
      /\ r.p \in {f.p, Flat} /\ r.in = f.in /\ (r.done => r.p = Flat)
  <2> DEFINE g == f
  <2> HIDE DEF g
  <2>1. f = g
    BY DEF g
  <2>2. FillFacts(s, g)
    BY <1>2, <2>1
  <2> DEFINE x == AfterRange(s, g)
  <2>3. /\ x.p \in {g.p, Flat} /\ x.p \in Lot /\ x.net \in Int /\ x.in = g.in
        /\ x.done \in BOOLEAN /\ (x.done => x.p = Flat)
    BY <1>1, <2>2, RangeLeaves
  <2>4. \/ x = [g EXCEPT !.done = FALSE]
        \/ \E p, net, done, in : x = [p |-> p, net |-> net, done |-> done, in |-> in]
    BY DEF AfterRange
  <2>5. g \in [p : Lot, net : Int, done : BOOLEAN, in : {0, 1}]
    BY <2>2 DEF FillFacts
  <2>6. x \in [p : Lot, net : Int, done : BOOLEAN, in : {0, 1}]
    <3>1. CASE x = [g EXCEPT !.done = FALSE]
      BY <2>5, <3>1
    <3>2. ASSUME NEW p, NEW net, NEW done, NEW in,
                 x = [p |-> p, net |-> net, done |-> done, in |-> in]
          PROVE  x \in [p : Lot, net : Int, done : BOOLEAN, in : {0, 1}]
      <4>1. p \in Lot /\ net \in Int /\ in = g.in /\ done \in BOOLEAN
        <5> HIDE DEF x
        <5> QED BY <2>3, <3>2
      <4>2. in \in {0, 1}
        BY <2>5, <4>1
      <4> QED BY <3>2, <4>1, <4>2
    <3> QED BY <2>4, <3>1, <3>2
  <2> QED BY <2>1, <2>3, <2>6
<1>4. fires \in BOOLEAN /\ (fires => ~solo /\ ~stopped)
  BY <1>1, <1>3 DEF ReplayTyped, KillFires
<1>5. s \in turn
  <2>1. turn # {} /\ s = Min(turn)
    BY DEF Event
  <2>2. turn \in SUBSET Listed
    BY <1>1 DEF ReplayTyped
  <2>3. Listed \in SUBSET Int /\ IsFiniteSet(Listed)
    BY ReplayAssumption
  <2>4. (\A x \in turn : x \in Int) /\ IsFiniteSet(turn)
    BY <2>2, <2>3, FS_Subset
  <2> QED BY <2>1, <2>4, LeastOf
<1>6. /\ turn' = turn \ {s}
      /\ Decides(s, d, f, r, h, fires)
      /\ IF turn = {s}
         THEN quotes' = [n \in Listed |-> NoBar] /\ minute' = minute + 1
         ELSE UNCHANGED <<quotes, minute>>
      /\ UNCHANGED <<dayVars, marks, traded, sessions>>
  BY DEF Event
<1>7. EventParts(s, d, f, r, h, fires)
  <2> HIDE DEF f, r, fires
  <2> QED BY <1>2, <1>3, <1>4, <1>5, <1>6 DEF EventParts
<1> QED BY <1>7

(* What an event makes of the book ... *)
LEMMA BookAfter ==
  ASSUME ReplayInv, NEW s \in Listed, NEW d, NEW f, NEW r, NEW h, NEW fires,
         EventParts(s, d, f, r, h, fires)
  PROVE  /\ h \in [Listed -> Lot] /\ h[s] = r.p /\ h[s] \in {f.p, Flat}
         /\ lots' \in [Listed -> Lot] /\ lots'[s] \in {h[s], Flat}
         /\ \A n \in Listed \ {s} : h[n] = lots[n] /\ lots'[n] = lots[n]
         /\ d.kind # "EXIT" => lots' = h
<1> DEFINE atClose == (solo \/ ~r.done) /\ d.kind = "EXIT" /\ h[s] # Flat /\ LastBar(s)
<1>1. lots \in [Listed -> Lot] /\ r.p \in Lot /\ r.p \in {f.p, Flat}
  BY DEF EventParts, ReplayInv, ReplayTyped
<1>2. h = [lots EXCEPT ![s] = r.p]
  BY DEF EventParts
<1>3. lots' = IF atClose THEN [h EXCEPT ![s] = Flat] ELSE h
  BY DEF EventParts, Decides
<1>4. h \in [Listed -> Lot] /\ h[s] = r.p /\ \A n \in Listed \ {s} : h[n] = lots[n]
  BY <1>1, <1>2
<1>5. d.kind # "EXIT" => ~atClose
  OBVIOUS
<1> HIDE DEF atClose
<1> QED BY <1>1, <1>3, <1>4, <1>5, FlatIsLot

(* ... of what is earned, and of the counters. *)
LEMMA MetersAfter ==
  ASSUME ReplayInv, NEW s \in Listed, NEW d, NEW f, NEW r, NEW h, NEW fires,
         EventParts(s, d, f, r, h, fires)
  PROVE  /\ earned' \in Earnings
         /\ entries' = [entries EXCEPT ![s] = @ + f.in] /\ entries' \in [Listed -> Nat]
         /\ stopped' = (stopped \/ fires)
         /\ crest' = Larger(crest, DayBudget(earned')) /\ crest' \in Nat
         /\ excess' = excess + Larger(0, (earned.day - earned'.day)
                          - (CommittedRisk(lots) + f.in * RiskOf(f.p) - CommittedRisk(lots')))
         /\ excess' \in Nat /\ decided' \in Nat
<1> DEFINE atClose == (solo \/ ~r.done) /\ d.kind = "EXIT" /\ h[s] # Flat /\ LastBar(s)
           more == IF atClose THEN Net(h[s], quotes[s].c) ELSE 0
<1>1. ReplayTyped /\ r.net \in Int /\ f.p \in Lot /\ f.in \in {0, 1}
  BY DEF EventParts, ReplayInv, FillFacts
<1>2. lots \in [Listed -> Lot] /\ lots' \in [Listed -> Lot] /\ h[s] \in Lot
  BY <1>1, BookAfter DEF ReplayTyped
<1>3. more \in Int
  BY <1>1, <1>2, BarPrices, NetInt
<1>4. earned' = Added(r.net + more)
  BY DEF EventParts, Decides
<1>5. earned' \in Earnings
  <2> HIDE DEF more
  <2> QED BY <1>1, <1>3, <1>4, SMTT(40) DEF Added, Earnings, ReplayTyped
<1>6. entries' = [entries EXCEPT ![s] = @ + f.in]
  BY DEF EventParts, Decides
<1>7. entries' \in [Listed -> Nat]
  BY <1>1, <1>6 DEF ReplayTyped
<1>8. /\ crest' = Larger(crest, DayBudget(earned'))
      /\ excess' = excess + Larger(0, (earned.day - earned'.day)
                       - (CommittedRisk(lots) + f.in * RiskOf(f.p) - CommittedRisk(lots')))
      /\ stopped' = (stopped \/ fires)
      /\ decided' = decided + IF d.kind = "ENTER" THEN 1 ELSE 0
  BY DEF EventParts, Decides
<1>9. DayBudget(earned') \in Nat
  BY <1>1, <1>5, AccountNat DEF ReplayTyped
<1>10. crest' \in Nat
  BY <1>1, <1>8, <1>9 DEF Larger, ReplayTyped
<1>11. excess' \in Nat
  <2> DEFINE given == CommittedRisk(lots) + f.in * RiskOf(f.p) - CommittedRisk(lots')
  <2>1. CommittedRisk(lots) \in Nat /\ CommittedRisk(lots') \in Nat /\ RiskOf(f.p) \in Nat
    BY <1>1, <1>2, CommittedNat, RiskNat
  <2>2. given \in Int
    BY <1>1, <2>1
  <2>3. earned.day \in Int /\ earned'.day \in Int /\ excess \in Nat
    BY <1>1, <1>5 DEF ReplayTyped, Earnings
  <2> HIDE DEF given
  <2>4. Larger(0, (earned.day - earned'.day) - given) \in Nat
    BY <2>2, <2>3 DEF Larger
  <2> QED BY <1>8, <2>3, <2>4 DEF given
<1>12. decided' \in Nat
  BY <1>1, <1>8 DEF ReplayTyped
<1> QED BY <1>5, <1>6, <1>7, <1>8, <1>10, <1>11, <1>12

(* ... and of the orders that wait. *)
KillExit == [NoOrder EXCEPT !.kind = "EXIT", !.at = minute, !.kill = TRUE]

OrderAfter(s, d, r, h, fires) ==
  \/ d.kind = "none" /\ waiting'[s] \in {NoOrder, KillExit}
     /\ (fires /\ h[s] # Flat => waiting'[s] = KillExit)
  \/ d.kind = "ENTER" /\ h[s] = Flat /\ lots'[s] = Flat
     /\ (solo \/ (entries'[s] < MaxOrders /\ ~stopped')) /\ waiting'[s].kind = "ENTER"
     /\ waiting'[s].at = minute /\ ~waiting'[s].kill
  \/ d.kind = "EXIT" /\ (lots'[s] = Flat \/ waiting'[s].kind = "EXIT")
     /\ (waiting'[s] \in {NoOrder, KillExit}
         \/ (waiting'[s].kind = "EXIT" /\ waiting'[s].at = minute))

LEMMA OthersAfter ==
  ASSUME ReplayInv, NEW s \in Listed, NEW d, NEW f, NEW r, NEW h, NEW fires,
         EventParts(s, d, f, r, h, fires), NEW n \in Listed \ {s}
  PROVE  /\ waiting'[n] = IF fires /\ lots[n] # Flat /\ waiting[n] = NoOrder
                          THEN KillExit ELSE waiting[n]
<1> DEFINE q == Queued(s, h, fires)
           atClose == (solo \/ ~r.done) /\ d.kind = "EXIT" /\ h[s] # Flat /\ LastBar(s)
<1>1. waiting' = CASE d.kind = "ENTER" -> [q EXCEPT ![s] = Resting(s, d)]
                   [] d.kind = "EXIT" /\ ~atClose -> [q EXCEPT ![s] = [d EXCEPT !.at = minute]]
                   [] OTHER -> q
  BY DEF EventParts, Decides
<1>2. h[n] = lots[n]
  BY BookAfter
<1>3. q[n] = IF fires /\ lots[n] # Flat /\ waiting[n] = NoOrder THEN KillExit ELSE waiting[n]
  BY <1>2 DEF Queued, KillExit
<1>4. \A x : q = [q EXCEPT ![s] = x] \/ [q EXCEPT ![s] = x][n] = q[n]
  BY DEF Queued
<1>5. \A x : [q EXCEPT ![s] = x][n] = q[n]
  BY <1>4
<1> HIDE DEF q, atClose
<1>6. waiting'[n] = q[n]
  BY <1>1, <1>5
<1> QED BY <1>3, <1>6

LEMMA OwnAfter ==
  ASSUME ReplayInv, NEW s \in Listed, NEW d, NEW f, NEW r, NEW h, NEW fires,
         EventParts(s, d, f, r, h, fires)
  PROVE  /\ waiting' \in [Listed -> Order]
         /\ OrderAfter(s, d, r, h, fires)
<1> DEFINE q == Queued(s, h, fires)
           atClose == (solo \/ ~r.done) /\ d.kind = "EXIT" /\ h[s] # Flat /\ LastBar(s)
<1>1. waiting' = CASE d.kind = "ENTER" -> [q EXCEPT ![s] = Resting(s, d)]
                   [] d.kind = "EXIT" /\ ~atClose -> [q EXCEPT ![s] = [d EXCEPT !.at = minute]]
                   [] OTHER -> q
  BY DEF EventParts, Decides
<1>2. ReplayTyped /\ minute \in Nat /\ waiting \in [Listed -> Order]
  BY DEF ReplayInv, ReplayTyped
<1>3. KillExit \in Order /\ NoOrder \in Order
  <2>1. NoOrder \in Order
    BY DEF NoOrder, Order, Sides
  <2> QED BY <1>2, <2>1 DEF KillExit, Order
<1>4. q \in [Listed -> Order]
  BY <1>2, <1>3 DEF Queued, KillExit
<1>5. q[s] = IF fires /\ h[s] # Flat THEN KillExit ELSE NoOrder
  BY DEF Queued, KillExit
<1>6. d \in Decisions
  BY DEF EventParts
<1>7. \/ d.kind = "none"
      \/ /\ d = [NoOrder EXCEPT !.kind = "EXIT"] /\ d.kind = "EXIT"
         /\ [d EXCEPT !.at = minute] = [NoOrder EXCEPT !.kind = "EXIT", !.at = minute]
      \/ /\ d.kind = "ENTER" /\ d.side \in {"LONG", "SHORT"} /\ d.stop \in Nat
         /\ d \in Order /\ ~d.kill
  <2>1. CASE d = NoOrder
    BY <2>1 DEF NoOrder
  <2>2. CASE d = [NoOrder EXCEPT !.kind = "EXIT"]
    BY <1>3, <2>2 DEF Order
  <2>3. ASSUME NEW way \in {"LONG", "SHORT"}, NEW dist \in Stops,
               d = [NoOrder EXCEPT !.kind = "ENTER", !.side = way, !.stop = dist]
        PROVE  /\ d.kind = "ENTER" /\ d.side \in {"LONG", "SHORT"} /\ d.stop \in Nat
               /\ d \in Order /\ ~d.kill
    <3>1. dist \in Nat /\ NoOrder.kill = FALSE
      BY ReplayAssumption DEF NoOrder
    <3>2. way \in Sides /\ dist \in Int
      BY <3>1 DEF Sides
    <3>3. d \in Order
      BY <1>3, <2>3, <3>2 DEF Order
    <3>4. d.kind = "ENTER" /\ d.side = way /\ d.stop = dist /\ d.kill = NoOrder.kill
      BY <1>3, <2>3 DEF Order
    <3> QED BY <3>1, <3>3, <3>4
  <2>4. \/ d = NoOrder \/ d = [NoOrder EXCEPT !.kind = "EXIT"]
        \/ \E way \in {"LONG", "SHORT"}, dist \in Stops :
              d = [NoOrder EXCEPT !.kind = "ENTER", !.side = way, !.stop = dist]
    <3> DEFINE enter(way, dist) ==
                 [NoOrder EXCEPT !.kind = "ENTER", !.side = way, !.stop = dist]
               exit == [NoOrder EXCEPT !.kind = "EXIT"]
    <3>1. Decisions = {NoOrder, exit}
            \cup {enter(way, dist) : way \in {"LONG", "SHORT"}, dist \in Stops}
      BY DEF Decisions
    <3> HIDE DEF enter, exit
    <3>2. \/ d = NoOrder \/ d = exit
          \/ \E way \in {"LONG", "SHORT"}, dist \in Stops : d = enter(way, dist)
      BY <1>6, <3>1
    <3> QED BY <3>2 DEF enter, exit
  <2>5. CASE d = NoOrder \/ d = [NoOrder EXCEPT !.kind = "EXIT"]
    BY <2>1, <2>2, <2>5
  <2>6. CASE \E way \in {"LONG", "SHORT"}, dist \in Stops :
               d = [NoOrder EXCEPT !.kind = "ENTER", !.side = way, !.stop = dist]
    BY <2>3, <2>6
  <2> QED BY <2>4, <2>5, <2>6
<1>8. CASE d.kind = "none"
  <2>1. waiting' = q
    BY <1>1, <1>8
  <2> HIDE DEF q
  <2> QED BY <1>4, <1>5, <1>8, <2>1 DEF OrderAfter
<1>9. CASE d.kind = "EXIT"
  <2> DEFINE e == [NoOrder EXCEPT !.kind = "EXIT", !.at = minute]
  <2>1. waiting' = IF atClose THEN q ELSE [q EXCEPT ![s] = e]
    BY <1>1, <1>7, <1>9
  <2>2. e \in Order /\ e.kind = "EXIT" /\ e.at = minute
    BY <1>2, <1>3 DEF Order
  <2>3. waiting' \in [Listed -> Order] /\ waiting'[s] = IF atClose THEN q[s] ELSE e
    <3> HIDE DEF q, atClose, e
    <3> QED BY <1>4, <2>1, <2>2
  <2>4. atClose => lots'[s] = Flat
    <3>1. lots' = IF atClose THEN [h EXCEPT ![s] = Flat] ELSE h
      BY DEF EventParts, Decides
    <3> HIDE DEF atClose
    <3> QED BY <3>1, BookAfter
  <2> HIDE DEF q, atClose, e
  <2> QED BY <1>5, <1>9, <2>2, <2>3, <2>4 DEF OrderAfter
<1>10. CASE d.kind = "ENTER"
  <2> DEFINE e == Resting(s, d)
  <2>1. waiting' = [q EXCEPT ![s] = e]
    BY <1>1, <1>10
  <2>2. /\ e \in Order /\ e.kind = "ENTER" /\ e.at = minute /\ ~e.kill
    <3>1. quotes[s].c \in Int /\ Sign(d.side) \in Int
      BY <1>2, BarPrices DEF Sign
    <3>2. /\ quotes[s].c - Sign(d.side) * d.stop \in Int
          /\ quotes[s].c + Sign(d.side) * 2 * d.stop \in Int
      BY <1>7, <1>10, <3>1
    <3>3. e = [d EXCEPT !.at = minute, !.stop = quotes[s].c - Sign(d.side) * d.stop,
                        !.target = quotes[s].c + Sign(d.side) * 2 * d.stop]
      BY DEF Resting
    <3>4. d \in Order /\ d.kind = "ENTER" /\ ~d.kill
      BY <1>7, <1>10
    <3> HIDE DEF e
    <3> QED BY <1>2, <3>2, <3>3, <3>4 DEF Order
  <2>3. waiting' \in [Listed -> Order] /\ waiting'[s] = e
    <3> HIDE DEF q, e
    <3> QED BY <1>4, <2>1, <2>2
  <2>4. /\ h[s] = Flat
        /\ solo \/ (entries[s] + r.in < MaxOrders /\ ~(stopped \/ fires))
    <3>1. /\ Admitted(s, d, h, Added(r.net), stopped \/ fires)
          /\ solo \/ entries[s] + r.in < MaxOrders
      BY <1>10 DEF EventParts, Decides
    <3>2. h[s] = Flat /\ (solo \/ ~(stopped \/ fires))
      BY <3>1 DEF Admitted
    <3> QED BY <3>1, <3>2
  <2>5. lots'[s] = Flat
    BY <2>4, BookAfter
  <2>6. solo \/ (entries'[s] < MaxOrders /\ ~stopped')
    <3>1. r.in = f.in /\ entries[s] \in Nat
      BY <1>2 DEF EventParts, ReplayTyped
    <3>2. entries' = [entries EXCEPT ![s] = @ + f.in] /\ stopped' = (stopped \/ fires)
      BY MetersAfter
    <3> QED BY <1>2, <2>4, <3>1, <3>2 DEF ReplayTyped
  <2> HIDE DEF q, e
  <2> QED BY <1>10, <2>2, <2>3, <2>4, <2>5, <2>6 DEF OrderAfter
<1> QED BY <1>7, <1>8, <1>9, <1>10

LEMMA EventKeepsTypes ==
  ASSUME ReplayInv, NEW s \in Listed, NEW d, NEW f, NEW r, NEW h, NEW fires,
         EventParts(s, d, f, r, h, fires)
  PROVE  ReplayTyped' /\ ReplayInSession'
<1>1. ReplayTyped /\ ReplayInSession
  BY DEF ReplayInv
<1>2. /\ s \in turn /\ turn' = turn \ {s} /\ fires \in BOOLEAN /\ (fires => ~solo /\ ~stopped)
      /\ IF turn = {s}
         THEN quotes' = [n \in Listed |-> NoBar] /\ minute' = minute + 1
         ELSE UNCHANGED <<quotes, minute>>
      /\ solo' = solo /\ session' = session /\ grid' = grid
      /\ marks' = marks /\ traded' = traded /\ sessions' = sessions
  BY DEF EventParts, dayVars
<1>3. /\ lots' \in [Listed -> Lot] /\ waiting' \in [Listed -> Order]
      /\ entries' \in [Listed -> Nat] /\ earned' \in Earnings /\ stopped' = (stopped \/ fires)
      /\ crest' \in Nat /\ excess' \in Nat /\ decided' \in Nat
  BY BookAfter, MetersAfter, OwnAfter
<1>4. quotes' \in [Listed -> BarSet \cup {NoBar}] /\ minute' \in Nat
  BY <1>1, <1>2 DEF ReplayTyped
<1>5. ReplayTyped'
  BY <1>1, <1>2, <1>3, <1>4 DEF ReplayTyped
<1>6. ReplayInSession'
  BY <1>1, <1>2, <1>3, SMTT(40) DEF ReplayInSession, ReplayTyped
<1> QED BY <1>5, <1>6

LEMMA EventKeepsOrders ==
  ASSUME ReplayInv, NEW s \in Listed, NEW d, NEW f, NEW r, NEW h, NEW fires,
         EventParts(s, d, f, r, h, fires)
  PROVE  EntriesWaitFlat' /\ DecidedBefore'
<1>1. ReplayTyped /\ ReplayInSession /\ EntriesWaitFlat /\ DecidedBefore
  BY DEF ReplayInv
<1>2. /\ s \in turn /\ turn' = turn \ {s} /\ turn \in SUBSET Listed
      /\ minute \in Nat /\ minute > 0 /\ solo' = solo
      /\ minute' = IF turn = {s} THEN minute + 1 ELSE minute
  BY <1>1 DEF EventParts, ReplayTyped, ReplayInSession, dayVars
<1>3. OrderAfter(s, d, r, h, fires) /\ waiting' \in [Listed -> Order]
  BY OwnAfter
<1>4. /\ NoOrder.kind = "none" /\ KillExit.kind = "EXIT" /\ KillExit.kill
  BY DEF NoOrder, KillExit
<1>5. ASSUME NEW n \in Listed \ {s}
      PROVE  /\ waiting'[n] \in {KillExit, waiting[n]}
             /\ lots'[n] = lots[n] /\ entries'[n] = entries[n]
    BY <1>1, OthersAfter, BookAfter, MetersAfter DEF ReplayTyped
<1>6. EntriesWaitFlat'
  <2> SUFFICES ASSUME NEW n \in Listed
               PROVE  /\ waiting'[n].kind = "none" => waiting'[n] = NoOrder
                      /\ waiting'[n].kind = "ENTER" => lots'[n] = Flat /\ (solo \/ entries'[n] < MaxOrders)
    BY <1>2 DEF EntriesWaitFlat
  <2>1. CASE n = s
    BY <1>3, <1>4, <2>1 DEF OrderAfter
  <2>2. CASE n # s
      BY <1>1, <1>4, <1>5, <2>2 DEF EntriesWaitFlat
  <2> QED BY <2>1, <2>2
<1>7. DecidedBefore'
  <2> SUFFICES ASSUME NEW n \in Listed, waiting'[n].kind # "none", ~waiting'[n].kill
               PROVE  \/ waiting'[n].at < minute'
                      \/ waiting'[n].at = minute' /\ turn' # {} /\ n \notin turn'
    BY DEF DecidedBefore
  <2>1. CASE n = s
      BY <1>2, <1>3, <1>4, <2>1 DEF OrderAfter
  <2>2. CASE n # s
    <3>1. waiting'[n] = waiting[n]
      BY <1>4, <1>5, <2>2
    <3>2. \/ waiting[n].at < minute
          \/ waiting[n].at = minute /\ n \notin turn
      BY <1>1, <1>2, <3>1 DEF DecidedBefore
    <3>3. waiting[n].at \in Nat
      BY <1>1 DEF ReplayTyped, Order
    <3> QED BY <1>2, <3>1, <3>2, <3>3
  <2> QED BY <2>1, <2>2
<1> QED BY <1>6, <1>7

(* The kill switch: whoever is still open when it has fired is told to     *)
(* leave, and nobody enters after it.                                      *)
LEMMA EventKeepsHalt ==
  ASSUME ReplayInv, NEW s \in Listed, NEW d, NEW f, NEW r, NEW h, NEW fires,
         EventParts(s, d, f, r, h, fires)
  PROVE  HaltEmptiesBook' /\ NextBarFills'
<1>1. /\ ReplayTyped /\ ReplayInSession /\ EntriesWaitFlat /\ DecidedBefore
      /\ HaltEmptiesBook /\ NextBarFills
  BY DEF ReplayInv, PortfolioSound
<1>2. /\ s \in turn /\ minute \in Nat /\ minute > 0
      /\ minute' = IF turn = {s} THEN minute + 1 ELSE minute
      /\ FillFacts(s, f)
  BY <1>1 DEF EventParts, ReplayTyped, ReplayInSession
<1>3. OrderAfter(s, d, r, h, fires)
  BY OwnAfter
<1>4. NoOrder.kind = "none" /\ KillExit.kind = "EXIT"
  BY DEF NoOrder, KillExit
<1>5. stopped' = (stopped \/ fires)
  BY MetersAfter
<1>6. ASSUME stopped', NEW n \in Listed, lots'[n] # Flat
      PROVE  waiting'[n].kind = "EXIT"
  <2>1. CASE n # s
    <3>1. waiting'[n] = IF fires /\ lots[n] # Flat /\ waiting[n] = NoOrder
                        THEN KillExit ELSE waiting[n]
      BY <2>1, OthersAfter
    <3>2. lots[n] # Flat
      BY <1>6, <2>1, BookAfter
    <3>3. waiting[n].kind # "ENTER"
      BY <1>1, <3>2 DEF EntriesWaitFlat
    <3>4. waiting[n].kind \in {"none", "ENTER", "EXIT"}
      BY <1>1 DEF ReplayTyped, Order
    <3>5. waiting[n].kind = "none" => waiting[n] = NoOrder
      BY <1>1 DEF EntriesWaitFlat
    <3>6. stopped => waiting[n].kind = "EXIT"
      BY <1>1, <3>2 DEF HaltEmptiesBook, OpenNames, OpenIn
    <3> QED BY <1>4, <1>5, <1>6, <3>1, <3>2, <3>3, <3>4, <3>5, <3>6
  <2>2. CASE n = s
    <3>1. /\ lots'[s] \in {h[s], Flat} /\ h[s] \in {f.p, Flat}
      BY BookAfter
    <3>2. h[s] # Flat /\ f.p # Flat
      BY <1>6, <2>2, <3>1
    <3>3. ~stopped
      <4>1. SUFFICES ASSUME stopped  PROVE FALSE
        OBVIOUS
      <4>2. ~solo
        BY <1>1, <4>1 DEF ReplayInSession
      <4>3. f.in # 1
        BY <1>2, <4>1, <4>2 DEF FillFacts, CanEnter
      <4>4. f.in \in {0, 1}
        BY <1>2 DEF FillFacts
      <4>5. f.p = lots[s]
        BY <1>2, <3>2, <4>3, <4>4 DEF FillFacts
      <4>6. waiting[s].kind = "EXIT"
        BY <1>1, <3>2, <4>1, <4>5 DEF HaltEmptiesBook, OpenNames, OpenIn
      <4> QED BY <1>2, <3>2, <4>6 DEF FillFacts
    <3>4. fires
      BY <1>5, <1>6, <3>3
    <3> QED BY <1>3, <1>4, <1>6, <2>2, <3>2, <3>4 DEF OrderAfter
  <2> QED BY <2>1, <2>2
<1>7. HaltEmptiesBook'
    BY <1>2, <1>6 DEF HaltEmptiesBook, OpenNames, OpenIn
<1>8. NextBarFills'
  <2>1. hasty' = IF (f.in = 1 \/ f.done) /\ waiting[s].at >= minute
                 THEN hasty \cup {IF waiting[s].kill THEN "kill" ELSE waiting[s].kind}
                 ELSE hasty
    BY DEF EventParts, Decides
  <2>2. (f.in = 1 \/ f.done) /\ waiting[s].at >= minute => waiting[s].kill
    <3>1. f.in = 1 \/ f.done => waiting[s].kind # "none"
      BY <1>2 DEF FillFacts
    <3>2. waiting[s].kind # "none" /\ ~waiting[s].kill => waiting[s].at < minute
      BY <1>1, <1>2 DEF DecidedBefore
    <3>3. waiting[s].at \in Nat
      BY <1>1 DEF ReplayTyped, Order
    <3> QED BY <1>2, <3>1, <3>2, <3>3
  <2> QED BY <1>1, <2>1, <2>2 DEF NextBarFills
<1> QED BY <1>7, <1>8

(* What a trade loses beyond the risk it had registered is in the excess:  *)
(* losses and committed risk together grow by no more.                     *)
LEMMA LossOrRisk ==
  ASSUME NEW day \in Int, NEW next \in Int, NEW old \in Nat, NEW new \in Nat, NEW add \in Nat,
         new <= old + add
  PROVE  new + Larger(0, -next)
           <= old + add + Larger(0, -day) + Larger(0, (day - next) - (old + add - new))
BY DEF Larger

LEMMA EventKeepsBudget ==
  ASSUME ReplayInv, NEW s \in Listed, NEW d, NEW f, NEW r, NEW h, NEW fires,
         EventParts(s, d, f, r, h, fires)
  PROVE  CrestCovers' /\ BookWithinBudget'
<1>1. /\ ReplayTyped /\ ReplayInSession /\ EntriesWaitFlat /\ CrestCovers /\ BookWithinBudget
  BY DEF ReplayInv, PortfolioSound
<1>2. /\ s \in turn /\ minute \in Nat /\ minute > 0 /\ solo' = solo
      /\ FillFacts(s, f) /\ f.in \in {0, 1} /\ f.p \in Lot
  BY <1>1 DEF EventParts, ReplayTyped, ReplayInSession, dayVars, FillFacts
<1>3. /\ earned' \in Earnings /\ crest' = Larger(crest, DayBudget(earned')) /\ crest' \in Nat
      /\ entries' = [entries EXCEPT ![s] = @ + f.in]
      /\ excess' = excess + Larger(0, (earned.day - earned'.day)
                       - (CommittedRisk(lots) + f.in * RiskOf(f.p) - CommittedRisk(lots')))
  BY MetersAfter
<1>4. /\ lots' \in [Listed -> Lot] /\ lots'[s] \in {f.p, Flat}
      /\ \A n \in Listed \ {s} : lots'[n] = lots[n]
  BY BookAfter
<1>5. lots \in [Listed -> Lot] /\ earned \in Earnings /\ solo \in BOOLEAN
      /\ crest \in Nat /\ excess \in Nat /\ entries \in [Listed -> Nat]
  BY <1>1 DEF ReplayTyped
<1>6. DayBudget(earned') \in Nat /\ DayBudget(earned) \in Nat
  BY <1>3, <1>5, AccountNat
<1>7. CrestCovers'
    BY <1>2, <1>3, <1>5, <1>6 DEF DayBudget, AccountOf, CrestCovers, Larger
<1> DEFINE old == CommittedRisk(lots)
           new == CommittedRisk(lots')
           add == f.in * RiskOf(f.p)
<1>8. /\ old \in Nat /\ new \in Nat /\ RiskOf(f.p) \in Nat
      /\ RiskOf(lots[s]) \in Nat /\ RiskOf(lots'[s]) \in Nat
  BY <1>2, <1>4, <1>5, CommittedNat, RiskNat
<1>9. add \in Nat /\ new <= old + add
  <2>1. new = old - RiskOf(lots[s]) + RiskOf(lots'[s])
    BY <1>4, <1>5, CommittedChange
  <2>2. CASE f.in = 1
    <3>1. add = RiskOf(f.p)
      BY <1>8, <2>2
    <3>2. RiskOf(lots'[s]) <= RiskOf(f.p)
      BY <1>4, <1>8, FlatIsLot
    <3> HIDE DEF old, new, add
    <3> QED BY <1>8, <2>1, <3>1, <3>2
  <2>3. CASE f.in = 0
    <3>1. add = 0
      BY <1>8, <2>3
    <3>2. f.p \in {lots[s], Flat}
      BY <1>2, <2>3 DEF FillFacts
    <3>3. RiskOf(lots'[s]) <= RiskOf(lots[s])
      BY <1>4, <1>8, <3>2, FlatIsLot
    <3> HIDE DEF old, new, add
    <3> QED BY <1>8, <2>1, <3>1, <3>3
  <2> QED BY <1>2, <2>2, <2>3
<1>10. earned.day \in Int /\ earned'.day \in Int
  BY <1>3, <1>5 DEF Earnings
<1>11. ~solo => new + Larger(0, -earned'.day) <= crest' + excess'
  <2> SUFFICES ASSUME ~solo  PROVE new + Larger(0, -earned'.day) <= crest' + excess'
    OBVIOUS
  <2> DEFINE more == Larger(0, (earned.day - earned'.day) - (old + add - new))
             was == Larger(0, -earned.day)
  <2>1. new + Larger(0, -earned'.day) <= old + add + was + more
    <3> HIDE DEF old, new, add
    <3> QED BY <1>5, <1>8, <1>9, <1>10, LossOrRisk
  <2>2. old + add + was <= crest + excess
    <3>1. CASE f.in = 1
      <4>1. old + was + RiskOf(f.p) <= DayBudget(earned)
        BY <1>2, <3>1 DEF FillFacts
      <4>2. DayBudget(earned) <= crest
        BY <1>1, <1>2 DEF CrestCovers
      <4>3. add = RiskOf(f.p)
        BY <1>8, <3>1
      <4>4. was \in Nat
        BY <1>10 DEF Larger
      <4> HIDE DEF old, add, was
      <4> QED BY <1>5, <1>6, <1>8, <4>1, <4>2, <4>3, <4>4
    <3>2. CASE f.in = 0
      <4>1. old + was <= crest + excess
        BY <1>1 DEF BookWithinBudget
      <4>2. add = 0
        BY <1>8, <3>2
      <4>3. was \in Nat
        BY <1>10 DEF Larger
      <4> HIDE DEF old, add, was
      <4> QED BY <1>5, <1>8, <4>1, <4>2, <4>3
    <3> QED BY <1>2, <3>1, <3>2
  <2>3. excess' = excess + more
    BY <1>3
  <2>4. more \in Nat /\ was \in Nat /\ Larger(0, -earned'.day) \in Nat
    <3> HIDE DEF old, new, add
    <3> QED BY <1>8, <1>9, <1>10 DEF Larger
  <2>5. crest <= crest'
    BY <1>3, <1>5, <1>6 DEF Larger
  <2> HIDE DEF old, new, add, more, was
  <2> QED BY <1>3, <1>5, <1>8, <1>9, <2>1, <2>2, <2>3, <2>4, <2>5
<1>12. ~solo => Cardinality(OpenIn(lots')) <= MaxPositions
  <2> SUFFICES ASSUME ~solo  PROVE Cardinality(OpenIn(lots')) <= MaxPositions
    OBVIOUS
  <2>1. IsFiniteSet(OpenIn(lots)) /\ Cardinality(OpenIn(lots)) \in Nat
      BY ReplayAssumption, FS_Subset, FS_CardinalityType DEF OpenIn
  <2>2. Cardinality(OpenIn(lots)) <= MaxPositions
    BY <1>1 DEF BookWithinBudget, OpenNames
  <2>3. MaxPositions \in Nat
    BY ReplayAssumption
  <2>4. CASE f.in = 1
    <3>1. Cardinality(OpenIn(lots)) < MaxPositions
      BY <1>2, <2>4 DEF FillFacts, CanEnter, OpenNames
    <3>2. OpenIn(lots') \subseteq OpenIn(lots) \cup {s}
      BY <1>4 DEF OpenIn
    <3>3. /\ IsFiniteSet(OpenIn(lots) \cup {s})
          /\ Cardinality(OpenIn(lots) \cup {s}) <= Cardinality(OpenIn(lots)) + 1
      <4> DEFINE O == OpenIn(lots)
      <4>1. /\ IsFiniteSet(O \cup {s})
            /\ Cardinality(O \cup {s}) =
                 IF s \in O THEN Cardinality(O) ELSE Cardinality(O) + 1
        <5> HIDE DEF O
        <5>1. IsFiniteSet(O)
          BY <2>1 DEF O
        <5> QED BY <5>1, FS_AddElement, ZenonT(40)
      <4>2. Cardinality(O) \in Nat
        BY <2>1
      <4> HIDE DEF O
      <4>3. Cardinality(O \cup {s}) <= Cardinality(O) + 1
        BY <4>1, <4>2
      <4> QED BY <4>1, <4>3 DEF O
    <3>4. Cardinality(OpenIn(lots')) <= Cardinality(OpenIn(lots) \cup {s})
      BY <3>2, <3>3, FS_Subset
    <3>5. Cardinality(OpenIn(lots')) \in Nat /\ Cardinality(OpenIn(lots) \cup {s}) \in Nat
      BY <3>2, <3>3, FS_Subset, FS_CardinalityType
    <3> QED BY <2>1, <2>3, <3>1, <3>3, <3>4, <3>5
  <2>5. CASE f.in = 0
    <3>1. f.p \in {lots[s], Flat}
      BY <1>2, <2>5 DEF FillFacts
    <3>2. OpenIn(lots') \subseteq OpenIn(lots)
      BY <1>4, <3>1 DEF OpenIn
    <3>3. /\ Cardinality(OpenIn(lots')) <= Cardinality(OpenIn(lots))
          /\ Cardinality(OpenIn(lots')) \in Nat
      BY <2>1, <3>2, FS_Subset, FS_CardinalityType
    <3> QED BY <2>1, <2>2, <2>3, <3>3
  <2> QED BY <1>2, <2>4, <2>5
<1>13. ~solo => \A n \in Listed : entries'[n] <= MaxOrders
  <2> SUFFICES ASSUME ~solo, NEW n \in Listed  PROVE entries'[n] <= MaxOrders
    OBVIOUS
  <2>1. entries[n] <= MaxOrders /\ entries[n] \in Nat /\ MaxOrders \in Nat
    BY <1>1, <1>5, ReplayAssumption DEF BookWithinBudget
  <2>2. f.in = 1 => entries[s] < MaxOrders
    BY <1>1, <1>2 DEF FillFacts, EntriesWaitFlat
  <2>3. entries'[n] = IF n = s THEN entries[n] + f.in ELSE entries[n]
    BY <1>3, <1>5
  <2> QED BY <1>2, <2>1, <2>2, <2>3
<1>14. BookWithinBudget'
  BY <1>2, <1>11, <1>12, <1>13 DEF BookWithinBudget, OpenNames
<1> QED BY <1>7, <1>14

LEMMA EventKeepsReplay ==
  ASSUME ReplayInv, NEW s \in Listed, NEW d \in Decisions, Event(s, d)
  PROVE  ReplayInv'
<1>1. PICK f, r, h, fires : EventParts(s, d, f, r, h, fires)
  BY EventUnfolds
<1>2. ReplayTyped' /\ ReplayInSession'
  BY <1>1, EventKeepsTypes
<1>3. EntriesWaitFlat' /\ DecidedBefore'
  BY <1>1, EventKeepsOrders
<1>4. HaltEmptiesBook' /\ NextBarFills'
  BY <1>1, EventKeepsHalt
<1>5. CrestCovers' /\ BookWithinBudget'
  BY <1>1, EventKeepsBudget
<1> QED BY <1>2, <1>3, <1>4, <1>5 DEF ReplayInv, PortfolioSound

-----------------------------------------------------------------------------
(* The other steps of the portfolio replay. *)
LEMMA InitReplayInv == InitReplay => ReplayInv
<1> SUFFICES ASSUME InitReplay  PROVE ReplayInv
  OBVIOUS
<1>1. NoOrder \in Order /\ NoOrder.kind = "none" /\ Flat \in Lot
  BY FlatIsLot DEF NoOrder, Order, Sides
<1>2. ReplayTyped
  <2>1. /\ solo \in BOOLEAN /\ stopped \in BOOLEAN
        /\ session \in Nat /\ minute \in Nat /\ turn \in SUBSET Listed
        /\ crest \in Nat /\ excess \in Nat /\ decided \in Nat
    BY DEF InitReplay
  <2>2. /\ grid \in [Listed -> SUBSET (1 .. Minutes)]
        /\ quotes \in [Listed -> BarSet \cup {NoBar}]
        /\ marks \in [Listed -> Nat] /\ traded \in [Listed -> Nat]
        /\ lots \in [Listed -> Lot] /\ waiting \in [Listed -> Order]
        /\ entries \in [Listed -> Nat]
    BY <1>1 DEF InitReplay
  <2>3. sessions \in [Listed -> Seq(Nat)]
      BY DEF InitReplay
  <2>4. earned \in Earnings
    BY DEF InitReplay, Earnings
  <2> QED BY <2>1, <2>2, <2>3, <2>4 DEF ReplayTyped
<1>3. ReplayInSession /\ EntriesWaitFlat /\ DecidedBefore /\ CrestCovers
  BY <1>1 DEF InitReplay, ReplayInSession, EntriesWaitFlat, DecidedBefore, CrestCovers
<1>4. HaltEmptiesBook /\ NextBarFills /\ OpenNames = {}
  BY DEF InitReplay, HaltEmptiesBook, NextBarFills, OpenNames, OpenIn
<1>5. BookWithinBudget
    BY <1>4, NothingCommitted, ReplayAssumption, FS_EmptySet
       DEF InitReplay, BookWithinBudget, Larger
<1> QED BY <1>2, <1>3, <1>4, <1>5 DEF ReplayInv, PortfolioSound

LEMMA ChooseSoloKeeps == ReplayInv /\ ChooseSolo => ReplayInv'
<1> SUFFICES ASSUME ReplayInv, ChooseSolo  PROVE ReplayInv'
  OBVIOUS
<1>1. /\ session = 0 /\ solo' = TRUE /\ minute = 0 /\ ~stopped
      /\ UNCHANGED <<session, grid, hasty, crest, decided, excess, minute, turn, quotes, marks,
                     traded, sessions, lots, waiting, entries, earned, stopped>>
  BY DEF ChooseSolo, ghostVars, ReplayInv, ReplayInSession
<1>2. ReplayTyped' /\ ReplayInSession' /\ EntriesWaitFlat' /\ DecidedBefore' /\ CrestCovers'
  BY <1>1 DEF ReplayInv, ReplayTyped, ReplayInSession, EntriesWaitFlat, DecidedBefore, CrestCovers
<1>3. HaltEmptiesBook' /\ BookWithinBudget' /\ NextBarFills'
  BY <1>1 DEF ReplayInv, PortfolioSound, HaltEmptiesBook, BookWithinBudget, NextBarFills,
              OpenNames, OpenIn
<1> QED BY <1>2, <1>3 DEF ReplayInv, PortfolioSound

LEMMA StartSessionKeeps ==
  ASSUME ReplayInv, NEW g \in [Listed -> Grids], NEW w \in BOOLEAN, StartSession(g, w)
  PROVE  ReplayInv'
<1>1. ReplayTyped /\ ReplayInSession /\ HaltEmptiesBook /\ minute = 0
  BY DEF ReplayInv, PortfolioSound, StartSession
<1>2. OpenNames = {} /\ \A s \in Listed : lots[s] = Flat
  BY <1>1 DEF HaltEmptiesBook, OpenNames, OpenIn
<1>3. lots = [s \in Listed |-> Flat]
  BY <1>1, <1>2 DEF ReplayTyped
<1>4. /\ session' = session + 1 /\ minute' = 1 /\ grid' = g /\ turn' = {} /\ ~stopped'
      /\ marks' = [s \in Listed |-> 0] /\ traded' = [s \in Listed |-> 0]
      /\ waiting' = [s \in Listed |-> NoOrder] /\ entries' = [s \in Listed |-> 0]
      /\ quotes' = [s \in Listed |-> NoBar] /\ hasty' = {} /\ crest' = DayBudget(earned)
      /\ excess' = 0 /\ solo' = solo /\ sessions' = sessions /\ lots' = lots
      /\ decided' = decided
      /\ stopped' = FALSE
  BY DEF StartSession
<1>5. earned' \in Earnings /\ earned'.day = 0 /\ earned'.total = earned.total
  <2>1. earned \in Earnings
    BY <1>1 DEF ReplayTyped
  <2> DEFINE week == IF w THEN 0 ELSE earned.week
  <2>2. earned' = [earned EXCEPT !.day = 0, !.week = week]
    BY DEF StartSession
  <2>3. week \in Int
    BY <2>1 DEF Earnings
  <2> HIDE DEF week
  <2>4. [earned EXCEPT !.day = 0, !.week = week] = [[earned EXCEPT !.day = 0] EXCEPT !.week = week]
    OBVIOUS
  <2>5. PICK d \in Int, k \in Int, t \in Int : earned = [day |-> d, week |-> k, total |-> t]
    BY <2>1 DEF Earnings
  <2>6. [earned EXCEPT !.day = 0] = [day |-> 0, week |-> k, total |-> t]
    BY <2>5
  <2>7. [[day |-> 0, week |-> k, total |-> t] EXCEPT !.week = week]
          = [day |-> 0, week |-> week, total |-> t]
    OBVIOUS
  <2>8. earned' = [day |-> 0, week |-> week, total |-> t] /\ earned.total = t
    BY <2>2, <2>4, <2>5, <2>6, <2>7
  <2> QED BY <2>3, <2>5, <2>8 DEF Earnings
<1>6. DayBudget(earned) \in Nat /\ DayBudget(earned') = DayBudget(earned)
  BY <1>1, <1>5, AccountNat DEF ReplayTyped, DayBudget, AccountOf
<1>7. NoOrder \in Order /\ NoOrder.kind = "none"
  BY DEF NoOrder, Order, Sides
<1>8. ReplayTyped'
  <2>1. g \in [Listed -> SUBSET (1 .. Minutes)]
    BY ReplayAssumption
  <2>2. /\ solo' \in BOOLEAN /\ stopped' \in BOOLEAN
        /\ session' \in Nat /\ minute' \in Nat /\ turn' \in SUBSET Listed
        /\ crest' \in Nat /\ excess' \in Nat /\ decided' \in Nat
    <3>1. solo \in BOOLEAN /\ session \in Nat /\ decided \in Nat
      BY <1>1 DEF ReplayTyped
    <3>2. session' = session + 1 /\ solo' = solo /\ decided' = decided /\ crest' \in Nat
      BY <1>4, <1>6
    <3>3. minute' = 1 /\ turn' = {} /\ stopped' = FALSE /\ excess' = 0
      BY <1>4
    <3>4. solo' \in BOOLEAN /\ stopped' \in BOOLEAN
      BY <3>1, <3>2, <3>3
    <3>5. session' \in Nat /\ minute' \in Nat /\ excess' \in Nat
      BY <3>1, <3>2, <3>3
    <3>6. turn' \in SUBSET Listed
      BY <3>3
    <3> QED BY <3>1, <3>2, <3>4, <3>5, <3>6
  <2>3. /\ quotes' \in [Listed -> BarSet \cup {NoBar}]
        /\ marks' \in [Listed -> Nat] /\ traded' \in [Listed -> Nat]
        /\ waiting' \in [Listed -> Order] /\ entries' \in [Listed -> Nat]
    BY <1>4, <1>7
  <2>4. grid' \in [Listed -> SUBSET (1 .. Minutes)]
    BY <1>4, <2>1
  <2>5. sessions' \in [Listed -> Seq(Nat)] /\ lots' \in [Listed -> Lot]
    BY <1>1, <1>4 DEF ReplayTyped
  <2> QED BY <1>5, <2>2, <2>3, <2>4, <2>5 DEF ReplayTyped
<1>9. ReplayInSession' /\ EntriesWaitFlat' /\ DecidedBefore'
  BY <1>1, <1>4, <1>7 DEF ReplayInSession, EntriesWaitFlat, DecidedBefore, ReplayTyped
<1>10. CrestCovers'
    BY <1>4, <1>6 DEF DayBudget, AccountOf, CrestCovers
<1>11. HaltEmptiesBook' /\ NextBarFills'
  BY <1>4 DEF HaltEmptiesBook, NextBarFills
<1>12. BookWithinBudget'
  <2>1. CommittedRisk(lots') = 0
    BY <1>3, <1>4, NothingCommitted
  <2>2. OpenNames' = {}
    BY <1>2, <1>4 DEF OpenNames, OpenIn
  <2>3. MaxPositions \in Nat /\ MaxOrders \in Nat
    BY ReplayAssumption
  <2>4. \A s \in Listed : entries'[s] = 0
    BY <1>4
  <2> QED BY <1>4, <1>5, <1>6, <2>1, <2>2, <2>3, <2>4, FS_EmptySet
          DEF BookWithinBudget, Larger
<1> QED BY <1>8, <1>9, <1>10, <1>11, <1>12 DEF ReplayInv, PortfolioSound

LEMMA TickKeeps ==
  ASSUME ReplayInv, NEW b \in [Listed -> BarSet \cup {NoBar}], Tick(b)
  PROVE  ReplayInv'
<1> DEFINE here == {s \in Listed : minute \in grid[s]}
<1>1. /\ ReplayTyped /\ ReplayInSession /\ EntriesWaitFlat /\ DecidedBefore /\ CrestCovers
      /\ HaltEmptiesBook /\ BookWithinBudget /\ NextBarFills
  BY DEF ReplayInv, PortfolioSound
<1>2. /\ minute \in 1 .. Minutes /\ minute \in Nat /\ turn = {} /\ turn' = here
      /\ \A s \in here : b[s] # NoBar
      /\ UNCHANGED <<solo, session, grid, hasty, crest, decided, excess, sessions, lots,
                     waiting, entries, earned, stopped>>
  BY <1>1 DEF Tick, dayVars, ghostVars, ReplayTyped
<1>3. IF here = {} THEN minute' = minute + 1 /\ UNCHANGED <<quotes, marks, traded>>
      ELSE /\ quotes' = b /\ UNCHANGED minute
           /\ marks' = [s \in Listed |-> IF s \in here THEN b[s].c ELSE marks[s]]
           /\ traded' = [s \in Listed |-> traded[s] + b[s].v]
  BY DEF Tick
<1>4. \A s \in Listed : b[s].c \in Nat /\ b[s].v \in Nat
  BY ReplayAssumption DEF NoBar
<1>5. here \in SUBSET Listed
  OBVIOUS
<1> HIDE DEF here
<1>6. /\ marks' \in [Listed -> Nat] /\ traded' \in [Listed -> Nat]
      /\ quotes' \in [Listed -> BarSet \cup {NoBar}]
      /\ minute' \in {minute, minute + 1} /\ (here # {} => minute' = minute /\ quotes' = b)
  <2>1. CASE here = {}
    BY <1>1, <1>3, <2>1 DEF ReplayTyped
  <2>2. CASE here # {}
    <3>1. marks \in [Listed -> Nat] /\ traded \in [Listed -> Nat]
      BY <1>1 DEF ReplayTyped
    <3>2. marks' = [s \in Listed |-> IF s \in here THEN b[s].c ELSE marks[s]]
      BY <1>3, <2>2
    <3>3. traded' = [s \in Listed |-> traded[s] + b[s].v]
      BY <1>3, <2>2
    <3>4. quotes' = b /\ minute' = minute
      BY <1>3, <2>2
    <3>5. marks' \in [Listed -> Nat]
      BY <1>4, <3>1, <3>2
    <3>6. traded' \in [Listed -> Nat]
        BY <1>4, <3>1, <3>3
    <3> QED BY <3>4, <3>5, <3>6
  <2> QED BY <2>1, <2>2
<1>7. ReplayTyped'
  BY <1>1, <1>2, <1>5, <1>6 DEF ReplayTyped
<1>8. ReplayInSession' /\ EntriesWaitFlat'
  BY <1>1, <1>2, <1>6 DEF ReplayInSession, EntriesWaitFlat
<1>9. DecidedBefore'
  <2> SUFFICES ASSUME NEW n \in Listed, waiting[n].kind # "none", ~waiting[n].kill
               PROVE  waiting[n].at < minute'
    BY <1>2 DEF DecidedBefore
  <2>1. waiting[n].at < minute /\ waiting[n].at \in Nat
    BY <1>1, <1>2 DEF DecidedBefore, ReplayTyped, Order
  <2> QED BY <1>2, <1>6, <2>1
<1>10. CrestCovers'
    BY <1>1, <1>2 DEF DayBudget, AccountOf, CrestCovers
<1>11. HaltEmptiesBook' /\ BookWithinBudget' /\ NextBarFills'
    BY <1>1, <1>2, <1>6 DEF HaltEmptiesBook, BookWithinBudget, NextBarFills, OpenNames, OpenIn
<1> QED BY <1>7, <1>8, <1>9, <1>10, <1>11 DEF ReplayInv, PortfolioSound

LEMMA EndSessionKeeps == ReplayInv /\ EndSession => ReplayInv'
<1> SUFFICES ASSUME ReplayInv, EndSession  PROVE ReplayInv'
  OBVIOUS
<1> DEFINE w == [s \in Listed |-> IF lots[s] = Flat THEN 0
                   ELSE Net(lots[s], IF marks[s] = 0 THEN lots[s].entry ELSE marks[s])]
<1>1. /\ ReplayTyped /\ ReplayInSession /\ EntriesWaitFlat
      /\ BookWithinBudget /\ NextBarFills
  BY DEF ReplayInv, PortfolioSound
<1>2. /\ minute \in Nat /\ Minutes \in Nat /\ minute > Minutes /\ minute' = 0
      /\ UNCHANGED <<solo, session, grid, hasty, crest, decided, turn, quotes, marks, traded,
                     waiting, entries, stopped>>
  BY <1>1, ReplayAssumption DEF EndSession, dayVars, ReplayTyped
<1>lots. lots' = [s \in Listed |-> Flat]
  BY DEF EndSession
<1>earned. earned' = Added(FoldFunction(+, 0, w))
  BY DEF EndSession
<1>days. sessions' = [s \in Listed |-> IF grid[s] = {} THEN sessions[s]
                                        ELSE Append(sessions[s], traded[s])]
  BY DEF EndSession
<1>excess. excess' = excess + Larger(0, earned.day - earned'.day - CommittedRisk(lots))
  BY DEF EndSession
<1> HIDE DEF w
<1>3. turn = {} /\ session # 0
    BY <1>1, <1>2 DEF ReplayInSession
<1>4. FoldFunction(+, 0, w) \in Int
  <2>1. \A s \in Listed : w[s] \in Int
    <3> SUFFICES ASSUME NEW s \in Listed  PROVE w[s] \in Int
      OBVIOUS
    <3> USE DEF w
    <3>1. lots[s] \in Lot /\ lots[s].entry \in Nat /\ marks[s] \in Nat
      BY <1>1 DEF ReplayTyped, Lot
    <3>2. Net(lots[s], IF marks[s] = 0 THEN lots[s].entry ELSE marks[s]) \in Int
      BY <3>1, NetInt
    <3> QED BY <3>2
  <2>2. DOMAIN w = Listed /\ IsFiniteSet(Listed)
    BY ReplayAssumption DEF w
  <2>3. Sum(w, Listed) \in Int
    BY <2>1, <2>2, SumInt
  <2> QED BY <2>2, <2>3, FoldIsSum
<1>5. earned' \in Earnings
  <2>1. earned \in Earnings
    BY <1>1 DEF ReplayTyped
  <2> DEFINE net == FoldFunction(+, 0, w)
  <2>2. earned' = Added(net) /\ net \in Int
    BY <1>4, <1>earned
  <2> HIDE DEF net
  <2> QED BY <2>1, <2>2 DEF Added, Earnings
<1>6. lots \in [Listed -> Lot] /\ lots' \in [Listed -> Lot] /\ \A s \in Listed : lots'[s] = Flat
  BY <1>1, <1>lots, FlatIsLot DEF ReplayTyped
<1>7. CommittedRisk(lots) \in Nat /\ CommittedRisk(lots') = 0
  BY <1>lots, <1>6, CommittedNat, NothingCommitted
<1>8. earned.day \in Int /\ earned'.day \in Int /\ excess \in Nat /\ crest \in Nat
  BY <1>1, <1>5 DEF ReplayTyped, Earnings
<1>9. excess' \in Nat
  BY <1>excess, <1>7, <1>8 DEF Larger
<1>10. sessions' \in [Listed -> Seq(Nat)]
    BY <1>days, <1>1 DEF ReplayTyped
<1>11. ReplayTyped'
  BY <1>1, <1>2, <1>5, <1>6, <1>9, <1>10 DEF ReplayTyped
<1>12. ReplayInSession' /\ EntriesWaitFlat' /\ DecidedBefore' /\ CrestCovers'
    BY <1>1, <1>2, <1>3, <1>6 DEF ReplayInSession, DecidedBefore, CrestCovers, EntriesWaitFlat
<1>13. OpenNames' = {}
  BY <1>6 DEF OpenNames, OpenIn
<1>14. HaltEmptiesBook' /\ NextBarFills'
  BY <1>1, <1>2, <1>13 DEF HaltEmptiesBook, NextBarFills
<1>15. BookWithinBudget'
  <2>1. ~solo => CommittedRisk(lots') + Larger(0, -earned'.day) <= crest + excess'
    <3> SUFFICES ASSUME ~solo
                 PROVE  CommittedRisk(lots') + Larger(0, -earned'.day) <= crest + excess'
      OBVIOUS
    <3>1. CommittedRisk(lots) + Larger(0, -earned.day) <= crest + excess
      BY <1>1 DEF BookWithinBudget
    <3> QED BY <1>excess, <1>7, <1>8, <3>1 DEF Larger
  <2>2. MaxPositions \in Nat
    BY ReplayAssumption
  <2>3. Cardinality(OpenNames') <= MaxPositions
    BY <1>13, <2>2, FS_EmptySet
  <2>4. ~solo => \A s \in Listed : entries'[s] <= MaxOrders
    BY <1>1, <1>2 DEF BookWithinBudget
  <2> QED BY <1>2, <2>1, <2>3, <2>4 DEF BookWithinBudget
<1> QED BY <1>11, <1>12, <1>14, <1>15 DEF ReplayInv, PortfolioSound

LEMMA ReplayStutters == ReplayInv /\ UNCHANGED replayVars => ReplayInv'
<1> SUFFICES ASSUME ReplayInv, UNCHANGED replayVars  PROVE ReplayInv'
  OBVIOUS
<1>1. UNCHANGED <<solo, session, grid, hasty, crest, decided, excess, minute, turn, quotes,
                  marks, traded, sessions, lots, waiting, entries, earned, stopped>>
  BY DEF replayVars, dayVars, ghostVars
<1>2. ReplayTyped' /\ ReplayInSession' /\ EntriesWaitFlat' /\ DecidedBefore'
  BY <1>1 DEF ReplayInv, ReplayTyped, ReplayInSession, EntriesWaitFlat, DecidedBefore
<1>3. CrestCovers'
  BY <1>1 DEF ReplayInv, CrestCovers, DayBudget, AccountOf
<1>4. HaltEmptiesBook' /\ BookWithinBudget' /\ NextBarFills'
  BY <1>1 DEF ReplayInv, PortfolioSound, HaltEmptiesBook, BookWithinBudget, NextBarFills,
              OpenNames, OpenIn
<1> QED BY <1>2, <1>3, <1>4 DEF ReplayInv, PortfolioSound

LEMMA ReplayNextKeeps == ReplayInv /\ ReplayNext => ReplayInv'
BY ChooseSoloKeeps, StartSessionKeeps, TickKeeps, EventKeepsReplay, EndSessionKeeps DEF ReplayNext
-----------------------------------------------------------------------------
(* The scalper's replay: the trade at hand. *)

Reasons == {"eod", "hard_stop", "signal_flip", "target", "trail", "time_stop"}
Scalp == [dir : Directions, at : Nat, entry : Nat, high : Nat, armed : BOOLEAN, last : Nat]
Outcome == [net : Int, reason : Reasons]

ScalperTyped ==
  /\ clock \in Nat /\ trail \in BOOLEAN /\ proxied \in BOOLEAN
  /\ scalp \in Scalp /\ wanted \in Directions /\ scalps \in Seq(Outcome)
  /\ shown \in [c : Nat, at : Nat]

ScalperInv == ScalperTyped /\ LastKnownClose /\ NoOverstay

LEMMA QuoteNat ==
  ASSUME NEW b \in OptionBars \cup {NoQuote}
  PROVE  b.o \in Nat /\ b.h \in Nat /\ b.l \in Nat /\ b.c \in Nat
BY ScalperAssumption DEF NoQuote

LEMMA ShareNat ==
  ASSUME NEW x \in Nat, NEW pct \in Nat \X (Nat \ {0})
  PROVE  (x * pct[1]) \div pct[2] \in Nat
OBVIOUS

LEMMA FillsNat ==
  ASSUME NEW x \in Nat
  PROVE  /\ BuyFill(x) \in Nat /\ SellFill(x) \in Nat
         /\ Part(x, StopPct) \in Nat /\ Part(x, TargetPct) \in Nat /\ Part(x, TrailPct) \in Nat
BY ScalperAssumption, ShareNat DEF BuyFill, SellFill, Part

(* What is held after the entry, and what its last close is. *)
LEMMA EnteredIs ==
  ASSUME ScalperTyped, LastKnownClose, NEW b \in OptionBars \cup {NoQuote}
  PROVE  /\ Entered(b) \in Scalp
         /\ Entered(b) # NoScalp =>
              Entered(b).last = IF b # NoQuote THEN b.c ELSE shown.c
<1> DEFINE p == IF scalp = NoScalp /\ wanted # "FLAT" /\ b.o > 0
                THEN [dir |-> wanted, at |-> clock, entry |-> BuyFill(b.o), high |-> BuyFill(b.o),
                      armed |-> FALSE, last |-> BuyFill(b.o)]
                ELSE scalp
<1>1. Entered(b) = IF p # NoScalp /\ b # NoQuote THEN [p EXCEPT !.last = b.c] ELSE p
  BY DEF Entered
<1>2. b.o \in Nat /\ b.c \in Nat
  BY QuoteNat
<1>3. BuyFill(b.o) \in Nat
  BY <1>2, FillsNat
<1>4. p \in Scalp
  BY <1>3 DEF ScalperTyped, Scalp
<1>5. b = NoQuote => p = scalp
  BY DEF NoQuote
<1> HIDE DEF p
<1>6. CASE p # NoScalp /\ b # NoQuote
  BY <1>1, <1>2, <1>4, <1>6 DEF Scalp
<1>7. CASE p = NoScalp \/ b = NoQuote
  BY <1>1, <1>4, <1>5, <1>7 DEF LastKnownClose
<1> QED BY <1>6, <1>7

(* What a bar makes of the trade: it ends, or it goes on within its time. *)
LEMMA ManagedIs ==
  ASSUME NEW p \in Scalp, NEW b \in OptionBars \cup {NoQuote}, NEW now \in Nat, NEW dir,
         trail \in BOOLEAN, NEW m, m = ManageOpen(p, b, now, dir)
  PROVE  /\ m.out \in Reasons \cup {"none"} /\ m.ref \in Nat /\ m.pos \in Scalp
         /\ m.out = "none" => /\ now < EodExit
                              /\ m.pos.at = p.at /\ m.pos.last = p.last
                              /\ m.pos.armed \/ now - p.at < TimeStopMin
<1> DEFINE stop == Part(p.entry, StopPct)
           goal == Part(p.entry, TargetPct)
           arms == b # NoQuote /\ ~p.armed /\ b.h >= goal
           armed == p.armed \/ (arms /\ trail)
           high == IF b # NoQuote /\ armed THEN MaxOf(p.high, b.c) ELSE p.high
           q == [p EXCEPT !.armed = armed, !.high = high]
           floor == Part(high, TrailPct)
<1>1. p.entry \in Nat /\ p.high \in Nat /\ p.last \in Nat /\ p.at \in Nat /\ p.armed \in BOOLEAN
  BY DEF Scalp
<1>2. b.h \in Nat /\ b.l \in Nat /\ b.c \in Nat
  BY QuoteNat
<1>3. stop \in Nat /\ goal \in Nat
  BY <1>1, FillsNat
<1>4. armed \in BOOLEAN /\ high \in Nat
  BY <1>1, <1>2 DEF MaxOf
<1>5. floor \in Nat
  BY <1>4, FillsNat
<1>6. q \in Scalp /\ q.at = p.at /\ q.last = p.last /\ q.armed = armed
  <2> HIDE DEF armed, high
  <2>1. q = [[p EXCEPT !.armed = armed] EXCEPT !.high = high]
    OBVIOUS
  <2>2. [p EXCEPT !.armed = armed] \in Scalp
    BY <1>4 DEF Scalp
  <2> QED BY <1>4, <2>1, <2>2 DEF Scalp
<1>7. m = CASE now >= EodExit -> Leave("eod", p.last, p)
            [] now < EodExit /\ b # NoQuote /\ b.l <= stop -> Leave("hard_stop", stop, p)
            [] OTHER ->
                 IF dir # "FLAT" /\ dir # p.dir THEN Leave("signal_flip", p.last, p)
                 ELSE IF arms /\ ~trail THEN Leave("target", goal, p)
                 ELSE IF b # NoQuote /\ armed /\ b.c <= floor THEN Leave("trail", floor, q)
                 ELSE IF now - p.at >= TimeStopMin /\ ~armed THEN Leave("time_stop", p.last, q)
                 ELSE Stay(q)
  BY DEF ManageOpen
<1>8. EodExit \in Nat /\ TimeStopMin \in Nat
  BY ScalperAssumption
<1> HIDE DEF stop, goal, arms, armed, high, q, floor
<1>9. \/ m = Leave("eod", p.last, p) \/ m = Leave("hard_stop", stop, p)
      \/ m = Leave("signal_flip", p.last, p) \/ m = Leave("target", goal, p)
      \/ m = Leave("trail", floor, q) \/ m = Leave("time_stop", p.last, q)
      \/ m = Stay(q) /\ now < EodExit /\ ~(now - p.at >= TimeStopMin /\ ~armed)
    BY <1>7, <1>8
<1>10. CASE m = Stay(q) /\ now < EodExit /\ ~(now - p.at >= TimeStopMin /\ ~armed)
    BY <1>1, <1>6, <1>8, <1>10 DEF Stay
<1>11. CASE ~(m = Stay(q) /\ now < EodExit /\ ~(now - p.at >= TimeStopMin /\ ~armed))
    BY <1>1, <1>3, <1>5, <1>6, <1>9, <1>11 DEF Leave, Reasons
<1> QED BY <1>10, <1>11

LEMMA ClosedIs ==
  ASSUME NEW p \in Scalp, NEW ref \in Nat, NEW reason \in Reasons
  PROVE  Closed(p, ref, reason) \in Outcome
BY FillsNat, ScalperAssumption DEF Scalp, Closed, Outcome

LEMMA InitScalperInv == InitScalper => ScalperInv
<1> SUFFICES ASSUME InitScalper  PROVE ScalperInv
  OBVIOUS
<1>1. NoScalp \in Scalp
  BY DEF NoScalp, Scalp, Directions
<1>2. scalps \in Seq(Outcome)
    BY DEF InitScalper
<1> QED BY <1>1, <1>2
    DEF InitScalper, ScalperInv, ScalperTyped, LastKnownClose, NoOverstay, Directions

LEMMA MinuteKeeps ==
  ASSUME ScalperInv, NEW b \in OptionBars \cup {NoQuote}, NEW dir \in Directions, Minute(b, dir)
  PROVE  ScalperInv'
<1> DEFINE p == Entered(b)
           m == ManageOpen(p, b, clock, dir)
<1>1. ScalperTyped /\ LastKnownClose
  BY DEF ScalperInv
<1>2. /\ p \in Scalp
      /\ p # NoScalp => p.last = IF b # NoQuote THEN b.c ELSE shown.c
  BY <1>1, EnteredIs
<1>3. clock \in Nat /\ trail \in BOOLEAN /\ scalps \in Seq(Outcome)
  BY <1>1 DEF ScalperTyped
<1>4. /\ scalp' = IF p = NoScalp THEN p ELSE IF m.out = "none" THEN m.pos ELSE NoScalp
      /\ scalps' = IF p # NoScalp /\ m.out # "none"
                   THEN Append(scalps, Closed(p, m.ref, m.out)) ELSE scalps
      /\ shown' = [c |-> IF p # NoScalp /\ b # NoQuote THEN b.c ELSE shown.c, at |-> clock]
      /\ wanted' = IF p = NoScalp /\ clock < NoNewEntry /\ clock < EodExit THEN dir ELSE "FLAT"
      /\ clock' = clock + 1 /\ trail' = trail /\ proxied' = proxied
  BY DEF Minute
<1>m. m = ManageOpen(p, b, clock, dir)
  OBVIOUS
<1> HIDE DEF p, m
<1>5. /\ m.out \in Reasons \cup {"none"} /\ m.ref \in Nat /\ m.pos \in Scalp
      /\ m.out = "none" => /\ clock < EodExit
                           /\ m.pos.at = p.at /\ m.pos.last = p.last
                           /\ m.pos.armed \/ clock - p.at < TimeStopMin
  <2>1. p \in Scalp /\ clock \in Nat /\ trail \in BOOLEAN
    BY <1>2, <1>3
  <2> QED BY <2>1, <1>m, ManagedIs
<1>6. NoScalp \in Scalp
  BY DEF NoScalp, Scalp, Directions
<1>7. scalp' \in Scalp
  BY <1>2, <1>4, <1>5, <1>6
<1>8. scalps' \in Seq(Outcome)
  <2>1. CASE p # NoScalp /\ m.out # "none"
      BY <1>2, <1>3, <1>4, <1>5, <2>1, ClosedIs
  <2>2. CASE ~(p # NoScalp /\ m.out # "none")
    BY <1>3, <1>4, <2>2
  <2> QED BY <2>1, <2>2
<1>9. shown' \in [c : Nat, at : Nat] /\ shown'.at = clock
      /\ shown'.c = IF p # NoScalp /\ b # NoQuote THEN b.c ELSE shown.c
    BY <1>1, <1>3, <1>4, QuoteNat DEF ScalperTyped
<1>10. ScalperTyped'
    BY <1>1, <1>3, <1>4, <1>7, <1>8, <1>9 DEF Directions, ScalperTyped
<1>11. LastKnownClose' /\ NoOverstay'
  <2>1. CASE scalp' = NoScalp
    BY <2>1 DEF LastKnownClose, NoOverstay
  <2>2. CASE scalp' # NoScalp
      BY <1>2, <1>4, <1>5, <1>9, <2>2 DEF LastKnownClose, NoOverstay
  <2> QED BY <2>1, <2>2
<1> QED BY <1>10, <1>11 DEF ScalperInv

LEMMA ScalperNextKeeps == ScalperInv /\ ScalperNext => ScalperInv'
<1> SUFFICES ASSUME ScalperInv, ScalperNext  PROVE ScalperInv'
  OBVIOUS
<1>1. CASE (\E t, x \in BOOLEAN : ChooseRun(t, x)) \/ NoUnderlying
  BY <1>1 DEF ChooseRun, NoUnderlying, ScalperInv, ScalperTyped, LastKnownClose, NoOverstay
<1>2. CASE EndDay
  <2>1. /\ clock' = clock + 1 /\ scalp' = NoScalp /\ wanted' = "FLAT"
        /\ trail' = trail /\ proxied' = proxied /\ shown' = shown
        /\ scalps' = IF scalp = NoScalp THEN scalps
                     ELSE Append(scalps, Closed(scalp, scalp.last, "eod"))
    BY <1>2 DEF EndDay
  <2>2. ScalperTyped /\ scalp \in Scalp /\ scalp.last \in Nat /\ scalps \in Seq(Outcome)
    BY DEF ScalperInv, ScalperTyped, Scalp
  <2>3. Closed(scalp, scalp.last, "eod") \in Outcome
    BY <2>2, ClosedIs DEF Reasons
  <2>4. scalps' \in Seq(Outcome)
    BY <2>1, <2>2, <2>3
  <2>5. NoScalp \in Scalp /\ "FLAT" \in Directions
    BY DEF NoScalp, Scalp, Directions
  <2> QED BY <2>1, <2>2, <2>4, <2>5 DEF ScalperInv, ScalperTyped, LastKnownClose, NoOverstay
<1>3. CASE \E b \in OptionBars \cup {NoQuote}, dir \in Directions : Minute(b, dir)
  BY <1>3, MinuteKeeps
<1> QED BY <1>1, <1>2, <1>3 DEF ScalperNext

LEMMA ScalperStutters == ScalperInv /\ UNCHANGED scalperVars => ScalperInv'
BY DEF ScalperInv, ScalperTyped, LastKnownClose, NoOverstay, scalperVars

-----------------------------------------------------------------------------
(* The figures of the closed trades. *)

TradeNets == [i \in DOMAIN scalps |-> scalps[i].net]

LEMMA NetsInt ==
  ScalperTyped => \A i \in DOMAIN scalps : TradeNets[i] \in Int /\ TradeNets[i] = scalps[i].net
<1> SUFFICES ASSUME ScalperTyped, NEW i \in DOMAIN scalps
             PROVE  TradeNets[i] \in Int /\ TradeNets[i] = scalps[i].net
  OBVIOUS
<1>1. scalps[i] \in Outcome
  BY DEF ScalperTyped
<1> QED BY <1>1 DEF TradeNets, Outcome

(* The fold of Summed is the sum of the nets. *)
LEMMA SummedIs ==
  ASSUME NEW S \in SUBSET DOMAIN scalps, IsFiniteSet(S)
  PROVE  Summed(S) = Sum(TradeNets, S)
<1> DEFINE Is(g) == g = [s \in SUBSET S |-> IF s = {} THEN 0
                      ELSE scalps[CHOOSE x \in s : TRUE].net + g[s \ {CHOOSE x \in s : TRUE}]]
<1>1. Summed(S) = (CHOOSE g : Is(g))[S]
  BY DEF Summed, FoldFunctionOnSet, MapThenFoldSet
<1>2. IsSum(SumFn(TradeNets, S), TradeNets, S)
  BY SumIs
<1>3. ASSUME NEW g PROVE Is(g) <=> IsSum(g, TradeNets, S)
    BY Picks DEF Pick, TradeNets, IsSum
<1>4. Is(CHOOSE g : Is(g))
  <2> HIDE DEF Is
  <2> QED BY <1>2, <1>3
<1>5. IsSum(CHOOSE g : Is(g), TradeNets, S)
  <2> HIDE DEF Is
  <2> QED BY <1>3, <1>4
<1>6. (CHOOSE g : Is(g))[S] = SumFn(TradeNets, S)[S]
  <2> HIDE DEF Is
  <2> QED BY <1>2, <1>5, SumsAgree
<1> QED BY <1>1, <1>6 DEF Sum

(* The arithmetic of the rate: wins weigh more than losses exactly when    *)
(* their rate lies above the break-even rate.                              *)
LEMMA WeighedRate ==
  ASSUME NEW won \in Nat, NEW lost \in Nat, won > 0, lost > 0, NEW x \in Int, NEW y \in Int
  PROVE  won * (x * lost + y * won) > (y * won) * (won + lost) <=> x - y > 0
<1> DEFINE k == won * lost
<1>1. k \in Nat /\ k > 0
  OBVIOUS
<1>2. won * (x * lost + y * won) = k * x + y * (won * won)
  OBVIOUS
<1>3. (y * won) * (won + lost) = k * y + y * (won * won)
  OBVIOUS
<1>4. y * (won * won) \in Int /\ k * x \in Int /\ k * y \in Int
  BY <1>1
<1> HIDE DEF k
<1>5. k * x > k * y <=> x > y
  BY <1>1
<1> QED BY <1>2, <1>3, <1>4, <1>5

(* The first part of BreakEvenDecides. *)
LEMMA RateDecides ==
  ASSUME ScalperTyped, scalps # <<>>, Won \cup Lost = DOMAIN scalps
  PROVE  Cardinality(Won) * BreakEven[2] > BreakEven[1] * Len(scalps) <=> Summed(DOMAIN scalps) > 0
<1> DEFINE D == DOMAIN scalps
           up == Sum(TradeNets, Won)
           down == Sum(TradeNets, Lost)
           won == Cardinality(Won)
           lost == Cardinality(Lost)
<1>1. scalps \in Seq(Outcome) /\ D = 1 .. Len(scalps) /\ Len(scalps) \in Nat
  BY DEF ScalperTyped
<1>2. IsFiniteSet(D) /\ Cardinality(D) = Len(scalps)
  BY <1>1, CountTo
<1>3. \A i \in D : TradeNets[i] \in Int /\ TradeNets[i] = scalps[i].net
  BY NetsInt
<1>4. Won \in SUBSET D /\ Lost \in SUBSET D /\ D \ Won = Lost /\ Won \cap Lost = {}
  BY <1>3 DEF Won, Lost
<1>5. IsFiniteSet(Won) /\ IsFiniteSet(Lost) /\ won \in Nat /\ lost \in Nat
  BY <1>2, <1>4, FS_Subset, FS_CardinalityType
<1>6. Len(scalps) = won + lost
  <2>1. Cardinality(Won \cap Lost) = 0
    BY <1>4, FS_EmptySet
  <2>2. Cardinality(Won \cup Lost) = won + lost - Cardinality(Won \cap Lost)
    BY <1>5, FS_Union
  <2> QED BY <1>2, <1>5, <2>1, <2>2
<1>7. Summed(D) = up + down /\ Summed(Won) = up /\ Summed(Lost) = down
    BY <1>2, <1>3, <1>4, <1>5, SummedIs, SumParts
<1>8. Won # {} => up \in Int /\ up > 0 /\ won > 0
  <2> SUFFICES ASSUME Won # {}  PROVE up \in Int /\ up > 0 /\ won > 0
    OBVIOUS
  <2>1. \A i \in Won : TradeNets[i] \in Nat /\ TradeNets[i] > 0
    BY <1>3 DEF Won
  <2>2. won # 0
    BY <1>5, FS_EmptySet
  <2> QED BY <1>5, <2>1, <2>2, SumPositive
<1>9. Lost # {} => down \in Int /\ down < 0 /\ lost > 0
  <2> SUFFICES ASSUME Lost # {}  PROVE down \in Int /\ down < 0 /\ lost > 0
    OBVIOUS
  <2> DEFINE v == [i \in Lost |-> 0 - TradeNets[i]]
  <2>1. \A i \in Lost : v[i] \in Nat /\ v[i] > 0 /\ v[i] \in Int /\ TradeNets[i] = 0 - v[i]
    BY <1>3, <1>4 DEF Lost
  <2> HIDE DEF v
  <2>2. Sum(v, Lost) \in Int /\ Sum(v, Lost) > 0
    BY <1>5, <2>1, SumPositive
  <2>3. down = 0 - Sum(v, Lost)
    BY <1>5, <2>1, SumOpposite
  <2>4. lost # 0
    BY <1>5, FS_EmptySet
  <2> QED BY <1>5, <2>2, <2>3, <2>4
<1>10. Won # {} \/ Lost # {}
  BY <1>1
<1> DEFINE win == Average(Won, 1)
           loss == Average(Lost, -1)
<1>11. win = IF Won = {} THEN <<0, 1>> ELSE <<1 * up, won>>
  BY <1>7 DEF Average
<1>12. loss = IF Lost = {} THEN <<0, 1>> ELSE <<(-1) * down, lost>>
  BY <1>7 DEF Average
<1>13. BreakEven = BreakEvenRate(win, loss)
  BY DEF BreakEven
<1> HIDE DEF win, loss, up, down, won, lost, D
<1>14. CASE Won = {}
  <2>1. Lost # {} /\ won = 0 /\ up = 0
    BY <1>10, <1>14, SumEmpty, FS_EmptySet DEF won, up
  <2>2. loss # <<0, 1>> /\ win = <<0, 1>>
    BY <1>9, <1>11, <1>12, <1>14, <2>1
  <2>3. BreakEven = <<1, 1>>
    BY <1>13, <2>2 DEF BreakEvenRate
  <2> QED BY <1>5, <1>6, <1>7, <1>9, <2>1, <2>3 DEF won, lost, D
<1>15. CASE Won # {} /\ Lost = {}
  <2>1. lost = 0 /\ down = 0
    BY <1>15, SumEmpty, FS_EmptySet DEF lost, down
  <2>2. loss = <<0, 1>> /\ win # <<0, 1>>
    BY <1>8, <1>11, <1>12, <1>15
  <2>3. BreakEven = <<0, 1>>
    BY <1>13, <2>2 DEF BreakEvenRate
  <2> QED BY <1>5, <1>6, <1>7, <1>8, <1>15, <2>1, <2>3 DEF won, D
<1>16. CASE Won # {} /\ Lost # {}
  <2> DEFINE y == 0 - down
  <2>1. /\ up \in Int /\ up > 0 /\ won > 0 /\ won \in Nat /\ lost > 0 /\ lost \in Nat
        /\ y \in Int /\ y > 0 /\ down = 0 - y
    BY <1>5, <1>8, <1>9, <1>16 DEF won, lost
  <2>2. win = <<up, won>> /\ loss = <<y, lost>>
    BY <1>11, <1>12, <1>16, <2>1
  <2> HIDE DEF y
  <2>3. win # <<0, 1>> /\ loss # <<0, 1>>
    BY <2>1, <2>2
  <2>4. BreakEven = <<y * won, up * lost + y * won>>
    BY <1>13, <2>2, <2>3 DEF BreakEvenRate
  <2>5. won * (up * lost + y * won) > (y * won) * (won + lost) <=> up - y > 0
    BY <2>1, WeighedRate
  <2>6. Summed(DOMAIN scalps) = up - y
    BY <1>7, <2>1 DEF D
  <2> QED BY <1>6, <2>4, <2>5, <2>6 DEF won
<1> QED BY <1>14, <1>15, <1>16

(* A bar of two options' prices holds its open and its close. *)
LEMMA ProxiesHold == ProxyWellFormed
<1> SUFFICES ASSUME NEW c \in OptionBars, NEW p \in OptionBars
             PROVE  LET b == ProxyBar(c, p)
                    IN  b.l <= b.o /\ b.o <= b.h /\ b.l <= b.c /\ b.c <= b.h
  BY DEF ProxyWellFormed
<1> DEFINE o == c.o - p.o
           cl == c.c - p.c
           hi == c.h - p.l
           lo == c.l - p.h
<1>1. o \in Int /\ cl \in Int /\ hi \in Int /\ lo \in Int
  BY ScalperAssumption
<1>2. ProxyBar(c, p) = [o |-> o, c |-> cl, h |-> Max({o, cl, hi}), l |-> Min({o, cl, lo})]
  BY DEF ProxyBar
<1> HIDE DEF o, cl, hi, lo
<1>3. Max({o, cl, hi}) >= o /\ Max({o, cl, hi}) >= cl /\ Max({o, cl, hi}) \in Int
    BY <1>1 DEF Max
<1>4. Min({o, cl, lo}) <= o /\ Min({o, cl, lo}) <= cl /\ Min({o, cl, lo}) \in Int
    BY <1>1 DEF Min
<1> DEFINE top == Max({o, cl, hi})
           low == Min({o, cl, lo})
<1> HIDE DEF top, low
<1>5. ProxyBar(c, p) = [o |-> o, c |-> cl, h |-> top, l |-> low]
  BY <1>2 DEF top, low
<1>6. top >= o /\ top >= cl /\ low <= o /\ low <= cl /\ top \in Int /\ low \in Int
  BY <1>3, <1>4 DEF top, low
<1> QED BY <1>1, <1>5, <1>6

-----------------------------------------------------------------------------
(* Two folds that look at the trades in order: the longest run of losses,  *)
(* and the drawdown.                                                       *)

Streak(a, x) ==
  IF x.net < 0 THEN [run |-> a.run + 1, best |-> MaxOf(a.best, a.run + 1)] ELSE [a EXCEPT !.run = 0]

Fall(a, p) ==
  LET cum == a.cum + p
      peak == IF cum > a.peak THEN cum ELSE a.peak
  IN  [cum |-> cum, peak |-> peak, worst |-> IF cum - peak < a.worst THEN cum - peak ELSE a.worst]

Start(of) ==
  IF of = "streak" THEN [run |-> 0, best |-> 0] ELSE [cum |-> 0, peak |-> 0, worst |-> 0]
Tally(of, a, x) == IF of = "streak" THEN Streak(a, x) ELSE Fall(a, x)

(* g tallies the trades ss over every subset of S, the last one last. *)
IsTally(of, g, ss, S) ==
  g = [s \in SUBSET S |-> IF s = {} THEN Start(of)
                          ELSE Tally(of, g[s \ {Max(s)}], ss[Max(s)])]

TallyFn(of, ss, S) == CHOOSE g : IsTally(of, g, ss, S)

(* A nonempty finite set of integers has a greatest element. *)
LEMMA GreatestOf ==
  ASSUME NEW S, IsFiniteSet(S), \A x \in S : x \in Int, S # {}
  PROVE  Max(S) \in S /\ \A x \in S : Max(S) >= x
<1> DEFINE f == [x \in S |-> 0 - x]
           T == {0 - x : x \in S}
<1>1. IsFiniteSet(T)
  <2>1. f \in Surjection(S, T)
    BY DEF Surjection
  <2> QED BY <2>1, FS_Surjection
<1>2. T # {} /\ \A y \in T : y \in Int
  OBVIOUS
<1>3. Min(T) \in T /\ \A y \in T : Min(T) <= y
  <2> HIDE DEF T
  <2> QED BY <1>1, <1>2, LeastOf
<1>4. PICK x \in S : Min(T) = 0 - x
  BY <1>3
<1>5. \A y \in S : x >= y
  <2> SUFFICES ASSUME NEW y \in S  PROVE x >= y
    OBVIOUS
  <2>1. 0 - y \in T /\ x \in Int /\ y \in Int
    OBVIOUS
  <2>2. 0 - x <= 0 - y
    BY <1>3, <1>4, <2>1
  <2> QED BY <2>1, <2>2
<1> QED BY <1>5 DEF Max

LEMMA TalliesAgree ==
  ASSUME NEW S, NEW R, NEW of, IsFiniteSet(S), \A x \in S : x \in Int, NEW g, NEW h, NEW ss,
         IsTally(of, g, ss, S), IsTally(of, h, ss, R), NEW s \in SUBSET (S \cap R)
  PROVE  g[s] = h[s]
<1> DEFINE Bad == {r \in SUBSET s : g[r] # h[r]}
<1> SUFFICES ASSUME Bad # {}  PROVE FALSE
  OBVIOUS
<1>1. PICK r \in Bad : \A q \in Bad : q \subseteq r => q = r
  <2>1. IsFiniteSet(s)
    BY FS_Subset
  <2>2. Bad \in SUBSET SUBSET s
    OBVIOUS
  <2> HIDE DEF Bad
  <2> QED BY <2>1, <2>2, SmallestSet
<1> r \in SUBSET s /\ r \in SUBSET S /\ r \in SUBSET R
  BY <1>1
<1>2. g[r] = (IF r = {} THEN Start(of) ELSE Tally(of, g[r \ {Max(r)}], ss[Max(r)]))
  BY DEF IsTally
<1>3. h[r] = (IF r = {} THEN Start(of) ELSE Tally(of, h[r \ {Max(r)}], ss[Max(r)]))
  BY DEF IsTally
<1>4. r # {}
  BY <1>1, <1>2, <1>3
<1>5. Max(r) \in r
  BY <1>4, FS_Subset, GreatestOf
<1>6. g[r \ {Max(r)}] = h[r \ {Max(r)}]
  BY <1>1, <1>5
<1> QED BY <1>1, <1>2, <1>3, <1>4, <1>6

LEMMA TallyExists ==
  ASSUME NEW S, IsFiniteSet(S), \A x \in S : x \in Int, NEW of, NEW ss
  PROVE  \E g : IsTally(of, g, ss, S)
<1> DEFINE Bad == {r \in SUBSET S : ~ \E g : IsTally(of, g, ss, r)}
<1> SUFFICES ASSUME Bad # {}  PROVE FALSE
  OBVIOUS
<1>1. PICK s \in Bad : \A q \in Bad : q \subseteq s => q = s
  <2>1. Bad \in SUBSET SUBSET S
    OBVIOUS
  <2> HIDE DEF Bad
  <2> QED BY <2>1, SmallestSet
<1> DEFINE base == Start(of)
           h(q) == TallyFn(of, ss, q)[q]
           k(q) == IF q = {} THEN base ELSE Tally(of, h(q \ {Max(q)}), ss[Max(q)])
           g == [q \in SUBSET s |-> k(q)]
<1> HIDE DEF base
<1>2. ASSUME NEW q \in SUBSET s, q # {}  PROVE Max(q) \in q
  BY <1>1, <1>2, FS_Subset, GreatestOf
<1>3. ASSUME NEW q \in SUBSET s, q # s  PROVE h(q) = k(q)
  <2>1. IsTally(of, TallyFn(of, ss, q), ss, q)
    BY <1>1, <1>3 DEF TallyFn
  <2>2. h(q) = IF q = {} THEN base ELSE Tally(of, TallyFn(of, ss, q)[q \ {Max(q)}], ss[Max(q)])
    BY <2>1 DEF IsTally, base
  <2>3. CASE q = {}
    BY <2>2, <2>3
  <2>4. CASE q # {}
    <3> DEFINE p == q \ {Max(q)}
    <3>1. p \in SUBSET q /\ p \in SUBSET s /\ p # s
      BY <1>2, <2>4
    <3>2. IsTally(of, TallyFn(of, ss, p), ss, p)
      BY <1>1, <3>1 DEF TallyFn
    <3>3. IsFiniteSet(q) /\ \A x \in q : x \in Int
      BY <1>1, FS_Subset
    <3>4. TallyFn(of, ss, q)[p] = TallyFn(of, ss, p)[p]
      BY <2>1, <3>1, <3>2, <3>3, TalliesAgree
    <3> QED BY <2>2, <2>4, <3>4
  <2> QED BY <2>3, <2>4
<1>4. ASSUME NEW q \in SUBSET s
      PROVE  g[q] = IF q = {} THEN base ELSE Tally(of, g[q \ {Max(q)}], ss[Max(q)])
  <2>1. CASE q = {}
    BY <2>1
  <2>2. CASE q # {}
      BY <1>2, <1>3, <2>2
  <2> QED BY <2>1, <2>2
<1>5. IsTally(of, g, ss, s)
  <2> HIDE DEF k
  <2> QED BY <1>4 DEF IsTally, base
<1> QED BY <1>1, <1>5

LEMMA StreakIs ==
  ASSUME IsFiniteSet(DOMAIN scalps), \A x \in DOMAIN scalps : x \in Int
  PROVE  /\ IsTally("streak", TallyFn("streak", scalps, DOMAIN scalps), scalps, DOMAIN scalps)
         /\ LossStreak = TallyFn("streak", scalps, DOMAIN scalps)[DOMAIN scalps].best
<1>1. IsTally("streak", TallyFn("streak", scalps, DOMAIN scalps), scalps, DOMAIN scalps)
  BY TallyExists DEF TallyFn
<1>2. LossStreak = TallyFn("streak", scalps, DOMAIN scalps)[DOMAIN scalps].best
  BY DEF LossStreak, FoldLeft, MapThenFoldSet, TallyFn, IsTally, Tally, Start, Streak
<1> QED BY <1>1, <1>2

(* No run of losses is longer than the streak. *)
LEMMA StreakCovers ==
  ASSUME ScalperTyped, NEW i \in DOMAIN scalps, NEW j \in DOMAIN scalps,
         i <= j, (i .. j) \subseteq Lost
  PROVE  LossStreak >= j - i + 1
<1> DEFINE n == Len(scalps)
           g == TallyFn("streak", scalps, DOMAIN scalps)
           t(k) == g[1 .. k]
           Lossy(a, b) == \A x \in a .. b : scalps[x].net < 0
           Covers(k) ==
             /\ t(k) \in [run : Nat, best : Nat]
             /\ \A a \in 1 .. k, b \in 1 .. k :
                  a <= b /\ Lossy(a, b) => /\ t(k).best >= b - a + 1
                                           /\ b = k => t(k).run >= b - a + 1
<1>1. scalps \in Seq(Outcome) /\ DOMAIN scalps = 1 .. n /\ n \in Nat
  BY DEF ScalperTyped
<1>2. IsFiniteSet(DOMAIN scalps) /\ \A x \in DOMAIN scalps : x \in Int
  BY <1>1, PlacesOf
<1>3. IsTally("streak", g, scalps, DOMAIN scalps) /\ LossStreak = g[DOMAIN scalps].best
  BY <1>2, StreakIs
<1> HIDE DEF g, n
<1>4. t(0) = [run |-> 0, best |-> 0]
    BY <1>3 DEF IsTally, Start
<1>5. ASSUME NEW k \in 1 .. n  PROVE t(k) = Tally("streak", t(k - 1), scalps[k])
  <2>1. k \in Nat /\ k >= 1 /\ 1 .. k # {} /\ 1 .. k \in SUBSET DOMAIN scalps
    BY <1>1
  <2>2. Max(1 .. k) = k
    BY <2>1 DEF Max
  <2>3. (1 .. k) \ {k} = 1 .. (k - 1)
    BY <2>1
  <2>4. t(k) = Tally("streak", g[(1 .. k) \ {Max(1 .. k)}], scalps[Max(1 .. k)])
    BY <1>3, <2>1 DEF IsTally
  <2> QED BY <2>2, <2>3, <2>4
<1> HIDE DEF t
<1>6. Covers(0)
  BY <1>4
<1>7. ASSUME NEW k \in 1 .. n, Covers(k - 1)  PROVE Covers(k)
  <2> DEFINE r == t(k - 1)
  <2>1. r \in [run : Nat, best : Nat] /\ k \in Nat /\ k >= 1 /\ scalps[k].net \in Int
    <3>1. scalps[k] \in Outcome
      BY <1>1
    <3> QED BY <1>1, <1>7, <3>1 DEF Outcome
  <2>2. t(k) = Tally("streak", r, scalps[k])
    BY <1>5
  <2>3. ASSUME NEW a \in 1 .. (k - 1), NEW b \in 1 .. (k - 1), a <= b, Lossy(a, b)
        PROVE  r.best >= b - a + 1 /\ (b = k - 1 => r.run >= b - a + 1)
    BY <1>7, <2>3
  <2> HIDE DEF r, Lossy
  <2>4. CASE scalps[k].net < 0
    <3>1. t(k) = [run |-> r.run + 1, best |-> MaxOf(r.best, r.run + 1)]
      BY <2>2, <2>4 DEF Tally, Streak
    <3>2. /\ t(k).run = r.run + 1 /\ t(k).best >= r.best /\ t(k).best >= r.run + 1
          /\ t(k) \in [run : Nat, best : Nat] /\ r.run \in Nat /\ r.best \in Nat /\ t(k).best \in Nat
      BY <2>1, <3>1 DEF MaxOf
    <3>3. ASSUME NEW a \in 1 .. k, NEW b \in 1 .. k, a <= b, Lossy(a, b)
          PROVE  t(k).best >= b - a + 1 /\ (b = k => t(k).run >= b - a + 1)
      <4>1. CASE b < k
          BY <2>1, <2>3, <3>2, <3>3, <4>1
      <4>2. CASE b = k /\ a = k
        BY <2>1, <3>2, <4>2
      <4>3. CASE b = k /\ a < k
          BY <2>1, <2>3, <3>2, <3>3, <4>3 DEF Lossy
      <4> QED BY <2>1, <3>3, <4>1, <4>2, <4>3
    <3> QED BY <3>2, <3>3
  <2>5. CASE ~(scalps[k].net < 0)
    <3>1. t(k) = [r EXCEPT !.run = 0]
      BY <2>2, <2>5 DEF Tally, Streak
    <3>2. t(k).best = r.best /\ t(k) \in [run : Nat, best : Nat]
      BY <2>1, <3>1
    <3>3. ASSUME NEW a \in 1 .. k, NEW b \in 1 .. k, a <= b, Lossy(a, b)
          PROVE  t(k).best >= b - a + 1 /\ b # k
        BY <2>1, <2>3, <2>5, <3>2, <3>3 DEF Lossy
    <3> QED BY <3>2, <3>3
  <2> QED BY <2>4, <2>5
<1>8. Covers(n)
  <2> DEFINE Bad == {k \in 0 .. n : ~Covers(k)}
  <2> HIDE DEF Covers
  <2>1. ASSUME Bad # {}  PROVE FALSE
    <3>2. IsFiniteSet(Bad) /\ \A x \in Bad : x \in Int
      <4>1. Bad \in SUBSET (0 .. n) /\ \A x \in Bad : x \in Int
        BY <1>1
      <4> HIDE DEF Bad
      <4> QED BY <1>1, <4>1, Within
    <3>3. Min(Bad) \in Bad /\ \A x \in Bad : Min(Bad) <= x
      BY <2>1, <3>2, LeastOf
    <3> DEFINE k == Min(Bad)
    <3>4. k \in 0 .. n /\ ~Covers(k) /\ \A x \in Bad : k <= x
      BY <3>3
    <3> HIDE DEF k, Bad
    <3>5. k # 0
      BY <1>6, <3>4
    <3>6. k \in 1 .. n /\ k - 1 \in 0 .. n /\ ~(k <= k - 1)
      BY <1>1, <3>4, <3>5
    <3>7. Covers(k - 1)
      BY <3>4, <3>6 DEF Bad
    <3> QED BY <1>7, <3>4, <3>6, <3>7
  <2>2. n \in 0 .. n
    BY <1>1
  <2> QED BY <2>1, <2>2
<1>9. i \in 1 .. n /\ j \in 1 .. n /\ Lossy(i, j)
  BY <1>1 DEF Lost
<1>10. t(n).best >= j - i + 1
  BY <1>8, <1>9
<1> QED BY <1>1, <1>3, <1>10 DEF t

LEMMA ScalperAddsUp == ScalperInv => ScalperReplaySound
<1> SUFFICES ASSUME ScalperInv  PROVE ScalperReplaySound
  OBVIOUS
<1>1. ScalperTyped /\ LastKnownClose /\ NoOverstay
  BY DEF ScalperInv
<1>2. BreakEvenDecides
  BY <1>1, RateDecides, StreakCovers DEF BreakEvenDecides
<1> QED BY <1>1, <1>2, ProxiesHold DEF ScalperReplaySound

-----------------------------------------------------------------------------
ReplaysInv == ReplayInv /\ ScalperInv

LEMMA NextKeepsReplays == ReplaysInv /\ [Next]_vars => ReplaysInv'
<1> SUFFICES ASSUME ReplaysInv, [Next]_vars  PROVE ReplaysInv'
  OBVIOUS
<1>1. \/ ReplayNext /\ UNCHANGED scalperVars
      \/ ScalperNext /\ UNCHANGED replayVars
      \/ UNCHANGED <<replayVars, scalperVars>>
  BY DEF Next, vars
<1> QED BY <1>1, ReplayNextKeeps, ReplayStutters, ScalperNextKeeps, ScalperStutters DEF ReplaysInv

(* The intraday replays: once the kill switch has fired, every position    *)
(* left waits for its exit and no day ends with one; a day's losses and    *)
(* what is at risk stay within its budget, up to what trades lost beyond   *)
(* their stops; fills never look ahead (replay_portfolio()).  The scalper  *)
(* holds no trade past its time and knows its last close, and its          *)
(* break-even rate and longest losing streak are those of its trades       *)
(* (replay_day(), compute_metrics()).                                      *)
THEOREM ReplaysAlwaysSound == Spec => []ReplaysSound
<1>1. Init => ReplaysInv
  BY InitReplayInv, InitScalperInv DEF Init, ReplaysInv
<1>2. ReplaysInv => ReplaysSound
  BY ScalperAddsUp DEF ReplaysInv, ReplayInv, ReplaysSound
<1> QED BY <1>1, <1>2, NextKeepsReplays, PTL DEF Spec

-----------------------------------------------------------------------------
(* The cycle loader. *)

(* Days are numbers, and a year has finitely many so far. *)
LEMMA DaysCount ==
  ASSUME CyclesTypeOK
  PROVE  /\ AllDays \subseteq Nat
         /\ BarDays \subseteq AllDays \ holidays /\ BarDays \subseteq 0 .. today
         /\ today \in Int
<1> USE CyclesAssumption DEF CyclesAssumption
<1>1. AllDays \subseteq Nat
  <2> SUFFICES ASSUME NEW w \in 0 .. Weeks - 1, NEW d \in OpenDays  PROVE 7 * w + d \in Nat
    BY DEF AllDays
  <2>1. w \in Nat /\ d \in Nat
    OBVIOUS
  <2> QED BY <2>1
<1>2. today \in Int
  BY DEF CyclesTypeOK
<1>3. BarDays \subseteq AllDays \ holidays /\ \A d \in BarDays : d <= today
  BY DEF BarDays
<1>4. BarDays \subseteq 0 .. today
  BY <1>1, <1>2, <1>3
<1> QED BY <1>1, <1>2, <1>3, <1>4

(* A set of the days with bars has a first and a last. *)
LEMMA DaysBounded ==
  ASSUME CyclesTypeOK, NEW D \in SUBSET BarDays, D # {}
  PROVE  /\ Max(D) \in D /\ \A d \in D : Max(D) >= d
         /\ Min(D) \in D /\ \A d \in D : Min(D) <= d
<1>1. today \in Int /\ BarDays \subseteq 0 .. today
  BY DaysCount
<1>2. IsFiniteSet(D)
  <2>1. IsFiniteSet(0 .. today)
    BY <1>1, FS_Interval
  <2>2. D \subseteq 0 .. today
    BY <1>1
  <2> QED BY <2>1, <2>2, FS_Subset
<1>3. \A d \in D : d \in Int
  BY <1>1
<1> QED BY <1>2, <1>3, LeastOf, GreatestOf

LEMMA CyclesTyped ==
  ASSUME CyclesTypeOK, CyclesNext
  PROVE  CyclesTypeOK'
<1> USE CyclesAssumption DEF CyclesAssumption
<1>1. ASSUME NEW H \in SUBSET AllDays, Publish(H)  PROVE CyclesTypeOK'
  <2>1. obs = {}
      BY <1>1, DaysCount DEF Publish, CyclesTypeOK
  <2>2. AllDays' = AllDays
    BY DEF AllDays
  <2>3. today' \in -1 .. 7 * Weeks - 1
    BY <1>1 DEF Publish
  <2> QED BY <1>1, <2>1, <2>2, <2>3 DEF Publish, CyclesTypeOK
<1>2. CASE DayPasses
  <2>1. today' \in -1 .. 7 * Weeks - 1
    BY <1>2 DEF DayPasses, CyclesTypeOK
  <2>2. /\ AllDays' = AllDays /\ TrueExpiries' = TrueExpiries
        /\ holidays' = holidays /\ obs' = obs
    BY <1>2 DEF DayPasses, AllDays, TrueExpiries, Expiry, WeekdayFor
  <2>3. BarDays \subseteq BarDays'
      BY <1>2, <2>2, DaysCount DEF DayPasses, BarDays
  <2> QED BY <2>1, <2>2, <2>3 DEF CyclesTypeOK
<1>3. ASSUME NEW e \in TrueExpiries, Observe(e)  PROVE CyclesTypeOK'
    BY <1>3 DEF Observe, AllDays, TrueExpiries, Expiry, WeekdayFor, BarDays, CyclesTypeOK
<1> QED BY <1>1, <1>2, <1>3 DEF CyclesNext

(* A week's boundary is a day of the week. *)
LEMMA SnapInWeek ==
  ASSUME CyclesTypeOK, NEW D \in SUBSET BarDays, D # {}
  PROVE  Snap(D) \in D
<1> DEFINE before == {d \in D : DayOf(d) <= WeekdayFor(Max(D))}
<1>1. CASE before # {}
  <2>1. before \in SUBSET BarDays /\ before \subseteq D
    OBVIOUS
  <2>2. Snap(D) = Max(before)
    BY <1>1 DEF Snap
  <2>3. Max(before) \in before
    <3> HIDE DEF before
    <3> QED BY <1>1, <2>1, DaysBounded
  <2> QED BY <2>1, <2>2, <2>3
<1>2. CASE before = {}
    BY <1>2, DaysBounded DEF Snap
<1> QED BY <1>1, <1>2

LEMMA BoundsAreDays ==
  ASSUME CyclesTypeOK
  PROVE  Bounds \subseteq BarDays
<1> SUFFICES ASSUME NEW b \in Bounds  PROVE b \in BarDays
  OBVIOUS
<1>1. PICK w \in 0 .. Weeks - 1 :
        /\ {d \in BarDays : WeekOf(d) = w} # {}
        /\ b = Snap({d \in BarDays : WeekOf(d) = w})
  BY DEF Bounds
<1> DEFINE D == {d \in BarDays : WeekOf(d) = w}
<1>2. D \in SUBSET BarDays /\ D # {} /\ b = Snap(D)
  BY <1>1
<1> HIDE DEF D
<1> QED BY <1>2, SnapInWeek

(* What is asked of a cycle's vol, with the days seen for its expiry. *)
LEMMA VolResolved ==
  ASSUME CyclesTypeOK, NEW e, NEW entry \in Int, ResolveAtmIv(e, entry) # NoYear
  PROVE  LET iv == ResolveAtmIv(e, entry)
         IN  /\ iv \in AtmIvs(e)
             /\ iv <= entry + (IF IvTolerance = 0 THEN 0 ELSE IvTolerance + 4)
             /\ (\E d \in AtmIvs(e) : d <= entry) => iv <= entry
             /\ iv <= entry => \A d \in AtmIvs(e) : d <= entry => d <= iv
<1> USE CyclesAssumption DEF CyclesAssumption
<1> DEFINE days == AtmIvs(e)
           known == {d \in days : d <= entry}
           cap == Min({IvTolerance + 4, 14})
<1>1. days \in SUBSET BarDays
  BY DEF AtmIvs, CyclesTypeOK
<1>2. \A d \in days : d \in Int
  BY <1>1, DaysCount
<1>3. known \in SUBSET BarDays
  BY <1>1
<1>4. ResolveAtmIv(e, entry) =
        IF known # {} THEN Max(known)
        ELSE IF days # {} /\ IvTolerance > 0 /\ Min(days) - entry <= cap THEN Min(days)
        ELSE NoYear
  BY DEF ResolveAtmIv
<1>5. CASE known # {}
  <2>1. Max(known) \in known /\ \A d \in known : Max(known) >= d
    <3> HIDE DEF known
    <3> QED BY <1>3, <1>5, DaysBounded
  <2>2. ResolveAtmIv(e, entry) = Max(known)
    BY <1>4, <1>5
  <2> DEFINE m == Max(known)
  <2>3. m \in days /\ m <= entry /\ m \in Int /\ \A d \in days : d <= entry => d <= m
    BY <1>2, <2>1
  <2> HIDE DEF m, days, known
  <2>4. m <= entry + (IF IvTolerance = 0 THEN 0 ELSE IvTolerance + 4)
    BY <2>3
  <2> QED BY <2>2, <2>3, <2>4 DEF m, days
<1>6. CASE known = {}
  <2>1. days # {} /\ IvTolerance > 0 /\ Min(days) - entry <= cap
    BY <1>4, <1>6
  <2>2. ResolveAtmIv(e, entry) = Min(days)
    BY <1>4, <1>6, <2>1
  <2>3. Min(days) \in days
    <3> HIDE DEF days
    <3> QED BY <1>1, <2>1, DaysBounded
  <2>4. cap \in Int /\ cap <= IvTolerance + 4
    <3> DEFINE two == {IvTolerance + 4, 14}
    <3>1. IsFiniteSet(two)
      <4>1. IsFiniteSet({14}) /\ two = {14} \cup {IvTolerance + 4}
        BY FS_Singleton
      <4> HIDE DEF two
      <4> QED BY <4>1, FS_AddElement
    <3>3. two # {} /\ (\A x \in two : x \in Int) /\ IvTolerance + 4 \in two
      OBVIOUS
    <3>2. Min(two) \in two /\ \A x \in two : Min(two) <= x
      <4> HIDE DEF two
      <4> QED BY <3>1, <3>3, LeastOf
    <3> QED BY <3>2, <3>3
  <2> DEFINE m == Min(days)
  <2>5. m \in days /\ m \in Int /\ m - entry <= cap /\ ~(\E d \in days : d <= entry)
    BY <1>2, <1>6, <2>1, <2>3
  <2> HIDE DEF m, days, known, cap
  <2>6. m <= entry + (IF IvTolerance = 0 THEN 0 ELSE IvTolerance + 4)
    BY <2>1, <2>4, <2>5
  <2> QED BY <2>2, <2>5, <2>6 DEF m, days
<1> QED BY <1>5, <1>6

(* A pair is entered before it expires. *)
LEMMA PairsForward ==
  ASSUME NEW mode \in Modes, NEW c \in CyclesOf(mode)
  PROVE  /\ c.entry \in BarDays /\ c.entry < c.expiry
         /\ c.iv = ResolveAtmIv(c.expiry, c.entry)
<1> DEFINE pairs == CASE mode = "weekly" -> WeeklyPairs
                      [] mode = "dte" -> EntryPairs
                      [] mode = "calendar" -> CalendarPairs
<1>1. c \in CyclesFrom(pairs)
  BY DEF CyclesOf
<1>2. ASSUME NEW p \in pairs  PROVE p[1] < p[2]
    BY <1>2 DEF WeeklyPairs, Consecutive, EntryPairs, CalendarPairs, Modes
<1> HIDE DEF pairs
<1>3. PICK p \in pairs :
        /\ p[1] \in BarDays
        /\ c = [entry |-> p[1], expiry |-> p[2], dte |-> p[2] - p[1],
                iv |-> ResolveAtmIv(p[2], p[1])]
  BY <1>1 DEF CyclesFrom
<1> QED BY <1>2, <1>3

LEMMA VolsKnown == ASSUME CyclesTypeOK  PROVE VolKnownAtEntry
<1> SUFFICES ASSUME NEW mode \in Modes, NEW c \in CyclesOf(mode)
             PROVE  LET seen == AtmIvs(c.expiry)
                    IN  /\ c.entry < c.expiry
                        /\ c.iv # NoYear =>
                             /\ c.iv \in seen
                             /\ c.iv <= c.entry + (IF IvTolerance = 0 THEN 0 ELSE IvTolerance + 4)
                             /\ (\E d \in seen : d <= c.entry) => c.iv <= c.entry
                             /\ c.iv <= c.entry => \A d \in seen : d <= c.entry => d <= c.iv
  BY DEF VolKnownAtEntry
<1>1. /\ c.entry \in BarDays /\ c.entry < c.expiry
      /\ c.iv = ResolveAtmIv(c.expiry, c.entry)
  BY PairsForward
<1>2. c.entry \in Int
  BY <1>1, DaysCount
<1> QED BY <1>1, <1>2, VolResolved

(* The exchange's rule does not change within a week. *)
LEMMA WeekHasOneRule ==
  ASSUME NEW w \in Nat, NEW d \in Nat, WeekOf(d) = w
  PROVE  /\ d >= 7 * w /\ d <= 7 * w + 6 /\ DayOf(d) = d - 7 * w
         /\ WeekdayFor(d) = WeekdayFor(7 * w) /\ WeekdayFor(7 * w) \in 0 .. 6
<1> USE CyclesAssumption DEF CyclesAssumption
<1>1. d >= 7 * w /\ d <= 7 * w + 6 /\ DayOf(d) = d - 7 * w
  BY DEF WeekOf, DayOf
<1>2. d < CutoverDay <=> 7 * w < CutoverDay
  <2> DEFINE k == CutoverDay \div 7
  <2>1. k \in Int /\ CutoverDay = 7 * k
    OBVIOUS
  <2> HIDE DEF k
  <2> QED BY <1>1, <2>1
<1> QED BY <1>1, <1>2 DEF WeekdayFor

LEMMA BoundariesExpire == ASSUME CyclesTypeOK  PROVE BoundaryIsExpiry
<1> SUFFICES ASSUME NEW w \in 0 .. Weeks - 1, 7 * w + 6 <= today,
                    \E d \in {b \in BarDays : WeekOf(b) = w} : d <= 7 * w + WeekdayFor(7 * w)
             PROVE  Snap({b \in BarDays : WeekOf(b) = w}) = Expiry(w)
  BY DEF BoundaryIsExpiry
<1> DEFINE D == {b \in BarDays : WeekOf(b) = w}
           target == WeekdayFor(7 * w)
           before == {d \in D : d <= 7 * w + target}
           on == {d \in AllDays \ holidays : d <= 7 * w + target}
<1>1. w \in Nat
  BY CyclesAssumption
<1>2. D \in SUBSET BarDays /\ D # {} /\ before # {} /\ before \in SUBSET BarDays
  OBVIOUS
<1>3. /\ today \in Int /\ AllDays \subseteq Nat
      /\ BarDays \subseteq AllDays \ holidays /\ BarDays \subseteq 0 .. today
  BY DaysCount
<1>4. \A d \in D : /\ d \in Nat /\ d >= 7 * w /\ d <= 7 * w + 6 /\ DayOf(d) = d - 7 * w
                   /\ WeekdayFor(d) = target
  BY <1>1, <1>3, WeekHasOneRule
<1>5. target \in 0 .. 6
  BY CyclesAssumption DEF CyclesAssumption, WeekdayFor
<1>6. Snap(D) = Max(before)
  <2>1. Max(D) \in D
    <3> HIDE DEF D
    <3> QED BY <1>2, DaysBounded
  <2>2. WeekdayFor(Max(D)) = target
    BY <1>4, <2>1
  <2>3. ASSUME NEW d \in D  PROVE DayOf(d) <= target <=> d <= 7 * w + target
    <3>1. d \in Nat /\ DayOf(d) = d - 7 * w
      BY <1>4
    <3> HIDE DEF target
    <3> QED BY <1>1, <1>5, <3>1
  <2>4. {d \in D : DayOf(d) <= WeekdayFor(Max(D))} = before
    <3> HIDE DEF D, target
    <3> QED BY <2>2, <2>3
  <2> HIDE DEF D
  <2> QED BY <1>2, <2>4 DEF Snap
<1>7. Max(before) \in before /\ \A d \in before : Max(before) >= d
  <2> HIDE DEF before
  <2> QED BY <1>2, DaysBounded
<1>8. before \subseteq on
  BY <1>3
<1>9. ASSUME NEW d \in on  PROVE d <= Max(before)
  <2>1. d \in Nat /\ d <= 7 * w + target
    BY <1>3
  <2>2. CASE d >= 7 * w
    <3>1. d \in BarDays
      <4>1. d <= today
        <5> HIDE DEF target
        <5> QED BY <1>1, <1>3, <1>5, <2>1
      <4> QED BY <4>1 DEF BarDays
    <3>2. WeekOf(d) = w
      <4> HIDE DEF target
      <4> QED BY <1>1, <1>5, <2>1, <2>2 DEF WeekOf
    <3> QED BY <1>7, <2>1, <3>1, <3>2
  <2>3. CASE d < 7 * w
    <3> DEFINE m == Max(before)
    <3>1. m \in Nat /\ m >= 7 * w
      BY <1>4, <1>7
    <3> HIDE DEF m
    <3> QED BY <1>1, <2>1, <2>3, <3>1 DEF m
  <2> QED BY <1>1, <2>1, <2>2, <2>3
<1>10. Expiry(w) = Max(before)
  <2>1. on # {} /\ Expiry(w) = CHOOSE d \in on : \A e \in on : e <= d
    BY <1>2, <1>8 DEF Expiry
  <2> DEFINE x == Expiry(w)
             m == Max(before)
  <2>2. m \in on /\ \A e \in on : e <= m
    BY <1>7, <1>8, <1>9
  <2> HIDE DEF on, m
  <2>3. x \in on /\ \A e \in on : e <= x
    BY <2>1, <2>2
  <2>4. x \in Nat /\ m \in Nat
    BY <1>3, <2>2, <2>3 DEF on
  <2>5. x <= m /\ m <= x
    BY <2>2, <2>3
  <2> HIDE DEF x
  <2>6. x = m
    BY <2>4, <2>5
  <2> QED BY <2>6 DEF x, m
<1> QED BY <1>6, <1>10

LEMMA EntriesPlaced == ASSUME CyclesTypeOK  PROVE EntriesInPlace
<1> USE CyclesAssumption DEF CyclesAssumption
<1>1. \A d \in BarDays : d \in Int
  BY DaysCount
<1>2. ASSUME NEW p \in WeeklyPairs, NEW q \in WeeklyPairs
      PROVE  p = q \/ p[2] <= q[1] \/ q[2] <= p[1]
    BY <1>1, <1>2, BoundsAreDays DEF WeeklyPairs, Consecutive
<1>3. ASSUME NEW p \in EntryPairs, NEW d \in BarDays, p[2] - d >= EntryDte
      PROVE  p[2] - p[1] >= EntryDte /\ d <= p[1]
  <2>1. PICK b \in Bounds : p = <<PickEntry(BarDays, b, EntryDte), b>>
    BY <1>3 DEF EntryPairs
  <2> DEFINE before == {x \in BarDays : x < b}
             early == {x \in before : b - x >= EntryDte}
  <2>2. b \in Int /\ d \in Int
    BY <1>1, BoundsAreDays
  <2>3. d \in early
    BY <1>3, <2>1, <2>2
  <2>4. early \in SUBSET BarDays /\ early # {} /\ before # {}
    BY <2>3
  <2>5. PickEntry(BarDays, b, EntryDte) = Max(early)
    BY <2>4 DEF PickEntry
  <2>6. Max(early) \in early /\ Max(early) >= d
    <3> HIDE DEF early
    <3> QED BY <2>3, <2>4, DaysBounded
  <2>7. Max(early) \in Int /\ b - Max(early) >= EntryDte
    BY <1>1, <2>6
  <2> HIDE DEF early
  <2> QED BY <2>1, <2>2, <2>5, <2>6, <2>7
<1> QED BY <1>2, <1>3 DEF EntriesInPlace

(* The cycle loader never looks ahead: a cycle is entered before it        *)
(* expires, with the latest vol seen by its entry, or when there is none   *)
(* the first after it within the tolerance (_resolve_atm_iv_pit()); a      *)
(* week's boundary is the exchange's expiry once the week is over          *)
(* (snap_to_expiry_weekday()); and an entry asked for at some distance     *)
(* comes no later than that (pick_entry_day_for_dte()).                    *)
THEOREM CyclesAlwaysSound == Spec => []CyclesSound
<1>1. Init => CyclesTypeOK
  BY CyclesAssumption DEF Init, InitCycles, CyclesTypeOK, CyclesAssumption
<1>2. CyclesTypeOK /\ [Next]_vars => CyclesTypeOK'
  <2> SUFFICES ASSUME CyclesTypeOK, [Next]_vars  PROVE CyclesTypeOK'
    OBVIOUS
  <2>1. CyclesNext \/ UNCHANGED cycleVars
    BY DEF Next, vars
  <2>2. CASE UNCHANGED cycleVars
    BY <2>2 DEF cycleVars, CyclesTypeOK, AllDays, TrueExpiries, Expiry, WeekdayFor, BarDays
  <2> QED BY <2>1, <2>2, CyclesTyped
<1>3. CyclesTypeOK => CyclesSound
  BY VolsKnown, BoundariesExpire, EntriesPlaced DEF CyclesSound
<1> QED BY <1>1, <1>2, <1>3, PTL DEF Spec

-----------------------------------------------------------------------------
(* The structures of the strategy backtest. *)

LEMMA SumMinus ==
  ASSUME NEW S, IsFiniteSet(S), NEW w, NEW u, NEW v,
         \A x \in S : w[x] \in Int /\ u[x] \in Int /\ v[x] = w[x] - u[x]
  PROVE  Sum(v, S) = Sum(w, S) - Sum(u, S)
<1> DEFINE Bad == {r \in SUBSET S : Sum(v, r) # Sum(w, r) - Sum(u, r)}
<1> SUFFICES ASSUME Bad # {}  PROVE FALSE
  OBVIOUS
<1>1. PICK s \in Bad : \A q \in Bad : q \subseteq s => q = s
  <2>1. Bad \in SUBSET SUBSET S
    OBVIOUS
  <2> HIDE DEF Bad
  <2> QED BY <2>1, SmallestSet
<1>2. s # {}
  <2>1. Sum(v, {}) = 0 /\ Sum(w, {}) = 0 /\ Sum(u, {}) = 0
    BY SumEmpty
  <2>2. Sum(v, {}) = Sum(w, {}) - Sum(u, {})
    BY <2>1
  <2> QED BY <1>1, <2>2
<1>3. IsFiniteSet(s) /\ IsFiniteSet(s \ {Pick(s)}) /\ Pick(s) \in s
  BY <1>2, Picks, FS_Subset
<1>4. /\ Sum(w, s) = w[Pick(s)] + Sum(w, s \ {Pick(s)})
      /\ Sum(u, s) = u[Pick(s)] + Sum(u, s \ {Pick(s)})
      /\ Sum(v, s) = v[Pick(s)] + Sum(v, s \ {Pick(s)})
  BY <1>2, <1>3, SumPicked
<1>5. Sum(v, s \ {Pick(s)}) = Sum(w, s \ {Pick(s)}) - Sum(u, s \ {Pick(s)})
  BY <1>1, <1>3
<1>6. Sum(w, s \ {Pick(s)}) \in Int /\ Sum(u, s \ {Pick(s)}) \in Int
  BY <1>3, SumInt
<1>7. w[Pick(s)] \in Int /\ u[Pick(s)] \in Int /\ v[Pick(s)] = w[Pick(s)] - u[Pick(s)]
  BY <1>3
<1>8. Sum(v, s) = Sum(w, s) - Sum(u, s)
  BY <1>4, <1>5, <1>6, <1>7
<1> QED BY <1>1, <1>8

LEMMA TotalIsSum == ASSUME NEW w  PROVE Total(w) = Sum(w, DOMAIN w)
BY DEF Total, FoldSeq, FoldFunction, FoldFunctionOnSet, MapThenFoldSet, Sum, SumFn, IsSum, Pick

(* A total of up to four terms, term by term. *)
LEMMA TotalOfFew ==
  ASSUME NEW n \in 2 .. 4, NEW w, DOMAIN w = 1 .. n, \A i \in 1 .. n : w[i] \in Int
  PROVE  Total(w) = w[1] + w[2] + (IF n >= 3 THEN w[3] ELSE 0) + (IF n = 4 THEN w[4] ELSE 0)
<1>1. IsFiniteSet(1 .. 4) /\ IsFiniteSet(1 .. 3) /\ IsFiniteSet(1 .. 2) /\ IsFiniteSet({1})
    BY CountTo, FS_Singleton
<1>2. Sum(w, {1}) = w[1]
    BY <1>1, SumRemove, SumEmpty
<1>3. Sum(w, 1 .. 2) = w[2] + w[1]
    BY <1>1, <1>2, SumRemove
<1>4. n >= 3 => Sum(w, 1 .. 3) = w[3] + w[2] + w[1]
  <2> SUFFICES ASSUME n >= 3  PROVE Sum(w, 1 .. 3) = w[3] + w[2] + w[1]
    OBVIOUS
  <2>1. 3 \in 1 .. 3 /\ (1 .. 3) \ {3} = 1 .. 2 /\ \A x \in 1 .. 3 : w[x] \in Int
    OBVIOUS
  <2>2. Sum(w, 1 .. 3) = w[3] + Sum(w, 1 .. 2)
    BY <1>1, <2>1, SumRemove
  <2> QED BY <1>3, <2>1, <2>2
<1>5. n = 4 => Sum(w, 1 .. 4) = w[4] + w[3] + w[2] + w[1]
  <2> SUFFICES ASSUME n = 4  PROVE Sum(w, 1 .. 4) = w[4] + w[3] + w[2] + w[1]
    OBVIOUS
  <2>1. 4 \in 1 .. 4 /\ (1 .. 4) \ {4} = 1 .. 3 /\ \A x \in 1 .. 4 : w[x] \in Int
    OBVIOUS
  <2>2. Sum(w, 1 .. 4) = w[4] + Sum(w, 1 .. 3)
    BY <1>1, <2>1, SumRemove
  <2> QED BY <1>4, <2>1, <2>2
<1>6. Total(w) = Sum(w, 1 .. n)
  BY TotalIsSum
<1>7. w[1] \in Int /\ w[2] \in Int
  OBVIOUS
<1>8. CASE n = 2
  BY <1>3, <1>6, <1>7, <1>8
<1>9. CASE n = 3
    BY <1>4, <1>6, <1>7, <1>9
<1>10. CASE n = 4
    BY <1>5, <1>6, <1>7, <1>10
<1> QED BY <1>8, <1>9, <1>10

LegSet == [type : {"CE", "PE"}, dir : {"SELL", "BUY"}, strike : Int, qty : {1, 2}]

LEMMA LegPays ==
  ASSUME NEW l \in LegSet, NEW s \in Int
  PROVE  Intrinsic(l, s) \in Nat /\ Signed(l) \in {1, -1}
BY DEF LegSet, Intrinsic, Positive, Signed

(* What the writer of the legs owes when the index settles at s. *)
Owed(legs, s) == Total([i \in DOMAIN legs |-> Signed(legs[i]) * Intrinsic(legs[i], s) * legs[i].qty])

LEMMA SignedTimes ==
  ASSUME NEW g \in {1, -1}, NEW f \in Int, NEW k \in Int, NEW q \in {1, 2}
  PROVE  /\ g * f * q \in Int /\ g * k * q \in Int
         /\ g * (f - k) * q = g * f * q - g * k * q
<1>1. g * f \in Int /\ g * k \in Int /\ g * (f - k) = g * f - g * k
    OBVIOUS
<1> DEFINE a == g * f
           b == g * k
           c == g * (f - k)
<1>2. a \in Int /\ b \in Int /\ c = a - b
  BY <1>1
<1> HIDE DEF a, b, c
<1>3. a * q \in Int /\ b * q \in Int /\ c * q = a * q - b * q
    BY <1>2
<1> QED BY <1>3 DEF a, b, c

(* Settling leg by leg keeps the premium and pays what is owed. *)
LEMMA SettledIs ==
  ASSUME NEW legs \in Seq(LegSet), NEW fills, DOMAIN fills = DOMAIN legs,
         \A i \in DOMAIN legs : fills[i] \in Int, NEW s \in Int
  PROVE  /\ ResolveFills(legs, fills, s) = NetPremium(legs, fills) - Owed(legs, s)
         /\ NetPremium(legs, fills) \in Int /\ Owed(legs, s) \in Int
<1> DEFINE w == [i \in DOMAIN legs |-> Signed(legs[i]) * fills[i] * legs[i].qty]
           u == [i \in DOMAIN legs |-> Signed(legs[i]) * Intrinsic(legs[i], s) * legs[i].qty]
           v == [i \in DOMAIN legs |->
                   Signed(legs[i]) * (fills[i] - Intrinsic(legs[i], s)) * legs[i].qty]
           D == DOMAIN legs
<1>1. IsFiniteSet(D)
  BY PlacesOf
<1>2. ASSUME NEW i \in D  PROVE w[i] \in Int /\ u[i] \in Int /\ v[i] = w[i] - u[i]
  <2>1. /\ Intrinsic(legs[i], s) \in Nat /\ Signed(legs[i]) \in {1, -1}
        /\ legs[i].qty \in {1, 2} /\ fills[i] \in Int
    <3>1. legs[i] \in LegSet
      OBVIOUS
    <3> QED BY <3>1, LegPays DEF LegSet
  <2>2. /\ w[i] = Signed(legs[i]) * fills[i] * legs[i].qty
        /\ u[i] = Signed(legs[i]) * Intrinsic(legs[i], s) * legs[i].qty
        /\ v[i] = Signed(legs[i]) * (fills[i] - Intrinsic(legs[i], s)) * legs[i].qty
    OBVIOUS
  <2> HIDE DEF w, u, v
  <2> QED BY <2>1, <2>2, SignedTimes
<1>3. Sum(v, D) = Sum(w, D) - Sum(u, D) /\ Sum(w, D) \in Int /\ Sum(u, D) \in Int
  <2> HIDE DEF w, u, v, D
  <2> QED BY <1>1, <1>2, SumMinus, SumInt
<1>4. DOMAIN w = D /\ DOMAIN u = D /\ DOMAIN v = D
  OBVIOUS
<1>5. Total(w) = Sum(w, D) /\ Total(u) = Sum(u, D) /\ Total(v) = Sum(v, D)
  <2> HIDE DEF w, u, v, D
  <2> QED BY <1>4, TotalIsSum
<1> QED BY <1>3, <1>5 DEF ResolveFills, NetPremium, Owed

(* The two ways to settle agree on single legs. *)
LEMMA SettlesAlike ==
  ASSUME NEW legs \in Seq(LegSet), NEW fills, DOMAIN fills = DOMAIN legs,
         \A i \in DOMAIN legs : fills[i] \in Int, NEW s \in Int,
         \A i \in DOMAIN legs : legs[i].qty = 1
  PROVE  ResolveFills(legs, fills, s) = ResolveNet(legs, NetPremium(legs, fills), s)
<1> DEFINE u == [i \in DOMAIN legs |-> Signed(legs[i]) * Intrinsic(legs[i], s) * legs[i].qty]
           o == [i \in DOMAIN legs |-> Signed(legs[i]) * Intrinsic(legs[i], s)]
<1>1. u = o
  <2>1. ASSUME NEW i \in DOMAIN legs
        PROVE  Signed(legs[i]) * Intrinsic(legs[i], s) * legs[i].qty
                 = Signed(legs[i]) * Intrinsic(legs[i], s)
    <3>1. /\ Intrinsic(legs[i], s) \in Nat /\ Signed(legs[i]) \in {1, -1}
          /\ legs[i].qty = 1
      <4>1. legs[i] \in LegSet
        OBVIOUS
      <4> QED BY <4>1, LegPays
    <3> QED BY <3>1
  <2> QED BY <2>1
<1> HIDE DEF u, o
<1> QED BY <1>1, SettledIs DEF ResolveNet, Owed, u, o

(* Strikes are on the grid, in the order of what they round. *)
LEMMA GridIs ==
  ASSUME NEW x \in Int
  PROVE  Grid(x) \in Int
<1> DEFINE q == (2 * x + StrikeStep) \div (2 * StrikeStep)
<1>1. StrikeStep \in Nat \ {0}
  BY StrategyAssumption
<1>2. q \in Int
  BY <1>1
<1> HIDE DEF q
<1>3. q * StrikeStep \in Int
  BY <1>1, <1>2
<1> QED BY <1>3 DEF Grid, RoundToStep, q

LEMMA QuotientsOrdered ==
  ASSUME NEW n \in Nat \ {0}, NEW a \in Int, NEW b \in Int, a <= b
  PROVE  a \div n <= b \div n /\ a \div n \in Int /\ b \div n \in Int
<1> DEFINE p == a \div n
           q == b \div n
<1>1. /\ p \in Int /\ n * p <= a /\ a < n * p + n
      /\ q \in Int /\ n * q <= b /\ b < n * q + n
  OBVIOUS
<1> HIDE DEF p, q
<1>2. ~(q + 1 <= p)
  <2> SUFFICES ASSUME q + 1 <= p  PROVE FALSE
    OBVIOUS
  <2>1. n * (q + 1) <= n * p
    BY <1>1
  <2>2. n * (q + 1) = n * q + n
    BY <1>1
  <2>3. n * q \in Int /\ n * p \in Int
    BY <1>1
  <2> QED BY <1>1, <2>1, <2>2, <2>3
<1>3. p <= q
  BY <1>1, <1>2
<1> QED BY <1>1, <1>3 DEF p, q

LEMMA GridOrdered ==
  ASSUME NEW x \in Int, NEW y \in Int, x <= y
  PROVE  Grid(x) <= Grid(y)
<1> DEFINE n == 2 * StrikeStep
           a == 2 * x + StrikeStep
           b == 2 * y + StrikeStep
           p == a \div n
           q == b \div n
<1>1. StrikeStep \in Nat \ {0}
  BY StrategyAssumption
<1>2. n \in Nat \ {0} /\ a \in Int /\ b \in Int /\ a <= b
  BY <1>1
<1> HIDE DEF n, a, b
<1>3. p <= q /\ p \in Int /\ q \in Int
  BY <1>2, QuotientsOrdered
<1> HIDE DEF p, q
<1>4. p * StrikeStep <= q * StrikeStep
  BY <1>1, <1>3
<1> QED BY <1>4 DEF Grid, RoundToStep, p, q, a, b, n

LEMMA MaxOfOne ==
  ASSUME NEW a \in Int
  PROVE  Max({a}) = a /\ Min({a}) = a
BY DEF Max, Min

LEMMA MaxOfTwo ==
  ASSUME NEW a \in Int, NEW b \in Int
  PROVE  /\ Max({a, b}) \in {a, b} /\ Max({a, b}) >= a /\ Max({a, b}) >= b
<1>1. IsFiniteSet({a, b})
  <2>1. IsFiniteSet({a}) /\ {a, b} = {a} \cup {b}
    BY FS_Singleton
  <2> QED BY <2>1, FS_AddElement
<1>2. {a, b} # {} /\ \A x \in {a, b} : x \in Int
  OBVIOUS
<1>3. Max({a, b}) \in {a, b} /\ \A x \in {a, b} : Max({a, b}) >= x
  BY <1>1, <1>2, GreatestOf
<1> QED BY <1>3

LEMMA WingIs ==
  ASSUME NEW x \in Int
  PROVE  WingPoints(x) \in Nat
<1>1. StrikeStep \in Nat /\ Grid(x) \in Int
  BY GridIs, StrategyAssumption
<1>2. /\ Max({StrikeStep, Grid(x)}) \in {StrikeStep, Grid(x)}
      /\ Max({StrikeStep, Grid(x)}) >= StrikeStep
  BY <1>1, MaxOfTwo
<1> QED BY <1>1, <1>2 DEF WingPoints

(* What a spread owes. *)
SpreadOwes(type, sold, bought, s) ==
  Intrinsic(Leg(type, "SELL", sold, 1), s) - Intrinsic(Leg(type, "BUY", bought, 1), s)

LEMMA SpreadOwesIs ==
  ASSUME NEW sold \in Int, NEW bought \in Int, NEW s \in Int
  PROVE  /\ SpreadOwes("PE", sold, bought, s) \in Int /\ SpreadOwes("CE", sold, bought, s) \in Int
         /\ bought <= sold => /\ SpreadOwes("PE", sold, bought, s) <= sold - bought
                              /\ SpreadOwes("PE", sold, bought, s) >= 0
                              /\ SpreadOwes("CE", sold, bought, s) <= 0
         /\ sold <= bought => /\ SpreadOwes("CE", sold, bought, s) <= bought - sold
                              /\ SpreadOwes("CE", sold, bought, s) >= 0
                              /\ SpreadOwes("PE", sold, bought, s) <= 0
         /\ sold <= s => SpreadOwes("PE", sold, bought, s) <= 0
         /\ s <= sold => SpreadOwes("CE", sold, bought, s) <= 0
BY DEF SpreadOwes, Intrinsic, Leg, Positive

(* A spread of two legs. *)
LEMMA SpreadIs ==
  ASSUME NEW type \in {"CE", "PE"}, NEW sold \in Int, NEW bought \in Int
  PROVE  LET legs == Spread(type, sold, bought)
         IN  /\ legs \in Seq(LegSet) /\ DOMAIN legs = 1 .. 2
             /\ \A i \in DOMAIN legs : legs[i].qty = 1
             /\ Widths(legs) = {IF type = "CE" THEN Abs(bought - sold) ELSE Abs(sold - bought)}
             /\ NakedLots(legs) = 0
             /\ \A s \in Int : Owed(legs, s) = SpreadOwes(type, sold, bought, s)
<1> DEFINE legs == Spread(type, sold, bought)
<1>1. /\ legs \in Seq(LegSet) /\ DOMAIN legs = 1 .. 2
      /\ legs[1] = Leg(type, "SELL", sold, 1) /\ legs[2] = Leg(type, "BUY", bought, 1)
  BY DEF Spread, Leg, LegSet
<1>2. /\ legs[1].type = type /\ legs[2].type = type
      /\ legs[1].dir = "SELL" /\ legs[2].dir = "BUY"
      /\ legs[1].strike = sold /\ legs[2].strike = bought
      /\ legs[1].qty = 1 /\ legs[2].qty = 1
  BY <1>1 DEF Leg
<1> HIDE DEF legs
<1>3. ASSUME NEW other \in {"CE", "PE"}, other # type
      PROVE  /\ StrikesAt(legs, type, "SELL") = {sold} /\ StrikesAt(legs, type, "BUY") = {bought}
             /\ StrikesAt(legs, other, "SELL") = {} /\ StrikesAt(legs, other, "BUY") = {}
    BY <1>1, <1>2, <1>3 DEF StrikesAt
<1>4. Widths(legs) = {IF type = "CE" THEN Abs(bought - sold) ELSE Abs(sold - bought)}
  <2>1. CASE type = "CE"
    BY <1>3, <2>1, MaxOfOne DEF Widths
  <2>2. CASE type = "PE"
    BY <1>3, <2>2, MaxOfOne DEF Widths
  <2> QED BY <2>1, <2>2
<1>5. NakedLots(legs) = 0
  <2> DEFINE w(t, d) == [i \in DOMAIN legs |-> IF legs[i].type = t /\ legs[i].dir = d
                                               THEN legs[i].qty ELSE 0]
  <2>1. ASSUME NEW t, NEW d
        PROVE  Total(w(t, d)) = w(t, d)[1] + w(t, d)[2]
    <3>1. DOMAIN w(t, d) = 1 .. 2 /\ \A i \in 1 .. 2 : w(t, d)[i] \in Int
      BY <1>1, <1>2
    <3> HIDE DEF w
    <3>2. 2 \in 2 .. 4 /\ w(t, d)[1] \in Int /\ w(t, d)[2] \in Int
      BY <3>1
    <3> QED BY <3>1, <3>2, TotalOfFew
  <2>2. ASSUME NEW t  PROVE Total(w(t, "SELL")) = Total(w(t, "BUY")) /\ Total(w(t, "SELL")) \in Int
    <3>1. /\ w(t, "SELL")[1] = w(t, "BUY")[2] /\ w(t, "SELL")[2] = 0 /\ w(t, "BUY")[1] = 0
          /\ w(t, "SELL")[1] \in Int
      BY <1>1, <1>2
    <3> HIDE DEF w
    <3> QED BY <2>1, <3>1
  <2>3. NakedLots(legs) = Positive(Total(w("CE", "SELL")) - Total(w("CE", "BUY")))
                            + Positive(Total(w("PE", "SELL")) - Total(w("PE", "BUY")))
    BY DEF NakedLots
  <2> HIDE DEF w
  <2> QED BY <2>2, <2>3 DEF Positive
<1>6. ASSUME NEW s \in Int  PROVE Owed(legs, s) = SpreadOwes(type, sold, bought, s)
  <2> DEFINE w == [i \in DOMAIN legs |-> Signed(legs[i]) * Intrinsic(legs[i], s) * legs[i].qty]
  <2>1. /\ Intrinsic(legs[1], s) \in Nat /\ Intrinsic(legs[2], s) \in Nat
        /\ Signed(legs[1]) = 1 /\ Signed(legs[2]) = -1
      BY <1>1, <1>2, LegPays DEF Leg, LegSet, Signed
  <2>2. w[1] = Intrinsic(legs[1], s) /\ w[2] = 0 - Intrinsic(legs[2], s)
    BY <1>1, <1>2, <2>1
  <2>3. DOMAIN w = 1 .. 2
    BY <1>1
  <2>4. Total(w) = w[1] + w[2]
    <3> HIDE DEF w
    <3>1. 2 \in 2 .. 4 /\ w[1] \in Int /\ w[2] \in Int /\ \A i \in 1 .. 2 : w[i] \in Int
        BY <2>1, <2>2
    <3> QED BY <2>3, <3>1, TotalOfFew
  <2>5. Owed(legs, s) = Total(w)
    BY DEF Owed
  <2> HIDE DEF w
  <2> QED BY <1>1, <2>1, <2>2, <2>4, <2>5 DEF SpreadOwes
<1>7. \A i \in DOMAIN legs : legs[i].qty = 1
  BY <1>1, <1>2
<1> QED BY <1>1, <1>4, <1>5, <1>6, <1>7 DEF legs

(* The widths of legs that buy and sell both types. *)
LEMMA WidthsAre ==
  ASSUME NEW legs,
         StrikesAt(legs, "CE", "BUY") # {}, StrikesAt(legs, "CE", "SELL") # {},
         StrikesAt(legs, "PE", "BUY") # {}, StrikesAt(legs, "PE", "SELL") # {}
  PROVE  Widths(legs)
           = {Abs(Max(StrikesAt(legs, "CE", "BUY")) - Min(StrikesAt(legs, "CE", "SELL")))}
               \cup {Abs(Max(StrikesAt(legs, "PE", "SELL")) - Min(StrikesAt(legs, "PE", "BUY")))}
BY DEF Widths

(* Two spreads, one of puts and one of calls. *)
PairIs(legs, t, a, b, o, c, d) ==
  /\ legs \in Seq(LegSet) /\ DOMAIN legs = 1 .. 4
  /\ \A i \in DOMAIN legs : legs[i].qty = 1
  /\ Widths(legs) = {IF t = "CE" THEN Abs(b - a) ELSE Abs(a - b),
                     IF o = "CE" THEN Abs(d - c) ELSE Abs(c - d)}
  /\ NakedLots(legs) = 0
  /\ \A s \in Int : Owed(legs, s) = SpreadOwes(t, a, b, s) + SpreadOwes(o, c, d, s)

LEMMA TwoSpreadsAre ==
  ASSUME NEW t \in {"CE", "PE"}, NEW o \in {"CE", "PE"}, t # o,
         NEW a \in Int, NEW b \in Int, NEW c \in Int, NEW d \in Int
  PROVE  PairIs(Spread(t, a, b) \o Spread(o, c, d), t, a, b, o, c, d)
<1> DEFINE legs == Spread(t, a, b) \o Spread(o, c, d)
<1>1. /\ legs \in Seq(LegSet) /\ DOMAIN legs = 1 .. 4
      /\ legs[1] = Leg(t, "SELL", a, 1) /\ legs[2] = Leg(t, "BUY", b, 1)
      /\ legs[3] = Leg(o, "SELL", c, 1) /\ legs[4] = Leg(o, "BUY", d, 1)
  <2> DEFINE x == Spread(t, a, b)
             y == Spread(o, c, d)
  <2>1. /\ x \in Seq(LegSet) /\ y \in Seq(LegSet) /\ Len(x) = 2 /\ Len(y) = 2
        /\ x[1] = Leg(t, "SELL", a, 1) /\ x[2] = Leg(t, "BUY", b, 1)
        /\ y[1] = Leg(o, "SELL", c, 1) /\ y[2] = Leg(o, "BUY", d, 1)
    BY DEF Spread, Leg, LegSet
  <2> HIDE DEF x, y
  <2>2. /\ x \o y \in Seq(LegSet) /\ DOMAIN (x \o y) = 1 .. 4
        /\ (x \o y)[1] = x[1] /\ (x \o y)[2] = x[2]
        /\ (x \o y)[3] = y[1] /\ (x \o y)[4] = y[2]
    <3> DEFINE z == x \o y
    <3>1. /\ z \in Seq(LegSet) /\ Len(z) = Len(x) + Len(y)
          /\ \A i \in 1 .. Len(x) + Len(y) :
               z[i] = IF i <= Len(x) THEN x[i] ELSE y[i - Len(x)]
      BY <2>1, ConcatProperties
    <3> HIDE DEF z
    <3>2. z \in Seq(LegSet) /\ Len(z) = 4
      BY <2>1, <3>1
    <3>3. DOMAIN z = 1 .. 4
      BY <3>2
    <3>4. \A i \in 1 .. 4 : z[i] = IF i <= 2 THEN x[i] ELSE y[i - 2]
      BY <2>1, <3>1
    <3>5. z[1] = x[1] /\ z[2] = x[2] /\ z[3] = y[1] /\ z[4] = y[2]
      BY <3>4
    <3> QED BY <3>2, <3>3, <3>5 DEF z
  <2> QED BY <2>1, <2>2 DEF x, y
<1>2. /\ legs[1].type = t /\ legs[2].type = t /\ legs[3].type = o /\ legs[4].type = o
      /\ legs[1].dir = "SELL" /\ legs[2].dir = "BUY"
      /\ legs[3].dir = "SELL" /\ legs[4].dir = "BUY"
      /\ legs[1].strike = a /\ legs[2].strike = b /\ legs[3].strike = c /\ legs[4].strike = d
      /\ legs[1].qty = 1 /\ legs[2].qty = 1 /\ legs[3].qty = 1 /\ legs[4].qty = 1
  BY <1>1 DEF Leg
<1>0. \A i \in 1 .. 4 : i = 1 \/ i = 2 \/ i = 3 \/ i = 4
  OBVIOUS
<1> HIDE DEF legs
<1>3. /\ StrikesAt(legs, t, "SELL") = {a} /\ StrikesAt(legs, t, "BUY") = {b}
      /\ StrikesAt(legs, o, "SELL") = {c} /\ StrikesAt(legs, o, "BUY") = {d}
    BY <1>0, <1>1, <1>2 DEF StrikesAt
<1>4. Widths(legs) = {IF t = "CE" THEN Abs(b - a) ELSE Abs(a - b),
                      IF o = "CE" THEN Abs(d - c) ELSE Abs(c - d)}
  <2>1. CASE t = "CE" /\ o = "PE"
    <3>1. /\ Max(StrikesAt(legs, "CE", "BUY")) = b /\ Min(StrikesAt(legs, "CE", "SELL")) = a
          /\ Max(StrikesAt(legs, "PE", "SELL")) = c /\ Min(StrikesAt(legs, "PE", "BUY")) = d
          /\ StrikesAt(legs, "CE", "BUY") # {} /\ StrikesAt(legs, "CE", "SELL") # {}
          /\ StrikesAt(legs, "PE", "BUY") # {} /\ StrikesAt(legs, "PE", "SELL") # {}
      BY <1>3, <2>1, MaxOfOne
    <3>2. Widths(legs) = {Abs(b - a)} \cup {Abs(c - d)}
      BY <3>1, WidthsAre
    <3> QED BY <2>1, <3>2
  <2>2. CASE t = "PE" /\ o = "CE"
    <3>1. /\ Max(StrikesAt(legs, "CE", "BUY")) = d /\ Min(StrikesAt(legs, "CE", "SELL")) = c
          /\ Max(StrikesAt(legs, "PE", "SELL")) = a /\ Min(StrikesAt(legs, "PE", "BUY")) = b
          /\ StrikesAt(legs, "CE", "BUY") # {} /\ StrikesAt(legs, "CE", "SELL") # {}
          /\ StrikesAt(legs, "PE", "BUY") # {} /\ StrikesAt(legs, "PE", "SELL") # {}
      BY <1>3, <2>2, MaxOfOne
    <3>2. Widths(legs) = {Abs(d - c)} \cup {Abs(a - b)}
      BY <3>1, WidthsAre
    <3> QED BY <2>2, <3>2
  <2> QED BY <2>1, <2>2
<1>5. ASSUME NEW w, DOMAIN w = 1 .. 4,
             w[1] \in Int, w[2] \in Int, w[3] \in Int, w[4] \in Int
      PROVE  Total(w) = w[1] + w[2] + w[3] + w[4]
    BY <1>0, <1>5, TotalOfFew
<1>6. NakedLots(legs) = 0
  <2> DEFINE w(x, y) == [i \in DOMAIN legs |-> IF legs[i].type = x /\ legs[i].dir = y
                                               THEN legs[i].qty ELSE 0]
  <2>1. ASSUME NEW x, NEW y
        PROVE  Total(w(x, y)) = w(x, y)[1] + w(x, y)[2] + w(x, y)[3] + w(x, y)[4]
    <3>1. /\ DOMAIN w(x, y) = 1 .. 4 /\ w(x, y)[1] \in Int /\ w(x, y)[2] \in Int
          /\ w(x, y)[3] \in Int /\ w(x, y)[4] \in Int
      BY <1>1, <1>2
    <3> HIDE DEF w
    <3> QED BY <3>1, <1>5
  <2>2. ASSUME NEW x
        PROVE  Total(w(x, "SELL")) = Total(w(x, "BUY")) /\ Total(w(x, "SELL")) \in Int
    <3>1. /\ w(x, "SELL")[1] = w(x, "BUY")[2] /\ w(x, "SELL")[3] = w(x, "BUY")[4]
          /\ w(x, "SELL")[2] = 0 /\ w(x, "SELL")[4] = 0
          /\ w(x, "BUY")[1] = 0 /\ w(x, "BUY")[3] = 0
          /\ w(x, "SELL")[1] \in Int /\ w(x, "SELL")[3] \in Int
      BY <1>1, <1>2
    <3> HIDE DEF w
    <3> QED BY <2>1, <3>1
  <2>3. NakedLots(legs) = Positive(Total(w("CE", "SELL")) - Total(w("CE", "BUY")))
                            + Positive(Total(w("PE", "SELL")) - Total(w("PE", "BUY")))
    BY DEF NakedLots
  <2> HIDE DEF w
  <2> QED BY <2>2, <2>3 DEF Positive
<1>7. ASSUME NEW s \in Int
      PROVE  Owed(legs, s) = SpreadOwes(t, a, b, s) + SpreadOwes(o, c, d, s)
  <2> DEFINE w == [i \in DOMAIN legs |-> Signed(legs[i]) * Intrinsic(legs[i], s) * legs[i].qty]
  <2>1. /\ Intrinsic(legs[1], s) \in Nat /\ Intrinsic(legs[2], s) \in Nat
        /\ Intrinsic(legs[3], s) \in Nat /\ Intrinsic(legs[4], s) \in Nat
        /\ Signed(legs[1]) = 1 /\ Signed(legs[2]) = -1
        /\ Signed(legs[3]) = 1 /\ Signed(legs[4]) = -1
      BY <1>1, <1>2, LegPays DEF Leg, LegSet, Signed
  <2>2. /\ w[1] = Intrinsic(legs[1], s) /\ w[2] = 0 - Intrinsic(legs[2], s)
        /\ w[3] = Intrinsic(legs[3], s) /\ w[4] = 0 - Intrinsic(legs[4], s)
        /\ DOMAIN w = 1 .. 4
    <3>1. DOMAIN w = 1 .. 4 /\ \A i \in 1 .. 4 :
            w[i] = Signed(legs[i]) * Intrinsic(legs[i], s) * legs[i].qty
      BY <1>1
    <3> HIDE DEF w
    <3>2. /\ w[1] = 1 * Intrinsic(legs[1], s) * 1 /\ w[2] = (-1) * Intrinsic(legs[2], s) * 1
          /\ w[3] = 1 * Intrinsic(legs[3], s) * 1 /\ w[4] = (-1) * Intrinsic(legs[4], s) * 1
      BY <1>2, <2>1, <3>1
    <3>3. \A n \in Nat : 1 * n * 1 = n /\ (-1) * n * 1 = 0 - n
      OBVIOUS
    <3> QED BY <2>1, <3>1, <3>2, <3>3
  <2>3. Owed(legs, s) = Total(w)
    BY DEF Owed
  <2> HIDE DEF w
  <2>4. Total(w) = w[1] + w[2] + w[3] + w[4]
      BY <1>5, <2>1, <2>2
  <2>5. /\ SpreadOwes(t, a, b, s) = Intrinsic(legs[1], s) - Intrinsic(legs[2], s)
        /\ SpreadOwes(o, c, d, s) = Intrinsic(legs[3], s) - Intrinsic(legs[4], s)
    BY <1>1 DEF SpreadOwes
  <2> QED BY <2>1, <2>2, <2>3, <2>4, <2>5
<1>8. \A i \in DOMAIN legs : legs[i].qty = 1
  BY <1>0, <1>1, <1>2
<1>9. PairIs(legs, t, a, b, o, c, d)
  BY <1>1, <1>4, <1>6, <1>7, <1>8 DEF PairIs
<1> QED BY <1>9 DEF legs

(* The most the legs can owe, as far as the margin of a structure of       *)
(* defined risk rests on it.                                               *)
OwesAtMost(name, legs) ==
  /\ legs \in Seq(LegSet) /\ NakedLots(legs) = 0
  /\ IF Widths(legs) = {} THEN \A s \in Int : Owed(legs, s) <= 0
     ELSE /\ Max(Widths(legs)) \in Nat
          /\ \A s \in Int : /\ Owed(legs, s) <= Max(Widths(legs))
                            /\ ~SellsPremium(name) => Owed(legs, s) <= 0

LEMMA CreditSpreadOwes ==
  ASSUME NEW name, SellsPremium(name), NEW type \in {"CE", "PE"},
         NEW sold \in Int, NEW bought \in Int,
         IF type = "CE" THEN sold <= bought ELSE bought <= sold
  PROVE  OwesAtMost(name, Spread(type, sold, bought))
<1> DEFINE legs == Spread(type, sold, bought)
           w == IF type = "CE" THEN bought - sold ELSE sold - bought
<1>1. w \in Nat
  OBVIOUS
<1>2. /\ legs \in Seq(LegSet) /\ NakedLots(legs) = 0
      /\ Widths(legs) = {IF type = "CE" THEN Abs(bought - sold) ELSE Abs(sold - bought)}
      /\ \A s \in Int : Owed(legs, s) = SpreadOwes(type, sold, bought, s)
  BY SpreadIs
<1>3. (IF type = "CE" THEN Abs(bought - sold) ELSE Abs(sold - bought)) = w
  BY DEF Abs
<1>4. ASSUME NEW s \in Int  PROVE SpreadOwes(type, sold, bought, s) <= w
  BY SpreadOwesIs
<1> HIDE DEF legs, w
<1>5. Max(Widths(legs)) = w /\ Widths(legs) # {}
  BY <1>1, <1>2, <1>3, MaxOfOne
<1>6. OwesAtMost(name, legs)
  BY <1>1, <1>2, <1>4, <1>5 DEF OwesAtMost
<1> QED BY <1>6 DEF legs

LEMMA DebitSpreadOwes ==
  ASSUME NEW name, NEW type \in {"CE", "PE"}, NEW sold \in Int, NEW bought \in Int,
         IF type = "CE" THEN bought <= sold ELSE sold <= bought
  PROVE  OwesAtMost(name, Spread(type, sold, bought))
<1> DEFINE legs == Spread(type, sold, bought)
           w == IF type = "CE" THEN Abs(bought - sold) ELSE Abs(sold - bought)
<1>1. w \in Nat
  BY DEF Abs
<1>2. /\ legs \in Seq(LegSet) /\ NakedLots(legs) = 0
      /\ Widths(legs) = {w}
      /\ \A s \in Int : Owed(legs, s) = SpreadOwes(type, sold, bought, s)
  BY SpreadIs
<1>3. ASSUME NEW s \in Int
      PROVE  SpreadOwes(type, sold, bought, s) <= 0 /\ SpreadOwes(type, sold, bought, s) \in Int
  BY SpreadOwesIs
<1> HIDE DEF legs, w
<1>4. Max(Widths(legs)) = w /\ Widths(legs) # {}
  BY <1>1, <1>2, MaxOfOne
<1>5. ASSUME NEW s \in Int  PROVE Owed(legs, s) <= 0 /\ Owed(legs, s) <= w
  <2> DEFINE x == Owed(legs, s)
  <2>1. x = SpreadOwes(type, sold, bought, s)
    BY <1>2
  <2>2. x \in Int /\ x <= 0
    BY <1>3, <2>1
  <2> HIDE DEF x
  <2>3. x <= 0 /\ x <= w
    BY <1>1, <2>2
  <2> QED BY <2>3 DEF x
<1>6. OwesAtMost(name, legs)
  BY <1>1, <1>2, <1>4, <1>5 DEF OwesAtMost
<1> QED BY <1>6 DEF legs

(* A condor or a fly: only one side can be in the money. *)
LEMMA CondorOwes ==
  ASSUME NEW name, SellsPremium(name), NEW sp \in Int, NEW sc \in Int, sp <= sc,
         NEW pw \in Nat, NEW cw \in Nat
  PROVE  /\ OwesAtMost(name, Spread("PE", sp, sp - pw) \o Spread("CE", sc, sc + cw))
         /\ OwesAtMost(name, Spread("CE", sc, sc + cw) \o Spread("PE", sp, sp - pw))
<1> DEFINE one == Spread("PE", sp, sp - pw) \o Spread("CE", sc, sc + cw)
           two == Spread("CE", sc, sc + cw) \o Spread("PE", sp, sp - pw)
<1>1. sp - pw \in Int /\ sc + cw \in Int
  OBVIOUS
<1>2. Abs(sp - (sp - pw)) = pw /\ Abs(sc + cw - sc) = cw
  BY DEF Abs
<1>3. /\ one \in Seq(LegSet) /\ NakedLots(one) = 0 /\ Widths(one) = {pw, cw}
      /\ \A s \in Int : Owed(one, s) = SpreadOwes("PE", sp, sp - pw, s) + SpreadOwes("CE", sc, sc + cw, s)
  <2>1. PairIs(one, "PE", sp, sp - pw, "CE", sc, sc + cw)
    BY <1>1, TwoSpreadsAre
  <2> HIDE DEF one
  <2> QED BY <1>2, <2>1 DEF PairIs
<1>4. /\ two \in Seq(LegSet) /\ NakedLots(two) = 0 /\ Widths(two) = {cw, pw}
      /\ \A s \in Int : Owed(two, s) = SpreadOwes("CE", sc, sc + cw, s) + SpreadOwes("PE", sp, sp - pw, s)
  <2>1. PairIs(two, "CE", sc, sc + cw, "PE", sp, sp - pw)
    BY <1>1, TwoSpreadsAre
  <2> HIDE DEF two
  <2> QED BY <1>2, <2>1 DEF PairIs
<1>5. /\ Max({pw, cw}) \in {pw, cw} /\ Max({pw, cw}) >= pw /\ Max({pw, cw}) >= cw
      /\ {cw, pw} = {pw, cw} /\ {pw, cw} # {}
  BY MaxOfTwo
<1>6. ASSUME NEW s \in Int
      PROVE  /\ SpreadOwes("PE", sp, sp - pw, s) + SpreadOwes("CE", sc, sc + cw, s) <= Max({pw, cw})
             /\ SpreadOwes("CE", sc, sc + cw, s) + SpreadOwes("PE", sp, sp - pw, s) <= Max({pw, cw})
  <2> DEFINE p == SpreadOwes("PE", sp, sp - pw, s)
             c == SpreadOwes("CE", sc, sc + cw, s)
             m == Max({pw, cw})
  <2>1. p \in Int /\ p <= pw /\ (sp <= s => p <= 0)
      BY <1>1, SpreadOwesIs
  <2>2. c \in Int /\ c <= cw /\ (s <= sc => c <= 0)
      BY <1>1, SpreadOwesIs
  <2>3. m \in Nat /\ m >= pw /\ m >= cw
    BY <1>5
  <2> HIDE DEF p, c, m
  <2>4. p + c <= m /\ c + p <= m
    BY <2>1, <2>2, <2>3
  <2> QED BY <2>4 DEF p, c, m
<1> HIDE DEF one, two
<1>7. OwesAtMost(name, one)
  BY <1>3, <1>5, <1>6 DEF OwesAtMost
<1>8. OwesAtMost(name, two)
  BY <1>4, <1>5, <1>6 DEF OwesAtMost
<1> QED BY <1>7, <1>8 DEF one, two

LEMMA StraddleOwes ==
  ASSUME NEW name, NEW k \in Int
  PROVE  OwesAtMost(name, <<Leg("CE", "BUY", k, 1), Leg("PE", "BUY", k, 1)>>)
<1> DEFINE legs == <<Leg("CE", "BUY", k, 1), Leg("PE", "BUY", k, 1)>>
<1>1. /\ legs \in Seq(LegSet) /\ DOMAIN legs = 1 .. 2
      /\ legs[1] = Leg("CE", "BUY", k, 1) /\ legs[2] = Leg("PE", "BUY", k, 1)
  BY DEF Leg, LegSet
<1>2. /\ legs[1].type = "CE" /\ legs[2].type = "PE" /\ legs[1].qty = 1 /\ legs[2].qty = 1
      /\ legs[1].dir = "BUY" /\ legs[2].dir = "BUY"
  BY <1>1 DEF Leg
<1> HIDE DEF legs
<1>3. ASSUME NEW w, DOMAIN w = 1 .. 2, w[1] \in Int, w[2] \in Int
      PROVE  Total(w) = w[1] + w[2]
    BY <1>3, TotalOfFew
<1>4. Widths(legs) = {}
  <2>1. StrikesAt(legs, "CE", "SELL") = {} /\ StrikesAt(legs, "PE", "SELL") = {}
    BY <1>1, <1>2 DEF StrikesAt
  <2> QED BY <2>1 DEF Widths
<1>5. NakedLots(legs) = 0
  <2> DEFINE w(x, y) == [i \in DOMAIN legs |-> IF legs[i].type = x /\ legs[i].dir = y
                                               THEN legs[i].qty ELSE 0]
  <2>1. ASSUME NEW x, NEW y
        PROVE  Total(w(x, y)) = w(x, y)[1] + w(x, y)[2]
    <3>1. DOMAIN w(x, y) = 1 .. 2 /\ w(x, y)[1] \in Int /\ w(x, y)[2] \in Int
      BY <1>1, <1>2
    <3> HIDE DEF w
    <3> QED BY <1>3, <3>1
  <2>2. ASSUME NEW x  PROVE Total(w(x, "SELL")) = 0 /\ Total(w(x, "BUY")) \in Nat
    <3>1. /\ w(x, "SELL")[1] = 0 /\ w(x, "SELL")[2] = 0
          /\ w(x, "BUY")[1] \in Nat /\ w(x, "BUY")[2] \in Nat
      BY <1>1, <1>2
    <3> HIDE DEF w
    <3> QED BY <2>1, <3>1
  <2>3. NakedLots(legs) = Positive(Total(w("CE", "SELL")) - Total(w("CE", "BUY")))
                            + Positive(Total(w("PE", "SELL")) - Total(w("PE", "BUY")))
    BY DEF NakedLots
  <2> HIDE DEF w
  <2> QED BY <2>2, <2>3 DEF Positive
<1>6. ASSUME NEW s \in Int  PROVE Owed(legs, s) <= 0
  <2> DEFINE w == [i \in DOMAIN legs |-> Signed(legs[i]) * Intrinsic(legs[i], s) * legs[i].qty]
  <2>1. /\ Intrinsic(legs[1], s) \in Nat /\ Intrinsic(legs[2], s) \in Nat
        /\ Signed(legs[1]) = -1 /\ Signed(legs[2]) = -1
      BY <1>1, <1>2, LegPays DEF Leg, LegSet, Signed
  <2>2. /\ w[1] = 0 - Intrinsic(legs[1], s) /\ w[2] = 0 - Intrinsic(legs[2], s)
        /\ DOMAIN w = 1 .. 2
    BY <1>1, <1>2, <2>1
  <2>3. Owed(legs, s) = Total(w)
    BY DEF Owed
  <2> HIDE DEF w
  <2>4. Total(w) = w[1] + w[2]
    BY <1>3, <2>1, <2>2
  <2> QED BY <2>1, <2>2, <2>3, <2>4
<1>7. OwesAtMost(name, legs)
  BY <1>1, <1>4, <1>5, <1>6 DEF OwesAtMost
<1> QED BY <1>7 DEF legs

(* Half a move either way, rounded to the grid. *)
LEMMA MovesOnGrid ==
  ASSUME NEW spot \in Int, NEW em \in Nat, NEW part \in Nat
  PROVE  /\ Grid(spot - (em * part) \div 2) \in Int /\ Grid(spot + (em * part) \div 2) \in Int
         /\ Grid(spot - (em * part) \div 2) <= Grid(spot + (em * part) \div 2)
<1> DEFINE r == (em * part) \div 2
<1>1. em * part \in Nat
  OBVIOUS
<1>2. r \in Nat
  BY <1>1
<1> HIDE DEF r
<1>3. spot - r \in Int /\ spot + r \in Int /\ spot - r <= spot + r
  BY <1>2
<1>4. /\ Grid(spot - r) \in Int /\ Grid(spot + r) \in Int
      /\ Grid(spot - r) <= Grid(spot + r)
  BY <1>3, GridIs, GridOrdered
<1> QED BY <1>4 DEF r

LEMMA CondorLegsOwe ==
  ASSUME NEW name, SellsPremium(name), NEW spot \in Int, NEW em \in Nat,
         NEW pw \in Nat, NEW cw \in Nat
  PROVE  OwesAtMost(name, CondorLegs(spot, em, pw, cw))
BY MovesOnGrid, CondorOwes DEF CondorLegs

(* What the margin of each structure of defined risk must cover. *)
LEMMA StructureOwes ==
  ASSUME NEW name \in Registry, DefinedRisk(name), NEW spot \in Int, NEW em \in Nat
  PROVE  OwesAtMost(name, LegsOf(name, spot, em))
<1> DEFINE atm == Grid(spot)
           w == 2 * StrikeStep
           below(part) == Grid(spot - (em * part) \div 2)
           above(part) == Grid(spot + (em * part) \div 2)
<1>1. atm \in Int /\ w \in Nat
  BY GridIs, StrategyAssumption
<1>2. ASSUME NEW part \in Nat  PROVE below(part) \in Int /\ above(part) \in Int
  BY MovesOnGrid
<1>3. ASSUME SellsPremium(name), NEW pw \in Nat, NEW cw \in Nat
      PROVE  OwesAtMost(name, CondorLegs(spot, em, pw, cw))
  BY <1>3, CondorLegsOwe
<1>4. WingPoints((w * 3) \div 2) \in Nat /\ WingPoints((w * 2) \div 3) \in Nat
  <2>1. (w * 3) \div 2 \in Int /\ (w * 2) \div 3 \in Int
    BY <1>1
  <2> HIDE DEF w
  <2> QED BY <2>1, WingIs
<1>5. CASE name = "iron_condor"
  BY <1>1, <1>3, <1>5 DEF LegsOf, SellsPremium
<1>6. CASE name = "broken_wing_condor"
  BY <1>3, <1>4, <1>6 DEF LegsOf, SellsPremium
<1>7. CASE name = "iron_fly"
  <2>1. OwesAtMost(name, Spread("CE", atm, atm + 2 * w) \o Spread("PE", atm, atm - 2 * w))
    <3>1. 2 * w \in Nat /\ atm <= atm
      BY <1>1
    <3>2. SellsPremium(name)
      BY <1>7 DEF SellsPremium
    <3> HIDE DEF atm, w
    <3> QED BY <1>1, <3>1, <3>2, CondorOwes
  <2> QED BY <1>7, <2>1 DEF LegsOf
<1>8. CASE name \in {"credit_put_spread", "bull_put_spread"}
  <2>1. ASSUME NEW k \in Int  PROVE OwesAtMost(name, Spread("PE", k, k - w))
    <3>1. k - w \in Int /\ k - w <= k /\ SellsPremium(name)
      BY <1>1, <1>8 DEF SellsPremium
    <3> HIDE DEF w
    <3> QED BY <3>1, CreditSpreadOwes
  <2> QED BY <1>2, <1>8, <2>1 DEF LegsOf
<1>9. CASE name \in {"bear_call_spread", "calendar_spread"}
  <2>1. ASSUME NEW k \in Int, NEW d \in Nat  PROVE OwesAtMost(name, Spread("CE", k, k + d))
      BY <1>9, CreditSpreadOwes DEF SellsPremium
  <2>2. CASE name = "bear_call_spread"
    BY <1>1, <1>2, <2>1, <2>2 DEF LegsOf
  <2>3. CASE name = "calendar_spread"
    <3>1. OwesAtMost(name, Spread("CE", atm, atm))
      <4>1. atm + 0 = atm
        BY <1>1
      <4> HIDE DEF atm
      <4> QED BY <1>1, <2>1, <4>1
    <3> QED BY <2>3, <3>1 DEF LegsOf
  <2> QED BY <1>9, <2>2, <2>3
<1>10. CASE name = "bull_call_spread"
  <2>1. ASSUME NEW k \in Int  PROVE OwesAtMost(name, Spread("CE", k + w, k))
    <3>1. k + w \in Int /\ k <= k + w
      BY <1>1
    <3> HIDE DEF w
    <3> QED BY <3>1, DebitSpreadOwes
  <2> QED BY <1>2, <1>10, <2>1 DEF LegsOf
<1>11. CASE name = "bear_put_spread"
  <2>1. ASSUME NEW k \in Int  PROVE OwesAtMost(name, Spread("PE", k - w, k))
    <3>1. k - w \in Int /\ k - w <= k
      BY <1>1
    <3> HIDE DEF w
    <3> QED BY <3>1, DebitSpreadOwes
  <2> QED BY <1>2, <1>11, <2>1 DEF LegsOf
<1>12. CASE name = "long_straddle"
  BY <1>1, <1>12, StraddleOwes DEF LegsOf
<1> QED BY <1>5, <1>6, <1>7, <1>8, <1>9, <1>10, <1>11, <1>12 DEF Registry, DefinedRisk

-----------------------------------------------------------------------------
(* The margin of a structure of defined risk covers what it can lose. *)
LEMMA SpanCovers ==
  ASSUME NEW name, NEW legs, OwesAtMost(name, legs), NEW net \in Int,
         SellsPremium(name) => net >= 0, NEW s \in Int, Owed(legs, s) \in Int
  PROVE  Owed(legs, s) - net <= SpanDefined(legs, net)
<1> DEFINE o == Owed(legs, s)
           m == Max(Widths(legs))
<1>1. CASE Widths(legs) = {}
  <2>1. o <= 0 /\ o \in Int
    BY <1>1 DEF OwesAtMost
  <2>2. SpanDefined(legs, net) = Abs(net)
    BY <1>1 DEF SpanDefined
  <2> HIDE DEF o
  <2>3. o - net <= Abs(net)
    BY <2>1 DEF Abs
  <2> QED BY <2>2, <2>3 DEF o
<1>2. CASE Widths(legs) # {}
  <2>1. m \in Nat /\ o \in Int /\ o <= m /\ (~SellsPremium(name) => o <= 0)
    BY <1>2 DEF OwesAtMost
  <2>2. SpanDefined(legs, net) = IF net >= 0 THEN Positive(m - net) ELSE Abs(net)
    BY <1>2 DEF SpanDefined
  <2> HIDE DEF o, m
  <2>3. CASE net >= 0
      BY <2>1, <2>2, <2>3 DEF Positive, o
  <2>4. CASE ~(net >= 0)
      BY <2>1, <2>2, <2>4 DEF Abs, o
  <2> QED BY <2>3, <2>4
<1> QED BY <1>1, <1>2

(* A lizard: a put sold naked, and a spread of calls. *)
LizardIs(legs, p, w) ==
  /\ legs \in Seq(LegSet) /\ Widths(legs) = {w}
  /\ \E l \in Range(legs) : l.type = "PE" /\ l.strike = p
  /\ \A s \in Int : p <= s => Owed(legs, s) <= w

LEMMA LizardOwes ==
  ASSUME NEW p \in Int, NEW k \in Int, NEW w \in Nat
  PROVE  LizardIs(<<Leg("PE", "SELL", p, 1)>> \o Spread("CE", k, k + w), p, w)
<1> DEFINE legs == <<Leg("PE", "SELL", p, 1)>> \o Spread("CE", k, k + w)
<1>1. /\ legs \in Seq(LegSet) /\ DOMAIN legs = 1 .. 3
      /\ legs[1] = Leg("PE", "SELL", p, 1)
      /\ legs[2] = Leg("CE", "SELL", k, 1) /\ legs[3] = Leg("CE", "BUY", k + w, 1)
  <2> DEFINE x == <<Leg("PE", "SELL", p, 1)>>
             y == Spread("CE", k, k + w)
             z == x \o y
  <2>1. /\ x \in Seq(LegSet) /\ y \in Seq(LegSet) /\ Len(x) = 1 /\ Len(y) = 2
        /\ x[1] = Leg("PE", "SELL", p, 1)
        /\ y[1] = Leg("CE", "SELL", k, 1) /\ y[2] = Leg("CE", "BUY", k + w, 1)
    BY DEF Spread, Leg, LegSet
  <2> HIDE DEF x, y
  <2>2. /\ z \in Seq(LegSet) /\ Len(z) = Len(x) + Len(y)
        /\ \A i \in 1 .. Len(x) + Len(y) : z[i] = IF i <= Len(x) THEN x[i] ELSE y[i - Len(x)]
    BY <2>1, ConcatProperties
  <2> HIDE DEF z
  <2>3. z \in Seq(LegSet) /\ Len(z) = 3
    BY <2>1, <2>2
  <2>4. DOMAIN z = 1 .. 3
    BY <2>3
  <2>5. \A i \in 1 .. 3 : z[i] = IF i <= 1 THEN x[i] ELSE y[i - 1]
    BY <2>1, <2>2
  <2>6. z[1] = x[1] /\ z[2] = y[1] /\ z[3] = y[2]
    BY <2>5
  <2> QED BY <2>1, <2>3, <2>4, <2>6 DEF x, y, z
<1>2. /\ legs[1].type = "PE" /\ legs[2].type = "CE" /\ legs[3].type = "CE"
      /\ legs[1].dir = "SELL" /\ legs[2].dir = "SELL" /\ legs[3].dir = "BUY"
      /\ legs[1].strike = p /\ legs[2].strike = k /\ legs[3].strike = k + w
      /\ legs[1].qty = 1 /\ legs[2].qty = 1 /\ legs[3].qty = 1
  BY <1>1 DEF Leg
<1>3. \A i \in 1 .. 3 : i = 1 \/ i = 2 \/ i = 3
  OBVIOUS
<1> HIDE DEF legs
<1>4. /\ StrikesAt(legs, "CE", "SELL") = {k} /\ StrikesAt(legs, "CE", "BUY") = {k + w}
      /\ StrikesAt(legs, "PE", "BUY") = {}
    BY <1>1, <1>2, <1>3 DEF StrikesAt
<1>5. Widths(legs) = {w}
  <2>1. k + w \in Int /\ Abs(k + w - k) = w
    BY DEF Abs
  <2>2. Max({k + w}) = k + w /\ Min({k}) = k
    BY <2>1, MaxOfOne
  <2> QED BY <1>4, <2>1, <2>2 DEF Widths
<1>6. \E l \in Range(legs) : l.type = "PE" /\ l.strike = p
    BY <1>1, <1>2 DEF Range
<1>7. ASSUME NEW s \in Int, p <= s  PROVE Owed(legs, s) <= w
  <2> DEFINE v == [i \in DOMAIN legs |-> Signed(legs[i]) * Intrinsic(legs[i], s) * legs[i].qty]
  <2>1. /\ Intrinsic(legs[1], s) = 0 /\ Intrinsic(legs[2], s) \in Nat
        /\ Intrinsic(legs[3], s) \in Nat
        /\ Signed(legs[1]) = 1 /\ Signed(legs[2]) = 1 /\ Signed(legs[3]) = -1
      BY <1>1, <1>2, <1>7, LegPays DEF Intrinsic, Positive, Signed
  <2>2. /\ v[1] = 0 /\ v[2] = Intrinsic(legs[2], s) /\ v[3] = 0 - Intrinsic(legs[3], s)
        /\ DOMAIN v = 1 .. 3
    BY <1>1, <1>2, <2>1
  <2>3. Owed(legs, s) = Total(v)
    BY DEF Owed
  <2> HIDE DEF v
  <2>4. v[1] \in Int /\ v[2] \in Int /\ v[3] \in Int
    BY <2>1, <2>2
  <2>5. Total(v) = v[1] + v[2] + v[3]
      BY <1>3, <2>2, <2>4, TotalOfFew
  <2>6. SpreadOwes("CE", k, k + w, s) = Intrinsic(legs[2], s) - Intrinsic(legs[3], s)
    BY <1>1 DEF SpreadOwes
  <2>7. SpreadOwes("CE", k, k + w, s) <= w
      BY SpreadOwesIs
  <2> QED BY <2>1, <2>2, <2>3, <2>4, <2>5, <2>6, <2>7
<1>8. LizardIs(legs, p, w)
  BY <1>1, <1>5, <1>6, <1>7 DEF LizardIs
<1> QED BY <1>8 DEF legs

(* Every structure of the registry is a list of legs. *)
LEMMA LegsTyped ==
  ASSUME NEW name \in Registry, NEW spot \in Int, NEW em \in Nat
  PROVE  LegsOf(name, spot, em) \in Seq(LegSet)
<1> DEFINE atm == Grid(spot)
           w == 2 * StrikeStep
           below(part) == Grid(spot - (em * part) \div 2)
           above(part) == Grid(spot + (em * part) \div 2)
<1>1. atm \in Int /\ w \in Nat /\ StrikeStep \in Nat
  BY GridIs, StrategyAssumption
<1>2. ASSUME NEW part \in Nat  PROVE below(part) \in Int /\ above(part) \in Int
  BY MovesOnGrid
<1>3. CASE DefinedRisk(name)
  BY <1>3, StructureOwes DEF OwesAtMost
<1>4. CASE name = "short_straddle"
  BY <1>1, <1>4 DEF LegsOf, Leg, LegSet
<1>5. CASE name = "short_strangle"
  <2>1. below(2) \in Int /\ above(2) \in Int
    BY <1>2
  <2>2. LegsOf(name, spot, em) = <<Leg("CE", "SELL", above(2), 1), Leg("PE", "SELL", below(2), 1)>>
    BY <1>5 DEF LegsOf
  <2> HIDE DEF below, above
  <2> QED BY <2>1, <2>2 DEF Leg, LegSet
<1>6. CASE name = "jade_lizard"
  <2>1. below(2) \in Int /\ above(1) \in Int
    BY <1>2
  <2>2. LegsOf(name, spot, em) = <<Leg("PE", "SELL", below(2), 1)>> \o Spread("CE", above(1), above(1) + w)
    BY <1>6 DEF LegsOf
  <2> HIDE DEF below, above, w
  <2> QED BY <1>1, <2>1, <2>2, LizardOwes DEF LizardIs
<1>7. CASE name = "ratio_spread"
  <2> DEFINE k1 == Grid(atm + em \div 4)
             k2 == Grid(atm + em)
  <2>1. k1 \in Int /\ k2 \in Int
      BY <1>1, GridIs
  <2>2. LegsOf(name, spot, em)
          = <<Leg("CE", "BUY", k1, 1), Leg("CE", "SELL", IF k2 <= k1 THEN k1 + StrikeStep ELSE k2, 2)>>
    BY <1>7 DEF LegsOf, RatioLegs
  <2> HIDE DEF k1, k2
  <2> QED BY <1>1, <2>1, <2>2 DEF Leg, LegSet
<1> QED BY <1>3, <1>4, <1>5, <1>6, <1>7 DEF DefinedRisk

(* The implied move is a number: every number has a root, rounded down. *)
LEMMA RootExists ==
  ASSUME NEW q \in Nat
  PROVE  \E m \in 0 .. q : m * m <= q /\ q < (m + 1) * (m + 1)
<1> DEFINE S == {m \in 0 .. q : q < (m + 1) * (m + 1)}
<1>1. q \in S
    OBVIOUS
<1>2. IsFiniteSet(S) /\ \A x \in S : x \in Int
    BY Within
<1> DEFINE m == Min(S)
<1>3. m \in S /\ \A x \in S : m <= x
  <2> HIDE DEF S
  <2> QED BY <1>1, <1>2, LeastOf
<1>4. m \in 0 .. q /\ q < (m + 1) * (m + 1)
  BY <1>3
<1>5. m * m <= q
  <2>1. CASE m = 0
    BY <2>1
  <2>2. CASE m # 0
    <3>1. m - 1 \in 0 .. q /\ m - 1 \notin S
      BY <1>3, <1>4, <2>2
    <3>2. ~(q < ((m - 1) + 1) * ((m - 1) + 1))
      BY <3>1
    <3>3. (m - 1) + 1 = m /\ m * m \in Int
      BY <1>4
    <3> HIDE DEF m, S
    <3> QED BY <3>2, <3>3
  <2> QED BY <2>1, <2>2
<1> QED BY <1>4, <1>5

LEMMA MoveNat ==
  ASSUME NEW spot \in Nat, NEW iv \in Nat, NEW dte \in Nat
  PROVE  ImpliedMove(spot, iv, dte) \in Nat
<1> DEFINE x == spot * spot * iv * iv * dte
           q == x \div (365 * 10000)
<1>1. x \in Nat
    OBVIOUS
<1> HIDE DEF x
<1>2. q \in Nat
  BY <1>1
<1> HIDE DEF q
<1>3. \E m \in 0 .. q : m * m <= q /\ q < (m + 1) * (m + 1)
  BY <1>2, RootExists
<1>4. (CHOOSE m \in 0 .. q : m * m <= q /\ q < (m + 1) * (m + 1)) \in 0 .. q
  BY <1>3
<1>5. ImpliedMove(spot, iv, dte) = CHOOSE m \in 0 .. q : m * m <= q /\ q < (m + 1) * (m + 1)
  BY DEF ImpliedMove, q, x
<1> QED BY <1>2, <1>4, <1>5

-----------------------------------------------------------------------------
(* Sorting. *)

(* R puts any two members of D in one order. *)
OrderOn(D, R) ==
  /\ \A i, j \in D : i # j => <<i, j>> \in R \/ <<j, i>> \in R
  /\ \A i, j \in D : <<i, j>> \in R => i # j /\ <<j, i>> \notin R
  /\ \A i, j, k \in D : <<i, j>> \in R /\ <<j, k>> \in R => <<i, k>> \in R

(* at lists the members of D, each once, in the order of R. *)
OrderedBy(at, D, R) ==
  /\ Cardinality(D) \in Nat /\ DOMAIN at = 1 .. Cardinality(D)
  /\ \A n \in DOMAIN at : at[n] \in D
  /\ \A j \in D : \E n \in DOMAIN at : at[n] = j
  /\ \A n, m \in DOMAIN at : n < m => at[n] # at[m] /\ <<at[n], at[m]>> \in R

LEMMA InOrderIs ==
  ASSUME NEW D, IsFiniteSet(D), NEW R, OrderOn(D, R)
  PROVE  OrderedBy(InOrder(D, R), D, R)
<1> DEFINE N == Cardinality(D)
           upTo(j) == {i \in D : i = j \/ <<i, j>> \in R}
           rank(j) == Cardinality(upTo(j))
           f == [j \in D |-> rank(j)]
           at == [n \in 1 .. N |-> CHOOSE j \in D : rank(j) = n]
<1>1. N \in Nat /\ IsFiniteSet(1 .. N) /\ Cardinality(1 .. N) = N
  <2>1. N \in Nat
    BY FS_CardinalityType
  <2> HIDE DEF N
  <2> QED BY <2>1, CountTo
<1>2. InOrder(D, R) = at
  BY DEF InOrder
<1>3. ASSUME NEW j \in D  PROVE IsFiniteSet(upTo(j)) /\ rank(j) \in 1 .. N
  <2>1. upTo(j) \in SUBSET D /\ {j} \in SUBSET upTo(j)
    BY <1>3
  <2> HIDE DEF upTo
  <2>2. IsFiniteSet(upTo(j)) /\ Cardinality(upTo(j)) <= N
    BY <2>1, FS_Subset
  <2>3. Cardinality({j}) <= Cardinality(upTo(j)) /\ Cardinality({j}) = 1
    BY <2>1, <2>2, FS_Subset, FS_Singleton
  <2>4. Cardinality(upTo(j)) \in Nat
    BY <2>2, FS_CardinalityType
  <2> HIDE DEF N
  <2> QED BY <1>1, <2>2, <2>3, <2>4
<1>4. ASSUME NEW i \in D, NEW j \in D, <<i, j>> \in R  PROVE rank(i) < rank(j)
  <2>1. upTo(i) \in SUBSET upTo(j) /\ j \in upTo(j) /\ j \notin upTo(i)
    BY <1>4 DEF OrderOn
  <2>2. IsFiniteSet(upTo(j)) /\ rank(i) \in Int /\ rank(j) \in Int
    <3> HIDE DEF upTo, rank, N
    <3> QED BY <1>1, <1>3
  <2> DEFINE A == upTo(i)
             B == upTo(j)
  <2>3. A \in SUBSET B /\ A # B /\ IsFiniteSet(B)
    BY <2>1, <2>2
  <2> HIDE DEF A, B
  <2>4. Cardinality(A) <= Cardinality(B) /\ Cardinality(A) # Cardinality(B)
    BY <2>3, FS_Subset
  <2>5. rank(i) <= rank(j) /\ rank(i) # rank(j)
    BY <2>4 DEF A, B
  <2> HIDE DEF rank
  <2> QED BY <2>2, <2>5
<1>5. ASSUME NEW i \in D, NEW j \in D, rank(i) = rank(j)  PROVE i = j
  <2>1. rank(i) \in Int /\ rank(j) \in Int
    <3> HIDE DEF upTo, rank, N
    <3> QED BY <1>1, <1>3
  <2>2. <<i, j>> \notin R /\ <<j, i>> \notin R
    <3> HIDE DEF rank
    <3> QED BY <1>4, <1>5, <2>1
  <2> QED BY <2>2 DEF OrderOn
<1>6. f \in Surjection(D, 1 .. N)
  <2>1. f \in Injection(D, 1 .. N)
    <3> HIDE DEF rank, N
    <3> QED BY <1>3, <1>5 DEF Injection, IsInjective
  <2> HIDE DEF f
  <2> QED BY <1>1, <2>1, FS_Injection
<1>7. ASSUME NEW n \in 1 .. N  PROVE at[n] \in D /\ rank(at[n]) = n
  <2>1. \E j \in D : f[j] = n
    <3> HIDE DEF f
    <3> QED BY <1>6 DEF Surjection
  <2>2. \E j \in D : rank(j) = n
    BY <2>1
  <2>3. at[n] = CHOOSE j \in D : rank(j) = n
    OBVIOUS
  <2> HIDE DEF rank, at
  <2> QED BY <2>2, <2>3
<1> HIDE DEF at, rank
<1>8. ASSUME NEW j \in D  PROVE \E n \in 1 .. N : at[n] = j
    BY <1>3, <1>5, <1>7
<1>9. ASSUME NEW n \in 1 .. N, NEW m \in 1 .. N, n < m
      PROVE  at[n] # at[m] /\ <<at[n], at[m]>> \in R
  <2>1. /\ at[n] \in D /\ at[m] \in D /\ rank(at[n]) = n /\ rank(at[m]) = m
        /\ n \in Int /\ m \in Int
    BY <1>1, <1>7
  <2>2. at[n] # at[m] /\ ~(rank(at[m]) < rank(at[n]))
    BY <1>9, <2>1
  <2>3. <<at[m], at[n]>> \notin R
    BY <1>4, <2>1, <2>2
  <2> QED BY <2>1, <2>2, <2>3 DEF OrderOn
<1>10. DOMAIN at = 1 .. N
  BY DEF at
<1> QED BY <1>1, <1>2, <1>7, <1>8, <1>9, <1>10 DEF OrderedBy

Foremost(at, m) == {at[i] : i \in 1 .. m}

(* The first m in an order are m. *)
LEMMA FirstOf ==
  ASSUME NEW D, NEW R, NEW at, OrderedBy(at, D, R), NEW m \in 0 .. Cardinality(D)
  PROVE  Foremost(at, m) \in SUBSET D /\ Cardinality(Foremost(at, m)) = m
<1> DEFINE T == Foremost(at, m)
           f == [i \in 1 .. m |-> at[i]]
           N == Cardinality(D)
<1>1. N \in Nat /\ DOMAIN at = 1 .. N
  BY DEF OrderedBy
<1>2. m \in Nat /\ \A i \in 1 .. m : i \in 1 .. N
  BY <1>1
<1>3. \A i \in 1 .. m : at[i] \in D
  BY <1>1, <1>2 DEF OrderedBy
<1>4. \A i, j \in 1 .. N : i < j => at[i] # at[j]
  BY <1>1 DEF OrderedBy
<1>5. \A i, j \in 1 .. m : at[i] = at[j] => i = j
  BY <1>1, <1>2, <1>4
<1>6. f \in Bijection(1 .. m, T)
  BY <1>5 DEF Foremost, Bijection, Injection, Surjection, IsInjective
<1> HIDE DEF f, T
<1>7. ExistsBijection(1 .. m, T)
  BY <1>6 DEF ExistsBijection
<1>8. Cardinality(T) = m
  BY <1>2, <1>7, CountTo, FS_Bijection
<1>9. T \in SUBSET D
  BY <1>3 DEF Foremost, T
<1> QED BY <1>8, <1>9 DEF T

(* The pairs of places of a list ordered by what it holds there. *)
ByEntry(s) ==
  {p \in (DOMAIN s) \X (DOMAIN s) : \/ s[p[1]].entry < s[p[2]].entry
                                    \/ (s[p[1]].entry = s[p[2]].entry /\ p[1] < p[2])}

(* Sorting by entry puts every trade somewhere, in the order of entries.   *)
LEMMA PlacedByEntry ==
  ASSUME NEW S, NEW s \in Seq(S), \A x \in S : x.entry \in Nat
  PROVE  /\ Chronological(s) = [n \in DOMAIN s |-> s[InOrder(DOMAIN s, ByEntry(s))[n]]]
         /\ OrderedBy(InOrder(DOMAIN s, ByEntry(s)), DOMAIN s, ByEntry(s))
         /\ DOMAIN InOrder(DOMAIN s, ByEntry(s)) = DOMAIN s /\ DOMAIN s = 1 .. Len(s)
<1> DEFINE D == DOMAIN s
           R == ByEntry(s)
<1>1. Chronological(s) = [n \in D |-> s[InOrder(D, R)[n]]]
  BY DEF Chronological, ByEntry
<1>2. D = 1 .. Len(s) /\ Len(s) \in Nat /\ IsFiniteSet(D) /\ Cardinality(D) = Len(s)
  BY PlacesOf
<1>3. \A i \in D : s[i].entry \in Int /\ i \in Int
  OBVIOUS
<1>4. ASSUME NEW i \in D, NEW j \in D
      PROVE  <<i, j>> \in R <=> \/ s[i].entry < s[j].entry
                                \/ (s[i].entry = s[j].entry /\ i < j)
  BY DEF ByEntry
<1> HIDE DEF D, R
<1>5. OrderOn(D, R)
  <2> DEFINE e == [i \in D |-> s[i].entry]
  <2>1. \A i \in D : e[i] \in Int /\ i \in Int
    BY <1>3
  <2>2. ASSUME NEW i \in D, NEW j \in D
        PROVE  <<i, j>> \in R <=> e[i] < e[j] \/ (e[i] = e[j] /\ i < j)
    <3>1. e[i] = s[i].entry /\ e[j] = s[j].entry
      OBVIOUS
    <3> HIDE DEF e
    <3> QED BY <1>4, <3>1
  <2> HIDE DEF e
  <2> QED BY <2>1, <2>2 DEF OrderOn
<1>6. OrderedBy(InOrder(D, R), D, R)
  BY <1>2, <1>5, InOrderIs
<1>7. DOMAIN InOrder(D, R) = D
  BY <1>2, <1>6 DEF OrderedBy
<1> QED BY <1>1, <1>2, <1>6, <1>7 DEF D, R

LEMMA SortedByEntry ==
  ASSUME NEW S, NEW s \in Seq(S), \A x \in S : x.entry \in Nat
  PROVE  /\ Chronological(s) \in Seq(S) /\ Len(Chronological(s)) = Len(s)
         /\ \A a, b \in 1 .. Len(s) :
              a <= b => Chronological(s)[a].entry <= Chronological(s)[b].entry
<1> DEFINE at == InOrder(DOMAIN s, ByEntry(s))
           c == Chronological(s)
           N == Len(s)
<1>1. /\ N \in Nat /\ DOMAIN s = 1 .. N /\ DOMAIN at = 1 .. N
      /\ c = [n \in 1 .. N |-> s[at[n]]]
      /\ OrderedBy(at, DOMAIN s, ByEntry(s))
  BY PlacedByEntry
<1>2. \A i \in 1 .. N : s[i] \in S /\ s[i].entry \in Nat
  OBVIOUS
<1> HIDE DEF at, c
<1>3. \A n \in 1 .. N : at[n] \in 1 .. N /\ c[n] = s[at[n]]
  BY <1>1 DEF OrderedBy
<1>4. c \in Seq(S) /\ Len(c) = N
  <2> HIDE DEF N
  <2>1. \A n \in 1 .. N : s[at[n]] \in S
    BY <1>2, <1>3
  <2>2. c \in [1 .. N -> S]
    BY <1>1, <2>1
  <2> QED BY <1>1, <2>2
<1>5. ASSUME NEW a \in 1 .. N, NEW b \in 1 .. N, a <= b  PROVE c[a].entry <= c[b].entry
  <2>1. c[a] = s[at[a]] /\ c[b] = s[at[b]] /\ s[at[a]].entry \in Nat /\ s[at[b]].entry \in Nat
    BY <1>2, <1>3
  <2>2. CASE a = b
    BY <2>1, <2>2
  <2>3. CASE a < b
    <3>1. <<at[a], at[b]>> \in ByEntry(s)
      BY <1>1, <2>3 DEF OrderedBy
    <3>2. s[at[a]].entry < s[at[b]].entry \/ s[at[a]].entry = s[at[b]].entry
      BY <3>1 DEF ByEntry
    <3> QED BY <2>1, <3>2
  <2> QED BY <1>5, <2>2, <2>3
<1> QED BY <1>4, <1>5 DEF c

-----------------------------------------------------------------------------
(* The run of a strategy. *)

Priced(c) == ~Incomplete(c) /\ c.vix > 0

TradesOf(name) == {PlacedTrade(name, c) : c \in {d \in WeekSet : Priced(d)}}

StrategyInv ==
  /\ strat \in Names \cup {"none"} /\ gating \in {"vol", "none"} /\ failed \in BOOLEAN
  /\ placed \in Seq(TradesOf(strat)) /\ Len(placed) <= MaxPlaced
  /\ strat = "none" => placed = <<>>

LEMMA InitStrategyInv == InitStrategies => StrategyInv
<1> SUFFICES ASSUME InitStrategies  PROVE StrategyInv
  OBVIOUS
<1>1. placed = <<>> /\ Len(<<>>) = 0 /\ <<>> \in Seq(TradesOf(strat)) /\ MaxPlaced \in Nat
  BY StrategyAssumption DEF InitStrategies
<1>2. strat \in Names \cup {"none"} /\ gating \in {"vol", "none"} /\ failed \in BOOLEAN
  BY DEF InitStrategies
<1>3. placed \in Seq(TradesOf(strat)) /\ Len(placed) <= MaxPlaced
  BY <1>1
<1> QED BY <1>1, <1>2, <1>3 DEF StrategyInv

LEMMA StrategyStutters == StrategyInv /\ UNCHANGED strategyVars => StrategyInv'
<1> SUFFICES ASSUME StrategyInv, UNCHANGED strategyVars  PROVE StrategyInv'
  OBVIOUS
<1>1. strat' = strat /\ gating' = gating /\ placed' = placed /\ failed' = failed
  BY DEF strategyVars
<1>2. TradesOf(strat)' = TradesOf(strat)
  BY <1>1 DEF TradesOf, PlacedTrade, TradeWith
<1> QED BY <1>1, <1>2 DEF StrategyInv

LEMMA StrategyNextKeeps == StrategyInv /\ StrategyNext => StrategyInv'
<1> SUFFICES ASSUME StrategyInv, StrategyNext  PROVE StrategyInv'
  OBVIOUS
<1>1. ASSUME NEW name \in Names, NEW how \in {"vol", "none"}, StartStrategy(name, how)
      PROVE  StrategyInv'
    BY <1>1, StrategyAssumption DEF StartStrategy, StrategyInv, Registry
<1>2. ASSUME NEW c \in WeekSet, RunWeek(c)  PROVE StrategyInv'
  <2>1. strat' = strat /\ gating' = gating /\ strat # "none" /\ Len(placed) < MaxPlaced
    BY <1>2 DEF RunWeek
  <2>2. TradesOf(strat)' = TradesOf(strat)
    BY <2>1 DEF TradesOf, PlacedTrade, TradeWith
  <2>3. failed' \in BOOLEAN
    BY <1>2 DEF RunWeek, StrategyInv
  <2>4. \/ placed' = placed
        \/ Priced(c) /\ placed' = Append(placed, PlacedTrade(strat, c))
    <3>1. CASE Incomplete(c) \/ c.vix <= 0
      BY <1>2, <3>1 DEF RunWeek
    <3>2. CASE ~Incomplete(c) /\ ~(c.vix <= 0)
        BY <1>2, <3>2 DEF RunWeek, Trades, Priced
    <3> QED BY <3>1, <3>2
  <2>5. CASE placed' = placed
    BY <2>1, <2>2, <2>3, <2>5 DEF StrategyInv
  <2>6. CASE Priced(c) /\ placed' = Append(placed, PlacedTrade(strat, c))
    <3> DEFINE t == PlacedTrade(strat, c)
    <3>1. t \in TradesOf(strat)
      BY <2>6 DEF TradesOf
    <3>2. placed \in Seq(TradesOf(strat)) /\ MaxPlaced \in Nat
      BY StrategyAssumption DEF StrategyInv
    <3> HIDE DEF t
    <3>3. Append(placed, t) \in Seq(TradesOf(strat)) /\ Len(Append(placed, t)) = Len(placed) + 1
      BY <3>1, <3>2
    <3>4. Len(placed) + 1 <= MaxPlaced
      BY <2>1, <3>2
    <3>5. placed' = Append(placed, t)
      BY <2>6 DEF t
    <3> QED BY <2>1, <2>2, <2>3, <3>3, <3>4, <3>5 DEF StrategyInv
  <2> QED BY <2>4, <2>5, <2>6
<1> QED BY <1>1, <1>2 DEF StrategyNext

(* What a trade of the run is. *)
TradeIs(name, t) ==
  /\ t.legs \in Seq(LegSet) /\ DOMAIN t.fills = DOMAIN t.legs
  /\ \A i \in DOMAIN t.legs : t.fills[i] \in Int
  /\ t.entry \in Nat /\ t.spot \in Nat
  /\ t.credit = NetPremium(t.legs, t.fills)
  /\ DefinedRisk(name) => /\ OwesAtMost(name, t.legs)
                          /\ t.span = SpanDefined(t.legs, t.credit)
  /\ name = "jade_lizard" =>
       \E p \in Int, k \in Int :
         /\ t.legs = <<Leg("PE", "SELL", p, 1)>> \o Spread("CE", k, k + 2 * StrikeStep)
         /\ t.upside = Positive(Max(Widths(t.legs)) - t.credit)

LEMMA FillsAreInt ==
  ASSUME NEW legs \in Seq(LegSet), NEW spot \in Nat, NEW rich \in Nat, NEW i \in DOMAIN legs
  PROVE  Fill(legs[i], Mid(legs[i], spot, rich)) \in Int
<1> DEFINE l == legs[i]
           far == IF l.strike > spot THEN l.strike - spot ELSE spot - l.strike
           mid == Mid(l, spot, rich)
<1>1. l \in LegSet /\ spot \in Int
  OBVIOUS
<1>2. Intrinsic(l, spot) \in Nat /\ Signed(l) \in {1, -1}
  <2> HIDE DEF l
  <2> QED BY <1>1, LegPays
<1>3. far \in Int
  BY <1>1 DEF LegSet
<1>4. mid = Intrinsic(l, spot) + Positive(rich - far \div 2)
  BY DEF Mid
<1>5. Fill(l, mid) = mid - Signed(l) * (mid \div SlipPart)
  BY DEF Fill
<1> HIDE DEF l, far, mid
<1>6. mid \in Nat
    BY <1>2, <1>3, <1>4 DEF Positive
<1> DEFINE cut == mid \div SlipPart
<1>7. cut \in Int
  BY <1>6, StrategyAssumption
<1> HIDE DEF cut
<1>8. Signed(l) * cut \in Int
  BY <1>2, <1>7
<1>9. Fill(l, mid) \in Int
  BY <1>5, <1>6, <1>8 DEF cut
<1> QED BY <1>9 DEF l, mid

LEMMA TradesAre ==
  ASSUME NEW name \in Registry, NEW t \in TradesOf(name)
  PROVE  TradeIs(name, t)
<1>1. PICK c \in WeekSet : Priced(c) /\ t = PlacedTrade(name, c)
  BY DEF TradesOf
<1>2. /\ c.spot \in Nat /\ c.vix \in Nat /\ c.dte \in Nat
      /\ c.entry \in Nat /\ c.rich \in Nat
  BY <1>1, StrategyAssumption DEF Priced, Incomplete
<1> DEFINE em == MoveOf(c)
           legs == LegsOf(name, c.spot, em)
           fills == [i \in DOMAIN legs |-> Fill(legs[i], Mid(legs[i], c.spot, c.rich))]
<1>3. em \in Nat
  BY <1>2, MoveNat DEF MoveOf
<1>4. /\ t.legs = legs /\ t.fills = fills /\ t.entry = c.entry /\ t.spot = c.spot
      /\ t.credit = NetPremium(legs, fills)
      /\ t.span = SpanMargin(name, legs, NetPremium(legs, fills), c.spot)
      /\ name = "jade_lizard" => t.upside = Positive(Max(Widths(legs)) - NetPremium(legs, fills))
  BY <1>1 DEF PlacedTrade, TradeWith
<1> HIDE DEF em
<1>5. legs \in Seq(LegSet)
  BY <1>2, <1>3, LegsTyped
<1>6. DefinedRisk(name) => OwesAtMost(name, legs)
  BY <1>2, <1>3, StructureOwes
<1>7. name = "jade_lizard" =>
        \E p \in Int, k \in Int :
          legs = <<Leg("PE", "SELL", p, 1)>> \o Spread("CE", k, k + 2 * StrikeStep)
  <2> SUFFICES ASSUME name = "jade_lizard"
               PROVE  \E p \in Int, k \in Int :
                        legs = <<Leg("PE", "SELL", p, 1)>> \o Spread("CE", k, k + 2 * StrikeStep)
    OBVIOUS
  <2> DEFINE p == Grid(c.spot - (em * 2) \div 2)
             k == Grid(c.spot + (em * 1) \div 2)
  <2>1. p \in Int /\ k \in Int
    <3>1. c.spot \in Int /\ 1 \in Nat /\ 2 \in Nat
      BY <1>2
    <3>2. ASSUME NEW part \in Nat
          PROVE  /\ Grid(c.spot - (em * part) \div 2) \in Int
                 /\ Grid(c.spot + (em * part) \div 2) \in Int
      BY <1>3, <3>1, MovesOnGrid
    <3> QED BY <3>1, <3>2
  <2>2. legs = <<Leg("PE", "SELL", p, 1)>> \o Spread("CE", k, k + 2 * StrikeStep)
    BY DEF LegsOf
  <2> HIDE DEF p, k, legs
  <2> QED BY <2>1, <2>2
<1> HIDE DEF legs
<1>8. ASSUME NEW i \in DOMAIN legs  PROVE fills[i] \in Int
  BY <1>2, <1>5, FillsAreInt
<1>9. DefinedRisk(name) => t.span = SpanDefined(legs, NetPremium(legs, fills))
  BY <1>4 DEF SpanMargin, SpanModel, DefinedRisk
<1>10. DOMAIN fills = DOMAIN legs
  OBVIOUS
<1> HIDE DEF fills
<1> QED BY <1>2, <1>4, <1>5, <1>6, <1>7, <1>8, <1>9, <1>10 DEF TradeIs

LEMMA PlacedAre ==
  ASSUME StrategyInv, NEW i \in DOMAIN placed
  PROVE  strat \in Registry /\ TradeIs(strat, placed[i])
BY StrategyAssumption, TradesAre DEF StrategyInv

LEMMA SettlementsAreInt ==
  ASSUME NEW name, NEW t, TradeIs(name, t), NEW s \in Settlements(t)
  PROVE  s \in Int
<1>1. ASSUME NEW i \in 5 .. 15  PROVE (t.spot * i) \div 10 \in Int
    BY DEF TradeIs
<1>2. ASSUME NEW l \in Range(t.legs)  PROVE l.strike \in Int
  <2>1. PICK j \in DOMAIN t.legs : l = t.legs[j]
    BY DEF Range
  <2>2. l \in LegSet
    BY <2>1 DEF TradeIs
  <2> QED BY <2>2 DEF LegSet
<1> QED BY <1>1, <1>2 DEF Settlements

(* Settling a trade of the run. *)
LEMMA TradeSettles ==
  ASSUME NEW name, NEW t, TradeIs(name, t), NEW s \in Int
  PROVE  /\ t.credit \in Int /\ Owed(t.legs, s) \in Int
         /\ -ResolveFills(t.legs, t.fills, s) = Owed(t.legs, s) - t.credit
<1> DEFINE legs == t.legs
           fills == t.fills
           r == ResolveFills(legs, fills, s)
           o == Owed(legs, s)
           n == NetPremium(legs, fills)
<1>1. /\ legs \in Seq(LegSet) /\ DOMAIN fills = DOMAIN legs
      /\ \A i \in DOMAIN legs : fills[i] \in Int
      /\ t.credit = n
  BY DEF TradeIs
<1>2. r = n - o /\ n \in Int /\ o \in Int
  <2> HIDE DEF legs, fills
  <2> QED BY <1>1, SettledIs
<1> HIDE DEF r, o, n
<1>3. -r = o - n
  BY <1>2
<1>4. t.credit \in Int /\ o \in Int /\ -r = o - t.credit
  BY <1>1, <1>2, <1>3
<1> QED BY <1>4 DEF r, o

(* The margin of a trade of defined risk covers what it can lose. *)
LEMMA TradeCovered ==
  ASSUME NEW name, DefinedRisk(name), NEW t, TradeIs(name, t),
         SellsPremium(name) => t.credit >= 0
  PROVE  \A s \in Settlements(t) : -ResolveFills(t.legs, t.fills, s) <= t.span
<1>1. OwesAtMost(name, t.legs) /\ t.span = SpanDefined(t.legs, t.credit)
  BY DEF TradeIs
<1>2. ASSUME NEW s \in Settlements(t)
      PROVE  -ResolveFills(t.legs, t.fills, s) <= t.span
    BY <1>1, SettlementsAreInt, TradeSettles, SpanCovers
<1> QED BY <1>2

LEMMA MarginCovers == ASSUME StrategyInv  PROVE SpanCoversLoss
<1> SUFFICES ASSUME NEW i \in DOMAIN placed, DefinedRisk(strat),
                    SellsPremium(strat) => placed[i].credit >= 0
             PROVE  /\ NakedLots(placed[i].legs) = 0
                    /\ \A s \in Settlements(placed[i]) :
                         -ResolveFills(placed[i].legs, placed[i].fills, s) <= placed[i].span
  BY DEF SpanCoversLoss
<1> DEFINE t == placed[i]
<1>1. TradeIs(strat, t)
  BY PlacedAre
<1>2. SellsPremium(strat) => t.credit >= 0
  OBVIOUS
<1> HIDE DEF t
<1>3. OwesAtMost(strat, t.legs) /\ t.span = SpanDefined(t.legs, t.credit)
  BY <1>1 DEF TradeIs
<1>4. NakedLots(t.legs) = 0
  BY <1>3 DEF OwesAtMost
<1>5. ASSUME NEW s \in Settlements(t)
      PROVE  -ResolveFills(t.legs, t.fills, s) <= t.span
  BY <1>1, <1>2, TradeCovered
<1> QED BY <1>4, <1>5 DEF t

LEMMA LizardsAsStated == ASSUME StrategyInv  PROVE UpsideAsStated
<1> SUFFICES ASSUME NEW i \in DOMAIN placed, strat = "jade_lizard",
                    NEW s \in Settlements(placed[i]),
                    \A l \in Range(placed[i].legs) : l.type = "PE" => s >= l.strike
             PROVE  -ResolveFills(placed[i].legs, placed[i].fills, s) <= placed[i].upside
  BY DEF UpsideAsStated
<1> DEFINE t == placed[i]
           w == 2 * StrikeStep
<1>1. TradeIs(strat, t)
  BY PlacedAre
<1>2. s \in Settlements(t) /\ \A l \in Range(t.legs) : l.type = "PE" => s >= l.strike
  OBVIOUS
<1> HIDE DEF t
<1>3. s \in Int
  BY <1>1, <1>2, SettlementsAreInt
<1>4. PICK p \in Int, k \in Int :
        /\ t.legs = <<Leg("PE", "SELL", p, 1)>> \o Spread("CE", k, k + w)
        /\ t.upside = Positive(Max(Widths(t.legs)) - t.credit)
  BY <1>1 DEF TradeIs
<1>5. w \in Nat
  BY StrategyAssumption
<1> HIDE DEF w
<1>6. /\ Widths(t.legs) = {w} /\ \E l \in Range(t.legs) : l.type = "PE" /\ l.strike = p
      /\ p <= s => Owed(t.legs, s) <= w
  <2>1. LizardIs(t.legs, p, w)
    BY <1>4, <1>5, LizardOwes
  <2> QED BY <1>3, <2>1 DEF LizardIs
<1>7. p <= s
  BY <1>2, <1>3, <1>6
<1>8. Max(Widths(t.legs)) = w
  BY <1>5, <1>6, MaxOfOne
<1>9. /\ t.credit \in Int /\ Owed(t.legs, s) \in Int
      /\ -ResolveFills(t.legs, t.fills, s) = Owed(t.legs, s) - t.credit
  BY <1>1, <1>3, TradeSettles
<1>10. Owed(t.legs, s) - t.credit <= Positive(w - t.credit)
  BY <1>5, <1>6, <1>7, <1>9 DEF Positive
<1>11. -ResolveFills(t.legs, t.fills, s) <= t.upside
  BY <1>4, <1>8, <1>9, <1>10
<1> QED BY <1>11 DEF t

LEMMA SinglesSettleAlike == ASSUME StrategyInv  PROVE SettlementsAgree
<1> SUFFICES ASSUME NEW i \in DOMAIN placed,
                    \A l \in Range(placed[i].legs) : l.qty = 1,
                    NEW s \in Settlements(placed[i])
             PROVE  ResolveFills(placed[i].legs, placed[i].fills, s)
                      = ResolveNet(placed[i].legs, placed[i].credit, s)
  BY DEF SettlementsAgree
<1> DEFINE t == placed[i]
           legs == t.legs
           fills == t.fills
<1>1. TradeIs(strat, t)
  BY PlacedAre
<1>2. s \in Settlements(t) /\ \A l \in Range(t.legs) : l.qty = 1
  OBVIOUS
<1> HIDE DEF t
<1>3. s \in Int
  BY <1>1, <1>2, SettlementsAreInt
<1>4. /\ legs \in Seq(LegSet) /\ DOMAIN fills = DOMAIN legs
      /\ \A j \in DOMAIN legs : fills[j] \in Int
      /\ t.credit = NetPremium(legs, fills)
  BY <1>1 DEF TradeIs
<1>5. \A j \in DOMAIN legs : legs[j].qty = 1
  BY <1>2 DEF Range
<1> HIDE DEF legs, fills
<1>6. ResolveFills(legs, fills, s) = ResolveNet(legs, t.credit, s)
  BY <1>3, <1>4, <1>5, SettlesAlike
<1> QED BY <1>6 DEF t, legs, fills

LEMMA SamplesSplit == ASSUME StrategyInv  PROVE SampleSplit
<1> SUFFICES ASSUME placed # <<>>
             PROVE  /\ \A a \in Range(Split.inside), b \in Range(Split.outside) :
                         a.entry <= b.entry
                    /\ Len(Split.inside) + Len(Split.outside) = Len(placed)
  BY DEF SampleSplit
<1> DEFINE S == TradesOf(strat)
           s == Chronological(placed)
           n == Len(placed)
           q == (7 * Len(s)) \div 10
           cut == Max({1, q})
           in == SubSeq(s, 1, cut)
           out == SubSeq(s, cut + 1, Len(s))
<1>1. placed \in Seq(S)
  BY DEF StrategyInv
<1>2. ASSUME NEW x \in S  PROVE x.entry \in Nat
    BY <1>2, StrategyAssumption, TradesAre DEF StrategyInv, TradeIs
<1>3. n \in Nat /\ n >= 1
  BY <1>1
<1> HIDE DEF S
<1>4. /\ s \in Seq(S) /\ Len(s) = n
      /\ \A a, b \in 1 .. n : a <= b => s[a].entry <= s[b].entry
  BY <1>1, <1>2, SortedByEntry
<1>5. Split.inside = in /\ Split.outside = out
  BY DEF Split
<1> HIDE DEF s, n
<1>6. q \in Int /\ q <= n
  BY <1>3, <1>4
<1> HIDE DEF q
<1>7. cut \in 1 .. n
  <2>1. Max({1, q}) \in {1, q} /\ Max({1, q}) >= 1
    <3>1. 1 \in Int /\ q \in Int
      BY <1>6
    <3> HIDE DEF cut
    <3>2. ASSUME NEW a \in Int  PROVE Max({a, q}) \in {a, q} /\ Max({a, q}) >= a
      BY <3>1, MaxOfTwo
    <3> QED BY <3>1, <3>2
  <2> QED BY <1>3, <1>6, <2>1
<1> HIDE DEF cut
<1>8. \A i \in 1 .. n : s[i] \in S
  BY <1>4
<1>9. /\ Len(in) = cut /\ in \in Seq(S)
      /\ \A i \in 1 .. cut : in[i] = s[i]
  <2>1. 1 \in Int /\ cut \in Int /\ \A i \in 1 .. cut : s[i] \in S
    BY <1>3, <1>7, <1>8
  <2>2. /\ in \in Seq(S) /\ Len(in) = IF 1 <= cut THEN cut - 1 + 1 ELSE 0
        /\ \A i \in 1 .. cut - 1 + 1 : in[i] = s[1 + i - 1]
    <3> HIDE DEF in
    <3> QED BY <2>1, SubSeqProperties DEF in
  <2>3. cut - 1 + 1 = cut /\ 1 <= cut /\ \A i \in 1 .. cut : 1 + i - 1 = i
    BY <1>3, <1>7
  <2> HIDE DEF in
  <2> QED BY <2>2, <2>3
<1>10. /\ Len(out) = n - cut /\ out \in Seq(S)
       /\ \A i \in 1 .. n - cut : out[i] = s[cut + i]
  <2>1. cut + 1 \in Int /\ n \in Int /\ \A i \in cut + 1 .. n : s[i] \in S
    BY <1>3, <1>7, <1>8
  <2>2. out = SubSeq(s, cut + 1, n)
    BY <1>4
  <2>3. /\ out \in Seq(S) /\ Len(out) = IF cut + 1 <= n THEN n - (cut + 1) + 1 ELSE 0
        /\ \A i \in 1 .. n - (cut + 1) + 1 : out[i] = s[cut + 1 + i - 1]
    <3> HIDE DEF out
    <3> QED BY <2>1, <2>2, SubSeqProperties
  <2>4. /\ n - (cut + 1) + 1 = n - cut /\ (~(cut + 1 <= n) => n - cut = 0)
        /\ \A i \in Int : cut + 1 + i - 1 = cut + i
    BY <1>3, <1>7
  <2> HIDE DEF out
  <2>5. Len(out) = n - cut
    BY <2>3, <2>4
  <2>6. ASSUME NEW i \in 1 .. n - cut  PROVE out[i] = s[cut + i]
    <3>1. i \in 1 .. n - (cut + 1) + 1 /\ cut + 1 + i - 1 = cut + i
      BY <2>4
    <3>2. out[i] = s[cut + 1 + i - 1]
      BY <2>3, <3>1
    <3> QED BY <3>1, <3>2
  <2> QED BY <2>3, <2>5, <2>6
<1> HIDE DEF in, out
<1>11. ASSUME NEW a \in Range(in), NEW b \in Range(out)  PROVE a.entry <= b.entry
  <2>1. PICK i \in 1 .. cut : a = s[i]
      BY <1>9 DEF Range
  <2>2. PICK j \in 1 .. n - cut : b = s[cut + j]
      BY <1>10 DEF Range
  <2>3. i \in 1 .. n /\ cut + j \in 1 .. n /\ i <= cut + j
    BY <1>3, <1>7, <2>1, <2>2
  <2> QED BY <1>4, <2>1, <2>2, <2>3
<1>12. Len(in) + Len(out) = n
  BY <1>3, <1>7, <1>9, <1>10
<1> QED BY <1>5, <1>11, <1>12 DEF n

(* The strategy backtest: the margin blocked for a structure of defined    *)
(* risk covers the worst it can lose wherever the index settles, a lizard  *)
(* loses no more above its put than it says, the two ways of settling      *)
(* agree on single legs, and the samples part the trades by entry          *)
(* (span_margin(), resolve_legs(), run_strategy_backtest()).               *)
THEOREM StrategiesAlwaysSound == Spec => []StrategiesSound
<1>1. Init => StrategyInv
  BY InitStrategyInv DEF Init
<1>2. StrategyInv /\ [Next]_vars => StrategyInv'
  <2> SUFFICES ASSUME StrategyInv, [Next]_vars  PROVE StrategyInv'
    OBVIOUS
  <2>1. StrategyNext \/ UNCHANGED strategyVars
    BY DEF Next, vars
  <2> QED BY <2>1, StrategyNextKeeps, StrategyStutters
<1>3. StrategyInv => StrategiesSound
  <2> SUFFICES ASSUME StrategyInv  PROVE StrategiesSound
    OBVIOUS
  <2>1. StrategyTypeOK
    BY DEF StrategyInv, StrategyTypeOK
  <2> QED BY <2>1, MarginCovers, LizardsAsStated, SinglesSettleAlike, SamplesSplit
          DEF StrategiesSound
<1> QED BY <1>1, <1>2, <1>3, PTL DEF Spec

-----------------------------------------------------------------------------
(* The strategy router. *)

Routings == {"iron_condor", "credit_put_spread", "bull_put_spread", "broken_wing_condor"}

(* What a report over the first cycles holds, as the cycles are decided    *)
(* now.                                                                    *)
ReportsOf == {[i \in 1 .. n |-> Routed(weeks[i], manner)] : n \in 0 .. Len(weeks)}

WeeksOf(n) == {[c EXCEPT !.entry = k] : c \in RoutedSet, k \in 1 .. n}

RouterInv ==
  /\ table \in Seq(DaySet) /\ weeks \in Seq(WeeksOf(Len(table))) /\ manner \in Manners
  /\ reports \in Seq(ReportsOf)
  /\ \A i, j \in DOMAIN reports : i < j => Len(reports[i]) <= Len(reports[j])
  /\ reports # <<>> => allowed # {}

LEMMA RoutedFields ==
  ASSUME NEW n, NEW c \in WeeksOf(n)
  PROVE  /\ {c.spot, c.vix, c.rv, c.dte, c.close} \subseteq Nat \cup {None}
         /\ c.entry \in 1 .. n /\ c.rich \in Nat
<1>1. PICK d \in RoutedSet, k \in 1 .. n : c = [d EXCEPT !.entry = k]
  BY DEF WeeksOf
<1>2. PICK e : e = d
  OBVIOUS
<1> QED BY <1>1, RouterAssumption

(* Without a trend the rank decides nothing. *)
LEMMA RankNeedsTrend ==
  ASSUME NEW g, NEW d, NEW iv, NEW v, NEW r, NEW q, NEW t, r = q \/ t = NoRank, NEW how, NEW pol
  PROVE  LET s == [gate |-> g, dte |-> d, iv |-> iv, vrp |-> v, rank |-> r, trend |-> t]
             u == [gate |-> g, dte |-> d, iv |-> iv, vrp |-> v, rank |-> q, trend |-> t]
         IN  Decide(s, how, pol) = Decide(u, how, pol)
<1> DEFINE s == [gate |-> g, dte |-> d, iv |-> iv, vrp |-> v, rank |-> r, trend |-> t]
           u == [gate |-> g, dte |-> d, iv |-> iv, vrp |-> v, rank |-> q, trend |-> t]
<1>1. CASE r = q
  BY <1>1
<1>2. CASE t = NoRank
  <2>1. ASSUME NEW x, x.trend = t  PROVE Candidates(x) = <<"iron_condor">>
    BY <1>2, <2>1 DEF Candidates, Steep, NoRank
  <2>2. ASSUME NEW x, NEW y, x.trend = t, y.trend = t, x.gate = y.gate, x.dte = y.dte,
               x.iv = y.iv, x.vrp = y.vrp
        PROVE  SelectRegime(x) = SelectRegime(y) /\ SelectVrp(x) = SelectVrp(y)
      BY <2>1, <2>2 DEF SelectRegime, SelectVrp
  <2> DEFINE up(x) == IF how = "none" THEN [x EXCEPT !.gate = "SELL"] ELSE x
  <2>3. /\ up(s).trend = t /\ up(u).trend = t /\ up(s).gate = up(u).gate /\ up(s).dte = up(u).dte
        /\ up(s).iv = up(u).iv /\ up(s).vrp = up(u).vrp
    OBVIOUS
  <2>4. SelectRegime(up(s)) = SelectRegime(up(u)) /\ SelectVrp(up(s)) = SelectVrp(up(u))
    <3> DEFINE x == up(s)
               y == up(u)
    <3>1. /\ x.trend = t /\ y.trend = t /\ x.gate = y.gate /\ x.dte = y.dte
          /\ x.iv = y.iv /\ x.vrp = y.vrp
      BY <2>3
    <3> HIDE DEF x, y
    <3>2. SelectRegime(x) = SelectRegime(y) /\ SelectVrp(x) = SelectVrp(y)
      BY <2>2, <3>1
    <3> QED BY <3>2 DEF x, y
  <2> QED BY <2>4 DEF Decide
<1> QED BY <1>1, <1>2

(* A later day changes no decision. *)
LEMMA RoutedStays ==
  ASSUME table \in Seq(DaySet), NEW d, table' = Append(table, d), allowed' = allowed,
         NEW c, c.entry \in 1 .. Len(table), NEW m
  PROVE  Routed(c, m)' = Routed(c, m)
<1> DEFINE past == KnownBy(c)
           closes == [i \in DOMAIN past |-> past[i].close]
           both == /\ c.rv # None /\ c.rv > 0 /\ c.vix # None /\ c.vix > 0
           seen == m.loaded /\ \E i \in DOMAIN table : IsClose(table[i].close)
           rank == IF seen THEN IvRank(c.vix, [i \in DOMAIN past |-> past[i].iv]) ELSE NoRank
           trend == IF seen THEN TrendSlope(closes) ELSE NoRank
           g == Gate(c.rv, c.vix, K)
           v == IF both THEN c.vix - c.rv ELSE None
<1>1. past' = past
  <2>1. SubSeq(Append(table, d), 1, c.entry) = SubSeq(table, 1, c.entry)
      OBVIOUS
  <2> QED BY <2>1 DEF KnownBy
<1>2. seen => seen'
  <2> SUFFICES ASSUME seen  PROVE seen'
    OBVIOUS
  <2>1. PICK i \in DOMAIN table : IsClose(table[i].close)
    OBVIOUS
  <2>2. i \in DOMAIN table' /\ table'[i] = table[i]
    OBVIOUS
  <2> QED BY <2>1, <2>2 DEF IsClose
<1>3. trend' = trend /\ (rank' = rank \/ trend = NoRank)
  <2>1. TrendSlope(closes)' = TrendSlope(closes)
    <3>1. closes' = closes
      BY <1>1
    <3> HIDE DEF closes
    <3> QED BY <3>1
  <2>2. IvRank(c.vix, [i \in DOMAIN past |-> past[i].iv])'
          = IvRank(c.vix, [i \in DOMAIN past |-> past[i].iv])
    BY <1>1 DEF IvRank, ClosesAt, IsClose
  <2>3. CASE seen
    BY <1>2, <2>1, <2>2, <2>3
  <2>4. CASE m.loaded /\ ~seen
    <3>1. ASSUME NEW i \in DOMAIN closes  PROVE ~IsClose(closes[i])
        BY <2>4 DEF KnownBy
    <3> HIDE DEF closes
    <3>2. ClosesAt(closes) = {}
      BY <3>1 DEF ClosesAt
    <3>3. Cardinality({}) = 0 /\ MaWindow \in Nat
      BY FS_EmptySet, RouterAssumption
    <3>4. TrendSlope(closes) = NoRank
        BY <3>2, <3>3 DEF TrendSlope
    <3> QED BY <2>1, <2>4, <3>4 DEF NoRank
  <2>5. CASE ~m.loaded
    BY <2>5 DEF NoRank
  <2> QED BY <2>3, <2>4, <2>5
<1>4. /\ RegimeOf(c, m.loaded) = [gate |-> g, dte |-> c.dte, iv |-> c.vix, vrp |-> v,
                                  rank |-> rank, trend |-> trend]
      /\ RegimeOf(c, m.loaded)' = [gate |-> g, dte |-> c.dte, iv |-> c.vix, vrp |-> v,
                                   rank |-> rank', trend |-> trend']
  BY DEF RegimeOf
<1> DEFINE s == RegimeOf(c, m.loaded)
           name == Decide(s, m.how, m.policy)
<1>5. name' = name /\ s'.trend = s.trend
  <2>1. PICK r, q, t : r = rank /\ q = rank' /\ t = trend
    OBVIOUS
  <2> DEFINE a == [gate |-> g, dte |-> c.dte, iv |-> c.vix, vrp |-> v, rank |-> r, trend |-> t]
             b == [gate |-> g, dte |-> c.dte, iv |-> c.vix, vrp |-> v, rank |-> q, trend |-> t]
  <2>2. Decide(a, m.how, m.policy) = Decide(b, m.how, m.policy)
    <3>1. r = q \/ t = NoRank
      BY <1>3, <2>1
    <3> HIDE DEF rank, trend, g, v
    <3> QED BY <3>1, RankNeedsTrend
  <2>3. s = a /\ s' = b
    BY <1>3, <1>4, <2>1
  <2>4. name' = Decide(s', m.how, m.policy)
    BY DEF Decide, SelectRegime, SelectVrp
  <2> QED BY <2>2, <2>3, <2>4
<1> HIDE DEF s, name
<1>6. /\ Routed(c, m) = [name |-> name,
            trade |-> IF name # "aside" /\ Trades(name, "none", c)
                      THEN <<TradeWith(name, RoutedLegs(name, c, s.trend), c)>> ELSE <<>>]
      /\ Routed(c, m)' = [name |-> name',
            trade |-> IF name' # "aside" /\ Trades(name', "none", c)
                      THEN <<TradeWith(name', RoutedLegs(name', c, s'.trend), c)>> ELSE <<>>]
  BY DEF Routed, s, name
<1> QED BY <1>5, <1>6

LEMMA RoutedSame ==
  ASSUME table' = table, allowed' = allowed, NEW c, NEW m
  PROVE  Routed(c, m)' = Routed(c, m)
<1>1. RegimeOf(c, m.loaded)' = RegimeOf(c, m.loaded)
  BY DEF RegimeOf, KnownBy
<1>2. ASSUME NEW s  PROVE Decide(s, m.how, m.policy)' = Decide(s, m.how, m.policy)
  BY DEF Decide, SelectRegime, SelectVrp
<1>3. PICK s : s = RegimeOf(c, m.loaded)
  OBVIOUS
<1>4. /\ Decide(s, m.how, m.policy)' = Decide(s, m.how, m.policy)
      /\ s = RegimeOf(c, m.loaded)'
  BY <1>1, <1>2, <1>3
<1>5. /\ Routed(c, m) = [name |-> Decide(s, m.how, m.policy),
            trade |-> IF Decide(s, m.how, m.policy) # "aside"
                           /\ Trades(Decide(s, m.how, m.policy), "none", c)
                      THEN <<TradeWith(Decide(s, m.how, m.policy),
                               RoutedLegs(Decide(s, m.how, m.policy), c, s.trend), c)>>
                      ELSE <<>>]
      /\ Routed(c, m)' = [name |-> Decide(s, m.how, m.policy)',
            trade |-> IF Decide(s, m.how, m.policy)' # "aside"
                           /\ Trades(Decide(s, m.how, m.policy)', "none", c)
                      THEN <<TradeWith(Decide(s, m.how, m.policy)',
                               RoutedLegs(Decide(s, m.how, m.policy)', c, s.trend), c)>>
                      ELSE <<>>]
  BY <1>3, <1>4 DEF Routed
<1> QED BY <1>4, <1>5

(* What the reports already hold is what a report would say again, so long *)
(* as their cycles are decided as before.                                  *)
LEMMA ReportsStay ==
  ASSUME RouterInv, reports' = reports, manner' = manner, weeks' \in Seq(WeeksOf(Len(table'))),
         allowed' = allowed \/ reports = <<>>, table' \in Seq(DaySet),
         Len(weeks) <= Len(weeks'), \A i \in 1 .. Len(weeks) : weeks'[i] = weeks[i],
         \A i \in 1 .. Len(weeks) : Routed(weeks[i], manner)' = Routed(weeks[i], manner)
  PROVE  RouterInv'
<1>1. ReportsOf \subseteq ReportsOf'
  <2> SUFFICES ASSUME NEW n \in 0 .. Len(weeks)
               PROVE  \E k \in 0 .. Len(weeks') :
                        [i \in 1 .. n |-> Routed(weeks[i], manner)]
                          = [i \in 1 .. k |-> Routed(weeks[i], manner)']
    BY DEF ReportsOf
  <2>1. Len(weeks) \in Nat /\ Len(weeks') \in Nat
    BY DEF RouterInv
  <2>2. n \in 0 .. Len(weeks')
    BY <2>1
  <2>3. \A i \in 1 .. n : Routed(weeks[i], manner)' = Routed(weeks[i], manner)
    BY <2>1
  <2> QED BY <2>2, <2>3
<1>2. reports' \in Seq(ReportsOf')
  <2>1. reports \in Seq(ReportsOf)
    BY DEF RouterInv
  <2> HIDE DEF ReportsOf
  <2> QED BY <1>1, <2>1
<1>3. /\ manner' \in Manners
      /\ \A i, j \in DOMAIN reports' : i < j => Len(reports'[i]) <= Len(reports'[j])
      /\ reports' # <<>> => allowed' # {}
  BY DEF RouterInv
<1> QED BY <1>2, <1>3 DEF RouterInv

LEMMA RouterNextKeeps == RouterInv /\ RouterNext => RouterInv'
<1> SUFFICES ASSUME RouterInv, RouterNext  PROVE RouterInv'
  OBVIOUS
<1>0. /\ table \in Seq(DaySet) /\ weeks \in Seq(WeeksOf(Len(table))) /\ manner \in Manners
      /\ Len(weeks) \in Nat /\ Len(table) \in Nat
      /\ \A i \in 1 .. Len(weeks) : weeks[i] \in WeeksOf(Len(table))
  BY DEF RouterInv
<1>1. ASSUME NEW d \in DaySet, AddDay(d)  PROVE RouterInv'
  <2>1. /\ table' = Append(table, d) /\ weeks' = weeks /\ allowed' = allowed
        /\ manner' = manner /\ reports' = reports
    BY <1>1 DEF AddDay
  <2>2. ASSUME NEW i \in 1 .. Len(weeks)
        PROVE  Routed(weeks[i], manner)' = Routed(weeks[i], manner)
    <3>1. PICK c, m : c = weeks[i] /\ m = manner
      OBVIOUS
    <3>2. c.entry \in 1 .. Len(table)
      BY <1>0, <3>1, RoutedFields
    <3>3. Routed(c, m)' = Routed(c, m)
      BY <1>0, <2>1, <3>2, RoutedStays
    <3>4. c = weeks'[i] /\ m = manner'
      BY <2>1, <3>1
    <3> QED BY <3>1, <3>3, <3>4
  <2>3. /\ table' \in Seq(DaySet) /\ weeks' \in Seq(WeeksOf(Len(table')))
    <3>1. Len(table') = Len(table) + 1 /\ table' \in Seq(DaySet)
      BY <1>0, <2>1
    <3>2. WeeksOf(Len(table)) \subseteq WeeksOf(Len(table'))
        BY <1>0, <3>1 DEF WeeksOf
    <3> QED BY <1>0, <2>1, <3>1, <3>2
  <2> QED BY <1>0, <2>1, <2>2, <2>3, ReportsStay
<1>2. ASSUME NEW c \in RoutedSet, AddWeek(c)  PROVE RouterInv'
  <2> DEFINE w == [c EXCEPT !.entry = Len(table)]
  <2>1. /\ table # <<>> /\ table' = table /\ weeks' = Append(weeks, w) /\ allowed' = allowed
        /\ manner' = manner /\ reports' = reports
    BY <1>2 DEF AddWeek
  <2>2. ASSUME NEW i \in 1 .. Len(weeks)
        PROVE  weeks'[i] = weeks[i] /\ Routed(weeks[i], manner)' = Routed(weeks[i], manner)
    <3>1. PICK x, m : x = weeks[i] /\ m = manner
      OBVIOUS
    <3>2. Routed(x, m)' = Routed(x, m)
      BY <2>1, RoutedSame
    <3>3. weeks'[i] = weeks[i]
      BY <1>0, <2>1
    <3>4. x = weeks'[i] /\ m = manner'
      BY <2>1, <3>1, <3>3
    <3> QED BY <3>1, <3>2, <3>3, <3>4
  <2>3. w \in WeeksOf(Len(table))
    <3>1. Len(table) \in 1 .. Len(table)
      BY <1>0, <2>1
    <3> QED BY <3>1 DEF WeeksOf
  <2>4. weeks' \in Seq(WeeksOf(Len(table'))) /\ Len(weeks') = Len(weeks) + 1
    <3> HIDE DEF w
    <3> QED BY <1>0, <2>1, <2>3
  <2> QED BY <1>0, <2>1, <2>2, <2>4, ReportsStay
<1>3. ASSUME NEW set \in AllowedSets, NEW m \in Manners, BuildRouter(set, m)  PROVE RouterInv'
    BY <1>0, <1>3 DEF BuildRouter, RouterInv
<1>4. CASE Report
  <2> DEFINE new == [i \in DOMAIN weeks |-> Routed(weeks[i], manner)]
  <2>1. /\ reports' = Append(reports, new) /\ table' = table /\ weeks' = weeks
        /\ allowed' = allowed /\ manner' = manner /\ allowed # {}
    BY <1>4 DEF Report
  <2>2. new \in ReportsOf /\ Len(new) = Len(weeks)
    <3>1. DOMAIN weeks = 1 .. Len(weeks) /\ Len(weeks) \in 0 .. Len(weeks)
      BY <1>0
    <3>2. new = [i \in 1 .. Len(weeks) |-> Routed(weeks[i], manner)]
      BY <3>1
    <3>3. \E n \in 0 .. Len(weeks) : new = [i \in 1 .. n |-> Routed(weeks[i], manner)]
      <4> HIDE DEF new
      <4> WITNESS Len(weeks) \in 0 .. Len(weeks)
      <4> QED BY <3>2
    <3>4. Len(new) = Len(weeks)
      BY <1>0, <3>2
    <3> HIDE DEF new
    <3> QED BY <3>3, <3>4 DEF ReportsOf
  <2>3. ReportsOf' = ReportsOf
    <3>1. ASSUME NEW i \in 1 .. Len(weeks)
          PROVE  Routed(weeks[i], manner)' = Routed(weeks[i], manner)
      <4>1. PICK x, m : x = weeks[i] /\ m = manner
        OBVIOUS
      <4>2. Routed(x, m)' = Routed(x, m)
        BY <2>1, RoutedSame
      <4>3. x = weeks'[i] /\ m = manner'
        BY <2>1, <4>1
      <4> QED BY <4>1, <4>2, <4>3
    <3>2. ASSUME NEW n \in 0 .. Len(weeks)
          PROVE  [i \in 1 .. n |-> Routed(weeks[i], manner)']
                   = [i \in 1 .. n |-> Routed(weeks[i], manner)]
      BY <1>0, <3>1
    <3> QED BY <2>1, <3>2 DEF ReportsOf
  <2>4. \A i \in DOMAIN reports : Len(reports[i]) <= Len(weeks)
      BY <1>0 DEF RouterInv, ReportsOf
  <2>5. reports \in Seq(ReportsOf)
    BY DEF RouterInv
  <2> HIDE DEF new, ReportsOf
  <2>6. reports' \in Seq(ReportsOf')
    BY <2>1, <2>2, <2>3, <2>5
  <2>7. \A i, j \in DOMAIN reports' : i < j => Len(reports'[i]) <= Len(reports'[j])
    <3> SUFFICES ASSUME NEW i \in DOMAIN reports', NEW j \in DOMAIN reports', i < j
                 PROVE  Len(reports'[i]) <= Len(reports'[j])
      OBVIOUS
    <3>1. /\ i \in DOMAIN reports /\ reports'[i] = reports[i]
          /\ IF j \in DOMAIN reports THEN reports'[j] = reports[j] ELSE reports'[j] = new
      BY <2>1, <2>2, <2>5
    <3> QED BY <2>2, <2>4, <3>1 DEF RouterInv
  <2> QED BY <1>0, <2>1, <2>6, <2>7 DEF RouterInv
<1> QED BY <1>1, <1>2, <1>3, <1>4 DEF RouterNext

LEMMA RouterStutters == RouterInv /\ UNCHANGED routerVars => RouterInv'
<1> SUFFICES ASSUME RouterInv, UNCHANGED routerVars  PROVE RouterInv'
  OBVIOUS
<1>1. /\ table' = table /\ weeks' = weeks /\ allowed' = allowed /\ refused' = refused
      /\ manner' = manner /\ reports' = reports
  BY DEF routerVars
<1>2. Len(weeks) \in Nat /\ table \in Seq(DaySet) /\ weeks \in Seq(WeeksOf(Len(table)))
  BY DEF RouterInv
<1>3. ASSUME NEW i \in 1 .. Len(weeks)
      PROVE  Routed(weeks[i], manner)' = Routed(weeks[i], manner)
  <2>1. PICK x, m : x = weeks[i] /\ m = manner
    OBVIOUS
  <2>2. Routed(x, m)' = Routed(x, m)
    BY <1>1, RoutedSame
  <2>3. x = weeks'[i] /\ m = manner'
    BY <1>1, <2>1
  <2> QED BY <2>1, <2>2, <2>3
<1> QED BY <1>1, <1>2, <1>3, ReportsStay

LEMMA InitRouterInv == InitRouter => RouterInv
<1> SUFFICES ASSUME InitRouter  PROVE RouterInv
  OBVIOUS
<1>1. table = <<>> /\ weeks = <<>> /\ reports = <<>> /\ manner \in Manners
  BY DEF InitRouter, Manners
<1> QED BY <1>1 DEF RouterInv

(* What a row of a report is. *)
LEMMA RowIs ==
  ASSUME RouterInv, NEW i \in DOMAIN reports, NEW k \in DOMAIN reports[i]
  PROVE  /\ k \in 1 .. Len(weeks) /\ weeks[k] \in WeeksOf(Len(table))
         /\ reports[i][k] = Routed(weeks[k], manner) /\ manner \in Manners
<1>1. reports[i] \in ReportsOf
  BY DEF RouterInv
<1>2. PICK n \in 0 .. Len(weeks) : reports[i] = [j \in 1 .. n |-> Routed(weeks[j], manner)]
  BY <1>1 DEF ReportsOf
<1>3. Len(weeks) \in Nat /\ \A j \in 1 .. Len(weeks) : weeks[j] \in WeeksOf(Len(table))
  BY DEF RouterInv
<1>4. k \in 1 .. Len(weeks) /\ reports[i][k] = Routed(weeks[k], manner)
  BY <1>2, <1>3
<1> QED BY <1>3, <1>4 DEF RouterInv

LEMMA ReportsExtend == ASSUME RouterInv  PROVE DecisionsStand
<1> SUFFICES ASSUME NEW i \in DOMAIN reports, NEW j \in DOMAIN reports, i < j
             PROVE  IsPrefix(reports[i], reports[j])
  BY DEF DecisionsStand
<1> DEFINE a == reports[i]
           b == reports[j]
<1>0. a \in ReportsOf /\ b \in ReportsOf
  BY DEF RouterInv
<1>1. PICK n \in 0 .. Len(weeks) : a = [k \in 1 .. n |-> Routed(weeks[k], manner)]
  BY <1>0 DEF ReportsOf
<1>2. PICK m \in 0 .. Len(weeks) : b = [k \in 1 .. m |-> Routed(weeks[k], manner)]
  BY <1>0 DEF ReportsOf
<1>3. Len(weeks) \in Nat /\ Len(a) <= Len(b)
  BY DEF RouterInv
<1>4. Len(a) = n /\ Len(b) = m /\ n <= m /\ n \in Nat /\ m \in Nat
  <2> HIDE DEF a, b
  <2>1. Len(a) = n /\ Len(b) = m
    BY <1>1, <1>2, <1>3
  <2> QED BY <1>3, <2>1
<1> HIDE DEF a, b
<1>5. SubSeq(a, 1, n) = SubSeq(b, 1, n)
    BY <1>1, <1>2, <1>4
<1> QED BY <1>4, <1>5 DEF IsPrefix, a, b

(* What is routed is one of four, and under the gate only when it sells. *)
LEMMA DecidedIs ==
  ASSUME NEW s, NEW how, NEW pol, Decide(s, how, pol) # "aside"
  PROVE  /\ Decide(s, how, pol) \in Routings \cap allowed
         /\ how # "none" => s.gate = "SELL"
<1> DEFINE told == IF how = "none" THEN [s EXCEPT !.gate = "SELL"] ELSE s
<1>1. ASSUME NEW x, SelectRegime(x) # "aside"
      PROVE  x.gate = "SELL" /\ SelectRegime(x) \in Routings \cap allowed
  <2> DEFINE cands == Candidates(x)
             enabled == {i \in DOMAIN cands : cands[i] \in allowed}
  <2>1. x.gate = "SELL" /\ enabled # {} /\ SelectRegime(x) = cands[Min(enabled)]
    BY <1>1 DEF SelectRegime
  <2>2. \E n \in 1 .. 3 : DOMAIN cands = 1 .. n
    BY DEF Candidates
  <2>3. \A i \in DOMAIN cands : cands[i] \in Routings
    BY DEF Candidates, Routings
  <2> HIDE DEF cands
  <2>4. IsFiniteSet(enabled) /\ \A i \in enabled : i \in Int
    <3>1. PICK n \in 1 .. 3 : DOMAIN cands = 1 .. n
      BY <2>2
    <3>2. enabled \in SUBSET (1 .. n)
      BY <3>1
    <3> QED BY <3>2, PlacesFinite
  <2>5. Min(enabled) \in enabled
    <3> HIDE DEF enabled
    <3> QED BY <2>1, <2>4, LeastOf
  <2> QED BY <2>1, <2>3, <2>5
<1>2. ASSUME NEW x, SelectVrp(x) # "aside"
      PROVE  x.gate = "SELL" /\ SelectVrp(x) \in Routings \cap allowed
  BY <1>2 DEF SelectVrp, Routings
<1>3. Decide(s, how, pol) = IF pol = "regime" THEN SelectRegime(told) ELSE SelectVrp(told)
  BY DEF Decide
<1> HIDE DEF told
<1>4. told.gate = "SELL" /\ Decide(s, how, pol) \in Routings \cap allowed
  BY <1>1, <1>2, <1>3
<1>5. how # "none" => told = s
  BY DEF told
<1> QED BY <1>4, <1>5

(* What a routed cycle trades. *)
LEMMA RoutedTrades ==
  ASSUME NEW c, NEW m, Routed(c, m).trade # <<>>
  PROVE  /\ Routed(c, m).name \in Routings \cap allowed
         /\ Trades(Routed(c, m).name, "none", c)
         /\ m.how # "none" => Gate(c.rv, c.vix, K) = "SELL"
         /\ \E trend : Routed(c, m).trade
                         = <<TradeWith(Routed(c, m).name, RoutedLegs(Routed(c, m).name, c, trend), c)>>
<1> DEFINE s == RegimeOf(c, m.loaded)
           name == Decide(s, m.how, m.policy)
<1>1. /\ Routed(c, m).name = name
      /\ Routed(c, m).trade = IF name # "aside" /\ Trades(name, "none", c)
                              THEN <<TradeWith(name, RoutedLegs(name, c, s.trend), c)>> ELSE <<>>
  BY DEF Routed
<1>2. s.gate = Gate(c.rv, c.vix, K)
  BY DEF RegimeOf
<1> HIDE DEF s
<1>3. name # "aside" /\ Trades(name, "none", c)
  BY <1>1
<1>4. name \in Routings \cap allowed /\ (m.how # "none" => s.gate = "SELL")
  BY <1>3, DecidedIs
<1> HIDE DEF name
<1> QED BY <1>1, <1>2, <1>3, <1>4

(* The rebased vol is no higher, so the gate sells on it too. *)
LEMMA RebaseLowers ==
  ASSUME NEW rv \in Nat
  PROVE  Rebase(rv) \in Nat /\ Rebase(rv) <= rv
BY DEF Rebase, None

LEMMA GateSellsRebased ==
  ASSUME NEW rv \in Nat \cup {None}, NEW iv \in Nat \cup {None}, Gate(rv, iv, K) = "SELL"
  PROVE  Gate(Rebase(rv), iv, K) = "SELL"
<1>1. rv \in Nat /\ iv \in Nat /\ iv > 0 /\ rv <= iv /\ rv * K[2] < K[1] * iv
  BY DEF Gate, None
<1> DEFINE r == Rebase(rv)
<1>2. r \in Nat /\ r <= rv
  BY <1>1, RebaseLowers
<1> HIDE DEF r
<1>3. r * K[2] < K[1] * iv
  <2>1. K[1] \in Nat /\ K[2] \in Nat
    BY GateAssumption
  <2>2. PICK a, b : a = K[1] /\ b = K[2]
    OBVIOUS
  <2>3. a \in Nat /\ b \in Nat /\ rv * b < a * iv
    BY <1>1, <2>1, <2>2
  <2>4. PICK d \in Nat : rv = r + d
      BY <1>1, <1>2
  <2>5. rv * b = r * b + d * b /\ r * b \in Nat /\ d * b \in Nat
    BY <1>2, <2>3, <2>4
  <2>6. a * iv \in Nat /\ rv * b \in Nat
    BY <1>1, <2>3
  <2>7. r * b < a * iv
    BY <2>3, <2>5, <2>6
  <2> QED BY <2>2, <2>7
<1>4. Gate(r, iv, K) = "SELL"
  BY <1>1, <1>2, <1>3 DEF Gate, None
<1> QED BY <1>4 DEF r

LEMMA BaselineFollows == ASSUME RouterInv  PROVE BaselineTradesToo
<1> SUFFICES ASSUME NEW i \in DOMAIN reports, NEW k \in DOMAIN reports[i],
                    reports[i][k].trade # <<>>
             PROVE  Trades(reports[i][k].name, manner.how, weeks[k])
  BY DEF BaselineTradesToo
<1> DEFINE c == weeks[k]
           d == reports[i][k]
<1>1. /\ c \in WeeksOf(Len(table)) /\ d = Routed(c, manner)
      /\ manner.how \in {"vol", "none"}
  BY RowIs DEF Manners
<1> HIDE DEF c, d
<1>2. d.trade # <<>>
  BY DEF d
<1>3. /\ d.name \in Routings /\ Trades(d.name, "none", c)
      /\ manner.how # "none" => Gate(c.rv, c.vix, K) = "SELL"
  BY <1>1, <1>2, RoutedTrades
<1>4. SellsPremium(d.name)
  BY <1>3 DEF Routings, SellsPremium
<1>5. manner.how # "none" => Gate(Rebase(c.rv), c.vix, K) = "SELL"
    BY <1>1, <1>3, RoutedFields, GateSellsRebased
<1>6. Trades(d.name, manner.how, c)
  BY <1>3, <1>4, <1>5 DEF Trades
<1> QED BY <1>6 DEF c, d

(* Turned over or not, the legs owe no more than their wider wing. *)
LEMMA RoutedLegsOwe ==
  ASSUME NEW name \in Routings, NEW c, NEW trend, c.spot \in Int, MoveOf(c) \in Nat
  PROVE  OwesAtMost(name, RoutedLegs(name, c, trend))
<1> DEFINE w == 2 * StrikeStep
<1>1. (w * 2) \div 3 \in Int /\ (w * 3) \div 2 \in Int
  <2>1. w \in Nat
    BY StrategyAssumption
  <2> HIDE DEF w
  <2> QED BY <2>1
<1>2. WingPoints((w * 2) \div 3) \in Nat /\ WingPoints((w * 3) \div 2) \in Nat
  <2> HIDE DEF w
  <2> QED BY <1>1, WingIs
<1>3. SellsPremium(name) /\ DefinedRisk(name) /\ name \in Registry
  BY DEF Routings, SellsPremium, DefinedRisk, Registry
<1>4. OwesAtMost(name, CondorLegs(c.spot, MoveOf(c), WingPoints((w * 2) \div 3),
                                  WingPoints((w * 3) \div 2)))
  BY <1>2, <1>3, CondorLegsOwe
<1>5. OwesAtMost(name, LegsOf(name, c.spot, MoveOf(c)))
  BY <1>3, StructureOwes
<1> QED BY <1>4, <1>5 DEF RoutedLegs

(* A trade of legs of defined risk is what the margin speaks of. *)
LEMMA TradeWithIs ==
  ASSUME NEW name, DefinedRisk(name), NEW legs, OwesAtMost(name, legs), NEW c,
         c.spot \in Nat, c.entry \in Nat, c.rich \in Nat
  PROVE  TradeIs(name, TradeWith(name, legs, c))
<1> DEFINE fills == [i \in DOMAIN legs |-> Fill(legs[i], Mid(legs[i], c.spot, c.rich))]
           t == TradeWith(name, legs, c)
<1>1. /\ t.legs = legs /\ t.fills = fills /\ t.entry = c.entry /\ t.spot = c.spot
      /\ t.credit = NetPremium(legs, fills)
      /\ t.span = SpanMargin(name, legs, NetPremium(legs, fills), c.spot)
  BY DEF TradeWith
<1>2. legs \in Seq(LegSet)
  BY DEF OwesAtMost
<1>3. \A i \in DOMAIN legs : fills[i] \in Int
  BY <1>2, FillsAreInt
<1>4. t.span = SpanDefined(legs, NetPremium(legs, fills)) /\ name # "jade_lizard"
  BY <1>1 DEF SpanMargin, SpanModel, DefinedRisk
<1>5. DOMAIN fills = DOMAIN legs
  OBVIOUS
<1> HIDE DEF t, fills
<1>6. TradeIs(name, t)
  BY <1>1, <1>2, <1>3, <1>4, <1>5 DEF TradeIs
<1> QED BY <1>6 DEF t

LEMMA RoutedCovered == ASSUME RouterInv  PROVE RoutedRiskCovered
<1> SUFFICES ASSUME NEW i \in DOMAIN reports, NEW k \in DOMAIN reports[i],
                    reports[i][k].trade # <<>>, reports[i][k].trade[1].credit >= 0
             PROVE  /\ reports[i][k].name \in allowed
                    /\ \A s \in Settlements(reports[i][k].trade[1]) :
                         -ResolveFills(reports[i][k].trade[1].legs, reports[i][k].trade[1].fills, s)
                            <= reports[i][k].trade[1].span
  BY DEF RoutedRiskCovered
<1> DEFINE c == weeks[k]
           d == reports[i][k]
           t == d.trade[1]
<1>1. c \in WeeksOf(Len(table)) /\ d = Routed(c, manner) /\ d.trade # <<>> /\ t.credit >= 0
  BY RowIs
<1> HIDE DEF c, d
<1>2. /\ d.name \in Routings \cap allowed /\ Trades(d.name, "none", c)
      /\ \E trend : d.trade = <<TradeWith(d.name, RoutedLegs(d.name, c, trend), c)>>
  BY <1>1, RoutedTrades
<1>3. PICK trend : d.trade = <<TradeWith(d.name, RoutedLegs(d.name, c, trend), c)>>
  BY <1>2
<1>4. /\ c.spot \in Nat /\ c.vix \in Nat /\ c.dte \in Nat /\ c.entry \in Nat /\ c.rich \in Nat
      /\ MoveOf(c) \in Nat
  <2>1. None \notin {c.spot, c.vix, c.rv, c.dte, c.close}
    BY <1>2 DEF Trades, Incomplete
  <2>2. /\ c.spot \in Nat /\ c.vix \in Nat /\ c.dte \in Nat /\ c.entry \in Nat /\ c.rich \in Nat
    BY <1>1, <2>1, RoutedFields
  <2>3. MoveOf(c) \in Nat
    BY <2>2, MoveNat DEF MoveOf
  <2> QED BY <2>2, <2>3
<1>5. OwesAtMost(d.name, RoutedLegs(d.name, c, trend))
  BY <1>2, <1>4, RoutedLegsOwe
<1>6. t = TradeWith(d.name, RoutedLegs(d.name, c, trend), c)
  BY <1>3
<1>7. DefinedRisk(d.name)
  BY <1>2 DEF Routings, DefinedRisk
<1>8. TradeIs(d.name, t)
  BY <1>4, <1>5, <1>6, <1>7, TradeWithIs
<1> HIDE DEF t
<1>9. \A s \in Settlements(t) : -ResolveFills(t.legs, t.fills, s) <= t.span
  BY <1>1, <1>7, <1>8, TradeCovered
<1> QED BY <1>2, <1>9 DEF d, t

LEMMA RegimeNarrows == ASSUME RouterInv  PROVE RegimeOnlyNarrows
<1> SUFFICES ASSUME NEW i \in DOMAIN reports, NEW k \in DOMAIN reports[i],
                    "iron_condor" \in allowed, reports[i][k].name # "aside"
             PROVE  Routed(weeks[k], [manner EXCEPT !.policy = "vrp"]).name # "aside"
  BY DEF RegimeOnlyNarrows
<1> DEFINE c == weeks[k]
           s == RegimeOf(c, manner.loaded)
           m == [manner EXCEPT !.policy = "vrp"]
<1>1. manner \in Manners /\ Routed(c, manner).name # "aside"
  BY RowIs
<1>2. m.how = manner.how /\ m.loaded = manner.loaded /\ m.policy = "vrp"
  BY <1>1 DEF Manners
<1>3. Decide(s, manner.how, manner.policy) # "aside"
  BY <1>1 DEF Routed
<1>4. manner.how # "none" => s.gate = "SELL"
  <2> HIDE DEF s
  <2> QED BY <1>3, DecidedIs
<1>5. DOMAIN s = {"gate", "dte", "iv", "vrp", "rank", "trend"}
  BY DEF RegimeOf
<1> HIDE DEF s, m
<1>6. Decide(s, m.how, m.policy) = "iron_condor"
  BY <1>2, <1>4, <1>5 DEF Decide, SelectVrp
<1>7. Routed(c, m).name = Decide(s, m.how, m.policy)
  BY <1>2 DEF Routed, s
<1>8. Routed(c, m).name # "aside"
  BY <1>6, <1>7
<1> QED BY <1>8 DEF m

LEMMA CountsHold == ASSUME RouterInv  PROVE CountsAgree
<1> SUFFICES ASSUME NEW i \in DOMAIN reports
             PROVE  /\ Counts(reports[i]).trades <= Counts(reports[i]).deployed
                    /\ Counts(reports[i]).trades < 2 => Counts(reports[i]).romOutside = <<0, 1>>
  BY DEF CountsAgree
<1> DEFINE r == reports[i]
           went == {k \in DOMAIN r : r[k].name # "aside"}
           dealt == {k \in went : r[k].trade # <<>>}
           cut == Max({1, (7 * Cardinality(dealt)) \div 10})
           outside == {k \in dealt : Cardinality({j \in dealt : j <= k}) > cut}
           spans == [k \in outside |-> r[k].trade[1].span]
           blocked == MapThenSumSet(LAMBDA k : r[k].trade[1].span, outside)
<1>1. IsFiniteSet(went)
  <2>0. r \in ReportsOf
    BY DEF RouterInv
  <2>1. PICK n \in 0 .. Len(weeks) : r = [k \in 1 .. n |-> Routed(weeks[k], manner)]
    BY <2>0 DEF ReportsOf
  <2>2. n \in Nat /\ went \in SUBSET (1 .. n)
    BY <2>1
  <2> HIDE DEF went
  <2> QED BY <2>2, PlacesFinite
<1>2. /\ Counts(r).deployed = Cardinality(went) /\ Counts(r).trades = Cardinality(dealt)
      /\ ~(blocked > 0) => Counts(r).romOutside = <<0, 1>>
  BY DEF Counts
<1> HIDE DEF r, blocked
<1>3. /\ dealt \in SUBSET went /\ IsFiniteSet(dealt)
      /\ Cardinality(dealt) <= Cardinality(went) /\ Cardinality(dealt) \in Nat
  BY <1>1, FS_Subset, FS_CardinalityType
<1> HIDE DEF went
<1>4. ASSUME Cardinality(dealt) < 2  PROVE ~(blocked > 0)
  <2>1. cut = 1
    <3> DEFINE q == (7 * Cardinality(dealt)) \div 10
    <3>1. q \in Int /\ q <= 1
      BY <1>3, <1>4
    <3> HIDE DEF q
    <3>2. Max({1, q}) = 1
      BY <3>1, MaxOfTwo
    <3> QED BY <3>2 DEF q
  <2> HIDE DEF dealt, cut
  <2>2. outside = {}
    <3>1. ASSUME NEW k \in dealt  PROVE ~(Cardinality({j \in dealt : j <= k}) > cut)
        BY <1>3, <1>4, <2>1, FS_Subset, FS_CardinalityType
    <3> QED BY <3>1
  <2>3. blocked = 0
    <3> HIDE DEF outside
    <3> QED BY <2>2 DEF blocked, MapThenSumSet, MapThenFoldSet
  <2> QED BY <2>3
<1> QED BY <1>2, <1>3, <1>4 DEF r

(* The orchestrator is sound in every state of the invariant. *)
LEMMA RouterHolds == ASSUME RouterInv  PROVE RouterSound
BY ReportsExtend, BaselineFollows, RoutedCovered, RegimeNarrows, CountsHold DEF RouterSound

-----------------------------------------------------------------------------
(* The harvester. *)

Distance(x, target) == IF x > target THEN x - target ELSE target - x

(* Walking out along deltas that shrink, the one kept is the nearest of    *)
(* all: from where the walk stops, the next are further off than one it    *)
(* has met.                                                                *)
LEMMA DeltaChosen ==
  ASSUME NEW d \in Seq(Nat), d # <<>>, NEW target \in Nat
  PROVE  /\ SelectByDelta(d, target) \in DOMAIN d
         /\ (\A x, y \in DOMAIN d : x <= y => d[x] >= d[y]) =>
              \A x \in DOMAIN d :
                Distance(d[SelectByDelta(d, target)], target) <= Distance(d[x], target)
<1> DEFINE D == DOMAIN d
           off == [i \in D |-> Distance(d[i], target)]
           Stop(j) == d[j] < target /\ \E k \in 1 .. j - 1 : off[k] < off[j]
           walked == {i \in D : \A j \in 1 .. i - 1 : ~Stop(j)}
           near == {i \in walked : \A j \in walked : off[i] <= off[j]}
<1>1. PICK n \in Nat : n >= 1 /\ D = 1 .. n
  <2> DEFINE N == Len(d)
  <2>1. N \in Nat /\ N >= 1 /\ D = 1 .. N
    OBVIOUS
  <2> HIDE DEF N, D
  <2> QED BY <2>1
<1>2. \A i \in D : d[i] \in Nat /\ off[i] \in Int /\ off[i] = Distance(d[i], target)
  BY DEF Distance
<1>3. SelectByDelta(d, target) = Min(near)
  <2> DEFINE Off(i) == IF d[i] > target THEN d[i] - target ELSE target - d[i]
             Ends(i) == d[i] < target /\ \E j \in 1 .. i - 1 : Off(j) < Off(i)
             reached == {i \in D : \A j \in 1 .. i - 1 : ~Ends(j)}
             best == {i \in reached : \A j \in reached : Off(i) <= Off(j)}
  <2>1. SelectByDelta(d, target) = Min(best)
    BY DEF SelectByDelta
  <2>2. \A i \in D : off[i] = Off(i)
    BY DEF Distance
  <2> HIDE DEF off, Off, D
  <2>3. \A i \in D : Stop(i) <=> Ends(i)
      BY <1>1, <2>2
  <2> HIDE DEF Stop, Ends
  <2>4. walked = reached
      BY <1>1, <2>3
  <2> HIDE DEF walked, reached
  <2>5. near = best
      BY <2>2, <2>4 DEF walked
  <2> QED BY <2>1, <2>5
<1> HIDE DEF D, off
<1>4. 1 \in walked /\ walked \in SUBSET D
  BY <1>1
<1>5. IsFiniteSet(D) /\ IsFiniteSet(walked)
  <2> HIDE DEF walked
  <2>1. IsFiniteSet(D)
    BY <1>1, CountTo
  <2> QED BY <1>4, <2>1, FS_Subset
<1>6. near # {}
  <2> DEFINE offs == {off[i] : i \in walked}
             f == [i \in walked |-> off[i]]
  <2> HIDE DEF walked
  <2>1. IsFiniteSet(offs)
    <3>1. f \in Surjection(walked, offs)
      BY DEF Surjection
    <3> QED BY <1>5, <3>1, FS_Surjection
  <2>2. offs # {} /\ \A x \in offs : x \in Int
    BY <1>2, <1>4
  <2>3. Min(offs) \in offs /\ \A x \in offs : Min(offs) <= x
    <3> HIDE DEF offs
    <3> QED BY <2>1, <2>2, LeastOf
  <2>4. PICK i \in walked : Min(offs) = off[i]
    BY <2>3
  <2>5. i \in near
    BY <2>3, <2>4
  <2> QED BY <2>5
<1>7. Min(near) \in near
  <2>1. near \in SUBSET D
    BY <1>4
  <2> HIDE DEF near
  <2>2. IsFiniteSet(near)
    BY <1>5, <2>1, FS_Subset
  <2>3. \A x \in near : x \in Int
    BY <1>1, <2>1
  <2> QED BY <1>6, <2>2, <2>3, LeastOf
<1> DEFINE m == Min(near)
<1>8. m \in D /\ m \in walked /\ \A j \in walked : off[m] <= off[j]
  BY <1>4, <1>7
<1> HIDE DEF m
<1>9. ASSUME \A x, y \in D : x <= y => d[x] >= d[y], NEW x \in D
      PROVE  off[m] <= off[x]
  <2>1. CASE x \in walked
    BY <1>8, <2>1
  <2>2. CASE x \notin walked
    <3> DEFINE stops == {j \in D : Stop(j)}
    <3>1. PICK j \in 1 .. x - 1 : Stop(j)
      BY <2>2
    <3>2. j \in stops /\ stops \in SUBSET D
      BY <1>1, <3>1
    <3>3. Min(stops) \in stops /\ \A k \in stops : Min(stops) <= k
      <4> HIDE DEF stops
      <4>1. IsFiniteSet(stops)
        BY <1>5, <3>2, FS_Subset
      <4>2. \A k \in stops : k \in Int
        BY <1>1, <3>2
      <4> QED BY <3>2, <4>1, <4>2, LeastOf
    <3>4. PICK z \in D : Stop(z) /\ z <= j /\ \A k \in 1 .. z - 1 : ~Stop(k)
      <4>1. Min(stops) \in D /\ Stop(Min(stops)) /\ Min(stops) <= j
        BY <3>2, <3>3
      <4>2. \A k \in 1 .. Min(stops) - 1 : ~Stop(k)
        <5> SUFFICES ASSUME NEW k \in 1 .. Min(stops) - 1, Stop(k)  PROVE FALSE
          OBVIOUS
        <5>1. k \in D /\ k < Min(stops)
          BY <1>1, <4>1
        <5>2. k \in stops
          BY <5>1
        <5>3. Min(stops) <= k
          BY <3>3, <5>2
        <5> QED BY <1>1, <4>1, <5>1, <5>3
      <4> QED BY <4>1, <4>2
    <3>5. PICK k \in 1 .. z - 1 : off[k] < off[z] /\ d[z] < target
      BY <3>4
    <3> HIDE DEF Stop
    <3>6. k \in walked
      BY <1>1, <3>4, <3>5
    <3>7. z <= x /\ d[z] >= d[x]
      BY <1>1, <1>9, <3>1, <3>4
    <3>8. off[z] <= off[x]
      <4>1. /\ off[z] = Distance(d[z], target) /\ off[x] = Distance(d[x], target)
            /\ d[z] \in Nat /\ d[x] \in Nat
        BY <1>2, <3>4
      <4>2. Distance(d[z], target) <= Distance(d[x], target)
          BY <3>5, <3>7, <4>1 DEF Distance
      <4> QED BY <4>1, <4>2
    <3>9. off[m] <= off[k] /\ k \in D
      BY <1>1, <1>8, <3>4, <3>5, <3>6
    <3> QED BY <1>2, <1>8, <3>4, <3>5, <3>8, <3>9
  <2> QED BY <2>1, <2>2
<1>10. ASSUME \A x, y \in D : x <= y => d[x] >= d[y], NEW x \in D
       PROVE  Distance(d[m], target) <= Distance(d[x], target)
    BY <1>2, <1>8, <1>9, <1>10
<1>11. SelectByDelta(d, target) = m
  BY <1>3 DEF m
<1> QED BY <1>8, <1>10, <1>11 DEF D

(* Every cycle chosen from a list is one of the list's at those places.    *)
LEMMA ChosenAre ==
  ASSUME NEW S, NEW cycles \in Seq(S), NEW at \in SUBSET DOMAIN cycles
  PROVE  /\ ChosenFrom(cycles, at) \in Seq(S)
         /\ \A n \in DOMAIN ChosenFrom(cycles, at) :
              \E i \in at : ChosenFrom(cycles, at)[n] = cycles[i]
<1> DEFINE R == {p \in at \X at : p[1] < p[2]}
           order == InOrder(at, R)
           r == ChosenFrom(cycles, at)
<1>1. at \in SUBSET (1 .. Len(cycles)) /\ Len(cycles) \in Nat
  OBVIOUS
<1>2. IsFiniteSet(at)
    BY <1>1, PlacesOf, FS_Subset
<1>3. OrderOn(at, R)
  <2>1. \A i \in at : i \in Int
    BY <1>1
  <2>2. ASSUME NEW i \in at, NEW j \in at  PROVE <<i, j>> \in R <=> i < j
    OBVIOUS
  <2> HIDE DEF R
  <2> QED BY <2>1, <2>2 DEF OrderOn
<1>4. OrderedBy(order, at, R)
  <2> HIDE DEF R
  <2> QED BY <1>2, <1>3, InOrderIs
<1>5. r = [n \in DOMAIN order |-> cycles[order[n]]]
  BY DEF ChosenFrom
<1> HIDE DEF order, r
<1>6. PICK k \in Nat : DOMAIN order = 1 .. k
  BY <1>4 DEF OrderedBy
<1>7. ASSUME NEW n \in 1 .. k  PROVE order[n] \in at /\ cycles[order[n]] \in S
    BY <1>4, <1>6 DEF OrderedBy
<1>8. r \in [1 .. k -> S] /\ \A n \in 1 .. k : r[n] = cycles[order[n]]
  BY <1>5, <1>6, <1>7
<1>9. r \in Seq(S) /\ DOMAIN r = 1 .. k
  BY <1>6, <1>8
<1> QED BY <1>7, <1>8, <1>9 DEF r

(* The spreads of the cycles before the i-th, and where the i-th goes.     *)
PastOf(s, i) == [j \in 1 .. i - 1 |-> SpreadOf(s[j])]
RoutedTo(s, n) == [i \in 1 .. n |-> RouteOf(s[i], PastOf(s, i))]

HarvesterInv ==
  /\ surface \in Seq(SurfaceSet)
  /\ phase \in {"load", "route", "harvest", "done", "raised"}
  /\ \E n \in 0 .. Len(surface) :
       /\ heard = PastOf(surface, n + 1) /\ routes = RoutedTo(surface, n)
       /\ phase = "load" => n = 0
  /\ \A i \in DOMAIN ravens :
       \E c \in SurfaceSet :
         /\ Trades("raven", "none", c) /\ ~RavenRaises(c)
         /\ ravens[i] = TradeWith("raven", RavenLegs(c), c)
  /\ \A i \in DOMAIN diagonals :
       \E c \in SurfaceSet : Priceable(c) /\ diagonals[i] = DiagonalTrade(c)

LEMMA InitHarvesterInv == InitHarvester => HarvesterInv
<1> SUFFICES ASSUME InitHarvester  PROVE HarvesterInv
  OBVIOUS
<1>1. /\ surface = <<>> /\ phase = "load" /\ heard = <<>> /\ routes = <<>>
      /\ ravens = <<>> /\ diagonals = <<>>
  BY DEF InitHarvester
<1>2. PastOf(surface, 0 + 1) = <<>> /\ RoutedTo(surface, 0) = <<>>
  BY DEF PastOf, RoutedTo
<1>3. 0 \in 0 .. Len(surface) /\ DOMAIN ravens = {} /\ DOMAIN diagonals = {}
  BY <1>1
<1>4. surface \in Seq(SurfaceSet)
  BY <1>1
<1>5. \E n \in 0 .. Len(surface) :
        /\ heard = PastOf(surface, n + 1) /\ routes = RoutedTo(surface, n)
        /\ phase = "load" => n = 0
  BY <1>1, <1>2, <1>3
<1> QED BY <1>1, <1>3, <1>4, <1>5 DEF HarvesterInv

LEMMA HarvesterStutters == HarvesterInv /\ UNCHANGED harvesterVars => HarvesterInv'
BY DEF HarvesterInv, harvesterVars

LEMMA HarvesterNextKeeps == HarvesterInv /\ HarvesterNext => HarvesterInv'
<1> SUFFICES ASSUME HarvesterInv, HarvesterNext  PROVE HarvesterInv'
  OBVIOUS
<1>1. ASSUME NEW c \in SurfaceSet, AddSurface(c)  PROVE HarvesterInv'
  <2>1. /\ surface' = Append(surface, c) /\ phase = "load" /\ phase' = phase
        /\ UNCHANGED <<heard, routes, ravens, diagonals>>
    BY <1>1 DEF AddSurface
  <2>2. heard = PastOf(surface, 0 + 1) /\ routes = RoutedTo(surface, 0)
    BY <2>1 DEF HarvesterInv
  <2>3. surface \in Seq(SurfaceSet)
    BY DEF HarvesterInv
  <2>4. surface' \in Seq(SurfaceSet) /\ 0 \in 0 .. Len(surface')
    BY <2>1, <2>3
  <2>5. PastOf(surface', 0 + 1) = <<>> /\ RoutedTo(surface', 0) = <<>>
        /\ PastOf(surface, 0 + 1) = <<>> /\ RoutedTo(surface, 0) = <<>>
    BY DEF PastOf, RoutedTo
  <2>6. \E n \in 0 .. Len(surface') :
          /\ heard' = PastOf(surface', n + 1) /\ routes' = RoutedTo(surface', n)
          /\ phase' = "load" => n = 0
    BY <2>1, <2>2, <2>4, <2>5
  <2> QED BY <2>1, <2>4, <2>6 DEF HarvesterInv
<1>2. ASSUME StartRouting \/ Routing  PROVE HarvesterInv'
    BY <1>2 DEF StartRouting, Routing, HarvesterInv
<1>3. ASSUME RouteCycle  PROVE HarvesterInv'
  <2>1. /\ phase = "route" /\ Len(routes) < Len(surface)
        /\ routes' = Append(routes, RouteOf(surface[Len(routes) + 1], heard))
        /\ heard' = Append(heard, SpreadOf(surface[Len(routes) + 1]))
        /\ UNCHANGED <<surface, phase, ravens, diagonals>>
    BY <1>3 DEF RouteCycle
  <2>2. PICK n \in 0 .. Len(surface) :
          heard = PastOf(surface, n + 1) /\ routes = RoutedTo(surface, n)
    BY DEF HarvesterInv
  <2>3. Len(surface) \in Nat
    BY DEF HarvesterInv
  <2>4. n \in Nat /\ n + 1 - 1 = n /\ n + 1 + 1 - 1 = n + 1
    BY <2>3
  <2>5. /\ heard = [j \in 1 .. n |-> SpreadOf(surface[j])]
        /\ routes = [i \in 1 .. n |-> RouteOf(surface[i], PastOf(surface, i))]
    BY <2>2, <2>4 DEF PastOf, RoutedTo
  <2>6. Len(routes) = n /\ n + 1 \in 0 .. Len(surface)
    BY <2>1, <2>3, <2>4, <2>5
  <2>7. heard' = PastOf(surface, (n + 1) + 1)
      BY <2>1, <2>4, <2>5, <2>6 DEF PastOf
  <2>8. routes' = RoutedTo(surface, n + 1)
      BY <2>1, <2>2, <2>4, <2>5, <2>6 DEF RoutedTo
  <2>9. \E k \in 0 .. Len(surface) :
          heard' = PastOf(surface, k + 1) /\ routes' = RoutedTo(surface, k)
    BY <2>6, <2>7, <2>8
  <2> QED BY <2>1, <2>9 DEF HarvesterInv
<1>4. ASSUME Harvest  PROVE HarvesterInv'
  <2> DEFINE sent == Bucket("raven")
             kept == ChosenFrom(sent, KeptAt(sent))
             soldAt == {i \in DOMAIN kept : Trades("raven", "none", kept[i])}
             sold == ChosenFrom(kept, soldAt)
             turned == Bucket("diagonal")
             boughtAt == {i \in DOMAIN turned : DeploysDiagonal(turned[i]) /\ Priceable(turned[i])}
             bought == ChosenFrom(turned, boughtAt)
  <2>1. /\ UNCHANGED <<surface, heard, routes>> /\ phase # "load"
        /\ \/ phase' = "raised" /\ UNCHANGED <<ravens, diagonals>>
           \/ /\ phase' = "done"
              /\ \A c \in Range(kept) : Incomplete(c) \/ ~RavenRaises(c)
              /\ ravens' = [i \in DOMAIN sold |-> TradeWith("raven", RavenLegs(sold[i]), sold[i])]
              /\ diagonals' = [i \in DOMAIN bought |-> DiagonalTrade(bought[i])]
    BY <1>4 DEF Harvest
  <2>2. ASSUME NEW route
        PROVE  Bucket(route) \in Seq(SurfaceSet)
    <3> DEFINE at == {i \in DOMAIN routes : routes[i] = route}
    <3>1. surface \in Seq(SurfaceSet) /\ at \in SUBSET DOMAIN surface
      <4>1. PICK n \in 0 .. Len(surface) : routes = RoutedTo(surface, n)
        BY DEF HarvesterInv
      <4>2. surface \in Seq(SurfaceSet)
        BY DEF HarvesterInv
      <4>3. DOMAIN routes = 1 .. n
        BY <4>1 DEF RoutedTo
      <4> QED BY <4>2, <4>3
    <3>2. Bucket(route) = ChosenFrom(surface, at)
      BY DEF Bucket
    <3> HIDE DEF at
    <3> QED BY <3>1, <3>2, ChosenAre
  <2>3. sent \in Seq(SurfaceSet) /\ turned \in Seq(SurfaceSet)
    BY <2>2
  <2> HIDE DEF sent, turned
  <2>4. KeptAt(sent) \in SUBSET DOMAIN sent
    BY DEF KeptAt
  <2>5. kept \in Seq(SurfaceSet)
    BY <2>3, <2>4, ChosenAre
  <2> HIDE DEF kept
  <2>6. \A i \in DOMAIN sold : \E j \in soldAt : sold[i] = kept[j]
    <3>1. soldAt \in SUBSET DOMAIN kept
      OBVIOUS
    <3> HIDE DEF soldAt
    <3> QED BY <2>5, <3>1, ChosenAre
  <2>7. \A i \in DOMAIN bought : \E j \in boughtAt : bought[i] = turned[j]
    <3>1. boughtAt \in SUBSET DOMAIN turned
      OBVIOUS
    <3> HIDE DEF boughtAt
    <3> QED BY <2>3, <3>1, ChosenAre
  <2> HIDE DEF sold, bought
  <2>8. CASE UNCHANGED <<ravens, diagonals>>
      BY <2>1, <2>8 DEF HarvesterInv
  <2>9. CASE /\ phase' = "done"
             /\ \A c \in Range(kept) : Incomplete(c) \/ ~RavenRaises(c)
             /\ ravens' = [i \in DOMAIN sold |-> TradeWith("raven", RavenLegs(sold[i]), sold[i])]
             /\ diagonals' = [i \in DOMAIN bought |-> DiagonalTrade(bought[i])]
    <3>1. ASSUME NEW i \in DOMAIN sold
          PROVE  /\ sold[i] \in SurfaceSet /\ Trades("raven", "none", sold[i])
                 /\ ~RavenRaises(sold[i])
      <4>1. PICK j \in soldAt : sold[i] = kept[j]
        BY <2>6
      <4>2. j \in DOMAIN kept /\ Trades("raven", "none", kept[j])
        BY <4>1
      <4>3. kept[j] \in SurfaceSet /\ kept[j] \in Range(kept)
        BY <2>5, <4>2 DEF Range
      <4>4. ~Incomplete(kept[j])
        BY <4>2 DEF Trades
      <4> QED BY <2>9, <4>1, <4>2, <4>3, <4>4
    <3>2. ASSUME NEW i \in DOMAIN bought
          PROVE  bought[i] \in SurfaceSet /\ Priceable(bought[i])
      <4>1. PICK j \in boughtAt : bought[i] = turned[j]
        BY <2>7
      <4>2. j \in DOMAIN turned /\ Priceable(turned[j])
        BY <4>1
      <4>3. turned[j] \in SurfaceSet
        BY <2>3, <4>2
      <4> QED BY <4>1, <4>2, <4>3
    <3>3. \A i \in DOMAIN ravens' :
            \E c \in SurfaceSet :
              /\ Trades("raven", "none", c) /\ ~RavenRaises(c)
              /\ ravens'[i] = TradeWith("raven", RavenLegs(c), c)
      BY <2>9, <3>1
    <3>4. \A i \in DOMAIN diagonals' :
            \E c \in SurfaceSet : Priceable(c) /\ diagonals'[i] = DiagonalTrade(c)
      BY <2>9, <3>2
    <3> QED BY <2>1, <2>9, <3>3, <3>4 DEF HarvesterInv
  <2> QED BY <2>1, <2>8, <2>9
<1> QED BY <1>1, <1>2, <1>3, <1>4 DEF HarvesterNext

(* What the second gate sells, it sells outside events and inversions. *)
LEMMA GateV2Sells ==
  ASSUME NEW rv, NEW iv, NEW history, NEW front, NEW next, NEW event \in BOOLEAN
  PROVE  GateV2(rv, iv, history, front, next, event, Config).decision = "SELL"
           <=> /\ Gate(rv, iv, K) = "SELL" /\ ~Backwardation(front, next) /\ ~event
               /\ GateV2(rv, iv, history, front, next, event, Config).rich
<1> DEFINE v == VrpSpread(rv, iv)
           window == IF v = None THEN history ELSE Unlike(history, v)
           rich == RichPremium(v, window, Config)
           g == GateV2(rv, iv, history, front, next, event, Config)
           v1 == Gate(rv, iv, K)
<1>1. /\ g.decision = IF v1 = "SELL" /\ (~rich \/ Backwardation(front, next) \/ event)
                      THEN "ASIDE" ELSE v1
      /\ g.rich = rich
  BY DEF GateV2, Config
<1>2. rich \in BOOLEAN /\ Backwardation(front, next) \in BOOLEAN
  BY DEF RichPremium, Backwardation
<1> HIDE DEF g, rich, v1
<1>3. g.decision = "SELL" <=> v1 = "SELL" /\ ~Backwardation(front, next) /\ ~event /\ rich
  BY <1>1, <1>2
<1> QED BY <1>1, <1>3 DEF g, v1

(* A cycle of the surface. *)
SurfaceIs(c) ==
  /\ {c.spot, c.atm, c.vix, c.rv, c.next, c.dte, c.farDte, c.close} \subseteq Nat \cup {None}
  /\ c.entry \in Nat /\ c.rich \in Nat /\ c.farRich \in Nat
  /\ c.puts \in Seq(Nat) \ {<<>>} /\ c.calls \in Seq(Nat) \ {<<>>}
  /\ EventOf(c) \in BOOLEAN

LEMMA SurfacesAre == ASSUME NEW c \in SurfaceSet  PROVE SurfaceIs(c)
BY SurfaceAssumption DEF EventOf, EventDay, SurfaceIs

LEMMA GatesAgree ==
  ASSUME NEW c \in SurfaceSet, NEW past
  PROVE  /\ SecondGate(c, past) = "SELL" =>
              ~EventOf(c) /\ ~Backwardation(FrontIv(c), c.next)
         /\ RouteOf(c, past) = "raven" <=>
              /\ FrontIv(c) # None /\ c.rv # None /\ SecondGate(c, past) = "SELL"
              /\ Legible(FrontIv(c)) /\ (c.next = None \/ Legible(c.next))
         /\ RouteOf(c, past) = "diagonal" <=> DeploysDiagonal(c)
<1>1. EventOf(c) \in BOOLEAN
  BY SurfacesAre DEF SurfaceIs
<1>2. SecondGate(c, past) = "SELL" => ~EventOf(c) /\ ~Backwardation(FrontIv(c), c.next)
  BY <1>1, GateV2Sells DEF SecondGate
<1>3. /\ Legible(FrontIv(c)) \in BOOLEAN /\ Legible(c.next) \in BOOLEAN
      /\ Legible(FrontIv(c)) => FrontIv(c) # None
      /\ Backwardation(FrontIv(c), c.next) \in BOOLEAN
      /\ Backwardation(FrontIv(c), c.next) => c.next # None
  BY DEF Legible, Backwardation
<1>4. RouteOf(c, past) = "raven" <=>
        /\ FrontIv(c) # None /\ c.rv # None /\ SecondGate(c, past) = "SELL"
        /\ Legible(FrontIv(c)) /\ (c.next = None \/ Legible(c.next))
  BY <1>1, <1>2, <1>3 DEF RouteOf
<1>5. RouteOf(c, past) = "diagonal" <=> DeploysDiagonal(c)
  BY <1>1, <1>2, <1>3 DEF RouteOf, DeploysDiagonal
<1> QED BY <1>2, <1>4, <1>5

LEMMA KeptIs ==
  ASSUME NEW s \in Seq(SurfaceSet), NEW i
  PROVE  i \in KeptAt(s) <=> /\ i \in DOMAIN s /\ FrontIv(s[i]) # None /\ s[i].rv # None
                             /\ SecondGate(s[i], PastOf(s, i)) = "SELL"
BY DEF KeptAt, PastOf

LEMMA GatedAsRouted == ASSUME HarvesterInv  PROVE RoutesAsGated
<1> SUFFICES ASSUME NEW i \in DOMAIN routes
             PROVE  /\ routes[i] = "raven" <=>
                         /\ i \in KeptAt(surface)
                         /\ Legible(FrontIv(surface[i]))
                         /\ (surface[i].next = None \/ Legible(surface[i].next))
                    /\ routes[i] = "diagonal" <=> DeploysDiagonal(surface[i])
  BY DEF RoutesAsGated
<1>1. surface \in Seq(SurfaceSet) /\ Len(surface) \in Nat
  BY DEF HarvesterInv
<1>2. PICK n \in 0 .. Len(surface) : routes = RoutedTo(surface, n)
  BY DEF HarvesterInv
<1>3. i \in DOMAIN surface /\ routes[i] = RouteOf(surface[i], PastOf(surface, i))
  BY <1>1, <1>2 DEF RoutedTo
<1>4. surface[i] \in SurfaceSet
  BY <1>1, <1>3
<1> DEFINE c == surface[i]
           past == PastOf(surface, i)
<1>5. i \in KeptAt(surface) <=> FrontIv(c) # None /\ c.rv # None /\ SecondGate(c, past) = "SELL"
  BY <1>1, <1>3, KeptIs
<1>6. /\ RouteOf(c, past) = "raven" <=>
           /\ FrontIv(c) # None /\ c.rv # None /\ SecondGate(c, past) = "SELL"
           /\ Legible(FrontIv(c)) /\ (c.next = None \/ Legible(c.next))
      /\ RouteOf(c, past) = "diagonal" <=> DeploysDiagonal(c)
  <2> HIDE DEF past, c
  <2> QED BY <1>4, GatesAgree DEF c
<1> QED BY <1>3, <1>5, <1>6

LEMMA StressAvoided == ASSUME HarvesterInv  PROVE NothingSoldIntoStress
<1> SUFFICES ASSUME NEW i \in KeptAt(surface)
             PROVE  ~EventOf(surface[i]) /\ ~Backwardation(FrontIv(surface[i]), surface[i].next)
  BY DEF NothingSoldIntoStress
<1>1. surface \in Seq(SurfaceSet)
  BY DEF HarvesterInv
<1>2. i \in DOMAIN surface /\ SecondGate(surface[i], PastOf(surface, i)) = "SELL"
  BY <1>1, KeptIs
<1>3. surface[i] \in SurfaceSet
  BY <1>1, <1>2
<1> QED BY <1>2, <1>3, GatesAgree

(* The condor's strikes are in order, its wings as wide as asked. *)
LEMMA RavenOwes ==
  ASSUME NEW c \in SurfaceSet, ~RavenRaises(c), c.spot \in Nat
  PROVE  OwesAtMost("raven", RavenLegs(c))
<1> DEFINE atm == RoundToStep(c.spot, StrikeStep)
           p == SelectByDelta(c.puts, PutDelta)
           q == SelectByDelta(c.calls, CallDelta)
           sp == atm - (p - 1) * StrikeStep
           sc == atm + (q - 1) * StrikeStep
           pw == PutWings * StrikeStep
           cw == CallWings * StrikeStep
<1>1. c.puts \in Seq(Nat) /\ c.puts # <<>> /\ c.calls \in Seq(Nat) /\ c.calls # <<>>
  BY SurfacesAre DEF SurfaceIs
<1>2. p \in Int /\ q \in Int
  <2>1. PutDelta \in Nat /\ CallDelta \in Nat
    BY SurfaceAssumption
  <2>2. p \in DOMAIN c.puts /\ q \in DOMAIN c.calls
    BY <1>1, <2>1, DeltaChosen
  <2> QED BY <1>1, <2>2
<1>3. atm \in Int /\ StrikeStep \in Nat
  BY GridIs, StrategyAssumption DEF Grid
<1>4. RavenLegs(c) = Spread("PE", sp, sp - pw) \o Spread("CE", sc, sc + cw) /\ sp < sc
  BY DEF RavenLegs, RavenRaises, RavenStrikes
<1> HIDE DEF atm, p, q
<1>5. sp \in Int /\ sc \in Int
    BY <1>2, <1>3
<1>6. pw \in Nat /\ cw \in Nat
  BY <1>3, SurfaceAssumption
<1> HIDE DEF sp, sc, pw, cw
<1>7. sp <= sc /\ SellsPremium("raven")
  BY <1>4, <1>5 DEF SellsPremium
<1> QED BY <1>4, <1>5, <1>6, <1>7, CondorOwes

LEMMA RavensCovered == ASSUME HarvesterInv  PROVE RavenLossCovered
<1> SUFFICES ASSUME NEW i \in DOMAIN ravens, ravens[i].credit >= 0
             PROVE  \A s \in Settlements(ravens[i]) :
                      -ResolveFills(ravens[i].legs, ravens[i].fills, s) <= ravens[i].span
  BY DEF RavenLossCovered
<1>1. PICK c \in SurfaceSet :
        /\ Trades("raven", "none", c) /\ ~RavenRaises(c)
        /\ ravens[i] = TradeWith("raven", RavenLegs(c), c)
  BY DEF HarvesterInv
<1>2. c.spot \in Nat /\ c.entry \in Nat /\ c.rich \in Nat
  BY <1>1, SurfacesAre DEF SurfaceIs, Trades, Incomplete
<1>3. OwesAtMost("raven", RavenLegs(c)) /\ DefinedRisk("raven")
  BY <1>1, <1>2, RavenOwes DEF DefinedRisk
<1>4. TradeIs("raven", ravens[i])
  BY <1>1, <1>2, <1>3, TradeWithIs
<1> QED BY <1>3, <1>4, TradeCovered

(* A diagonal: what is owed on the near put is met by the far one and the  *)
(* gap between the two.                                                    *)
LEMMA DiagonalOwes ==
  ASSUME NEW c \in SurfaceSet, Priceable(c)
  PROVE  LET t == DiagonalTrade(c)
             gap == t.near.strike - t.far.strike
         IN  /\ -(t.gross) <= gap - t.credit + t.slip
             /\ -(t.gross) <= 2 * t.margin + t.slip
<1> DEFINE nearK == RoundToStep(c.spot, StrikeStep)
                      - (SelectByDelta(c.puts, NearDelta) - 1) * StrikeStep
           gap == FarOffset * StrikeStep
           farK == nearK - gap
           near == Leg("PE", "SELL", nearK, 1)
           far == Leg("PE", "BUY", farK, 1)
           credit == Cut(Mid(near, c.spot, c.rich)) - Raise(Mid(far, c.spot, c.farRich))
           residual == Mid(far, c.close, c.farRich \div 2)
           owed == Intrinsic(near, c.close)
           held == Intrinsic(far, c.close)
           kept == Cut(residual)
           t == DiagonalTrade(c)
           debit == Positive(-credit)
           margin == Max({debit, nearK - farK, StrikeStep})
<1>1. /\ t.near.strike = nearK /\ t.far.strike = farK /\ t.credit = credit
      /\ t.gross = credit + kept - owed /\ t.slip = residual - kept /\ t.margin = margin
  BY DEF DiagonalTrade, Leg
<1>2. /\ c.spot \in Nat /\ c.close \in Nat /\ c.rich \in Nat /\ c.farRich \in Nat
      /\ c.puts \in Seq(Nat) /\ c.puts # <<>> /\ StrikeStep \in Nat /\ gap \in Nat
      /\ SlipPart \in Nat \ {0}
  <2>1. c.spot \in Nat /\ c.close \in Nat
    BY SurfacesAre DEF SurfaceIs, Priceable
  <2>2. StrikeStep \in Nat /\ FarOffset \in Nat /\ SlipPart \in Nat \ {0}
    BY StrategyAssumption, SurfaceAssumption
  <2>3. gap \in Nat
    BY <2>2
  <2> QED BY <2>1, <2>2, <2>3, SurfacesAre DEF SurfaceIs
<1>3. nearK \in Int
  <2> DEFINE atm == RoundToStep(c.spot, StrikeStep)
             p == SelectByDelta(c.puts, NearDelta)
  <2>1. atm \in Int
    <3>1. c.spot \in Int
      BY <1>2
    <3>2. Grid(c.spot) \in Int
      BY <3>1, GridIs
    <3> QED BY <3>2 DEF Grid
  <2>2. p \in Int
      BY <1>2, SurfaceAssumption, DeltaChosen
  <2> HIDE DEF atm, p
  <2>3. (p - 1) * StrikeStep \in Int
    BY <1>2, <2>2
  <2>4. atm - (p - 1) * StrikeStep \in Int
    BY <2>1, <2>3
  <2> QED BY <2>4 DEF atm, p
<1> HIDE DEF t, nearK, gap
<1>4. farK \in Int /\ nearK - farK = gap
  BY <1>2, <1>3
<1>5. near \in LegSet /\ far \in LegSet
  BY <1>3, <1>4 DEF LegSet, Leg
<1>6. /\ owed \in Nat /\ held \in Nat /\ owed <= held + gap
      /\ residual \in Nat /\ residual >= held
  <2>1. owed = Positive(nearK - c.close) /\ held = Positive(farK - c.close)
    BY DEF Intrinsic, Leg
  <2>2. residual = held + Positive(c.farRich \div 2
                                    - (IF farK > c.close THEN farK - c.close
                                       ELSE c.close - farK) \div 2)
    BY DEF Mid, Leg
  <2> DEFINE x == Positive(c.farRich \div 2 - (IF farK > c.close THEN farK - c.close
                                               ELSE c.close - farK) \div 2)
  <2>3. x \in Nat
    <3> DEFINE d == IF farK > c.close THEN farK - c.close ELSE c.close - farK
    <3>1. d \in Int
      BY <1>2, <1>4
    <3> HIDE DEF d
    <3>2. c.farRich \div 2 - d \div 2 \in Int
      BY <1>2, <3>1
    <3>3. Positive(c.farRich \div 2 - d \div 2) \in Nat
      BY <3>2 DEF Positive
    <3> QED BY <3>3 DEF d
  <2> HIDE DEF x, owed, held, residual
  <2>4. owed \in Nat /\ held \in Nat /\ owed <= held + gap
    <3>1. \A k, s \in Int, g \in Nat :
            /\ Positive(k - s) \in Nat /\ Positive(k - g - s) \in Nat
            /\ Positive(k - s) <= Positive(k - g - s) + g
      BY DEF Positive
    <3>2. c.close \in Int /\ farK = nearK - gap
      BY <1>2
    <3> HIDE DEF farK
    <3> QED BY <1>2, <1>3, <2>1, <3>1, <3>2
  <2>5. residual = held + x
    BY <2>2 DEF x
  <2> QED BY <2>3, <2>4, <2>5
<1>7. credit \in Int
  <2> DEFINE a == Mid(near, c.spot, c.rich)
             b == Mid(far, c.spot, c.farRich)
  <2>1. a \in Int /\ b \in Int
    <3>1. ASSUME NEW l \in LegSet, NEW r \in Nat  PROVE Mid(l, c.spot, r) \in Int
      <4> DEFINE d == IF l.strike > c.spot THEN l.strike - c.spot ELSE c.spot - l.strike
      <4>0. c.spot \in Int /\ l.strike \in Int
        BY <1>2 DEF LegSet
      <4>1. Intrinsic(l, c.spot) \in Nat
        BY <4>0, LegPays
      <4>2. d \in Int
        BY <4>0
      <4>3. Mid(l, c.spot, r) = Intrinsic(l, c.spot) + Positive(r - d \div 2)
        BY DEF Mid
      <4> HIDE DEF d
      <4>4. r - d \div 2 \in Int
        BY <4>2
      <4>5. Positive(r - d \div 2) \in Nat
        BY <4>4 DEF Positive
      <4> QED BY <4>1, <4>3, <4>5
    <3> HIDE DEF near, far
    <3> QED BY <1>2, <1>5, <3>1
  <2> HIDE DEF a, b
  <2>2. Cut(a) \in Int /\ Raise(b) \in Int
    BY <1>2, <2>1 DEF Cut, Raise
  <2>3. Cut(a) - Raise(b) \in Int
    BY <2>2
  <2> QED BY <2>3 DEF a, b
<1> HIDE DEF near, far, farK, credit, residual, owed, held
<1>8. kept \in Int
  BY <1>2, <1>6 DEF Cut
<1>9. margin \in Int /\ margin >= gap /\ margin >= -credit
  <2> DEFINE S == {debit, nearK - farK, StrikeStep}
  <2>1. debit \in Int /\ debit >= -credit
    BY <1>7 DEF Positive
  <2> HIDE DEF debit
  <2>2. IsFiniteSet(S)
    <3>1. IsFiniteSet({debit})
      BY FS_Singleton
    <3>2. IsFiniteSet({debit} \cup {nearK - farK})
      BY <3>1, FS_AddElement
    <3>3. IsFiniteSet({debit} \cup {nearK - farK} \cup {StrikeStep})
      BY <3>2, FS_AddElement
    <3>4. S = {debit} \cup {nearK - farK} \cup {StrikeStep}
      OBVIOUS
    <3> QED BY <3>3, <3>4
  <2>3. S # {} /\ \A x \in S : x \in Int
    BY <1>2, <1>4, <2>1
  <2>4. Max(S) \in S /\ \A x \in S : Max(S) >= x
    <3> HIDE DEF S
    <3> QED BY <2>2, <2>3, GreatestOf
  <2>5. margin = Max(S) /\ debit \in S /\ gap \in S
    BY <1>4
  <2>6. Max(S) \in Int /\ Max(S) >= debit /\ Max(S) >= gap
    BY <2>3, <2>4, <2>5
  <2> HIDE DEF S, margin
  <2> QED BY <1>7, <2>1, <2>5, <2>6
<1> HIDE DEF margin, kept
<1>10. -(credit + kept - owed) <= gap - credit + (residual - kept)
  BY <1>2, <1>6, <1>7, <1>8
<1>11. -(credit + kept - owed) <= 2 * margin + (residual - kept)
  BY <1>2, <1>6, <1>7, <1>8, <1>9
<1>12. t.near.strike - t.far.strike = gap
  BY <1>1, <1>4
<1>13. /\ -(t.gross) <= (t.near.strike - t.far.strike) - t.credit + t.slip
       /\ -(t.gross) <= 2 * t.margin + t.slip
  BY <1>1, <1>10, <1>11, <1>12
<1> QED BY <1>13 DEF t

LEMMA DiagonalsBounded == ASSUME HarvesterInv  PROVE DiagonalLossBounded
<1> SUFFICES ASSUME NEW i \in DOMAIN diagonals
             PROVE  LET t == diagonals[i]
                        gap == t.near.strike - t.far.strike
                    IN  /\ -(t.gross) <= gap - t.credit + t.slip
                        /\ -(t.gross) <= 2 * t.margin + t.slip
  BY DEF DiagonalLossBounded
<1>1. PICK c \in SurfaceSet : Priceable(c) /\ diagonals[i] = DiagonalTrade(c)
  BY DEF HarvesterInv
<1> QED BY <1>1, DiagonalOwes

(* The harvester is sound in every state of the invariant. *)
LEMMA HarvesterHolds == ASSUME HarvesterInv  PROVE HarvesterSound
BY GatedAsRouted, StressAvoided, DiagonalsBounded, RavensCovered
   DEF HarvesterSound

(* The two routers: a later report decides an earlier cycle as before, the *)
(* baseline trades whatever the router does, no trade loses more than the  *)
(* margin blocked for it, and nothing is sold into an event or an inverted *)
(* surface (FnoOrchestrator.run(), route_cycles(), gate_cycles_v2(),       *)
(* price_and_resolve_diagonal()).                                          *)
THEOREM RoutersAlwaysSound == Spec => []RoutersSound
<1>1. Init => RouterInv /\ HarvesterInv
  BY InitRouterInv, InitHarvesterInv DEF Init
<1>2. RouterInv /\ HarvesterInv /\ [Next]_vars => (RouterInv /\ HarvesterInv)'
  <2> SUFFICES ASSUME RouterInv, HarvesterInv, [Next]_vars
               PROVE  RouterInv' /\ HarvesterInv'
    OBVIOUS
  <2>1. RouterNext \/ UNCHANGED routerVars
    BY DEF Next, vars
  <2>2. HarvesterNext \/ UNCHANGED harvesterVars
    BY DEF Next, vars
  <2>3. RouterInv'
    BY <2>1, RouterNextKeeps, RouterStutters
  <2>4. HarvesterInv'
    BY <2>2, HarvesterNextKeeps, HarvesterStutters
  <2> QED BY <2>3, <2>4
<1>3. RouterInv /\ HarvesterInv => RoutersSound
  BY RouterHolds, HarvesterHolds DEF RoutersSound
<1> QED BY <1>1, <1>2, <1>3, PTL DEF Spec

-----------------------------------------------------------------------------
(* The condor backtest. *)

(* What either gate must find before the cycle is traded. *)
Taken(c) ==
  /\ ~Malformed(c) /\ Gate(Rebase(c.rv), IvSource(c).iv, K) = "SELL"
  /\ ImpliedMove(c.spot, IvSource(c).iv, c.dte) > 0

(* What a well-formed cycle is traded with. *)
LEMMA CycleIs ==
  ASSUME NEW c \in CycleRecord
  PROVE  /\ IvSource(c).iv \in Nat \cup {None}
         /\ c.rv \in Nat \cup {None} /\ c.credit \in Int /\ c.entry \in Nat
         /\ c.deltas \in Seq(Nat) /\ c.deltas # <<>>
         /\ ~Malformed(c) => /\ c.spot \in Nat /\ c.rv \in Nat /\ c.dte \in Nat
                             /\ IvSource(c).iv \in Nat /\ Settlement(c) \in Nat
<1>1. /\ {c.spot, c.dte, c.atm, c.vix, c.rv, c.fsp, c.vwap, c.close} \subseteq Nat \cup {None}
      /\ c.credit \in Int /\ c.entry \in Nat /\ c.deltas \in Seq(Nat) /\ c.deltas # <<>>
  BY DEF CycleRecord
<1>2. IvSource(c).iv \in Nat \cup {None}
  BY <1>1 DEF IvSource, Plausible
<1>3. Settlement(c) \in Nat \cup {None}
  <2> DEFINE prices == <<c.fsp, c.vwap, c.close>>
             good == {i \in 1 .. 3 : prices[i] # None /\ prices[i] > 0}
  <2>1. Settlement(c) = IF good = {} THEN None ELSE prices[Min(good)]
    BY DEF Settlement
  <2>2. \A i \in 1 .. 3 : prices[i] \in Nat \cup {None}
    BY <1>1
  <2>3. good \in SUBSET (1 .. 3)
    OBVIOUS
  <2> HIDE DEF prices, good
  <2>4. 3 \in Nat
    OBVIOUS
  <2>5. IsFiniteSet(good) /\ \A i \in good : i \in Int
    BY <2>3, <2>4, PlacesFinite
  <2>6. good # {} => Min(good) \in good
    BY <2>5, LeastOf
  <2> QED BY <2>1, <2>2, <2>3, <2>6
<1> QED BY <1>1, <1>2, <1>3 DEF Malformed

(* The condor's strikes are in order and both its wings as wide as asked.  *)
CondorIs(k) ==
  LET w == WingStrikes * StrikeStep
  IN  /\ k.shortPut \in Int /\ k.shortCall \in Int /\ w \in Nat
      /\ k.longPut = k.shortPut - w /\ k.longCall = k.shortCall + w
      /\ k.shortPut <= k.shortCall

LEMMA BuiltInOrder ==
  ASSUME NEW spot \in Int, NEW reach \in Nat
  PROVE  CondorIs(BuildCondor(spot, reach, WingStrikes, StrikeStep))
BY SimAssumption, StrategyAssumption, GridIs, GridOrdered DEF CondorIs, BuildCondor, Grid

LEMMA StrikesAre ==
  ASSUME NEW c \in CycleRecord, ~Malformed(c)
  PROVE  CondorIs(StrikesOf(c, IvSource(c).iv))
<1>1. c.spot \in Nat /\ c.dte \in Nat /\ IvSource(c).iv \in Nat /\ c.deltas \in Seq(Nat) /\ c.deltas # <<>>
  BY CycleIs
<1> DEFINE em == ImpliedMove(c.spot, IvSource(c).iv, c.dte)
           d == SelectByDelta(c.deltas, TargetDelta)
           out == (d - 1) * StrikeStep
           atm == RoundToStep(c.spot, StrikeStep)
<1>2. (3 * em) \div 2 \in Nat
  <2>1. em \in Nat
    BY <1>1, MoveNat
  <2> HIDE DEF em
  <2> QED BY <2>1
<1>3. out \in Nat
  <2>1. TargetDelta \in Nat /\ StrikeStep \in Nat
    BY SimAssumption, StrategyAssumption
  <2>2. d \in DOMAIN c.deltas
    BY <1>1, <2>1, DeltaChosen
  <2> HIDE DEF d
  <2>3. d - 1 \in Nat
    BY <1>1, <2>2
  <2> QED BY <2>1, <2>3
<1>4. atm \in Int
  <2>1. c.spot \in Int
    BY <1>1
  <2>2. Grid(c.spot) \in Int
    BY <2>1, GridIs
  <2> QED BY <2>2 DEF Grid
<1>5. CondorIs(BuildCondor(c.spot, (3 * em) \div 2, WingStrikes, StrikeStep))
  <2> HIDE DEF em
  <2>1. c.spot \in Int
    BY <1>1
  <2> QED BY <1>2, <2>1, BuiltInOrder
<1>6. CondorIs(BuildCondor(atm, out, WingStrikes, StrikeStep))
  <2> HIDE DEF atm, out
  <2> QED BY <1>3, <1>4, BuiltInOrder
<1> QED BY <1>5, <1>6 DEF StrikesOf

(* A condor settles for no more than the width of one wing. *)
LEMMA CondorPays ==
  ASSUME NEW k, CondorIs(k), NEW s \in Int, NEW credit \in Int
  PROVE  /\ ResolveCondor(k, credit, s) \in Int /\ PutWing(k) \in Nat
         /\ PutWing(k) = WingStrikes * StrikeStep
         /\ ResolveCondor(k, credit, s) >= -(Positive(PutWing(k) - credit))
<1>1. PICK p, q, w :
        /\ p = k.shortPut /\ q = k.shortCall /\ w = WingStrikes * StrikeStep
        /\ k.longPut = p - w /\ k.longCall = q + w
  BY DEF CondorIs
<1>2. p \in Int /\ q \in Int /\ w \in Nat /\ p <= q
  BY <1>1 DEF CondorIs
<1> DEFINE loss == Positive(p - s) - Positive(p - w - s)
           gain == Positive(s - q) - Positive(s - (q + w))
<1>3. ResolveCondor(k, credit, s) = credit - loss - gain /\ PutWing(k) = w
    BY <1>1, <1>2 DEF PutWing, ResolveCondor, PutLoss, CallLoss
<1>4. loss \in Int /\ gain \in Int /\ loss + gain <= w
  BY <1>2 DEF Positive
<1> HIDE DEF loss, gain
<1>5. credit - loss - gain \in Int /\ credit - loss - gain >= -(Positive(w - credit))
  BY <1>2, <1>4 DEF Positive
<1> QED BY <1>1, <1>2, <1>3, <1>5

(* What is said of a trade of either side. *)
TradeSaid(t) ==
  LET Fires(j) == RuleAt(t.cycle.path[j], t.cycle.credit) # "none"
      held == IF t.exit.reason = "expiry" THEN Len(t.cycle.path) ELSE t.exit.at - 1
  IN  /\ t.net \in Int /\ t.cycle \in CycleRecord /\ Taken(t.cycle)
      /\ t.gross >= -(t.maxLoss) - IF t.exit.reason = "expiry" THEN 0 ELSE CloseSlip
      /\ Ordered(t.strikes)
      /\ \A j \in 1 .. held : ~Fires(j)
      /\ t.exit.reason # "expiry" => Fires(t.exit.at)

(* An early exit is at the first day on which a rule is met. *)
LEMMA ExitsFirst ==
  ASSUME NEW c \in CycleRecord
  PROVE  LET x == EvaluateExit(c)
             Fires(j) == RuleAt(c.path[j], c.credit) # "none"
         IN  /\ x.reason = "expiry" => \A j \in DOMAIN c.path : ~Fires(j)
             /\ x.reason # "expiry" => /\ x.at \in DOMAIN c.path /\ Fires(x.at)
                                       /\ \A j \in 1 .. x.at - 1 : ~Fires(j)
<1> DEFINE Fires(j) == RuleAt(c.path[j], c.credit) # "none"
           fired == {i \in DOMAIN c.path : Fires(i)}
           x == EvaluateExit(c)
<1>1. PICK n \in Nat : DOMAIN c.path = 1 .. n
  <2> DEFINE R == [dte : Nat, mark : 0 .. WingStrikes * StrikeStep]
             p == c.path
  <2>1. p \in Seq(R)
    BY DEF CycleRecord
  <2> HIDE DEF R, p
  <2>2. DOMAIN p = 1 .. Len(p) /\ Len(p) \in Nat
    BY <2>1
  <2> QED BY <2>2 DEF p
<1>2. fired \in SUBSET (1 .. n)
  BY <1>1
<1>3. x = IF fired = {} THEN [reason |-> "expiry", at |-> 0]
          ELSE [reason |-> RuleAt(c.path[Min(fired)], c.credit), at |-> Min(fired)]
  BY DEF EvaluateExit
<1>4. \A j : RuleAt(c.path[j], c.credit) # "expiry"
  BY DEF RuleAt
<1>5. \A j \in DOMAIN c.path : j \in fired <=> Fires(j)
  OBVIOUS
<1> HIDE DEF x, fired
<1>6. CASE fired = {}
  <2>1. x.reason = "expiry"
    BY <1>3, <1>6
  <2> HIDE DEF Fires
  <2> QED BY <1>5, <1>6, <2>1 DEF x, Fires
<1>7. CASE fired # {}
  <2>1. IsFiniteSet(fired) /\ \A i \in fired : i \in Int
    BY <1>2, PlacesFinite
  <2>2. Min(fired) \in fired /\ \A i \in fired : Min(fired) <= i
    BY <1>7, <2>1, LeastOf
  <2> DEFINE m == Min(fired)
  <2> HIDE DEF m
  <2>3. m \in 1 .. n /\ m \in fired /\ \A i \in fired : m <= i
    BY <1>2, <2>2 DEF m
  <2>4. x.at = m /\ x.reason # "expiry"
    BY <1>3, <1>4, <1>7 DEF m
  <2>5. ASSUME NEW j \in 1 .. m - 1  PROVE ~Fires(j)
      BY <1>1, <1>5, <2>3
  <2>6. Fires(m) /\ m \in DOMAIN c.path
    BY <1>1, <1>5, <2>3
  <2> HIDE DEF Fires
  <2> QED BY <2>4, <2>5, <2>6 DEF x, Fires
<1> QED BY <1>6, <1>7

LEMMA TradesSaid ==
  ASSUME NEW c \in CycleRecord, Taken(c)
  PROVE  TradeSaid(TradeOf(c)) /\ TradeOf(c).cycle = c
<1> DEFINE k == StrikesOf(c, IvSource(c).iv)
           x == EvaluateExit(c)
           early == x.reason # "expiry"
           mark == c.path[x.at].mark
           w == WingStrikes * StrikeStep
           gross == IF early THEN c.credit - (mark + CloseSlip)
                    ELSE ResolveCondor(k, c.credit, Settlement(c))
           costs == IF early THEN 2 * Costs ELSE Costs
           t == TradeOf(c)
<1>1. /\ t.cycle = c /\ t.strikes = k /\ t.gross = gross /\ t.net = gross - costs
      /\ t.maxLoss = Positive(PutWing(k) - c.credit) /\ t.exit = x
  BY DEF TradeOf
<1>2. ~Malformed(c) /\ c.credit \in Int /\ Settlement(c) \in Int
  BY CycleIs DEF Taken
<1>3. CondorIs(k)
  BY <1>2, StrikesAre
<1>4. early => mark \in 0 .. w
  <2> SUFFICES ASSUME early  PROVE mark \in 0 .. w
    OBVIOUS
  <2>1. x.at \in DOMAIN c.path
    BY ExitsFirst
  <2> DEFINE R == [dte : Nat, mark : 0 .. w]
             p == c.path
             a == x.at
  <2>2. p \in Seq(R)
    BY DEF CycleRecord
  <2>3. a \in DOMAIN p
    BY <2>1
  <2> HIDE DEF R, p, a, x
  <2>4. p[a] \in R
    BY <2>2, <2>3
  <2>5. p[a].mark \in 0 .. w
    BY <2>4 DEF R
  <2> QED BY <2>5 DEF p, a
<1>5. CloseSlip \in Nat /\ Costs \in Nat
  BY SimAssumption
<1> HIDE DEF k, x, mark
<1>6. PutWing(k) = w /\ w \in Nat
  BY <1>2, <1>3, CondorPays
<1>7. /\ ResolveCondor(k, c.credit, Settlement(c)) \in Int
      /\ ResolveCondor(k, c.credit, Settlement(c)) >= -(Positive(w - c.credit))
  <2>1. PICK cr, st : cr = c.credit /\ st = Settlement(c)
    OBVIOUS
  <2>2. cr \in Int /\ st \in Int
    BY <1>2, <2>1
  <2>3. ResolveCondor(k, cr, st) \in Int /\ ResolveCondor(k, cr, st) >= -(Positive(w - cr))
    <3> HIDE DEF w
    <3> QED BY <1>3, <1>6, <2>2, CondorPays
  <2> QED BY <2>1, <2>3
<1> HIDE DEF w, early
<1>8. gross \in Int /\ gross >= -(Positive(w - c.credit)) - IF early THEN CloseSlip ELSE 0
  <2>1. CASE early
    <3>1. gross = c.credit - (mark + CloseSlip) /\ mark \in 0 .. w
      BY <1>4, <2>1
    <3>2. ASSUME NEW cr \in Int, NEW m \in Int, NEW ww \in Int, m <= ww
          PROVE  cr - m >= -(Positive(ww - cr))
      BY <3>2 DEF Positive
    <3>3. mark \in Int /\ mark <= w /\ w \in Int
      BY <1>6, <3>1
    <3>4. c.credit - mark >= -(Positive(w - c.credit)) /\ Positive(w - c.credit) \in Int
        BY <1>2, <3>2, <3>3 DEF Positive
    <3> HIDE DEF gross
    <3> QED BY <1>2, <1>5, <2>1, <3>1, <3>3, <3>4
  <2>2. CASE ~early
    <3>1. gross = ResolveCondor(k, c.credit, Settlement(c))
      BY <2>2
    <3>2. Positive(w - c.credit) \in Int
        BY <1>2, <1>6 DEF Positive
    <3> HIDE DEF gross
    <3> QED BY <1>7, <2>2, <3>1, <3>2
  <2> QED BY <2>1, <2>2
<1> HIDE DEF gross
<1>9. t.net \in Int
  <2>1. costs \in Int
    BY <1>5
  <2> HIDE DEF costs
  <2> QED BY <1>1, <1>8, <2>1
<1>10. t.gross >= -(t.maxLoss) - IF t.exit.reason = "expiry" THEN 0 ELSE CloseSlip
  BY <1>1, <1>6, <1>8 DEF early
<1>11. Ordered(t.strikes)
  <2>1. PICK p, q, v : p = k.shortPut /\ q = k.shortCall /\ v = w
    OBVIOUS
  <2>2. p \in Int /\ q \in Int /\ v \in Nat /\ p <= q /\ k.longPut = p - v /\ k.longCall = q + v
    BY <1>3, <2>1 DEF CondorIs, w
  <2>3. p - v <= p /\ q <= q + v
    BY <2>2
  <2>4. Ordered(k)
    BY <2>1, <2>2, <2>3 DEF Ordered
  <2> QED BY <1>1, <2>4
<1> DEFINE Fires(j) == RuleAt(c.path[j], c.credit) # "none"
           held == IF x.reason = "expiry" THEN Len(c.path) ELSE x.at - 1
<1>12. /\ \A j \in 1 .. held : ~Fires(j)
       /\ x.reason # "expiry" => Fires(x.at)
  <2>1. /\ x.reason = "expiry" => \A j \in DOMAIN c.path : ~Fires(j)
        /\ x.reason # "expiry" => Fires(x.at) /\ \A j \in 1 .. x.at - 1 : ~Fires(j)
    BY ExitsFirst DEF x
  <2>2. DOMAIN c.path = 1 .. Len(c.path)
    BY DEF CycleRecord
  <2> HIDE DEF Fires
  <2> QED BY <2>1, <2>2
<1> HIDE DEF t
<1>13. TradeSaid(t)
  BY <1>1, <1>9, <1>10, <1>11, <1>12 DEF TradeSaid
<1> QED BY <1>1, <1>13 DEF t

-----------------------------------------------------------------------------
(* The run of the condor backtest. *)

CyclesIn(b) == {b[i].cycle : i \in DOMAIN b}
BookOf == {TradeOf(c) : c \in {d \in CycleRecord : Taken(d)}}

SimInv ==
  /\ list \in Seq(CycleSet) /\ Len(list) <= MaxCycles /\ masked \in BOOLEAN
  /\ method \in {"move", "delta"} /\ side \in {"load", "A", "B", "done"}
  /\ pos \in 0 .. Len(list) /\ trailing \in Seq(Int) /\ Len(trailing) <= pos
  /\ book \in [{"A", "B"} -> Seq(BookOf)]
  /\ side = "load" => pos = 0 /\ book["A"] = <<>> /\ book["B"] = <<>>
  /\ \A i \in DOMAIN list :
       ~masked /\ Taken(list[i]) /\ (side \in {"B", "done"} \/ (side = "A" /\ i <= pos))
         => list[i] \in CyclesIn(book["A"])
  /\ \A c \in CyclesIn(book["B"]) : c \in Range(list) /\ Taken(c)

LEMMA BooksSaid ==
  ASSUME SimInv, NEW s \in {"A", "B"}, NEW i \in DOMAIN book[s]
  PROVE  TradeSaid(book[s][i])
<1>1. book[s] \in Seq(BookOf)
  BY DEF SimInv
<1>2. book[s][i] \in BookOf
  BY <1>1
<1>3. PICK c \in CycleRecord : Taken(c) /\ book[s][i] = TradeOf(c)
  BY <1>2 DEF BookOf
<1> QED BY <1>3, TradesSaid

(* What a side is fed with. *)
LEMMA InputIs ==
  ASSUME SimInv, NEW i \in DOMAIN list
  PROVE  /\ Input[i] \in CycleRecord
         /\ side = "B" => Input[i] \in Range(list)
         /\ side # "B" /\ ~masked => Input[i] = list[i]
<1>1. list \in Seq(CycleSet) /\ CycleSet \in SUBSET CycleRecord
  BY SimAssumption DEF SimInv
<1>2. \A j \in DOMAIN list : list[j] \in CycleSet /\ list[j] \in CycleRecord
  BY <1>1
<1>3. CASE side = "B"
  <2> DEFINE at == InOrder(DOMAIN list, ByEntry(list))
  <2>1. \A x \in CycleSet : x.entry \in Nat
    BY <1>1, CycleIs
  <2>2. /\ Chronological(list) = [n \in DOMAIN list |-> list[at[n]]]
        /\ OrderedBy(at, DOMAIN list, ByEntry(list)) /\ DOMAIN at = DOMAIN list
    BY <1>1, <2>1, PlacedByEntry
  <2> HIDE DEF at
  <2>3. at[i] \in DOMAIN list
    BY <2>2 DEF OrderedBy
  <2>4. Input[i] = list[at[i]]
    BY <1>3, <2>2 DEF Input
  <2> QED BY <1>2, <1>3, <2>3, <2>4 DEF Range
<1>4. CASE side # "B"
  <2>1. Input[i] = IF masked THEN [list[i] EXCEPT !.atm = None] ELSE list[i]
    BY <1>4 DEF Input
  <2> DEFINE c == list[i]
  <2>2. c \in CycleRecord
    BY <1>2
  <2> HIDE DEF c
  <2>3. [c EXCEPT !.atm = None] \in CycleRecord
    BY <2>2 DEF CycleRecord
  <2> QED BY <1>2, <1>4, <2>1, <2>3 DEF c
<1> QED BY <1>3, <1>4

LEMMA InitSimInv == InitSim => SimInv
<1> SUFFICES ASSUME InitSim  PROVE SimInv
  OBVIOUS
<1>1. /\ list = <<>> /\ masked = FALSE /\ method = "move" /\ side = "load" /\ pos = 0
      /\ trailing = <<>> /\ book = [s \in {"A", "B"} |-> <<>>]
  BY DEF InitSim
<1>2. DOMAIN list = {} /\ CyclesIn(<<>>) = {} /\ MaxCycles \in Nat
  BY <1>1, SimAssumption DEF CyclesIn
<1>3. /\ list \in Seq(CycleSet) /\ Len(list) = 0 /\ trailing \in Seq(Int) /\ Len(trailing) = 0
      /\ book \in [{"A", "B"} -> Seq(BookOf)] /\ book["A"] = <<>> /\ book["B"] = <<>>
  BY <1>1
<1>4. Len(list) <= MaxCycles /\ pos \in 0 .. Len(list) /\ Len(trailing) <= pos
  BY <1>1, <1>2, <1>3
<1>5. \A c \in CyclesIn(book["B"]) : c \in Range(list) /\ Taken(c)
  BY <1>2, <1>3
<1>6. \A i \in DOMAIN list :
        ~masked /\ Taken(list[i]) /\ (side \in {"B", "done"} \/ (side = "A" /\ i <= pos))
          => list[i] \in CyclesIn(book["A"])
  BY <1>2
<1>7. masked \in BOOLEAN /\ method \in {"move", "delta"} /\ side \in {"load", "A", "B", "done"}
  BY <1>1
<1> QED BY <1>1, <1>3, <1>4, <1>5, <1>6, <1>7 DEF SimInv

LEMMA SimStutters == SimInv /\ UNCHANGED simVars => SimInv'
<1> SUFFICES ASSUME SimInv, UNCHANGED simVars  PROVE SimInv'
  OBVIOUS
<1>1. UNCHANGED <<list, masked, method, side, pos, trailing, book>>
  BY DEF simVars
<1>2. BookOf' = BookOf
  BY <1>1 DEF BookOf, TradeOf, StrikesOf
<1> QED BY <1>1, <1>2 DEF SimInv

LEMMA LoadKeeps == ASSUME SimInv, NEW c \in CycleSet, LoadCycle(c)  PROVE SimInv'
<1>1. /\ side = "load" /\ Len(list) < MaxCycles /\ list' = Append(list, c)
      /\ UNCHANGED <<masked, method, side, pos, trailing, book>>
  BY DEF LoadCycle
<1>2. list \in Seq(CycleSet) /\ MaxCycles \in Nat /\ Len(list) \in Nat
  BY SimAssumption DEF SimInv
<1>3. list' \in Seq(CycleSet) /\ Len(list') <= MaxCycles /\ Len(list') = Len(list) + 1
  BY <1>1, <1>2
<1>4. BookOf' = BookOf
  BY <1>1 DEF BookOf, TradeOf, StrikesOf
<1>5. pos' \in 0 .. Len(list')
  BY <1>1, <1>2, <1>3 DEF SimInv
<1>6. CyclesIn(book["B"]) = {}
  BY <1>1 DEF SimInv, CyclesIn
<1> QED BY <1>1, <1>3, <1>4, <1>5, <1>6 DEF SimInv

LEMMA StartSimKeeps ==
  ASSUME SimInv, NEW m \in BOOLEAN, NEW how \in {"move", "delta"}, StartSim(m, how)
  PROVE  SimInv'
<1>1. /\ side = "load" /\ side' = "A" /\ masked' = m /\ method' = how
      /\ UNCHANGED <<list, pos, trailing, book>>
  BY DEF StartSim
<1>2. pos = 0 /\ book["A"] = <<>> /\ book["B"] = <<>> /\ book \in [{"A", "B"} -> Seq(BookOf)]
  BY <1>1 DEF SimInv
<1>3. book' \in [{"A", "B"} -> Seq(BookOf')]
    BY <1>1, <1>2
<1>4. list \in Seq(CycleSet)
  BY DEF SimInv
<1>5. \A i \in DOMAIN list : ~(i <= pos')
  BY <1>1, <1>2, <1>4
<1> QED BY <1>1, <1>3, <1>5 DEF SimInv

LEMMA SideDoneKeeps == ASSUME SimInv, SideDone  PROVE SimInv'
<1>1. /\ side \in {"A", "B"} /\ pos = Len(list) /\ side' = IF side = "A" THEN "B" ELSE "done"
      /\ pos' = 0 /\ trailing' = <<>> /\ UNCHANGED <<list, masked, method, book>>
  BY DEF SideDone
<1>2. BookOf' = BookOf
  BY <1>1 DEF BookOf, TradeOf, StrikesOf
<1>3. list \in Seq(CycleSet)
  BY DEF SimInv
<1>4. pos' \in 0 .. Len(list') /\ trailing' \in Seq(Int) /\ Len(trailing') <= pos'
  BY <1>1, <1>3
<1>5. ASSUME NEW i \in DOMAIN list, ~masked, Taken(list[i])
      PROVE  list[i] \in CyclesIn(book["A"])
    BY <1>1, <1>3, <1>5 DEF SimInv
<1>6. side' \in {"B", "done"}
  BY <1>1
<1> QED BY <1>1, <1>2, <1>4, <1>5, <1>6 DEF SimInv

(* A cycle either side trades is one the first gate would let by.          *)
LEMMA BothTake ==
  ASSUME NEW c, ~Malformed(c), Verdict(c) = "SELL"
  PROVE  Gate(Rebase(c.rv), IvSource(c).iv, K) = "SELL"
BY GateV2Sells DEF EventDay, Verdict

LEMMA RunCycleKeeps == ASSUME SimInv, RunCycle  PROVE SimInv'
<1> DEFINE c == Input[pos + 1]
           iv == IvSource(c).iv
           sold == ~Malformed(c) /\ Verdict(c) = "SELL" /\ ImpliedMove(c.spot, iv, c.dte) > 0
           spread == VrpSpread(Rebase(c.rv), iv)
           t == TradeOf(c)
<1>1. /\ side \in {"A", "B"} /\ pos < Len(list) /\ pos' = pos + 1
      /\ trailing' = IF Malformed(c) THEN trailing ELSE Append(trailing, spread)
      /\ book' = IF sold THEN [book EXCEPT ![side] = Append(@, t)] ELSE book
      /\ UNCHANGED <<list, masked, method, side>>
  BY DEF RunCycle
<1>2. /\ list \in Seq(CycleSet) /\ Len(list) \in Nat /\ pos \in Nat
      /\ trailing \in Seq(Int) /\ Len(trailing) <= pos /\ Len(trailing) \in Nat
      /\ book \in [{"A", "B"} -> Seq(BookOf)]
  BY DEF SimInv
<1>3. pos + 1 \in DOMAIN list /\ pos' \in 0 .. Len(list) /\ pos + 1 \in Nat
  BY <1>1, <1>2
<1>4. /\ c \in CycleRecord /\ (side = "B" => c \in Range(list))
      /\ (side = "A" /\ ~masked => c = list[pos + 1])
  BY <1>3, InputIs
<1> HIDE DEF c
<1>5. trailing' \in Seq(Int) /\ Len(trailing') <= pos'
  <2>1. CASE Malformed(c)
    BY <1>1, <1>2, <2>1
  <2>2. CASE ~Malformed(c)
    <3>1. c.rv \in Nat /\ iv \in Nat
      BY <1>4, <2>2, CycleIs
    <3>2. Rebase(c.rv) \in Nat
      BY <3>1, RebaseLowers
    <3> HIDE DEF iv
    <3>3. spread \in Int
      BY <3>1, <3>2 DEF VrpSpread, None
    <3> HIDE DEF spread
    <3>4. /\ Append(trailing, spread) \in Seq(Int)
          /\ Len(Append(trailing, spread)) = Len(trailing) + 1
      BY <1>2, <3>3
    <3> QED BY <1>1, <1>2, <2>2, <3>4
  <2> QED BY <2>1, <2>2
<1>6. sold => Taken(c)
  BY BothTake DEF Taken
<1>7. BookOf' = BookOf
  BY <1>1 DEF BookOf, TradeOf, StrikesOf
<1>8. sold => t \in BookOf /\ t.cycle = c
  BY <1>4, <1>6, TradesSaid DEF BookOf
<1>9. side = "A" /\ Taken(c) => sold
  BY DEF Taken, Verdict
<1> HIDE DEF sold, t, spread
<1>10. book' \in [{"A", "B"} -> Seq(BookOf)]
  <2>1. CASE sold
      BY <1>1, <1>2, <1>8, <2>1
  <2>2. CASE ~sold
    BY <1>1, <1>2, <2>2
  <2> QED BY <2>1, <2>2
<1>11. ASSUME NEW s \in {"A", "B"}
       PROVE  CyclesIn(book'[s]) = CyclesIn(book[s]) \cup IF sold /\ s = side THEN {c} ELSE {}
  <2>1. CASE sold /\ s = side
    <3>1. book'[s] = Append(book[s], t) /\ book[s] \in Seq(BookOf) /\ t.cycle = c
      BY <1>1, <1>2, <1>8, <2>1
    <3> DEFINE b == book[s]
    <3>2. b \in Seq(BookOf) /\ book'[s] = Append(b, t)
      BY <3>1
    <3> HIDE DEF b
    <3>3. /\ DOMAIN Append(b, t) = DOMAIN b \cup {Len(b) + 1}
          /\ \A i \in DOMAIN b : Append(b, t)[i] = b[i]
          /\ Append(b, t)[Len(b) + 1] = t
      BY <3>2
    <3>4. CyclesIn(Append(b, t)) = CyclesIn(b) \cup {c}
      BY <3>1, <3>3 DEF CyclesIn
    <3> QED BY <2>1, <3>2, <3>4 DEF b
  <2>2. CASE ~(sold /\ s = side)
      BY <1>1, <1>2, <2>2
  <2> QED BY <2>1, <2>2
<1>12. ASSUME NEW i \in DOMAIN list, ~masked, Taken(list[i]),
              side = "B" \/ (side = "A" /\ i <= pos + 1)
       PROVE  list[i] \in CyclesIn(book'["A"])
  <2>1. CASE side = "B" \/ i <= pos
      BY <1>1, <1>11, <1>12, <2>1 DEF SimInv
  <2>2. CASE side = "A" /\ i = pos + 1
      BY <1>4, <1>9, <1>11, <1>12, <2>2
  <2>3. i \in Nat
    BY <1>2
  <2> QED BY <1>2, <1>12, <2>1, <2>2, <2>3
<1>13. ASSUME NEW d \in CyclesIn(book'["B"])  PROVE d \in Range(list) /\ Taken(d)
    BY <1>4, <1>6, <1>11 DEF SimInv
<1> QED BY <1>1, <1>3, <1>5, <1>7, <1>10, <1>12, <1>13 DEF SimInv

LEMMA SimNextKeeps == SimInv /\ SimNext => SimInv'
BY LoadKeeps, StartSimKeeps, RunCycleKeeps, SideDoneKeeps DEF SimNext

LEMMA SimTyped == ASSUME SimInv  PROVE SimTypeOK
<1>1. list \in Seq(CycleSet) /\ Len(list) \in Nat /\ Len(list) <= MaxCycles /\ MaxCycles \in Nat
  BY SimAssumption DEF SimInv
<1>2. list \in [1 .. Len(list) -> CycleSet] /\ Len(list) \in 0 .. MaxCycles
  BY <1>1
<1>3. list \in BoundedSeq(CycleSet, MaxCycles)
  BY <1>2 DEF BoundedSeq, SeqOf
<1> QED BY <1>3 DEF SimInv, SimTypeOK

LEMMA Tightens == ASSUME SimInv  PROVE SecondGateTightens
<1> SUFFICES ASSUME side = "done", ~masked, NEW c \in TradeSet("B")  PROVE c \in TradeSet("A")
  BY DEF SecondGateTightens
<1>1. c \in CyclesIn(book["B"])
  BY DEF TradeSet, CyclesIn
<1>2. c \in Range(list) /\ Taken(c)
  BY <1>1 DEF SimInv
<1>3. PICK i \in DOMAIN list : c = list[i]
  BY <1>2 DEF Range
<1>4. c \in CyclesIn(book["A"])
  BY <1>2, <1>3 DEF SimInv
<1> QED BY <1>4 DEF TradeSet, CyclesIn

LEMMA NeverLater == ASSUME SimInv  PROVE NoLaterSpread
<1> SUFFICES ASSUME side = "B", NEW i \in 1 .. pos, NEW j \in pos + 1 .. Len(list)
             PROVE  Input[i].entry <= Input[j].entry
  BY DEF NoLaterSpread
<1>1. list \in Seq(CycleSet) /\ CycleSet \in SUBSET CycleRecord /\ Len(list) \in Nat
      /\ pos \in 0 .. Len(list)
  BY SimAssumption DEF SimInv
<1>2. \A x \in CycleSet : x.entry \in Nat
  BY <1>1, CycleIs
<1>3. \A a, b \in 1 .. Len(list) :
        a <= b => Chronological(list)[a].entry <= Chronological(list)[b].entry
  BY <1>1, <1>2, SortedByEntry
<1>4. i \in 1 .. Len(list) /\ j \in 1 .. Len(list) /\ i <= j
  BY <1>1
<1> QED BY <1>3, <1>4 DEF Input

LEMMA LossesAsStated == ASSUME SimInv  PROVE LossAsStated /\ FirstRuleEnds
BY BooksSaid DEF LossAsStated, TradeSaid, FirstRuleEnds

LEMMA NearestIs == ASSUME SimInv  PROVE NearestDelta
<1> SUFFICES ASSUME NEW s \in {"A", "B"}, NEW i \in DOMAIN book[s],
                    LET d == book[s][i].cycle.deltas
                    IN  \A x, y \in DOMAIN d : x <= y => d[x] >= d[y],
                    NEW x \in DOMAIN book[s][i].cycle.deltas
             PROVE  LET d == book[s][i].cycle.deltas
                        Err(y) == IF y > TargetDelta THEN y - TargetDelta ELSE TargetDelta - y
                    IN  Err(d[SelectByDelta(d, TargetDelta)]) <= Err(d[x])
  BY DEF NearestDelta
<1> DEFINE d == book[s][i].cycle.deltas
<1>1. book[s][i].cycle \in CycleRecord
  BY BooksSaid DEF TradeSaid
<1>2. d \in Seq(Nat) /\ d # <<>> /\ TargetDelta \in Nat
  BY <1>1, CycleIs, SimAssumption
<1>3. \A a, b \in DOMAIN d : a <= b => d[a] >= d[b]
  OBVIOUS
<1>4. x \in DOMAIN d
  OBVIOUS
<1> HIDE DEF d
<1>5. Distance(d[SelectByDelta(d, TargetDelta)], TargetDelta) <= Distance(d[x], TargetDelta)
  BY <1>2, <1>3, <1>4, DeltaChosen
<1> QED BY <1>5 DEF Distance, d

(* What the percentile gate counts: the observations that differ from v,   *)
(* and those of them below it.                                             *)
Others(window, v) == {i \in DOMAIN window : window[i] # v /\ window[i] # None}
Under(window, v) == {i \in Others(window, v) : window[i] < v}

LEMMA RichMeans ==
  ASSUME NEW n \in Nat, NEW window \in [1 .. n -> Int], NEW v \in Int, v # None
  PROVE  /\ IsFiniteSet(Others(window, v)) /\ IsFiniteSet(Under(window, v))
         /\ Usable(Unlike(window, v)) = Others(window, v)
         /\ RichPremium(v, Unlike(window, v), Config) <=>
              \/ Cardinality(Others(window, v)) < MinObs
              \/ Cardinality(Under(window, v)) * Rich[2]
                   >= Rich[1] * Cardinality(Others(window, v))
<1> DEFINE w == Unlike(window, v)
           W == Others(window, v)
           B == Under(window, v)
<1>1. W \in SUBSET (1 .. n) /\ B \in SUBSET (1 .. n)
  BY DEF Others, Under
<1>2. IsFiniteSet(W) /\ IsFiniteSet(B)
  BY <1>1, PlacesFinite
<1>3. DOMAIN w = {i \in 1 .. n : window[i] # v} /\ \A i \in DOMAIN w : w[i] = window[i]
  BY DEF Unlike, Restrict
<1>4. Usable(w) = W
  BY <1>3 DEF Usable, Others
<1>5. {i \in W : w[i] < v} = B
  BY <1>3 DEF Others, Under
<1>6. Cardinality(W) \in Nat /\ Cardinality(B) \in Nat
  BY <1>2, FS_CardinalityType
<1>7. W = {} => Cardinality(W) = 0 /\ Cardinality(B) = 0
  BY FS_EmptySet DEF Under
<1>8. W # {} => Cardinality(W) # 0
  BY <1>2, FS_EmptySet
<1>9. Rich[1] \in Nat /\ Rich[2] \in Nat
  BY GateAssumption
<1> DEFINE pct == PercentileRank(v, w)
<1>10. pct = IF W = {} THEN NoRank ELSE <<Cardinality(B), Cardinality(W)>>
  BY <1>4, <1>5 DEF PercentileRank
<1>11. RichPremium(v, w, Config) <=>
         Cardinality(W) < MinObs \/ pct = NoRank \/ pct[1] * Rich[2] >= Rich[1] * pct[2]
  BY <1>4 DEF RichPremium, Config
<1> HIDE DEF w, W, B, pct
<1>12. CASE W = {}
  <2>1. Cardinality(B) * Rich[2] >= Rich[1] * Cardinality(W)
    BY <1>7, <1>9, <1>12
  <2> QED BY <1>2, <1>4, <1>10, <1>11, <1>12, <2>1 DEF w, W, B
<1>13. CASE W # {}
  <2>1. pct[1] = Cardinality(B) /\ pct[2] = Cardinality(W) /\ pct # NoRank
    BY <1>8, <1>10, <1>13 DEF NoRank
  <2> QED BY <1>2, <1>4, <1>11, <2>1 DEF w, W, B
<1> QED BY <1>12, <1>13

(* A point more of premium: those that equalled it count as below. *)
LEMMA RicherStays ==
  ASSUME NEW n \in Nat, NEW window \in [1 .. n -> Int], NEW v \in Nat,
         RichPremium(v, Unlike(window, v), Config),
         Cardinality(Usable(Unlike(window, v))) >= MinObs
  PROVE  RichPremium(v + 1, Unlike(window, v + 1), Config)
<1> DEFINE W == Others(window, v)
           B == Under(window, v)
           E == {i \in 1 .. n : window[i] = v}
           W1 == Others(window, v + 1)
           B1 == Under(window, v + 1)
<1>1. v \in Int /\ v # None /\ v + 1 \in Int /\ v + 1 # None
  BY DEF None
<1>2. /\ IsFiniteSet(W) /\ IsFiniteSet(B) /\ IsFiniteSet(W1) /\ IsFiniteSet(B1)
      /\ Usable(Unlike(window, v)) = W
      /\ RichPremium(v, Unlike(window, v), Config) <=>
           Cardinality(W) < MinObs \/ Cardinality(B) * Rich[2] >= Rich[1] * Cardinality(W)
      /\ RichPremium(v + 1, Unlike(window, v + 1), Config) <=>
           Cardinality(W1) < MinObs \/ Cardinality(B1) * Rich[2] >= Rich[1] * Cardinality(W1)
  BY <1>1, RichMeans
<1>3. IsFiniteSet(E)
    BY PlacesFinite
<1>4. W1 \subseteq W \cup E /\ B1 = B \cup E /\ B \cap E = {} /\ W \cap E = {}
  <2>1. ASSUME NEW i \in 1 .. n
        PROVE  /\ i \in W <=> window[i] # v /\ window[i] # None
               /\ i \in W1 <=> window[i] # v + 1 /\ window[i] # None
               /\ i \in B <=> i \in W /\ window[i] < v
               /\ i \in B1 <=> i \in W1 /\ window[i] < v + 1
               /\ i \in E <=> window[i] = v
    BY DEF Others, Under
  <2>2. /\ W \subseteq 1 .. n /\ W1 \subseteq 1 .. n /\ B \subseteq 1 .. n
        /\ B1 \subseteq 1 .. n /\ E \subseteq 1 .. n
    BY DEF Others, Under
  <2>3. \A i \in 1 .. n : window[i] \in Int
    OBVIOUS
  <2> HIDE DEF W, W1, B, B1, E
  <2>4. ASSUME NEW i \in 1 .. n
        PROVE  /\ i \in W1 => i \in W \cup E
               /\ i \in B1 <=> i \in B \cup E
               /\ ~(i \in B /\ i \in E) /\ ~(i \in W /\ i \in E)
    BY <1>1, <2>1, <2>3
  <2> QED BY <2>2, <2>4
<1> HIDE DEF W, B, E, W1, B1
<1>5. /\ Cardinality(W) \in Nat /\ Cardinality(B) \in Nat /\ Cardinality(E) \in Nat
      /\ Cardinality(W1) \in Nat /\ Cardinality(B1) \in Nat
  BY <1>2, <1>3, FS_CardinalityType
<1>6. Cardinality(B1) = Cardinality(B) + Cardinality(E)
  <2>1. Cardinality(B \cup E) = Cardinality(B) + Cardinality(E) - Cardinality(B \cap E)
    BY <1>2, <1>3, FS_Union
  <2>2. Cardinality(B \cap E) = 0
    BY <1>4, FS_EmptySet
  <2> QED BY <1>4, <1>5, <2>1, <2>2
<1>7. Cardinality(W1) <= Cardinality(W) + Cardinality(E)
  <2>1. Cardinality(W \cup E) = Cardinality(W) + Cardinality(E) - Cardinality(W \cap E)
    BY <1>2, <1>3, FS_Union
  <2>2. Cardinality(W \cap E) = 0
    BY <1>4, FS_EmptySet
  <2>3. IsFiniteSet(W \cup E)
    BY <1>2, <1>3, FS_Union
  <2>4. Cardinality(W1) <= Cardinality(W \cup E)
    BY <1>4, <2>3, FS_Subset
  <2> QED BY <1>5, <2>1, <2>2, <2>4
<1>8. ASSUME NEW b \in Nat, NEW w \in Nat, NEW e \in Nat, NEW x \in Nat, NEW r \in Nat,
             NEW q \in Nat, b * q >= r * w, r <= q, x <= w + e
      PROVE  (b + e) * q >= r * x
  <2>1. (b + e) * q = b * q + e * q
    OBVIOUS
  <2>2. r * (w + e) = r * w + r * e
    OBVIOUS
  <2>3. e * q >= r * e
    <3>1. PICK y \in Nat : q = r + y
        BY <1>8
    <3>2. e * q = r * e + e * y /\ e * y >= 0
      BY <3>1
    <3> QED BY <3>2
  <2>4. r * (w + e) >= r * x
    <3>1. PICK y \in Nat : w + e = x + y
        BY <1>8
    <3>2. r * (w + e) = r * x + r * y /\ r * y >= 0
      BY <3>1
    <3> QED BY <3>2
  <2> QED BY <1>8, <2>1, <2>2, <2>3, <2>4
<1>9. Rich[1] \in Nat /\ Rich[2] \in Nat /\ Rich[1] <= Rich[2] /\ MinObs \in Nat
  BY GateAssumption
<1>10. Cardinality(B) * Rich[2] >= Rich[1] * Cardinality(W)
  BY <1>2, <1>5, <1>9
<1>11. Cardinality(B1) * Rich[2] >= Rich[1] * Cardinality(W1)
  BY <1>5, <1>6, <1>7, <1>8, <1>9, <1>10
<1> QED BY <1>2, <1>11

LEMMA RicherSells == ASSUME SimInv  PROVE RicherStillSells
<1> SUFFICES ASSUME NEW rv \in {0, 9, 14}, NEW iv \in 10 .. 20,
                    GateV2(rv, iv, trailing, iv, None, FALSE, Config).decision = "SELL",
                    Cardinality(Usable(Unlike(trailing, VrpSpread(rv, iv)))) >= Config.minObs
             PROVE  GateV2(rv, iv + 1, trailing, iv + 1, None, FALSE, Config).decision = "SELL"
  BY DEF RicherStillSells
<1>1. /\ Gate(rv, iv, K) = "SELL" /\ GateV2(rv, iv, trailing, iv, None, FALSE, Config).rich
  BY GateV2Sells
<1>2. /\ rv \in Nat /\ iv \in Nat /\ iv > 0 /\ rv # None /\ iv # None /\ iv + 1 # None
      /\ K[1] \in Nat /\ K[2] \in Nat
  BY GateAssumption DEF None
<1>3. rv <= iv /\ rv * K[2] < K[1] * iv
  BY <1>1, <1>2 DEF Gate
<1>4. Gate(rv, iv + 1, K) = "SELL"
    BY <1>2, <1>3 DEF Gate
<1> DEFINE v == iv - rv
<1>5. VrpSpread(rv, iv) = v /\ VrpSpread(rv, iv + 1) = v + 1 /\ v \in Nat
  BY <1>2, <1>3 DEF VrpSpread
<1>6. v # None /\ v + 1 # None
  BY <1>5 DEF None
<1> HIDE DEF v
<1>7. /\ GateV2(rv, iv, trailing, iv, None, FALSE, Config).rich
           = RichPremium(v, Unlike(trailing, v), Config)
      /\ GateV2(rv, iv + 1, trailing, iv + 1, None, FALSE, Config).rich
           = RichPremium(v + 1, Unlike(trailing, v + 1), Config)
  BY <1>5, <1>6 DEF GateV2
<1>8. Len(trailing) \in Nat /\ trailing \in [1 .. Len(trailing) -> Int]
  BY DEF SimInv
<1>9. Cardinality(Usable(Unlike(trailing, v))) >= MinObs
  BY <1>5 DEF Config
<1>10. RichPremium(v + 1, Unlike(trailing, v + 1), Config)
  BY <1>1, <1>5, <1>7, <1>8, <1>9, RicherStays
<1>11. ~Backwardation(iv + 1, None)
  BY DEF Backwardation
<1>12. FALSE \in BOOLEAN
  OBVIOUS
<1>13. GateV2(rv, iv + 1, trailing, iv + 1, None, FALSE, Config).decision = "SELL"
         <=> /\ Gate(rv, iv + 1, K) = "SELL" /\ ~Backwardation(iv + 1, None) /\ ~FALSE
             /\ GateV2(rv, iv + 1, trailing, iv + 1, None, FALSE, Config).rich
  BY <1>12, GateV2Sells
<1> QED BY <1>4, <1>7, <1>10, <1>11, <1>13

-----------------------------------------------------------------------------
(* Prefixes, spreads and the drawdown of a sequence of integers. *)

(* What holds at 0 and of k whenever of k - 1 holds up to n. *)
LEMMA UpTo ==
  ASSUME NEW n \in Nat, NEW P, 0 \in P, \A k \in 1 .. n : k - 1 \in P => k \in P
  PROVE  \A k \in 0 .. n : k \in P
<1> DEFINE Bad == {k \in 0 .. n : k \notin P}
<1> SUFFICES ASSUME Bad # {}  PROVE FALSE
  OBVIOUS
<1>1. IsFiniteSet(Bad) /\ \A x \in Bad : x \in Int
    BY Within
<1>2. Min(Bad) \in Bad /\ \A x \in Bad : Min(Bad) <= x
  <2> HIDE DEF Bad
  <2> QED BY <1>1, LeastOf
<1>3. PICK k \in Bad : \A x \in Bad : k <= x
  BY <1>2
<1>4. k \in 0 .. n /\ k \notin P /\ k # 0
  BY <1>3
<1>5. k \in 1 .. n /\ k - 1 \in 0 .. n /\ ~(k <= k - 1)
  BY <1>4
<1>6. k - 1 \in P
  BY <1>3, <1>5
<1> QED BY <1>4, <1>5, <1>6

Prefix(p, k) == Sum(p, 1 .. k)

LEMMA PrefixIs ==
  ASSUME NEW p \in Seq(Int)
  PROVE  /\ Prefix(p, 0) = 0 /\ Prefix(p, Len(p)) = Total(p)
         /\ \A k \in 0 .. Len(p) : Prefix(p, k) \in Int /\ Total(SubSeq(p, 1, k)) = Prefix(p, k)
         /\ \A k \in 1 .. Len(p) : Prefix(p, k) = Prefix(p, k - 1) + p[k]
<1>1. Len(p) \in Nat /\ DOMAIN p = 1 .. Len(p) /\ \A k \in 1 .. Len(p) : p[k] \in Int
  OBVIOUS
<1>2. Prefix(p, 0) = 0
    BY SumEmpty DEF Prefix
<1>3. ASSUME NEW k \in 0 .. Len(p)
      PROVE  /\ Prefix(p, k) \in Int /\ Total(SubSeq(p, 1, k)) = Prefix(p, k)
             /\ IsFiniteSet(1 .. k) /\ \A i \in 1 .. k : p[i] \in Int
  <2>1. k \in Nat
    BY <1>1
  <2>2. IsFiniteSet(1 .. k)
    BY <2>1, CountTo
  <2>3. \A i \in 1 .. k : p[i] \in Int
    BY <1>1, <2>1
  <2>4. Prefix(p, k) \in Int
    BY <2>2, <2>3, SumInt DEF Prefix
  <2> DEFINE q == SubSeq(p, 1, k)
  <2>5. DOMAIN q = 1 .. k /\ \A i \in 1 .. k : q[i] = p[i]
    BY <1>1, <2>1
  <2> HIDE DEF q
  <2>6. Sum(q, 1 .. k) = Sum(p, 1 .. k)
    BY <2>2, <2>5, SumSame
  <2>7. Total(q) = Prefix(p, k)
    BY <2>5, <2>6, TotalIsSum DEF Prefix
  <2> QED BY <2>2, <2>3, <2>4, <2>7 DEF q
<1>4. ASSUME NEW k \in 1 .. Len(p)  PROVE Prefix(p, k) = Prefix(p, k - 1) + p[k]
  <2>1. k \in 0 .. Len(p) /\ k \in 1 .. k /\ (1 .. k) \ {k} = 1 .. (k - 1)
    BY <1>1
  <2>2. Sum(p, 1 .. k) = p[k] + Sum(p, (1 .. k) \ {k})
    BY <1>3, <2>1, SumRemove
  <2>3. k - 1 \in 0 .. Len(p)
    BY <1>1
  <2>4. Prefix(p, k - 1) \in Int /\ p[k] \in Int
    BY <1>1, <1>3, <2>3
  <2>5. Sum(p, 1 .. k) = p[k] + Sum(p, 1 .. (k - 1))
    BY <2>1, <2>2
  <2>6. \A x, y \in Int : x + y = y + x
    OBVIOUS
  <2> QED BY <2>4, <2>5, <2>6 DEF Prefix
<1>5. Prefix(p, Len(p)) = Total(p)
  BY <1>1, TotalIsSum DEF Prefix
<1> QED BY <1>2, <1>3, <1>4, <1>5

(* Sums of deviations from the mean, scaled by the length. *)
LEMMA CrossSpread ==
  ASSUME NEW p \in Seq(Int), NEW q \in Seq(Int), Len(q) = Len(p), NEW d,
         \A i \in DOMAIN p :
           d[i] = (Len(p) * p[i] - Total(p)) * (Len(p) * q[i] - Total(q))
  PROVE  /\ Total([i \in DOMAIN p |-> p[i] * q[i]]) \in Int /\ Total(p) \in Int /\ Total(q) \in Int
         /\ Sum(d, DOMAIN p)
              = Len(p) * (Len(p) * Total([i \in DOMAIN p |-> p[i] * q[i]]) - Total(p) * Total(q))
<1> DEFINE n == Len(p)
           D == DOMAIN p
           P == Total(p)
           Q == Total(q)
           m == [i \in D |-> p[i] * q[i]]
           M == Total(m)
           e == [i \in D |-> (n * n) * m[i] + (0 - n * Q) * p[i]]
<1>1. n \in Nat /\ D = 1 .. n /\ DOMAIN q = D /\ \A i \in D : p[i] \in Int /\ q[i] \in Int
  OBVIOUS
<1>2. IsFiniteSet(D) /\ Cardinality(D) = n
  BY PlacesOf
<1>3. \A i \in D : m[i] = p[i] * q[i] /\ m[i] \in Int
  BY <1>1
<1>4. P = Sum(p, D) /\ Q = Sum(q, D) /\ M = Sum(m, D)
  BY <1>1, TotalIsSum
<1>5. \A i \in D : d[i] = (n * p[i] - P) * (n * q[i] - Q)
  OBVIOUS
<1> HIDE DEF n, D, P, Q, M, m
<1>6. P \in Int /\ Q \in Int /\ M \in Int
  BY <1>1, <1>2, <1>3, <1>4, SumInt
<1>7. PICK a \in Int, b \in Int, c \in Int, k \in Int :
        a = n * n /\ b = 0 - n * Q /\ c = 0 - n * P /\ k = P * Q
    BY <1>1, <1>6
<1>8. \A i \in D : e[i] = a * m[i] + b * p[i] + 0 /\ e[i] \in Int
  BY <1>1, <1>3, <1>7
<1>9. \A u, v, w \in Int : w = u * v =>
        (n * u - P) * (n * v - Q) = 1 * ((n * n) * w + (0 - n * Q) * u + 0) + (0 - n * P) * v + P * Q
  BY <1>1, <1>6
<1>10. \A i \in D : d[i] = 1 * e[i] + c * q[i] + k
  <2> SUFFICES ASSUME NEW i \in D  PROVE d[i] = 1 * e[i] + c * q[i] + k
    OBVIOUS
  <2>1. PICK u \in Int, v \in Int, w \in Int : u = p[i] /\ v = q[i] /\ w = m[i] /\ w = u * v
    BY <1>1, <1>3
  <2>2. e[i] = a * w + b * u + 0 /\ d[i] = (n * u - P) * (n * v - Q)
    BY <1>5, <1>8, <2>1
  <2> HIDE DEF e
  <2>3. (n * u - P) * (n * v - Q) = 1 * ((n * n) * w + (0 - n * Q) * u + 0) + (0 - n * P) * v + P * Q
    BY <1>9, <2>1
  <2> QED BY <1>7, <2>1, <2>2, <2>3
<1> HIDE DEF e
<1>11. Combines(e, a, m, b, p, 0, D) /\ Combines(d, 1, e, c, q, k, D)
  BY <1>1, <1>3, <1>8, <1>10 DEF Combines
<1>12. Sum(e, D) = a * M + b * P + 0 * n
  BY <1>2, <1>4, <1>11, SumLinear
<1>13. Sum(d, D) = 1 * Sum(e, D) + c * Q + k * n
  BY <1>2, <1>4, <1>11, SumLinear
<1>14. Sum(d, D) = n * (n * M - P * Q)
    BY <1>1, <1>6, <1>7, <1>12, <1>13
<1> QED BY <1>6, <1>14 DEF n, D, P, Q, M, m

(* The spread of a sequence is never below zero, and it is zero when the   *)
(* terms are all the same only.                                            *)
LEMMA SpreadTells ==
  ASSUME NEW p \in Seq(Int)
  PROVE  /\ Total(p) \in Int /\ Spread2(p) \in Int /\ Spread2(p) >= 0
         /\ Spread2(p) > 0 <=> \E i, j \in DOMAIN p : p[i] # p[j]
<1> DEFINE n == Len(p)
           D == DOMAIN p
           T == Total(p)
           Z == Spread2(p)
           dev == [i \in D |-> (n * p[i] - T) * (n * p[i] - T)]
<1>1. n \in Nat /\ D = 1 .. n /\ IsFiniteSet(D) /\ \A i \in D : p[i] \in Int
    BY PlacesOf
<1>2. T \in Int /\ Z \in Int /\ Sum(dev, D) = n * Z
  <2> DEFINE Q == Total([i \in D |-> p[i] * p[i]])
  <2>1. \A i \in D : dev[i] = (n * p[i] - T) * (n * p[i] - T)
    OBVIOUS
  <2>2. Z = n * Q - T * T
    BY DEF Spread2
  <2> HIDE DEF dev, Z
  <2>3. Q \in Int /\ T \in Int /\ Sum(dev, D) = n * (n * Q - T * T)
    BY <2>1, CrossSpread
  <2> HIDE DEF Q, T
  <2> QED BY <1>1, <2>2, <2>3
<1>3. T = Sum(p, D)
  BY TotalIsSum
<1> HIDE DEF n, D, T, Z
<1>4. \A i \in D : n * p[i] - T \in Int /\ dev[i] \in Nat /\ (dev[i] > 0 <=> n * p[i] # T)
  <2>1. \A x, t \in Int : /\ x - t \in Int /\ (x - t) * (x - t) \in Nat
                          /\ (x - t) * (x - t) > 0 <=> x # t
      OBVIOUS
  <2>2. \A i \in D : n * p[i] \in Int
    BY <1>1
  <2> QED BY <1>2, <2>1, <2>2
<1> HIDE DEF dev
<1>5. Sum(dev, D) \in Nat
  BY <1>1, <1>4, SumNat
<1>6. CASE n = 0
  <2>1. D = {} /\ 1 \notin D
    BY <1>1, <1>6
  <2>2. T = 0 /\ Z = n * Total([i \in D |-> p[i] * p[i]]) - T * T
    BY <1>3, <2>1, SumEmpty DEF Spread2, Z, n, D, T
  <2>3. Total([i \in D |-> p[i] * p[i]]) = 0
    BY <2>1, TotalIsSum, SumEmpty
  <2>4. Z = 0
    BY <1>6, <2>2, <2>3
  <2> QED BY <1>2, <2>1, <2>4 DEF T, D, Z
<1>7. CASE n # 0
  <2>1. \A m, x \in Int : m > 0 => (m * x >= 0 => x >= 0) /\ (m * x > 0 <=> x > 0)
    OBVIOUS
  <2>2. Z >= 0 /\ (Z > 0 <=> Sum(dev, D) > 0)
      BY <1>1, <1>2, <1>5, <1>7, <2>1
  <2>3. ASSUME NEW i \in D, NEW j \in D, p[i] # p[j]  PROVE Sum(dev, D) > 0
    <3>1. \A x, y \in Int : n * x = n * y => x = y
      BY <1>1, <1>7
    <3>2. PICK k \in D : n * p[k] # T
      BY <1>1, <2>3, <3>1
    <3>3. dev[k] <= Sum(dev, D)
      BY <1>1, <1>4, TermWithin
    <3> QED BY <1>4, <1>5, <3>2, <3>3
  <2>4. ASSUME \A i, j \in D : p[i] = p[j]  PROVE Sum(dev, D) = 0
    <3>1. 1 \in D
      BY <1>1, <1>7
    <3>2. PICK c \in Int : \A i \in D : p[i] = c
        BY <1>1, <2>4, <3>1
    <3>3. \A i \in D : p[i] = 0 * p[i] + 0 * p[i] + c
      BY <3>2
    <3>4. Combines(p, 0, p, 0, p, c, D)
      BY <1>1, <3>2, <3>3 DEF Combines
    <3>5. Sum(p, D) = 0 * Sum(p, D) + 0 * Sum(p, D) + c * Cardinality(D) /\ Cardinality(D) = n
      BY <1>1, <3>4, SumLinear, CountTo
    <3>6. T = n * c
      BY <1>1, <1>2, <1>3, <3>2, <3>5
    <3>7. \A i \in D : dev[i] \in Int /\ dev[i] <= 0
      BY <1>4, <3>2, <3>6
    <3>8. 0 \in Int
      OBVIOUS
    <3>9. Sum(dev, D) <= 0 * Cardinality(D) /\ Cardinality(D) \in Nat
      BY <1>1, <3>7, <3>8, SumBelow, FS_CardinalityType
    <3> QED BY <1>5, <3>9
  <2> QED BY <1>2, <2>2, <2>3, <2>4 DEF T, D, Z
<1> QED BY <1>6, <1>7

(* The falls of an account that runs through the prefixes of p. *)
Falls(p, n) ==
  {Prefix(p, ij[2]) - Prefix(p, ij[1]) : ij \in {xy \in (0 .. n) \X (0 .. n) : xy[1] <= xy[2]}}

LEMMA FallIs ==
  ASSUME NEW a, a \in [cum : Int, peak : Int, worst : Int], NEW x \in Int
  PROVE  LET b == Fall(a, x)
         IN  /\ b \in [cum : Int, peak : Int, worst : Int] /\ b.cum = a.cum + x
             /\ b.peak \in {a.peak, b.cum} /\ b.peak >= a.peak /\ b.peak >= b.cum
             /\ b.worst \in {a.worst, b.cum - b.peak} /\ b.worst <= a.worst
             /\ b.worst <= b.cum - b.peak
<1>1. PICK c, k, w : c = a.cum /\ k = a.peak /\ w = a.worst
  OBVIOUS
<1>2. c \in Int /\ k \in Int /\ w \in Int
  BY <1>1
<1> DEFINE cum == c + x
           peak == IF cum > k THEN cum ELSE k
           worst == IF cum - peak < w THEN cum - peak ELSE w
<1>3. Fall(a, x) = [cum |-> cum, peak |-> peak, worst |-> worst]
  BY <1>1 DEF Fall
<1>4. /\ cum \in Int /\ peak \in Int /\ worst \in Int /\ peak \in {k, cum} /\ peak >= k
      /\ peak >= cum /\ worst \in {w, cum - peak} /\ worst <= w /\ worst <= cum - peak
  BY <1>2
<1> HIDE DEF cum, peak, worst
<1>5. PICK b : b = Fall(a, x)
  OBVIOUS
<1>6. /\ b \in [cum : Int, peak : Int, worst : Int]
      /\ b.cum = cum /\ b.peak = peak /\ b.worst = worst
  BY <1>3, <1>4, <1>5
<1>7. cum = a.cum + x
  BY <1>1 DEF cum
<1> QED BY <1>1, <1>4, <1>5, <1>6, <1>7

(* The walk of run_backtest() ends with the deepest of them. *)
LEMMA DrawdownIs ==
  ASSUME NEW p \in Seq(Int)
  PROVE  Drawdown(p) \in Falls(p, Len(p)) /\ \A y \in Falls(p, Len(p)) : Drawdown(p) <= y
<1> DEFINE n == Len(p)
           g == TallyFn("fall", p, DOMAIN p)
           t(k) == g[1 .. k]
           S(k) == Prefix(p, k)
           Covers(k) ==
             /\ t(k) \in [cum : Int, peak : Int, worst : Int] /\ t(k).cum = S(k)
             /\ \E i \in 0 .. k : t(k).peak = S(i)
             /\ \A i \in 0 .. k : t(k).peak >= S(i)
             /\ t(k).worst \in Falls(p, k) /\ \A y \in Falls(p, k) : t(k).worst <= y
<1>1. n \in Nat /\ DOMAIN p = 1 .. n /\ \A k \in 1 .. n : p[k] \in Int
  OBVIOUS
<1>2. IsFiniteSet(DOMAIN p) /\ \A x \in DOMAIN p : x \in Int
  BY <1>1, PlacesOf
<1>3. IsTally("fall", g, p, DOMAIN p) /\ Drawdown(p) = g[DOMAIN p].worst
  <2>1. IsTally("fall", g, p, DOMAIN p)
    BY <1>2, TallyExists DEF TallyFn
  <2>2. Drawdown(p) = g[DOMAIN p].worst
    BY DEF Drawdown, FoldLeft, MapThenFoldSet, TallyFn, IsTally, Tally, Start, Fall
  <2> QED BY <2>1, <2>2
<1>4. /\ S(0) = 0 /\ \A k \in 0 .. n : S(k) \in Int
      /\ \A k \in 1 .. n : S(k) = S(k - 1) + p[k]
  BY PrefixIs
<1> HIDE DEF g, n, S
<1>5. t(0) = [cum |-> 0, peak |-> 0, worst |-> 0]
    BY <1>3 DEF IsTally, Start
<1>6. ASSUME NEW k \in 1 .. n  PROVE t(k) = Fall(t(k - 1), p[k])
  <2>1. k \in Nat /\ k >= 1 /\ 1 .. k # {} /\ 1 .. k \in SUBSET DOMAIN p
    BY <1>1
  <2>2. Max(1 .. k) = k
    BY <2>1 DEF Max
  <2>3. (1 .. k) \ {k} = 1 .. (k - 1)
    BY <2>1
  <2>4. t(k) = Tally("fall", g[(1 .. k) \ {Max(1 .. k)}], p[Max(1 .. k)])
    BY <1>3, <2>1 DEF IsTally
  <2> QED BY <2>2, <2>3, <2>4 DEF Tally
<1> HIDE DEF t
<1>7. ASSUME NEW k \in 0 .. n, NEW y
      PROVE  y \in Falls(p, k) <=> \E i, j \in 0 .. k : i <= j /\ y = S(j) - S(i)
  <2>1. ASSUME y \in Falls(p, k)  PROVE \E i, j \in 0 .. k : i <= j /\ y = S(j) - S(i)
    <3>1. PICK ij \in (0 .. k) \X (0 .. k) :
            ij[1] <= ij[2] /\ y = Prefix(p, ij[2]) - Prefix(p, ij[1])
      BY <2>1 DEF Falls
    <3>2. ij[1] \in 0 .. k /\ ij[2] \in 0 .. k
      OBVIOUS
    <3> QED BY <3>1, <3>2 DEF S
  <2>2. ASSUME NEW i \in 0 .. k, NEW j \in 0 .. k, i <= j, y = S(j) - S(i)
        PROVE  y \in Falls(p, k)
    <3>1. PICK ij \in (0 .. k) \X (0 .. k) : ij = <<i, j>>
      OBVIOUS
    <3>2. ij[1] = i /\ ij[2] = j
      BY <3>1
    <3>3. ij \in {xy \in (0 .. k) \X (0 .. k) : xy[1] <= xy[2]}
      BY <2>2, <3>1, <3>2
    <3>4. y = Prefix(p, ij[2]) - Prefix(p, ij[1])
      BY <2>2, <3>2 DEF S
    <3> QED BY <3>3, <3>4 DEF Falls
  <2> QED BY <2>1, <2>2
<1>8. Covers(0)
  <2>1. 0 \in 0 .. n /\ \A i \in 0 .. 0 : i = 0
    BY <1>1
  <2>2. \A y \in Falls(p, 0) : y = 0
    BY <1>4, <1>7, <2>1
  <2>3. 0 \in Falls(p, 0)
      BY <1>4, <1>7, <2>1
  <2> QED BY <1>4, <1>5, <2>1, <2>2, <2>3
<1>9. ASSUME NEW k \in 1 .. n, Covers(k - 1)  PROVE Covers(k)
  <2> DEFINE a == t(k - 1)
             b == t(k)
  <2>1. /\ k \in Nat /\ k - 1 \in Nat /\ k - 1 \in 0 .. n /\ k \in 0 .. n /\ p[k] \in Int
        /\ 0 .. k = (0 .. (k - 1)) \cup {k}
    BY <1>1
  <2>2. b = Fall(a, p[k])
    BY <1>6
  <2>3. /\ a \in [cum : Int, peak : Int, worst : Int] /\ a.cum = S(k - 1)
        /\ \A i \in 0 .. k - 1 : a.peak >= S(i)
        /\ a.worst \in Falls(p, k - 1) /\ \A y \in Falls(p, k - 1) : a.worst <= y
    BY <1>9
  <2>4. PICK top \in 0 .. k - 1 : a.peak = S(top)
    BY <1>9
  <2> HIDE DEF a, b, Covers
  <2>5. /\ b \in [cum : Int, peak : Int, worst : Int] /\ b.cum = a.cum + p[k]
        /\ b.peak \in {a.peak, b.cum} /\ b.peak >= a.peak /\ b.peak >= b.cum
        /\ b.worst \in {a.worst, b.cum - b.peak} /\ b.worst <= a.worst
        /\ b.worst <= b.cum - b.peak
    BY <2>1, <2>2, <2>3, FallIs
  <2>6. b.cum = S(k)
    BY <1>4, <2>3, <2>5
  <2>7. a.peak \in Int /\ b.peak \in Int /\ a.worst \in Int /\ b.worst \in Int
    BY <2>3, <2>5
  <2>8. \E i \in 0 .. k : b.peak = S(i)
    BY <2>1, <2>4, <2>5, <2>6
  <2>9. ASSUME NEW i \in 0 .. k  PROVE b.peak >= S(i)
    <3>1. CASE i = k
      BY <2>5, <2>6, <3>1
    <3>2. CASE i # k
      <4>1. i \in 0 .. k - 1 /\ i \in 0 .. n
        BY <1>1, <2>1, <3>2
      <4>2. a.peak >= S(i) /\ S(i) \in Int
        BY <1>4, <2>3, <4>1
      <4> QED BY <2>5, <2>7, <4>2
    <3> QED BY <3>1, <3>2
  <2>10. b.worst \in Falls(p, k)
    <3>1. CASE b.worst = a.worst
      <4>1. PICK i, j \in 0 .. k - 1 : i <= j /\ a.worst = S(j) - S(i)
        BY <1>7, <2>1, <2>3
      <4>2. i \in 0 .. k /\ j \in 0 .. k
        BY <2>1, <4>1
      <4> QED BY <1>7, <2>1, <3>1, <4>1, <4>2
    <3>2. CASE b.worst = b.cum - b.peak
      <4>1. PICK i \in 0 .. k : b.peak = S(i)
        BY <2>8
      <4>2. k \in 0 .. k /\ i <= k
        BY <2>1, <4>1
      <4> QED BY <1>7, <2>1, <2>6, <3>2, <4>1, <4>2
    <3> QED BY <2>5, <3>1, <3>2
  <2>11. ASSUME NEW y \in Falls(p, k)  PROVE b.worst <= y
    <3>1. PICK i, j \in 0 .. k : i <= j /\ y = S(j) - S(i)
      BY <1>7, <2>1
    <3>2. i \in 0 .. n /\ j \in 0 .. n /\ S(i) \in Int /\ S(j) \in Int
      BY <1>1, <1>4, <2>1, <3>1
    <3>3. CASE j = k
        BY <2>5, <2>6, <2>7, <2>9, <3>1, <3>2, <3>3
    <3>4. CASE j # k
      <4>1. i \in 0 .. k - 1 /\ j \in 0 .. k - 1
        BY <2>1, <3>1, <3>4
      <4>2. y \in Falls(p, k - 1)
        BY <1>7, <2>1, <3>1, <4>1
      <4>3. a.worst <= y /\ y \in Int
        BY <2>3, <3>1, <3>2, <4>2
      <4> QED BY <2>5, <2>7, <4>3
    <3> QED BY <3>3, <3>4
  <2> QED BY <2>5, <2>6, <2>8, <2>9, <2>10, <2>11 DEF Covers, b
<1> DEFINE P == {k \in 0 .. n : Covers(k)}
<1>10. \A k \in 0 .. n : k \in P
  <2> HIDE DEF Covers
  <2>1. 0 \in P
    BY <1>1, <1>8
  <2>2. \A k \in 1 .. n : k - 1 \in P => k \in P
    <3> SUFFICES ASSUME NEW k \in 1 .. n, k - 1 \in P  PROVE k \in P
      OBVIOUS
    <3>1. Covers(k - 1) /\ k \in 0 .. n
      BY <1>1
    <3> QED BY <1>9, <3>1
  <2> HIDE DEF P
  <2> QED BY <1>1, <2>1, <2>2, UpTo
<1>11. n \in 0 .. n
  BY <1>1
<1>12. Covers(n)
  <2> HIDE DEF Covers
  <2> QED BY <1>10, <1>11
<1>13. Drawdown(p) = t(n).worst
  BY <1>1, <1>3 DEF t
<1> QED BY <1>12, <1>13 DEF n

(* A GO means what its criteria say. *)
LEMMA GoMeans ==
  ASSUME NEW p \in Seq(Int)
  PROVE  GoNoGo(Metrics(p)) <=>
           /\ Len(p) >= MinTrades /\ Total(p) > 0
           /\ -(Drawdown(p)) * 100 < 15 * Capital
           /\ \E i, j \in DOMAIN p : p[i] # p[j]
<1> DEFINE up == [i \in DOMAIN p |-> Positive(p[i])]
           down == [i \in DOMAIN p |-> Positive(-p[i])]
           won == Total(up)
           lost == Total(down)
           varied == Len(p) > 1 /\ Spread2(p) > 0
           gains == p # <<>> /\ (lost = 0 \/ won > lost)
           some == \E i, j \in DOMAIN p : p[i] # p[j]
           m == Metrics(p)
<1>1. /\ m.n = Len(p) /\ m.net = Total(p) /\ m.drawdown = Drawdown(p)
      /\ m.profitable = gains
      /\ m.sharpe = IF varied THEN Total(p) ELSE 0
  BY DEF Metrics
<1>2. Len(p) \in Nat /\ DOMAIN p = 1 .. Len(p) /\ \A i \in DOMAIN p : p[i] \in Int
  OBVIOUS
<1>3. IsFiniteSet(DOMAIN p)
  BY PlacesOf
<1>4. Total(p) \in Int /\ Spread2(p) \in Int /\ (Spread2(p) > 0 <=> some)
  BY SpreadTells
<1>5. Total(p) = won - lost /\ won \in Int /\ lost \in Int
  <2>1. \A i \in DOMAIN p : up[i] \in Int /\ down[i] \in Int /\ p[i] = up[i] - down[i]
    BY <1>2 DEF Positive
  <2>2. DOMAIN up = DOMAIN p /\ DOMAIN down = DOMAIN p
    OBVIOUS
  <2> HIDE DEF up, down
  <2>3. Sum(p, DOMAIN p) = Sum(up, DOMAIN p) - Sum(down, DOMAIN p)
    BY <1>3, <2>1, SumMinus
  <2>4. Sum(up, DOMAIN p) \in Int /\ Sum(down, DOMAIN p) \in Int
    BY <1>3, <2>1, SumInt
  <2> QED BY <2>2, <2>3, <2>4, TotalIsSum
<1>6. Total(p) > 0 => p # <<>>
    BY TotalIsSum, SumEmpty
<1>7. some => Len(p) > 1
  BY <1>2
<1> HIDE DEF m, won, lost, some
<1>8. Total(p) > 0 => m.profitable
  <2>1. Total(p) > 0 => gains
    BY <1>5, <1>6
  <2> HIDE DEF gains
  <2> QED BY <1>1, <2>1
<1>9. Total(p) > 0 => (m.sharpe > 0 <=> some)
  BY <1>1, <1>4, <1>7
<1>10. GoNoGo(m) <=> /\ Len(p) >= MinTrades /\ Total(p) > 0 /\ m.profitable /\ m.sharpe > 0
                     /\ -(Drawdown(p)) * 100 < 15 * Capital
  BY <1>1 DEF GoNoGo
<1>11. GoNoGo(m) <=> /\ Len(p) >= MinTrades /\ Total(p) > 0 /\ some
                     /\ -(Drawdown(p)) * 100 < 15 * Capital
  BY <1>8, <1>9, <1>10
<1> QED BY <1>11 DEF m, some

LEMMA GoesAreEarned == ASSUME SimInv  PROVE GoIsEarned
<1> SUFFICES ASSUME NEW s \in {"A", "B"}
             PROVE  LET p == Nets(s)
                        Height(i) == Total(SubSeq(p, 1, i))
                        after == {Height(ij[2]) - Height(ij[1]) :
                                    ij \in {xy \in (0 .. Len(p)) \X (0 .. Len(p)) : xy[1] <= xy[2]}}
                    IN  /\ Drawdown(p) = Min(after)
                        /\ GoNoGo(Metrics(p)) <=>
                             /\ Len(p) >= MinTrades /\ Height(Len(p)) > 0
                             /\ -(Min(after)) * 100 < 15 * Capital
                             /\ \E i, j \in DOMAIN p : p[i] # p[j]
  BY DEF GoIsEarned
<1> DEFINE p == Nets(s)
           Height(i) == Total(SubSeq(p, 1, i))
           after == {Height(ij[2]) - Height(ij[1]) :
                       ij \in {xy \in (0 .. Len(p)) \X (0 .. Len(p)) : xy[1] <= xy[2]}}
<1>1. p \in Seq(Int)
  <2> DEFINE b == book[s]
  <2>1. b \in Seq(BookOf)
    BY DEF SimInv
  <2>2. \A i \in DOMAIN b : b[i].net \in Int
    BY BooksSaid DEF TradeSaid
  <2>3. p = [i \in DOMAIN b |-> b[i].net]
    BY DEF Nets
  <2> HIDE DEF b, p
  <2>4. p \in [1 .. Len(b) -> Int] /\ Len(b) \in Nat
    BY <2>1, <2>2, <2>3
  <2> QED BY <2>4
<1> HIDE DEF p
<1>2. /\ Prefix(p, Len(p)) = Total(p)
      /\ \A k \in 0 .. Len(p) : Prefix(p, k) \in Int /\ Height(k) = Prefix(p, k)
  BY <1>1, PrefixIs
<1>3. after = Falls(p, Len(p))
  BY <1>2 DEF Falls
<1>4. Height(Len(p)) = Total(p)
  BY <1>1, <1>2
<1>5. \A y \in Falls(p, Len(p)) : y \in Int
  BY <1>2 DEF Falls
<1> HIDE DEF after, Height
<1>6. Drawdown(p) = Min(after)
    BY <1>1, <1>3, <1>5, DrawdownIs DEF Min
<1>7. GoNoGo(Metrics(p)) <=>
        /\ Len(p) >= MinTrades /\ Height(Len(p)) > 0
        /\ -(Min(after)) * 100 < 15 * Capital
        /\ \E i, j \in DOMAIN p : p[i] # p[j]
  BY <1>1, <1>4, <1>6, GoMeans
<1> QED BY <1>6, <1>7 DEF p, after, Height

LEMMA SimHolds == ASSUME SimInv  PROVE CondorRunSound
BY SimTyped, NearestIs, RicherSells, Tightens, NeverLater, LossesAsStated, GoesAreEarned
   DEF CondorRunSound

(* The condor backtest (research/backtest/fno_condor.py, run_backtest()):  *)
(* the second gate only takes trades away, decides by spreads that began   *)
(* no later, no trade loses more than stated, each ends at the first day   *)
(* that meets a rule, and a GO means an account that grew and never fell   *)
(* by 15%; for every set of cycles, every number of them and every         *)
(* threshold.                                                              *)
THEOREM CondorRunAlwaysSound == Spec => []CondorRunSound
<1>1. Init => SimInv
  BY InitSimInv DEF Init
<1>2. SimInv /\ [Next]_vars => SimInv'
  <2> SUFFICES ASSUME SimInv, [Next]_vars  PROVE SimInv'
    OBVIOUS
  <2>1. SimNext \/ UNCHANGED simVars
    BY DEF Next, vars
  <2> QED BY <2>1, SimNextKeeps, SimStutters
<1>3. SimInv => CondorRunSound
  BY SimHolds
<1> QED BY <1>1, <1>2, <1>3, PTL DEF Spec

-----------------------------------------------------------------------------
(* Numbers in order. *)

(* The pairs of places of D ordered by the numbers there. *)
ByValue(s, D) ==
  {p \in D \X D : s[p[1]] < s[p[2]] \/ (s[p[1]] = s[p[2]] /\ p[1] < p[2])}

LEMMA AscendingIs ==
  ASSUME NEW D, IsFiniteSet(D), NEW s, \A i \in D : i \in Int /\ s[i] \in Int
  PROVE  /\ OrderedBy(InOrder(D, ByValue(s, D)), D, ByValue(s, D))
         /\ Ascending(s, D) = [n \in 1 .. Cardinality(D) |-> s[InOrder(D, ByValue(s, D))[n]]]
         /\ Ascending(s, D) \in Seq(Int) /\ Len(Ascending(s, D)) = Cardinality(D)
         /\ \A a, b \in 1 .. Cardinality(D) : a <= b => Ascending(s, D)[a] <= Ascending(s, D)[b]
<1> DEFINE R == ByValue(s, D)
           at == InOrder(D, R)
           up == Ascending(s, D)
           N == Cardinality(D)
<1>1. up = [n \in 1 .. N |-> s[at[n]]]
  BY DEF Ascending, ByValue
<1>2. ASSUME NEW i \in D, NEW j \in D
      PROVE  <<i, j>> \in R <=> s[i] < s[j] \/ (s[i] = s[j] /\ i < j)
  BY DEF ByValue
<1> HIDE DEF R
<1>3. OrderOn(D, R)
  <2> DEFINE e == [i \in D |-> s[i]]
  <2>1. \A i \in D : e[i] \in Int /\ i \in Int
    OBVIOUS
  <2>2. ASSUME NEW i \in D, NEW j \in D
        PROVE  <<i, j>> \in R <=> e[i] < e[j] \/ (e[i] = e[j] /\ i < j)
    <3>1. e[i] = s[i] /\ e[j] = s[j]
      OBVIOUS
    <3> HIDE DEF e
    <3> QED BY <1>2, <3>1
  <2> HIDE DEF e
  <2> QED BY <2>1, <2>2 DEF OrderOn
<1>4. OrderedBy(at, D, R)
  BY <1>3, InOrderIs
<1> HIDE DEF at, up, N
<1>5. N \in Nat /\ DOMAIN at = 1 .. N /\ \A n \in 1 .. N : at[n] \in D
  BY <1>4 DEF OrderedBy, N
<1>6. \A n \in 1 .. N : up[n] = s[at[n]] /\ up[n] \in Int
  BY <1>1, <1>5
<1>7. up \in Seq(Int) /\ Len(up) = N
    BY <1>1, <1>5, <1>6
<1>8. ASSUME NEW a \in 1 .. N, NEW b \in 1 .. N, a <= b  PROVE up[a] <= up[b]
  <2>1. CASE a = b
    BY <1>6, <2>1
  <2>2. CASE a # b
    <3>1. a < b
      BY <1>5, <1>8, <2>2
    <3>2. <<at[a], at[b]>> \in R
      BY <1>4, <1>5, <3>1 DEF OrderedBy
    <3>3. s[at[a]] < s[at[b]] \/ s[at[a]] = s[at[b]]
      BY <1>2, <1>5, <3>2
    <3> QED BY <1>6, <3>3
  <2> QED BY <2>1, <2>2
<1> QED BY <1>1, <1>4, <1>7, <1>8 DEF at, R, up, N

(* The places of the k least. *)
LeastOnes(s, D, k) == Foremost(InOrder(D, ByValue(s, D)), k)

(* The first k in order are k members, and their total is over these. *)
LEMMA LeastAre ==
  ASSUME NEW D, IsFiniteSet(D), NEW s, \A i \in D : i \in Int /\ s[i] \in Int,
         NEW k \in 0 .. Cardinality(D)
  PROVE  /\ LeastOnes(s, D, k) \in SUBSET D /\ Cardinality(LeastOnes(s, D, k)) = k
         /\ Total(SubSeq(Ascending(s, D), 1, k)) = Sum(s, LeastOnes(s, D, k))
<1> DEFINE R == ByValue(s, D)
           at == InOrder(D, R)
           up == Ascending(s, D)
           N == Cardinality(D)
           A(m) == LeastOnes(s, D, m)
           P == {m \in 0 .. N : Prefix(up, m) = Sum(s, A(m))}
<1>1. /\ N \in Nat /\ OrderedBy(at, D, R) /\ up \in Seq(Int) /\ Len(up) = N
      /\ up = [n \in 1 .. N |-> s[at[n]]]
    BY FS_CardinalityType, AscendingIs
<1>2. \A m : A(m) = Foremost(at, m) /\ A(m) = {at[i] : i \in 1 .. m}
  BY DEF LeastOnes, Foremost
<1> HIDE DEF R, at, up, N, A
<1>3. /\ DOMAIN at = 1 .. N /\ \A n \in 1 .. N : at[n] \in D
      /\ \A n, m \in 1 .. N : n < m => at[n] # at[m]
  BY <1>1 DEF OrderedBy, N
<1>4. \A n \in 1 .. N : up[n] = s[at[n]] /\ up[n] \in Int
  BY <1>1, <1>3
<1>5. ASSUME NEW m \in 0 .. N
      PROVE  A(m) \in SUBSET D /\ Cardinality(A(m)) = m /\ IsFiniteSet(A(m))
  <2>1. A(m) \in SUBSET D /\ Cardinality(A(m)) = m
    <3>1. m \in 0 .. Cardinality(D)
      BY DEF N
    <3> HIDE DEF N
    <3> QED BY <1>1, <1>2, <3>1, FirstOf
  <2> QED BY <2>1, FS_Subset
<1>6. 0 \in P
  <2>1. A(0) = {}
    BY <1>2
  <2>2. Prefix(up, 0) = 0
    BY <1>1, PrefixIs
  <2>3. Sum(s, A(0)) = 0
    BY <2>1, SumEmpty
  <2>4. 0 \in 0 .. N
    BY <1>1
  <2> QED BY <2>2, <2>3, <2>4
<1>7. ASSUME NEW m \in 1 .. N, m - 1 \in P  PROVE m \in P
  <2>1. m - 1 \in 0 .. N /\ m \in 0 .. N /\ m \in 1 .. m /\ 1 .. m = (1 .. (m - 1)) \cup {m}
    BY <1>1
  <2>2. A(m) = A(m - 1) \cup {at[m]}
    BY <1>2, <2>1
  <2>3. at[m] \notin A(m - 1)
    <3> SUFFICES ASSUME NEW i \in 1 .. (m - 1), at[i] = at[m]  PROVE FALSE
      BY <1>2
    <3>1. i \in 1 .. N /\ i < m
      BY <1>1
    <3> QED BY <1>3, <3>1
  <2>5. A(m) \ {at[m]} = A(m - 1) /\ at[m] \in A(m)
    BY <2>2, <2>3
  <2>6. \A x \in A(m) : s[x] \in Int
    BY <1>5, <2>1
  <2>7. Sum(s, A(m)) = s[at[m]] + Sum(s, A(m) \ {at[m]})
    BY <1>5, <2>1, <2>5, <2>6, SumRemove
  <2>8. Prefix(up, m) = Prefix(up, m - 1) + up[m] /\ Prefix(up, m - 1) \in Int
    BY <1>1, <2>1, PrefixIs
  <2>9. Prefix(up, m - 1) = Sum(s, A(m - 1))
    BY <1>7
  <2>10. Sum(s, A(m)) = up[m] + Prefix(up, m - 1)
    BY <1>4, <2>5, <2>7, <2>9
  <2>11. Prefix(up, m) = Sum(s, A(m))
    BY <1>4, <2>8, <2>10
  <2> QED BY <2>1, <2>11
<1>8. \A m \in 0 .. N : m \in P
  <2> HIDE DEF P
  <2>1. \A m \in 1 .. N : m - 1 \in P => m \in P
    BY <1>7
  <2> QED BY <1>1, <1>6, <2>1, UpTo
<1>9. k \in 0 .. N
  BY DEF N
<1>10. Total(SubSeq(up, 1, k)) = Prefix(up, k)
  BY <1>1, <1>9, PrefixIs
<1>11. Prefix(up, k) = Sum(s, A(k))
  BY <1>8, <1>9
<1> QED BY <1>5, <1>9, <1>10, <1>11 DEF A, up

(* No other k members sum to less. *)
LEMMA LeastSum ==
  ASSUME NEW D, IsFiniteSet(D), NEW s, \A i \in D : i \in Int /\ s[i] \in Int,
         NEW k \in 1 .. Cardinality(D), NEW B \in SUBSET D, Cardinality(B) = k
  PROVE  Total(SubSeq(Ascending(s, D), 1, k)) <= Sum(s, B)
<1> DEFINE R == ByValue(s, D)
           at == InOrder(D, R)
           N == Cardinality(D)
           A == LeastOnes(s, D, k)
           t == s[at[k]]
<1>1. N \in Nat /\ OrderedBy(at, D, R)
    BY FS_CardinalityType, AscendingIs
<1>2. k \in 1 .. N /\ k \in Nat /\ k \in 0 .. N
  BY <1>1
<1>3. A \in SUBSET D /\ Cardinality(A) = k /\ Total(SubSeq(Ascending(s, D), 1, k)) = Sum(s, A)
  BY <1>2, LeastAre
<1>4. A = {at[i] : i \in 1 .. k}
  BY DEF LeastOnes, Foremost
<1>5. \A i, j \in D : <<i, j>> \in R => s[i] <= s[j]
  BY DEF ByValue
<1> HIDE DEF R, at, N, A, t
<1>6. /\ DOMAIN at = 1 .. N /\ \A n \in 1 .. N : at[n] \in D
      /\ \A n, m \in 1 .. N : n < m => <<at[n], at[m]>> \in R
      /\ \A j \in D : \E n \in 1 .. N : at[n] = j
  BY <1>1 DEF OrderedBy, N
<1>7. t \in Int /\ at[k] \in D
  BY <1>2, <1>6 DEF t
<1>8. \A n, m \in 1 .. N : n <= m => s[at[n]] <= s[at[m]]
  <2> SUFFICES ASSUME NEW n \in 1 .. N, NEW m \in 1 .. N, n <= m  PROVE s[at[n]] <= s[at[m]]
    OBVIOUS
  <2>1. at[n] \in D /\ at[m] \in D /\ s[at[n]] \in Int /\ s[at[m]] \in Int
    BY <1>6
  <2>2. CASE n = m
    BY <2>1, <2>2
  <2>3. CASE n # m
    <3>1. n < m
      BY <1>1, <2>3
    <3> QED BY <1>5, <1>6, <2>1, <3>1
  <2> QED BY <2>2, <2>3
<1>9. ASSUME NEW x \in A \ B  PROVE s[x] \in Int /\ s[x] <= t
  <2>1. PICK i \in 1 .. k : x = at[i]
    BY <1>4
  <2>2. i \in 1 .. N /\ i <= k
    BY <1>1, <1>2, <2>1
  <2>3. s[at[i]] <= s[at[k]]
    BY <1>2, <1>8, <2>2
  <2> QED BY <1>3, <2>1, <2>3 DEF t
<1>10. ASSUME NEW x \in B \ A  PROVE s[x] \in Int /\ t <= s[x]
  <2>1. PICK m \in 1 .. N : at[m] = x
    BY <1>6
  <2>2. m \notin 1 .. k
    BY <1>4, <2>1
  <2>3. k <= m
    BY <1>2, <2>1, <2>2
  <2>4. s[at[k]] <= s[at[m]]
    BY <1>2, <1>8, <2>1, <2>3
  <2> QED BY <2>1, <2>4 DEF t
<1>11. /\ IsFiniteSet(A) /\ IsFiniteSet(B) /\ IsFiniteSet(A \ B) /\ IsFiniteSet(B \ A)
       /\ IsFiniteSet(A \cap B)
    BY <1>3, FS_Subset
<1>12. Cardinality(A \ B) = Cardinality(B \ A) /\ Cardinality(A \ B) \in Nat
  <2>1. Cardinality(A \ B) = k - Cardinality(A \cap B)
    BY <1>3, <1>11, FS_Difference
  <2>2. Cardinality(B \ A) = k - Cardinality(B \cap A)
    BY <1>11, FS_Difference
  <2>3. A \cap B = B \cap A
    OBVIOUS
  <2>4. Cardinality(A \ B) \in Nat
    BY <1>11, FS_CardinalityType
  <2> QED BY <2>1, <2>2, <2>3, <2>4
<1>13. Sum(s, A \ B) \in Int /\ Sum(s, A \ B) <= t * Cardinality(A \ B)
  BY <1>7, <1>9, <1>11, SumBelow
<1>14. Sum(s, B \ A) \in Int /\ t * Cardinality(B \ A) <= Sum(s, B \ A)
  BY <1>7, <1>10, <1>11, SumAbove
<1>15. Sum(s, A \ B) <= Sum(s, B \ A)
  <2>1. PICK c \in Nat : c = Cardinality(A \ B)
    BY <1>12
  <2>2. t * c \in Int /\ Sum(s, A \ B) <= t * c /\ t * c <= Sum(s, B \ A)
    BY <1>7, <1>12, <1>13, <1>14, <2>1
  <2> QED BY <1>13, <1>14, <2>2
<1>16. Sum(s, A) = Sum(s, A \cap B) + Sum(s, A \ B)
    BY <1>3, <1>11, SumParts
<1>17. Sum(s, B) = Sum(s, A \cap B) + Sum(s, B \ A)
    BY <1>11, SumParts
<1>18. Sum(s, A \cap B) \in Int
    BY <1>11, SumInt
<1> QED BY <1>3, <1>13, <1>14, <1>15, <1>16, <1>17, <1>18

(* The square of a sum of products is at most the product of the sums of   *)
(* squares.                                                                *)
LEMMA SquaresBound ==
  ASSUME NEW S, IsFiniteSet(S), NEW x, NEW y, NEW a, NEW b, NEW c,
         \A i \in S : /\ x[i] \in Int /\ y[i] \in Int
                      /\ a[i] = x[i] * x[i] /\ b[i] = y[i] * y[i] /\ c[i] = x[i] * y[i]
  PROVE  /\ Sum(a, S) \in Int /\ Sum(b, S) \in Int /\ Sum(c, S) \in Int
         /\ Sum(c, S) * Sum(c, S) <= Sum(a, S) * Sum(b, S)
<1> DEFINE A == Sum(a, S)
           B == Sum(b, S)
           C == Sum(c, S)
<1>1. \A i \in S : a[i] \in Nat /\ b[i] \in Nat /\ c[i] \in Int
    OBVIOUS
<1>2. A \in Nat /\ B \in Nat /\ C \in Int
    BY <1>1, SumNat, SumInt
<1> DEFINE d == [i \in S |-> (A * y[i] - C * x[i]) * (A * y[i] - C * x[i])]
           e == [i \in S |-> (A * A) * b[i] + (0 - 2 * A * C) * c[i]]
<1> HIDE DEF A, B, C
<1> DEFINE Square(u, v) ==
             /\ (A * v - C * u) * (A * v - C * u) \in Nat
             /\ (A * v - C * u) * (A * v - C * u)
                  = 1 * ((A * A) * (v * v) + (0 - 2 * A * C) * (u * v) + 0) + (C * C) * (u * u) + 0
             /\ (A * A) * (v * v) + (0 - 2 * A * C) * (u * v) + 0 \in Int
             /\ (A * A) * (v * v) + (0 - 2 * A * C) * (u * v)
                  = (A * A) * (v * v) + (0 - 2 * A * C) * (u * v) + 0
<1>3. ASSUME NEW u \in Int, NEW v \in Int  PROVE Square(u, v)
    BY <1>2
<1>4. PICK p, q, r : p = A * A /\ q = 0 - 2 * A * C /\ r = C * C
  OBVIOUS
<1>5. p \in Int /\ q \in Int /\ r \in Int
  BY <1>2, <1>4
<1>6. \A i \in S : /\ e[i] = p * b[i] + q * c[i] + 0 /\ e[i] \in Int
                   /\ d[i] = 1 * e[i] + r * a[i] + 0 /\ d[i] \in Nat
  <2> SUFFICES ASSUME NEW i \in S
               PROVE  /\ e[i] = p * b[i] + q * c[i] + 0 /\ e[i] \in Int
                      /\ d[i] = 1 * e[i] + r * a[i] + 0 /\ d[i] \in Nat
    OBVIOUS
  <2>1. /\ d[i] = (A * y[i] - C * x[i]) * (A * y[i] - C * x[i])
        /\ e[i] = (A * A) * b[i] + (0 - 2 * A * C) * c[i]
    OBVIOUS
  <2>2. PICK u \in Int, v \in Int : u = x[i] /\ v = y[i]
    OBVIOUS
  <2> HIDE DEF d, e
  <2>3. a[i] = u * u /\ b[i] = v * v /\ c[i] = u * v
    BY <2>2
  <2>4. /\ d[i] = (A * v - C * u) * (A * v - C * u)
        /\ e[i] = (A * A) * (v * v) + (0 - 2 * A * C) * (u * v)
    BY <2>1, <2>2, <2>3
  <2>5. Square(u, v)
    BY <1>3, <2>2
  <2>6. e[i] = p * b[i] + q * c[i] + 0 /\ e[i] \in Int
      BY <1>4, <2>3, <2>4, <2>5
  <2>7. d[i] = 1 * e[i] + r * a[i] + 0 /\ d[i] \in Nat
      BY <1>4, <2>3, <2>4, <2>5
  <2> QED BY <2>6, <2>7
<1> HIDE DEF d, e
<1>7. Combines(e, p, b, q, c, 0, S) /\ Combines(d, 1, e, r, a, 0, S)
  BY <1>1, <1>5, <1>6 DEF Combines
<1>8. Sum(e, S) = p * B + q * C + 0 * Cardinality(S)
  BY <1>7, SumLinear DEF B, C
<1>9. Sum(d, S) = 1 * Sum(e, S) + r * A + 0 * Cardinality(S)
  BY <1>7, SumLinear DEF A
<1>10. Sum(d, S) \in Nat /\ Sum(e, S) \in Int /\ Cardinality(S) \in Nat
    BY <1>6, SumNat, SumInt, FS_CardinalityType
<1>11. Sum(d, S) = A * (A * B - C * C)
    BY <1>2, <1>4, <1>5, <1>8, <1>9, <1>10
<1>12. CASE A = 0
  <2>1. ASSUME NEW i \in S  PROVE c[i] = 0 * x[i] + 0 * x[i] + 0
    <3>1. a[i] <= A
      BY <1>1, TermWithin DEF A
    <3>3. a[i] = 0
      BY <1>1, <1>12, <3>1
    <3>4. \A u \in Int : u * u = 0 => u = 0
      OBVIOUS
    <3>5. x[i] = 0
      BY <3>3, <3>4
    <3>6. c[i] = 0 * y[i]
      BY <3>5
    <3>7. \A v \in Int : 0 * v = 0 /\ 0 * v + 0 * v + 0 = 0
      OBVIOUS
    <3>8. c[i] = 0
      BY <3>6, <3>7
    <3>9. 0 * x[i] + 0 * x[i] + 0 = 0
      BY <3>7
    <3> QED BY <3>8, <3>9
  <2>2. Combines(c, 0, x, 0, x, 0, S)
    BY <2>1 DEF Combines
  <2>3. C = 0 * Sum(x, S) + 0 * Sum(x, S) + 0 * Cardinality(S)
    BY <2>2, SumLinear DEF C
  <2>4. C = 0
      BY <1>10, <2>3, SumInt
  <2>5. C * C <= A * B
    BY <1>2, <1>12, <2>4
  <2> QED BY <1>2, <2>5 DEF A, B, C
<1>13. CASE A # 0
    BY <1>2, <1>10, <1>11, <1>13 DEF A, B, C
<1> QED BY <1>12, <1>13

(* A fit explains no more than there is. *)
LEMMA FitBound ==
  ASSUME NEW y \in Seq(Int), NEW x \in Seq(Int), Len(x) = Len(y), y # <<>>
  PROVE  Fit(y, x).sxy * Fit(y, x).sxy <= Fit(y, x).sxx * Fit(y, x).syy
<1> DEFINE n == Len(y)
           D == DOMAIN y
           u == [i \in D |-> n * x[i] - Total(x)]
           v == [i \in D |-> n * y[i] - Total(y)]
           a == [i \in D |-> u[i] * u[i]]
           b == [i \in D |-> v[i] * v[i]]
           c == [i \in D |-> u[i] * v[i]]
           X == Spread2(x)
           Y == Spread2(y)
           Z == n * Total([i \in D |-> x[i] * y[i]]) - Total(x) * Total(y)
<1>1. Fit(y, x).sxy = Z /\ Fit(y, x).sxx = X /\ Fit(y, x).syy = Y
  BY DEF Fit
<1>2. n \in Nat /\ n > 0 /\ D = 1 .. n /\ DOMAIN x = D /\ \A i \in D : x[i] \in Int /\ y[i] \in Int
  OBVIOUS
<1>3. IsFiniteSet(D)
  BY PlacesOf
<1>4. Sum(a, D) = n * X
  <2>1. X = Len(x) * Total([i \in DOMAIN x |-> x[i] * x[i]]) - Total(x) * Total(x)
    BY DEF Spread2
  <2>2. \A i \in DOMAIN x : a[i] = (Len(x) * x[i] - Total(x)) * (Len(x) * x[i] - Total(x))
    <3>1. \A i \in D : u[i] = Len(x) * x[i] - Total(x) /\ a[i] = u[i] * u[i]
      OBVIOUS
    <3> HIDE DEF u, a
    <3> QED BY <1>2, <3>1
  <2> HIDE DEF a, X, u, v
  <2>3. Sum(a, DOMAIN x)
          = Len(x) * (Len(x) * Total([i \in DOMAIN x |-> x[i] * x[i]]) - Total(x) * Total(x))
    BY <2>2, CrossSpread
  <2> QED BY <1>2, <2>1, <2>3
<1>5. Sum(b, D) = n * Y
  <2>1. Y = n * Total([i \in D |-> y[i] * y[i]]) - Total(y) * Total(y)
    BY DEF Spread2
  <2>2. \A i \in D : b[i] = (n * y[i] - Total(y)) * (n * y[i] - Total(y))
    BY <1>2
  <2> HIDE DEF b, Y, u, v
  <2>3. Sum(b, D) = n * (n * Total([i \in D |-> y[i] * y[i]]) - Total(y) * Total(y))
    BY <2>2, CrossSpread
  <2> QED BY <2>1, <2>3
<1>6. Sum(c, D) = n * Z
  <2>1. \A i \in DOMAIN x : c[i] = (Len(x) * x[i] - Total(x)) * (Len(x) * y[i] - Total(y))
    <3>1. \A i \in D : /\ u[i] = Len(x) * x[i] - Total(x) /\ v[i] = Len(x) * y[i] - Total(y)
                       /\ c[i] = u[i] * v[i]
      OBVIOUS
    <3> HIDE DEF u, v, c
    <3> QED BY <1>2, <3>1
  <2> HIDE DEF c, u, v
  <2>2. Sum(c, DOMAIN x)
          = Len(x) * (Len(x) * Total([i \in DOMAIN x |-> x[i] * y[i]]) - Total(x) * Total(y))
    BY <2>1, CrossSpread
  <2> QED BY <1>2, <2>2
<1>7. X \in Int /\ Y \in Int /\ Z \in Int
  <2>1. X \in Int /\ Y \in Int /\ Total(x) \in Int /\ Total(y) \in Int
    BY SpreadTells
  <2>2. Total([i \in D |-> x[i] * y[i]]) \in Int
    <3> DEFINE m == [i \in D |-> x[i] * y[i]]
    <3>1. \A i \in D : m[i] \in Int
      BY <1>2
    <3>2. DOMAIN m = D
      OBVIOUS
    <3> HIDE DEF m, D
    <3>3. Sum(m, D) \in Int
      BY <1>3, <3>1, SumInt
    <3>4. Total(m) \in Int
      BY <3>2, <3>3, TotalIsSum
    <3> QED BY <3>4 DEF m
  <2> HIDE DEF X, Y, D, n
  <2>3. \A k, t, s, r \in Int : k * t - s * r \in Int
    OBVIOUS
  <2> QED BY <1>2, <2>1, <2>2, <2>3
<1>8. Sum(c, D) * Sum(c, D) <= Sum(a, D) * Sum(b, D)
  <2>1. Total(x) \in Int /\ Total(y) \in Int
    BY SpreadTells
  <2>2. \A i \in D : u[i] \in Int /\ v[i] \in Int
    <3>1. \A k, z, t \in Int : k * z - t \in Int
      OBVIOUS
    <3>2. \A i \in D : u[i] = n * x[i] - Total(x) /\ v[i] = n * y[i] - Total(y)
      OBVIOUS
    <3> HIDE DEF u, v
    <3> QED BY <1>2, <2>1, <3>1, <3>2
  <2>3. \A i \in D : a[i] = u[i] * u[i] /\ b[i] = v[i] * v[i] /\ c[i] = u[i] * v[i]
    OBVIOUS
  <2> HIDE DEF D, u, v, a, b, c
  <2> QED BY <1>3, <2>2, <2>3, SquaresBound
<1> HIDE DEF n, D, a, b, c, X, Y, Z
<1>9. Z * Z <= X * Y
  <2>1. (n * Z) * (n * Z) <= (n * X) * (n * Y)
    BY <1>4, <1>5, <1>6, <1>8
  <2>2. \A k, r, s, t \in Int : (k * t) * (k * t) = (k * k) * (t * t) /\ (k * r) * (k * s) = (k * k) * (r * s)
    OBVIOUS
  <2>3. (n * n) * (Z * Z) <= (n * n) * (X * Y)
    BY <1>2, <1>7, <2>1, <2>2
  <2>4. \A k, r, s \in Int : k > 0 /\ k * r <= k * s => r <= s
    OBVIOUS
  <2>5. n * n > 0 /\ n * n \in Int /\ Z * Z \in Int /\ X * Y \in Int
    BY <1>2, <1>7
  <2> QED BY <2>3, <2>4, <2>5
<1> QED BY <1>1, <1>9

(* A list in the order of entries is left as it is. *)
LEMMA SortedStays ==
  ASSUME NEW S, NEW s \in Seq(S), \A x \in S : x.entry \in Nat,
         \A i, j \in DOMAIN s : i < j => s[i].entry <= s[j].entry
  PROVE  Chronological(s) = s
<1> DEFINE D == DOMAIN s
           R == ByEntry(s)
           at == InOrder(D, R)
<1>1. /\ Chronological(s) = [n \in D |-> s[at[n]]] /\ DOMAIN at = D /\ D = 1 .. Len(s)
      /\ OrderedBy(at, D, R)
  BY PlacedByEntry
<1>2. Len(s) \in Nat /\ s = [n \in D |-> s[n]]
  OBVIOUS
<1>3. \A i \in D : s[i].entry \in Nat /\ i \in Nat
  OBVIOUS
<1>4. ASSUME NEW i \in D, NEW j \in D  PROVE <<i, j>> \in R <=> i < j
  <2>1. <<i, j>> \in R <=> s[i].entry < s[j].entry \/ (s[i].entry = s[j].entry /\ i < j)
    BY DEF ByEntry
  <2>2. i < j => s[i].entry <= s[j].entry
    OBVIOUS
  <2>3. j < i => s[j].entry <= s[i].entry
    OBVIOUS
  <2> HIDE DEF R
  <2> QED BY <1>3, <2>1, <2>2, <2>3
<1>5. at = [n \in 1 .. Cardinality(D) |->
              CHOOSE j \in D : Cardinality({i \in D : i = j \/ <<i, j>> \in R}) = n]
  BY DEF InOrder
<1> HIDE DEF D, R, at
<1>6. ASSUME NEW j \in D  PROVE Cardinality({i \in D : i = j \/ <<i, j>> \in R}) = j
  <2>1. {i \in D : i = j \/ <<i, j>> \in R} = 1 .. j
      BY <1>1, <1>2, <1>3, <1>4
  <2>2. Cardinality(1 .. j) = j
    BY <1>1, <1>2, CountTo
  <2> QED BY <2>1, <2>2
<1>7. ASSUME NEW n \in D  PROVE at[n] = n
    BY <1>1, <1>5, <1>6 DEF OrderedBy
<1> QED BY <1>1, <1>2, <1>7

-----------------------------------------------------------------------------
(* The restatement of an edge. *)

LEMMA SumOverIs == ASSUME NEW s, NEW rows  PROVE SumOver(s, rows) = Sum(s, rows)
BY DEF SumOver, MapThenSumSet, MapThenFoldSet, Sum, SumFn, IsSum, Pick

(* A return above zero was earned. *)
LEMMA RomEarned ==
  ASSUME NEW rows, IsFiniteSet(rows), NEW p, NEW m,
         \A i \in rows : p[i] \in Int /\ m[i] \in Int
  PROVE  RomOver(p, m, rows) > 0 => SumOver(p, rows) > 0 /\ rows # {}
<1> DEFINE P == Sum(p, rows)
           M == Sum(m, rows)
<1>1. P \in Int /\ M \in Int
  BY SumInt
<1>2. RomOver(p, m, rows) = IF M <= 0 THEN 0 ELSE (1000 * P) \div M
  BY SumOverIs DEF RomOver
<1>3. rows = {} => M = 0
  BY SumEmpty
<1> HIDE DEF P, M
<1>4. ASSUME M > 0, P <= 0  PROVE ~((1000 * P) \div M > 0)
    BY <1>1, <1>4, QuotientsOrdered
<1>5. RomOver(p, m, rows) > 0 => P > 0 /\ M > 0
  BY <1>1, <1>2, <1>4
<1>6. RomOver(p, m, rows) > 0 => P > 0 /\ rows # {}
  BY <1>3, <1>5
<1> QED BY <1>6, SumOverIs DEF P

(* On the same margins, the higher return is of the larger sum. *)
LEMMA RomOrdered ==
  ASSUME NEW rows, IsFiniteSet(rows), NEW p, NEW q, NEW m,
         \A i \in rows : p[i] \in Int /\ q[i] \in Int /\ m[i] \in Int
  PROVE  /\ RomOver(p, m, rows) \in Int /\ RomOver(q, m, rows) \in Int
         /\ RomOver(p, m, rows) > RomOver(q, m, rows) => Sum(p, rows) > Sum(q, rows)
<1> DEFINE P == Sum(p, rows)
           Q == Sum(q, rows)
           M == Sum(m, rows)
           rp == (1000 * P) \div M
           rq == (1000 * Q) \div M
<1>1. P \in Int /\ Q \in Int /\ M \in Int
    BY SumInt
<1>2. /\ RomOver(p, m, rows) = IF M <= 0 THEN 0 ELSE rp
      /\ RomOver(q, m, rows) = IF M <= 0 THEN 0 ELSE rq
  BY SumOverIs DEF RomOver
<1> HIDE DEF P, Q, M
<1>3. ASSUME M > 0
      PROVE  rp \in Int /\ rq \in Int /\ (P <= Q => rp <= rq)
  <2>1. M \in Nat \ {0} /\ 1000 * P \in Int /\ 1000 * Q \in Int
    BY <1>1, <1>3
  <2>2. rp \in Int /\ rq \in Int
    BY <2>1, QuotientsOrdered
  <2>3. ASSUME P <= Q  PROVE rp <= rq
      BY <1>1, <2>1, <2>3, QuotientsOrdered
  <2> QED BY <2>2, <2>3
<1> HIDE DEF rp, rq
<1>4. RomOver(p, m, rows) \in Int /\ RomOver(q, m, rows) \in Int
  BY <1>1, <1>2, <1>3
<1>5. ASSUME RomOver(p, m, rows) > RomOver(q, m, rows)  PROVE P > Q
    BY <1>1, <1>2, <1>3, <1>5
<1> QED BY <1>4, <1>5 DEF P, Q

(* Labels follow the implied vols. *)
LEMMA LabelsOrdered ==
  ASSUME NEW ivs \in Seq(Int), NEW i \in DOMAIN ivs, NEW j \in DOMAIN ivs, ivs[i] < ivs[j]
  PROVE  <<RegimeLabels(ivs)[i], RegimeLabels(ivs)[j]>> \notin
           {<<"stress", "calm">>, <<"stress", "mid">>, <<"mid", "calm">>}
<1> DEFINE D == DOMAIN ivs
           n == Len(ivs)
           up == Ascending(ivs, D)
           lo == up[Max({0, n \div 3 - 1}) + 1]
           hi == up[Min({n - 1, (2 * n) \div 3}) + 1]
           label(x) == IF hi <= lo THEN "mid"
                       ELSE IF ivs[x] <= lo THEN "calm"
                       ELSE IF ivs[x] >= hi THEN "stress" ELSE "mid"
<1>1. RegimeLabels(ivs)[i] = label(i) /\ RegimeLabels(ivs)[j] = label(j)
  BY DEF RegimeLabels
<1>2. n \in Nat /\ n > 0 /\ D = 1 .. n /\ ivs[i] \in Int /\ ivs[j] \in Int
  OBVIOUS
<1>3. up \in Seq(Int) /\ Len(up) = n
  <2>1. \A x \in D : x \in Int /\ ivs[x] \in Int
    OBVIOUS
  <2> HIDE DEF D, n
  <2>2. IsFiniteSet(D) /\ Cardinality(D) = n
    BY <1>2, CountTo
  <2> QED BY <2>1, <2>2, AscendingIs
<1>4. lo \in Int
  <2> DEFINE a == n \div 3 - 1
  <2>1. a \in Int /\ a < n
    BY <1>2
  <2> HIDE DEF a, up, n
  <2>2. Max({0, a}) \in {0, a} /\ Max({0, a}) >= 0
    <3>1. 0 \in Int
      OBVIOUS
    <3>2. Max({0, a}) \in {0, a} /\ Max({0, a}) >= 0 /\ Max({0, a}) >= a
      BY <2>1, <3>1, MaxOfTwo
    <3> QED BY <3>2
  <2>3. Max({0, a}) + 1 \in 1 .. n
    BY <1>2, <2>1, <2>2
  <2>4. up[Max({0, a}) + 1] \in Int
    BY <1>3, <2>3
  <2> QED BY <2>4 DEF a
<1>5. hi \in Int
  <2> DEFINE a == (2 * n) \div 3
  <2>1. a \in Int /\ a >= 0 /\ n - 1 \in Int
    BY <1>2
  <2> HIDE DEF a, up, n
  <2>2. Min({n - 1, a}) = IF n - 1 <= a THEN n - 1 ELSE a
    BY <2>1 DEF Min
  <2>3. Min({n - 1, a}) + 1 \in 1 .. n
    BY <1>2, <2>1, <2>2
  <2>4. up[Min({n - 1, a}) + 1] \in Int
    BY <1>3, <2>3
  <2> QED BY <2>4 DEF a
<1>6. PICK l \in Int, h \in Int, x \in Int, y \in Int :
        l = lo /\ h = hi /\ x = ivs[i] /\ y = ivs[j]
  BY <1>2, <1>4, <1>5
<1> HIDE DEF lo, hi
<1>7. x < y
  BY <1>6
<1>8. /\ label(i) = (IF h <= l THEN "mid" ELSE IF x <= l THEN "calm"
                     ELSE IF x >= h THEN "stress" ELSE "mid")
      /\ label(j) = (IF h <= l THEN "mid" ELSE IF y <= l THEN "calm"
                     ELSE IF y >= h THEN "stress" ELSE "mid")
  BY <1>6
<1> HIDE DEF label
<1>9. /\ label(i) = "stress" => label(j) = "stress"
      /\ label(i) = "mid" => label(j) # "calm"
  BY <1>6, <1>7, <1>8
<1> QED BY <1>1, <1>9

(* Of two resamples, the upper end is not below the lower. *)
LEMMA TwoEnds ==
  ASSUME NEW a \in Int, NEW b \in Int
  PROVE  /\ Percentile(<<a, b>>, 25) \in Int /\ Percentile(<<a, b>>, 975) \in Int
         /\ Percentile(<<a, b>>, 25) <= Percentile(<<a, b>>, 975)
<1> DEFINE roms == <<a, b>>
           D == DOMAIN roms
           up == Ascending(roms, D)
<1>1. D = 1 .. 2 /\ \A x \in D : x \in Int /\ roms[x] \in Int
  OBVIOUS
<1>2. IsFiniteSet(D) /\ Cardinality(D) = 2
  BY <1>1, CountTo
<1> HIDE DEF roms, D
<1>3. /\ up \in Seq(Int) /\ Len(up) = Cardinality(D)
      /\ \A x, y \in 1 .. Cardinality(D) : x <= y => up[x] <= up[y]
  BY <1>1, <1>2, AscendingIs
<1>4. \A q \in {25, 975} : Percentile(roms, q) =
        LET n == Len(up)
            place == q * (n - 1)
            i == (place \div 1000) + 1
            rest == place % 1000
        IN  IF n = 0 THEN 0
            ELSE IF rest = 0 THEN 1000 * up[i] ELSE up[i] * (1000 - rest) + up[i + 1] * rest
  BY DEF Percentile, D
<1> HIDE DEF up
<1>5. \A x \in 1 .. Cardinality(D) : up[x] \in Int
    BY <1>3
<1>6. PICK u \in Int, v \in Int : u = up[1] /\ v = up[2] /\ u <= v
    BY <1>2, <1>3, <1>5
<1>7. Len(up) = 2
  BY <1>2, <1>3
<1>8. /\ Percentile(roms, 25) = u * 975 + v * 25
      /\ Percentile(roms, 975) = u * 25 + v * 975
    BY <1>4, <1>6, <1>7
<1>9. \A x, y \in Int : x <= y => x * 975 + y * 25 <= x * 25 + y * 975
  OBVIOUS
<1>10. u * 975 + v * 25 \in Int /\ u * 25 + v * 975 \in Int
  BY <1>6
<1> QED BY <1>6, <1>8, <1>9, <1>10 DEF roms

(* The trades that factor and labels are taken from. *)
FedOf(by) == IF by = "raven" THEN Chronological(takes) ELSE takes

(* What a series is made of. *)
SeriesIs(s, by) ==
  /\ s.n \in Nat /\ s.n > 0 /\ s.n = Len(takes)
  /\ s.pnl \in Seq(Int) /\ s.margin \in Seq(Int) /\ s.passive \in Seq(Int) /\ s.factor \in Seq(Int)
  /\ Len(s.pnl) = s.n /\ Len(s.margin) = s.n /\ Len(s.passive) = s.n /\ Len(s.factor) = s.n
  /\ \A i \in 1 .. s.n : /\ s.passive[i] = PassiveOn(Chronological(takes)[i].entry)
                         /\ s.factor[i] = FedOf(by)[i].iv - FedOf(by)[i].rv
  /\ [i \in 1 .. s.n |-> FedOf(by)[i].iv] \in Seq(Int)
  /\ s.regime = RegimeLabels([i \in 1 .. s.n |-> FedOf(by)[i].iv])

EdgeInv ==
  /\ takes \in Seq(TakeSet) /\ others \in Seq(OtherSet) /\ feed \in Feeds \cup {Nobody}
  /\ verdict \in {"none", "rejected", "GO", "NO-GO"}
  /\ feed = Nobody => verdict = "none"
  /\ feed # Nobody => takes # <<>> /\ series = SeriesBy(feed.by)
  /\ feed.passive /\ verdict # "rejected" => ~TwiceOnADay(others)
  /\ verdict = "GO" =>
       /\ purge \in {0, 1} /\ luck.picked \in SUBSET (1 .. series.n)
       /\ \E a, b \in Int : luck.roms = <<a, b>>
       /\ Goes(series)

LEMMA PassiveInt == ASSUME others \in Seq(OtherSet), NEW day  PROVE PassiveOn(day) \in Int
<1> DEFINE at == {i \in DOMAIN others : others[i].entry = day}
<1>1. Len(others) \in Nat /\ DOMAIN others = 1 .. Len(others)
  OBVIOUS
<1>2. \A i \in DOMAIN others : others[i].net \in Int /\ i \in Int
  BY EdgeAssumption
<1>3. IsFiniteSet(at)
    BY <1>1, PlacesFinite
<1>4. PassiveOn(day) = IF at = {} THEN 0 ELSE others[Max(at)].net
  BY DEF PassiveOn
<1>5. \A i \in at : i \in Int /\ i \in DOMAIN others
  BY <1>2
<1> HIDE DEF at
<1>6. at # {} => Max(at) \in at
  BY <1>3, <1>5, GreatestOf
<1> QED BY <1>2, <1>4, <1>5, <1>6

LEMMA SeriesMade ==
  ASSUME takes \in Seq(TakeSet), others \in Seq(OtherSet), takes # <<>>, NEW by
  PROVE  SeriesIs(SeriesBy(by), by)
<1> DEFINE rows == Chronological(takes)
           fed == FedOf(by)
           n == Len(takes)
           s == SeriesBy(by)
           D == DOMAIN rows
<1>1. n \in Nat /\ n > 0
  OBVIOUS
<1>2. \A x \in TakeSet : /\ x.entry \in Nat /\ x.net \in Int /\ x.margin \in Int
                         /\ x.iv \in Int /\ x.rv \in Int
  BY EdgeAssumption
<1>3. rows \in Seq(TakeSet) /\ Len(rows) = n
  BY <1>2, SortedByEntry
<1>4. fed \in Seq(TakeSet) /\ Len(fed) = n
  BY <1>3 DEF FedOf
<1>5. /\ s.n = Len(rows)
      /\ s.pnl = [i \in D |-> rows[i].net] /\ s.margin = [i \in D |-> rows[i].margin]
      /\ s.passive = [i \in D |-> PassiveOn(rows[i].entry)]
      /\ s.factor = [i \in D |-> fed[i].iv - fed[i].rv]
      /\ s.regime = RegimeLabels([i \in D |-> fed[i].iv])
  BY DEF SeriesBy, FedOf
<1> HIDE DEF rows, fed, n, s
<1>6. D = 1 .. n
  BY <1>1, <1>3
<1> HIDE DEF D
<1>7. \A i \in 1 .. n : rows[i] \in TakeSet /\ fed[i] \in TakeSet
  BY <1>1, <1>3, <1>4
<1>8. \A i \in 1 .. n : /\ rows[i].net \in Int /\ rows[i].margin \in Int
                        /\ fed[i].iv \in Int /\ fed[i].rv \in Int
  BY <1>2, <1>7
<1>9. \A i \in 1 .. n : PassiveOn(rows[i].entry) \in Int
  BY PassiveInt
<1>10. ASSUME NEW w \in [1 .. n -> Int]  PROVE w \in Seq(Int) /\ Len(w) = n
  BY <1>1
<1>11. /\ s.pnl \in [1 .. n -> Int] /\ s.margin \in [1 .. n -> Int]
       /\ s.passive \in [1 .. n -> Int] /\ [i \in 1 .. n |-> fed[i].iv] \in [1 .. n -> Int]
  BY <1>5, <1>6, <1>8, <1>9
<1>12. s.factor \in [1 .. n -> Int]
    BY <1>5, <1>6, <1>8
<1>13. \A i \in 1 .. n : /\ s.passive[i] = PassiveOn(rows[i].entry)
                         /\ s.factor[i] = fed[i].iv - fed[i].rv
  BY <1>5, <1>6
<1>14. s.n = n /\ s.regime = RegimeLabels([i \in 1 .. n |-> fed[i].iv])
  BY <1>3, <1>5, <1>6
<1>15. /\ s.pnl \in Seq(Int) /\ Len(s.pnl) = n /\ s.margin \in Seq(Int) /\ Len(s.margin) = n
       /\ s.passive \in Seq(Int) /\ Len(s.passive) = n
       /\ s.factor \in Seq(Int) /\ Len(s.factor) = n /\ [i \in 1 .. n |-> fed[i].iv] \in Seq(Int)
  BY <1>10, <1>11, <1>12
<1> QED BY <1>1, <1>13, <1>14, <1>15 DEF SeriesIs, rows, fed, n, s

(* What a resample returns is a number. *)
LEMMA ResampledInt ==
  ASSUME NEW s, s.n \in Nat, s.n > 0, s.pnl \in Seq(Int), s.margin \in Seq(Int),
         Len(s.pnl) = s.n, Len(s.margin) = s.n,
         NEW starts \in [1 .. BlockCount(s.n) -> 0 .. s.n - Block(s.n)]
  PROVE  Resampled(s, starts) \in Int
<1> DEFINE n == s.n
           B == Block(n)
           N == BlockCount(n)
           rows(b) == starts[b] + 1 .. starts[b] + B
           laid(col) == [b \in DOMAIN starts |-> SumOver(col, rows(b))]
<1>1. n \in Nat /\ n > 0
  OBVIOUS
<1>2. B \in Int /\ B >= 1 /\ B <= n
  <2> HIDE DEF n
  <2> DEFINE m == Min({BlockLen, n})
  <2>1. BlockLen \in Int /\ n \in Int
    BY <1>1, EdgeAssumption
  <2>2. m = IF BlockLen <= n THEN BlockLen ELSE n
    BY <2>1 DEF Min
  <2>3. m \in Int /\ m <= n
    BY <2>1, <2>2
  <2>4. B = Max({1, m})
    BY DEF Block
  <2> HIDE DEF m
  <2>5. 1 \in Int
    OBVIOUS
  <2>6. Max({1, m}) \in {1, m} /\ Max({1, m}) >= 1 /\ Max({1, m}) >= m
    BY <2>3, <2>5, MaxOfTwo
  <2> HIDE DEF B
  <2> QED BY <1>1, <2>3, <2>4, <2>6
<1>3. N \in Int
  <2> HIDE DEF n, B
  <2>1. N = (n + B - 1) \div B
    BY DEF BlockCount, B
  <2>2. B \in Nat \ {0} /\ n + B - 1 \in Int
    BY <1>1, <1>2
  <2> QED BY <2>1, <2>2, QuotientsOrdered
<1> HIDE DEF N
<1>4. DOMAIN starts = 1 .. N /\ \A b \in 1 .. N : starts[b] \in 0 .. n - B
  BY DEF N
<1> HIDE DEF n, B
<1>5. ASSUME NEW col \in Seq(Int), Len(col) = n  PROVE Total(laid(col)) \in Int
  <2>1. ASSUME NEW b \in 1 .. N  PROVE SumOver(col, rows(b)) \in Int
    <3>1. starts[b] \in Int /\ starts[b] >= 0 /\ starts[b] <= n - B
      BY <1>1, <1>2, <1>4
    <3> DEFINE x == starts[b] + 1
               y == starts[b] + B
    <3>2. x \in Int /\ y \in Int /\ x >= 1 /\ y <= n
        BY <1>1, <1>2, <3>1
    <3> HIDE DEF x, y
    <3>3. IsFiniteSet(x .. y)
      BY <3>2, FS_Interval
    <3>4. \A i \in x .. y : i \in 1 .. n
      BY <1>1, <3>2
    <3>5. \A i \in x .. y : col[i] \in Int
      BY <1>5, <3>4
    <3>6. Sum(col, x .. y) \in Int
      BY <3>3, <3>5, SumInt
    <3> QED BY <3>6, SumOverIs DEF x, y
  <2> DEFINE w == laid(col)
  <2>2. DOMAIN w = 1 .. N /\ \A b \in 1 .. N : w[b] \in Int
    BY <1>4, <2>1
  <2> HIDE DEF w
  <2>3. IsFiniteSet(1 .. N)
    BY <1>3, CountTo
  <2>4. Sum(w, DOMAIN w) \in Int
    BY <2>2, <2>3, SumInt
  <2>5. Total(w) \in Int
    BY <2>4, TotalIsSum
  <2> QED BY <2>5 DEF w
<1> DEFINE M == Total(laid(s.margin))
           P == Total(laid(s.pnl))
<1>6. M \in Int /\ P \in Int
  <2> HIDE DEF laid
  <2>1. M \in Int
    BY <1>5 DEF n
  <2>2. P \in Int
    BY <1>5 DEF n
  <2> QED BY <2>1, <2>2
<1>7. Resampled(s, starts) = IF M <= 0 THEN 0 ELSE (1000 * P) \div M
  BY DEF Resampled, B, n
<1> HIDE DEF M, P
<1>8. M > 0 => (1000 * P) \div M \in Int
  <2> SUFFICES ASSUME M > 0  PROVE (1000 * P) \div M \in Int
    OBVIOUS
  <2>1. M \in Nat \ {0} /\ 1000 * P \in Int
    BY <1>6
  <2> QED BY <2>1, QuotientsOrdered
<1> QED BY <1>6, <1>7, <1>8

LEMMA InitEdgeInv == InitEdge => EdgeInv
<1> SUFFICES ASSUME InitEdge  PROVE EdgeInv
  OBVIOUS
<1>1. /\ takes = <<>> /\ others = <<>> /\ feed = Nobody /\ verdict = "none"
  BY DEF InitEdge
<1>2. takes \in Seq(TakeSet) /\ others \in Seq(OtherSet)
  BY <1>1
<1>3. ~feed.passive
  BY <1>1 DEF Nobody
<1> QED BY <1>1, <1>2, <1>3 DEF EdgeInv

LEMMA GoesStay ==
  ASSUME UNCHANGED <<series, feed, purge, cutRom, luck>>  PROVE Goes(series)' = Goes(series)
BY DEF Goes, SurvivesCut, SurvivesStress, StressRows, WalksForward, BeatsBenchmarks, Interval,
       OutRows, OutStart, RandomRom

LEMMA EdgeStutters == EdgeInv /\ UNCHANGED edgeVars => EdgeInv'
<1> SUFFICES ASSUME EdgeInv, UNCHANGED edgeVars  PROVE EdgeInv'
  OBVIOUS
<1>1. UNCHANGED <<takes, others, series, feed, purge, cutRom, luck, verdict>>
  BY DEF edgeVars
<1>2. Goes(series)' = Goes(series)
  BY <1>1, GoesStay
<1>3. SeriesBy(feed.by)' = SeriesBy(feed.by)
  BY <1>1 DEF SeriesBy, PassiveOn
<1> QED BY <1>1, <1>2, <1>3 DEF EdgeInv, TwiceOnADay

LEMMA EdgeNextKeeps == EdgeInv /\ EdgeNext => EdgeInv'
<1> SUFFICES ASSUME EdgeInv, EdgeNext  PROVE EdgeInv'
  OBVIOUS
<1>0. feed = Nobody => ~feed.passive
  BY DEF Nobody
<1>1. ASSUME NEW t \in TakeSet, AddTake(t)  PROVE EdgeInv'
    BY <1>0, <1>1 DEF AddTake, EdgeInv
<1>2. ASSUME NEW t \in OtherSet, AddOther(t)  PROVE EdgeInv'
    BY <1>0, <1>2 DEF AddOther, EdgeInv
<1>3. ASSUME NEW f \in Feeds, BuildSeries(f)  PROVE EdgeInv'
  <2>1. /\ feed = Nobody /\ takes # <<>> /\ feed' = f /\ series' = SeriesBy(f.by)
        /\ verdict' = IF \/ f.passive /\ (TwiceOnADay(takes) \/ TwiceOnADay(others))
                         \/ \E i \in DOMAIN takes : takes[i].margin < 0
                      THEN "rejected" ELSE verdict
        /\ UNCHANGED <<takes, others, purge, cutRom, luck>>
    BY <1>3 DEF BuildSeries
  <2>2. verdict = "none" /\ verdict' \in {"none", "rejected"}
    BY <2>1 DEF EdgeInv
  <2>3. SeriesBy(feed.by)' = SeriesBy(f.by)
    BY <2>1 DEF SeriesBy, PassiveOn
  <2>4. TwiceOnADay(others)' = TwiceOnADay(others)
    BY <2>1 DEF TwiceOnADay
  <2>5. f.by # "nobody"
    BY <1>3 DEF Feeds
  <2>6. feed' # Nobody
    BY <2>1, <2>5 DEF Nobody
  <2>7. feed'.passive /\ verdict' # "rejected" => ~TwiceOnADay(others)
    BY <2>1
  <2> QED BY <2>1, <2>2, <2>3, <2>4, <2>6, <2>7 DEF EdgeInv
<1>4. ASSUME NEW gap \in {0, 1}, NEW cut \in {None, 5}, Restate(gap, cut)  PROVE EdgeInv'
  <2> DEFINE n == series.n
             blocks == [1 .. BlockCount(n) -> 0 .. n - Block(n)]
  <2>1. /\ feed # Nobody /\ verdict = "none" /\ purge' = gap
        /\ UNCHANGED <<takes, others, series, feed>>
        /\ verdict' = IF Goes(series)' THEN "GO" ELSE "NO-GO"
        /\ \E rows \in kSubset(TakeCount(n), 1 .. n), s, t \in blocks :
             luck' = [picked |-> rows, roms |-> <<Resampled(series, s), Resampled(series, t)>>]
    BY <1>4 DEF Restate
  <2>2. PICK rows \in kSubset(TakeCount(n), 1 .. n), s \in blocks, t \in blocks :
          luck' = [picked |-> rows, roms |-> <<Resampled(series, s), Resampled(series, t)>>]
    BY <2>1
  <2>3. SeriesIs(series, feed.by)
    BY <2>1, SeriesMade DEF EdgeInv
  <2>4. Resampled(series, s) \in Int /\ Resampled(series, t) \in Int
      BY <2>3, ResampledInt DEF SeriesIs
  <2>5. rows \in SUBSET (1 .. n)
    BY DEF kSubset
  <2>6. luck'.picked \in SUBSET (1 .. series.n) /\ \E a, b \in Int : luck'.roms = <<a, b>>
    <3> HIDE DEF blocks
    <3>1. luck'.picked = rows /\ luck'.roms = <<Resampled(series, s), Resampled(series, t)>>
      BY <2>2
    <3> QED BY <2>4, <2>5, <3>1
  <2>7. SeriesBy(feed.by)' = SeriesBy(feed.by) /\ TwiceOnADay(others)' = TwiceOnADay(others)
    BY <2>1 DEF SeriesBy, PassiveOn, TwiceOnADay
  <2>8. verdict' = "GO" => Goes(series)'
    BY <2>1
  <2>9. verdict' \in {"GO", "NO-GO"} /\ purge' \in {0, 1}
    BY <2>1
  <2>10. feed.passive => ~TwiceOnADay(others)
    BY <2>1 DEF EdgeInv
  <2> QED BY <2>1, <2>6, <2>7, <2>8, <2>9, <2>10 DEF EdgeInv
<1> QED BY <1>1, <1>2, <1>3, <1>4 DEF EdgeNext

(* What is known of the series once it is built. *)
LEMMA SeriesKnown ==
  ASSUME EdgeInv, feed # Nobody
  PROVE  /\ SeriesIs(series, feed.by) /\ IsFiniteSet(1 .. series.n)
         /\ Cardinality(1 .. series.n) = series.n
         /\ \A i \in 1 .. series.n : /\ series.pnl[i] \in Int /\ series.margin[i] \in Int
                                     /\ series.passive[i] \in Int /\ series.factor[i] \in Int
         /\ DOMAIN series.pnl = 1 .. series.n /\ DOMAIN series.passive = 1 .. series.n
<1>1. SeriesIs(series, feed.by)
  BY SeriesMade DEF EdgeInv
<1> DEFINE n == series.n
<1>2. /\ n \in Nat /\ series.pnl \in Seq(Int) /\ series.margin \in Seq(Int)
      /\ series.passive \in Seq(Int) /\ series.factor \in Seq(Int)
      /\ Len(series.pnl) = n /\ Len(series.margin) = n /\ Len(series.passive) = n
      /\ Len(series.factor) = n
  BY <1>1 DEF SeriesIs
<1> HIDE DEF n
<1>3. ASSUME NEW w \in Seq(Int), Len(w) = n
      PROVE  DOMAIN w = 1 .. n /\ \A i \in 1 .. n : w[i] \in Int
  BY <1>2, <1>3
<1>4. IsFiniteSet(1 .. n) /\ Cardinality(1 .. n) = n
  BY <1>2, CountTo
<1> QED BY <1>1, <1>2, <1>3, <1>4 DEF n

(* A GO made more than the passive leg. *)
LEMMA GoBeatsPassive ==
  ASSUME EdgeInv, verdict = "GO"
  PROVE  /\ feed # Nobody /\ feed.passive
         /\ Total(series.pnl) > Total(series.passive)
<1>1. feed # Nobody /\ Goes(series)
  BY DEF EdgeInv
<1> DEFINE s == series
           D == 1 .. s.n
           between == Interval(s)
           own == Rom(s.pnl, s.margin)
           other == Rom(s.passive, s.margin)
           half == (between.hi - between.lo) \div 2
<1>2. feed.passive /\ 1000 * own - 1000 * other > half
  BY <1>1 DEF Goes, BeatsBenchmarks
<1>3. /\ DOMAIN s.pnl = D /\ DOMAIN s.passive = D /\ IsFiniteSet(D)
      /\ \A i \in D : s.pnl[i] \in Int /\ s.margin[i] \in Int /\ s.passive[i] \in Int
  BY <1>1, SeriesKnown
<1>4. own = RomOver(s.pnl, s.margin, D) /\ other = RomOver(s.passive, s.margin, D)
  BY <1>3 DEF Rom
<1>5. /\ own \in Int /\ other \in Int
      /\ own > other => Sum(s.pnl, D) > Sum(s.passive, D)
  <2> HIDE DEF D, s, own, other
  <2>1. /\ RomOver(s.pnl, s.margin, D) \in Int /\ RomOver(s.passive, s.margin, D) \in Int
        /\ RomOver(s.pnl, s.margin, D) > RomOver(s.passive, s.margin, D)
             => Sum(s.pnl, D) > Sum(s.passive, D)
    BY <1>3, RomOrdered
  <2> QED BY <1>4, <2>1
<1>6. half \in Int /\ half >= 0
  <2>1. PICK a \in Int, b \in Int : luck.roms = <<a, b>>
    BY DEF EdgeInv
  <2>2. Percentile(luck.roms, 25) \in Int /\ Percentile(luck.roms, 975) \in Int
        /\ Percentile(luck.roms, 25) <= Percentile(luck.roms, 975)
    BY <2>1, TwoEnds
  <2>3. \/ between.lo = 1000 * own /\ between.hi = 1000 * own
        \/ between.lo = Percentile(luck.roms, 25) /\ between.hi = Percentile(luck.roms, 975)
    BY DEF Interval
  <2> HIDE DEF between, own
  <2>4. between.lo \in Int /\ between.hi \in Int /\ between.lo <= between.hi
    BY <1>5, <2>2, <2>3
  <2>5. \A l, h \in Int : l <= h => (h - l) \div 2 \in Int /\ (h - l) \div 2 >= 0
    OBVIOUS
  <2> QED BY <2>4, <2>5
<1> HIDE DEF half, own, other
<1>7. own > other
  BY <1>2, <1>5, <1>6
<1>8. Total(s.pnl) = Sum(s.pnl, D) /\ Total(s.passive) = Sum(s.passive, D)
  BY <1>3, TotalIsSum
<1> QED BY <1>1, <1>2, <1>5, <1>7, <1>8

LEMMA SelectionCounts == ASSUME EdgeInv  PROVE NoSelectionNoGo
<1> SUFFICES ASSUME verdict = "GO", series.passive = series.pnl  PROVE FALSE
  BY DEF NoSelectionNoGo
<1>1. feed # Nobody /\ Total(series.pnl) > Total(series.pnl)
  BY GoBeatsPassive
<1>2. Total(series.pnl) \in Int
    BY <1>1, SeriesKnown, SpreadTells DEF SeriesIs
<1> QED BY <1>1, <1>2

LEMMA GoesAreProven == ASSUME EdgeInv  PROVE GoIsProven
<1> SUFFICES ASSUME verdict = "GO"
             PROVE  /\ Total(series.pnl) > 0 /\ SumOver(series.pnl, OutRows(series.n)) > 0
                    /\ Total(series.pnl) > Total(series.passive)
                    /\ feed.passive /\ feed.labelled /\ cutRom # None /\ cutRom > 0
                    /\ \E i \in 1 .. series.n : series.regime[i] = "stress"
                    /\ InEnd(series.n) + 2 * purge = OutStart(series.n)
  BY DEF GoIsProven
<1> DEFINE s == series
           n == s.n
           rows == OutRows(n)
<1>1. feed # Nobody /\ Goes(s) /\ purge \in {0, 1}
  BY DEF EdgeInv
<1>2. /\ cutRom # None /\ cutRom > 0 /\ Total(s.pnl) > 0 /\ feed.labelled /\ StressRows(s) # {}
      /\ RomOver(s.pnl, s.margin, rows) > 0
  BY <1>1 DEF Goes, SurvivesCut, SharpeClears, SurvivesStress, WalksForward
<1>3. \E i \in 1 .. n : s.regime[i] = "stress"
  BY <1>2 DEF StressRows
<1>4. /\ n \in Nat /\ n > 0
      /\ \A i \in 1 .. n : s.pnl[i] \in Int /\ s.margin[i] \in Int
  BY <1>1, SeriesKnown DEF SeriesIs
<1> HIDE DEF s, n
<1> DEFINE x == Split2(n)
           o == OutStart(n)
<1>5. x \in Int /\ x >= 1
  <2> DEFINE y == (7 * n) \div 10
  <2>1. y \in Int /\ 1 \in Int
    BY <1>4
  <2>2. x = Max({1, y})
    BY <1>4 DEF Split2
  <2> HIDE DEF y, x
  <2>3. Max({1, y}) \in {1, y} /\ Max({1, y}) >= 1 /\ Max({1, y}) >= y
    BY <2>1, MaxOfTwo
  <2> QED BY <2>1, <2>2, <2>3
<1>6. o = IF n <= x + purge THEN n ELSE x + purge
  <2>1. o = Min({n, x + purge})
    BY DEF OutStart
  <2> HIDE DEF o, x
  <2>2. n \in Int /\ x + purge \in Int
    BY <1>1, <1>4, <1>5
  <2> QED BY <2>1, <2>2 DEF Min
<1>7. rows = o + 1 .. n
  BY DEF OutRows
<1>8. InEnd(n) = x - purge
  <2>1. InEnd(n) = Max({0, x - purge})
    BY DEF InEnd
  <2> HIDE DEF x
  <2>2. 0 \in Int /\ x - purge \in Int /\ x - purge >= 0
    BY <1>1, <1>5
  <2>3. /\ Max({0, x - purge}) \in {0, x - purge}
        /\ Max({0, x - purge}) >= 0 /\ Max({0, x - purge}) >= x - purge
    BY <2>2, MaxOfTwo
  <2> QED BY <2>1, <2>2, <2>3
<1> HIDE DEF x, o, rows
<1>9. o \in Int /\ o >= 0
  BY <1>1, <1>4, <1>5, <1>6
<1>10. IsFiniteSet(rows) /\ \A i \in rows : s.pnl[i] \in Int /\ s.margin[i] \in Int
    BY <1>4, <1>7, <1>9, FS_Interval
<1>11. SumOver(s.pnl, rows) > 0 /\ rows # {}
  BY <1>2, <1>10, RomEarned
<1>12. o < n
  BY <1>4, <1>7, <1>9, <1>11
<1>13. o = x + purge
  BY <1>4, <1>6, <1>12
<1>14. InEnd(n) + 2 * purge = o
  BY <1>1, <1>5, <1>8, <1>13
<1>15. Total(s.pnl) > Total(s.passive) /\ feed.passive
  BY GoBeatsPassive DEF s
<1> QED BY <1>2, <1>3, <1>11, <1>14, <1>15 DEF s, n, o, rows

LEMMA WorstIsWorst == ASSUME EdgeInv  PROVE CvarIsWorst
<1> DEFINE p == series.pnl
           n == Len(p)
           D == DOMAIN p
<1> SUFFICES ASSUME Built, NEW percent \in {5, 50}, NEW at \in kSubset(Cvar(p, percent)[2], D)
             PROVE  Cvar(p, percent)[1] <= SumOver(p, at)
  BY DEF CvarIsWorst
<1>1. feed # Nobody
  BY DEF Built
<1>2. n \in Nat /\ n > 0 /\ p \in Seq(Int) /\ n = series.n
  BY <1>1, SeriesKnown DEF SeriesIs
<1>3. D = 1 .. n /\ IsFiniteSet(D) /\ Cardinality(D) = n /\ \A i \in D : i \in Int /\ p[i] \in Int
  BY <1>1, <1>2, SeriesKnown
<1> DEFINE k == Max({1, (percent * n + 99) \div 100})
<1>4. Cvar(p, percent) = <<Total(SubSeq(Ascending(p, D), 1, k)), k>>
  BY DEF Cvar
<1>5. at \in SUBSET D /\ Cardinality(at) = k
  BY <1>4 DEF kSubset
<1> HIDE DEF p, n, D
<1>6. k \in 1 .. n
  <2> DEFINE y == (percent * n + 99) \div 100
  <2>1. 1 \in Int /\ y \in Int /\ y <= n
      BY <1>2
  <2> HIDE DEF y
  <2>2. Max({1, y}) \in {1, y} /\ Max({1, y}) >= 1 /\ Max({1, y}) >= y
    BY <2>1, MaxOfTwo
  <2>3. Max({1, y}) \in 1 .. n
    BY <1>2, <2>1, <2>2
  <2> QED BY <2>3 DEF y
<1> HIDE DEF k
<1>7. Total(SubSeq(Ascending(p, D), 1, k)) <= Sum(p, at)
    BY <1>3, <1>5, <1>6, LeastSum
<1> QED BY <1>4, <1>7, SumOverIs

LEMMA FitsHold == ASSUME EdgeInv  PROVE FitWithinData
<1> SUFFICES ASSUME Built
             PROVE  Fit(series.pnl, series.factor).sxy * Fit(series.pnl, series.factor).sxy
                      <= Fit(series.pnl, series.factor).sxx * Fit(series.pnl, series.factor).syy
  BY DEF FitWithinData
<1>1. feed # Nobody
  BY DEF Built
<1> DEFINE y == series.pnl
           x == series.factor
<1>2. y \in Seq(Int) /\ x \in Seq(Int) /\ Len(x) = Len(y) /\ Len(y) > 0
  BY <1>1, SeriesKnown DEF SeriesIs
<1> HIDE DEF x, y
<1>3. y # <<>>
  BY <1>2
<1>4. Fit(y, x).sxy * Fit(y, x).sxy <= Fit(y, x).sxx * Fit(y, x).syy
  BY <1>2, <1>3, FitBound
<1> QED BY <1>4 DEF x, y

LEMMA RowsOfOneDay == ASSUME EdgeInv  PROVE RowsAligned
<1> DEFINE s == series
           rows == Chronological(takes)
           fed == FedOf(feed.by)
           sorted == \A i, j \in DOMAIN takes : i < j => takes[i].entry <= takes[j].entry
<1> SUFFICES ASSUME Built
             PROVE  /\ feed.passive =>
                         \A i \in 1 .. s.n, j \in DOMAIN others :
                           others[j].entry = rows[i].entry => s.passive[i] = others[j].net
                    /\ feed.by = "raven" \/ sorted =>
                         /\ \A i \in 1 .. s.n : s.factor[i] = rows[i].iv - rows[i].rv
                         /\ \A i, j \in 1 .. s.n :
                              rows[i].iv < rows[j].iv =>
                                <<s.regime[i], s.regime[j]>> \notin
                                  {<<"stress", "calm">>, <<"stress", "mid">>, <<"mid", "calm">>}
  BY DEF RowsAligned
<1>1. feed # Nobody /\ verdict = "none"
  BY DEF Built
<1>2. /\ \A i \in 1 .. s.n : /\ s.passive[i] = PassiveOn(rows[i].entry)
                             /\ s.factor[i] = fed[i].iv - fed[i].rv
      /\ [i \in 1 .. s.n |-> fed[i].iv] \in Seq(Int)
      /\ s.regime = RegimeLabels([i \in 1 .. s.n |-> fed[i].iv])
  BY <1>1, SeriesKnown DEF SeriesIs
<1>3. takes \in Seq(TakeSet) /\ others \in Seq(OtherSet)
  BY DEF EdgeInv
<1>4. ASSUME feed.passive, NEW i \in 1 .. s.n, NEW j \in DOMAIN others,
             others[j].entry = rows[i].entry
      PROVE  s.passive[i] = others[j].net
  <2> DEFINE at == {k \in DOMAIN others : others[k].entry = rows[i].entry}
  <2>1. ~TwiceOnADay(others)
    BY <1>1, <1>4 DEF EdgeInv
  <2>2. at = {j}
    BY <1>4, <2>1 DEF TwiceOnADay
  <2>3. PassiveOn(rows[i].entry) = IF at = {} THEN 0 ELSE others[Max(at)].net
    BY DEF PassiveOn
  <2>4. j \in Int
    BY <1>3
  <2>5. Max({j}) = j
    BY <2>4, MaxOfOne
  <2> HIDE DEF rows, s
  <2> QED BY <1>2, <2>2, <2>3, <2>5
<1>5. feed.by = "raven" \/ sorted => fed = rows
  <2>1. ASSUME sorted  PROVE rows = takes
      BY <1>3, <2>1, EdgeAssumption, SortedStays
  <2> QED BY <2>1 DEF FedOf
<1> HIDE DEF s, rows, fed, sorted
<1>6. ASSUME fed = rows, NEW i \in 1 .. s.n, NEW j \in 1 .. s.n, rows[i].iv < rows[j].iv
      PROVE  <<s.regime[i], s.regime[j]>> \notin
               {<<"stress", "calm">>, <<"stress", "mid">>, <<"mid", "calm">>}
  <2> DEFINE ivs == [k \in 1 .. s.n |-> fed[k].iv]
  <2>1. ivs \in Seq(Int) /\ i \in DOMAIN ivs /\ j \in DOMAIN ivs /\ ivs[i] < ivs[j]
        /\ s.regime = RegimeLabels(ivs)
    BY <1>2, <1>6
  <2> HIDE DEF ivs
  <2> QED BY <2>1, LabelsOrdered
<1>7. feed.by = "raven" \/ sorted => \A i \in 1 .. s.n : s.factor[i] = rows[i].iv - rows[i].rv
  BY <1>2, <1>5
<1> QED BY <1>4, <1>5, <1>6, <1>7 DEF s, rows, sorted

LEMMA EdgeHolds == ASSUME EdgeInv  PROVE EdgeSound
BY SelectionCounts, GoesAreProven, WorstIsWorst, FitsHold, RowsOfOneDay DEF EdgeSound

(* The restatement of an edge (research/backtest/fno_edge_restate.py,      *)
(* restate_edge()): a GO made money in the whole and out of sample and     *)
(* more than the passive leg, with nothing missing; the worst part is the  *)
(* worst; a fit explains no more than there is; and rows are of one day;   *)
(* for every set of trades, every draw, every block length and every bar.  *)
THEOREM EdgeAlwaysSound == Spec => []EdgeSound
<1>1. Init => EdgeInv
  BY InitEdgeInv DEF Init
<1>2. EdgeInv /\ [Next]_vars => EdgeInv'
  <2> SUFFICES ASSUME EdgeInv, [Next]_vars  PROVE EdgeInv'
    OBVIOUS
  <2>1. EdgeNext \/ UNCHANGED edgeVars
    BY DEF Next, vars
  <2> QED BY <2>1, EdgeNextKeeps, EdgeStutters
<1>3. EdgeInv => EdgeSound
  BY EdgeHolds
<1> QED BY <1>1, <1>2, <1>3, PTL DEF Spec

-----------------------------------------------------------------------------
(* The vol column. *)

(* A vol from any sum of squares is a number. *)
LEMMA AnnualNat == ASSUME NEW num \in Nat, NEW den \in Nat \ {0}  PROVE Annual(num, den) \in Nat
<1> DEFINE q == (252 * num) \div den
           Root(r) == r * r <= q /\ q < (r + 1) * (r + 1)
<1>1. q \in Nat
    BY QuotientsOrdered
<1>2. Annual(num, den) = CHOOSE r \in 0 .. q : Root(r)
  BY DEF Annual
<1> HIDE DEF q
<1>3. \E r \in 0 .. q : Root(r)
  BY <1>1, RootExists
<1> HIDE DEF Root
<1>4. (CHOOSE r \in 0 .. q : Root(r)) \in 0 .. q
  BY <1>3
<1> QED BY <1>1, <1>2, <1>4

(* The last m of a sequence, each by its place in the whole. *)
LEMMA LastOfIs ==
  ASSUME NEW S, NEW s \in Seq(S), NEW m \in Nat, m <= Len(s)
  PROVE  /\ LastOf(s, m) \in Seq(S) /\ Len(LastOf(s, m)) = m /\ DOMAIN LastOf(s, m) = 1 .. m
         /\ \A j \in 1 .. m : LastOf(s, m)[j] = s[Len(s) - m + j]
<1> DEFINE a == Len(s) - m + 1
           n == Len(s)
<1>1. n \in Nat /\ a \in Int /\ 1 <= a /\ a <= n + 1 /\ n - a + 1 = m
  OBVIOUS
<1>2. LastOf(s, m) = SubSeq(s, a, n)
  BY DEF LastOf
<1>3. SubSeq(s, a, n) = [j \in 1 .. n - a + 1 |-> s[a + j - 1]]
  BY <1>1
<1> HIDE DEF a
<1>4. SubSeq(s, a, n) = [j \in 1 .. m |-> s[a + j - 1]]
  BY <1>1, <1>3
<1>5. \A j \in 1 .. m : a + j - 1 \in 1 .. n /\ a + j - 1 = n - m + j
  BY <1>1
<1>6. \A j \in 1 .. n : s[j] \in S
  OBVIOUS
<1> HIDE DEF n
<1>7. SubSeq(s, a, n) \in [1 .. m -> S]
  BY <1>4, <1>5, <1>6
<1>8. SubSeq(s, a, n) \in Seq(S) /\ Len(SubSeq(s, a, n)) = m
  <2> DEFINE q == SubSeq(s, a, n)
  <2>1. q \in [1 .. m -> S]
    BY <1>7
  <2> HIDE DEF q
  <2>2. q \in Seq(S) /\ Len(q) = m
    BY <2>1
  <2> QED BY <2>2 DEF q
<1>9. \A j \in 1 .. m : SubSeq(s, a, n)[j] = s[n - m + j]
  BY <1>4, <1>5
<1> QED BY <1>2, <1>4, <1>8, <1>9 DEF n

(* The window of returns of a day that has one. *)
WindowAt(i) == SubSeq(LogReturns(Closes), i - VolWindow, i - 1)
NoGapAt(i) == \A j \in 0 .. VolWindow : Closes[i - VolWindow + j] # None

LEMMA ColumnIs ==
  ASSUME NEW i \in DOMAIN bars
  PROVE  RealizedSeries(Closes, VolWindow)[i]
           = IF i <= VolWindow \/ None \in Range(WindowAt(i)) THEN None
             ELSE Annual(Spread2(WindowAt(i)), VolWindow * (VolWindow - 1))
BY DEF RealizedSeries, WindowAt, Closes

LEMMA ClosesAre ==
  ASSUME bars \in Seq(DayBars)
  PROVE  /\ Closes \in Seq(Nat \cup {None}) /\ Len(Closes) = Len(bars) /\ Len(bars) \in Nat
         /\ DOMAIN bars = 1 .. Len(bars) /\ DOMAIN Closes = 1 .. Len(bars)
         /\ \A i \in 1 .. Len(bars) : Closes[i] \in Nat \cup {None}
         /\ \A i, j \in 1 .. Len(bars) :
              Closes[i] # None /\ Closes[j] # None => Closes[i] - Closes[j] # None
<1>1. Len(bars) \in Nat /\ DOMAIN bars = 1 .. Len(bars)
  OBVIOUS
<1>2. \A i \in 1 .. Len(bars) : bars[i] \in DayBars
  OBVIOUS
<1>3. \A i \in 1 .. Len(bars) : bars[i].c \in Nat \cup {None}
  BY <1>2, SeriesAssumption
<1>4. \A i \in 1 .. Len(bars) : Closes[i] = bars[i].c
  BY <1>1 DEF Closes
<1>5. Closes \in [1 .. Len(bars) -> Nat \cup {None}]
  BY <1>1, <1>3 DEF Closes
<1>6. Closes \in Seq(Nat \cup {None}) /\ Len(Closes) = Len(bars)
  BY <1>1, <1>5
<1>7. \A i, j \in 1 .. Len(bars) :
        Closes[i] # None /\ Closes[j] # None => Closes[i] - Closes[j] # None
  BY <1>2, <1>4, SeriesAssumption
<1> QED BY <1>1, <1>3, <1>4, <1>5, <1>6, <1>7

LEMMA WindowIs ==
  ASSUME bars \in Seq(DayBars), NEW i \in DOMAIN bars, i > VolWindow
  PROVE  /\ None \notin Range(WindowAt(i)) <=> NoGapAt(i)
         /\ NoGapAt(i) =>
              WindowAt(i) = [j \in 1 .. VolWindow |->
                               Closes[i - VolWindow + j] - Closes[i - VolWindow + j - 1]]
         /\ NoGapAt(i) => WindowAt(i) \in Seq(Int)
         /\ i - VolWindow \in 1 .. i /\ i \in Nat
         /\ \A j \in 0 .. VolWindow : Closes[i - VolWindow + j] \in Nat \cup {None}
<1> DEFINE w == VolWindow
           n == Len(bars)
           cl == Closes
           a == i - w
           Away(k) == None \in {cl[k], cl[k + 1]}
<1>1. /\ w \in Nat /\ w >= 2 /\ n \in Nat /\ i \in 1 .. n /\ a \in 1 .. i /\ i = a + w
  BY SeriesAssumption, ClosesAre
<1>2. /\ \A k \in 1 .. n : cl[k] \in Nat \cup {None}
      /\ \A x, y \in 1 .. n : cl[x] # None /\ cl[y] # None => cl[x] - cl[y] # None
      /\ Len(cl) = n
  BY ClosesAre
<1> HIDE DEF w, n, cl, a
<1>3. LogReturns(cl) = [k \in 1 .. n - 1 |-> IF Away(k) THEN None ELSE cl[k + 1] - cl[k]]
  BY <1>2 DEF LogReturns
<1>4. WindowAt(i) = [j \in 1 .. w |-> LogReturns(cl)[a + j - 1]]
  <2>1. a \in Int /\ i - 1 \in Int /\ (i - 1) - a + 1 = w
    BY <1>1
  <2>2. LogReturns(cl) \in Seq(Int)
    <3>1. \A k \in 1 .. n - 1 : LogReturns(cl)[k] \in Int
      <4> SUFFICES ASSUME NEW k \in 1 .. n - 1  PROVE LogReturns(cl)[k] \in Int
        OBVIOUS
      <4>1. k \in 1 .. n /\ k + 1 \in 1 .. n
        BY <1>1
      <4>2. ~Away(k) => cl[k] \in Nat /\ cl[k + 1] \in Nat
        BY <1>2, <4>1
      <4>3. None \in Int
        BY DEF None
      <4>4. LogReturns(cl)[k] = IF Away(k) THEN None ELSE cl[k + 1] - cl[k]
        BY <1>3
      <4> HIDE DEF Away
      <4> QED BY <4>2, <4>3, <4>4
    <3>2. LogReturns(cl) \in [1 .. n - 1 -> Int] /\ n - 1 \in Nat
      BY <1>1, <1>3, <3>1
    <3> QED BY <3>2
  <2>3. Len(LogReturns(cl)) = n - 1
    BY <1>1, <1>3
  <2>4. SubSeq(LogReturns(cl), a, i - 1) = [j \in 1 .. (i - 1) - a + 1 |-> LogReturns(cl)[a + j - 1]]
    BY <1>1, <2>1, <2>2, <2>3
  <2>5. WindowAt(i) = SubSeq(LogReturns(cl), a, i - 1)
    BY DEF WindowAt, a, w, cl
  <2> QED BY <2>1, <2>4, <2>5
<1>5. \A j \in 1 .. w :
        /\ a + j - 1 \in 1 .. n - 1 /\ a + j \in 1 .. n /\ a + j - 1 \in 1 .. n /\ (a + j - 1) + 1 = a + j
  BY <1>1
<1>6. \A j \in 1 .. w : WindowAt(i)[j]
        = IF None \in {cl[a + j - 1], cl[a + j]} THEN None ELSE cl[a + j] - cl[a + j - 1]
  BY <1>3, <1>4, <1>5
<1>7. \A j \in 0 .. w : a + j \in 1 .. n
  BY <1>1
<1>8. NoGapAt(i) <=> \A j \in 0 .. w : cl[a + j] # None
  BY DEF NoGapAt, a, w, cl
<1>9. ASSUME NoGapAt(i)
      PROVE  /\ \A j \in 1 .. w : /\ WindowAt(i)[j] = cl[a + j] - cl[a + j - 1]
                                  /\ WindowAt(i)[j] # None /\ WindowAt(i)[j] \in Int
             /\ None \notin Range(WindowAt(i)) /\ WindowAt(i) \in Seq(Int)
             /\ WindowAt(i) = [j \in 1 .. w |-> cl[a + j] - cl[a + j - 1]]
  <2>1. ASSUME NEW j \in 1 .. w
        PROVE  /\ WindowAt(i)[j] = cl[a + j] - cl[a + j - 1]
               /\ WindowAt(i)[j] # None /\ WindowAt(i)[j] \in Int
    <3>1. j \in 0 .. w /\ j - 1 \in 0 .. w /\ a + (j - 1) = a + j - 1
      BY <1>1
    <3>2. cl[a + j] # None /\ cl[a + j - 1] # None
      BY <1>8, <1>9, <3>1
    <3>3. cl[a + j] \in Nat /\ cl[a + j - 1] \in Nat
      BY <1>2, <1>5, <3>2
    <3>4. WindowAt(i)[j] = cl[a + j] - cl[a + j - 1]
      BY <1>6, <3>2
    <3>5. cl[a + j] - cl[a + j - 1] # None
      BY <1>2, <1>5, <3>2
    <3> QED BY <3>3, <3>4, <3>5
  <2>2. WindowAt(i) \in [1 .. w -> Int] /\ DOMAIN WindowAt(i) = 1 .. w
    BY <1>4, <2>1
  <2>3. None \notin Range(WindowAt(i))
    BY <2>1, <2>2 DEF Range
  <2>4. WindowAt(i) \in Seq(Int)
    BY <1>1, <2>2
  <2>5. WindowAt(i) = [j \in 1 .. w |-> cl[a + j] - cl[a + j - 1]]
    BY <2>1, <2>2
  <2> QED BY <2>1, <2>3, <2>4, <2>5
<1>10. ASSUME NEW j \in 0 .. w, cl[a + j] = None  PROVE None \in Range(WindowAt(i))
  <2> DEFINE k == IF j = 0 THEN 1 ELSE j
  <2>1. k \in 1 .. w /\ (a + j = a + k \/ a + j = a + k - 1)
    BY <1>1
  <2> HIDE DEF k
  <2>2. WindowAt(i)[k] = None
    BY <1>6, <1>10, <2>1
  <2>3. k \in DOMAIN WindowAt(i)
    BY <1>4, <2>1
  <2> QED BY <2>2, <2>3 DEF Range
<1>11. None \notin Range(WindowAt(i)) <=> NoGapAt(i)
  BY <1>8, <1>9, <1>10
<1>12. NoGapAt(i) => /\ WindowAt(i) \in Seq(Int)
                     /\ WindowAt(i) = [j \in 1 .. w |-> cl[a + j] - cl[a + j - 1]]
  BY <1>9
<1>13. a \in 1 .. i /\ i \in Nat /\ \A j \in 0 .. w : cl[a + j] \in Nat \cup {None}
  BY <1>1, <1>2, <1>7
<1> QED BY <1>11, <1>12, <1>13 DEF w, cl, a

(* Once computed, the column has every value there is. *)
SeriesInv ==
  /\ SeriesTypeOK /\ stored \in Seq(Nat \cup {None}) /\ Len(stored) = Len(bars)
  /\ fresh => \A i \in DOMAIN bars :
                RealizedSeries(Closes, VolWindow)[i] # None =>
                  stored[i] = RealizedSeries(Closes, VolWindow)[i]

LEMMA BarsAre ==
  /\ bars \in BoundedSeq(DayBars, MaxBars) <=> bars \in Seq(DayBars) /\ Len(bars) <= MaxBars
  /\ bars' \in BoundedSeq(DayBars, MaxBars) <=> bars' \in Seq(DayBars) /\ Len(bars') <= MaxBars
<1>1. ASSUME NEW s
      PROVE  s \in BoundedSeq(DayBars, MaxBars) <=> s \in Seq(DayBars) /\ Len(s) <= MaxBars
  <2>1. MaxBars \in Nat
    BY SeriesAssumption
  <2>2. s \in BoundedSeq(DayBars, MaxBars) <=> \E m \in 0 .. MaxBars : s \in [1 .. m -> DayBars]
    BY DEF BoundedSeq, SeqOf
  <2>3. ASSUME NEW m \in 0 .. MaxBars, s \in [1 .. m -> DayBars]
        PROVE  s \in Seq(DayBars) /\ Len(s) <= MaxBars
      BY <2>1, <2>3
  <2>4. ASSUME s \in Seq(DayBars), Len(s) <= MaxBars
        PROVE  Len(s) \in 0 .. MaxBars /\ s \in [1 .. Len(s) -> DayBars]
    BY <2>1, <2>4
  <2> QED BY <2>2, <2>3, <2>4
<1> QED BY <1>1

LEMMA InitSeriesInv == InitSeries => SeriesInv
<1> SUFFICES ASSUME InitSeries  PROVE SeriesInv
  OBVIOUS
<1>1. bars = <<>> /\ stored = <<>> /\ edits = 0 /\ fresh = FALSE
  BY DEF InitSeries
<1>2. MaxBars \in Nat /\ MaxEdits \in Nat
  BY SeriesAssumption
<1>3. bars \in Seq(DayBars) /\ Len(bars) <= MaxBars
  BY <1>1, <1>2
<1>4. DOMAIN stored = DOMAIN bars /\ \A i \in DOMAIN stored : stored[i] \in Nat \cup {None}
  BY <1>1
<1>5. edits \in 0 .. MaxEdits /\ fresh \in BOOLEAN /\ ~fresh
  <2>1. edits \in 0 .. MaxEdits
    BY <1>1, <1>2
  <2>2. fresh \in BOOLEAN /\ ~fresh
    BY <1>1, Zenon
  <2> QED BY <2>1, <2>2
<1>6. stored \in Seq(Nat \cup {None}) /\ Len(stored) = Len(bars)
  BY <1>1
<1> QED BY <1>3, <1>4, <1>5, <1>6, BarsAre DEF SeriesInv, SeriesTypeOK

LEMMA SeriesStutters == SeriesInv /\ UNCHANGED seriesVars => SeriesInv'
BY DEF SeriesInv, SeriesTypeOK, seriesVars, Closes

LEMMA ColumnTyped ==
  ASSUME bars \in Seq(DayBars), NEW i \in DOMAIN bars
  PROVE  RealizedSeries(Closes, VolWindow)[i] \in Nat \cup {None}
<1> DEFINE v == RealizedSeries(Closes, VolWindow)[i]
           den == VolWindow * (VolWindow - 1)
<1>1. v = IF i <= VolWindow \/ None \in Range(WindowAt(i)) THEN None
          ELSE Annual(Spread2(WindowAt(i)), den)
  BY ColumnIs
<1>2. CASE i <= VolWindow \/ None \in Range(WindowAt(i))
  BY <1>1, <1>2
<1>3. CASE ~(i <= VolWindow) /\ None \notin Range(WindowAt(i))
  <2>1. VolWindow \in Nat /\ VolWindow >= 2 /\ i \in Nat
    BY SeriesAssumption, ClosesAre
  <2>2. i > VolWindow
    BY <1>3, <2>1
  <2>3. WindowAt(i) \in Seq(Int)
    BY <1>3, <2>2, WindowIs
  <2>4. Spread2(WindowAt(i)) \in Nat
    BY <2>3, SpreadTells
  <2>5. den \in Nat \ {0}
      BY <2>1
  <2> HIDE DEF den
  <2>6. Annual(Spread2(WindowAt(i)), den) \in Nat
    BY <2>4, <2>5, AnnualNat
  <2> QED BY <1>1, <1>3, <2>6
<1> QED BY <1>2, <1>3

LEMMA SeriesNextKeeps == SeriesInv /\ SeriesNext => SeriesInv'
<1> SUFFICES ASSUME SeriesInv, SeriesNext  PROVE SeriesInv'
  OBVIOUS
<1>1. /\ bars \in Seq(DayBars) /\ Len(bars) <= MaxBars /\ DOMAIN stored = DOMAIN bars
      /\ \A i \in DOMAIN stored : stored[i] \in Nat \cup {None}
      /\ stored \in Seq(Nat \cup {None}) /\ Len(stored) = Len(bars)
      /\ edits \in 0 .. MaxEdits /\ fresh \in BOOLEAN /\ MaxBars \in Nat /\ MaxEdits \in Nat
  BY BarsAre, SeriesAssumption DEF SeriesInv, SeriesTypeOK
<1>2. ASSUME NEW b \in DayBars, NewBar(b)  PROVE SeriesInv'
  <2>1. /\ Len(bars) < MaxBars /\ bars' = Append(bars, b) /\ stored' = Append(stored, None)
        /\ fresh' = FALSE /\ UNCHANGED edits
    BY <1>2 DEF NewBar
  <2>2. bars' \in Seq(DayBars) /\ Len(bars') = Len(bars) + 1 /\ Len(bars') <= MaxBars
    BY <1>1, <2>1
  <2>3. stored' \in Seq(Nat \cup {None}) /\ Len(stored') = Len(bars')
    BY <1>1, <2>1, <2>2
  <2>4. DOMAIN stored' = DOMAIN bars' /\ \A i \in DOMAIN stored' : stored'[i] \in Nat \cup {None}
    BY <2>2, <2>3
  <2> QED BY <1>1, <2>1, <2>2, <2>3, <2>4, BarsAre DEF SeriesInv, SeriesTypeOK
<1>3. ASSUME NEW b \in DayBars, NEW i \in DOMAIN bars, CorrectBar(i, b)  PROVE SeriesInv'
  <2>1. /\ edits < MaxEdits /\ bars' = [bars EXCEPT ![i] = b] /\ edits' = edits + 1
        /\ fresh' = FALSE /\ UNCHANGED stored
    BY <1>3 DEF CorrectBar
  <2>2. bars' \in Seq(DayBars) /\ Len(bars') = Len(bars) /\ DOMAIN bars' = DOMAIN bars
    BY <1>1, <2>1
  <2>3. edits' \in 0 .. MaxEdits
    BY <1>1, <2>1
  <2> QED BY <1>1, <2>1, <2>2, <2>3, BarsAre DEF SeriesInv, SeriesTypeOK
<1>4. ASSUME ComputeVol  PROVE SeriesInv'
  <2> DEFINE vols == RealizedSeries(Closes, VolWindow)
  <2>1. /\ stored' = [i \in DOMAIN bars |-> IF vols[i] = None THEN stored[i] ELSE vols[i]]
        /\ fresh' = TRUE /\ UNCHANGED <<bars, edits>>
    BY <1>4 DEF ComputeVol
  <2>2. vols' = vols
    BY <2>1 DEF Closes
  <2>3. \A i \in DOMAIN bars : vols[i] \in Nat \cup {None}
    BY <1>1, ColumnTyped
  <2> HIDE DEF vols
  <2>4. DOMAIN stored' = DOMAIN bars' /\ \A i \in DOMAIN stored' : stored'[i] \in Nat \cup {None}
    BY <1>1, <2>1, <2>3
  <2>5. \A i \in DOMAIN bars : vols[i] # None => stored'[i] = vols[i]
    BY <2>1
  <2>6. stored' \in Seq(Nat \cup {None}) /\ Len(stored') = Len(bars')
      BY <1>1, <2>1, <2>3
  <2>7. SeriesTypeOK'
    BY <1>1, <2>1, <2>4, BarsAre DEF SeriesTypeOK
  <2>8. \A i \in DOMAIN bars' : vols'[i] # None => stored'[i] = vols'[i]
    BY <2>1, <2>2, <2>5
  <2> QED BY <2>6, <2>7, <2>8 DEF SeriesInv, vols
<1> QED BY <1>2, <1>3, <1>4 DEF SeriesNext

LEMMA ColumnAgrees == ASSUME SeriesInv  PROVE ColumnIsEstimate
<1> SUFFICES ASSUME fresh, NEW i \in DOMAIN bars,
                    CloseClose(SubSeq(Closes, 1, i), VolWindow) # None
             PROVE  stored[i] = CloseClose(SubSeq(Closes, 1, i), VolWindow)
  BY DEF ColumnIsEstimate
<1> DEFINE w == VolWindow
           s == SubSeq(Closes, 1, i)
           tail == LastOf(s, w + 1)
           rets == [j \in 1 .. w |-> tail[j + 1] - tail[j]]
           live == CloseClose(s, w)
<1>1. bars \in Seq(DayBars)
  BY BarsAre DEF SeriesInv, SeriesTypeOK
<1>2. w \in Nat /\ w >= 2
  BY SeriesAssumption
<1>3. /\ Closes \in Seq(Nat \cup {None}) /\ Len(Closes) = Len(bars) /\ Len(bars) \in Nat
      /\ i \in 1 .. Len(bars)
  BY <1>1, ClosesAre
<1>4. /\ s \in Seq(Nat \cup {None}) /\ Len(s) = i /\ \A j \in 1 .. i : s[j] = Closes[j]
  BY <1>3
<1>5. live = IF Len(s) < w + 1 \/ None \in Range(tail) THEN None
             ELSE Annual(Spread2(rets), w * (w - 1))
  BY DEF CloseClose
<1> HIDE DEF w, s, tail, live
<1>6. /\ i >= w + 1 /\ None \notin Range(tail)
      /\ live = Annual(Spread2(rets), w * (w - 1))
    BY <1>2, <1>3, <1>4, <1>5 DEF live, s, w
<1>7. DOMAIN tail = 1 .. w + 1 /\ \A j \in 1 .. w + 1 : tail[j] = Closes[i - (w + 1) + j]
  <2>1. w + 1 \in Nat /\ w + 1 <= Len(s)
    BY <1>2, <1>4, <1>6
  <2>2. /\ DOMAIN LastOf(s, w + 1) = 1 .. w + 1
        /\ \A j \in 1 .. w + 1 : LastOf(s, w + 1)[j] = s[Len(s) - (w + 1) + j]
    BY <1>4, <2>1, LastOfIs
  <2>3. \A j \in 1 .. w + 1 : i - (w + 1) + j \in 1 .. i
    BY <1>2, <1>3, <1>6
  <2> QED BY <1>4, <2>2, <2>3 DEF tail
<1>8. \A j \in 0 .. w : tail[j + 1] = Closes[i - w + j] /\ j + 1 \in 1 .. w + 1
  <2> SUFFICES ASSUME NEW j \in 0 .. w
               PROVE  tail[j + 1] = Closes[i - w + j] /\ j + 1 \in 1 .. w + 1
    OBVIOUS
  <2>1. j + 1 \in 1 .. w + 1 /\ i - (w + 1) + (j + 1) = i - w + j
    BY <1>2, <1>3
  <2> QED BY <1>7, <2>1
<1>9. NoGapAt(i)
    BY <1>6, <1>7, <1>8 DEF Range, NoGapAt, w
<1>10. i > w
  BY <1>2, <1>3, <1>6
<1>11. /\ None \notin Range(WindowAt(i))
       /\ WindowAt(i) = [j \in 1 .. w |-> Closes[i - w + j] - Closes[i - w + j - 1]]
  BY <1>1, <1>9, <1>10, WindowIs DEF w
<1>12. rets = WindowAt(i)
  <2>1. ASSUME NEW j \in 1 .. w  PROVE tail[j + 1] - tail[j] = Closes[i - w + j] - Closes[i - w + j - 1]
      BY <1>2, <1>3, <1>8
  <2> QED BY <1>11, <2>1
<1>13. RealizedSeries(Closes, VolWindow)[i] = live
  <2>1. RealizedSeries(Closes, VolWindow)[i]
          = IF i <= w \/ None \in Range(WindowAt(i)) THEN None
            ELSE Annual(Spread2(WindowAt(i)), w * (w - 1))
    BY ColumnIs DEF w
  <2>2. ~(i <= w)
    BY <1>2, <1>3, <1>10
  <2> HIDE DEF rets
  <2> QED BY <1>6, <1>11, <1>12, <2>1, <2>2
<1>14. live # None
  BY DEF live, s, w
<1>15. stored[i] = live
  BY <1>13, <1>14 DEF SeriesInv
<1> QED BY <1>15 DEF live, s, w

(* A constant added to every term leaves the spread. *)
LEMMA SpreadShifted ==
  ASSUME NEW p \in Seq(Int), NEW q \in Seq(Int), Len(q) = Len(p),
         \A i \in 1 .. Len(p) : q[i] = p[i] + 1
  PROVE  Spread2(q) = Spread2(p)
<1> DEFINE n == Len(p)
           D == DOMAIN p
           d == [i \in D |-> (n * p[i] - Total(p)) * (n * p[i] - Total(p))]
<1>1. n \in Nat /\ D = 1 .. n /\ DOMAIN q = D /\ \A i \in D : p[i] \in Int /\ q[i] = p[i] + 1
  OBVIOUS
<1>2. /\ Total(p) \in Int /\ Spread2(p) \in Int /\ Total(q) \in Int /\ Spread2(q) \in Int
      /\ Total(p) = Sum(p, D) /\ Total(q) = Sum(q, D)
  BY <1>1, SpreadTells, TotalIsSum
<1>3. Total(q) = Total(p) + n
  <2>1. Combines(q, 1, p, 0, p, 1, D)
    BY <1>1 DEF Combines
  <2>2. IsFiniteSet(D) /\ Cardinality(D) = n
    BY PlacesOf
  <2> HIDE DEF n, D
  <2>3. Sum(q, D) = 1 * Sum(p, D) + 0 * Sum(p, D) + 1 * n
    BY <2>1, <2>2, SumLinear
  <2> QED BY <1>1, <1>2, <2>3
<1>4. \A i \in D : d[i] = (n * q[i] - Total(q)) * (n * q[i] - Total(q))
  <2>1. \A x, t \in Int : n * (x + 1) - (t + n) = n * x - t
    BY <1>1
  <2> HIDE DEF n, D
  <2>2. \A i \in D : n * q[i] - Total(q) = n * p[i] - Total(p)
    BY <1>1, <1>2, <1>3, <2>1
  <2> QED BY <2>2
<1>5. Sum(d, D) = n * Spread2(p) /\ Sum(d, D) = n * Spread2(q)
  <2>1. \A i \in D : d[i] = (n * p[i] - Total(p)) * (n * p[i] - Total(p))
    OBVIOUS
  <2>2. Sum(d, D) = n * (n * Total([i \in D |-> p[i] * p[i]]) - Total(p) * Total(p))
    <3> HIDE DEF d
    <3> QED BY <1>1, <2>1, CrossSpread
  <2>3. Sum(d, D) = n * (n * Total([i \in D |-> q[i] * q[i]]) - Total(q) * Total(q))
    <3>1. Len(q) = n /\ \A i \in DOMAIN q : d[i] = (Len(q) * q[i] - Total(q)) * (Len(q) * q[i] - Total(q))
      BY <1>1, <1>4
    <3> HIDE DEF d
    <3>2. Sum(d, DOMAIN q) = Len(q) * (Len(q) * Total([i \in DOMAIN q |-> q[i] * q[i]]) - Total(q) * Total(q))
      BY <3>1, CrossSpread
    <3> QED BY <1>1, <3>1, <3>2
  <2> QED BY <1>1, <2>2, <2>3 DEF Spread2
<1>6. CASE n = 0
  BY <1>6
<1>7. CASE n # 0
  <2>1. ASSUME NEW x \in Int, NEW y \in Int, n * x = n * y  PROVE x = y
    <3> HIDE DEF n
    <3>1. n \in Int /\ n # 0
      BY <1>1, <1>7
    <3>2. n * (x - y) = 0
      BY <2>1, <3>1
    <3> QED BY <3>1, <3>2
  <2> HIDE DEF n
  <2> QED BY <1>2, <1>5, <2>1
<1> QED BY <1>6, <1>7

(* A bar, moved up by its day. *)
Raised(x, i) == IF x = None THEN None ELSE x + i
RaisedBar(b, i) ==
  [o |-> Raised(b.o, i), h |-> Raised(b.h, i), l |-> Raised(b.l, i), c |-> Raised(b.c, i)]

(* Two lists of numbers, the second rising by one more from each to the    *)
(* next.                                                                   *)
Rise(u, v, x, y, d, w) ==
  \A j \in 1 .. w : /\ u[j] \in Int /\ v[j] \in Int
                    /\ x[j] = u[j] + (d + j) + 1 /\ y[j] = v[j] + (d + j)
LEMMA RisesShift ==
  ASSUME NEW w \in Nat, NEW u, NEW v, NEW x, NEW y, NEW d \in Int, Rise(u, v, x, y, d, w)
  PROVE  Spread2([j \in 1 .. w |-> x[j] - y[j]]) = Spread2([j \in 1 .. w |-> u[j] - v[j]])
<1> DEFINE p == [j \in 1 .. w |-> u[j] - v[j]]
           q == [j \in 1 .. w |-> x[j] - y[j]]
<1>1. \A j \in 1 .. w : p[j] \in Int /\ q[j] = p[j] + 1 /\ q[j] \in Int
    BY DEF Rise
<1>2. p \in [1 .. w -> Int] /\ q \in [1 .. w -> Int]
  BY <1>1
<1> HIDE DEF p, q
<1>3. p \in Seq(Int) /\ q \in Seq(Int) /\ Len(p) = w /\ Len(q) = w
  BY <1>2
<1>4. Spread2(q) = Spread2(p)
  BY <1>1, <1>3, SpreadShifted
<1> QED BY <1>4 DEF p, q

LEMMA NeitherDrifts == ASSUME SeriesInv  PROVE DriftFree
<1> DEFINE n == Len(bars)
           w == VolWindow
           m == w + 1
           d == n - m
           moved == [i \in DOMAIN bars |-> RaisedBar(bars[i], i)]
<1>1. bars \in Seq(DayBars) /\ n \in Nat /\ DOMAIN bars = 1 .. n /\ \A i \in 1 .. n : bars[i] \in DayBars
  BY BarsAre DEF SeriesInv, SeriesTypeOK
<1>2. w \in Nat /\ w >= 2 /\ m \in Nat /\ m = w + 1
  BY SeriesAssumption
<1> DEFINE P == Nat \cup {None}
           Prices == [o : P, h : P, l : P, c : P]
<1>3. \A b \in DayBars : b.o \in P /\ b.h \in P /\ b.l \in P /\ b.c \in P
  BY SeriesAssumption
<1>4. ASSUME NEW b \in DayBars, NEW i \in Nat
      PROVE  /\ RaisedBar(b, i) \in Prices
             /\ Impossible(RaisedBar(b, i)) <=> Impossible(b)
             /\ ~Impossible(b) =>
                  /\ b.o \in Nat /\ b.h \in Nat /\ b.l \in Nat /\ b.c \in Nat
                  /\ RaisedBar(b, i).o = b.o + i /\ RaisedBar(b, i).c = b.c + i
                  /\ RogersSatchell(RaisedBar(b, i)) = RogersSatchell(b)
  <2>1. PICK o \in P, h \in P, l \in P, c \in P : o = b.o /\ h = b.h /\ l = b.l /\ c = b.c
    BY <1>3
  <2>2. \A x \in P : Raised(x, i) \in P /\ (Raised(x, i) = None <=> x = None)
    BY DEF Raised, None
  <2>3. /\ RaisedBar(b, i).o = Raised(o, i) /\ RaisedBar(b, i).h = Raised(h, i)
        /\ RaisedBar(b, i).l = Raised(l, i) /\ RaisedBar(b, i).c = Raised(c, i)
        /\ RaisedBar(b, i) \in Prices
    BY <2>1, <2>2 DEF RaisedBar
  <2>4. CASE None \in {o, h, l, c}
      BY <2>1, <2>2, <2>3, <2>4 DEF Impossible
  <2>5. CASE None \notin {o, h, l, c}
      BY <2>1, <2>2, <2>3, <2>5 DEF Raised, Impossible, RogersSatchell
  <2> QED BY <2>4, <2>5
<1>5. moved \in Seq(Prices) /\ Len(moved) = n /\ \A i \in 1 .. n : moved[i] = RaisedBar(bars[i], i)
  <2>1. moved \in [1 .. n -> Prices] /\ \A i \in 1 .. n : moved[i] = RaisedBar(bars[i], i)
    BY <1>1, <1>4
  <2> HIDE DEF moved, Prices
  <2> QED BY <1>1, <2>1
<1> DEFINE moves == [i \in DOMAIN bars |->
                       [o |-> Raised(bars[i].o, i), h |-> Raised(bars[i].h, i),
                        l |-> Raised(bars[i].l, i), c |-> Raised(bars[i].c, i)]]
<1>6. /\ moved = moves
      /\ (\A source \in {"close_close", "yang_zhang"} :
            Realized(bars, w, source, TRUE) = Realized(moves, w, source, TRUE)) => DriftFree
  BY DEF DriftFree, Raised, RaisedBar
<1> DEFINE cb == [i \in DOMAIN bars |-> bars[i].c]
           cm == [i \in DOMAIN moved |-> moved[i].c]
<1>7. /\ cb \in Seq(P) /\ cm \in Seq(P) /\ Len(cb) = n /\ Len(cm) = n
      /\ \A i \in 1 .. n : cb[i] = bars[i].c /\ cm[i] = Raised(cb[i], i)
    BY <1>1, <1>3, <1>5 DEF RaisedBar
<1> HIDE DEF n, w, m, moved, cb, cm, P, Prices
<1>8. ASSUME n >= m
      PROVE  /\ d \in Nat
             /\ \A j \in 1 .. m : /\ d + j \in 1 .. n /\ d + j \in Nat
                                  /\ LastOf(cb, m)[j] = cb[d + j] /\ LastOf(cm, m)[j] = cm[d + j]
                                  /\ LastOf(bars, m)[j] = bars[d + j]
                                  /\ LastOf(moved, m)[j] = RaisedBar(bars[d + j], d + j)
             /\ DOMAIN LastOf(cb, m) = 1 .. m /\ DOMAIN LastOf(cm, m) = 1 .. m
             /\ DOMAIN LastOf(bars, m) = 1 .. m /\ DOMAIN LastOf(moved, m) = 1 .. m
             /\ \A j \in 1 .. w : j \in 1 .. m /\ j + 1 \in 1 .. m /\ d + (j + 1) = (d + j) + 1
  <2>1. d \in Nat /\ n - m = d /\ m <= n /\ \A j \in 1 .. m : d + j \in 1 .. n /\ d + j \in Nat
    BY <1>1, <1>2, <1>8
  <2>2. ASSUME NEW S, NEW s \in Seq(S), Len(s) = n
        PROVE  DOMAIN LastOf(s, m) = 1 .. m /\ \A j \in 1 .. m : LastOf(s, m)[j] = s[d + j]
    <3>1. m <= Len(s) /\ Len(s) - m = d
      BY <2>1, <2>2
    <3>2. /\ DOMAIN LastOf(s, m) = 1 .. m
          /\ \A j \in 1 .. m : LastOf(s, m)[j] = s[Len(s) - m + j]
      BY <1>2, <3>1, LastOfIs
    <3> QED BY <3>1, <3>2
  <2>3. /\ DOMAIN LastOf(cb, m) = 1 .. m /\ \A j \in 1 .. m : LastOf(cb, m)[j] = cb[d + j]
        /\ DOMAIN LastOf(cm, m) = 1 .. m /\ \A j \in 1 .. m : LastOf(cm, m)[j] = cm[d + j]
    <3> HIDE DEF d
    <3> QED BY <1>7, <2>2, Zenon
  <2>4. /\ DOMAIN LastOf(bars, m) = 1 .. m /\ \A j \in 1 .. m : LastOf(bars, m)[j] = bars[d + j]
        /\ DOMAIN LastOf(moved, m) = 1 .. m /\ \A j \in 1 .. m : LastOf(moved, m)[j] = moved[d + j]
    <3>1. Len(bars) = n
      BY DEF n
    <3> HIDE DEF d
    <3> QED BY <1>1, <1>5, <2>2, <3>1, Zenon
  <2>6. \A j \in 1 .. w : j \in 1 .. m /\ j + 1 \in 1 .. m /\ d + (j + 1) = (d + j) + 1
    BY <1>2, <2>1
  <2> QED BY <1>5, <2>1, <2>3, <2>4, <2>6
<1> HIDE DEF d
<1>9. CloseClose(cm, w) = CloseClose(cb, w)
  <2> DEFINE tb == LastOf(cb, m)
             tm == LastOf(cm, m)
             rb == [j \in 1 .. w |-> tb[j + 1] - tb[j]]
             rm == [j \in 1 .. w |-> tm[j + 1] - tm[j]]
  <2>1. /\ CloseClose(cb, w) = IF n < m \/ None \in Range(tb) THEN None
                               ELSE Annual(Spread2(rb), w * (w - 1))
        /\ CloseClose(cm, w) = IF n < m \/ None \in Range(tm) THEN None
                               ELSE Annual(Spread2(rm), w * (w - 1))
    BY <1>7 DEF CloseClose, m
  <2>2. CASE n < m
    BY <2>1, <2>2
  <2>3. CASE ~(n < m)
    <3>1. n >= m
      BY <1>1, <1>2, <2>3
    <3>2. \A j \in 1 .. m : tb[j] \in P /\ tm[j] = Raised(tb[j], d + j)
      BY <1>7, <1>8, <3>1
    <3>3. DOMAIN tb = 1 .. m /\ DOMAIN tm = 1 .. m
      BY <1>8, <3>1
    <3>4. \A j \in 1 .. m : d + j \in Nat
      BY <1>8, <3>1
    <3> HIDE DEF tb, tm
    <3>5. \A j \in 1 .. m : tm[j] = None <=> tb[j] = None
      BY <3>2, <3>4 DEF Raised, None, P
    <3>6. None \in Range(tm) <=> None \in Range(tb)
      BY <3>3, <3>5 DEF Range
    <3>7. ASSUME None \notin Range(tb)  PROVE Spread2(rm) = Spread2(rb)
      <4>1. \A j \in 1 .. m : tb[j] \in Int /\ tm[j] = tb[j] + (d + j)
        BY <3>2, <3>3, <3>7 DEF Range, Raised, P
      <4> DEFINE u == [j \in 1 .. w |-> tb[j + 1]]
                 v == [j \in 1 .. w |-> tb[j]]
                 x == [j \in 1 .. w |-> tm[j + 1]]
                 y == [j \in 1 .. w |-> tm[j]]
      <4>2. \A j \in 1 .. w : j \in 1 .. m /\ j + 1 \in 1 .. m /\ d + (j + 1) = (d + j) + 1
        BY <1>8, <3>1
      <4>3. Rise(u, v, x, y, d, w)
          BY <3>4, <4>1, <4>2 DEF Rise
      <4>4. rb = [j \in 1 .. w |-> u[j] - v[j]] /\ rm = [j \in 1 .. w |-> x[j] - y[j]]
        OBVIOUS
      <4>5. d \in Int
        BY <1>8, <3>1
      <4> HIDE DEF u, v, x, y, rb, rm
      <4> QED BY <1>2, <4>3, <4>4, <4>5, RisesShift
    <3> QED BY <2>1, <3>6, <3>7
  <2> QED BY <2>2, <2>3
<1>10. YangZhang(moved, w) = YangZhang(bars, w)
  <2> DEFINE tb == LastOf(bars, m)
             tm == LastOf(moved, m)
             nb == [j \in 1 .. w |-> tb[j + 1].o - tb[j].c]
             nm == [j \in 1 .. w |-> tm[j + 1].o - tm[j].c]
             db == [j \in 1 .. w |-> tb[j + 1].c - tb[j + 1].o]
             dm == [j \in 1 .. w |-> tm[j + 1].c - tm[j + 1].o]
             gb == [j \in 1 .. w |-> RogersSatchell(tb[j + 1])]
             gm == [j \in 1 .. w |-> RogersSatchell(tm[j + 1])]
             All(night, day, range) ==
               Spread2(night) * (234 * w - 34) + 34 * (w - 1) * Spread2(day)
                 + 200 * w * (w - 1) * Total(range)
             Vol(sigma2) == Annual(IF sigma2 < 0 THEN 0 ELSE sigma2, w * (w - 1) * (234 * w - 34))
  <2>1. /\ YangZhang(bars, w) = IF n < m \/ \E b \in Range(tb) : Impossible(b) THEN None
                                ELSE Vol(All(nb, db, gb))
        /\ YangZhang(moved, w) = IF n < m \/ \E b \in Range(tm) : Impossible(b) THEN None
                                 ELSE Vol(All(nm, dm, gm))
    BY <1>5 DEF YangZhang, m, n
  <2> HIDE DEF All, Vol
  <2>2. CASE n < m
    BY <2>1, <2>2
  <2>3. CASE ~(n < m)
    <3>1. n >= m
      BY <1>1, <1>2, <2>3
    <3>2. /\ DOMAIN tb = 1 .. m /\ DOMAIN tm = 1 .. m
          /\ \A j \in 1 .. m : tb[j] \in DayBars /\ tm[j] = RaisedBar(tb[j], d + j) /\ d + j \in Nat
          /\ \A j \in 1 .. w : j \in 1 .. m /\ j + 1 \in 1 .. m /\ d + (j + 1) = (d + j) + 1
          /\ d \in Int
      BY <1>1, <1>8, <3>1
    <3> HIDE DEF tb, tm
    <3>3. (\E b \in Range(tm) : Impossible(b)) <=> (\E b \in Range(tb) : Impossible(b))
        BY <1>4, <3>2 DEF Range
    <3>4. ASSUME ~\E b \in Range(tb) : Impossible(b)
          PROVE  Spread2(nm) = Spread2(nb) /\ dm = db /\ gm = gb
      <4>1. \A j \in 1 .. m : ~Impossible(tb[j])
        BY <3>2, <3>4 DEF Range
      <4>2. \A j \in 1 .. m : /\ tb[j].o \in Nat /\ tb[j].c \in Nat
                              /\ tm[j].o = tb[j].o + (d + j) /\ tm[j].c = tb[j].c + (d + j)
                              /\ RogersSatchell(tm[j]) = RogersSatchell(tb[j])
        <5> TAKE j \in 1 .. m
        <5>1. tb[j] \in DayBars /\ d + j \in Nat /\ tm[j] = RaisedBar(tb[j], d + j) /\ ~Impossible(tb[j])
          BY <3>2, <4>1
        <5> QED BY <1>4, <5>1
      <4> DEFINE u == [j \in 1 .. w |-> tb[j + 1].o]
                 v == [j \in 1 .. w |-> tb[j].c]
                 x == [j \in 1 .. w |-> tm[j + 1].o]
                 y == [j \in 1 .. w |-> tm[j].c]
      <4>3. Rise(u, v, x, y, d, w)
        <5>1. \A a, e \in Int : a + (e + 1) = a + e + 1
          OBVIOUS
        <5>2. \A j \in 1 .. w : d + j \in Int
          BY <3>2
        <5> QED BY <3>2, <4>2, <5>1, <5>2 DEF Rise
      <4>4. nb = [j \in 1 .. w |-> u[j] - v[j]] /\ nm = [j \in 1 .. w |-> x[j] - y[j]]
        OBVIOUS
      <4>5. Spread2(nm) = Spread2(nb)
        <5> HIDE DEF u, v, x, y, nb, nm
        <5> QED BY <1>2, <3>2, <4>3, <4>4, RisesShift
      <4>6. dm = db
          BY <3>2, <4>2
      <4>7. gm = gb
        BY <3>2, <4>2
      <4> QED BY <4>5, <4>6, <4>7
    <3>5. (~\E b \in Range(tb) : Impossible(b)) => All(nm, dm, gm) = All(nb, db, gb)
      BY <3>4 DEF All
    <3> HIDE DEF nb, nm, db, dm, gb, gm
    <3> QED BY <2>1, <3>3, <3>5
  <2> QED BY <2>2, <2>3
<1>11. \A source \in {"close_close", "yang_zhang"} :
         Realized(bars, w, source, TRUE) = Realized(moved, w, source, TRUE)
  BY <1>9, <1>10 DEF Realized, cb, cm
<1> QED BY <1>6, <1>11

-----------------------------------------------------------------------------
(* The calibrated threshold. *)

(* No ratio p above q, q above r. *)
LEMMA RatiosChain ==
  ASSUME NEW a \in Nat \ {0}, NEW b \in Nat \ {0}, NEW c \in Nat \ {0}, NEW d \in Nat \ {0},
         NEW e \in Nat \ {0}, NEW f \in Nat \ {0}, a * d <= c * b, c * f <= e * d
  PROVE  a * f <= e * b
<1>1. \A x, y \in Int, n \in Nat : x <= y => x * n <= y * n
  BY SMTT(60)
<1>2. \A x, y \in Int, n \in Nat \ {0} : x * n <= y * n => x <= y
  BY SMTT(60)
<1>3. a * d \in Int /\ c * b \in Int /\ c * f \in Int /\ e * d \in Int /\ a * f \in Int /\ e * b \in Int
  OBVIOUS
<1>4. (a * d) * f <= (c * b) * f /\ (c * f) * b <= (e * d) * b
  BY <1>1, <1>3
<1>5. (c * b) * f = (c * f) * b /\ (a * d) * f = (a * f) * d /\ (e * d) * b = (e * b) * d
  OBVIOUS
<1>6. (a * f) * d <= (e * b) * d
  BY <1>3, <1>4, <1>5
<1> QED BY <1>2, <1>3, <1>6

(* A quotient, between what it is and the next. *)
LEMMA QuotientIs ==
  ASSUME NEW a \in Nat, NEW b \in Nat \ {0}
  PROVE  /\ a \div b \in Nat /\ (a \div b) * b <= a /\ a < (a \div b + 1) * b
BY SMTT(60)

(* The pairs of D ordered by their ratios. *)
ByRatio(s, D) ==
  {p \in D \X D : \/ Lower(s[p[1]], s[p[2]])
                  \/ ~Lower(s[p[2]], s[p[1]]) /\ p[1] < p[2]}

Ratioed(s, D) ==
  IsFiniteSet(D) /\ \A i \in D : i \in Int /\ s[i][1] \in Nat \ {0} /\ s[i][2] \in Nat \ {0}

LEMMA RatiosOrdered ==
  ASSUME NEW s, NEW D, Ratioed(s, D)
  PROVE  /\ OrderedBy(InOrder(D, ByRatio(s, D)), D, ByRatio(s, D))
         /\ \A i, j \in D : <<i, j>> \in ByRatio(s, D) => ~Lower(s[j], s[i])
<1> DEFINE R == ByRatio(s, D)
           Le == {p \in D \X D : ~Lower(s[p[2]], s[p[1]])}
<1>1. ASSUME NEW i \in D, NEW j \in D
      PROVE  /\ <<i, j>> \in R <=> <<j, i>> \notin Le \/ (<<i, j>> \in Le /\ i < j)
             /\ <<i, j>> \in Le <=> s[i][1] * s[j][2] <= s[j][1] * s[i][2]
             /\ <<i, j>> \in Le <=> ~Lower(s[j], s[i])
             /\ <<i, j>> \in Le \/ <<j, i>> \in Le
             /\ i \in Int
    BY DEF Ratioed, ByRatio, Lower
<1>2. ASSUME NEW i \in D, NEW j \in D, NEW k \in D, <<i, j>> \in Le, <<j, k>> \in Le
      PROVE  <<i, k>> \in Le
  <2>1. s[i][1] * s[j][2] <= s[j][1] * s[i][2] /\ s[j][1] * s[k][2] <= s[k][1] * s[j][2]
    BY <1>1, <1>2
  <2>2. s[i][1] * s[k][2] <= s[k][1] * s[i][2]
    BY <2>1, RatiosChain DEF Ratioed
  <2> QED BY <1>1, <2>2
<1> HIDE DEF R, Le
<1>3. OrderOn(D, R)
  <2>1. \A i, j \in D : i # j => <<i, j>> \in R \/ <<j, i>> \in R
    BY <1>1
  <2>2. \A i, j \in D : <<i, j>> \in R => i # j /\ <<j, i>> \notin R
    BY <1>1
  <2>3. ASSUME NEW i \in D, NEW j \in D, NEW k \in D, <<i, j>> \in R, <<j, k>> \in R
        PROVE  <<i, k>> \in R
    <3>1. <<i, j>> \in Le /\ <<j, k>> \in Le
      BY <1>1, <2>3
    <3>2. <<i, k>> \in Le
      BY <1>2, <3>1
    <3>3. ASSUME <<k, i>> \in Le  PROVE i < k
      <4>1. <<j, i>> \in Le /\ <<k, j>> \in Le
        BY <1>2, <3>1, <3>3
      <4>2. i < j /\ j < k /\ i \in Int /\ j \in Int /\ k \in Int
        BY <1>1, <2>3, <4>1
      <4> QED BY <4>2
    <3> QED BY <1>1, <3>2, <3>3
  <2> QED BY <2>1, <2>2, <2>3 DEF OrderOn
<1>4. OrderedBy(InOrder(D, R), D, R)
  BY <1>3, InOrderIs DEF Ratioed
<1>5. \A i, j \in D : <<i, j>> \in R => ~Lower(s[j], s[i])
  BY <1>1
<1> QED BY <1>4, <1>5 DEF R

(* What is sold below a threshold, and what the trades then earn. *)
LEMMA SoldAre ==
  ASSUME NEW s, NEW D, D = DOMAIN s, Ratioed(s, D), NEW k
  PROVE  LET below == {i \in D : Lower(s[i], k)}
             stats == VrpStats(s, k)
         IN  /\ stats.sells = Cardinality({i \in below : s[i][1] <= s[i][2]})
             /\ stats.sells <= Cardinality(below)
             /\ stats.edge >= stats.wins /\ (stats.sells > 0 => stats.median2 >= 0)
<1> DEFINE below == {i \in D : Lower(s[i], k)}
           sold == {i \in below : s[i][1] <= s[i][2]}
           e == [i \in sold |-> s[i][2] - s[i][1]]
           edges == Ascending(e, sold)
           M == Cardinality(sold)
           won == {i \in DOMAIN edges : edges[i] > 0}
           stats == VrpStats(s, k)
<1>1. \A i \in D : /\ s[i][1] \in Nat \ {0} /\ s[i][2] \in Nat \ {0} /\ i \in Int
                   /\ None \notin {s[i][1], s[i][2]}
  BY DEF Ratioed, None
<1>2. \A i \in D : Valid(s[i])
  BY <1>1 DEF Valid
<1>3. \A i \in D : Gate(s[i][1], s[i][2], k) = "SELL" <=> s[i][1] <= s[i][2] /\ Lower(s[i], k)
  BY <1>1 DEF Gate, Lower
<1>4. sold = {i \in {j \in DOMAIN s : Valid(s[j])} : Gate(s[i][1], s[i][2], k) = "SELL"}
  BY <1>2, <1>3
<1>5. /\ stats.sells = Len(edges) /\ stats.edge = Total(edges)
      /\ stats.median2 = IF Len(edges) = 0 THEN 0
                         ELSE IF Len(edges) % 2 = 1 THEN 2 * edges[(Len(edges) \div 2) + 1]
                         ELSE edges[Len(edges) \div 2] + edges[(Len(edges) \div 2) + 1]
      /\ stats.wins = Cardinality(won)
  <2> HIDE DEF sold
  <2> QED BY <1>4 DEF VrpStats
<1>6. sold \in SUBSET below /\ below \in SUBSET D
  OBVIOUS
<1>7. IsFiniteSet(below) /\ IsFiniteSet(sold) /\ M <= Cardinality(below)
    BY <1>6, FS_Subset DEF Ratioed
<1>8. \A i \in sold : i \in Int /\ e[i] \in Nat
    BY <1>1
<1>9. \A i \in sold : i \in Int /\ e[i] \in Int
  BY <1>8
<1> HIDE DEF e, sold, below, M, stats
<1> DEFINE at == InOrder(sold, ByValue(e, sold))
<1>10. /\ OrderedBy(at, sold, ByValue(e, sold)) /\ edges = [n \in 1 .. M |-> e[at[n]]]
       /\ edges \in Seq(Int) /\ Len(edges) = M
  BY <1>7, <1>9, AscendingIs DEF M
<1>11. M \in Nat /\ \A n \in 1 .. M : at[n] \in sold
  BY <1>10 DEF OrderedBy, M
<1> HIDE DEF edges, at
<1>12. DOMAIN edges = 1 .. M /\ \A n \in 1 .. M : edges[n] \in Nat
  BY <1>8, <1>10, <1>11
<1>13. Cardinality(won) <= Total(edges)
  <2> DEFINE lost == (1 .. M) \ won
  <2>1. IsFiniteSet(1 .. M)
    BY <1>11, CountTo
  <2>2. won \in SUBSET (1 .. M) /\ lost \in SUBSET (1 .. M) /\ \A n \in won : edges[n] \in Int /\ 1 <= edges[n]
    BY <1>12
  <2>3. IsFiniteSet(won) /\ IsFiniteSet(lost)
    BY <2>1, <2>2, FS_Subset
  <2>4. \A n \in lost : edges[n] \in Nat
    BY <1>12
  <2>5. \A n \in 1 .. M : edges[n] \in Int
    BY <1>12
  <2>6. Total(edges) = Sum(edges, 1 .. M)
    BY <1>12, TotalIsSum
  <2> HIDE DEF won
  <2>7. Sum(edges, 1 .. M) = Sum(edges, won) + Sum(edges, lost)
    BY <2>1, <2>2, <2>5, SumParts
  <2> HIDE DEF lost
  <2>8. Sum(edges, lost) \in Nat
    BY <2>3, <2>4, SumNat
  <2>9. 1 \in Int
    OBVIOUS
  <2>10. Sum(edges, won) \in Int /\ 1 * Cardinality(won) <= Sum(edges, won) /\ Cardinality(won) \in Nat
    BY <2>2, <2>3, <2>9, SumAbove, FS_CardinalityType
  <2> QED BY <2>6, <2>7, <2>8, <2>10
<1>14. ASSUME M > 0  PROVE stats.median2 >= 0
  <2> DEFINE h == M \div 2
  <2>1. /\ M % 2 = 1 => h + 1 \in 1 .. M
        /\ M % 2 # 1 => h \in 1 .. M /\ h + 1 \in 1 .. M
    BY <1>11, <1>14
  <2> HIDE DEF h
  <2>2. stats.median2 = IF M % 2 = 1 THEN 2 * edges[h + 1] ELSE edges[h] + edges[h + 1]
    <3>1. Len(edges) = M /\ M # 0
      BY <1>10, <1>11, <1>14
    <3> HIDE DEF M
    <3> QED BY <1>5, <3>1 DEF h
  <2>3. \A x, y \in Nat : 2 * x >= 0 /\ x + y >= 0
    OBVIOUS
  <2> QED BY <1>12, <2>1, <2>2, <2>3
<1>15. /\ stats.sells = M /\ stats.edge >= stats.wins
       /\ stats.sells > 0 => stats.median2 >= 0
  <2>1. Total(edges) \in Int /\ Cardinality(won) \in Nat
      BY <1>11, <1>12, CountTo, TotalIsSum, SumInt, FS_Subset, FS_CardinalityType
  <2> QED BY <1>5, <1>10, <1>13, <1>14, <2>1
<1> QED BY <1>7, <1>15 DEF M, sold, below, stats

LEMMA ThresholdIs == ASSUME SeriesInv  PROVE CalibratedIsQuantile
<1> DEFINE s == Samples
           D == DOMAIN Samples
           N == Cardinality(D)
           R == ByRatio(s, D)
           at == InOrder(D, R)
           T1 == Target[1]
           T2 == Target[2]
           t == TargetIndex(Target, N)
           k == CalibratedK(Samples, Target)
           below == {i \in D : Lower(s[i], k)}
           upTo == {i \in D : ~Lower(k, s[i])}
<1>1. Ratioed(s, D) /\ \A i \in D : HasRatio(s[i])
  <2> DEFINE pairs == [i \in DOMAIN bars |-> <<stored[i], bars[i].vix>>]
             S == {i \in DOMAIN bars : HasRatio(pairs[i])}
  <2>1. bars \in Seq(DayBars) /\ \A i \in DOMAIN bars : i \in Int /\ bars[i].vix \in Int
                                   /\ stored[i] \in Nat \cup {None}
      BY BarsAre, SeriesAssumption DEF SeriesInv, SeriesTypeOK
  <2>2. D = S /\ \A i \in S : s[i] = pairs[i]
    BY DEF Samples, Restrict
  <2>3. IsFiniteSet(DOMAIN bars) /\ S \in SUBSET DOMAIN bars
      BY <2>1, CountTo
  <2>4. IsFiniteSet(S)
    BY <2>3, FS_Subset
  <2>5. \A i \in S : /\ i \in Int /\ HasRatio(pairs[i])
                     /\ pairs[i][1] \in Nat \ {0} /\ pairs[i][2] \in Nat \ {0}
    BY <2>1 DEF HasRatio, Valid
  <2> HIDE DEF S, pairs
  <2> QED BY <2>2, <2>4, <2>5 DEF Ratioed
<1>2. /\ OrderedBy(at, D, R) /\ N \in Nat /\ DOMAIN at = 1 .. N
      /\ \A i, j \in D : <<i, j>> \in R => ~Lower(s[j], s[i])
  <2>1. /\ OrderedBy(at, D, R)
        /\ \A i, j \in D : <<i, j>> \in R => ~Lower(s[j], s[i])
    BY <1>1, RatiosOrdered
  <2> HIDE DEF at, R, s
  <2> QED BY <2>1 DEF OrderedBy
<1>3. Ratios(s) = [n \in 1 .. N |-> s[at[n]]]
    BY <1>1 DEF Ratios, ByRatio
<1> SUFFICES ASSUME N > 0, k \notin {<<1, 2>>, <<3, 2>>}
             PROVE  /\ Cardinality(below) * T2 <= T1 * N
                    /\ Cardinality(upTo) * T2 > T1 * N \/ Cardinality(upTo) = N
  <2>1. LET stats == VrpStats(Samples, k)
        IN  /\ stats.sells <= Cardinality(below)
            /\ stats.sells = Cardinality({i \in below : Samples[i][1] <= Samples[i][2]})
            /\ stats.edge >= stats.wins /\ (stats.sells > 0 => stats.median2 >= 0)
    BY <1>1, SoldAre
  <2> HIDE DEF k
  <2> QED BY <2>1 DEF CalibratedIsQuantile, k
<1>4. t \in 0 .. N - 1 /\ t * T2 <= T1 * N /\ ((t + 1) * T2 > T1 * N \/ t = N - 1)
  <2>1. T1 \in Nat /\ T2 \in Nat \ {0} /\ N \in Nat /\ N > 0
    BY <1>2, SeriesAssumption
  <2> DEFINE i == (T1 * N) \div T2
  <2>2. t = IF i < N THEN i ELSE N - 1
    BY DEF TargetIndex
  <2> HIDE DEF N, T1, T2, t
  <2>3. T1 * N \in Nat
    BY <2>1
  <2>4. i \in Nat /\ i * T2 <= T1 * N /\ T1 * N < (i + 1) * T2
    BY <2>1, <2>3, QuotientIs
  <2> HIDE DEF i
  <2>5. CASE i < N
    BY <2>1, <2>2, <2>3, <2>4, <2>5
  <2>6. CASE ~(i < N)
      BY <2>1, <2>2, <2>3, <2>4, <2>6, SMTT(60)
  <2> QED BY <2>5, <2>6
<1> DEFINE j == at[t + 1]
<1>5. t + 1 \in 1 .. N /\ t \in 0 .. N /\ t + 1 \in 0 .. N
  <2> HIDE DEF t, N
  <2> QED BY <1>2, <1>4
<1>6. k = s[j] /\ j \in D
  <2> HIDE DEF t, at
  <2>1. Len(Ratios(s)) = N /\ Ratios(s) # <<>> /\ Ratios(s)[t + 1] = s[j]
    <3> HIDE DEF s, N
    <3> QED BY <1>2, <1>3, <1>5
  <2>2. k = Clamped(s[j])
    BY <2>1 DEF CalibratedK, t
  <2>3. k = s[j]
    BY <2>2 DEF Clamped
  <2> QED BY <1>2, <1>5, <2>3 DEF OrderedBy
<1> HIDE DEF k, R, at, N, t, T1, T2, s, D
<1>7. IsFiniteSet(D) /\ below \in SUBSET D /\ upTo \in SUBSET D
  BY <1>1 DEF Ratioed
<1>8. IsFiniteSet(below) /\ IsFiniteSet(upTo) /\ Cardinality(upTo) <= N /\ Cardinality(upTo) \in Nat
  BY <1>7, FS_Subset, FS_CardinalityType DEF N
<1>9. ASSUME NEW a \in 1 .. N, NEW b \in 1 .. N, a < b
      PROVE  at[a] \in D /\ at[b] \in D /\ ~Lower(s[at[b]], s[at[a]])
  BY <1>2, <1>9 DEF OrderedBy
<1>10. ~Lower(s[j], s[j])
    BY <1>1, <1>6 DEF Ratioed, Lower
<1>11. Cardinality(below) <= t /\ Cardinality(below) \in Nat
  <2> DEFINE first == Foremost(at, t)
  <2>1. first \in SUBSET D /\ Cardinality(first) = t
    BY <1>2, <1>5, FirstOf DEF N
  <2>2. below \in SUBSET first
    <3> SUFFICES ASSUME NEW i \in D, Lower(s[i], k)  PROVE i \in first
      OBVIOUS
    <3>1. PICK m \in 1 .. N : at[m] = i
      BY <1>2 DEF OrderedBy
    <3>2. ~(t + 1 < m)
      BY <1>5, <1>6, <1>9, <3>1
    <3>3. m # t + 1
      BY <1>6, <1>10, <3>1
    <3>4. m \in 1 .. t
      BY <1>4, <3>2, <3>3
    <3> QED BY <3>1, <3>4 DEF Foremost
  <2> HIDE DEF first, below
  <2>3. IsFiniteSet(first)
    BY <1>7, <2>1, FS_Subset
  <2> QED BY <2>1, <2>2, <2>3, <1>8, FS_Subset, FS_CardinalityType
<1>12. t + 1 <= Cardinality(upTo)
  <2> DEFINE first == Foremost(at, t + 1)
  <2>1. first \in SUBSET D /\ Cardinality(first) = t + 1
    BY <1>2, <1>5, FirstOf DEF N
  <2>2. first \in SUBSET upTo
    <3> SUFFICES ASSUME NEW m \in 1 .. t + 1  PROVE at[m] \in D /\ ~Lower(k, s[at[m]])
      BY DEF Foremost
    <3>1. CASE m = t + 1
      BY <1>6, <1>10, <3>1
    <3>2. CASE m # t + 1
        BY <1>2, <1>4, <1>5, <1>6, <1>9, <3>2
    <3> QED BY <3>1, <3>2
  <2> HIDE DEF first, upTo
  <2> QED BY <1>8, <2>1, <2>2, FS_Subset
<1>13. /\ Cardinality(below) * T2 <= t * T2
       /\ (t + 1) * T2 <= Cardinality(upTo) * T2
       /\ Cardinality(below) * T2 \in Int /\ t * T2 \in Int
       /\ (t + 1) * T2 \in Int /\ Cardinality(upTo) * T2 \in Int /\ T1 * N \in Int
  <2>1. \A x, y \in Nat, n \in Nat : x <= y => x * n <= y * n /\ x * n \in Int /\ y * n \in Int
    BY SMTT(60)
  <2>2. T2 \in Nat /\ T1 \in Nat /\ t \in Nat /\ t + 1 \in Nat
    BY <1>4, SeriesAssumption DEF T1, T2
  <2>3. Cardinality(below) * T2 <= t * T2 /\ Cardinality(below) * T2 \in Int /\ t * T2 \in Int
    <3> HIDE DEF below
    <3> QED BY <1>11, <2>1, <2>2
  <2>4. /\ (t + 1) * T2 <= Cardinality(upTo) * T2
        /\ (t + 1) * T2 \in Int /\ Cardinality(upTo) * T2 \in Int
    <3> HIDE DEF upTo
    <3> QED BY <1>8, <1>12, <2>1, <2>2
  <2>5. T1 * N \in Int
    BY <1>2, <2>2
  <2> QED BY <2>3, <2>4, <2>5
<1> HIDE DEF below, upTo
<1> QED BY <1>2, <1>4, <1>8, <1>12, <1>13

LEMMA SeriesHolds == ASSUME SeriesInv  PROVE VolsAgree
BY ColumnAgrees, NeitherDrifts, ThresholdIs DEF VolsAgree, SeriesInv

(* The vol column (core/fno_derived.py) and what is read from it: once the *)
(* job has run, a day's column is the gate's own estimate wherever there   *)
(* is one, neither estimator sees a drift, and an unclamped calibrated     *)
(* threshold is the quantile it is meant to be; for every set of bars,     *)
(* number of days and of corrections, window and target.                   *)
THEOREM VolsAlwaysAgree == Spec => []VolsAgree
<1>1. Init => SeriesInv
  BY InitSeriesInv DEF Init
<1>2. SeriesInv /\ [Next]_vars => SeriesInv'
  <2> SUFFICES ASSUME SeriesInv, [Next]_vars  PROVE SeriesInv'
    OBVIOUS
  <2>1. SeriesNext \/ UNCHANGED seriesVars
    BY DEF Next, vars
  <2> QED BY <2>1, SeriesNextKeeps, SeriesStutters
<1>3. SeriesInv => VolsAgree
  BY SeriesHolds
<1> QED BY <1>1, <1>2, <1>3, PTL DEF Spec
=============================================================================
