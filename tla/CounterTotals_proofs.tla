------------------------ MODULE CounterTotals_proofs ------------------------
(***************************************************************************)
(* The totals of the Application Summary are exact, for every number of    *)
(* threads and every value of their counters.  First the facts about sums  *)
(* over finite sets the proofs need, by induction over a set of numbers.   *)
(***************************************************************************)
EXTENDS MCCounterTotals, FiniteSetTheorems, WellFoundedInduction, TLAPS

-----------------------------------------------------------------------------
(* Sums over finite sets *)

\* Induction over the numbers, for a set instead of a predicate: the number
\* that is not in it and has no smaller such number does not exist.
LEMMA SetInduction ==
  ASSUME NEW S, 0 \in S, \A n \in Nat : n \in S => n + 1 \in S
  PROVE  Nat \subseteq S
<1> DEFINE R == { ss \in Nat \X Nat : ss[1] < ss[2] }
           T == Nat \ S
<1>1. SUFFICES ASSUME T # {} PROVE FALSE
  OBVIOUS
<1>2. IsWellFoundedOn(R, Nat)
  BY NatLessThanWellFounded DEF OpToRel
<1>3. T \subseteq Nat
  OBVIOUS
<1>4. PICK x \in T : \A y \in T : <<y, x>> \notin R
  <2> HIDE DEF R, T
  <2> QED BY <1>1, <1>2, <1>3, WFMin
<1>5. x \in Nat /\ x # 0
  OBVIOUS
<1>6. x - 1 \in Nat /\ <<x - 1, x>> \in R
  BY <1>5
<1>7. x - 1 \in T
  BY <1>5, <1>6
<1> QED BY <1>4, <1>6, <1>7

\* The element a fold takes next.
Pick(T) == CHOOSE x \in T : TRUE

\* g sums f up over the subsets of D.
Sums(f, g, D) ==
  g = [T \in D |-> IF T = {} THEN 0 ELSE f[Pick(T)] + g[T \ { Pick(T) }]]

SumsOf(f, S) == CHOOSE g : Sums(f, g, SUBSET S)

\* What the fold of the community modules computes.
LEMMA SumDef ==
  ASSUME NEW f, NEW S
  PROVE  SumFunctionOnSet(f, S) = SumsOf(f, S)[S]
BY DEF SumsOf, SumFunctionOnSet, FoldFunctionOnSet, MapThenFoldSet, Sums, Pick

\* The subsets an induction over their size has reached.
Small(S, n) == { T \in SUBSET S : Cardinality(T) <= n }

LEMMA SmallerSet ==
  ASSUME NEW S, IsFiniteSet(S), NEW n \in Nat, NEW T \in Small(S, n + 1), T # {}
  PROVE  /\ Pick(T) \in T
         /\ T \ { Pick(T) } \in Small(S, n)
<1>1. Pick(T) \in T
  BY DEF Pick
<1>2. T \subseteq S /\ IsFiniteSet(T)
  BY FS_Subset DEF Small
<1>3. Cardinality(T) \in Nat /\ Cardinality(T) <= n + 1
  BY <1>2, FS_CardinalityType DEF Small
<1>4. Cardinality(T \ { Pick(T) }) = Cardinality(T) - 1
  BY <1>1, <1>2, FS_RemoveElement
<1> QED
  BY <1>1, <1>2, <1>3, <1>4 DEF Small

\* The recursive function of the fold exists: it is extended to larger subsets.
LEMMA SumsExist ==
  ASSUME NEW f, NEW S, IsFiniteSet(S)
  PROVE  \E g : Sums(f, g, SUBSET S)
<1> DEFINE M == { n \in Nat : \E g : Sums(f, g, Small(S, n)) }
<1>1. 0 \in M
  <2> DEFINE g == [T \in Small(S, 0) |-> 0]
  <2>1. ASSUME NEW T \in Small(S, 0) PROVE T = {}
    BY FS_Subset, FS_EmptySet, FS_CardinalityType DEF Small
  <2>2. Sums(f, g, Small(S, 0))
    BY <2>1 DEF Sums
  <2> QED
    BY <2>2
<1>2. ASSUME NEW n \in Nat, n \in M PROVE n + 1 \in M
  <2>1. PICK g : Sums(f, g, Small(S, n))
    BY <1>2
  <2> DEFINE h == [T \in Small(S, n + 1) |->
                     IF T = {} THEN 0 ELSE f[Pick(T)] + g[T \ { Pick(T) }]]
  <2>2. Small(S, n) \subseteq Small(S, n + 1)
    <3> SUFFICES ASSUME NEW T \in Small(S, n) PROVE Cardinality(T) <= n + 1
      BY DEF Small
    <3>1. T \subseteq S /\ IsFiniteSet(T) /\ Cardinality(T) <= n
      BY FS_Subset DEF Small
    <3>2. Cardinality(T) \in Nat
      BY <3>1, FS_CardinalityType
    <3> QED
      BY <3>1, <3>2
  <2>3. \A T \in Small(S, n) : h[T] = g[T]
    BY <2>1, <2>2 DEF Sums
  <2>4. ASSUME NEW T \in Small(S, n + 1), T # {}
        PROVE  h[T \ { Pick(T) }] = g[T \ { Pick(T) }]
    <3> HIDE DEF h
    <3> QED BY <2>3, <2>4, SmallerSet
  <2>5. ASSUME NEW T \in Small(S, n + 1)
        PROVE  h[T] = IF T = {} THEN 0 ELSE f[Pick(T)] + h[T \ { Pick(T) }]
    <3>1. h[T] = IF T = {} THEN 0 ELSE f[Pick(T)] + g[T \ { Pick(T) }]
      OBVIOUS
    <3> HIDE DEF h
    <3> QED BY <3>1, <2>4
  <2>6. h = [T \in Small(S, n + 1) |-> h[T]]
    OBVIOUS
  <2>7. Sums(f, h, Small(S, n + 1))
    <3> HIDE DEF h
    <3>1. [T \in Small(S, n + 1) |-> h[T]] =
            [T \in Small(S, n + 1) |->
               IF T = {} THEN 0 ELSE f[Pick(T)] + h[T \ { Pick(T) }]]
      BY <2>5
    <3> QED BY <3>1, <2>6 DEF Sums
  <2> QED
    BY <2>7
<1>3. Nat \subseteq M
  <2> HIDE DEF M
  <2> QED BY <1>1, <1>2, SetInduction
<1>4. Cardinality(S) \in M
  BY <1>3, FS_CardinalityType
<1>5. Small(S, Cardinality(S)) = SUBSET S
  BY FS_Subset DEF Small
<1> QED
  BY <1>4, <1>5

\* The sum of f over a finite set, one element at a time.
LEMMA SumsOfSum ==
  ASSUME NEW f, NEW S, IsFiniteSet(S), NEW T \in SUBSET S
  PROVE  SumsOf(f, S)[T] =
           IF T = {} THEN 0 ELSE f[Pick(T)] + SumsOf(f, S)[T \ { Pick(T) }]
<1>1. Sums(f, SumsOf(f, S), SUBSET S)
  BY SumsExist DEF SumsOf
<1> QED
  BY <1>1 DEF Sums

\* Induction over the subsets of a finite set, one element at a time.
LEMMA FiniteInduction ==
  ASSUME NEW S, IsFiniteSet(S), NEW P, {} \in P,
         \A T \in SUBSET S : T \in P => \A x \in S \ T : T \union { x } \in P
  PROVE  S \in P
<1> DEFINE M == { n \in Nat : Small(S, n) \subseteq P }
<1>1. 0 \in M
  <2>1. ASSUME NEW T \in Small(S, 0) PROVE T = {}
    BY FS_Subset, FS_EmptySet, FS_CardinalityType DEF Small
  <2> QED
    BY <2>1
<1>2. ASSUME NEW n \in Nat, n \in M PROVE n + 1 \in M
  <2>1. ASSUME NEW T \in Small(S, n + 1), T # {} PROVE T \in P
    <3>1. Pick(T) \in T /\ T \ { Pick(T) } \in P /\ T \subseteq S
      BY <1>2, <2>1, SmallerSet DEF Small
    <3>2. (T \ { Pick(T) }) \union { Pick(T) } = T
      BY <3>1
    <3>3. Pick(T) \in S \ (T \ { Pick(T) }) /\ T \ { Pick(T) } \in SUBSET S
      BY <3>1
    <3> QED
      BY <3>1, <3>2, <3>3
  <2>2. \A T \in Small(S, n + 1) : T \in P
    BY <2>1
  <2> QED
    BY <2>2
<1>3. Nat \subseteq M
  <2> HIDE DEF M
  <2> QED BY <1>1, <1>2, SetInduction
<1> QED
  BY <1>3, FS_CardinalityType DEF Small

Sum(f, S) == SumFunctionOnSet(f, S)

\* A sum over a subset is the same within every finite set.
LEMMA SumsAgree ==
  ASSUME NEW f, NEW S, IsFiniteSet(S), NEW T \in SUBSET S
  PROVE  SumsOf(f, S)[T] = Sum(f, T)
<1> DEFINE gS == SumsOf(f, S)
           gT == SumsOf(f, T)
<1>1. IsFiniteSet(T)
  BY FS_Subset
<1>2. \A R \in SUBSET S : gS[R] = IF R = {} THEN 0 ELSE f[Pick(R)] + gS[R \ { Pick(R) }]
  BY SumsOfSum
<1>3. \A R \in SUBSET T : gT[R] = IF R = {} THEN 0 ELSE f[Pick(R)] + gT[R \ { Pick(R) }]
  BY <1>1, SumsOfSum
<1>4. gT[T] = Sum(f, T)
  BY SumDef DEF Sum
<1> HIDE DEF gS, gT
<1> DEFINE M == { n \in Nat : \A R \in Small(T, n) : gS[R] = gT[R] }
<1>5. 0 \in M
  <2>1. ASSUME NEW R \in Small(T, 0) PROVE R = {}
    BY <1>1, FS_Subset, FS_EmptySet, FS_CardinalityType DEF Small
  <2> QED
    BY <1>2, <1>3, <2>1
<1>6. ASSUME NEW n \in Nat, n \in M PROVE n + 1 \in M
  <2>1. ASSUME NEW R \in Small(T, n + 1), R # {} PROVE gS[R] = gT[R]
    <3>1. R \in SUBSET T /\ R \in SUBSET S
      BY DEF Small
    <3>2. gS[R \ { Pick(R) }] = gT[R \ { Pick(R) }]
      BY <1>1, <1>6, <2>1, SmallerSet
    <3> QED
      BY <1>2, <1>3, <2>1, <3>1, <3>2
  <2>2. {} \in SUBSET T /\ {} \in SUBSET S
    OBVIOUS
  <2>3. \A R \in Small(T, n + 1) : gS[R] = gT[R]
    BY <1>2, <1>3, <2>1, <2>2
  <2> QED
    BY <2>3
<1>7. Nat \subseteq M
  <2> HIDE DEF M
  <2> QED BY <1>5, <1>6, SetInduction
<1>8. T \in Small(T, Cardinality(T)) /\ Cardinality(T) \in Nat
  BY <1>1, FS_CardinalityType DEF Small
<1>9. gS[T] = gT[T]
  BY <1>7, <1>8
<1> QED
  BY <1>4, <1>9 DEF gS

LEMMA SumEmpty == ASSUME NEW f, NEW S, S = {} PROVE Sum(f, S) = 0
<1> DEFINE g == SumsOf(f, S)
<1>1. IsFiniteSet(S) /\ S \in SUBSET S
  BY FS_EmptySet
<1>2. \A T \in SUBSET S :
        g[T] = IF T = {} THEN 0 ELSE f[Pick(T)] + g[T \ { Pick(T) }]
  BY <1>1, SumsOfSum
<1>3. Sum(f, S) = g[S]
  BY SumDef DEF Sum
<1> HIDE DEF g
<1>4. g[S] = IF S = {} THEN 0 ELSE f[Pick(S)] + g[S \ { Pick(S) }]
  BY <1>1, <1>2
<1> QED
  BY <1>3, <1>4

LEMMA SumStep ==
  ASSUME NEW f, NEW S, IsFiniteSet(S), S # {}
  PROVE  Pick(S) \in S /\ Sum(f, S) = f[Pick(S)] + Sum(f, S \ { Pick(S) })
<1> DEFINE gS == SumsOf(f, S)
<1>1. gS[S] = f[Pick(S)] + gS[S \ { Pick(S) }]
  BY SumsOfSum
<1>2. gS[S] = Sum(f, S)
  BY SumDef DEF Sum
<1>3. gS[S \ { Pick(S) }] = Sum(f, S \ { Pick(S) })
  <2>1. S \ { Pick(S) } \in SUBSET S
    OBVIOUS
  <2> QED BY <2>1, SumsAgree
<1> QED
  <2> HIDE DEF gS
  <2> QED BY <1>1, <1>2, <1>3 DEF Pick

LEMMA SumType ==
  ASSUME NEW f, NEW S, IsFiniteSet(S), \A x \in S : f[x] \in Int
  PROVE  Sum(f, S) \in Int
<1> DEFINE M == { n \in Nat : \A T \in Small(S, n) : Sum(f, T) \in Int }
<1>1. 0 \in M
  <2>1. ASSUME NEW T \in Small(S, 0) PROVE T = {}
    BY FS_Subset, FS_EmptySet, FS_CardinalityType DEF Small
  <2>2. \A T \in Small(S, 0) : Sum(f, T) \in Int
    BY <2>1, SumEmpty
  <2> QED
    BY <2>2
<1>2. ASSUME NEW n \in Nat, n \in M PROVE n + 1 \in M
  <2>1. ASSUME NEW T \in Small(S, n + 1), T # {} PROVE Sum(f, T) \in Int
    <3>1. IsFiniteSet(T) /\ T \subseteq S
      BY FS_Subset DEF Small
    <3>2. Pick(T) \in T /\ Sum(f, T) = f[Pick(T)] + Sum(f, T \ { Pick(T) })
      BY <2>1, <3>1, SumStep
    <3>3. Sum(f, T \ { Pick(T) }) \in Int
      BY <1>2, <2>1, SmallerSet
    <3> QED
      BY <3>1, <3>2, <3>3
  <2>2. \A T \in Small(S, n + 1) : Sum(f, T) \in Int
    BY <2>1, SumEmpty
  <2> QED
    BY <2>2
<1>3. Nat \subseteq M
  <2> HIDE DEF M
  <2> QED BY <1>1, <1>2, SetInduction
<1> QED
  BY <1>3, FS_CardinalityType DEF Small

\* The order in which a fold takes the elements makes no difference.
LEMMA SumInsert ==
  ASSUME NEW f, NEW S, IsFiniteSet(S), \A y \in S : f[y] \in Int,
         NEW T \in SUBSET S, NEW x \in S \ T
  PROVE  Sum(f, T \union { x }) = f[x] + Sum(f, T)
<1> DEFINE M == { n \in Nat : \A R \in Small(S, n) : \A z \in S \ R :
                    Sum(f, R \union { z }) = f[z] + Sum(f, R) }
<1>1. \A R \in SUBSET S : IsFiniteSet(R) /\ Sum(f, R) \in Int
  <2> SUFFICES ASSUME NEW R \in SUBSET S PROVE IsFiniteSet(R) /\ Sum(f, R) \in Int
    OBVIOUS
  <2>1. IsFiniteSet(R)
    BY FS_Subset
  <2> QED BY <2>1, SumType
<1>a. ASSUME NEW z \in S PROVE Sum(f, { z }) = f[z]
  <2>1. IsFiniteSet({ z }) /\ Pick({ z }) = z /\ { z } \ { z } = {}
    BY <1>1 DEF Pick
  <2>2. Sum(f, {}) = 0
    BY SumEmpty
  <2>3. Sum(f, { z }) = f[z] + 0
    BY <2>1, <2>2, SumStep
  <2> QED BY <2>3
<1>2. 0 \in M
  <2>1. ASSUME NEW R \in Small(S, 0) PROVE R = {}
    BY FS_Subset, FS_EmptySet, FS_CardinalityType DEF Small
  <2>2. \A R \in Small(S, 0) : \A z \in S \ R :
          Sum(f, R \union { z }) = f[z] + Sum(f, R)
    <3> SUFFICES ASSUME NEW R \in Small(S, 0), NEW z \in S \ R
                 PROVE  Sum(f, R \union { z }) = f[z] + Sum(f, R)
      OBVIOUS
    <3>1. R = {} /\ R \union { z } = { z }
      BY <2>1
    <3>2. Sum(f, R) = 0
      BY <3>1, SumEmpty
    <3>3. f[z] \in Int /\ Sum(f, { z }) = f[z]
      BY <1>a
    <3> QED BY <3>1, <3>2, <3>3
  <2> QED
    BY <2>2
<1>3. ASSUME NEW n \in Nat, n \in M PROVE n + 1 \in M
  <2>1. ASSUME NEW R \in Small(S, n + 1), R # {}, NEW z \in S \ R
        PROVE  Sum(f, R \union { z }) = f[z] + Sum(f, R)
    <3> DEFINE U == R \union { z }
    <3>1. R \in SUBSET S /\ U \in SUBSET S /\ IsFiniteSet(U) /\ U # {}
      BY <1>1 DEF Small
    <3>2. Pick(U) \in U /\ Sum(f, U) = f[Pick(U)] + Sum(f, U \ { Pick(U) })
      <4> HIDE DEF U
      <4> QED BY <3>1, SumStep
    <3>3. CASE Pick(U) = z
      <4>1. U \ { z } = R
        OBVIOUS
      <4> QED BY <3>2, <3>3, <4>1
    <3>4. CASE Pick(U) # z
      <4> DEFINE y == Pick(U)
                 Q == R \ { y }
      <4>1. y \in R
        BY <3>2, <3>4
      <4> HIDE DEF y
      <4>2. U \ { y } = Q \union { z } /\ R = Q \union { y } /\ z \in S \ Q /\ y \in S \ Q
        BY <3>1, <3>2, <3>4, <4>1 DEF y
      <4>3. Q \in Small(S, n)
        <5>1. Cardinality(Q) = Cardinality(R) - 1
          BY <1>1, <3>1, <4>1, FS_RemoveElement
        <5>2. Cardinality(R) \in Nat /\ Cardinality(R) <= n + 1
          BY <1>1, <3>1, FS_CardinalityType DEF Small
        <5> QED BY <3>1, <5>1, <5>2 DEF Small
      <4> HIDE DEF Q
      <4>4. Sum(f, Q \union { z }) = f[z] + Sum(f, Q)
        BY <1>3, <4>2, <4>3
      <4>5. Sum(f, Q \union { y }) = f[y] + Sum(f, Q)
        BY <1>3, <4>2, <4>3
      <4>6. Sum(f, U) = f[y] + Sum(f, Q \union { z })
        BY <3>2, <4>2 DEF y
      <4>7. Sum(f, Q) \in Int /\ f[y] \in Int /\ f[z] \in Int
        BY <1>1, <4>2, <4>3 DEF Small
      <4>8. Sum(f, R) = f[y] + Sum(f, Q)
        BY <4>2, <4>5
      <4> QED BY <4>4, <4>6, <4>7, <4>8
    <3> QED BY <3>3, <3>4
  <2>2. \A R \in Small(S, n + 1) : \A z \in S \ R :
          Sum(f, R \union { z }) = f[z] + Sum(f, R)
    <3> SUFFICES ASSUME NEW R \in Small(S, n + 1), NEW z \in S \ R, R = {}
                 PROVE  Sum(f, R \union { z }) = f[z] + Sum(f, R)
      BY <2>1
    <3>1. R \union { z } = { z }
      OBVIOUS
    <3>2. Sum(f, R) = 0
      BY <3>1, SumEmpty
    <3>3. f[z] \in Int /\ Sum(f, { z }) = f[z]
      BY <1>a
    <3> QED BY <3>1, <3>2, <3>3
  <2> QED
    BY <2>2
<1>4. Nat \subseteq M
  <2> HIDE DEF M
  <2> QED BY <1>2, <1>3, SetInduction
<1>5. T \in Small(S, Cardinality(T)) /\ Cardinality(T) \in Nat
  BY <1>1, FS_CardinalityType DEF Small
<1> QED
  BY <1>4, <1>5

\* What is zero outside T sums up to the same over S and over T.
LEMMA SumOfNonZero ==
  ASSUME NEW S, IsFiniteSet(S), NEW T \in SUBSET S, NEW f, NEW h,
         \A x \in S : f[x] \in Int,
         \A x \in S : h[x] = IF x \in T THEN f[x] ELSE 0
  PROVE  Sum(h, S) = Sum(f, T)
<1> DEFINE P == { R \in SUBSET S : Sum(h, R) = Sum(f, R \intersect T) }
<1>1. {} \in P
  <2>1. Sum(h, {}) = 0 /\ Sum(f, {} \intersect T) = 0
    BY SumEmpty
  <2> QED BY <2>1
<1>2. ASSUME NEW R \in SUBSET S, R \in P, NEW x \in S \ R
      PROVE  R \union { x } \in P
  <2>1. R \intersect T \in SUBSET S /\ x \in S \ (R \intersect T)
    OBVIOUS
  <2>2. Sum(h, R \union { x }) = h[x] + Sum(h, R)
    BY SumInsert
  <2>3. IsFiniteSet(R \intersect T)
    BY <2>1, FS_Subset
  <2>4. Sum(f, R \intersect T) \in Int /\ Sum(f, R \intersect T) = Sum(h, R)
    BY <1>2, <2>1, <2>3, SumType
  <2>5. CASE x \in T
    <3>1. (R \union { x }) \intersect T = (R \intersect T) \union { x }
      BY <2>5
    <3>2. Sum(f, (R \intersect T) \union { x }) = f[x] + Sum(f, R \intersect T)
      BY <2>1, SumInsert
    <3>3. h[x] = f[x]
      BY <2>5
    <3> QED BY <2>2, <2>4, <3>1, <3>2, <3>3
  <2>6. CASE x \notin T
    <3>1. (R \union { x }) \intersect T = R \intersect T
      BY <2>6
    <3>2. h[x] = 0
      BY <2>6
    <3>3. Sum(h, R \union { x }) = Sum(f, R \intersect T)
      BY <2>2, <2>4, <3>2
    <3>4. Sum(f, (R \union { x }) \intersect T) = Sum(f, R \intersect T)
      BY <3>1
    <3> QED BY <3>3, <3>4
  <2> QED BY <2>5, <2>6
<1>3. S \in P
  <2> HIDE DEF P
  <2> QED BY <1>1, <1>2, FiniteInduction
<1>4. S \intersect T = T
  OBVIOUS
<1> QED
  BY <1>3, <1>4

-----------------------------------------------------------------------------
(* The invariant *)

AllColumns == Columns \union { "total" }

\* A counter is -1 or more, so nothing is ever subtracted.
LEMMA AddendType ==
  ASSUME NEW counter \in StatementsCounter
  PROVE  /\ \A c \in Columns : /\ counter[c] \in Int /\ counter[c] >= NotCounting
                               /\ Addend(counter[c]) \in Nat
         /\ Addends(counter) \in Nat
         /\ threadTotal(counter) \in Int
<1>1. \A c \in Columns : counter[c] \in NotCounting .. MaxCount
  BY DEF StatementsCounter
<1>2. MaxCount \in Int /\ NotCounting \in Int
  BY CounterTotalsAssumption DEF NotCounting
<1>3. \A c \in Columns : counter[c] \in Int /\ counter[c] >= NotCounting
  BY <1>1, <1>2
<1>4. \A c \in Columns : Addend(counter[c]) \in Nat
  BY <1>3 DEF Addend, NotCounting
<1>5. Addends(counter) \in Nat
  BY <1>4 DEF Addends, Columns
<1>6. threadTotal(counter) \in Int
  BY <1>5 DEF threadTotal, NotCounting
<1> QED
  BY <1>3, <1>4, <1>5, <1>6

LEMMA AddendsOfType ==
  ASSUME counters \in Seq(StatementsCounter), NEW c \in AllColumns
  PROVE  /\ DOMAIN counters = 1 .. Len(counters)
         /\ IsFiniteSet(1 .. Len(counters))
         /\ \A i \in 1 .. Len(counters) : addendsOf(c)[i] \in Nat
<1>1. DOMAIN counters = 1 .. Len(counters) /\ Len(counters) \in Nat
  OBVIOUS
<1>2. ASSUME NEW i \in 1 .. Len(counters) PROVE addendsOf(c)[i] \in Nat
  <2>1. counters[i] \in StatementsCounter
    OBVIOUS
  <2>2. c = "total" \/ c \in Columns
    BY DEF AllColumns
  <2> QED
    BY <1>1, <2>1, <2>2, AddendType DEF addendsOf
<1> QED
  BY <1>1, <1>2, FS_Interval

\* The inductive invariant.
TotalsInv == TypeOK /\ SumsSoFar /\ TotalsSoFar

LEMMA InitInv == Init => TotalsInv
<1> SUFFICES ASSUME Init PROVE TotalsInv
  OBVIOUS
<1>1. counters \in Seq(StatementsCounter)
  <2>1. PICK n \in 0 .. MaxThreads : counters \in [1 .. n -> StatementsCounter]
    BY DEF Init
  <2> QED
    BY <2>1, CounterTotalsAssumption
<1>2. Len(counters) \in Nat
  BY <1>1
<1>3. TypeOK
  BY <1>1, <1>2 DEF Init, TypeOK, NotCounting, Labels
<1>4. SumsSoFar
  BY DEF Init, SumsSoFar
<1>5. TotalsSoFar
  BY DEF Init, TotalsSoFar
<1> QED
  BY <1>3, <1>4, <1>5 DEF TotalsInv

LEMMA NextInv == TotalsInv /\ [Next]_vars => TotalsInv'
<1> SUFFICES ASSUME TotalsInv, [Next]_vars PROVE TotalsInv'
  OBVIOUS
<1>1. TypeOK /\ SumsSoFar /\ TotalsSoFar
  BY DEF TotalsInv
<1>2. /\ counters \in Seq(StatementsCounter) /\ Len(counters) \in Nat
      /\ sumCounters \in [AllColumns -> Int] /\ item \in 0 .. Len(counters)
      /\ threadTotals \in Seq(Int) /\ Len(threadTotals) \in Nat
  BY <1>1 DEF TypeOK, AllColumns
<1>3. counters' = counters =>
        \A c \in AllColumns : startOf(c)' = startOf(c) /\ addendsOf(c)' = addendsOf(c)
  BY DEF startOf, addendsOf, anyOfCounters
<1>4. CASE zeroStep
  <2>1. /\ counters' = counters /\ item' = item /\ threadTotals' = threadTotals
        /\ pc = "appZeroCounters" /\ pc' = "appSumUpCounters"
        /\ sumCounters' = [c \in AllColumns |->
             IF \E d \in Columns : c \in { d, "total" } /\ anyOfCounters(d)
               THEN 0 ELSE sumCounters[c]]
    BY <1>4 DEF zeroStep, appZeroCounters, AllColumns
  <2>2. item = 0 /\ \A c \in AllColumns : sumCounters[c] = NotCounting
    BY <1>1, <2>1 DEF SumsSoFar, AllColumns
  <2>3. TypeOK'
    <3>1. sumCounters' \in [AllColumns -> Int]
      BY <1>2, <2>1
    <3> QED BY <1>2, <2>1, <3>1 DEF TypeOK, Labels, AllColumns
  <2>4. SumsSoFar'
    <3>1. ASSUME NEW c \in AllColumns
          PROVE  sumCounters'[c] = startOf(c) + SumFunctionOnSet(addendsOf(c), 1 .. 0)
      <4>1. SumFunctionOnSet(addendsOf(c), 1 .. 0) = 0
        BY SumEmpty DEF Sum
      <4>2. sumCounters'[c] = startOf(c) /\ startOf(c) \in Int
        BY <2>1, <2>2 DEF startOf, NotCounting
      <4> QED BY <4>1, <4>2
    <3>2. summedUp' = 0
      BY <2>1, <2>2 DEF summedUp
    <3> QED BY <1>3, <2>1, <3>1, <3>2 DEF SumsSoFar, AllColumns
  <2>5. TotalsSoFar'
    BY <1>1, <2>1 DEF TotalsSoFar
  <2> QED BY <2>3, <2>4, <2>5 DEF TotalsInv
<1>5. CASE sumUpStep
  <2>1. /\ counters' = counters /\ threadTotals' = threadTotals /\ pc' = pc
        /\ pc = "appSumUpCounters" /\ item < Len(counters) /\ item' = item + 1
        /\ sumCounters' = [c \in AllColumns |->
             sumCounters[c] + IF c = "total" THEN Addends(counters[item'])
                                             ELSE Addend(counters[item'][c])]
    BY <1>5 DEF sumUpStep, AllColumns
  <2>2. item' \in 1 .. Len(counters) /\ item \in Nat
    BY <1>2, <2>1
  <2>3. ASSUME NEW c \in AllColumns
        PROVE  /\ addendsOf(c)[item'] \in Int
               /\ sumCounters'[c] = sumCounters[c] + addendsOf(c)[item']
    <3>1. item' \in DOMAIN counters
      BY <1>2, <2>2
    <3>2. addendsOf(c)[item'] \in Nat
      BY <1>2, <2>2, AddendsOfType
    <3>3. addendsOf(c)[item'] = IF c = "total" THEN Addends(counters[item'])
                                              ELSE Addend(counters[item'][c])
      BY <3>1 DEF addendsOf
    <3>4. sumCounters'[c] = sumCounters[c] + addendsOf(c)[item']
      BY <2>1, <3>3
    <3> QED
      BY <3>2, <3>4
  <2>4. TypeOK'
    <3>1. sumCounters' \in [AllColumns -> Int]
      <4>1. \A c \in AllColumns : sumCounters'[c] \in Int
        BY <1>2, <2>3
      <4> QED BY <2>1, <4>1
    <3> QED BY <1>2, <2>1, <2>2, <3>1 DEF TypeOK, Labels, AllColumns
  <2>5. SumsSoFar'
    <3>1. ASSUME NEW c \in AllColumns
          PROVE  sumCounters'[c] = startOf(c) + SumFunctionOnSet(addendsOf(c), 1 .. item')
      <4>1. sumCounters[c] = startOf(c) + Sum(addendsOf(c), 1 .. item)
        BY <1>1, <2>1 DEF SumsSoFar, summedUp, Sum, AllColumns
      <4>2. /\ 1 .. item \in SUBSET (1 .. Len(counters))
            /\ item' \in (1 .. Len(counters)) \ (1 .. item)
            /\ (1 .. item) \union { item' } = 1 .. item'
        BY <1>2, <2>1, <2>2
      <4>3. IsFiniteSet(1 .. Len(counters))
            /\ \A i \in 1 .. Len(counters) : addendsOf(c)[i] \in Int
        BY <1>2, AddendsOfType
      <4>4. Sum(addendsOf(c), (1 .. item) \union { item' }) =
              addendsOf(c)[item'] + Sum(addendsOf(c), 1 .. item)
        <5> DEFINE f == addendsOf(c)
                   S == 1 .. Len(counters)
                   T == 1 .. item
        <5>1. IsFiniteSet(S) /\ T \in SUBSET S /\ item' \in S \ T
              /\ \A i \in S : f[i] \in Int
          BY <4>2, <4>3
        <5> HIDE DEF f, S, T
        <5>2. Sum(f, T \union { item' }) = f[item'] + Sum(f, T)
          BY <5>1, SumInsert
        <5> QED BY <5>2 DEF f, T
      <4>5. Sum(addendsOf(c), 1 .. item) \in Int
        <5>1. IsFiniteSet(1 .. item) /\ \A i \in 1 .. item : addendsOf(c)[i] \in Int
          BY <4>2, <4>3, FS_Subset
        <5> QED BY <5>1, SumType
      <4>6. startOf(c) \in Int
        BY DEF startOf, NotCounting
      <4>7. Sum(addendsOf(c), 1 .. item') =
              addendsOf(c)[item'] + Sum(addendsOf(c), 1 .. item)
        BY <4>2, <4>4
      <4>8. sumCounters'[c] = startOf(c) + Sum(addendsOf(c), 1 .. item')
        BY <2>3, <4>1, <4>5, <4>6, <4>7
      <4> QED
        BY <4>8 DEF Sum
    <3>2. summedUp' = item'
      BY <2>1 DEF summedUp
    <3> QED BY <1>3, <2>1, <3>1, <3>2 DEF SumsSoFar, AllColumns
  <2>6. TotalsSoFar'
    BY <1>1, <2>1 DEF TotalsSoFar
  <2> QED BY <2>4, <2>5, <2>6 DEF TotalsInv
<1>6. CASE endOfSumUp
  <2>1. /\ counters' = counters /\ threadTotals' = threadTotals
        /\ pc = "appSumUpCounters" /\ pc' = "printThreads"
        /\ item = Len(counters) /\ item' = 0 /\ sumCounters' = sumCounters
    BY <1>6 DEF endOfSumUp
  <2>2. TypeOK'
    BY <1>1, <1>2, <2>1 DEF TypeOK, Labels
  <2>3. SumsSoFar'
    BY <1>1, <1>3, <2>1 DEF SumsSoFar, summedUp, AllColumns
  <2>4. TotalsSoFar'
    BY <1>1, <2>1 DEF TotalsSoFar
  <2> QED BY <2>2, <2>3, <2>4 DEF TotalsInv
<1>7. CASE printThread
  <2>1. /\ counters' = counters /\ sumCounters' = sumCounters /\ pc' = pc
        /\ pc = "printThreads" /\ item < Len(counters) /\ item' = item + 1
        /\ threadTotals' = Append(threadTotals, threadTotal(counters[item']))
    BY <1>7 DEF printThread
  <2>2. item' \in 1 .. Len(counters) /\ Len(threadTotals) = item
    BY <1>1, <1>2, <2>1 DEF TotalsSoFar
  <2>3. threadTotal(counters[item']) \in Int
    <3>1. counters[item'] \in StatementsCounter
      BY <1>2, <2>2
    <3> QED BY <3>1, AddendType
  <2>4. TypeOK'
    BY <1>1, <1>2, <2>1, <2>2, <2>3 DEF TypeOK
  <2>5. SumsSoFar'
    BY <1>1, <1>3, <2>1 DEF SumsSoFar, summedUp, AllColumns
  <2>6. TotalsSoFar'
    <3>1. Len(threadTotals') = item'
      BY <1>2, <2>1, <2>2
    <3>2. ASSUME NEW i \in DOMAIN threadTotals'
          PROVE  threadTotals'[i] = threadTotal(counters[i])
      <4>1. i \in 1 .. item'
        BY <1>2, <2>1, <2>2
      <4>2. CASE i = item'
        BY <1>2, <2>1, <2>2, <4>2
      <4>3. CASE i # item'
        <5>1. i \in DOMAIN threadTotals /\ threadTotals'[i] = threadTotals[i]
          BY <1>2, <2>1, <2>2, <4>1, <4>3
        <5> QED BY <1>1, <5>1 DEF TotalsSoFar
      <4> QED BY <4>2, <4>3
    <3>3. \A i \in DOMAIN threadTotals' : threadTotals'[i] = threadTotal(counters[i])'
      BY <2>1, <3>2 DEF threadTotal, Addends, Addend
    <3> QED BY <2>1, <3>1, <3>3 DEF TotalsSoFar
  <2> QED BY <2>4, <2>5, <2>6 DEF TotalsInv
<1>8. CASE endOfPrint
  <2>1. /\ counters' = counters /\ threadTotals' = threadTotals
        /\ sumCounters' = sumCounters /\ item' = item
        /\ pc = "printThreads" /\ pc' = "done" /\ item = Len(counters)
    BY <1>8 DEF endOfPrint
  <2>2. TypeOK'
    BY <1>1, <2>1 DEF TypeOK, Labels
  <2>3. SumsSoFar'
    BY <1>1, <1>3, <2>1 DEF SumsSoFar, summedUp, AllColumns
  <2>4. TotalsSoFar'
    BY <1>1, <2>1 DEF TotalsSoFar
  <2> QED BY <2>2, <2>3, <2>4 DEF TotalsInv
<1>9. CASE UNCHANGED vars
  <2>1. /\ counters' = counters /\ threadTotals' = threadTotals
        /\ sumCounters' = sumCounters /\ item' = item /\ pc' = pc
    BY <1>9 DEF vars
  <2>2. TypeOK'
    BY <1>1, <2>1 DEF TypeOK
  <2>3. SumsSoFar'
    BY <1>1, <1>3, <2>1 DEF SumsSoFar, summedUp, AllColumns
  <2>4. TotalsSoFar'
    BY <1>1, <2>1 DEF TotalsSoFar
  <2> QED BY <2>2, <2>3, <2>4 DEF TotalsInv
<1> QED
  BY <1>4, <1>5, <1>6, <1>7, <1>8, <1>9 DEF Next

-----------------------------------------------------------------------------
(* The printed totals *)

\* The reference, in terms of addends: what does not count adds nothing.
LEMMA ReferenceOfAddends ==
  ASSUME NEW S, IsFiniteSet(S), NEW values, DOMAIN values = S,
         \A x \in S : values[x] \in Int,
         NEW h, \A x \in S : h[x] = Addend(values[x]),
         \A x \in S : values[x] >= NotCounting
  PROVE  Reference(values) =
           Sum(h, S) + IF \E x \in S : values[x] > NotCounting THEN 0 ELSE NotCounting
<1> DEFINE T == { x \in S : values[x] # NotCounting }
<1>1. \A x \in S : h[x] = IF x \in T THEN values[x] ELSE 0
  BY DEF Addend, NotCounting
<1>2. T \in SUBSET S /\ T = { x \in S : values[x] > NotCounting }
  BY DEF NotCounting
<1>3. Reference(values) = IF T = {} THEN NotCounting ELSE Sum(values, T)
  BY DEF Reference, Sum
<1>4. (\E x \in S : values[x] > NotCounting) <=> T # {}
  BY <1>2
<1> HIDE DEF T
<1>5. Sum(h, S) = Sum(values, T)
  BY <1>1, <1>2, SumOfNonZero
<1>6. T = {} => Sum(values, T) = 0
  BY SumEmpty
<1>7. Sum(values, T) \in Int
  <2>1. IsFiniteSet(T) /\ \A x \in T : values[x] \in Int
    BY <1>2, FS_Subset
  <2> QED BY <2>1, SumType
<1> QED
  BY <1>3, <1>4, <1>5, <1>6, <1>7 DEF NotCounting

\* What each counter of each thread adds to the total.
cellAddends == [ic \in (DOMAIN counters) \X Columns |-> Addend(cells[ic])]

\* One row more, three cells more.
LEMMA SumOfRow ==
  ASSUME counters \in Seq(StatementsCounter), NEW k \in 1 .. Len(counters)
  PROVE  Sum(cellAddends, (1 .. k) \X Columns) =
           addendsOf("total")[k] + Sum(cellAddends, (1 .. (k - 1)) \X Columns)
<1> DEFINE S == (1 .. Len(counters)) \X Columns
           R == (1 .. (k - 1)) \X Columns
           a == <<k, "normal">>
           b == <<k, "affecting">>
           c == <<k, "transactional">>
           f == cellAddends
<1>1. DOMAIN counters = 1 .. Len(counters) /\ Len(counters) \in Nat
  OBVIOUS
<1>2. IsFiniteSet(S)
  <2>1. Columns = (({} \union { "normal" }) \union { "affecting" }) \union { "transactional" }
    BY DEF Columns
  <2>2. IsFiniteSet(Columns)
    BY <2>1, FS_EmptySet, FS_AddElement
  <2>3. IsFiniteSet(1 .. Len(counters))
    BY <1>1, FS_Interval
  <2> QED BY <2>2, <2>3, FS_Product
<1>3. counters[k] \in StatementsCounter
  OBVIOUS
<1>4. ASSUME NEW x \in S PROVE f[x] \in Int
  <2>1. x[1] \in 1 .. Len(counters) /\ x[2] \in Columns
    OBVIOUS
  <2>2. counters[x[1]] \in StatementsCounter
    BY <2>1
  <2>3. f[x] = Addend(counters[x[1]][x[2]])
    BY <1>1 DEF cellAddends, cells
  <2> QED BY <2>1, <2>2, <2>3, AddendType
<1>5. /\ f[a] = Addend(counters[k]["normal"])
      /\ f[b] = Addend(counters[k]["affecting"])
      /\ f[c] = Addend(counters[k]["transactional"])
  BY <1>1 DEF cellAddends, cells, Columns
<1>6. addendsOf("total")[k] = Addends(counters[k])
  BY <1>1 DEF addendsOf
<1>7. /\ R \in SUBSET S
      /\ a \in S \ R /\ R \union { a } \in SUBSET S
      /\ b \in S \ (R \union { a }) /\ (R \union { a }) \union { b } \in SUBSET S
      /\ c \in S \ ((R \union { a }) \union { b })
  BY DEF Columns
<1>8. (1 .. k) \X Columns = ((R \union { a }) \union { b }) \union { c }
  <2>1. 1 .. k = (1 .. (k - 1)) \union { k }
    OBVIOUS
  <2>2. (1 .. k) \X Columns = R \union ({ k } \X Columns)
    BY <2>1
  <2>3. { k } \X Columns = { a, b, c }
    BY DEF Columns
  <2> QED BY <2>2, <2>3
<1>9. f[a] \in Int /\ f[b] \in Int /\ f[c] \in Int /\ Sum(f, R) \in Int
  <2>1. IsFiniteSet(R) /\ \A x \in R : f[x] \in Int
    <3> HIDE DEF f, R, S
    <3> QED BY <1>2, <1>4, <1>7, FS_Subset
  <2>2. Sum(f, R) \in Int
    BY <2>1, SumType
  <2>3. f[a] \in Int /\ f[b] \in Int /\ f[c] \in Int
    <3> HIDE DEF f, a, b, c
    <3> QED BY <1>4, <1>7
  <2> QED BY <2>2, <2>3
<1> HIDE DEF R, S, a, b, c, f
<1>10. /\ Sum(f, R \union { a }) = f[a] + Sum(f, R)
       /\ Sum(f, (R \union { a }) \union { b }) = f[b] + Sum(f, R \union { a })
       /\ Sum(f, ((R \union { a }) \union { b }) \union { c }) =
            f[c] + Sum(f, (R \union { a }) \union { b })
  <2>1. \A T \in SUBSET S : \A x \in S \ T : Sum(f, T \union { x }) = f[x] + Sum(f, T)
    BY <1>2, <1>4, SumInsert
  <2>2. Sum(f, R \union { a }) = f[a] + Sum(f, R)
    BY <1>7, <2>1
  <2>3. Sum(f, (R \union { a }) \union { b }) = f[b] + Sum(f, R \union { a })
    BY <1>7, <2>1
  <2>4. Sum(f, ((R \union { a }) \union { b }) \union { c }) =
          f[c] + Sum(f, (R \union { a }) \union { b })
    BY <1>7, <2>1
  <2> QED
    BY <2>2, <2>3, <2>4
<1>11. Sum(f, (1 .. k) \X Columns) = f[a] + f[b] + f[c] + Sum(f, R)
  <2>1. Sum(f, (1 .. k) \X Columns) = Sum(f, ((R \union { a }) \union { b }) \union { c })
    BY <1>8
  <2> QED BY <2>1, <1>9, <1>10
<1>12. addendsOf("total")[k] = f[a] + f[b] + f[c]
  BY <1>5, <1>6 DEF Addends
<1> QED
  BY <1>11, <1>12 DEF f, R

\* The cells add up to the sum of the rows.
LEMMA SumOfCells ==
  ASSUME counters \in Seq(StatementsCounter)
  PROVE  Sum(cellAddends, (DOMAIN counters) \X Columns) =
           Sum(addendsOf("total"), DOMAIN counters)
<1> DEFINE f == cellAddends
           h == addendsOf("total")
           n == Len(counters)
           M == { k \in Nat : k <= n => Sum(f, (1 .. k) \X Columns) = Sum(h, 1 .. k) }
<1>1. 0 \in M
  <2>1. 1 .. 0 = {} /\ (1 .. 0) \X Columns = {}
    OBVIOUS
  <2>2. Sum(f, (1 .. 0) \X Columns) = 0 /\ Sum(h, 1 .. 0) = 0
    <3> HIDE DEF f, h
    <3> QED BY <2>1, SumEmpty
  <2> QED BY <2>2
<1>2. ASSUME NEW k \in Nat, k \in M PROVE k + 1 \in M
  <2> SUFFICES ASSUME k + 1 <= n
               PROVE  Sum(f, (1 .. (k + 1)) \X Columns) = Sum(h, 1 .. (k + 1))
    OBVIOUS
  <2>1. k + 1 \in 1 .. n /\ n \in Nat /\ (k + 1) - 1 = k
    OBVIOUS
  <2>2. Sum(f, (1 .. (k + 1)) \X Columns) = h[k + 1] + Sum(f, (1 .. k) \X Columns)
    <3>1. Sum(f, (1 .. (k + 1)) \X Columns) =
            h[k + 1] + Sum(f, (1 .. ((k + 1) - 1)) \X Columns)
      BY <2>1, SumOfRow
    <3> QED BY <2>1, <3>1
  <2>3. IsFiniteSet(1 .. n) /\ \A i \in 1 .. n : h[i] \in Int
    BY AddendsOfType DEF AllColumns
  <2>4. /\ 1 .. k \in SUBSET (1 .. n) /\ k + 1 \in (1 .. n) \ (1 .. k)
        /\ (1 .. k) \union { k + 1 } = 1 .. (k + 1)
    BY <2>1
  <2>5. Sum(h, (1 .. k) \union { k + 1 }) = h[k + 1] + Sum(h, 1 .. k)
    <3> DEFINE S == 1 .. n
               T == 1 .. k
               x == k + 1
    <3> HIDE DEF S, T, x, h
    <3>1. IsFiniteSet(S) /\ T \in SUBSET S /\ x \in S \ T /\ \A i \in S : h[i] \in Int
      BY <2>3, <2>4 DEF S, T, x
    <3>2. Sum(h, T \union { x }) = h[x] + Sum(h, T)
      BY <3>1, SumInsert
    <3> QED BY <3>2 DEF T, x
  <2>6. Sum(f, (1 .. k) \X Columns) = Sum(h, 1 .. k)
    BY <1>2, <2>1
  <2> HIDE DEF f, h
  <2> QED BY <2>2, <2>4, <2>5, <2>6
<1>3. Nat \subseteq M
  <2> HIDE DEF M
  <2> QED BY <1>1, <1>2, SetInduction
<1>4. n \in Nat /\ DOMAIN counters = 1 .. n
  OBVIOUS
<1>5. Sum(f, (1 .. n) \X Columns) = Sum(h, 1 .. n)
  BY <1>3, <1>4
<1> QED
  BY <1>4, <1>5

\* After the loop a sum is its start and what every thread adds.
LEMMA SumsAtTheEnd ==
  ASSUME TotalsInv, pc = "done", NEW c \in AllColumns
  PROVE  sumCounters[c] = startOf(c) + Sum(addendsOf(c), DOMAIN counters)
<1>1. counters \in Seq(StatementsCounter)
  BY DEF TotalsInv, TypeOK
<1> QED
  BY <1>1 DEF TotalsInv, SumsSoFar, summedUp, Sum, AllColumns

LEMMA ExactAtTheEnd == TotalsInv => TotalsExact
<1> SUFFICES ASSUME TotalsInv, pc = "done"
             PROVE  /\ \A c \in Columns : sumCounters[c] = Reference(column(c))
                    /\ sumCounters["total"] = Reference(cells)
  BY DEF TotalsExact
<1> DEFINE D == DOMAIN counters
<1>1. counters \in Seq(StatementsCounter) /\ D = 1 .. Len(counters) /\ Len(counters) \in Nat
  BY DEF TotalsInv, TypeOK
<1>2. \A i \in D : counters[i] \in StatementsCounter
  BY <1>1
<1>3. \A i \in D : \A c \in Columns : counters[i][c] \in Int /\ counters[i][c] >= NotCounting
  BY <1>2, AddendType
<1>4. IsFiniteSet(D) /\ \A c \in AllColumns : Sum(addendsOf(c), D) \in Int
  <2>1. \A c \in AllColumns : \A i \in 1 .. Len(counters) : addendsOf(c)[i] \in Nat
    BY <1>1, AddendsOfType
  <2>2. IsFiniteSet(1 .. Len(counters))
    BY <1>1, FS_Interval
  <2>3. IsFiniteSet(D) /\ \A c \in AllColumns : \A i \in D : addendsOf(c)[i] \in Int
    <3> HIDE DEF D
    <3> QED BY <1>1, <2>1, <2>2
  <2> HIDE DEF D
  <2> QED BY <2>3, SumType
<1>5. ASSUME NEW c \in Columns PROVE sumCounters[c] = Reference(column(c))
  <2>1. DOMAIN column(c) = D /\ \A i \in D : column(c)[i] = counters[i][c]
    BY DEF column
  <2>2. c # "total" /\ c \in AllColumns
    BY DEF Columns, AllColumns
  <2>3. \A i \in D : addendsOf(c)[i] = Addend(column(c)[i])
    BY <2>1, <2>2 DEF addendsOf
  <2>4. \A i \in D : column(c)[i] \in Int /\ column(c)[i] >= NotCounting
    BY <1>3, <2>1
  <2>5. Reference(column(c)) =
          Sum(addendsOf(c), D) +
            IF \E i \in D : column(c)[i] > NotCounting THEN 0 ELSE NotCounting
    <3> HIDE DEF D
    <3> QED BY <1>4, <2>1, <2>3, <2>4, ReferenceOfAddends
  <2>6. (\E i \in D : column(c)[i] > NotCounting) <=> anyOfCounters(c)
    BY <2>1 DEF anyOfCounters
  <2>7. startOf(c) = IF anyOfCounters(c) THEN 0 ELSE NotCounting
    BY <2>2 DEF startOf
  <2>8. sumCounters[c] = startOf(c) + Sum(addendsOf(c), D)
    BY <2>2, SumsAtTheEnd
  <2>9. startOf(c) \in Int /\ Sum(addendsOf(c), D) \in Int
    BY <1>4, <2>2, <2>7 DEF NotCounting
  <2> HIDE DEF D
  <2> QED
    BY <2>5, <2>6, <2>7, <2>8, <2>9
<1>6. sumCounters["total"] = Reference(cells)
  <2> DEFINE S == D \X Columns
  <2>1. DOMAIN cells = S /\ \A x \in S : cells[x] = counters[x[1]][x[2]]
    BY DEF cells
  <2>2. \A x \in S : cells[x] \in Int /\ cells[x] >= NotCounting
    BY <1>3, <2>1
  <2>3. \A x \in S : cellAddends[x] = Addend(cells[x])
    BY DEF cellAddends
  <2>4. IsFiniteSet(S)
    <3>1. Columns = (({} \union { "normal" }) \union { "affecting" }) \union { "transactional" }
      BY DEF Columns
    <3>2. IsFiniteSet(Columns)
      BY <3>1, FS_EmptySet, FS_AddElement
    <3> QED BY <1>4, <3>2, FS_Product
  <2>5. Reference(cells) =
          Sum(cellAddends, S) +
            IF \E x \in S : cells[x] > NotCounting THEN 0 ELSE NotCounting
    <3> HIDE DEF S
    <3> QED BY <2>1, <2>2, <2>3, <2>4, ReferenceOfAddends
  <2>6. (\E x \in S : cells[x] > NotCounting) <=> \E c \in Columns : anyOfCounters(c)
    <3>1. ASSUME NEW x \in S, cells[x] > NotCounting
          PROVE  \E c \in Columns : anyOfCounters(c)
      BY <2>1, <3>1 DEF anyOfCounters
    <3>2. ASSUME NEW c \in Columns, anyOfCounters(c)
          PROVE  \E x \in S : cells[x] > NotCounting
      <4>1. PICK i \in D : counters[i][c] > NotCounting
        BY <3>2 DEF anyOfCounters
      <4>2. <<i, c>> \in S /\ cells[<<i, c>>] > NotCounting
        BY <2>1, <4>1
      <4> QED BY <4>2
    <3> QED BY <3>1, <3>2
  <2>7. startOf("total") = IF \E c \in Columns : anyOfCounters(c) THEN 0 ELSE NotCounting
    BY DEF startOf
  <2>8. "total" \in AllColumns
    BY DEF AllColumns
  <2>9. sumCounters["total"] = startOf("total") + Sum(addendsOf("total"), D)
    BY <2>8, SumsAtTheEnd
  <2>10. Sum(cellAddends, S) = Sum(addendsOf("total"), D)
    BY <1>1, SumOfCells
  <2>11. startOf("total") \in Int /\ Sum(addendsOf("total"), D) \in Int
    BY <1>4, <2>7, <2>8 DEF NotCounting
  <2> HIDE DEF D, S
  <2> QED
    BY <2>5, <2>6, <2>7, <2>9, <2>10, <2>11
<1> QED
  BY <1>5, <1>6

LEMMA FitAtTheEnd == TotalsInv => TotalsFit
<1> SUFFICES ASSUME TotalsInv, pc = "done"
             PROVE  /\ Len(threadTotals) = Len(counters)
                    /\ sumCounters["total"] = Reference(threadTotals)
  BY DEF TotalsFit
<1> DEFINE D == DOMAIN counters
<1>1. /\ counters \in Seq(StatementsCounter) /\ D = 1 .. Len(counters)
      /\ Len(counters) \in Nat /\ threadTotals \in Seq(Int)
  BY DEF TotalsInv, TypeOK
<1>2. Len(threadTotals) = Len(counters)
  BY DEF TotalsInv, TotalsSoFar
<1>3. DOMAIN threadTotals = D /\ \A i \in D : threadTotals[i] = threadTotal(counters[i])
  BY <1>1, <1>2 DEF TotalsInv, TotalsSoFar
<1>4. "total" \in AllColumns
  BY DEF AllColumns
<1>5. /\ IsFiniteSet(D) /\ Sum(addendsOf("total"), D) \in Int
      /\ \A i \in D : addendsOf("total")[i] = Addends(counters[i])
  BY <1>1, <1>4, AddendsOfType, SumType DEF addendsOf
<1>6. ASSUME NEW i \in D
      PROVE  /\ threadTotals[i] \in Int /\ threadTotals[i] >= NotCounting
             /\ addendsOf("total")[i] = Addend(threadTotals[i])
             /\ threadTotals[i] > NotCounting <=>
                  \E c \in Columns : counters[i][c] > NotCounting
  <2>1. counters[i] \in StatementsCounter
    BY <1>1
  <2>2. Addends(counters[i]) \in Nat
    BY <2>1, AddendType
  <2>3. threadTotals[i] = threadTotal(counters[i]) /\ addendsOf("total")[i] = Addends(counters[i])
    BY <1>3, <1>5
  <2>4. CASE \E c \in Columns : counters[i][c] > NotCounting
    <3>1. threadTotals[i] = Addends(counters[i])
      BY <2>2, <2>3, <2>4 DEF threadTotal
    <3>2. Addend(threadTotals[i]) = threadTotals[i] /\ threadTotals[i] > NotCounting
      BY <2>2, <3>1 DEF Addend, NotCounting
    <3> QED BY <2>2, <2>3, <2>4, <3>1, <3>2 DEF NotCounting
  <2>5. CASE ~ \E c \in Columns : counters[i][c] > NotCounting
    <3>1. \A c \in Columns : Addend(counters[i][c]) = 0
      BY <2>5 DEF Addend
    <3>2. Addends(counters[i]) = 0
      BY <3>1 DEF Addends, Columns
    <3>3. threadTotals[i] = NotCounting
      BY <2>3, <2>5, <3>2 DEF threadTotal, NotCounting
    <3>4. Addend(threadTotals[i]) = 0
      BY <3>3 DEF Addend, NotCounting
    <3> QED BY <2>3, <2>5, <3>2, <3>3, <3>4 DEF NotCounting
  <2> QED BY <2>4, <2>5
<1>7. Reference(threadTotals) =
        Sum(addendsOf("total"), D) +
          IF \E i \in D : threadTotals[i] > NotCounting THEN 0 ELSE NotCounting
  <2> HIDE DEF D
  <2> QED BY <1>3, <1>5, <1>6, ReferenceOfAddends
<1>8. (\E i \in D : threadTotals[i] > NotCounting) <=> \E c \in Columns : anyOfCounters(c)
  BY <1>6 DEF anyOfCounters
<1>9. startOf("total") = IF \E c \in Columns : anyOfCounters(c) THEN 0 ELSE NotCounting
  BY DEF startOf
<1>10. sumCounters["total"] = startOf("total") + Sum(addendsOf("total"), D)
  BY <1>4, SumsAtTheEnd
<1>11. startOf("total") \in Int
  BY <1>9 DEF NotCounting
<1>12. sumCounters["total"] = Reference(threadTotals)
  <2> HIDE DEF D
  <2> QED BY <1>5, <1>7, <1>8, <1>9, <1>10, <1>11
<1> QED
  BY <1>2, <1>12

\* The invariant itself: sums and printed totals are right at every item.
THEOREM TotalsCorrect == Spec => []TotalsInv
  BY InitInv, NextInv, PTL DEF Spec

\* Every printed sum is that of the counters that count, for every number of
\* threads and every value of their counters.
THEOREM TotalsExactCorrect == Spec => []TotalsExact
  BY ExactAtTheEnd, TotalsCorrect, PTL

\* The total of the application is the sum of the totals printed next to it
\* for the threads.
THEOREM TotalsFitCorrect == Spec => []TotalsFit
  BY FitAtTheEnd, TotalsCorrect, PTL

=============================================================================
