-------------------------------- MODULE Money --------------------------------
(***************************************************************************)
(* Sums of dollar amounts.  An amount is a natural number of the smallest  *)
(* unit a configuration distinguishes (the code uses Decimal quantised to  *)
(* a millionth of a dollar: integers of that unit).                        *)
(*                                                                         *)
(* Total(f, S) is  sum((f[a] for a in S), Decimal(0)).  It is defined by   *)
(* counting: amount f[a] is f[a] distinct coins labelled a.  A count has   *)
(* no recursion, so what the model needs to know of sums is proved here    *)
(* once, from the theorems on finite sets, and cited by name.              *)
(***************************************************************************)
EXTENDS Integers, FiniteSets, FunctionTheorems, FiniteSetTheorems, TLAPS

Coins(f, S) == UNION {{a} \X (1 .. f[a]) : a \in S}

Total(f, S) == Cardinality(Coins(f, S))

-----------------------------------------------------------------------------
(***************************************************************************)
(* The coins of finitely many amounts are finitely many.                   *)
(***************************************************************************)
LEMMA CoinsFinite ==
  ASSUME NEW S, IsFiniteSet(S), NEW f, \A a \in S : f[a] \in Nat
  PROVE  IsFiniteSet(Coins(f, S))
<1> DEFINE purse == [a \in S |-> {a} \X (1 .. f[a])]
           Purses == {purse[a] : a \in S}
<1>1. purse \in Surjection(S, Purses)
  BY DEF Surjection
<1>2. IsFiniteSet(Purses)
  BY <1>1, FS_Surjection
<1>3. \A P \in Purses : IsFiniteSet(P)
  <2> TAKE P \in Purses
  <2>1. PICK a \in S : P = {a} \X (1 .. f[a])
    OBVIOUS
  <2>2. f[a] \in Int
    OBVIOUS
  <2>3. IsFiniteSet({a})
    BY FS_Singleton
  <2>4. IsFiniteSet(1 .. f[a])
    BY <2>2, FS_Interval
  <2> QED
    BY <2>1, <2>3, <2>4, FS_Product
<1>4. Coins(f, S) = UNION Purses
  BY DEF Coins
<1> QED
  BY <1>2, <1>3, <1>4, FS_UNION

(***************************************************************************)
(* A sum of natural amounts is a natural amount.                           *)
(***************************************************************************)
LEMMA TotalType ==
  ASSUME NEW S, IsFiniteSet(S), NEW f, \A a \in S : f[a] \in Nat
  PROVE  Total(f, S) \in Nat
BY CoinsFinite, FS_CardinalityType DEF Total

(***************************************************************************)
(* More terms, and terms at least as large, make a sum at least as large;  *)
(* a term that is zero need not be matched.                                *)
(***************************************************************************)
LEMMA TotalMonotone ==
  ASSUME NEW T, IsFiniteSet(T), NEW S, NEW f, NEW g,
         \A a \in S : f[a] \in Nat,
         \A a \in T : g[a] \in Nat,
         \A a \in S : f[a] = 0 \/ (a \in T /\ f[a] <= g[a])
  PROVE  Total(f, S) <= Total(g, T)
<1>1. Coins(f, S) \subseteq Coins(g, T)
  <2> SUFFICES ASSUME NEW c \in Coins(f, S)
               PROVE  c \in Coins(g, T)
    OBVIOUS
  <2>1. PICK a \in S : c \in {a} \X (1 .. f[a])
    BY DEF Coins
  <2>2. f[a] # 0
    BY <2>1
  <2>3. a \in T /\ c \in {a} \X (1 .. g[a])
    BY <2>1, <2>2
  <2> QED
    BY <2>3 DEF Coins
<1>2. IsFiniteSet(Coins(g, T))
  BY CoinsFinite
<1> QED
  BY <1>1, <1>2, FS_Subset DEF Total

(***************************************************************************)
(* A sum of nothing is zero.                                               *)
(***************************************************************************)
LEMMA TotalEmpty == \A f : Total(f, {}) = 0
<1> TAKE f
<1>1. Coins(f, {}) = {}
  BY DEF Coins
<1> QED
  BY <1>1, FS_EmptySet DEF Total

(***************************************************************************)
(* The sum over two disjoint sets is the sum of the sums.                  *)
(***************************************************************************)
LEMMA TotalDisjoint ==
  ASSUME NEW S, IsFiniteSet(S), NEW T, IsFiniteSet(T), S \cap T = {}, NEW f,
         \A a \in S \cup T : f[a] \in Nat
  PROVE  Total(f, S \cup T) = Total(f, S) + Total(f, T)
<1>1. Coins(f, S \cup T) = Coins(f, S) \cup Coins(f, T)
  BY DEF Coins
<1>2. Coins(f, S) \cap Coins(f, T) = {}
  BY DEF Coins
<1>3. IsFiniteSet(Coins(f, S)) /\ IsFiniteSet(Coins(f, T))
  BY CoinsFinite
<1>4. Cardinality({}) = 0
  BY FS_EmptySet
<1>5. /\ Cardinality(Coins(f, S)) \in Nat
      /\ Cardinality(Coins(f, T)) \in Nat
  BY <1>3, FS_CardinalityType
<1>6. Cardinality(Coins(f, S) \cup Coins(f, T))
        = Cardinality(Coins(f, S)) + Cardinality(Coins(f, T)) - 0
  BY <1>2, <1>3, <1>4, FS_Union
<1>7. \A m, n \in Nat : m + n - 0 = m + n
  OBVIOUS
<1> QED
  BY <1>1, <1>5, <1>6, <1>7 DEF Total

(***************************************************************************)
(* A sum of one amount is that amount.                                     *)
(***************************************************************************)
LEMMA TotalSingleton ==
  ASSUME NEW a, NEW f, f[a] \in Nat
  PROVE  Total(f, {a}) = f[a]
<1>1. Coins(f, {a}) = {a} \X (1 .. f[a])
  BY DEF Coins
<1>2. /\ IsFiniteSet({a}) /\ Cardinality({a}) = 1
      /\ IsFiniteSet(1 .. f[a]) /\ Cardinality(1 .. f[a]) = f[a]
  <2>1. f[a] \in Int /\ 1 \in Int /\ f[a] - 1 + 1 = f[a] /\ (1 > f[a] => f[a] = 0)
    OBVIOUS
  <2> QED
    BY <2>1, FS_Singleton, FS_Interval
<1>3. Cardinality({a} \X (1 .. f[a])) = 1 * f[a]
  BY <1>2, FS_Product, ZenonT(90)
<1>4. 1 * f[a] = f[a]
  OBVIOUS
<1> QED
  BY <1>1, <1>3, <1>4 DEF Total

(***************************************************************************)
(* A sum over the elements of S and one more is larger by that one.        *)
(***************************************************************************)
LEMMA TotalInsert ==
  ASSUME NEW S, IsFiniteSet(S), NEW a, a \notin S, NEW f,
         \A b \in S \cup {a} : f[b] \in Nat
  PROVE  Total(f, S \cup {a}) = Total(f, S) + f[a]
<1>1. IsFiniteSet({a}) /\ S \cap {a} = {}
  BY FS_Singleton
<1>2. Total(f, S \cup {a}) = Total(f, S) + Total(f, {a})
  BY <1>1, TotalDisjoint
<1> QED
  BY <1>2, TotalSingleton

(***************************************************************************)
(* A sum depends only on the terms in its set.                             *)
(***************************************************************************)
LEMMA TotalSameTerms ==
  ASSUME NEW S, NEW f, NEW g, \A a \in S : f[a] = g[a]
  PROVE  Total(f, S) = Total(g, S)
<1>1. Coins(f, S) = Coins(g, S)
  BY DEF Coins
<1> QED
  BY <1>1 DEF Total

(***************************************************************************)
(* A sum is one of its terms and the sum of the others.                    *)
(***************************************************************************)
LEMMA TotalWithout ==
  ASSUME NEW S, IsFiniteSet(S), NEW a \in S, NEW f, \A b \in S : f[b] \in Nat
  PROVE  /\ Total(f, S) = Total(f, S \ {a}) + f[a]
         /\ Total(f, S \ {a}) \in Nat
<1>1. IsFiniteSet(S \ {a})
  BY FS_Subset
<1>2. (S \ {a}) \cup {a} = S
  OBVIOUS
<1> QED
  BY <1>1, <1>2, TotalInsert, TotalType

(***************************************************************************)
(* When no more than two terms of a sum change, the sum changes by what    *)
(* they do.                                                                *)
(***************************************************************************)
LEMMA TotalTwoChanges ==
  ASSUME NEW S, IsFiniteSet(S), NEW a \in S, NEW b \in S, a # b, NEW f, NEW g,
         \A x \in S : f[x] \in Nat /\ g[x] \in Nat,
         \A x \in S : x # a /\ x # b => g[x] = f[x]
  PROVE  Total(g, S) + f[a] + f[b] = Total(f, S) + g[a] + g[b]
<1> DEFINE R == S \ {a}
           T == R \ {b}
<1>1. IsFiniteSet(R) /\ b \in R
  BY FS_Subset
<1>2. /\ Total(f, S) = Total(f, R) + f[a]
      /\ Total(g, S) = Total(g, R) + g[a]
  BY TotalWithout
<1>3. /\ Total(f, R) = Total(f, T) + f[b] /\ Total(f, T) \in Nat
      /\ Total(g, R) = Total(g, T) + g[b] /\ Total(g, T) \in Nat
  BY <1>1, TotalWithout
<1>4. Total(g, T) = Total(f, T)
  BY TotalSameTerms
<1>5. f[a] \in Nat /\ f[b] \in Nat /\ g[a] \in Nat /\ g[b] \in Nat
  OBVIOUS
<1> HIDE DEF R, T
<1> QED
  BY <1>2, <1>3, <1>4, <1>5

LEMMA TotalOneChange ==
  ASSUME NEW S, IsFiniteSet(S), NEW a \in S, NEW f, NEW g,
         \A x \in S : f[x] \in Nat /\ g[x] \in Nat,
         \A x \in S : x # a => g[x] = f[x]
  PROVE  Total(g, S) + f[a] = Total(f, S) + g[a]
<1>1. /\ Total(f, S) = Total(f, S \ {a}) + f[a] /\ Total(f, S \ {a}) \in Nat
      /\ Total(g, S) = Total(g, S \ {a}) + g[a] /\ Total(g, S \ {a}) \in Nat
  BY TotalWithout
<1>2. Total(g, S \ {a}) = Total(f, S \ {a})
  BY TotalSameTerms
<1> QED
  BY <1>1, <1>2

(***************************************************************************)
(* A sum over a part of a set is the sum over the set of terms that are    *)
(* zero outside that part.                                                 *)
(***************************************************************************)
LEMMA TotalOfPart ==
  ASSUME NEW T, NEW S, S \subseteq T, NEW f, NEW g,
         \A a \in S : g[a] = f[a],
         \A a \in T \ S : g[a] = 0
  PROVE  Total(f, S) = Total(g, T)
<1>1. \A a \in T \ S : {a} \X (1 .. g[a]) = {}
  OBVIOUS
<1>2. Coins(f, S) = Coins(g, T)
  <2>1. Coins(f, S) \subseteq Coins(g, T)
    BY DEF Coins
  <2>2. ASSUME NEW c \in Coins(g, T)
        PROVE  c \in Coins(f, S)
    <3>1. PICK a \in T : c \in {a} \X (1 .. g[a])
      BY DEF Coins
    <3>2. a \in S
      BY <1>1, <3>1
    <3> QED
      BY <3>1, <3>2 DEF Coins
  <2> QED
    BY <2>1, <2>2
<1> QED
  BY <1>2 DEF Total

-----------------------------------------------------------------------------
(***************************************************************************)
(* A fold takes the elements of a set one after the other, in an order     *)
(* that CHOOSE fixes.  One that adds up what is earned less what is spent  *)
(* is the difference of two totals: of two such folds, consider a least    *)
(* set on which they differ.                                               *)
(***************************************************************************)
First(s) == CHOOSE a \in s : TRUE

AddsUp(fold, plus, minus, S) ==
  \A s \in SUBSET S :
    fold[s] = IF s = {} THEN 0 ELSE (plus[First(s)] - minus[First(s)]) + fold[s \ {First(s)}]

LEMMA TotalsAddUp ==
  ASSUME NEW S, IsFiniteSet(S), NEW plus, NEW minus, \A a \in S : plus[a] \in Nat /\ minus[a] \in Nat
  PROVE  AddsUp([s \in SUBSET S |-> Total(plus, s) - Total(minus, s)], plus, minus, S)
<1> DEFINE fold == [s \in SUBSET S |-> Total(plus, s) - Total(minus, s)]
<1>1. SUFFICES ASSUME NEW s \in SUBSET S
               PROVE  fold[s] = IF s = {} THEN 0
                                ELSE (plus[First(s)] - minus[First(s)]) + fold[s \ {First(s)}]
  BY DEF AddsUp
<1>2. CASE s = {}
  BY <1>2, TotalEmpty
<1>3. CASE s # {}
  <2>1. First(s) \in s /\ IsFiniteSet(s) /\ s \ {First(s)} \in SUBSET S
    BY <1>3, FS_Subset DEF First
  <2> DEFINE taken == First(s)
  <2> HIDE DEF taken
  <2>2. taken \in s /\ s \ {taken} \in SUBSET S /\ plus[taken] \in Nat /\ minus[taken] \in Nat
    BY <2>1 DEF taken
  <2>3. /\ Total(plus, s) = Total(plus, s \ {taken}) + plus[taken] /\ Total(plus, s \ {taken}) \in Nat
        /\ Total(minus, s) = Total(minus, s \ {taken}) + minus[taken] /\ Total(minus, s \ {taken}) \in Nat
    BY <2>1, <2>2, TotalWithout
  <2>4. /\ fold[s] = Total(plus, s) - Total(minus, s)
        /\ fold[s \ {taken}] = Total(plus, s \ {taken}) - Total(minus, s \ {taken})
    BY <2>2
  <2> HIDE DEF fold
  <2>5. fold[s] = (plus[taken] - minus[taken]) + fold[s \ {taken}]
    BY <2>2, <2>3, <2>4
  <2> QED
    BY <1>3, <2>5 DEF taken
<1> QED
  BY <1>2, <1>3

LEMMA FoldIsTotal ==
  ASSUME NEW S, IsFiniteSet(S), NEW plus, NEW minus, \A a \in S : plus[a] \in Nat /\ minus[a] \in Nat,
         NEW fold, AddsUp(fold, plus, minus, S)
  PROVE  fold[S] = Total(plus, S) - Total(minus, S)
<1> DEFINE sums == [s \in SUBSET S |-> Total(plus, s) - Total(minus, s)]
           R == StrictSubsetOrdering(S)
           differ == {s \in SUBSET S : fold[s] # sums[s]}
<1>1. AddsUp(sums, plus, minus, S)
  BY TotalsAddUp
<1>2. IsWellFoundedOn(R, SUBSET S)
  <2>1. FiniteSubsetsOf(S) = SUBSET S
    BY FS_FiniteSubsetsOfFinite
  <2> QED
    BY <2>1, FS_StrictSubsetOrderingWellFounded
<1>3. SUFFICES differ = {}
  OBVIOUS
<1>4. SUFFICES ASSUME differ # {} PROVE FALSE
  OBVIOUS
<1>5. PICK s \in differ : \A t \in differ : <<t, s>> \notin R
  <2>1. differ \subseteq SUBSET S
    OBVIOUS
  <2> HIDE DEF R, differ
  <2> QED
    BY <1>2, <1>4, <2>1, WFMin
<1>6. s \in SUBSET S /\ fold[s] # sums[s]
  OBVIOUS
<1>7. s # {}
  BY <1>1, <1>6 DEF AddsUp
<1>8. First(s) \in s
  BY <1>7 DEF First
<1>9. <<s \ {First(s)}, s>> \in R /\ s \ {First(s)} \in SUBSET S
  BY <1>6, <1>8 DEF StrictSubsetOrdering
<1>10. fold[s \ {First(s)}] = sums[s \ {First(s)}]
  BY <1>5, <1>9
<1> HIDE DEF sums, differ, R
<1>11. /\ fold[s] = (plus[First(s)] - minus[First(s)]) + fold[s \ {First(s)}]
       /\ sums[s] = (plus[First(s)] - minus[First(s)]) + sums[s \ {First(s)}]
  BY <1>1, <1>6, <1>7 DEF AddsUp
<1> QED
  BY <1>6, <1>10, <1>11

(***************************************************************************)
(* A sum of sums is the sum of both, and a constant adds up to a product.  *)
(***************************************************************************)
LEMMA TotalOfNothing ==
  ASSUME NEW S, IsFiniteSet(S), NEW f, \A a \in S : f[a] = 0
  PROVE  Total(f, S) = 0
<1>1. Total(f, S) <= Total(f, {}) /\ Total(f, {}) = 0
  BY TotalMonotone, TotalEmpty, FS_EmptySet
<1>2. Total(f, S) \in Nat
  BY TotalType
<1> QED
  BY <1>1, <1>2

LEMMA TotalOfSums ==
  ASSUME NEW S, IsFiniteSet(S), NEW f, NEW g, NEW h,
         \A a \in S : f[a] \in Nat /\ g[a] \in Nat /\ h[a] = f[a] + g[a]
  PROVE  Total(h, S) = Total(f, S) + Total(g, S)
<1> DEFINE zero == [a \in S |-> 0]
           both == [s \in SUBSET S |-> Total(f, s) + Total(g, s)]
<1>1. AddsUp(both, h, zero, S)
  <2>1. SUFFICES ASSUME NEW s \in SUBSET S
                 PROVE  both[s] = IF s = {} THEN 0
                                  ELSE (h[First(s)] - zero[First(s)]) + both[s \ {First(s)}]
    BY DEF AddsUp
  <2>2. CASE s = {}
    BY <2>2, TotalEmpty
  <2>3. CASE s # {}
    <3>1. PICK taken \in s : taken = First(s)
      BY <2>3 DEF First
    <3>2. /\ Total(f, s) = Total(f, s \ {taken}) + f[taken] /\ Total(f, s \ {taken}) \in Nat
          /\ Total(g, s) = Total(g, s \ {taken}) + g[taken] /\ Total(g, s \ {taken}) \in Nat
      BY FS_Subset, TotalWithout
    <3>3. /\ both[s] = Total(f, s) + Total(g, s)
          /\ both[s \ {taken}] = Total(f, s \ {taken}) + Total(g, s \ {taken})
          /\ zero[taken] = 0
      OBVIOUS
    <3> HIDE DEF both, zero
    <3>4. both[s] = (h[taken] - zero[taken]) + both[s \ {taken}]
      BY <3>2, <3>3
    <3> QED
      BY <2>3, <3>1, <3>4
  <2> QED
    BY <2>2, <2>3
<1>2. both[S] = Total(h, S) - Total(zero, S)
  <2>1. \A a \in S : h[a] \in Nat /\ zero[a] \in Nat
    OBVIOUS
  <2> HIDE DEF both, zero
  <2> QED
    BY <1>1, <2>1, FoldIsTotal
<1>3. Total(zero, S) = 0 /\ both[S] = Total(f, S) + Total(g, S) /\ Total(h, S) \in Nat
  BY TotalOfNothing, TotalType
<1> HIDE DEF zero, both
<1> QED
  BY <1>2, <1>3

LEMMA TotalOfConstant ==
  ASSUME NEW S, IsFiniteSet(S), NEW f, NEW price \in Nat, \A a \in S : f[a] = price
  PROVE  Total(f, S) = price * Cardinality(S)
<1> DEFINE zero == [a \in S |-> 0]
           each == [s \in SUBSET S |-> price * Cardinality(s)]
<1>1. AddsUp(each, f, zero, S)
  <2>1. SUFFICES ASSUME NEW s \in SUBSET S
                 PROVE  each[s] = IF s = {} THEN 0
                                  ELSE (f[First(s)] - zero[First(s)]) + each[s \ {First(s)}]
    BY DEF AddsUp
  <2>2. CASE s = {}
    BY <2>2, FS_EmptySet
  <2>3. CASE s # {}
    <3>1. PICK taken \in s : taken = First(s)
      BY <2>3 DEF First
    <3>2. /\ Cardinality(s \ {taken}) = Cardinality(s) - 1
          /\ Cardinality(s) \in Nat /\ Cardinality(s \ {taken}) \in Nat
      BY FS_Subset, FS_RemoveElement, FS_CardinalityType
    <3>3. /\ each[s] = price * Cardinality(s) /\ each[s \ {taken}] = price * Cardinality(s \ {taken})
          /\ zero[taken] = 0 /\ f[taken] = price
      OBVIOUS
    <3>4. \A n \in Nat : price * (n + 1) = price + price * n /\ price * n \in Nat
      OBVIOUS
    <3>5. price * Cardinality(s) = price + price * Cardinality(s \ {taken})
      BY <3>2, <3>4
    <3> HIDE DEF each, zero
    <3>6. each[s] = (f[taken] - zero[taken]) + each[s \ {taken}]
      BY <3>2, <3>3, <3>4, <3>5
    <3> QED
      BY <2>3, <3>1, <3>6
  <2> QED
    BY <2>2, <2>3
<1>2. each[S] = Total(f, S) - Total(zero, S)
  <2>1. \A a \in S : f[a] \in Nat /\ zero[a] \in Nat
    OBVIOUS
  <2> HIDE DEF each, zero
  <2> QED
    BY <1>1, <2>1, FoldIsTotal
<1>3. Total(zero, S) = 0 /\ each[S] = price * Cardinality(S) /\ Total(f, S) \in Nat
  BY TotalOfNothing, TotalType
<1> HIDE DEF zero, each
<1> QED
  BY <1>2, <1>3

(***************************************************************************)
(* A common factor comes out of a sum.                                     *)
(***************************************************************************)
LEMMA TotalOfMultiples ==
  ASSUME NEW S, IsFiniteSet(S), NEW f, NEW h, NEW n \in Nat,
         \A a \in S : f[a] \in Nat /\ h[a] = n * f[a]
  PROVE  Total(h, S) = n * Total(f, S)
<1> DEFINE zero == [a \in S |-> 0]
           times == [s \in SUBSET S |-> n * Total(f, s)]
<1>1. AddsUp(times, h, zero, S)
  <2>1. SUFFICES ASSUME NEW s \in SUBSET S
                 PROVE  times[s] = IF s = {} THEN 0
                                   ELSE (h[First(s)] - zero[First(s)]) + times[s \ {First(s)}]
    BY DEF AddsUp
  <2>2. CASE s = {}
    BY <2>2, TotalEmpty
  <2>3. CASE s # {}
    <3>1. PICK taken \in s : taken = First(s)
      BY <2>3 DEF First
    <3>2. Total(f, s) = Total(f, s \ {taken}) + f[taken] /\ Total(f, s \ {taken}) \in Nat
      BY TotalWithout, FS_Subset
    <3>3. /\ times[s] = n * Total(f, s) /\ times[s \ {taken}] = n * Total(f, s \ {taken})
          /\ zero[taken] = 0 /\ h[taken] = n * f[taken] /\ f[taken] \in Nat
      OBVIOUS
    <3>4. \A x, y \in Nat : n * (x + y) = n * y + n * x /\ n * x \in Nat /\ n * y \in Nat
      OBVIOUS
    <3>5. n * Total(f, s) = n * f[taken] + n * Total(f, s \ {taken})
      BY <3>2, <3>3, <3>4
    <3>6. n * f[taken] \in Nat
      BY <3>3, <3>4
    <3> HIDE DEF times, zero
    <3>7. times[s] = (h[taken] - zero[taken]) + times[s \ {taken}]
      BY <3>3, <3>5, <3>6
    <3> QED
      BY <2>3, <3>1, <3>7
  <2> QED
    BY <2>2, <2>3
<1>2. times[S] = Total(h, S) - Total(zero, S)
  <2>1. \A a \in S : h[a] \in Nat /\ zero[a] \in Nat
    OBVIOUS
  <2> HIDE DEF times, zero
  <2> QED
    BY <1>1, <2>1, FoldIsTotal
<1>3. Total(zero, S) = 0 /\ times[S] = n * Total(f, S) /\ Total(h, S) \in Nat
  <2>1. \A a \in S : h[a] \in Nat
    OBVIOUS
  <2> QED
    BY <2>1, TotalOfNothing, TotalType
<1> HIDE DEF zero, times
<1> QED
  BY <1>2, <1>3

(***************************************************************************)
(* A sum may be taken group by group.                                      *)
(***************************************************************************)
Group(of, S, w) == {a \in S : of[a] = w}

LEMMA TotalByGroups ==
  ASSUME NEW S, IsFiniteSet(S), NEW W, IsFiniteSet(W), NEW of, \A a \in S : of[a] \in W,
         NEW f, \A a \in S : f[a] \in Nat,
         NEW g, \A w \in W : g[w] = Total(f, Group(of, S, w))
  PROVE  Total(g, W) = Total(f, S)
<1> DEFINE zero == [w \in W |-> 0]
           Members(s) == {a \in S : of[a] \in s}
           both == [s \in SUBSET W |-> Total(f, Members(s))]
<1>1. \A w \in W : g[w] \in Nat
  <2> TAKE w \in W
  <2>1. Group(of, S, w) \subseteq S
    BY DEF Group
  <2> QED
    BY <2>1, FS_Subset, TotalType
<1>2. AddsUp(both, g, zero, W)
  <2>1. SUFFICES ASSUME NEW s \in SUBSET W
                 PROVE  both[s] = IF s = {} THEN 0
                                  ELSE (g[First(s)] - zero[First(s)]) + both[s \ {First(s)}]
    BY DEF AddsUp
  <2>2. CASE s = {}
    <3>1. Members(s) = {}
      BY <2>2
    <3>2. both[s] = Total(f, Members(s))
      OBVIOUS
    <3> QED
      BY <2>2, <3>1, <3>2, TotalEmpty
  <2>3. CASE s # {}
    <3>1. PICK taken \in s : taken = First(s)
      BY <2>3 DEF First
    <3>2. /\ Members(s) = Members(s \ {taken}) \cup Group(of, S, taken)
          /\ Members(s \ {taken}) \cap Group(of, S, taken) = {}
          /\ Members(s \ {taken}) \subseteq S /\ Group(of, S, taken) \subseteq S
      BY DEF Group
    <3>3. both[s] = Total(f, Members(s)) /\ both[s \ {taken}] = Total(f, Members(s \ {taken}))
      OBVIOUS
    <3>4. g[taken] = Total(f, Group(of, S, taken)) /\ g[taken] \in Nat /\ zero[taken] = 0
      BY <1>1
    <3> HIDE DEF both, zero, Members
    <3>5. IsFiniteSet(Members(s \ {taken})) /\ IsFiniteSet(Group(of, S, taken))
      BY <3>2, FS_Subset
    <3>6. Total(f, Members(s)) = Total(f, Members(s \ {taken})) + Total(f, Group(of, S, taken))
      <4>1. \A a \in Members(s \ {taken}) \cup Group(of, S, taken) : f[a] \in Nat
        BY <3>2
      <4>2. Total(f, Members(s \ {taken}) \cup Group(of, S, taken))
              = Total(f, Members(s \ {taken})) + Total(f, Group(of, S, taken))
        BY <3>2, <3>5, <4>1, TotalDisjoint
      <4> QED
        BY <3>2, <4>2
    <3>7. Total(f, Members(s \ {taken})) \in Nat
      BY <3>2, <3>5, TotalType
    <3>8. both[s] = (g[taken] - zero[taken]) + both[s \ {taken}]
      BY <3>3, <3>4, <3>6, <3>7
    <3> QED
      BY <2>3, <3>1, <3>8
  <2> QED
    BY <2>2, <2>3
<1>3. both[W] = Total(g, W) - Total(zero, W)
  <2>1. \A w \in W : g[w] \in Nat /\ zero[w] \in Nat
    BY <1>1
  <2> HIDE DEF both, zero
  <2> QED
    BY <1>2, <2>1, FoldIsTotal
<1>4. both[W] = Total(f, S)
  <2>1. Members(W) = S /\ both[W] = Total(f, Members(W))
    OBVIOUS
  <2> QED
    BY <2>1
<1>5. Total(zero, W) = 0 /\ Total(g, W) \in Nat
  BY <1>1, TotalOfNothing, TotalType
<1> HIDE DEF zero, both
<1> QED
  BY <1>3, <1>4, <1>5

-----------------------------------------------------------------------------
(***************************************************************************)
(* Product(f, S) multiplies likewise by counting, the ways to draw one     *)
(* coin of every pile; it is a common multiple of the amounts.             *)
(***************************************************************************)
Draws(f, S) == {c \in [S -> UNION {1 .. f[a] : a \in S}] : \A a \in S : c[a] \in 1 .. f[a]}

Product(f, S) == Cardinality(Draws(f, S))

LEMMA DrawsIs ==
  ASSUME NEW S, NEW f, NEW c
  PROVE  c \in Draws(f, S) <=> c = [a \in S |-> c[a]] /\ \A a \in S : c[a] \in 1 .. f[a]
BY DEF Draws

LEMMA DrawOneMore ==
  ASSUME NEW S, NEW f, NEW a \in S, \A b \in S : f[b] \in Nat
  PROVE  ExistsBijection((1 .. f[a]) \X Draws(f, S \ {a}), Draws(f, S))
<1> DEFINE T == S \ {a}
           Drawn(p) == [b \in S |-> IF b = a THEN p[1] ELSE p[2][b]]
           g == [p \in (1 .. f[a]) \X Draws(f, T) |-> Drawn(p)]
<1>1. g \in [(1 .. f[a]) \X Draws(f, T) -> Draws(f, S)]
  <2>1. ASSUME NEW p \in (1 .. f[a]) \X Draws(f, T)
        PROVE  Drawn(p) \in Draws(f, S)
    <3>1. p[1] \in 1 .. f[a] /\ p[2] \in Draws(f, T)
      OBVIOUS
    <3>2. \A b \in T : p[2][b] \in 1 .. f[b]
      BY <3>1, DrawsIs
    <3>3. \A b \in S : Drawn(p)[b] \in 1 .. f[b]
      BY <3>1, <3>2
    <3>4. Drawn(p) = [b \in S |-> Drawn(p)[b]]
      OBVIOUS
    <3> HIDE DEF Drawn
    <3> QED
      BY <3>3, <3>4, DrawsIs
  <2> QED
    BY <2>1
<1>2. ASSUME NEW p \in (1 .. f[a]) \X Draws(f, T), NEW q \in (1 .. f[a]) \X Draws(f, T), g[p] = g[q]
      PROVE  p = q
  <2>1. Drawn(p) = Drawn(q)
    BY <1>2
  <2>2. Drawn(p)[a] = p[1] /\ Drawn(q)[a] = q[1]
    OBVIOUS
  <2>3. \A b \in T : Drawn(p)[b] = p[2][b] /\ Drawn(q)[b] = q[2][b]
    OBVIOUS
  <2>4. p[2] = [b \in T |-> p[2][b]] /\ q[2] = [b \in T |-> q[2][b]]
    <3>1. p[2] \in Draws(f, T) /\ q[2] \in Draws(f, T)
      OBVIOUS
    <3> QED
      BY <3>1, DrawsIs
  <2>5. p = <<p[1], p[2]>> /\ q = <<q[1], q[2]>>
    OBVIOUS
  <2> HIDE DEF Drawn
  <2>6. p[1] = q[1] /\ \A b \in T : p[2][b] = q[2][b]
    BY <2>1, <2>2, <2>3
  <2>7. p[2] = q[2]
    BY <2>4, <2>6
  <2> QED
    BY <2>5, <2>6, <2>7
<1>3. ASSUME NEW c \in Draws(f, S)
      PROVE  \E p \in (1 .. f[a]) \X Draws(f, T) : g[p] = c
  <2> DEFINE rest == [b \in T |-> c[b]]
  <2>1. c = [b \in S |-> c[b]] /\ \A b \in S : c[b] \in 1 .. f[b]
    BY DrawsIs
  <2>2. rest \in Draws(f, T)
    <3>1. \A b \in T : rest[b] \in 1 .. f[b]
      BY <2>1
    <3>2. rest = [b \in T |-> rest[b]]
      OBVIOUS
    <3> HIDE DEF rest
    <3> QED
      BY <3>1, <3>2, DrawsIs
  <2>3. \A b \in S : Drawn(<<c[a], rest>>)[b] = c[b]
    OBVIOUS
  <2>4. Drawn(<<c[a], rest>>) = [b \in S |-> Drawn(<<c[a], rest>>)[b]]
    OBVIOUS
  <2>5. <<c[a], rest>> \in (1 .. f[a]) \X Draws(f, T)
    BY <2>1, <2>2
  <2>6. g[<<c[a], rest>>] = Drawn(<<c[a], rest>>)
    BY <2>5
  <2> HIDE DEF rest, Drawn, g
  <2>7. Drawn(<<c[a], rest>>) = c
    BY <2>1, <2>3, <2>4
  <2> QED
    BY <2>5, <2>6, <2>7
<1> HIDE DEF g
<1>4. g \in Bijection((1 .. f[a]) \X Draws(f, T), Draws(f, S))
  <2>1. IsInjective(g)
    BY <1>1, <1>2 DEF IsInjective
  <2> QED
    BY <1>1, <1>3, <2>1 DEF Bijection, Injection, Surjection
<1> QED
  BY <1>4 DEF ExistsBijection

LEMMA DrawsFinite ==
  ASSUME NEW S, IsFiniteSet(S), NEW f, \A a \in S : f[a] \in Nat \ {0}
  PROVE  IsFiniteSet(Draws(f, S))
<1> DEFINE R == StrictSubsetOrdering(S)
           many == {s \in SUBSET S : ~IsFiniteSet(Draws(f, s))}
<1>1. IsWellFoundedOn(R, SUBSET S)
  <2>1. FiniteSubsetsOf(S) = SUBSET S
    BY FS_FiniteSubsetsOfFinite
  <2> QED
    BY <2>1, FS_StrictSubsetOrderingWellFounded
<1>2. SUFFICES ASSUME many # {} PROVE FALSE
  OBVIOUS
<1>3. PICK s \in many : \A t \in many : <<t, s>> \notin R
  <2>1. many \subseteq SUBSET S
    OBVIOUS
  <2> HIDE DEF R, many
  <2> QED
    BY <1>1, <1>2, <2>1, WFMin
<1>4. s \in SUBSET S /\ ~IsFiniteSet(Draws(f, s))
  OBVIOUS
<1>5. s # {}
  <2>1. SUFFICES ASSUME s = {} PROVE FALSE
    OBVIOUS
  <2>2. Draws(f, s) \subseteq {[a \in {} |-> 0]}
    <3>1. ASSUME NEW c \in Draws(f, s)
          PROVE  c = [a \in {} |-> 0]
      <4>1. c = [a \in s |-> c[a]]
        BY DrawsIs
      <4> QED
        BY <2>1, <4>1
    <3> QED
      BY <3>1
  <2> QED
    BY <1>4, <2>2, FS_Singleton, FS_Subset
<1>6. PICK a \in s : TRUE
  BY <1>5
<1>7. <<s \ {a}, s>> \in R /\ s \ {a} \in SUBSET S
  BY <1>4 DEF StrictSubsetOrdering
<1>8. IsFiniteSet(Draws(f, s \ {a}))
  BY <1>3, <1>7
<1> HIDE DEF many, R
<1>9. IsFiniteSet(1 .. f[a]) /\ \A b \in s : f[b] \in Nat
  <2>1. f[a] \in Int /\ \A b \in s : f[b] \in Nat
    BY <1>4
  <2> QED
    BY <2>1, FS_Interval
<1>10. IsFiniteSet((1 .. f[a]) \X Draws(f, s \ {a}))
  BY <1>8, <1>9, FS_Product
<1> QED
  BY <1>4, <1>9, <1>10, DrawOneMore, FS_Bijection

LEMMA ProductType ==
  ASSUME NEW S, IsFiniteSet(S), NEW f, \A a \in S : f[a] \in Nat \ {0}
  PROVE  Product(f, S) \in Nat \ {0}
<1>1. [a \in S |-> 1] \in Draws(f, S)
  <2> DEFINE ones == [a \in S |-> 1]
  <2>1. ones = [a \in S |-> ones[a]] /\ \A a \in S : ones[a] \in 1 .. f[a]
    OBVIOUS
  <2> HIDE DEF ones
  <2>2. ones \in Draws(f, S)
    BY <2>1, DrawsIs
  <2> QED
    BY <2>2 DEF ones
<1>2. IsFiniteSet(Draws(f, S))
  BY DrawsFinite
<1> QED
  BY <1>1, <1>2, FS_CardinalityType, FS_EmptySet DEF Product

LEMMA ProductWithout ==
  ASSUME NEW S, IsFiniteSet(S), NEW f, \A b \in S : f[b] \in Nat \ {0}, NEW a \in S
  PROVE  Product(f, S) = f[a] * Product(f, S \ {a}) /\ Product(f, S \ {a}) \in Nat \ {0}
<1>1. IsFiniteSet(S \ {a}) /\ \A b \in S \ {a} : f[b] \in Nat \ {0}
  BY FS_Subset
<1>2. f[a] \in Int /\ 1 \in Int /\ f[a] - 1 + 1 = f[a] /\ ~(1 > f[a])
  OBVIOUS
<1>3. IsFiniteSet(1 .. f[a]) /\ Cardinality(1 .. f[a]) = f[a]
  BY <1>2, FS_Interval
<1>4. IsFiniteSet(Draws(f, S \ {a}))
  BY <1>1, DrawsFinite
<1>5. /\ IsFiniteSet((1 .. f[a]) \X Draws(f, S \ {a}))
      /\ Cardinality((1 .. f[a]) \X Draws(f, S \ {a})) = f[a] * Cardinality(Draws(f, S \ {a}))
  BY <1>3, <1>4, FS_Product
<1>6. Cardinality(Draws(f, S)) = Cardinality((1 .. f[a]) \X Draws(f, S \ {a}))
  <2>1. \A b \in S : f[b] \in Nat
    OBVIOUS
  <2> QED
    BY <1>5, <2>1, DrawOneMore, FS_Bijection
<1> QED
  BY <1>1, <1>5, <1>6, ProductType DEF Product

(***************************************************************************)
(* Multiplying, and dividing rounded down, keep an order.                  *)
(***************************************************************************)
LEMMA ProductGrows ==
  ASSUME NEW n \in Nat, NEW a \in Nat, NEW b \in Nat, a <= b
  PROVE  n * a \in Nat /\ n * b \in Nat /\ n * a <= n * b
<1>1. PICK d \in Nat : b = a + d
  OBVIOUS
<1>2. n * b = n * a + n * d /\ n * d \in Nat /\ n * a \in Nat
  BY <1>1
<1> QED
  BY <1>2

LEMMA DivisionGrows ==
  ASSUME NEW a \in Nat, NEW b \in Nat, NEW n \in Nat \ {0}, a <= b
  PROVE  a \div n \in Nat /\ a \div n <= b \div n
<1> DEFINE p == a \div n
           q == b \div n
<1>1. p \in Nat /\ q \in Nat /\ n * p <= a /\ b < n * (q + 1)
  BY Z3
<1> HIDE DEF p, q
<1>2. SUFFICES p <= q
  BY <1>1 DEF p, q
<1>3. SUFFICES ASSUME q + 1 <= p
               PROVE  FALSE
  BY <1>1
<1>4. n * (q + 1) <= n * p
  <2>1. PICK d \in Nat : p = (q + 1) + d
    BY <1>1, <1>3
  <2>2. n * p = n * (q + 1) + n * d /\ n * d \in Nat
    BY <1>1, <2>1
  <2> QED
    BY <1>1, <2>2
<1> QED
  BY <1>1, <1>4
=============================================================================
