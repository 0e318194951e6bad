----------------------- MODULE ScenarioAssignmentProofs -----------------------
(***************************************************************************)
(* The largest-remainder assignment of ScenarioAssignment is proportional, *)
(* for every distribution, every number of orders and every way ties are   *)
(* ranked.                                                                 *)
(***************************************************************************)
EXTENDS ScenarioAssignment, FiniteSums

----------------------------------------------------------------------------
(* Sequences put together from parts *)

(* g[i] is made of the first i parts, for i up to m. *)
Joins(parts, m, g) ==
  g = [i \in 1..m |-> IF i = 1 THEN parts[i] ELSE g[i - 1] \o parts[i]]

(* There is such a function, whatever the number of parts.                 *)
LEMMA JoinsExist ==
  ASSUME NEW parts
  PROVE  \A m \in Nat : \E g : Joins(parts, m, g)
<1> DEFINE N == {m \in Nat : \E g : Joins(parts, m, g)}
<1>1. 0 \in N
  <2>1. Joins(parts, 0, [i \in 1..0 |-> 0])
    BY DEF Joins
  <2> QED
    BY <2>1
<1>2. ASSUME NEW m \in N PROVE m + 1 \in N
  <2>1. PICK g : Joins(parts, m, g)
    OBVIOUS
  <2> DEFINE h == [i \in 1..(m + 1) |->
                     IF i = 1 THEN parts[i] ELSE g[i - 1] \o parts[i]]
  <2>2. \A i \in 1..m : h[i] = g[i]
    <3>1. \A i \in 1..m : g[i] = IF i = 1 THEN parts[i] ELSE g[i - 1] \o parts[i]
      BY <2>1 DEF Joins
    <3> QED
      BY <3>1
  <2>3. \A i \in 1..(m + 1) : i # 1 => g[i - 1] = h[i - 1]
    <3> HIDE DEF h
    <3>1. \A i \in 1..(m + 1) : i # 1 => i - 1 \in 1..m
      OBVIOUS
    <3> QED
      BY <2>2, <3>1
  <2>4. Joins(parts, m + 1, h)
    BY <2>3 DEF Joins
  <2> QED
    BY <2>4
<1> HIDE DEF N
<1>3. N = Nat
  BY <1>1, <1>2, Induction DEF N
<1> QED
  BY <1>3 DEF N

Joined(parts) == CHOOSE g : Joins(parts, Len(parts), g)

(* FlattenSeq is the last of these. *)
LEMMA FlattenIsJoined ==
  ASSUME NEW P, NEW parts \in Seq(P), parts # <<>>
  PROVE  /\ Joins(parts, Len(parts), Joined(parts))
         /\ FlattenSeq(parts) = Joined(parts)[Len(parts)]
<1>1. Len(parts) \in Nat /\ Len(parts) # 0
  OBVIOUS
<1>2. Joins(parts, Len(parts), Joined(parts))
  BY <1>1, JoinsExist DEF Joined
<1>3. FlattenSeq(parts) = Joined(parts)[Len(parts)]
  BY <1>1 DEF FlattenSeq, Joined, Joins
<1> QED
  BY <1>2, <1>3

LEMMA LengthOfConcat ==
  ASSUME NEW A, NEW a \in Seq(A), NEW b \in Seq(A)
  PROVE  /\ a \o b \in Seq(A) /\ Len(a \o b) = Len(a) + Len(b)
         /\ Len(a) \in Nat /\ Len(b) \in Nat
OBVIOUS

(* How often s occurs in two sequences after each other. *)
LEMMA ShareOfConcat ==
  ASSUME NEW A, NEW a \in Seq(A), NEW b \in Seq(A), NEW s
  PROVE  /\ Share(a, s) \in Nat
         /\ Share(a \o b, s) = Share(a, s) + Share(b, s)
<1> DEFINE In(q) == {i \in DOMAIN q : q[i] = s}
           Moved  == {i + Len(a) : i \in In(b)}
<1>1. Len(a) \in Nat /\ DOMAIN a = 1..Len(a) /\ Len(b) \in Nat /\ DOMAIN b = 1..Len(b)
  OBVIOUS
<1>2. IsFiniteSet(In(a)) /\ IsFiniteSet(In(b))
  BY <1>1, NumbersTo, FS_Subset
<1>3. IsFiniteSet(Moved) /\ Cardinality(Moved) = Cardinality(In(b))
  <2> DEFINE f == [i \in In(b) |-> i + Len(a)]
  <2>1. f \in Bijection(In(b), Moved)
    BY <1>1 DEF Bijection, Injection, Surjection, IsInjective
  <2> HIDE DEF f
  <2>2. ExistsBijection(In(b), Moved)
    BY <2>1 DEF ExistsBijection
  <2> QED
    BY <1>2, <2>2, FS_Bijection
<1>4. In(a \o b) = In(a) \cup Moved
  <2>1. /\ DOMAIN (a \o b) = 1..(Len(a) + Len(b))
        /\ \A i \in 1..Len(a) : (a \o b)[i] = a[i]
        /\ \A i \in 1..Len(b) : (a \o b)[i + Len(a)] = b[i]
    BY <1>1
  <2>2. \A i \in In(a \o b) : i \notin 1..Len(a) => i - Len(a) \in In(b)
    BY <1>1, <2>1
  <2>3. \A i \in In(a \o b) : i \in In(a) \cup Moved
    BY <1>1, <2>1, <2>2
  <2>4. In(a) \cup Moved \subseteq In(a \o b)
    BY <1>1, <2>1
  <2> QED
    BY <2>3, <2>4
<1>5. In(a) \cap Moved = {}
  BY <1>1
<1>6. Cardinality(In(a) \cup Moved) = Cardinality(In(a)) + Cardinality(Moved)
                                       - Cardinality(In(a) \cap Moved)
  BY <1>2, <1>3, FS_Union
<1>7. Cardinality(In(a)) \in Nat /\ Cardinality(In(b)) \in Nat
  BY <1>2, FS_CardinalityType
<1>8. /\ Share(a, s) = Cardinality(In(a)) /\ Share(b, s) = Cardinality(In(b))
      /\ Share(a \o b, s) = Cardinality(In(a \o b))
  BY DEF Share
<1>9. Cardinality(In(a) \cap Moved) = 0
  BY <1>5, FS_EmptySet
<1> HIDE DEF In, Moved
<1> QED
  BY <1>3, <1>4, <1>6, <1>7, <1>8, <1>9

(* Flattening adds the lengths of the parts, and for each element its      *)
(* occurrences in them.                                                    *)
LEMMA FlattenAdds ==
  ASSUME NEW A, NEW parts \in Seq(Seq(A)), parts # <<>>, NEW s
  PROVE  /\ FlattenSeq(parts) \in Seq(A)
         /\ Len(FlattenSeq(parts))
              = SumFunctionOnSet([j \in 1..Len(parts) |-> Len(parts[j])], 1..Len(parts))
         /\ Share(FlattenSeq(parts), s)
              = SumFunctionOnSet([j \in 1..Len(parts) |-> Share(parts[j], s)],
                                 1..Len(parts))
<1> DEFINE L == Len(parts)
           g == Joined(parts)
           lens == [j \in 1..L |-> Len(parts[j])]
           shares == [j \in 1..L |-> Share(parts[j], s)]
           Adds(i) == /\ g[i] \in Seq(A)
                      /\ Len(g[i]) = SumFunctionOnSet(lens, 1..i)
                      /\ Share(g[i], s) = SumFunctionOnSet(shares, 1..i)
           N == {m \in Nat : m \in 1..L => Adds(m)}
<1>0. L \in Nat /\ L # 0 /\ \A j \in 1..L : parts[j] \in Seq(A)
  OBVIOUS
<1>1. FlattenSeq(parts) = g[L]
      /\ \A i \in 1..L : g[i] = IF i = 1 THEN parts[i] ELSE g[i - 1] \o parts[i]
  <2>1. Joins(parts, L, g) /\ FlattenSeq(parts) = g[L]
    BY FlattenIsJoined
  <2> HIDE DEF g
  <2> QED
    BY <2>1 DEF Joins
<1>2. \A j \in 1..L : /\ lens[j] = Len(parts[j]) /\ lens[j] \in Int
                      /\ shares[j] = Share(parts[j], s) /\ shares[j] \in Int
  BY <1>0, ShareOfConcat
<1> HIDE DEF g, lens, shares
<1>3. 0 \in N
  OBVIOUS
<1>4. ASSUME NEW m \in N PROVE m + 1 \in N
  <2> SUFFICES ASSUME m + 1 \in 1..L PROVE Adds(m + 1)
    OBVIOUS
  <2>1. m \in Nat /\ (m # 0 => Adds(m))
    BY <1>0
  <2>2. /\ SumFunctionOnSet(lens, 1..(m + 1)) = lens[m + 1] + SumFunctionOnSet(lens, 1..m)
        /\ SumFunctionOnSet(shares, 1..(m + 1))
             = shares[m + 1] + SumFunctionOnSet(shares, 1..m)
    <3>1. \A j \in 1..(m + 1) : lens[j] \in Int /\ shares[j] \in Int
      BY <1>0, <1>2
    <3> QED
      BY <2>1, <3>1, SumToNext
  <2> DEFINE last == parts[m + 1]
             front == g[m]
             whole == g[m + 1]
  <2>3. whole = IF m = 0 THEN last ELSE front \o last
    <3>1. g[m + 1] = IF m + 1 = 1 THEN parts[m + 1] ELSE g[(m + 1) - 1] \o parts[m + 1]
      BY ONLY <1>1, m + 1 \in 1..L
    <3>2. (m + 1) - 1 = m /\ (m + 1 = 1 <=> m = 0)
      BY <2>1
    <3> QED
      BY ONLY <3>1, <3>2
  <2>4. /\ last \in Seq(A) /\ lens[m + 1] = Len(last)
        /\ shares[m + 1] = Share(last, s) /\ Share(last, s) \in Nat
    BY <1>0, <1>2, ShareOfConcat
  <2>5. CASE m = 0
    <3>1. SumFunctionOnSet(lens, 1..m) = 0 /\ SumFunctionOnSet(shares, 1..m) = 0
      <4>1. 1..m = {}
        BY <2>5
      <4> QED
        BY <4>1, SumEmpty
    <3>2. whole = last
      BY <2>3, <2>5
    <3> HIDE DEF last, whole
    <3>3. Len(last) \in Nat
      BY <2>4
    <3>4. /\ whole \in Seq(A)
          /\ Len(whole) = SumFunctionOnSet(lens, 1..(m + 1))
          /\ Share(whole, s) = SumFunctionOnSet(shares, 1..(m + 1))
      BY <2>2, <2>4, <3>1, <3>2, <3>3
    <3> QED
      BY <3>4 DEF whole
  <2>6. CASE m # 0
    <3>0. /\ front \in Seq(A)
          /\ Len(front) = SumFunctionOnSet(lens, 1..m)
          /\ Share(front, s) = SumFunctionOnSet(shares, 1..m)
      BY <2>1, <2>6
    <3>1. whole = front \o last
      BY <2>3, <2>6
    <3> HIDE DEF front, last, whole
    <3>2. Share(whole, s) = Share(front, s) + Share(last, s) /\ Share(front, s) \in Nat
      BY <2>4, <3>0, <3>1, ShareOfConcat
    <3>3. whole \in Seq(A) /\ Len(whole) = Len(front) + Len(last)
          /\ Len(front) \in Nat /\ Len(last) \in Nat
      BY <2>4, <3>0, <3>1, LengthOfConcat
    <3>4. /\ whole \in Seq(A)
          /\ Len(whole) = SumFunctionOnSet(lens, 1..(m + 1))
          /\ Share(whole, s) = SumFunctionOnSet(shares, 1..(m + 1))
      BY <2>2, <2>4, <3>0, <3>2, <3>3
    <3> QED
      BY <3>4 DEF whole
  <2> QED
    BY <2>5, <2>6
<1> HIDE DEF N
<1>5. N = Nat
  BY <1>3, <1>4, Induction DEF N
<1>6. L \in N
  BY <1>0, <1>5
<1>7. Adds(L)
  BY <1>0, <1>6 DEF N
<1> QED
  BY <1>1, <1>7 DEF lens, shares

----------------------------------------------------------------------------
(* The parts of an assignment *)

(* How many orders the scenario at rank i gets, and those orders.          *)
CountAt(d, n, r, i) ==
    FloorCount(d, n, r[i]) + (IF i <= Increased(d, n) THEN 1 ELSE 0)

Parts(d, n, r) == [i \in DOMAIN r |-> [k \in 1..CountAt(d, n, r, i) |-> r[i]]]

(* The weights of a scenario file: finitely many scenarios, some of them   *)
(* with a weight that counts.                                              *)
IsDistribution(d) ==
    IsFiniteSet(DOMAIN d) /\ (\A s \in DOMAIN d : d[s] \in Int) /\ Weighted(d) # {}

(* The total weight is positive. *)
LEMMA TotalIsPositive ==
  ASSUME NEW d, IsDistribution(d)
  PROVE  /\ IsFiniteSet(Weighted(d)) /\ Cardinality(Weighted(d)) \in Nat \ {0}
         /\ \A s \in Weighted(d) : d[s] \in Nat \ {0} /\ s \in DOMAIN d
         /\ TotalWeight(d) \in Nat \ {0}
<1>1. IsFiniteSet(Weighted(d)) /\ Cardinality(Weighted(d)) \in Nat \ {0}
  <2>1. IsFiniteSet(Weighted(d))
    BY FS_Subset DEF IsDistribution, Weighted
  <2> QED
    BY <2>1, FS_CardinalityType, FS_EmptySet DEF IsDistribution
<1>2. \A s \in Weighted(d) : d[s] \in Nat \ {0} /\ s \in DOMAIN d
  BY DEF Weighted, IsDistribution
<1>3. PICK s \in Weighted(d) : TRUE
  BY DEF IsDistribution
<1>4. TotalWeight(d) = d[s] + SumFunctionOnSet(d, Weighted(d) \ {s})
  BY <1>1, <1>2, SumRemove DEF TotalWeight
<1>5. SumFunctionOnSet(d, Weighted(d) \ {s}) \in Nat
  <2> DEFINE R == Weighted(d) \ {s}
             zero == [x \in R |-> 0]
  <2>1. IsFiniteSet(R)
    BY <1>1, FS_RemoveElement
  <2>2. \A x \in R : d[x] \in Nat
    BY <1>2
  <2> HIDE DEF R
  <2>3. SumFunctionOnSet(d, R) \in Int
    BY <2>1, <2>2, SumType
  <2>4. SumFunctionOnSet(zero, R) <= SumFunctionOnSet(d, R)
    BY <2>1, <2>2, SumLessEq
  <2>5. \A x \in R : zero[x] = 0
    OBVIOUS
  <2> HIDE DEF zero
  <2>6. SumFunctionOnSet(zero, R) = 0
    BY <2>1, <2>5, SumOfZeros
  <2> QED
    BY <2>3, <2>4, <2>6 DEF R
<1> QED
  BY <1>1, <1>2, <1>4, <1>5

(* Dividing with a remainder. *)
LEMMA Quotient ==
  ASSUME NEW x \in Nat, NEW t \in Nat \ {0}
  PROVE  /\ x \div t \in Nat
         /\ x - (x \div t) * t \in 0..(t - 1)
<1>1. x = t * (x \div t) + (x % t) /\ x % t \in 0..(t - 1) /\ x \div t \in Int
  OBVIOUS
<1>2. x \div t >= 0
  OBVIOUS
<1> QED
  BY <1>1, <1>2

(* What is cut off from the share of a scenario is less than one order.    *)
LEMMA FractionIsSmall ==
  ASSUME NEW d, IsDistribution(d), NEW n \in Nat, NEW s \in Weighted(d)
  PROVE  /\ FloorCount(d, n, s) \in Nat
         /\ Fraction(d, n, s) \in 0..(TotalWeight(d) - 1)
         /\ Fraction(d, n, s)
              = n * d[s] + (0 - TotalWeight(d)) * FloorCount(d, n, s)
<1> DEFINE T == TotalWeight(d)
           x == n * d[s]
           q == x \div T
<1>1. T \in Nat \ {0} /\ x \in Nat
  BY TotalIsPositive
<1>2. FloorCount(d, n, s) = q
  BY DEF FloorCount
<1>3. Fraction(d, n, s) = x - q * T
  BY <1>2 DEF Fraction
<1> HIDE DEF T, x
<1>4. q \in Nat /\ x - q * T \in 0..(T - 1)
  BY <1>1, Quotient
<1>5. x - q * T = x + (0 - T) * q
  <2> HIDE DEF q
  <2> QED
    BY <1>1, <1>4
<1> QED
  BY <1>2, <1>3, <1>4, <1>5 DEF T, x

(* The orders that rounding down leaves over are what the fractions add up *)
(* to, and fewer than the scenarios.                                       *)
LEMMA RemainingIsSmall ==
  ASSUME NEW d, IsDistribution(d), NEW n \in Nat
  PROVE  /\ Remaining(d, n) \in 0..(Cardinality(Weighted(d)) - 1)
         /\ SumFunctionOnSet([s \in DOMAIN d |-> Fraction(d, n, s)], Weighted(d))
              = TotalWeight(d) * Remaining(d, n)
<1> DEFINE W == Weighted(d)
           T == TotalWeight(d)
           c == Cardinality(W)
           fl == [s \in DOMAIN d |-> FloorCount(d, n, s)]
           fr == [s \in DOMAIN d |-> Fraction(d, n, s)]
           one == [s \in DOMAIN d |-> 1]
           most == [s \in DOMAIN d |-> T - 1]
           zero == [s \in DOMAIN d |-> 0]
           SF == SumFunctionOnSet(fl, W)
           SR == SumFunctionOnSet(fr, W)
<1>1. /\ IsFiniteSet(W) /\ c \in Nat \ {0} /\ T \in Nat \ {0}
      /\ SumFunctionOnSet(d, W) = T
  BY TotalIsPositive DEF TotalWeight
<1>2. \A s \in W : /\ d[s] \in Int /\ fl[s] \in Int /\ fr[s] \in 0..(T - 1)
                   /\ fr[s] = n * d[s] + (0 - T) * fl[s]
                   /\ one[s] = 1 /\ most[s] = T - 1 /\ zero[s] = 0
  BY TotalIsPositive, FractionIsSmall
<1>3. Remaining(d, n) = n - SF
  BY DEF Remaining
<1> HIDE DEF W, T, c, fl, fr, one, most, zero
<1>4. SF \in Int
  BY <1>1, <1>2, SumType
<1>5. SR = n * T + (0 - T) * SF
  <2> DEFINE less == 0 - T
  <2>1. IsCombination(fr, W, n, d, less, fl)
    BY <1>2 DEF IsCombination
  <2>2. less \in Int /\ n \in Int
    BY <1>1
  <2> HIDE DEF less
  <2>3. SR = n * SumFunctionOnSet(d, W) + less * SF
    BY ONLY <1>1, <2>1, <2>2, SumLinear
  <2> QED
    BY <1>1, <2>3 DEF less
<1>6. SR = T * (n - SF)
  BY <1>1, <1>4, <1>5
<1>7. 0 <= SR
  <2>1. SumFunctionOnSet(zero, W) = 0
    BY <1>1, <1>2, SumOfZeros
  <2>2. \A s \in W : zero[s] \in Int /\ fr[s] \in Int /\ zero[s] <= fr[s]
    BY <1>1, <1>2
  <2> QED
    BY <1>1, <2>1, <2>2, SumLessEq
<1>8. SR <= (T - 1) * c
  <2>1. SumFunctionOnSet(one, W) = c
    BY <1>1, <1>2, SumOfOnes DEF c
  <2> DEFINE top == T - 1
             none == 0
  <2>2. IsCombination(most, W, top, one, none, one)
    BY <1>1, <1>2 DEF IsCombination
  <2>6. top \in Int /\ none \in Int
    BY <1>1
  <2> HIDE DEF top, none
  <2>7. SumFunctionOnSet(most, W) = top * SumFunctionOnSet(one, W)
                                      + none * SumFunctionOnSet(one, W)
    BY ONLY <1>1, <2>2, <2>6, SumLinear
  <2>3. SumFunctionOnSet(most, W) = (T - 1) * c
    BY <1>1, <2>1, <2>7 DEF top, none
  <2>4. \A s \in W : fr[s] \in Int /\ most[s] \in Int /\ fr[s] <= most[s]
    BY <1>1, <1>2
  <2>5. SR <= SumFunctionOnSet(most, W)
    BY <1>1, <2>4, SumLessEq
  <2> QED
    BY <2>3, <2>5
<1>9. n - SF \in 0..(c - 1)
  <2> DEFINE R == n - SF
  <2>1. R \in Int /\ SR = T * R
    BY <1>4, <1>6
  <2> HIDE DEF R
  <2>2. R >= 0
    <3>1. ASSUME R <= 0 - 1 PROVE FALSE
      <4>1. T * R <= 0 - T
        BY <1>1, <2>1, <3>1
      <4> QED
        BY <1>1, <1>7, <2>1, <4>1
    <3> QED
      BY <2>1, <3>1
  <2>3. R < c
    <3>1. ASSUME c <= R PROVE FALSE
      <4>1. T * c <= T * R
        BY <1>1, <2>1, <3>1
      <4>2. (T - 1) * c = T * c - c
        BY <1>1
      <4> QED
        BY <1>1, <1>8, <2>1, <4>1, <4>2
    <3> QED
      BY <1>1, <2>1, <3>1
  <2>4. R \in 0..(c - 1)
    BY <1>1, <2>1, <2>2, <2>3
  <2> QED
    BY <2>4 DEF R
<1> QED
  BY <1>3, <1>6, <1>9 DEF W, T, c, fr

(* A ranking lists every weighted scenario once. *)
LEMMA RankingIsBijection ==
  ASSUME NEW d, IsDistribution(d), NEW r \in SetToSeqs(Weighted(d))
  PROVE  /\ r \in Bijection(1..Cardinality(Weighted(d)), Weighted(d))
         /\ DOMAIN r = 1..Cardinality(Weighted(d))
         /\ \A i, j \in DOMAIN r : r[i] \in Weighted(d) /\ (i # j => r[i] # r[j])
         /\ \A s \in Weighted(d) : \E i \in DOMAIN r : r[i] = s
<1> DEFINE W == Weighted(d)
           c == Cardinality(W)
<1>1. IsFiniteSet(W) /\ c \in Nat
  BY TotalIsPositive
<1>2. r \in [1..c -> W] /\ \A i, j \in 1..c : i # j => r[i] # r[j]
  BY DEF SetToSeqs
<1>3. IsFiniteSet(1..c) /\ Cardinality(1..c) = c
  BY <1>1, NumbersTo
<1> HIDE DEF W, c
<1>4. r \in Injection(1..c, W)
  BY <1>2 DEF Injection, IsInjective
<1>5. r \in Surjection(1..c, W)
  BY <1>1, <1>3, <1>4, FS_Injection DEF c
<1>6. r \in Bijection(1..c, W)
  BY <1>4, <1>5 DEF Bijection
<1>7. \A s \in W : \E i \in 1..c : r[i] = s
  BY <1>5 DEF Surjection
<1> QED
  BY <1>2, <1>6, <1>7 DEF W, c

(* A number of orders of the same scenario. *)
LEMMA SameOrders ==
  ASSUME NEW A, NEW x \in A, NEW c \in Int, NEW s
  PROVE  /\ [k \in 1..c |-> x] \in Seq(A)
         /\ c >= 0 => Len([k \in 1..c |-> x]) = c
         /\ c >= 0 => Share([k \in 1..c |-> x], s) = IF x = s THEN c ELSE 0
<1> DEFINE q == [k \in 1..c |-> x]
<1>1. CASE c >= 0
  <2>1. q \in Seq(A) /\ Len(q) = c
    BY <1>1
  <2>2. {i \in DOMAIN q : q[i] = s} = IF x = s THEN 1..c ELSE {}
    OBVIOUS
  <2>3. Share(q, s) = IF x = s THEN c ELSE 0
    <3>1. Share(q, s) = Cardinality(IF x = s THEN 1..c ELSE {})
      BY <2>2 DEF Share
    <3>2. c \in Nat /\ Cardinality(1..c) = c /\ Cardinality({}) = 0
      BY <1>1, NumbersTo, FS_EmptySet
    <3> QED
      BY <3>1, <3>2
  <2> QED
    BY <2>1, <2>3
<1>2. CASE ~ (c >= 0)
  <2>1. 1..c = 1..0
    BY <1>2
  <2>2. q = [k \in 1..0 |-> x]
    BY <2>1
  <2>3. [k \in 1..0 |-> x] \in Seq(A)
    OBVIOUS
  <2> QED
    BY <1>2, <2>2, <2>3
<1> QED
  BY <1>1, <1>2

(* Every scenario has a number of orders, also of a negative total.        *)
LEMMA CountsAreNumbers ==
  ASSUME NEW d, IsDistribution(d), NEW n \in Int
  PROVE  /\ \A s \in Weighted(d) : FloorCount(d, n, s) \in Int
         /\ Increased(d, n) \in Int
<1> DEFINE W == Weighted(d)
           fl == [s \in DOMAIN d |-> FloorCount(d, n, s)]
<1>1. ASSUME NEW s \in W PROVE FloorCount(d, n, s) \in Int
  <2> DEFINE T == TotalWeight(d)
             x == n * d[s]
             y == (0 - n) * d[s]
  <2>1. T \in Nat \ {0} /\ x \in Int /\ y \in Int
        /\ (n >= 0 => x \in Nat) /\ (~ (n >= 0) => y \in Nat)
    BY TotalIsPositive
  <2>2. FloorCount(d, n, s) = IF n >= 0 THEN x \div T ELSE 0 - (y \div T)
    BY DEF FloorCount
  <2> HIDE DEF T, x, y
  <2> QED
    BY <2>1, <2>2, Quotient
<1>2. /\ IsFiniteSet(W) /\ Cardinality(W) \in Nat
      /\ \A s \in W : fl[s] \in Int
  BY <1>1, TotalIsPositive
<1>3. Remaining(d, n) = n - SumFunctionOnSet(fl, W)
  BY DEF Remaining
<1> HIDE DEF fl, W
<1>4. SumFunctionOnSet(fl, W) \in Int
  BY <1>2, SumType
<1>5. Increased(d, n) \in Int
  BY <1>2, <1>3, <1>4 DEF Increased, W
<1> QED
  BY <1>1, <1>5 DEF W

(* An assignment is the sequence of the parts, one after the other.        *)
LEMMA AssignedIsFlattened ==
  ASSUME NEW d, IsDistribution(d), NEW n \in Int, NEW r \in SetToSeqs(Weighted(d))
  PROVE  /\ Parts(d, n, r) \in Seq(Seq(Weighted(d))) /\ Parts(d, n, r) # <<>>
         /\ Len(Parts(d, n, r)) = Cardinality(Weighted(d))
         /\ Assigned(d, n, r) = FlattenSeq(Parts(d, n, r))
         /\ Assigned(d, n, r) \in Seq(Weighted(d))
<1> DEFINE W == Weighted(d)
           c == Cardinality(W)
           parts == Parts(d, n, r)
<1>1. /\ c \in Nat \ {0}
      /\ DOMAIN r = 1..c /\ \A i \in 1..c : r[i] \in W
  BY TotalIsPositive, RankingIsBijection
<1>2. \A i \in 1..c : CountAt(d, n, r, i) \in Int
  <2>1. /\ \A s \in W : FloorCount(d, n, s) \in Int
        /\ Increased(d, n) \in Int
    BY CountsAreNumbers
  <2> HIDE DEF W, c
  <2>2. \A i \in 1..c : FloorCount(d, n, r[i]) \in Int
    BY <1>1, <2>1
  <2> QED
    BY <2>1, <2>2 DEF CountAt
<1>3. /\ parts = [i \in 1..c |-> [k \in 1..CountAt(d, n, r, i) |-> r[i]]]
      /\ Assigned(d, n, r) = FlattenSeq(parts)
  BY <1>1 DEF Parts, Assigned, CountAt
<1> HIDE DEF W, c, parts
<1>4. \A i \in 1..c : parts[i] \in Seq(W)
  <2> SUFFICES ASSUME NEW i \in 1..c PROVE parts[i] \in Seq(W)
    OBVIOUS
  <2>1. parts[i] = [k \in 1..CountAt(d, n, r, i) |-> r[i]]
    BY <1>3
  <2>2. r[i] \in W /\ CountAt(d, n, r, i) \in Int
    BY <1>1, <1>2
  <2> QED
    BY <2>1, <2>2, SameOrders
<1>5. parts \in Seq(Seq(W)) /\ Len(parts) = c /\ parts # <<>>
  <2> DEFINE SW == Seq(W)
             part(i) == [k \in 1..CountAt(d, n, r, i) |-> r[i]]
  <2>1. parts = [i \in 1..c |-> part(i)] /\ \A i \in 1..c : part(i) \in SW
    BY <1>3, <1>4
  <2> HIDE DEF SW, part
  <2>2. parts \in [1..c -> SW]
    BY <2>1
  <2>3. parts \in Seq(SW) /\ Len(parts) = c
    BY <1>1, <2>2
  <2>4. parts # <<>>
    BY <1>1, <2>2
  <2> QED
    BY <2>3, <2>4 DEF SW
<1>6. FlattenSeq(parts) \in Seq(W)
  BY <1>5, FlattenAdds
<1> QED
  BY <1>3, <1>5, <1>6 DEF W, c, parts

(* In an assignment every order has a scenario, and a scenario has its     *)
(* share rounded down and, among the first of the ranking, one more.       *)
LEMMA AssignedCounts ==
  ASSUME NEW d, IsDistribution(d), NEW n \in Nat, NEW r \in SetToSeqs(Weighted(d))
  PROVE  /\ Len(Assigned(d, n, r)) = n
         /\ \A i \in DOMAIN r :
               Share(Assigned(d, n, r), r[i]) - FloorCount(d, n, r[i])
                 = IF i <= Remaining(d, n) THEN 1 ELSE 0
         /\ \A s : s \notin Weighted(d) => Share(Assigned(d, n, r), s) = 0
<1> DEFINE W == Weighted(d)
           c == Cardinality(W)
           R == Remaining(d, n)
           fl == [s \in DOMAIN d |-> FloorCount(d, n, s)]
           a == Assigned(d, n, r)
           parts == Parts(d, n, r)
           ranked == [i \in 1..c |-> fl[r[i]]]
           extra == [i \in 1..c |-> IF i <= R THEN 1 ELSE 0]
           count(i) == FloorCount(d, n, r[i]) + extra[i]
           lens == [i \in 1..c |-> Len(parts[i])]
           shares(s) == [i \in 1..c |-> Share(parts[i], s)]
<1>1. /\ IsFiniteSet(W) /\ c \in Nat \ {0} /\ R \in 0..(c - 1)
      /\ IsFiniteSet(1..c)
  BY TotalIsPositive, RemainingIsSmall, NumbersTo
<1>2. \A s \in W : FloorCount(d, n, s) \in Nat /\ fl[s] = FloorCount(d, n, s)
  BY TotalIsPositive, FractionIsSmall
<1>3. /\ r \in Bijection(1..c, W) /\ DOMAIN r = 1..c
      /\ \A i \in 1..c : r[i] \in W
      /\ \A i, j \in 1..c : i # j => r[i] # r[j]
  <2>1. /\ r \in Bijection(1..c, W) /\ DOMAIN r = 1..c
        /\ \A i, j \in DOMAIN r : r[i] \in W /\ (i # j => r[i] # r[j])
    BY RankingIsBijection
  <2> HIDE DEF W, c
  <2> QED
    BY <2>1
<1>4. Increased(d, n) = R /\ R = n - SumFunctionOnSet(fl, W)
  BY <1>1 DEF Increased, Remaining
<1>5. /\ parts \in Seq(Seq(W)) /\ parts # <<>> /\ Len(parts) = c
      /\ a = FlattenSeq(parts)
  BY AssignedIsFlattened
<1>6. \A i \in 1..c : count(i) \in Nat
  <2> HIDE DEF W, c, R, fl, parts, ranked
  <2>1. \A i \in 1..c : FloorCount(d, n, r[i]) \in Nat /\ extra[i] \in Nat
    BY <1>2, <1>3
  <2> QED
    BY <2>1
<1>7. \A i \in 1..c : parts[i] = [k \in 1..count(i) |-> r[i]]
  <2>1. \A i \in 1..c : parts[i] = [k \in 1..CountAt(d, n, r, i) |-> r[i]]
    BY <1>3 DEF Parts
  <2>2. \A i \in 1..c : CountAt(d, n, r, i) = count(i)
    BY <1>4 DEF CountAt
  <2> HIDE DEF W, c, parts, R, fl, ranked, count
  <2> QED
    BY <2>1, <2>2
<1>8. \A i \in 1..c : extra[i] = (IF i <= R THEN 1 ELSE 0) /\ ranked[i] = fl[r[i]]
  OBVIOUS
<1>9. \A i \in 1..c : lens[i] = Len(parts[i])
  OBVIOUS
<1>10. \A s : \A i \in 1..c : shares(s)[i] = Share(parts[i], s)
  OBVIOUS
<1>11. /\ Len(a) = SumFunctionOnSet(lens, 1..c)
       /\ \A s : Share(a, s) = SumFunctionOnSet(shares(s), 1..c)
  BY <1>5, FlattenAdds
<1> HIDE DEF W, c, R, fl, a, parts, extra, lens, shares
<1>12. \A i \in 1..c : /\ lens[i] = count(i)
                       /\ \A s : shares(s)[i] = IF r[i] = s THEN count(i) ELSE 0
  <2> SUFFICES ASSUME NEW i \in 1..c, NEW s
               PROVE  /\ lens[i] = count(i)
                      /\ shares(s)[i] = IF r[i] = s THEN count(i) ELSE 0
    OBVIOUS
  <2> HIDE DEF count
  <2>1. count(i) \in Int /\ count(i) >= 0 /\ r[i] \in W
    BY <1>3, <1>6
  <2>2. /\ Len([k \in 1..count(i) |-> r[i]]) = count(i)
        /\ Share([k \in 1..count(i) |-> r[i]], s) = IF r[i] = s THEN count(i) ELSE 0
    BY <2>1, SameOrders
  <2> QED
    BY <1>7, <1>9, <1>10, <2>2
<1>13. Len(a) = n
  <2>1. SumFunctionOnSet(ranked, 1..c) = SumFunctionOnSet(fl, W)
    <3>1. \A s \in W : fl[s] \in Int
      BY <1>2
    <3> QED
      BY <1>1, <1>3, <3>1, SumRenumbered
  <2> HIDE DEF ranked
  <2>2. SumFunctionOnSet(extra, 1..c) = R
    BY <1>1, <1>8, SumOfFirst
  <2> DEFINE one == 1
  <2>3. IsCombination(lens, 1..c, one, ranked, one, extra)
    <3>1. \A i \in 1..c : fl[r[i]] \in Int /\ fl[r[i]] = FloorCount(d, n, r[i])
      BY <1>2, <1>3
    <3>2. \A i \in 1..c : extra[i] \in Int
      BY <1>8
    <3> QED
      BY <1>8, <1>12, <3>1, <3>2 DEF IsCombination
  <2>4. one \in Int
    OBVIOUS
  <2> HIDE DEF one
  <2>5. SumFunctionOnSet(lens, 1..c) = one * SumFunctionOnSet(ranked, 1..c)
                                        + one * SumFunctionOnSet(extra, 1..c)
    BY ONLY <1>1, <2>3, <2>4, SumLinear
  <2>6. SumFunctionOnSet(fl, W) \in Int
    BY <1>1, <1>2, SumType
  <2> QED
    BY <1>1, <1>4, <1>11, <2>1, <2>2, <2>5, <2>6 DEF one
<1>14. ASSUME NEW i \in 1..c
       PROVE  Share(a, r[i]) - FloorCount(d, n, r[i]) = IF i <= R THEN 1 ELSE 0
  <2> DEFINE own == shares(r[i])
  <2>1. own[i] = count(i) /\ count(i) \in Int /\ \A j \in 1..c : j # i => own[j] = 0
    <3> HIDE DEF count
    <3>1. own[i] = count(i)
      BY <1>12
    <3>2. count(i) \in Int
      BY <1>6
    <3>3. \A j \in 1..c : j # i => r[j] # r[i]
      BY <1>3
    <3>4. \A j \in 1..c : own[j] = IF r[j] = r[i] THEN count(j) ELSE 0
      BY <1>12
    <3> HIDE DEF own
    <3> QED
      BY <3>1, <3>2, <3>3, <3>4
  <2>2. Share(a, r[i]) = SumFunctionOnSet(own, 1..c)
    BY <1>11
  <2> HIDE DEF own
  <2>3. SumFunctionOnSet(own, 1..c) = own[i]
    BY <1>1, <2>1, SumOfSingle
  <2> QED
    BY <1>2, <1>3, <1>8, <2>1, <2>2, <2>3
<1>15. ASSUME NEW s, s \notin W
       PROVE  Share(a, s) = 0
  <2> DEFINE none == shares(s)
  <2>1. \A j \in 1..c : none[j] = 0
    <3> HIDE DEF count
    <3>1. \A j \in 1..c : none[j] = IF r[j] = s THEN count(j) ELSE 0
      BY <1>12
    <3>2. \A j \in 1..c : r[j] # s
      BY <1>3, <1>15
    <3> HIDE DEF none
    <3> QED
      BY <3>1, <3>2
  <2>2. Share(a, s) = SumFunctionOnSet(none, 1..c)
    BY <1>11
  <2> HIDE DEF none
  <2> QED
    BY <1>1, <2>1, <2>2, SumOfZeros
<1> QED
  BY <1>3, <1>13, <1>14, <1>15 DEF W, c, R, a

(* A scenario whose share is a whole number is never rounded up: were it   *)
(* among the first, only those before it would have a fraction, and they   *)
(* cannot add up to the orders that are left.                              *)
LEMMA RoundedUpHasFraction ==
  ASSUME NEW d, IsDistribution(d), NEW n \in Nat, NEW r \in Rankings(d, n),
         NEW p \in DOMAIN r, p <= Remaining(d, n)
  PROVE  Fraction(d, n, r[p]) # 0
<1> DEFINE W == Weighted(d)
           c == Cardinality(W)
           T == TotalWeight(d)
           R == Remaining(d, n)
           fr == [s \in DOMAIN d |-> Fraction(d, n, s)]
           ranked == [i \in 1..c |-> fr[r[i]]]
           before == [i \in 1..c |-> IF i <= p - 1 THEN 1 ELSE 0]
           most == [i \in 1..c |-> IF i <= p - 1 THEN T - 1 ELSE 0]
           top == T - 1
           none == 0
<1> SUFFICES ASSUME Fraction(d, n, r[p]) = 0 PROVE FALSE
  OBVIOUS
<1>1. /\ IsFiniteSet(W) /\ c \in Nat \ {0} /\ T \in Nat \ {0}
      /\ IsFiniteSet(1..c) /\ R \in 0..(c - 1)
  BY TotalIsPositive, NumbersTo, RemainingIsSmall
<1>2. SumFunctionOnSet(fr, W) = T * R
  BY RemainingIsSmall
<1>3. \A s \in W : fr[s] = Fraction(d, n, s) /\ fr[s] \in 0..(T - 1)
  BY TotalIsPositive, FractionIsSmall
<1>4. /\ r \in Bijection(1..c, W) /\ DOMAIN r = 1..c
      /\ \A i \in 1..c : r[i] \in W
  <2>1. r \in SetToSeqs(W)
    BY DEF Rankings
  <2>2. /\ r \in Bijection(1..c, W) /\ DOMAIN r = 1..c
        /\ \A i, j \in DOMAIN r : r[i] \in W /\ (i # j => r[i] # r[j])
    BY <2>1, RankingIsBijection
  <2> HIDE DEF W, c
  <2> QED
    BY <2>2
<1>5. \A i \in 1..c : i > p => Fraction(d, n, r[p]) >= Fraction(d, n, r[i])
  BY <1>4 DEF Rankings
<1>6. /\ \A i \in 1..c : ranked[i] = fr[r[i]]
      /\ \A i \in 1..c : before[i] = IF i <= p - 1 THEN 1 ELSE 0
      /\ \A i \in 1..c : most[i] = IF i <= p - 1 THEN T - 1 ELSE 0
  OBVIOUS
<1> HIDE DEF W, c, T, R, fr, before, most
<1>7. p \in 1..c /\ p - 1 \in 0..c /\ p <= R
  <2>1. p \in 1..c
    BY <1>4
  <2> QED
    BY <1>1, <2>1 DEF R
<1>8. SumFunctionOnSet(ranked, 1..c) = T * R
  <2>1. \A s \in W : fr[s] \in Int
    BY <1>1, <1>3
  <2>2. SumFunctionOnSet(ranked, 1..c) = SumFunctionOnSet(fr, W)
    BY <1>1, <1>4, <2>1, SumRenumbered
  <2> QED
    BY <1>2, <2>2
<1> HIDE DEF ranked
<1>9. SumFunctionOnSet(most, 1..c) = (T - 1) * (p - 1)
  <2>1. SumFunctionOnSet(before, 1..c) = p - 1
    BY <1>1, <1>6, <1>7, SumOfFirst
  <2>2. IsCombination(most, 1..c, top, before, none, before)
    <3>1. \A i \in 1..c : before[i] \in Int /\ most[i] = (T - 1) * before[i] + 0 * before[i]
      BY <1>1, <1>6
    <3> QED
      BY <3>1 DEF IsCombination
  <2>3. top \in Int /\ none \in Int
    BY <1>1
  <2> HIDE DEF top, none
  <2>4. SumFunctionOnSet(most, 1..c) = top * SumFunctionOnSet(before, 1..c)
                                        + none * SumFunctionOnSet(before, 1..c)
    BY ONLY <1>1, <2>2, <2>3, SumLinear
  <2>5. p - 1 \in Int
    BY <1>7
  <2> QED
    BY <1>1, <2>1, <2>4, <2>5 DEF top, none
<1>10. \A i \in 1..c : ranked[i] \in Int /\ most[i] \in Int /\ ranked[i] <= most[i]
  <2> SUFFICES ASSUME NEW i \in 1..c
               PROVE  ranked[i] \in Int /\ most[i] \in Int /\ ranked[i] <= most[i]
    OBVIOUS
  <2>1. ranked[i] = Fraction(d, n, r[i]) /\ ranked[i] \in 0..(T - 1)
    BY <1>3, <1>4, <1>6
  <2>2. i >= p => ranked[i] = 0
    <3>1. CASE i = p
      BY <2>1, <3>1
    <3>2. CASE i > p
      BY <1>1, <1>5, <2>1, <3>2
    <3> QED
      BY <1>7, <3>1, <3>2
  <2> QED
    BY <1>1, <1>6, <1>7, <2>1, <2>2
<1>11. T * R <= (T - 1) * (p - 1)
  BY <1>1, <1>8, <1>9, <1>10, SumLessEq
<1>12. T * p <= T * R
  BY <1>1, <1>7
<1>13. (T - 1) * (p - 1) = T * p - T - p + 1
  BY <1>1, <1>7
<1>14. T * p \in Int /\ T * R \in Int
  BY <1>1, <1>7
<1> QED
  BY <1>1, <1>7, <1>11, <1>12, <1>13, <1>14

(* Whatever the weights, the number of orders and the way ties are ranked, *)
(* every order gets a scenario, every scenario gets its exact share        *)
(* rounded down or up, a whole share is kept, and no scenario is rounded   *)
(* up before one with a larger fraction (_assign_scenarios).               *)
THEOREM LargestRemainderIsProportional ==
  ASSUME NEW d, IsDistribution(d), NEW n \in Nat, NEW a \in Assignments(d, n)
  PROVE  IsProportional(d, n, a)
<1> DEFINE W == Weighted(d)
           Up(s) == Share(a, s) - FloorCount(d, n, s)
<1>1. PICK r \in Rankings(d, n) : a = Assigned(d, n, r)
  BY DEF Assignments, IsDistribution
<1>2. /\ r \in SetToSeqs(W)
      /\ \A i, j \in DOMAIN r :
            i < j => Fraction(d, n, r[i]) >= Fraction(d, n, r[j])
  BY DEF Rankings
<1>3. /\ Len(a) = n
      /\ \A i \in DOMAIN r : Up(r[i]) = IF i <= Remaining(d, n) THEN 1 ELSE 0
      /\ \A s : s \notin W => Share(a, s) = 0
  BY <1>1, <1>2, AssignedCounts
<1>4. \A s \in W : \E i \in DOMAIN r : r[i] = s
  BY <1>2, RankingIsBijection
<1>5. \A s \in W : Fraction(d, n, s) \in Int
  BY TotalIsPositive, FractionIsSmall
<1>6. DOMAIN r \subseteq Nat /\ Remaining(d, n) \in Nat
  <2> DEFINE c == Cardinality(W)
  <2>1. c \in Nat /\ Remaining(d, n) \in 0..(c - 1)
    BY TotalIsPositive, RemainingIsSmall
  <2>2. DOMAIN r = 1..c
    BY <1>2, RankingIsBijection
  <2> HIDE DEF c
  <2> QED
    BY <2>1, <2>2
<1>7. \A i \in DOMAIN r : i <= Remaining(d, n) => Fraction(d, n, r[i]) # 0
  BY RoundedUpHasFraction
<1> HIDE DEF W, Up
<1>8. ASSUME NEW s \in W
      PROVE  Up(s) \in {0, IF Fraction(d, n, s) = 0 THEN 0 ELSE 1}
  <2>1. PICK i \in DOMAIN r : r[i] = s
    BY <1>4
  <2> QED
    BY <1>3, <1>7, <2>1
<1>9. ASSUME NEW s \in W, NEW t \in W, Fraction(d, n, s) < Fraction(d, n, t)
      PROVE  Up(s) <= Up(t)
  <2>1. PICK i \in DOMAIN r : r[i] = s
    BY <1>4
  <2>2. PICK j \in DOMAIN r : r[j] = t
    BY <1>4
  <2>3. ~ (i < j) /\ i # j
    BY <1>2, <1>5, <1>9, <2>1, <2>2
  <2>4. j < i
    BY <1>6, <2>3
  <2>5. i <= Remaining(d, n) => j <= Remaining(d, n)
    BY <1>6, <2>4
  <2> QED
    BY <1>3, <2>1, <2>2, <2>5
<1> QED
  BY <1>3, <1>8, <1>9 DEF IsProportional, W, Up

=============================================================================
