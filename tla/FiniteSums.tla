----------------------------- MODULE FiniteSums -----------------------------
(***************************************************************************)
(* Lemmas about finite sums, that is, about SumFunctionOnSet, which is     *)
(* defined by a recursive function on the subsets of the set summed over.  *)
(*                                                                         *)
(* Inductions are done with sets of numbers: the numbers for which a fact  *)
(* holds include 0 and with each number the next one.                      *)
(***************************************************************************)
EXTENDS Integers, Functions, FiniteSetTheorems, WellFoundedInduction, TLAPS

(* Every set of natural numbers that is not empty has a least element.     *)
LEMMA LeastNumber ==
  ASSUME NEW T \in SUBSET Nat, T # {}
  PROVE  \E n \in T : \A m \in T : n <= m
<1> DEFINE R == {p \in Nat \X Nat : p[1] < p[2]}
<1>1. IsWellFoundedOn(R, Nat)
  BY NatLessThanWellFounded DEF OpToRel
<1> HIDE DEF R
<1>2. PICK n \in T : \A m \in T : ~ (<<m, n>> \in R)
  BY <1>1, WFMin
<1>3. \A m \in T : ~ (m < n)
  BY <1>2 DEF R
<1> QED
  BY <1>3

(* Induction, for the set of the numbers that have a property.             *)
LEMMA Induction ==
  ASSUME NEW T \in SUBSET Nat, 0 \in T, \A n \in T : n + 1 \in T
  PROVE  T = Nat
<1> SUFFICES ASSUME Nat \ T # {} PROVE FALSE
  OBVIOUS
<1>1. PICK n \in Nat \ T : \A m \in Nat \ T : n <= m
  BY LeastNumber
<1>2. n - 1 \in Nat /\ n - 1 \notin Nat \ T
  BY <1>1
<1> QED
  BY <1>2

----------------------------------------------------------------------------
(* The equation of a sum *)

(* The element that the sum over s takes first.                            *)
First(s) == CHOOSE x \in s : TRUE

(* g satisfies the recursion of the sum of f for the members of D. *)
Sums(f, D, g) ==
  g = [s \in D |-> IF s = {} THEN 0 ELSE f[First(s)] + g[s \ {First(s)}]]

(* A set that is not empty has a first element, and the rest is smaller.   *)
LEMMA FirstRemoved ==
  ASSUME NEW s, IsFiniteSet(s), s # {}
  PROVE  /\ First(s) \in s
         /\ IsFiniteSet(s \ {First(s)})
         /\ Cardinality(s) \in Nat
         /\ Cardinality(s \ {First(s)}) \in Nat
         /\ Cardinality(s) = Cardinality(s \ {First(s)}) + 1
<1>1. First(s) \in s
  BY DEF First
<1>2. IsFiniteSet(s \ {First(s)})
      /\ Cardinality(s \ {First(s)}) = Cardinality(s) - 1
  BY <1>1, FS_RemoveElement
<1>3. Cardinality(s) \in Nat /\ Cardinality(s \ {First(s)}) \in Nat
  BY <1>2, FS_CardinalityType
<1> QED
  BY <1>1, <1>2, <1>3

(* The subsets of S with at most n elements. *)
UpTo(S, n) == {s \in SUBSET S : Cardinality(s) <= n}

(* The recursion is satisfied by some function for the subsets of up to n  *)
(* elements.                                                               *)
LEMMA SumsExist ==
  ASSUME NEW f, NEW S, IsFiniteSet(S)
  PROVE  \A n \in Nat : \E g : Sums(f, UpTo(S, n), g)
<1> DEFINE T == {n \in Nat : \E g : Sums(f, UpTo(S, n), g)}
<1>0. \A s \in SUBSET S : IsFiniteSet(s) /\ Cardinality(s) \in Nat
  BY FS_Subset, FS_CardinalityType
<1>1. 0 \in T
  <2> DEFINE g == [s \in UpTo(S, 0) |-> 0]
  <2>1. \A s \in UpTo(S, 0) : s = {}
    BY <1>0, FS_EmptySet DEF UpTo
  <2>2. Sums(f, UpTo(S, 0), g)
    BY <2>1 DEF Sums
  <2> QED
    BY <2>2
<1>2. ASSUME NEW n \in T PROVE n + 1 \in T
  <2>1. PICK g : Sums(f, UpTo(S, n), g)
    OBVIOUS
  <2> DEFINE h == [s \in UpTo(S, n + 1) |->
                     IF s = {} THEN 0 ELSE f[First(s)] + g[s \ {First(s)}]]
  <2>2. \A s \in UpTo(S, n) : s \in UpTo(S, n + 1) /\ h[s] = g[s]
    <3>1. \A s \in UpTo(S, n) : s \in UpTo(S, n + 1)
      BY <1>0 DEF UpTo
    <3>2. \A s \in UpTo(S, n) :
             g[s] = IF s = {} THEN 0 ELSE f[First(s)] + g[s \ {First(s)}]
      BY <2>1 DEF Sums
    <3> QED
      BY <3>1, <3>2
  <2>3. ASSUME NEW s \in UpTo(S, n + 1), s # {}
        PROVE  s \ {First(s)} \in UpTo(S, n)
    <3>1. s \in SUBSET S /\ IsFiniteSet(s) /\ Cardinality(s) <= n + 1
      BY <1>0 DEF UpTo
    <3>2. Cardinality(s \ {First(s)}) \in Nat
          /\ Cardinality(s) = Cardinality(s \ {First(s)}) + 1
      BY <2>3, <3>1, FirstRemoved
    <3> QED
      BY <3>1, <3>2 DEF UpTo
  <2>4. \A s \in UpTo(S, n + 1) :
            s # {} => g[s \ {First(s)}] = h[s \ {First(s)}]
    BY <2>2, <2>3
  <2>5. Sums(f, UpTo(S, n + 1), h)
    BY <2>4 DEF Sums
  <2> QED
    BY <2>5
<1> HIDE DEF T
<1>3. T = Nat
  BY <1>1, <1>2, Induction DEF T
<1> QED
  BY <1>3 DEF T

(* There is only one such function: two agree on each set in both domains. *)
LEMMA SumsAgree ==
  ASSUME NEW f, NEW R, NEW S, IsFiniteSet(R), IsFiniteSet(S), NEW g, NEW h,
         Sums(f, SUBSET R, g), Sums(f, SUBSET S, h)
  PROVE  \A s \in SUBSET (R \cap S) : g[s] = h[s]
<1> DEFINE T == {n \in Nat : \A s \in SUBSET (R \cap S) :
                               Cardinality(s) = n => g[s] = h[s]}
<1>0. \A s \in SUBSET S : IsFiniteSet(s) /\ Cardinality(s) \in Nat
  BY FS_Subset, FS_CardinalityType
<1>1. 0 \in T
  <2>1. \A s \in SUBSET S : Cardinality(s) = 0 => s = {}
    BY <1>0, FS_EmptySet
  <2> QED
    BY <2>1 DEF Sums
<1>2. ASSUME NEW n \in T PROVE n + 1 \in T
  <2> SUFFICES ASSUME NEW s \in SUBSET (R \cap S), Cardinality(s) = n + 1
               PROVE  g[s] = h[s]
    OBVIOUS
  <2>1. s # {} /\ IsFiniteSet(s)
    BY <1>0, FS_EmptySet
  <2>2. s \ {First(s)} \in SUBSET (R \cap S)
        /\ Cardinality(s \ {First(s)}) = n
    <3>1. Cardinality(s \ {First(s)}) \in Nat
          /\ Cardinality(s) = Cardinality(s \ {First(s)}) + 1
      BY <2>1, FirstRemoved
    <3> QED
      BY <3>1
  <2>3. g[s \ {First(s)}] = h[s \ {First(s)}]
    BY <2>2
  <2> QED
    BY <2>1, <2>3 DEF Sums
<1> HIDE DEF T
<1>3. T = Nat
  BY <1>1, <1>2, Induction DEF T
<1> QED
  BY <1>0, <1>3 DEF T

(* The function a sum over S is taken from.                                *)
Summing(f, S) == CHOOSE g : Sums(f, SUBSET S, g)

(* The sum is the value of a function that satisfies the recursion.        *)
LEMMA SumIsRecursive ==
  ASSUME NEW f, NEW S, IsFiniteSet(S)
  PROVE  /\ Sums(f, SUBSET S, Summing(f, S))
         /\ SumFunctionOnSet(f, S) = Summing(f, S)[S]
<1>1. UpTo(S, Cardinality(S)) = SUBSET S /\ Cardinality(S) \in Nat
  BY FS_Subset, FS_CardinalityType DEF UpTo
<1>2. \E g : Sums(f, SUBSET S, g)
  <2>1. \E g : Sums(f, UpTo(S, Cardinality(S)), g)
    BY <1>1, SumsExist
  <2> QED
    BY <1>1, <2>1
<1>3. Sums(f, SUBSET S, Summing(f, S))
  BY <1>2 DEF Summing
<1>4. SumFunctionOnSet(f, S) = Summing(f, S)[S]
  BY DEF SumFunctionOnSet, FoldFunctionOnSet, MapThenFoldSet, Summing, Sums, First
<1> QED
  BY <1>3, <1>4

(* The equation of the sum. *)
LEMMA SumEquation ==
  ASSUME NEW f, NEW S, IsFiniteSet(S)
  PROVE  SumFunctionOnSet(f, S) =
           IF S = {} THEN 0
           ELSE f[First(S)] + SumFunctionOnSet(f, S \ {First(S)})
<1> CASE S = {}
  BY SumIsRecursive DEF Sums
<1> CASE S # {}
  <2> DEFINE R == S \ {First(S)}
  <2>1. IsFiniteSet(R) /\ R \in SUBSET S
    BY FirstRemoved
  <2>2. SumFunctionOnSet(f, S) = Summing(f, S)[S] /\ Sums(f, SUBSET S, Summing(f, S))
    BY SumIsRecursive
  <2>3. SumFunctionOnSet(f, R) = Summing(f, R)[R] /\ Sums(f, SUBSET R, Summing(f, R))
    BY <2>1, SumIsRecursive
  <2>4. Summing(f, S)[R] = Summing(f, R)[R]
    <3>1. \A s \in SUBSET (R \cap S) : Summing(f, R)[s] = Summing(f, S)[s]
      <4> HIDE DEF R
      <4> QED
        BY <2>1, <2>2, <2>3, SumsAgree
    <3> QED
      BY <2>1, <3>1
  <2>5. Summing(f, S)[S] = f[First(S)] + Summing(f, S)[R]
    BY <2>2 DEF Sums
  <2> QED
    BY <2>2, <2>3, <2>4, <2>5
<1> QED
  OBVIOUS


----------------------------------------------------------------------------
(* Calculating with sums *)

(* Induction over the elements of a finite set, for the set of those       *)
(* subsets that have a property.                                           *)
LEMMA SubsetInduction ==
  ASSUME NEW S, IsFiniteSet(S), NEW F, {} \in F,
         \A T \in F \cap SUBSET S : \A x \in S \ T : T \cup {x} \in F
  PROVE  S \in F
<1> DEFINE N == {n \in Nat : \A T \in SUBSET S : Cardinality(T) = n => T \in F}
<1>0. \A T \in SUBSET S : IsFiniteSet(T) /\ Cardinality(T) \in Nat
  BY FS_Subset, FS_CardinalityType
<1>1. 0 \in N
  BY <1>0, FS_EmptySet
<1>2. ASSUME NEW n \in N PROVE n + 1 \in N
  <2> SUFFICES ASSUME NEW T \in SUBSET S, Cardinality(T) = n + 1
               PROVE  T \in F
    OBVIOUS
  <2>1. T # {} /\ IsFiniteSet(T)
    BY <1>0, FS_EmptySet
  <2>2. First(T) \in T /\ Cardinality(T) = Cardinality(T \ {First(T)}) + 1
        /\ Cardinality(T \ {First(T)}) \in Nat
    BY <2>1, FirstRemoved
  <2>3. T \ {First(T)} \in F \cap SUBSET S /\ First(T) \in S \ (T \ {First(T)})
    BY <2>2
  <2>4. (T \ {First(T)}) \cup {First(T)} \in F
    BY <2>3
  <2> QED
    BY <2>2, <2>4
<1> HIDE DEF N
<1>3. N = Nat
  BY <1>1, <1>2, Induction DEF N
<1> QED
  BY <1>0, <1>3 DEF N

(* The sum over no elements is zero. *)
LEMMA SumEmpty ==
  ASSUME NEW f
  PROVE  SumFunctionOnSet(f, {}) = 0
BY SumEquation, FS_EmptySet

(* A sum of numbers is a number. *)
LEMMA SumType ==
  ASSUME NEW f, NEW S, IsFiniteSet(S), \A x \in S : f[x] \in Int
  PROVE  SumFunctionOnSet(f, S) \in Int
<1> DEFINE N == {n \in Nat : \A T \in SUBSET S :
                   Cardinality(T) = n => SumFunctionOnSet(f, T) \in Int}
<1>0. \A T \in SUBSET S : IsFiniteSet(T) /\ Cardinality(T) \in Nat
  BY FS_Subset, FS_CardinalityType
<1>1. 0 \in N
  BY <1>0, FS_EmptySet, SumEmpty
<1>2. ASSUME NEW n \in N PROVE n + 1 \in N
  <2> SUFFICES ASSUME NEW T \in SUBSET S, Cardinality(T) = n + 1
               PROVE  SumFunctionOnSet(f, T) \in Int
    OBVIOUS
  <2>1. T # {} /\ IsFiniteSet(T)
    BY <1>0, FS_EmptySet
  <2>2. First(T) \in T /\ Cardinality(T) = Cardinality(T \ {First(T)}) + 1
        /\ Cardinality(T \ {First(T)}) \in Nat
    BY <2>1, FirstRemoved
  <2>3. SumFunctionOnSet(f, T \ {First(T)}) \in Int
    BY <2>2
  <2>4. SumFunctionOnSet(f, T)
          = f[First(T)] + SumFunctionOnSet(f, T \ {First(T)})
    BY <2>1, SumEquation
  <2> QED
    BY <2>2, <2>3, <2>4
<1> HIDE DEF N
<1>3. N = Nat
  BY <1>1, <1>2, Induction DEF N
<1> QED
  BY <1>0, <1>3 DEF N

(* Any element may be taken out of a sum, not only the first: the order    *)
(* does not matter.                                                        *)
LEMMA SumRemove ==
  ASSUME NEW f, NEW S, IsFiniteSet(S), \A x \in S : f[x] \in Int, NEW z \in S
  PROVE  SumFunctionOnSet(f, S) = f[z] + SumFunctionOnSet(f, S \ {z})
<1> DEFINE N == {n \in Nat : \A T \in SUBSET S : \A x \in T :
                   Cardinality(T) = n =>
                     SumFunctionOnSet(f, T) = f[x] + SumFunctionOnSet(f, T \ {x})}
<1>0. \A T \in SUBSET S : IsFiniteSet(T) /\ Cardinality(T) \in Nat
  BY FS_Subset, FS_CardinalityType
<1>1. 0 \in N
  BY <1>0, FS_EmptySet
<1>2. ASSUME NEW n \in N PROVE n + 1 \in N
  <2> SUFFICES ASSUME NEW T \in SUBSET S, NEW x \in T, Cardinality(T) = n + 1
               PROVE  SumFunctionOnSet(f, T) = f[x] + SumFunctionOnSet(f, T \ {x})
    OBVIOUS
  <2> DEFINE c == First(T)
  <2>1. T # {} /\ IsFiniteSet(T)
    BY <1>0
  <2>2. c \in T /\ Cardinality(T) = Cardinality(T \ {c}) + 1
        /\ Cardinality(T \ {c}) \in Nat
    BY <2>1, FirstRemoved
  <2>3. SumFunctionOnSet(f, T) = f[c] + SumFunctionOnSet(f, T \ {c})
    BY <2>1, SumEquation
  <2>4. CASE x = c
    BY <2>3, <2>4
  <2>5. CASE x # c
    <3>1. Cardinality(T \ {x}) = n
      <4>1. Cardinality(T \ {x}) = Cardinality(T) - 1
        BY <2>1, FS_RemoveElement
      <4> QED
        BY <4>1
    <3>2. SumFunctionOnSet(f, T \ {c}) = f[x] + SumFunctionOnSet(f, (T \ {c}) \ {x})
      BY <2>2, <2>5
    <3>3. SumFunctionOnSet(f, T \ {x}) = f[c] + SumFunctionOnSet(f, (T \ {x}) \ {c})
      BY <2>2, <2>5, <3>1
    <3>4. (T \ {c}) \ {x} = (T \ {x}) \ {c}
      OBVIOUS
    <3>5. SumFunctionOnSet(f, (T \ {x}) \ {c}) \in Int
      BY <1>0, SumType
    <3>6. f[x] \in Int /\ f[c] \in Int
      BY <2>2
    <3>7. SumFunctionOnSet(f, T \ {c}) = f[x] + SumFunctionOnSet(f, (T \ {x}) \ {c})
      BY <3>2, <3>4, Zenon
    <3>8. \A u, v, w \in Int : u + (v + w) = v + (u + w)
      OBVIOUS
    <3> HIDE DEF c, N
    <3> QED
      BY <2>3, <3>3, <3>5, <3>6, <3>7, <3>8
  <2> QED
    BY <2>4, <2>5
<1> HIDE DEF N
<1>3. N = Nat
  BY <1>1, <1>2, Induction DEF N
<1> QED
  BY <1>0, <1>3 DEF N

(* An element more adds its value. *)
LEMMA SumAdd ==
  ASSUME NEW f, NEW S, IsFiniteSet(S), NEW z, z \notin S,
         \A x \in S \cup {z} : f[x] \in Int
  PROVE  SumFunctionOnSet(f, S \cup {z}) = f[z] + SumFunctionOnSet(f, S)
<1>1. IsFiniteSet(S \cup {z}) /\ (S \cup {z}) \ {z} = S
  BY FS_AddElement
<1> QED
  BY <1>1, SumRemove

(* The sum depends on the values in the set only. *)
LEMMA SumSame ==
  ASSUME NEW f, NEW g, NEW S, IsFiniteSet(S),
         \A x \in S : f[x] \in Int, \A x \in S : g[x] = f[x]
  PROVE  SumFunctionOnSet(g, S) = SumFunctionOnSet(f, S)
<1> DEFINE F == {T \in SUBSET S : SumFunctionOnSet(g, T) = SumFunctionOnSet(f, T)}
<1>1. {} \in F
  BY SumEmpty
<1>2. ASSUME NEW T \in F, NEW x \in S \ T
      PROVE  T \cup {x} \in F
  BY SumAdd, FS_Subset
<1> HIDE DEF F
<1>3. S \in F
  BY <1>1, <1>2, SubsetInduction
<1> QED
  BY <1>3 DEF F

(* Smaller values have a smaller sum. *)
LEMMA SumLessEq ==
  ASSUME NEW f, NEW g, NEW S, IsFiniteSet(S),
         \A x \in S : f[x] \in Int /\ g[x] \in Int /\ f[x] <= g[x]
  PROVE  SumFunctionOnSet(f, S) <= SumFunctionOnSet(g, S)
<1> DEFINE F == {T \in SUBSET S : /\ SumFunctionOnSet(f, T) \in Int
                                  /\ SumFunctionOnSet(g, T) \in Int
                                  /\ SumFunctionOnSet(f, T) <= SumFunctionOnSet(g, T)}
<1>1. {} \in F
  BY SumEmpty
<1>2. ASSUME NEW T \in F, NEW x \in S \ T
      PROVE  T \cup {x} \in F
  <2>1. IsFiniteSet(T)
    BY FS_Subset
  <2>2. SumFunctionOnSet(f, T \cup {x}) = f[x] + SumFunctionOnSet(f, T)
    BY <2>1, SumAdd
  <2>3. SumFunctionOnSet(g, T \cup {x}) = g[x] + SumFunctionOnSet(g, T)
    BY <2>1, SumAdd
  <2> QED
    BY <2>2, <2>3
<1> HIDE DEF F
<1>3. S \in F
  BY <1>1, <1>2, SubsetInduction
<1> QED
  BY <1>3 DEF F

(* The values of h on S are a times those of f plus b times those of g.    *)
IsCombination(h, S, a, f, b, g) ==
    \A x \in S : f[x] \in Int /\ g[x] \in Int /\ h[x] = a * f[x] + b * g[x]

(* The sum of a linear combination is that of the sums. *)
LEMMA SumLinear ==
  ASSUME NEW f, NEW g, NEW h, NEW S, IsFiniteSet(S), NEW a \in Int, NEW b \in Int,
         IsCombination(h, S, a, f, b, g)
  PROVE  SumFunctionOnSet(h, S) = a * SumFunctionOnSet(f, S) + b * SumFunctionOnSet(g, S)
<1> USE DEF IsCombination
<1> DEFINE F == {T \in SUBSET S :
                   /\ SumFunctionOnSet(f, T) \in Int
                   /\ SumFunctionOnSet(g, T) \in Int
                   /\ SumFunctionOnSet(h, T)
                        = a * SumFunctionOnSet(f, T) + b * SumFunctionOnSet(g, T)}
<1>1. {} \in F
  BY SumEmpty
<1>2. ASSUME NEW T \in F, NEW x \in S \ T
      PROVE  T \cup {x} \in F
  <2>0. \A u, v, w, z \in Int : (a * u + b * v) + (a * w + b * z)
                                  = a * (u + w) + b * (v + z)
    OBVIOUS
  <2>1. IsFiniteSet(T) /\ \A y \in S : h[y] \in Int
    BY FS_Subset
  <2>2. SumFunctionOnSet(f, T \cup {x}) = f[x] + SumFunctionOnSet(f, T)
    BY <2>1, SumAdd
  <2>3. SumFunctionOnSet(g, T \cup {x}) = g[x] + SumFunctionOnSet(g, T)
    BY <2>1, SumAdd
  <2>4. SumFunctionOnSet(h, T \cup {x}) = h[x] + SumFunctionOnSet(h, T)
    BY <2>1, SumAdd
  <2>5. h[x] + SumFunctionOnSet(h, T)
          = a * (f[x] + SumFunctionOnSet(f, T)) + b * (g[x] + SumFunctionOnSet(g, T))
    BY <2>0
  <2> QED
    BY <2>2, <2>3, <2>4, <2>5
<1> HIDE DEF F
<1>3. S \in F
  BY <1>1, <1>2, SubsetInduction
<1> QED
  BY <1>3 DEF F

(* A sum of zeros is zero. *)
LEMMA SumOfZeros ==
  ASSUME NEW f, NEW S, IsFiniteSet(S), \A x \in S : f[x] = 0
  PROVE  SumFunctionOnSet(f, S) = 0
<1> DEFINE F == {T \in SUBSET S : SumFunctionOnSet(f, T) = 0}
<1>1. {} \in F
  BY SumEmpty
<1>2. ASSUME NEW T \in F, NEW x \in S \ T
      PROVE  T \cup {x} \in F
  <2>1. IsFiniteSet(T)
    BY FS_Subset
  <2>2. SumFunctionOnSet(f, T \cup {x}) = 0 + SumFunctionOnSet(f, T)
    BY <2>1, SumAdd
  <2> QED
    BY <2>2
<1> HIDE DEF F
<1>3. S \in F
  BY <1>1, <1>2, SubsetInduction
<1> QED
  BY <1>3 DEF F

(* Counting is adding ones. *)
LEMMA SumOfOnes ==
  ASSUME NEW f, NEW S, IsFiniteSet(S), \A x \in S : f[x] = 1
  PROVE  SumFunctionOnSet(f, S) = Cardinality(S)
<1> DEFINE F == {T \in SUBSET S : SumFunctionOnSet(f, T) = Cardinality(T)}
<1>1. {} \in F
  BY SumEmpty, FS_EmptySet
<1>2. ASSUME NEW T \in F, NEW x \in S \ T
      PROVE  T \cup {x} \in F
  <2>1. IsFiniteSet(T) /\ Cardinality(T) \in Nat
    BY FS_Subset, FS_CardinalityType
  <2>2. SumFunctionOnSet(f, T \cup {x}) = 1 + SumFunctionOnSet(f, T)
    BY <2>1, SumAdd
  <2>3. Cardinality(T \cup {x}) = Cardinality(T) + 1
    BY <2>1, FS_AddElement
  <2> QED
    BY <2>1, <2>2, <2>3
<1> HIDE DEF F
<1>3. S \in F
  BY <1>1, <1>2, SubsetInduction
<1> QED
  BY <1>3 DEF F

(* Numbering the elements leaves the sum as it is. *)
LEMMA SumRenumbered ==
  ASSUME NEW f, NEW S, NEW R, IsFiniteSet(R), NEW r \in Bijection(R, S),
         \A x \in S : f[x] \in Int
  PROVE  SumFunctionOnSet([i \in R |-> f[r[i]]], R) = SumFunctionOnSet(f, S)
<1> DEFINE g == [i \in R |-> f[r[i]]]
           Image(T) == {r[i] : i \in T}
           F == {T \in SUBSET R : IsFiniteSet(Image(T))
                   /\ SumFunctionOnSet(g, T) = SumFunctionOnSet(f, Image(T))}
<1>1. {} \in F
  BY SumEmpty, FS_EmptySet
<1>2. ASSUME NEW T \in F, NEW x \in R \ T
      PROVE  T \cup {x} \in F
  <2>1. IsFiniteSet(T) /\ IsFiniteSet(Image(T))
    BY FS_Subset
  <2>2. r[x] \in S /\ r[x] \notin Image(T) /\ Image(T) \subseteq S
    BY DEF Bijection, Injection, IsInjective
  <2>3. Image(T \cup {x}) = Image(T) \cup {r[x]}
    OBVIOUS
  <2>4. SumFunctionOnSet(g, T \cup {x}) = g[x] + SumFunctionOnSet(g, T)
    <3>1. \A i \in R : g[i] \in Int
      BY DEF Bijection, Injection
    <3> HIDE DEF g, F
    <3> QED
      BY <2>1, <3>1, SumAdd DEF F
  <2>5. SumFunctionOnSet(f, Image(T) \cup {r[x]}) = f[r[x]] + SumFunctionOnSet(f, Image(T))
    BY <2>1, <2>2, SumAdd
  <2>6. IsFiniteSet(Image(T) \cup {r[x]})
    BY <2>1, FS_AddElement
  <2> QED
    BY <2>3, <2>4, <2>5, <2>6
<1>3. Image(R) = S
  BY DEF Bijection, Surjection
<1> HIDE DEF F
<1>4. R \in F
  BY <1>1, <1>2, SubsetInduction
<1> QED
  BY <1>3, <1>4 DEF F

(* The numbers from 1 to n are finitely many, and n of them. *)
LEMMA NumbersTo ==
  ASSUME NEW n \in Nat
  PROVE  /\ IsFiniteSet(1..n)
         /\ Cardinality(1..n) = n
         /\ 1..(n + 1) = (1..n) \cup {n + 1}
         /\ n + 1 \notin 1..n
<1>1. 1 \in Int /\ n \in Int
  OBVIOUS
<1>2. IsFiniteSet(1..n) /\ Cardinality(1..n) = IF 1 > n THEN 0 ELSE n-1+1
  BY ONLY <1>1, FS_Interval, Zenon
<1> QED
  BY <1>2

(* The sum of the first n + 1 values. *)
LEMMA SumToNext ==
  ASSUME NEW f, NEW n \in Nat, \A i \in 1..(n + 1) : f[i] \in Int
  PROVE  SumFunctionOnSet(f, 1..(n + 1)) = f[n + 1] + SumFunctionOnSet(f, 1..n)
<1>1. /\ IsFiniteSet(1..n) /\ n + 1 \notin 1..n
      /\ 1..(n + 1) = (1..n) \cup {n + 1}
  BY NumbersTo
<1>2. \A i \in (1..n) \cup {n + 1} : f[i] \in Int
  BY <1>1
<1> QED
  BY <1>1, <1>2, SumAdd

(* The sum of the values of which only that of z is not 0.                 *)
LEMMA SumOfSingle ==
  ASSUME NEW f, NEW S, IsFiniteSet(S), NEW z \in S, f[z] \in Int,
         \A x \in S : x # z => f[x] = 0
  PROVE  SumFunctionOnSet(f, S) = f[z]
<1> DEFINE R == S \ {z}
<1>1. IsFiniteSet(R) /\ \A x \in R : f[x] = 0
  BY FS_RemoveElement
<1>2. SumFunctionOnSet(f, S) = f[z] + SumFunctionOnSet(f, R)
  BY SumRemove
<1> HIDE DEF R
<1>3. SumFunctionOnSet(f, R) = 0
  BY <1>1, SumOfZeros
<1> QED
  BY <1>2, <1>3

(* The first k of m numbers, counted. *)
LEMMA SumOfFirst ==
  ASSUME NEW m \in Nat, NEW k \in 0..m, NEW f,
         \A j \in 1..m : f[j] = IF j <= k THEN 1 ELSE 0
  PROVE  SumFunctionOnSet(f, 1..m) = k
<1> DEFINE g == [j \in Nat |-> IF j <= k THEN 1 ELSE 0]
           N == {n \in Nat : SumFunctionOnSet(g, 1..n) = IF n <= k THEN n ELSE k}
<1>0. \A j \in Nat : g[j] \in Int /\ g[j] = IF j <= k THEN 1 ELSE 0
  OBVIOUS
<1> HIDE DEF g
<1>1. 0 \in N
  <2>1. 1..0 = {}
    OBVIOUS
  <2> QED
    BY <2>1, SumEmpty
<1>2. ASSUME NEW n \in N PROVE n + 1 \in N
  <2>1. SumFunctionOnSet(g, 1..(n + 1)) = g[n + 1] + SumFunctionOnSet(g, 1..n)
    BY <1>0, SumToNext
  <2> QED
    BY <1>0, <2>1
<1> HIDE DEF N
<1>3. N = Nat
  BY <1>1, <1>2, Induction DEF N
<1>4. SumFunctionOnSet(g, 1..m) = k
  <2>1. m \in N
    BY <1>3
  <2> QED
    BY <2>1 DEF N
<1>5. \A j \in 1..m : g[j] \in Int /\ f[j] = g[j]
  BY <1>0
<1> QED
  BY <1>4, <1>5, NumbersTo, SumSame

=============================================================================
