---------------------------- MODULE ResultsProofs ----------------------------
(***************************************************************************)
(* Lemmas about the operators of module Results, for every set and every   *)
(* function they are given.  A sum over a finite set is a choice of an     *)
(* order and a recursion over it; that the order does not matter is shown  *)
(* here from a least counterexample, by cardinality, as are the other      *)
(* facts that would take an induction.                                     *)
(***************************************************************************)
EXTENDS Results, FiniteSetTheorems, SequenceTheorems, TLAPS

(* Numbers. *)

LEMMA SmallestOf ==
  ASSUME NEW T \in SUBSET Nat, T # {}
  PROVE  \E n \in T : \A m \in T : n <= m
<1>1. PICK x \in T : \A y \in T : ~ (<<y, x>> \in OpToRel(<, Nat))
  BY WFMin, NatLessThanWellFounded
<1>2. ASSUME NEW y \in T PROVE x <= y
  <2>1. <<y, x>> \notin OpToRel(<, Nat)
    BY <1>1
  <2>2. x \in Nat /\ y \in Nat
    OBVIOUS
  <2>3. ~ (y < x)
    BY <2>1, <2>2 DEF OpToRel
  <2> QED BY <2>2, <2>3
<1> QED BY <1>2

LEMMA Distributes ==
  ASSUME NEW k \in Nat, NEW a \in Nat, NEW b \in Nat
  PROVE  k * (a + b) = k * a + k * b
OBVIOUS

LEMMA Times ==
  ASSUME NEW r \in Nat \ {0}, NEW a \in Nat, NEW b \in Nat, a < b
  PROVE  r * a + r <= r * b /\ r * a \in Nat /\ r * b \in Nat
<1>1. PICK d \in Nat : b = a + 1 + d
  <2>1. b - a - 1 \in Nat
    OBVIOUS
  <2>2. b = a + 1 + (b - a - 1)
    OBVIOUS
  <2> QED BY <2>1, <2>2
<1>2. r * (a + (1 + d)) = r * a + r * (1 + d)
  BY Distributes
<1>3. r * (1 + d) = r * 1 + r * d
  BY Distributes
<1>4. r * d \in Nat /\ r * a \in Nat
  OBVIOUS
<1>5. r * b = r * a + r + r * d
  BY <1>1, <1>2, <1>3
<1> QED BY <1>4, <1>5

LEMMA Modulo ==
  ASSUME NEW r \in Nat \ {0}, NEW a \in Nat, NEW k \in 0..(r - 1)
  PROVE  (r * a + k) % r = k /\ (r * a + k) \div r = a
<1> DEFINE n == r * a + k
           q == n \div r
           m == n % r
<1>1. n \in Nat /\ q \in Nat /\ m \in 0..(r - 1) /\ n = r * q + m
  OBVIOUS
<1> HIDE DEF q, m
<1>2. ~(q < a)
  BY <1>1, Times
<1>3. ~(a < q)
  BY <1>1, Times
<1>4. q = a
  BY <1>1, <1>2, <1>3
<1> QED BY <1>1, <1>4 DEF q, m

LEMMA Division ==
  ASSUME NEW n \in Nat, NEW r \in Nat \ {0}
  PROVE  n \div r \in Nat /\ n = r * (n \div r) + (n % r)
OBVIOUS

LEMMA LargestOf ==
  ASSUME NEW x \in Int
  PROVE  x <= Max({0, x}) /\ Max({0, x}) \in Nat
<1>1. \E m \in {0, x} : \A y \in {0, x} : m >= y
  <2>1. CASE x >= 0
    BY <2>1
  <2>2. CASE ~ (x >= 0)
    BY <2>2
  <2> QED BY <2>1, <2>2
<1>2. Max({0, x}) \in {0, x} /\ \A y \in {0, x} : Max({0, x}) >= y
  BY <1>1 DEF Max
<1> QED BY <1>2

LEMMA UpTo ==
  ASSUME NEW n \in Nat
  PROVE  /\ IsFiniteSet(1..n) /\ Cardinality(1..n) = n
         /\ IsFiniteSet(0..(n - 1)) /\ Cardinality(0..(n - 1)) = n
<1>1. IsFiniteSet(1..n) /\ Cardinality(1..n) = IF 1 > n THEN 0 ELSE n - 1 + 1
  BY FS_Interval
<1>2. IsFiniteSet(0..(n - 1)) /\ Cardinality(0..(n - 1)) = IF 0 > n - 1 THEN 0 ELSE n - 1 - 0 + 1
  BY FS_Interval
<1>3. n \in Nat
  OBVIOUS
<1> QED BY <1>1, <1>2, <1>3

----------------------------------------------------------------------------
(* Sums. *)

\* G adds up f over the subsets of S, whichever element is taken first.
Additive(G, f, S) ==
  /\ G \in [SUBSET S -> Int]
  /\ G[{}] = 0
  /\ \A T \in SUBSET S : \A x \in T : G[T] = f[x] + G[T \ {x}]

LEMMA TotalIs ==
  ASSUME NEW S, IsFiniteSet(S), NEW f, NEW G, Additive(G, f, S)
  PROVE  Total(f, S) = G[S]
<1> DEFINE ch(s) == CHOOSE x \in s : TRUE
           P(g) == g = [s \in SUBSET S |-> IF s = {} THEN 0 ELSE f[ch(s)] + g[s \ {ch(s)}]]
           iter == CHOOSE g : P(g)
<1>1. P(G)
  <2> DEFINE H == [s \in SUBSET S |-> IF s = {} THEN 0 ELSE f[ch(s)] + G[s \ {ch(s)}]]
  <2>1. ASSUME NEW s \in SUBSET S PROVE G[s] = H[s]
    <3>1. CASE s = {}
      BY <3>1 DEF Additive
    <3>2. CASE s # {}
      <4>1. ch(s) \in s
        BY <3>2
      <4> HIDE DEF ch
      <4> QED BY <3>2, <4>1 DEF Additive
    <3> QED BY <3>1, <3>2
  <2>2. G \in [SUBSET S -> Int] /\ DOMAIN H = SUBSET S
    BY DEF Additive
  <2>3. G = [s \in SUBSET S |-> G[s]]
    BY <2>2
  <2> QED BY <2>1, <2>3
<1>2. P(iter)
  <2> HIDE DEF P
  <2> QED BY <1>1, Zenon
<1>3. Total(f, S) = iter[S]
  BY Zenon DEF Total, MapThenSumSet, MapThenFoldSet
<1> HIDE DEF iter
<1>4. ASSUME NEW T \in SUBSET S, T # {} PROVE ch(T) \in T /\ iter[T] = f[ch(T)] + iter[T \ {ch(T)}]
  BY <1>2, <1>4
<1>5. iter[{}] = 0
  BY <1>2
<1> HIDE DEF ch, P
<1> DEFINE bad == {n \in Nat : \E T \in SUBSET S : Cardinality(T) = n /\ iter[T] # G[T]}
<1>6. bad = {}
  <2> SUFFICES ASSUME bad # {} PROVE FALSE
    OBVIOUS
  <2>1. PICK n \in bad : \A m \in bad : n <= m
    BY SmallestOf
  <2>2. PICK T \in SUBSET S : Cardinality(T) = n /\ iter[T] # G[T]
    OBVIOUS
  <2>3. IsFiniteSet(T)
    BY FS_Subset
  <2>4. T # {}
    BY <1>5, <2>2 DEF Additive
  <2> DEFINE U == T \ {ch(T)}
  <2>5. Cardinality(U) = n - 1 /\ n \in Nat /\ Cardinality(U) \in Nat
    BY <1>4, <2>2, <2>3, <2>4, FS_RemoveElement, FS_CardinalityType
  <2>6. iter[U] = G[U]
    BY <2>1, <2>5
  <2>7. iter[T] = f[ch(T)] + iter[U] /\ ch(T) \in T
    BY <1>4, <2>4
  <2>8. G[T] = f[ch(T)] + G[U]
    BY <2>7 DEF Additive
  <2> QED BY <2>2, <2>6, <2>7, <2>8
<1>7. Cardinality(S) \in Nat
  BY FS_CardinalityType
<1> QED BY <1>3, <1>6, <1>7

\* What the values of A on S have in all.
Together(A, S) == UNION {A[s] : s \in S}

LEMMA TogetherFinite ==
  ASSUME NEW S, IsFiniteSet(S), NEW A, \A s \in S : IsFiniteSet(A[s])
  PROVE  IsFiniteSet(Together(A, S))
<1> DEFINE bad == {n \in Nat : \E T \in SUBSET S : Cardinality(T) = n /\ ~IsFiniteSet(Together(A, T))}
<1>1. bad = {}
  <2> SUFFICES ASSUME bad # {} PROVE FALSE
    OBVIOUS
  <2>1. PICK n \in bad : \A m \in bad : n <= m
    BY SmallestOf
  <2>2. PICK T \in SUBSET S : Cardinality(T) = n /\ ~IsFiniteSet(Together(A, T))
    OBVIOUS
  <2>3. IsFiniteSet(T)
    BY FS_Subset
  <2>4. T # {}
    <3>1. Together(A, {}) = {}
      BY DEF Together
    <3> QED BY <2>2, <3>1, FS_EmptySet
  <2>5. PICK x \in T : TRUE
    BY <2>4
  <2> DEFINE U == T \ {x}
  <2>6. Cardinality(U) = n - 1 /\ n \in Nat
    BY <2>2, <2>3, FS_RemoveElement
  <2>7. Cardinality(U) \in Nat
    BY <2>3, FS_RemoveElement, FS_CardinalityType
  <2>8. IsFiniteSet(Together(A, U))
    BY <2>1, <2>6, <2>7
  <2>9. IsFiniteSet(A[x] \cup Together(A, U))
    BY <2>8, FS_Union
  <2>10. Together(A, T) = A[x] \cup Together(A, T \ {x})
    BY DEF Together
  <2> QED BY <2>2, <2>9, <2>10
<1>2. Cardinality(S) \in Nat
  BY FS_CardinalityType
<1> QED BY <1>1, <1>2

\* The sum of the sizes of sets that have nothing in common is the size of what
\* they have together.
LEMMA TotalOfSizes ==
  ASSUME NEW S, IsFiniteSet(S), NEW A, NEW f,
         \A s \in S : IsFiniteSet(A[s]) /\ f[s] = Cardinality(A[s]),
         \A s, t \in S : s # t => A[s] \cap A[t] = {}
  PROVE  Total(f, S) = Cardinality(Together(A, S))
<1> DEFINE G == [T \in SUBSET S |-> Cardinality(Together(A, T))]
<1>1. ASSUME NEW T \in SUBSET S PROVE IsFiniteSet(Together(A, T))
  <2>1. IsFiniteSet(T)
    BY FS_Subset
  <2> QED BY <2>1, TogetherFinite
<1>2. G \in [SUBSET S -> Int]
  BY <1>1, FS_CardinalityType
<1>3. G[{}] = 0
  <2>1. Together(A, {}) = {}
    BY DEF Together
  <2> QED BY <2>1, FS_EmptySet
<1>4. ASSUME NEW T \in SUBSET S, NEW x \in T PROVE G[T] = f[x] + G[T \ {x}]
  <2> DEFINE rest == Together(A, T \ {x})
  <2>1. IsFiniteSet(A[x]) /\ IsFiniteSet(rest)
    BY <1>1
  <2>2. A[x] \cap rest = {}
    BY DEF Together
  <2>3. Together(A, T) = A[x] \cup rest
    BY DEF Together
  <2>7. G[T] = Cardinality(Together(A, T)) /\ G[T \ {x}] = Cardinality(rest)
    OBVIOUS
  <2> HIDE DEF rest, G
  <2>4. Cardinality(A[x] \cup rest) = Cardinality(A[x]) + Cardinality(rest) - Cardinality(A[x] \cap rest)
    BY <2>1, FS_Union
  <2>5. Cardinality(A[x] \cap rest) = 0
    BY <2>2, FS_EmptySet
  <2>6. Cardinality(A[x]) \in Nat /\ Cardinality(rest) \in Nat
    BY <2>1, FS_CardinalityType
  <2> QED BY <2>3, <2>4, <2>5, <2>6, <2>7
<1>5. Additive(G, f, S)
  BY <1>2, <1>3, <1>4 DEF Additive
<1> HIDE DEF G
<1>6. Total(f, S) = G[S]
  BY <1>5, TotalIs
<1> QED BY <1>6 DEF G

\* A sum of counts is the number of the things counted.
Pairs(f, S) == UNION {{x} \X (1..f[x]) : x \in S}

LEMMA TotalIsPairs ==
  ASSUME NEW S, IsFiniteSet(S), NEW f, \A x \in S : f[x] \in Nat
  PROVE  /\ IsFiniteSet(Pairs(f, S)) /\ Total(f, S) \in Nat
         /\ Total(f, S) = Cardinality(Pairs(f, S))
<1> DEFINE A == [x \in S |-> {x} \X (1..f[x])]
<1>1. ASSUME NEW x \in S PROVE IsFiniteSet(A[x]) /\ f[x] = Cardinality(A[x])
  <2>1. IsFiniteSet({x}) /\ Cardinality({x}) = 1
    BY FS_Singleton
  <2>2. f[x] \in Nat
    OBVIOUS
  <2>3. IsFiniteSet(1..f[x]) /\ Cardinality(1..f[x]) = f[x]
    BY <2>2, FS_Interval
  <2>4. IsFiniteSet({x} \X (1..f[x])) /\ Cardinality({x} \X (1..f[x])) = 1 * f[x]
    BY <2>1, <2>3, FS_Product
  <2> QED BY <2>2, <2>4
<1>2. \A x, y \in S : x # y => A[x] \cap A[y] = {}
  OBVIOUS
<1>3. Together(A, S) = Pairs(f, S)
  BY DEF Together, Pairs
<1> HIDE DEF A
<1>4. IsFiniteSet(Together(A, S))
  BY <1>1, TogetherFinite
<1>5. Total(f, S) = Cardinality(Together(A, S))
  BY <1>1, <1>2, TotalOfSizes
<1> QED BY <1>3, <1>4, <1>5, FS_CardinalityType

LEMMA TotalSame ==
  ASSUME NEW S, IsFiniteSet(S), NEW f, NEW g, \A x \in S : f[x] \in Nat /\ g[x] = f[x]
  PROVE  Total(g, S) = Total(f, S)
<1>1. Pairs(f, S) = Pairs(g, S)
  BY DEF Pairs
<1> QED BY <1>1, TotalIsPairs

LEMMA TotalSplits ==
  ASSUME NEW S, IsFiniteSet(S), NEW f, \A x \in S : f[x] \in Nat, NEW x \in S
  PROVE  Total(f, S) = f[x] + Total(f, S \ {x})
<1> DEFINE own == {x} \X (1..f[x])
           rest == Pairs(f, S \ {x})
<1>1. IsFiniteSet(S \ {x})
  BY FS_RemoveElement
<1>2. IsFiniteSet(rest) /\ Total(f, S \ {x}) = Cardinality(rest)
  BY <1>1, TotalIsPairs
<1>3. IsFiniteSet(own) /\ Cardinality(own) = f[x]
  <2>1. IsFiniteSet({x}) /\ Cardinality({x}) = 1
    BY FS_Singleton
  <2>2. f[x] \in Nat
    OBVIOUS
  <2>3. IsFiniteSet(1..f[x]) /\ Cardinality(1..f[x]) = f[x]
    BY <2>2, FS_Interval
  <2>4. IsFiniteSet({x} \X (1..f[x])) /\ Cardinality({x} \X (1..f[x])) = 1 * f[x]
    BY <2>1, <2>3, FS_Product
  <2> QED BY <2>2, <2>4
<1>4. Pairs(f, S) = own \cup rest /\ own \cap rest = {}
  BY DEF Pairs
<1>5. Total(f, S) = Cardinality(Pairs(f, S))
  BY TotalIsPairs
<1> HIDE DEF own, rest
<1>6. Cardinality(own \cup rest) = Cardinality(own) + Cardinality(rest) - Cardinality(own \cap rest)
  BY <1>2, <1>3, FS_Union
<1>7. Cardinality(own \cap rest) = 0
  BY <1>4, FS_EmptySet
<1>8. Cardinality(own) \in Nat /\ Cardinality(rest) \in Nat
  BY <1>2, <1>3, FS_CardinalityType
<1> QED BY <1>2, <1>3, <1>4, <1>5, <1>6, <1>7, <1>8

LEMMA TotalMonotone ==
  ASSUME NEW S, IsFiniteSet(S), NEW f, NEW g,
         \A x \in S : f[x] \in Nat /\ g[x] \in Nat /\ f[x] <= g[x]
  PROVE  Total(f, S) <= Total(g, S)
<1>1. Pairs(f, S) \in SUBSET Pairs(g, S)
  BY DEF Pairs
<1>2. IsFiniteSet(Pairs(g, S)) /\ Total(g, S) = Cardinality(Pairs(g, S))
  BY TotalIsPairs
<1>3. Total(f, S) = Cardinality(Pairs(f, S))
  BY TotalIsPairs
<1>4. Cardinality(Pairs(f, S)) <= Cardinality(Pairs(g, S))
  BY <1>1, <1>2, FS_Subset
<1> QED BY <1>2, <1>3, <1>4

LEMMA TotalScaled ==
  ASSUME NEW S, IsFiniteSet(S), NEW f, \A x \in S : f[x] \in Nat, NEW k \in Nat,
         NEW g, \A x \in S : g[x] = k * f[x]
  PROVE  Total(g, S) = k * Total(f, S)
<1> DEFINE G == [T \in SUBSET S |-> k * Total(f, T)]
<1>1. \A T \in SUBSET S : IsFiniteSet(T)
  BY FS_Subset
<1>2. \A T \in SUBSET S : Total(f, T) \in Nat
  BY <1>1, TotalIsPairs
<1>3. G \in [SUBSET S -> Int]
  BY <1>2
<1>4. G[{}] = 0
  <2>1. Pairs(f, {}) = {}
    BY DEF Pairs
  <2>2. Total(f, {}) = Cardinality(Pairs(f, {}))
    BY FS_EmptySet, TotalIsPairs
  <2>3. Total(f, {}) = 0
    BY <2>1, <2>2, FS_EmptySet
  <2> QED BY <2>3
<1>5. ASSUME NEW T \in SUBSET S, NEW x \in T PROVE G[T] = g[x] + G[T \ {x}]
  <2>1. Total(f, T) = f[x] + Total(f, T \ {x})
    BY <1>1, TotalSplits
  <2>2. f[x] \in Nat /\ Total(f, T \ {x}) \in Nat /\ g[x] = k * f[x]
    BY <1>2
  <2>3. k * Total(f, T) = k * f[x] + k * Total(f, T \ {x})
    BY <2>1, <2>2, Distributes
  <2> QED BY <2>2, <2>3
<1>6. Additive(G, g, S)
  BY <1>3, <1>4, <1>5 DEF Additive
<1> HIDE DEF G
<1>7. Total(g, S) = G[S]
  BY <1>6, TotalIs
<1> QED BY <1>7 DEF G

LEMMA TotalRaised ==
  ASSUME NEW S, IsFiniteSet(S), NEW f, NEW g, \A y \in S : f[y] \in Nat, NEW k \in Nat,
         NEW x \in S, g[x] = f[x] + k, \A y \in S \ {x} : g[y] = f[y]
  PROVE  Total(g, S) = Total(f, S) + k
<1>1. IsFiniteSet(S \ {x})
  BY FS_RemoveElement
<1>2. Total(g, S \ {x}) = Total(f, S \ {x}) /\ Total(f, S \ {x}) \in Nat
  BY <1>1, TotalSame, TotalIsPairs
<1>3. f[x] \in Nat /\ g[x] \in Nat
  OBVIOUS
<1>4. \A y \in S : g[y] \in Nat
  BY <1>3
<1>5. Total(f, S) = f[x] + Total(f, S \ {x})
  BY TotalSplits
<1>6. Total(g, S) = g[x] + Total(g, S \ {x})
  BY <1>4, TotalSplits
<1> QED BY <1>2, <1>3, <1>5, <1>6

\* A sum over a set in parts.
LEMMA TotalOfParts ==
  ASSUME NEW S, IsFiniteSet(S), NEW C, IsFiniteSet(C),
         NEW P, \A s \in S : P[s] \in SUBSET C, \A c \in C : \E s \in S : c \in P[s],
         \A s, t \in S : s # t => P[s] \cap P[t] = {},
         NEW f, \A c \in C : f[c] \in Nat,
         NEW g, \A s \in S : g[s] = Total(f, P[s])
  PROVE  Total(g, S) = Total(f, C)
<1> DEFINE A == [s \in S |-> Pairs(f, P[s])]
<1>1. \A s \in S : IsFiniteSet(P[s]) /\ \A p \in P[s] : f[p] \in Nat
  BY FS_Subset
<1>2. \A s \in S : IsFiniteSet(A[s]) /\ g[s] = Cardinality(A[s])
  BY <1>1, TotalIsPairs
<1>3. ASSUME NEW s \in S, NEW t \in S, s # t PROVE A[s] \cap A[t] = {}
  <2>1. P[s] \cap P[t] = {}
    BY <1>3
  <2>2. A[s] = Pairs(f, P[s]) /\ A[t] = Pairs(f, P[t])
    OBVIOUS
  <2> QED BY <2>1, <2>2 DEF Pairs
<1>4. Together(A, S) = Pairs(f, C)
  <2>1. \A c : c \in C <=> \E s \in S : c \in P[s]
    OBVIOUS
  <2> QED BY <2>1 DEF Together, Pairs
<1> HIDE DEF A
<1>5. Total(g, S) = Cardinality(Together(A, S))
  BY <1>2, <1>3, TotalOfSizes
<1> QED BY <1>4, <1>5, TotalIsPairs

----------------------------------------------------------------------------
(* Samples. *)

\* v is among the samples.
Has(s, v) == \E i \in DOMAIN s : s[i] = v

NoLater(s, i) == {j \in DOMAIN s : s[j] < s[i] \/ (s[j] = s[i] /\ j <= i)}

PlaceOf(s) == [i \in DOMAIN s |-> Cardinality(NoLater(s, i))]

\* Each sample has a place of its own.
LEMMA SortPlaces ==
  ASSUME NEW s \in Seq(Nat)
  PROVE  /\ PlaceOf(s) \in Bijection(1..Len(s), 1..Len(s))
         /\ \A i, j \in 1..Len(s) : PlaceOf(s)[i] <= PlaceOf(s)[j] => s[i] <= s[j]
<1> DEFINE n == Len(s)
           P == PlaceOf(s)
<1>1. n \in Nat /\ DOMAIN s = 1..n /\ \A i \in 1..n : s[i] \in Nat
  OBVIOUS
<1>2. IsFiniteSet(1..n) /\ Cardinality(1..n) = n
  BY <1>1, UpTo
<1>3. ASSUME NEW i \in 1..n
      PROVE  /\ IsFiniteSet(NoLater(s, i)) /\ P[i] = Cardinality(NoLater(s, i))
             /\ P[i] \in 1..n /\ i \in NoLater(s, i)
  <2>1. NoLater(s, i) \in SUBSET (1..n) /\ i \in NoLater(s, i)
    BY <1>1 DEF NoLater
  <2>2. IsFiniteSet(NoLater(s, i)) /\ Cardinality(NoLater(s, i)) <= n
    BY <1>2, <2>1, FS_Subset
  <2>3. Cardinality(NoLater(s, i)) \in Nat
    BY <2>2, FS_CardinalityType
  <2>4. Cardinality(NoLater(s, i)) # 0
    BY <2>1, <2>2, FS_EmptySet
  <2>5. P[i] = Cardinality(NoLater(s, i))
    BY <1>1 DEF PlaceOf
  <2> QED BY <1>1, <2>1, <2>2, <2>3, <2>4, <2>5
<1> HIDE DEF n, P
<1>4. ASSUME NEW i \in 1..n, NEW j \in 1..n, s[j] < s[i] \/ (s[j] = s[i] /\ j < i)
      PROVE  P[j] < P[i]
  <2>1. NoLater(s, j) \in SUBSET NoLater(s, i)
    <3> SUFFICES ASSUME NEW k \in 1..n, s[k] < s[j] \/ (s[k] = s[j] /\ k <= j)
                 PROVE  s[k] < s[i] \/ (s[k] = s[i] /\ k <= i)
      BY <1>1 DEF NoLater
    <3>1. s[k] \in Nat /\ s[j] \in Nat /\ s[i] \in Nat /\ k \in Nat /\ j \in Nat /\ i \in Nat
      BY <1>1
    <3> QED BY <1>4, <3>1
  <2>2. i \notin NoLater(s, j)
    <3>1. s[j] \in Nat /\ s[i] \in Nat /\ j \in Nat /\ i \in Nat
      BY <1>1
    <3> QED BY <1>4, <3>1 DEF NoLater
  <2>3. NoLater(s, j) # NoLater(s, i)
    BY <1>3, <2>2
  <2>4. /\ Cardinality(NoLater(s, j)) <= Cardinality(NoLater(s, i))
        /\ Cardinality(NoLater(s, j)) = Cardinality(NoLater(s, i)) => NoLater(s, j) = NoLater(s, i)
    BY <1>3, <2>1, FS_Subset
  <2>5. P[i] \in Nat /\ P[j] \in Nat
    BY <1>1, <1>3
  <2> QED BY <1>3, <2>3, <2>4, <2>5
<1>5. ASSUME NEW i \in 1..n, NEW j \in 1..n, P[i] = P[j] PROVE i = j
  <2>1. P[i] \in Nat /\ s[i] \in Nat /\ s[j] \in Nat /\ i \in Nat /\ j \in Nat
    BY <1>1, <1>3
  <2>2. ~ (P[i] < P[j]) /\ ~ (P[j] < P[i])
    BY <1>5, <2>1
  <2>3. ~ (s[j] < s[i] \/ (s[j] = s[i] /\ j < i)) /\ ~ (s[i] < s[j] \/ (s[i] = s[j] /\ i < j))
    BY <1>4, <2>2
  <2> QED BY <2>1, <2>3
<1>6. P \in Injection(1..n, 1..n)
  <2>1. P \in [1..n -> 1..n]
    <3>1. P = [i \in 1..n |-> P[i]]
      BY <1>1 DEF P, PlaceOf
    <3> QED BY <1>3, <3>1
  <2> QED BY <1>5, <2>1 DEF Injection, IsInjective
<1>7. P \in Surjection(1..n, 1..n)
  BY <1>2, <1>6, FS_Injection
<1>8. ASSUME NEW i \in 1..n, NEW j \in 1..n, P[i] <= P[j] PROVE s[i] <= s[j]
  <2>1. P[i] \in Nat /\ P[j] \in Nat /\ s[i] \in Nat /\ s[j] \in Nat
    BY <1>1, <1>3
  <2>2. ~ (P[j] < P[i])
    BY <1>8, <2>1
  <2>3. ~ (s[j] < s[i])
    BY <1>4, <2>2
  <2> QED BY <2>1, <2>3
<1>9. P \in Bijection(1..n, 1..n)
  BY <1>6, <1>7 DEF Bijection
<1> QED BY <1>8, <1>9 DEF n, P

\* Sorting keeps the samples and puts them in order.
LEMMA SortedIs ==
  ASSUME NEW s \in Seq(Nat)
  PROVE  /\ Sorted(s) \in Seq(Nat) /\ Len(Sorted(s)) = Len(s)
         /\ \A k, l \in 1..Len(s) : k <= l => Sorted(s)[k] <= Sorted(s)[l]
         /\ \A v : Has(Sorted(s), v) <=> Has(s, v)
<1> DEFINE n == Len(s)
           P == PlaceOf(s)
           at == [k \in DOMAIN s |-> CHOOSE i \in DOMAIN s : Cardinality(NoLater(s, i)) = k]
<1>1. n \in Nat /\ DOMAIN s = 1..n /\ \A i \in 1..n : s[i] \in Nat
  OBVIOUS
<1>2. Sorted(s) = [k \in DOMAIN s |-> s[at[k]]]
  BY DEF Sorted, NoLater
<1>3. ASSUME NEW k \in 1..n PROVE at[k] \in 1..n /\ P[at[k]] = k
  <2>1. \E i \in 1..n : P[i] = k
    BY SortPlaces DEF Bijection, Surjection
  <2>2. \A i \in DOMAIN s : P[i] = Cardinality(NoLater(s, i))
    BY DEF PlaceOf
  <2>3. \E i \in DOMAIN s : Cardinality(NoLater(s, i)) = k
    BY <1>1, <2>1, <2>2
  <2>4. at[k] \in DOMAIN s /\ Cardinality(NoLater(s, at[k])) = k
    BY <1>1, <2>3
  <2> QED BY <1>1, <2>2, <2>4
<1> HIDE DEF at, P, n
<1>4. ASSUME NEW i \in 1..n PROVE P[i] \in 1..n /\ at[P[i]] = i
  <2>1. P[i] \in 1..n
    BY SortPlaces DEF Bijection, Injection, P, n
  <2>2. P[at[P[i]]] = P[i] /\ at[P[i]] \in 1..n
    BY <1>3, <2>1
  <2>3. \A a, b \in 1..n : P[a] = P[b] => a = b
    BY SortPlaces DEF Bijection, Injection, IsInjective, P, n
  <2> QED BY <2>1, <2>2, <2>3
<1>5. Sorted(s) \in Seq(Nat) /\ Len(Sorted(s)) = n /\ DOMAIN Sorted(s) = 1..n
  <2> DEFINE t == [k \in 1..n |-> s[at[k]]]
  <2>1. \A k \in 1..n : t[k] \in Nat
    BY <1>1, <1>3
  <2>2. t \in [1..n -> Nat]
    BY <2>1
  <2>3. t \in Seq(Nat) /\ Len(t) = n
    BY <1>1, <2>2
  <2>4. Sorted(s) = t
    BY <1>1, <1>2
  <2> HIDE DEF t
  <2> QED BY <1>1, <2>2, <2>3, <2>4
<1>6. ASSUME NEW k \in 1..n, NEW l \in 1..n, k <= l PROVE Sorted(s)[k] <= Sorted(s)[l]
  <2>1. P[at[k]] <= P[at[l]] /\ at[k] \in 1..n /\ at[l] \in 1..n
    BY <1>3, <1>6
  <2>2. \A i, j \in 1..n : P[i] <= P[j] => s[i] <= s[j]
    BY SortPlaces DEF P, n
  <2>3. s[at[k]] <= s[at[l]]
    BY <1>3, <2>1, <2>2
  <2> QED BY <1>1, <1>2, <2>3
<1>7. ASSUME NEW v PROVE Has(Sorted(s), v) <=> Has(s, v)
  <2>1. ASSUME NEW k \in 1..n, Sorted(s)[k] = v PROVE Has(s, v)
    BY <1>1, <1>2, <1>3, <2>1 DEF Has
  <2>2. ASSUME NEW i \in 1..n, s[i] = v PROVE Has(Sorted(s), v)
    <3>1. P[i] \in DOMAIN Sorted(s) /\ at[P[i]] = i
      BY <1>4, <1>5
    <3>2. Sorted(s)[P[i]] = v
      BY <1>1, <1>2, <1>5, <2>2, <3>1
    <3> QED BY <3>1, <3>2 DEF Has
  <2> QED BY <1>1, <1>5, <2>1, <2>2 DEF Has
<1> QED BY <1>5, <1>6, <1>7 DEF n

----------------------------------------------------------------------------
\* The first and the last of the sorted samples, which the percentiles are.
LEMMA LatenciesAre ==
  ASSUME NEW s \in Seq(Nat), NEW m, Has(s, m)
  PROVE  /\ (\A v : Has(s, v) => v <= m) => Latencies(s).max = m
         /\ (\A v : Has(s, v) => m <= v) => Latencies(s).skewFloor = m
<1> DEFINE t == Sorted(s)
           n == Len(s)
<1>1. /\ t \in Seq(Nat) /\ Len(t) = n /\ DOMAIN t = 1..n /\ n \in Nat
      /\ \A k, l \in 1..n : k <= l => t[k] <= t[l]
      /\ \A v : Has(t, v) <=> Has(s, v)
  BY SortedIs
<1>2. Latencies(s).max = Percentile(t, 100) /\ Latencies(s).skewFloor = IF t = <<>> THEN 0 ELSE t[1]
  BY DEF Latencies
<1> HIDE DEF t, n
<1>3. PICK i \in 1..n : t[i] = m
  BY <1>1 DEF Has
<1>4. n \in Nat \ {0} /\ t # <<>>
  <2>1. n >= 1
    BY <1>1, <1>3
  <2> QED BY <1>1, <2>1
<1>5. Percentile(t, 100) = t[n]
  <2>1. n - 1 \in Nat /\ Len(t) = n
    BY <1>1, <1>4
  <2>2. 100 * (n - 1) + 0 = (n - 1) * 100 /\ 0 \in 0..(100 - 1)
    BY <2>1
  <2>3. (100 * (n - 1) + 0) \div 100 = n - 1
    BY <2>1, <2>2, Modulo
  <2>4. ((Len(t) - 1) * 100) \div 100 + 1 = n
    BY <2>1, <2>2, <2>3
  <2> QED BY <1>4, <2>4 DEF Percentile
<1>6. t[1] <= m /\ m <= t[n] /\ t[1] \in Nat /\ t[n] \in Nat /\ m \in Nat
  BY <1>1, <1>3, <1>4
<1>7. Has(s, t[1]) /\ Has(s, t[n])
  <2>1. 1 \in DOMAIN t /\ n \in DOMAIN t
    BY <1>1, <1>4
  <2>2. Has(t, t[1]) /\ Has(t, t[n])
    BY <2>1 DEF Has
  <2> QED BY <1>1, <2>2
<1>8. ASSUME \A v : Has(s, v) => v <= m PROVE Latencies(s).max = m
  BY <1>2, <1>5, <1>6, <1>7, <1>8
<1>9. ASSUME \A v : Has(s, v) => m <= v PROVE Latencies(s).skewFloor = m
  BY <1>2, <1>4, <1>6, <1>7, <1>9
<1> QED BY <1>8, <1>9

LEMMA DivisionBound ==
  ASSUME NEW r \in Nat \ {0}, NEW m \in Nat, NEW k \in 0..(r - 1), NEW n \in Nat, n <= r * m + k
  PROVE  n \div r \in 0..m
<1> DEFINE q == n \div r
<1>1. q \in Nat /\ n = r * q + (n % r) /\ n % r \in Nat
  BY Division
<1> HIDE DEF q
<1>2. ~ (m < q)
  <2> SUFFICES ASSUME m < q PROVE FALSE
    OBVIOUS
  <2>1. r * m + r <= r * q /\ r * m \in Nat /\ r * q \in Nat
    BY <1>1, Times
  <2> QED BY <1>1, <2>1
<1> QED BY <1>1, <1>2 DEF q

\* A sample of sorted samples is one of them, and has their first and last.
LEMMA DownsampleIs ==
  ASSUME NEW t \in Seq(Nat), NEW cap \in Nat \ {0, 1}
  PROVE  /\ DownsampleSorted(t, cap) \in Seq(Nat)
         /\ \A v : Has(DownsampleSorted(t, cap), v) => Has(t, v)
         /\ t # <<>> => Has(DownsampleSorted(t, cap), t[1]) /\ Has(DownsampleSorted(t, cap), t[Len(t)])
<1> DEFINE n == Len(t)
           b == cap - 1
           at == [i \in 1..cap |-> Round((i - 1) * (n - 1), b) + 1]
           d == [i \in 1..cap |-> t[at[i]]]
<1>1. n \in Nat /\ DOMAIN t = 1..n /\ \A i \in 1..n : t[i] \in Nat
  OBVIOUS
<1>2. t # <<>> => n >= 1
  BY EmptySeq, <1>1
<1>3. CASE n <= cap
  <2>1. DownsampleSorted(t, cap) = t
    BY <1>3 DEF DownsampleSorted
  <2> QED BY <1>1, <1>2, <2>1 DEF Has
<1>4. CASE ~ (n <= cap)
  <2>1. DownsampleSorted(t, cap) = d
    BY <1>4 DEF DownsampleSorted
  <2>2. b \in Nat \ {0} /\ n - 1 \in Nat /\ n >= 1
    BY <1>1, <1>4
  <2>3. \A a \in Nat : Round(a, b) = (2 * a + b) \div (2 * b)
    BY DEF Round
  <2> HIDE DEF b
  <2>4. ASSUME NEW j \in 0..b PROVE Round(j * (n - 1), b) \in 0..(n - 1)
    <3>1. j \in Nat /\ b * (n - 1) \in Nat /\ j * (n - 1) \in Nat
      BY <2>2
    <3>2. j * (n - 1) <= b * (n - 1)
      <4>1. (b - j) * (n - 1) \in Nat
        <5>1. b - j \in Nat
          BY <2>2
        <5> QED BY <2>2, <5>1
      <4>2. (b - j) * (n - 1) = b * (n - 1) - j * (n - 1)
        BY <2>2, <3>1
      <4> QED BY <3>1, <4>1, <4>2
    <3>3. (2 * b) * (n - 1) = 2 * (b * (n - 1))
      BY <2>2
    <3>4. 2 * (j * (n - 1)) + b <= (2 * b) * (n - 1) + b
      BY <2>2, <3>1, <3>2, <3>3
    <3>5. 2 * (j * (n - 1)) + b \in Nat /\ 2 * b \in Nat \ {0} /\ b \in 0..(2 * b - 1)
      BY <2>2, <3>1
    <3>6. (2 * (j * (n - 1)) + b) \div (2 * b) \in 0..(n - 1)
      BY <2>2, <3>4, <3>5, DivisionBound
    <3> QED BY <2>3, <3>1, <3>6
  <2>5. ASSUME NEW i \in 1..cap PROVE at[i] \in 1..n
    <3>1. i - 1 \in 0..b
      BY DEF b
    <3>2. Round((i - 1) * (n - 1), b) \in 0..(n - 1)
      BY <2>4, <3>1
    <3> QED BY <1>1, <2>2, <3>2
  <2>6. at[1] = 1
    <3>1. 2 * 0 + b = (2 * b) * 0 + b /\ b \in 0..(2 * b - 1) /\ 2 * b \in Nat \ {0}
      BY <2>2
    <3>2. (2 * 0 + b) \div (2 * b) = 0
      BY <3>1, Modulo
    <3>3. Round(0, b) = 0
      BY <2>3, <3>2
    <3>4. (1 - 1) * (n - 1) = 0
      BY <2>2
    <3> QED BY <3>3, <3>4
  <2>7. at[cap] = n
    <3>1. b * (n - 1) \in Nat /\ 2 * (b * (n - 1)) = (2 * b) * (n - 1)
      BY <2>2
    <3>2. b \in 0..(2 * b - 1) /\ 2 * b \in Nat \ {0}
      BY <2>2
    <3>3. ((2 * b) * (n - 1) + b) \div (2 * b) = n - 1
      BY <2>2, <3>2, Modulo
    <3>4. Round(b * (n - 1), b) = n - 1
      BY <2>3, <3>1, <3>3
    <3> QED BY <1>1, <3>4 DEF b
  <2> HIDE DEF at
  <2>8. d \in [1..cap -> Nat] /\ DOMAIN d = 1..cap
    BY <1>1, <2>5
  <2>9. d \in Seq(Nat)
    BY <2>8
  <2>10. ASSUME NEW v, Has(d, v) PROVE Has(t, v)
    BY <1>1, <2>5, <2>8, <2>10 DEF Has
  <2>11. Has(d, t[1]) /\ Has(d, t[n])
    <3>1. d[1] = t[1] /\ d[cap] = t[n] /\ 1 \in 1..cap /\ cap \in 1..cap
      BY <2>6, <2>7
    <3> QED BY <2>8, <3>1 DEF Has
  <2> QED BY <2>1, <2>9, <2>10, <2>11
<1> QED BY <1>3, <1>4

----------------------------------------------------------------------------
(* The samples of several. *)

LEMMA HasConcat ==
  ASSUME NEW s \in Seq(Nat), NEW t \in Seq(Nat), NEW v
  PROVE  Has(s \o t, v) <=> Has(s, v) \/ Has(t, v)
<1> DEFINE u == s \o t
<1>1. /\ u \in Seq(Nat) /\ Len(u) = Len(s) + Len(t)
      /\ \A i \in 1..Len(s) + Len(t) : u[i] = IF i <= Len(s) THEN s[i] ELSE t[i - Len(s)]
  BY ConcatProperties
<1> HIDE DEF u
<1>2. /\ DOMAIN s = 1..Len(s) /\ DOMAIN t = 1..Len(t) /\ DOMAIN u = 1..Len(s) + Len(t)
      /\ Len(s) \in Nat /\ Len(t) \in Nat
  BY <1>1
<1>3. ASSUME Has(u, v) PROVE Has(s, v) \/ Has(t, v)
  <2>1. PICK i \in 1..Len(s) + Len(t) : u[i] = v
    BY <1>2, <1>3 DEF Has
  <2>2. CASE i <= Len(s)
    <3>1. i \in 1..Len(s) /\ s[i] = v
      BY <1>1, <1>2, <2>1, <2>2
    <3> QED BY <1>2, <3>1 DEF Has
  <2>3. CASE ~ (i <= Len(s))
    <3>1. i - Len(s) \in 1..Len(t) /\ t[i - Len(s)] = v
      BY <1>1, <1>2, <2>1, <2>3
    <3> QED BY <1>2, <3>1 DEF Has
  <2> QED BY <2>2, <2>3
<1>4. ASSUME Has(s, v) PROVE Has(u, v)
  BY <1>1, <1>2, <1>4 DEF Has
<1>5. ASSUME Has(t, v) PROVE Has(u, v)
  <2>1. PICK i \in 1..Len(t) : t[i] = v
    BY <1>2, <1>5 DEF Has
  <2> DEFINE k == i + Len(s)
  <2>2. k \in 1..Len(s) + Len(t) /\ ~ (k <= Len(s)) /\ k - Len(s) = i
    BY <1>2
  <2> HIDE DEF k
  <2>3. u[k] = v
    BY <1>1, <2>1, <2>2
  <2> QED BY <1>2, <2>2, <2>3 DEF Has
<1> QED BY <1>3, <1>4, <1>5 DEF u

\* The element taken first.
First(T) == CHOOSE x \in T : TRUE

\* g joins the samples of every subset of D.
Joins(g, f, D) ==
  g = [T \in SUBSET D |-> IF T = {} THEN <<>> ELSE g[T \ {First(T)}] \o f[First(T)]]

\* The samples of all but the first element, and then its own.
Grown(g, f, T) == g[T \ {First(T)}] \o f[First(T)]

LEMMA JoinsStep ==
  ASSUME NEW g, NEW f, NEW D, Joins(g, f, D), NEW T \in SUBSET D, T # {}
  PROVE  First(T) \in T /\ T \ {First(T)} \in SUBSET D /\ g[T] = Grown(g, f, T)
<1>1. First(T) \in T
  BY DEF First
<1> QED BY <1>1 DEF Joins, Grown

LEMMA JoinsNone ==
  ASSUME NEW g, NEW f, NEW D, Joins(g, f, D)
  PROVE  g[{}] = <<>>
BY DEF Joins

\* A smaller set without its first element.
LEMMA OneLess ==
  ASSUME NEW T, IsFiniteSet(T), T # {}
  PROVE  /\ IsFiniteSet(T \ {First(T)}) /\ Cardinality(T) \in Nat
         /\ Cardinality(T \ {First(T)}) = Cardinality(T) - 1
         /\ Cardinality(T \ {First(T)}) \in Nat
<1>1. First(T) \in T
  BY DEF First
<1>2. IsFiniteSet(T \ {First(T)}) /\ Cardinality(T \ {First(T)}) = Cardinality(T) - 1
  BY <1>1, FS_RemoveElement
<1> QED BY <1>2, FS_CardinalityType

LEMMA JoinsUnique ==
  ASSUME NEW f, NEW D, NEW E, IsFiniteSet(D), NEW g, NEW h, Joins(g, f, D), Joins(h, f, E),
         NEW X \in SUBSET D, X \in SUBSET E
  PROVE  g[X] = h[X]
<1> DEFINE bad == {n \in Nat : \E T \in SUBSET D :
                                Cardinality(T) = n /\ T \in SUBSET E /\ g[T] # h[T]}
<1>1. bad = {}
  <2> SUFFICES ASSUME bad # {} PROVE FALSE
    OBVIOUS
  <2>1. PICK n \in bad : \A m \in bad : n <= m
    BY SmallestOf
  <2>2. PICK T \in SUBSET D : Cardinality(T) = n /\ T \in SUBSET E /\ g[T] # h[T]
    OBVIOUS
  <2>3. T # {}
    BY <2>2, JoinsNone
  <2>4. IsFiniteSet(T)
    BY FS_Subset
  <2> DEFINE U == T \ {First(T)}
  <2>5. Cardinality(U) = n - 1 /\ n \in Nat /\ Cardinality(U) \in Nat
    BY <2>2, <2>3, <2>4, OneLess
  <2>6. U \in SUBSET D /\ U \in SUBSET E
    BY <2>2
  <2>7. g[U] = h[U]
    <3>1. n - 1 \notin bad
      <4> HIDE DEF bad
      <4> QED BY <2>1, <2>5
    <3> HIDE DEF U
    <3> QED BY <2>5, <2>6, <3>1
  <2>8. g[T] = Grown(g, f, T)
    BY <2>3, JoinsStep
  <2>9. h[T] = Grown(h, f, T)
    BY <2>2, <2>3, JoinsStep
  <2>10. Grown(g, f, T) = Grown(h, f, T)
    BY Zenon, <2>7 DEF Grown
  <2> QED BY <2>2, <2>8, <2>9, <2>10
<1>2. Cardinality(X) \in Nat
  BY FS_Subset, FS_CardinalityType
<1> QED BY <1>1, <1>2

LEMMA JoinsExists ==
  ASSUME NEW f, NEW S, IsFiniteSet(S)
  PROVE  \E g : Joins(g, f, S)
<1> DEFINE own(T) == CHOOSE g : Joins(g, f, T)
           bad == {n \in Nat : \E T \in SUBSET S : Cardinality(T) = n /\ ~ \E g : Joins(g, f, T)}
<1>1. bad = {}
  <2> SUFFICES ASSUME bad # {} PROVE FALSE
    OBVIOUS
  <2>1. PICK n \in bad : \A m \in bad : n <= m
    BY SmallestOf
  <2>2. PICK D \in SUBSET S : Cardinality(D) = n /\ ~ \E g : Joins(g, f, D)
    OBVIOUS
  <2>3. IsFiniteSet(D)
    BY FS_Subset
  <2>4. ASSUME NEW T \in SUBSET D, T # D PROVE Joins(own(T), f, T)
    <3>1. Cardinality(T) \in Nat /\ Cardinality(T) < n
      <4>1. Cardinality(T) <= Cardinality(D) /\ (Cardinality(T) = Cardinality(D) => T = D)
        BY <2>3, FS_Subset
      <4>2. Cardinality(T) \in Nat
        BY <2>3, FS_Subset, FS_CardinalityType
      <4> QED BY <2>2, <2>4, <4>1, <4>2
    <3>2. Cardinality(T) \notin bad
      BY <2>1, <3>1
    <3>3. \E g : Joins(g, f, T)
      BY <3>1, <3>2
    <3> QED BY <3>3
  <2> HIDE DEF own, bad
  <2> DEFINE G == [T \in SUBSET D |-> IF T = {} THEN <<>>
                                      ELSE own(T \ {First(T)})[T \ {First(T)}] \o f[First(T)]]
  <2>5. ASSUME NEW T \in SUBSET D, T # D PROVE G[T] = own(T)[T]
    <3>1. CASE T = {}
      BY <2>4, <2>5, <3>1, JoinsNone
    <3>2. CASE T # {}
      <4> DEFINE U == T \ {First(T)}
      <4>1. First(T) \in T
        BY <3>2 DEF First
      <4>2. Joins(own(T), f, T) /\ Joins(own(U), f, U)
        BY <2>4, <2>5, <4>1
      <4>3. own(T)[T] = Grown(own(T), f, T)
        BY <3>2, <4>2, JoinsStep
      <4>4. own(T)[U] = own(U)[U]
        <5>1. IsFiniteSet(T) /\ U \in SUBSET T /\ U \in SUBSET U
          BY FS_Subset
        <5> HIDE DEF U
        <5> QED BY <4>2, <5>1, JoinsUnique
      <4>5. Grown(own(T), f, T) = own(U)[U] \o f[First(T)]
        BY Zenon, <4>4 DEF Grown
      <4>6. G[T] = own(U)[U] \o f[First(T)]
        BY <3>2
      <4> QED BY Zenon, <4>3, <4>5, <4>6
    <3> QED BY <3>1, <3>2
  <2>6. ASSUME NEW T \in SUBSET D, T # {} PROVE G[T \ {First(T)}] = own(T \ {First(T)})[T \ {First(T)}]
    <3>1. T \ {First(T)} \in SUBSET D /\ T \ {First(T)} # D
      BY <2>6 DEF First
    <3> QED BY <2>5, <3>1
  <2>7. G = [T \in SUBSET D |-> IF T = {} THEN <<>> ELSE G[T \ {First(T)}] \o f[First(T)]]
    BY <2>6
  <2>8. Joins(G, f, D)
    BY <2>7 DEF Joins
  <2> QED BY <2>2, <2>8
<1>2. Cardinality(S) \in Nat
  BY FS_CardinalityType
<1> QED BY <1>1, <1>2

\* The samples of all are those of each.
LEMMA JoinedIs ==
  ASSUME NEW S, IsFiniteSet(S), NEW f, \A x \in S : f[x] \in Seq(Nat)
  PROVE  /\ Joined(f, S) \in Seq(Nat)
         /\ \A v : Has(Joined(f, S), v) <=> \E x \in S : Has(f[x], v)
<1> DEFINE iter == CHOOSE g : Joins(g, f, S)
<1>1. Joins(iter, f, S)
  BY JoinsExists
<1>2. Joined(f, S) = iter[S]
  BY Zenon DEF Joined, FoldSet, MapThenFoldSet, Joins, First
<1> HIDE DEF iter
<1> DEFINE Good(T) == /\ iter[T] \in Seq(Nat)
                      /\ \A v : Has(iter[T], v) <=> \E x \in T : Has(f[x], v)
           bad == {n \in Nat : \E T \in SUBSET S : Cardinality(T) = n /\ ~ Good(T)}
<1>3. bad = {}
  <2> SUFFICES ASSUME bad # {} PROVE FALSE
    OBVIOUS
  <2>1. PICK n \in bad : \A m \in bad : n <= m
    BY SmallestOf
  <2>2. PICK T \in SUBSET S : Cardinality(T) = n /\ ~ Good(T)
    OBVIOUS
  <2>3. T # {}
    <3>1. iter[{}] = <<>>
      BY <1>1, JoinsNone
    <3>2. Good({})
      BY <3>1 DEF Has
    <3> QED BY <2>2, <3>2
  <2>4. IsFiniteSet(T)
    BY FS_Subset
  <2> DEFINE x == First(T)
             U == T \ {x}
  <2>5. Cardinality(U) = n - 1 /\ n \in Nat /\ Cardinality(U) \in Nat
    BY <2>2, <2>3, <2>4, OneLess
  <2>6. x \in T /\ U \in SUBSET S /\ iter[T] = iter[U] \o f[x]
    <3>1. T \in SUBSET S
      BY <2>2
    <3>2. First(T) \in T /\ T \ {First(T)} \in SUBSET S /\ iter[T] = Grown(iter, f, T)
      BY <1>1, <2>3, <3>1, JoinsStep
    <3> QED BY Zenon, <3>2 DEF Grown
  <2>7. Good(U)
    <3>1. n - 1 \notin bad
      <4> HIDE DEF bad
      <4> QED BY <2>1, <2>5
    <3> HIDE DEF Good, U
    <3> QED BY <2>5, <2>6, <3>1
  <2>8. f[x] \in Seq(Nat) /\ iter[U] \in Seq(Nat)
    BY <2>6, <2>7
  <2>9. T = U \cup {x}
    BY <2>6
  <2> HIDE DEF x, U, bad
  <2>10. iter[T] \in Seq(Nat)
    BY <2>6, <2>8, ConcatProperties
  <2>11. \A v : Has(iter[T], v) <=> Has(iter[U], v) \/ Has(f[x], v)
    BY <2>6, <2>8, HasConcat
  <2>12. \A v : Has(iter[T], v) <=> \E y \in T : Has(f[y], v)
    BY <2>7, <2>9, <2>11
  <2> QED BY <2>2, <2>10, <2>12
<1>4. Cardinality(S) \in Nat
  BY FS_CardinalityType
<1>5. Good(S)
  BY <1>3, <1>4
<1> QED BY <1>2, <1>5

----------------------------------------------------------------------------
(* Reports. *)

\* What a report takes from the summaries.
LEMMA SummaryIs ==
  ASSUME NEW st, NEW total, NEW cap \in Nat
  PROVE  LET s == Summarize(st, total, cap)
             C == DOMAIN st
         IN /\ s.clients = Cardinality(C)
            /\ s.receivedDeliveries = Total([c \in C |-> ReceivedBy(st[c])], C)
            /\ s.lostDeliveries = Total([c \in C |-> LostBy(st[c])], C)
            /\ "latencySamplesSorted" \in DOMAIN s =>
                 /\ cap > 0
                 /\ s.latencySamplesSorted =
                      DownsampleSorted(Sorted(Joined([c \in C |-> st[c].latencies], C)), cap)
<1> DEFINE C == DOMAIN st
           fields == Summary(st, total)
           sent == DownsampleSorted(Sorted(Joined([c \in C |-> st[c].latencies], C)), cap)
           sum == Summarize(st, total, cap)
<1>1. /\ fields.clients = Cardinality(C)
      /\ fields.receivedDeliveries = Total([c \in C |-> ReceivedBy(st[c])], C)
      /\ fields.lostDeliveries = Total([c \in C |-> LostBy(st[c])], C)
  BY Zenon DEF Summary
<1>2. DOMAIN fields = {"clients", "connectedClients", "publishedMessages", "expectedDeliveries",
                       "receivedDeliveries", "lostDeliveries", "connectFailures", "csrResumes",
                       "deliveryRate", "deliveryRateOfConnected", "latencyRawMs", "latencySamples"}
  BY DEF Summary
<1>3. sum = IF cap > 0 THEN WithSamples(fields, sent) ELSE fields
  BY DEF Summarize
<1> HIDE DEF fields, sent, sum, C
<1>4. CASE cap > 0
  <2>1. sum = [field \in DOMAIN fields \cup {"latencySamplesSorted"} |->
                 IF field = "latencySamplesSorted" THEN sent ELSE fields[field]]
    BY <1>3, <1>4 DEF WithSamples
  <2>2. /\ sum.clients = fields.clients /\ sum.receivedDeliveries = fields.receivedDeliveries
        /\ sum.lostDeliveries = fields.lostDeliveries /\ sum.latencySamplesSorted = sent
    BY <1>2, <2>1
  <2> QED BY <1>1, <1>4, <2>2 DEF C, sent, sum
<1>5. CASE ~ (cap > 0)
  <2>1. "latencySamplesSorted" \notin DOMAIN fields
    BY <1>2
  <2> QED BY <1>1, <1>3, <1>5, <2>1 DEF C, sum
<1> QED BY <1>4, <1>5

LEMMA MergeIs ==
  ASSUME NEW shards
  PROVE  LET S == DOMAIN shards
         IN /\ Merge(shards).clients = Total([s \in S |-> shards[s].clients], S)
            /\ Merge(shards).receivedDeliveries = Total([s \in S |-> shards[s].receivedDeliveries], S)
            /\ Merge(shards).lostDeliveries = Total([s \in S |-> shards[s].lostDeliveries], S)
            /\ Merge(shards).latencyRawMs
                 = Latencies(Joined([s \in S |-> shards[s].latencySamplesSorted], S))
BY Zenon DEF Merge

\* A sum of natural numbers that is zero is one of zeros.
LEMMA TotalOfNone ==
  ASSUME NEW S, IsFiniteSet(S), NEW f, \A x \in S : f[x] \in Nat, Total(f, S) = 0, NEW x \in S
  PROVE  f[x] = 0
<1>1. Total(f, S) = f[x] + Total(f, S \ {x})
  BY TotalSplits
<1>2. IsFiniteSet(S \ {x}) /\ \A y \in S \ {x} : f[y] \in Nat
  BY FS_Subset
<1>3. Total(f, S \ {x}) \in Nat
  BY <1>2, TotalIsPairs
<1> QED BY <1>1, <1>3

\* What a shard sends stands for its samples: none is invented, and none is
\* outside of those sent.
LEMMA SentSamples ==
  ASSUME NEW s \in Seq(Nat), NEW cap \in Nat \ {0, 1}
  PROVE  LET d == DownsampleSorted(Sorted(s), cap)
         IN /\ d \in Seq(Nat)
            /\ \A v : Has(d, v) => Has(s, v)
            /\ \A v : Has(s, v) =>
                 \E low, high \in Nat : Has(d, low) /\ Has(d, high) /\ low <= v /\ v <= high
<1> DEFINE t == Sorted(s)
           n == Len(s)
           d == DownsampleSorted(t, cap)
<1>1. /\ t \in Seq(Nat) /\ Len(t) = n /\ DOMAIN t = 1..n /\ n \in Nat
      /\ \A k, l \in 1..n : k <= l => t[k] <= t[l]
      /\ \A v : Has(t, v) <=> Has(s, v)
  BY SortedIs
<1> HIDE DEF t, n
<1>2. /\ d \in Seq(Nat) /\ \A v : Has(d, v) => Has(t, v)
      /\ t # <<>> => Has(d, t[1]) /\ Has(d, t[n])
  BY <1>1, DownsampleIs
<1> HIDE DEF d
<1>3. ASSUME NEW v, Has(s, v)
      PROVE  \E low, high \in Nat : Has(d, low) /\ Has(d, high) /\ low <= v /\ v <= high
  <2>1. PICK i \in 1..n : t[i] = v
    BY <1>1, <1>3 DEF Has
  <2>2. 1 \in 1..n /\ n \in 1..n /\ 1 <= i /\ i <= n
    BY <1>1
  <2>3. t # <<>>
    BY <1>1, <2>2
  <2>4. t[1] \in Nat /\ t[n] \in Nat /\ t[1] <= v /\ v <= t[n]
    BY <1>1, <2>1, <2>2
  <2> QED BY <1>2, <2>3, <2>4
<1> QED BY <1>1, <1>2, <1>3 DEF d, t

=============================================================================
