--------------------------------- MODULE Lemmas ---------------------------------
(***************************************************************************)
(* Facts about sets of natural numbers that the proofs of several          *)
(* components need: the least and the greatest number of a set, induction, *)
(* and the numbering of a set in its order.                                *)
(***************************************************************************)
EXTENDS Integers, FiniteSets, FiniteSetTheorems, WellFoundedInduction, TLAPS

\* A set of natural numbers that is not empty has a least one.
LEMMA Least ==
  ASSUME NEW T \in SUBSET Nat, T # {}
  PROVE  \E x \in T : \A y \in T : x <= y
<1> DEFINE Below == {p \in Nat \X Nat : p[1] < p[2]}
<1>1. Below = OpToRel(<, Nat)
  BY Zenon DEF OpToRel
<1>2. IsWellFoundedOn(Below, Nat)
  BY <1>1, NatLessThanWellFounded, Zenon
<1> HIDE DEF Below
<1>3. PICK x \in T : \A y \in T : <<y, x>> \notin Below
  BY <1>2, WFMin
<1>4. ASSUME NEW y \in T
      PROVE  x <= y
  <2>1. <<y, x>> \in Nat \X Nat /\ <<y, x>>[1] = y /\ <<y, x>>[2] = x
    OBVIOUS
  <2>2. ~(y < x)
    BY <1>3, <2>1 DEF Below
  <2> QED
    BY <2>2
<1> QED
  BY <1>4

\* What holds of 0, and of n + 1 when it does of n, holds of every number.
LEMMA Induction ==
  ASSUME NEW T \in SUBSET Nat, 0 \in T, \A n \in T : n + 1 \in T
  PROVE  T = Nat
<1> SUFFICES ASSUME Nat \ T # {}
             PROVE  FALSE
  OBVIOUS
<1>1. PICK m \in Nat \ T : \A n \in Nat \ T : m <= n
  BY Least
<1>2. m - 1 \in Nat /\ m - 1 \notin Nat \ T
  BY <1>1
<1>3. (m - 1) + 1 \in T
  BY <1>2
<1> QED
  BY <1>1, <1>3

\* A set of natural numbers up to N that is not empty has a greatest one.
LEMMA Greatest ==
  ASSUME NEW N \in Nat, NEW T \in SUBSET (0..N), T # {}
  PROVE  \E x \in T : \A y \in T : x >= y
<1> DEFINE U == {N - x : x \in T}
<1>1. U \in SUBSET Nat /\ U # {}
  <2>1. PICK x : x \in T
    OBVIOUS
  <2>2. N - x \in U
    BY <2>1
  <2>3. \A y \in T : N - y \in Nat
    OBVIOUS
  <2> QED
    BY <2>2, <2>3
<1>2. PICK u \in U : \A v \in U : u <= v
  BY <1>1, Least
<1>3. PICK x \in T : u = N - x
  OBVIOUS
<1>4. ASSUME NEW y \in T
      PROVE  x >= y
  <2>1. N - y \in U
    OBVIOUS
  <2>2. N - x <= N - y
    BY <1>2, <1>3, <2>1
  <2> QED
    BY <2>2
<1> QED
  BY <1>4

-----------------------------------------------------------------------------
\* The place of i in the order of F, and the member of F at place k.
Rank(F, i) == Cardinality({j \in F : j <= i})
Ranked(F, k) == CHOOSE i \in F : Rank(F, i) = k

\* A greater number comes behind those there are, and leaves them their places.
LEMMA OneRanked ==
  ASSUME NEW N \in Nat, NEW F \in SUBSET (1..N), NEW n \in Nat, n > N
  PROVE  /\ IsFiniteSet(F) /\ Cardinality(F) \in Nat
         /\ Cardinality(F \cup {n}) = Cardinality(F) + 1
         /\ \A k \in 1..Cardinality(F) : Ranked(F \cup {n}, k) = Ranked(F, k)
         /\ Ranked(F \cup {n}, Cardinality(F) + 1) = n
<1> DEFINE G == F \cup {n}
<1>1. IsFiniteSet(F) /\ n \notin F
  <2>1. IsFiniteSet(1..N)
    BY FS_Interval
  <2>2. IsFiniteSet(F)
    BY <2>1, FS_Subset
  <2> QED
    BY <2>2
<1>2. Cardinality(F) \in Nat /\ IsFiniteSet(G) /\ Cardinality(G) = Cardinality(F) + 1
  BY <1>1, FS_CardinalityType, FS_AddElement
<1>3. /\ \A i \in F : Rank(G, i) = Rank(F, i)
      /\ Rank(G, n) = Cardinality(F) + 1
  <2>1. \A i \in F : {j \in G : j <= i} = {j \in F : j <= i}
    BY SMT
  <2>2. \A j \in G : j <= n
    OBVIOUS
  <2>3. {j \in G : j <= n} = G
    BY <2>2
  <2> QED
    BY <1>2, <2>1, <2>3 DEF Rank
<1>4. ASSUME NEW i \in F
      PROVE  Rank(F, i) \in Nat /\ Rank(F, i) <= Cardinality(F)
  <2>1. {j \in F : j <= i} \in SUBSET F
    OBVIOUS
  <2>2. IsFiniteSet({j \in F : j <= i})
    BY <1>1, <2>1, FS_Subset
  <2> QED
    BY <1>1, <2>1, <2>2, FS_Subset, FS_CardinalityType DEF Rank
<1>5. ASSUME NEW k \in 1..Cardinality(F)
      PROVE  Ranked(G, k) = Ranked(F, k)
  <2>1. ASSUME NEW i
        PROVE  (i \in G /\ Rank(G, i) = k) <=> (i \in F /\ Rank(F, i) = k)
    <3>1. k # Cardinality(F) + 1
      BY <1>2
    <3> QED
      BY <1>3, <3>1
  <2>2. (CHOOSE i : i \in G /\ Rank(G, i) = k) = (CHOOSE i : i \in F /\ Rank(F, i) = k)
    BY <2>1
  <2> QED
    BY <2>2 DEF Ranked
<1>6. Ranked(G, Cardinality(F) + 1) = n
  <2>1. \A i \in G : Rank(G, i) = Cardinality(F) + 1 => i = n
    BY <1>2, <1>3, <1>4
  <2> QED
    BY <1>3, <2>1 DEF Ranked
<1> QED
  BY <1>1, <1>2, <1>5, <1>6

\* There is a member at every place.
LEMMA MemberRanked ==
  ASSUME NEW N \in Nat, NEW F \in SUBSET (1..N), NEW k \in 1..Cardinality(F)
  PROVE  Ranked(F, k) \in F
<1> DEFINE T == {n \in Nat : \A G \in SUBSET (1..n) : \A i \in 1..Cardinality(G) :
                                Ranked(G, i) \in G}
<1>1. 0 \in T
  <2>1. \A G \in SUBSET (1..0) : G = {}
    OBVIOUS
  <2> QED
    BY <2>1, FS_EmptySet
<1>2. ASSUME NEW n \in Nat,
             \A G \in SUBSET (1..n) : \A i \in 1..Cardinality(G) : Ranked(G, i) \in G,
             NEW G \in SUBSET (1..n + 1), NEW i \in 1..Cardinality(G)
      PROVE  Ranked(G, i) \in G
  <2>1. CASE n + 1 \notin G
    <3>1. n \in Nat /\ \A j \in 1..n + 1 : j # n + 1 => j \in 1..n
      OBVIOUS
    <3>2. G \in SUBSET (1..n)
      BY <2>1, <3>1
    <3> QED
      BY <1>2, <3>2
  <2>2. CASE n + 1 \in G
    <3>1. PICK H : H = G \ {n + 1}
      OBVIOUS
    <3>2. H \in SUBSET (1..n) /\ G = H \cup {n + 1} /\ n \in Nat
      BY <2>2, <3>1
    <3>3. /\ Cardinality(H) \in Nat /\ Cardinality(G) = Cardinality(H) + 1
          /\ \A j \in 1..Cardinality(H) : Ranked(G, j) = Ranked(H, j)
          /\ Ranked(G, Cardinality(H) + 1) = n + 1
      <4>1. PICK m \in Nat : m = n + 1 /\ m > n
        BY <3>2
      <4>2. G = H \cup {m}
        BY <3>2, <4>1
      <4>3. H \in SUBSET (1..n) /\ n \in Nat /\ m \in Nat /\ m > n
        BY <3>2, <4>1
      <4>4. /\ IsFiniteSet(H) /\ Cardinality(H) \in Nat
            /\ Cardinality(H \cup {m}) = Cardinality(H) + 1
            /\ \A j \in 1..Cardinality(H) : Ranked(H \cup {m}, j) = Ranked(H, j)
            /\ Ranked(H \cup {m}, Cardinality(H) + 1) = m
        BY ONLY <4>3, OneRanked, Zenon
      <4> QED
        BY <4>1, <4>2, <4>4
    <3>4. i \in 1..Cardinality(H) \/ i = Cardinality(H) + 1
      BY <3>3
    <3>5. \A j \in 1..Cardinality(H) : Ranked(H, j) \in H
      BY <1>2, <3>2
    <3> QED
      BY <3>2, <3>3, <3>4, <3>5
  <2> QED
    BY <2>1, <2>2
<1>3. \A n \in T : n + 1 \in T
  BY <1>2
<1> HIDE DEF T
<1>4. T = Nat
  <2>1. T \in SUBSET Nat
    BY DEF T
  <2> QED
    BY <1>1, <1>3, <2>1, Induction
<1> QED
  BY <1>4 DEF T

-----------------------------------------------------------------------------
\* What a function makes of a finite set is finite, and of the same size if it
\* tells the members apart.
LEMMA FiniteImage ==
  ASSUME NEW S, NEW T, IsFiniteSet(S), NEW f \in [S -> T], \A t \in T : \E s \in S : f[s] = t
  PROVE  /\ IsFiniteSet(T)
         /\ (\A s, u \in S : f[s] = f[u] => s = u) => Cardinality(T) = Cardinality(S)
<1>1. f \in Surjection(S, T)
  BY DEF Surjection
<1>2. IsFiniteSet(T)
  BY <1>1, FS_Surjection
<1>3. ASSUME \A s, u \in S : f[s] = f[u] => s = u
      PROVE  Cardinality(T) = Cardinality(S)
  <2>1. f \in Injection(S, T)
    BY <1>3 DEF Injection, IsInjective
  <2> QED
    BY <1>1, <2>1, FS_Surjection
<1> QED
  BY <1>2, <1>3
=============================================================================
