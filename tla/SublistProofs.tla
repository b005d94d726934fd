---------------------------- MODULE SublistProofs ----------------------------
(***************************************************************************)
(* What Sublist returns: exactly the elements at the given positions, each *)
(* once and in their order.  Natural numbers are well-founded, and this    *)
(* least-number principle takes the place of an induction along the list.  *)
(***************************************************************************)
EXTENDS Sublists, FiniteSetTheorems, WellFoundedInduction, TLAPS

\* Every set of natural numbers that has an element has a least one.
LEMMA LeastNumber ==
    ASSUME NEW S, S \subseteq Nat, S # {}
    PROVE  \E m \in S : \A k \in S : m <= k
<1> DEFINE R == {ss \in Nat \X Nat : ss[1] < ss[2]}
<1>1. IsWellFoundedOn(R, Nat)
  BY NatLessThanWellFounded DEF OpToRel
<1>2. PICK x \in S : \A y \in S : ~(<<y, x>> \in R)
  BY <1>1, WFMin
<1>3. ASSUME NEW y \in S, ~(x <= y) PROVE FALSE
  <2>1. y < x /\ <<y, x>> \in Nat \X Nat
    BY <1>3
  <2>2. <<y, x>> \in R
    BY <2>1
  <2> QED BY <1>2, <2>2
<1> QED BY <1>3

\* A set that has 0 and, with each number below n, the next one, has them all.
LEMMA Counting ==
    ASSUME NEW n \in Nat, NEW S, 0 \in S, \A k \in 1..n : k - 1 \in S => k \in S
    PROVE  \A k \in 0..n : k \in S
<1> DEFINE bad == {k \in 0..n : k \notin S}
<1>1. SUFFICES ASSUME bad # {} PROVE FALSE
  OBVIOUS
<1>2. PICK m \in bad : \A k \in bad : m <= k
  <2>1. bad \subseteq Nat
    OBVIOUS
  <2> HIDE DEF bad
  <2> QED BY <1>1, <2>1, LeastNumber
<1>3. m \in 1..n /\ m - 1 \in 0..n /\ m - 1 \notin bad
  BY <1>2
<1> QED BY <1>2, <1>3

\* A map takes a value at each number to the next one.
Stepping(V, step) == step \in [Nat -> [V -> V]]

\* A function up to n that begins with a value and takes each step.
Iterates(f, V, first, step, n) ==
    f \in [0..n -> V] /\ f[0] = first /\ \A i \in 1..n : f[i] = step[i][f[i - 1]]

\* A value that each number below n + 1 takes to the next is defined up to n.
LEMMA Recursion ==
    ASSUME NEW V, NEW first \in V, NEW step, Stepping(V, step), NEW n \in Nat
    PROVE  \E f : Iterates(f, V, first, step, n)
<1> USE DEF Stepping
<1> DEFINE Fits(f, k) == f[0] = first /\ \A i \in 1..k : f[i] = step[i][f[i - 1]]
           S == {k \in Nat : \E f \in [0..k -> V] : Fits(f, k)}
<1>1. 0 \in S
  <2> DEFINE g == [i \in 0..0 |-> first]
  <2>1. g \in [0..0 -> V] /\ Fits(g, 0)
    OBVIOUS
  <2> QED BY <2>1
<1>2. ASSUME NEW k \in 1..n, k - 1 \in S PROVE k \in S
  <2>1. k \in Nat /\ k - 1 \in Nat
    OBVIOUS
  <2>2. PICK f \in [0..(k - 1) -> V] : Fits(f, k - 1)
    BY <1>2
  <2>3. f[k - 1] \in V /\ step[k][f[k - 1]] \in V
    <3>1. f[k - 1] \in V
      BY <2>1, <2>2
    <3>2. step[k] \in [V -> V]
      BY <2>1
    <3> QED BY <3>1, <3>2
  <2> DEFINE g == [i \in 0..k |-> IF i = k THEN step[k][f[k - 1]] ELSE f[i]]
  <2>4. g \in [0..k -> V]
    <3>1. \A i \in 0..k : i # k => i \in 0..(k - 1)
      BY <2>1
    <3> QED BY <3>1, <2>2, <2>3
  <2>5. Fits(g, k)
    <3>1. g[0] = first
      BY <2>1, <2>2
    <3>2. ASSUME NEW i \in 1..k PROVE g[i] = step[i][g[i - 1]]
      <4>1. CASE i = k
        BY <4>1, <2>1
      <4>2. CASE i # k
        BY <4>2, <2>1, <2>2
      <4> QED BY <4>1, <4>2
    <3> QED BY <3>1, <3>2
  <2> QED BY <2>1, <2>4, <2>5
<1> HIDE DEF S
<1>3. n \in S
  <2>1. \A k \in 0..n : k \in S
    BY <1>1, <1>2, Counting
  <2> QED BY <2>1
<1>4. PICK f \in [0..n -> V] : Fits(f, n)
  BY <1>3 DEF S
<1> QED BY <1>4 DEF Iterates

\* A rank grows by one at each position that is kept, and stays at the others.
LEMMA RankSteps ==
    ASSUME NEW keep, keep \subseteq Nat, IsFiniteSet(keep), NEW i \in Nat
    PROVE  /\ Rank(keep, i) \in Nat
           /\ Rank(keep, i + 1) = IF i + 1 \in keep THEN Rank(keep, i) + 1 ELSE Rank(keep, i)
<1> DEFINE below == {j \in keep : j <= i}
<1>1. IsFiniteSet(below) /\ Cardinality(below) \in Nat
  BY FS_Subset, FS_CardinalityType
<1>2. {j \in keep : j <= i + 1} = IF i + 1 \in keep THEN below \union {i + 1} ELSE below
  <2>1. \A j \in Nat : j <= i + 1 <=> j <= i \/ j = i + 1
    OBVIOUS
  <2> QED BY <2>1
<1>3. i + 1 \notin below
  OBVIOUS
<1>4. Cardinality(below \union {i + 1}) = Cardinality(below) + 1
  BY <1>1, <1>3, FS_AddElement
<1> QED BY <1>1, <1>2, <1>4 DEF Rank

\* A position that is kept has a rank, between one and the number of positions.
LEMMA RankRange ==
    ASSUME NEW keep, keep \subseteq Nat \ {0}, IsFiniteSet(keep), NEW i \in keep
    PROVE  Rank(keep, i) \in 1..Cardinality(keep)
<1> DEFINE below == {j \in keep : j <= i}
<1>1. IsFiniteSet(below) /\ Cardinality(below) \in Nat /\ Cardinality(below) <= Cardinality(keep)
  BY FS_Subset, FS_CardinalityType
<1>2. Cardinality(keep) \in Nat
  BY FS_CardinalityType
<1>3. below # {}
  OBVIOUS
<1>4. Cardinality(below) # 0
  BY <1>1, <1>3, FS_EmptySet
<1> QED BY <1>1, <1>2, <1>4 DEF Rank

\* Ranks follow positions.
LEMMA RankGrows ==
    ASSUME NEW keep, keep \subseteq Nat \ {0}, IsFiniteSet(keep), NEW i \in keep, NEW j \in keep, i < j
    PROVE  Rank(keep, i) < Rank(keep, j)
<1> DEFINE B(x) == {y \in keep : y <= x}
<1>1. IsFiniteSet(B(i)) /\ IsFiniteSet(B(j)) /\ B(i) \subseteq B(j)
  <2>1. B(i) \in SUBSET keep /\ B(j) \in SUBSET keep
    OBVIOUS
  <2>2. \A x \in keep : x <= i => x <= j
    OBVIOUS
  <2> QED BY <2>1, <2>2, FS_Subset
<1>2. Cardinality(B(i)) \in Nat /\ Cardinality(B(j)) \in Nat /\ Cardinality(B(i)) <= Cardinality(B(j))
  BY <1>1, FS_Subset, FS_CardinalityType
<1>3. j \in B(j) /\ j \notin B(i)
  OBVIOUS
<1>4. Cardinality(B(i)) # Cardinality(B(j))
  BY <1>1, <1>3, FS_Subset
<1> QED BY <1>2, <1>4 DEF Rank
\* Some numbers up to n are finitely many.
LEMMA Finite ==
    ASSUME NEW n \in Nat, NEW keep \in SUBSET (1..n)
    PROVE  keep \subseteq Nat \ {0} /\ IsFiniteSet(keep) /\ Cardinality(keep) \in Nat
<1>1. IsFiniteSet(1..n)
  BY FS_Interval
<1>2. IsFiniteSet(keep) /\ Cardinality(keep) \in Nat
  BY <1>1, FS_Subset, FS_CardinalityType
<1> QED BY <1>2

\* The place of rank k is a position that is kept, and it has that rank.
LEMMA PlaceHasRank ==
    ASSUME NEW n \in Nat, NEW keep \in SUBSET (1..n), NEW k \in 1..Cardinality(keep)
    PROVE  Place(keep, k) \in keep /\ Rank(keep, Place(keep, k)) = k
<1> DEFINE reach == {i \in Nat : Rank(keep, i) >= k}
<1>1. Cardinality(keep) \in Nat
  BY Finite
<1>2. keep \subseteq Nat \ {0} /\ IsFiniteSet(keep)
  BY Finite
<1>3. {j \in keep : j <= n} = keep
  <2>1. \A j \in keep : j <= n
    OBVIOUS
  <2> QED BY <2>1
<1>4. n \in reach
  BY <1>1, <1>3 DEF Rank
<1>5. PICK m \in reach : \A i \in reach : m <= i
  BY <1>4, LeastNumber
<1>6. m # 0
  <2>1. {j \in keep : j <= 0} = {}
    <3>1. \A j \in keep : j \in Nat /\ j # 0
      BY <1>2
    <3>2. \A j \in Nat : j <= 0 => j = 0
      OBVIOUS
    <3> QED BY <3>1, <3>2
  <2>2. Rank(keep, 0) = 0
    BY <2>1, FS_EmptySet DEF Rank
  <2> QED BY <2>2
<1>7. m - 1 \in Nat /\ m = (m - 1) + 1 /\ m - 1 \notin reach
  BY <1>5, <1>6
<1>8. Rank(keep, m - 1) \in Nat /\ ~(Rank(keep, m - 1) >= k)
  BY <1>2, <1>7, RankSteps
<1>9. Rank(keep, m) = IF m \in keep THEN Rank(keep, m - 1) + 1 ELSE Rank(keep, m - 1)
  <2> DEFINE l == m - 1
  <2>1. l \in Nat /\ l + 1 = m
    BY <1>7
  <2>2. Rank(keep, l + 1) = IF l + 1 \in keep THEN Rank(keep, l) + 1 ELSE Rank(keep, l)
    <3> HIDE DEF l
    <3> QED BY <1>2, <2>1, RankSteps
  <2> QED BY <2>1, <2>2
<1>10. m \in keep /\ Rank(keep, m) = k
  BY <1>8, <1>9
<1> QED BY <1>10 DEF Place

\* A position that is kept is the place of its rank.
LEMMA RankHasPlace ==
    ASSUME NEW n \in Nat, NEW keep \in SUBSET (1..n), NEW i \in keep
    PROVE  Place(keep, Rank(keep, i)) = i
<1>a. keep \subseteq Nat \ {0} /\ IsFiniteSet(keep)
  BY Finite
<1>1. Rank(keep, i) \in 1..Cardinality(keep)
  BY <1>a, RankRange
<1> DEFINE p == Place(keep, Rank(keep, i))
<1>2. p \in keep /\ Rank(keep, p) = Rank(keep, i)
  BY <1>1, PlaceHasRank
<1>3. Rank(keep, i) \in Nat
  BY <1>1
<1>4. ~(p < i) /\ ~(i < p)
  <2> HIDE DEF p
  <2>1. p < i => Rank(keep, p) < Rank(keep, i)
    BY <1>a, <1>2, RankGrows
  <2>2. i < p => Rank(keep, i) < Rank(keep, p)
    BY <1>a, <1>2, RankGrows
  <2> QED BY <1>2, <1>3, <2>1, <2>2
<1>5. p \in Nat /\ i \in Nat
  <2> HIDE DEF p
  <2> QED BY <1>a, <1>2
<1> QED BY <1>4, <1>5

\* Places of different ranks are in order.
LEMMA PlacesInOrder ==
    ASSUME NEW n \in Nat, NEW keep \in SUBSET (1..n),
           NEW k \in 1..Cardinality(keep), NEW l \in 1..Cardinality(keep), k < l
    PROVE  Place(keep, k) < Place(keep, l)
<1> DEFINE p == Place(keep, k)
           q == Place(keep, l)
<1>a. keep \subseteq Nat \ {0} /\ IsFiniteSet(keep)
  BY Finite
<1>1. p \in keep /\ q \in keep /\ Rank(keep, p) = k /\ Rank(keep, q) = l
  BY PlaceHasRank
<1>2. ~(q < p) /\ p # q
  <2> HIDE DEF p, q
  <2>1. q < p => Rank(keep, q) < Rank(keep, p)
    BY <1>a, <1>1, RankGrows
  <2>2. k \in Nat /\ l \in Nat
    OBVIOUS
  <2> QED BY <1>1, <2>1, <2>2
<1>3. p \in Nat /\ q \in Nat
  <2> HIDE DEF p, q
  <2> QED BY <1>a, <1>1
<1> QED BY <1>2, <1>3

\* A set of numbers, sorted: all of them, each once.
LEMMA AscendingType ==
    ASSUME NEW n \in Nat, NEW keep \in SUBSET (1..n)
    PROVE  /\ Ascending(keep) \in Seq(1..n) /\ DOMAIN Ascending(keep) = 1..Cardinality(keep)
           /\ \A k \in DOMAIN Ascending(keep) : Ascending(keep)[k] \in keep
           /\ \A i \in keep : \E k \in DOMAIN Ascending(keep) : Ascending(keep)[k] = i
           /\ \A k, l \in DOMAIN Ascending(keep) : k < l => Ascending(keep)[k] < Ascending(keep)[l]
<1>1. keep \subseteq Nat \ {0} /\ IsFiniteSet(keep) /\ Cardinality(keep) \in Nat
  BY Finite
<1>2. DOMAIN Ascending(keep) = 1..Cardinality(keep)
  BY DEF Ascending
<1>3. \A k \in 1..Cardinality(keep) : Ascending(keep)[k] = Place(keep, k) /\ Place(keep, k) \in keep
  BY PlaceHasRank DEF Ascending
<1>4. Ascending(keep) \in Seq(1..n)
  <2>1. \A k \in 1..Cardinality(keep) : Place(keep, k) \in 1..n
    BY <1>3
  <2> QED BY <1>1, <2>1 DEF Ascending
<1>5. ASSUME NEW i \in keep
      PROVE  \E k \in 1..Cardinality(keep) : Ascending(keep)[k] = i
  <2>1. Rank(keep, i) \in 1..Cardinality(keep) /\ Place(keep, Rank(keep, i)) = i
    BY <1>1, RankRange, RankHasPlace
  <2> QED BY <1>3, <2>1
<1>6. \A k, l \in 1..Cardinality(keep) : k < l => Place(keep, k) < Place(keep, l)
  BY PlacesInOrder
<1> QED BY <1>2, <1>3, <1>4, <1>5, <1>6

\* The numbers of A, and those of B moved up by m.
Joined(m, A, B) == A \union {m + j : j \in B}

\* The ranks in a set of numbers up to m and a second one that comes after it.
LEMMA RankJoined ==
    ASSUME NEW m \in Nat, NEW n \in Nat, NEW A \in SUBSET (1..m), NEW B \in SUBSET (1..n)
    PROVE  /\ Joined(m, A, B) \in SUBSET (1..m + n)
           /\ \A i \in 0..m : Rank(Joined(m, A, B), i) = Rank(A, i)
           /\ \A j \in Nat : Rank(Joined(m, A, B), m + j) = Cardinality(A) + Rank(B, j)
<1>1. Joined(m, A, B) \in SUBSET (1..m + n)
  <2>1. \A j \in B : m + j \in 1..m + n
    OBVIOUS
  <2>2. \A i \in A : i \in 1..m + n
    OBVIOUS
  <2> QED BY <2>1, <2>2 DEF Joined
<1>2. /\ A \subseteq Nat \ {0} /\ IsFiniteSet(A) /\ Cardinality(A) \in Nat
      /\ B \subseteq Nat \ {0} /\ IsFiniteSet(B) /\ Joined(m, A, B) \subseteq Nat \ {0} /\ IsFiniteSet(Joined(m, A, B))
  <2>1. PICK total \in Nat : total = m + n
    OBVIOUS
  <2>4. Joined(m, A, B) \in SUBSET (1..total)
    BY <1>1, <2>1
  <2>2. Joined(m, A, B) \subseteq Nat \ {0} /\ IsFiniteSet(Joined(m, A, B))
    BY <2>4, Finite
  <2>3. A \subseteq Nat \ {0} /\ IsFiniteSet(A) /\ Cardinality(A) \in Nat
    BY Finite
  <2> QED BY <2>2, <2>3, Finite
<1>3. ASSUME NEW i \in 0..m PROVE Rank(Joined(m, A, B), i) = Rank(A, i)
  <2>1. \A j \in B : ~(m + j <= i)
    OBVIOUS
  <2>2. {x \in Joined(m, A, B) : x <= i} = {x \in A : x <= i}
    BY <2>1 DEF Joined
  <2> QED BY <2>2 DEF Rank
<1> DEFINE other == {j \in Nat : Rank(Joined(m, A, B), m + j) # Cardinality(A) + Rank(B, j)}
<1>4. ASSUME other # {} PROVE FALSE
  <2>1. PICK l \in other : \A j \in other : l <= j
    BY <1>4, LeastNumber
  <2>2. CASE l = 0
    <3>1. {x \in A : x <= m} = A
      <4>1. \A x \in A : x <= m
        OBVIOUS
      <4> QED BY <4>1
    <3>2. {x \in B : x <= 0} = {}
      <4>1. \A x \in Nat \ {0} : ~(x <= 0)
        OBVIOUS
      <4> QED BY <1>2, <4>1
    <3>3. Rank(B, 0) = 0
      BY <3>2, FS_EmptySet DEF Rank
    <3>4. Rank(Joined(m, A, B), m) = Cardinality(A)
      BY <1>3, <3>1 DEF Rank
    <3>5. m + 0 = m /\ Cardinality(A) + 0 = Cardinality(A)
      BY <1>2
    <3> QED BY <2>1, <2>2, <3>3, <3>4, <3>5
  <2>3. CASE l # 0
    <3>1. PICK h \in Nat : l = h + 1
      <4>1. l - 1 \in Nat /\ l = (l - 1) + 1
        BY <2>1, <2>3
      <4> QED BY <4>1
    <3>2. h \notin other
      BY <2>1, <3>1
    <3>3. Rank(Joined(m, A, B), m + h) = Cardinality(A) + Rank(B, h)
      BY <3>2
    <3>4. /\ Rank(Joined(m, A, B), m + h) \in Nat
          /\ Rank(Joined(m, A, B), (m + h) + 1) = IF (m + h) + 1 \in Joined(m, A, B) THEN Rank(Joined(m, A, B), m + h) + 1 ELSE Rank(Joined(m, A, B), m + h)
      <4>1. m + h \in Nat
        OBVIOUS
      <4>2. Joined(m, A, B) \subseteq Nat
        BY <1>2
      <4> QED BY <1>2, <4>1, <4>2, RankSteps
    <3>5. Rank(B, h) \in Nat /\ Rank(B, h + 1) = IF h + 1 \in B THEN Rank(B, h) + 1 ELSE Rank(B, h)
      BY <1>2, RankSteps
    <3>6. (m + h) + 1 \in Joined(m, A, B) <=> h + 1 \in B
      <4>1. (m + h) + 1 = m + (h + 1) /\ (m + h) + 1 \notin A
        OBVIOUS
      <4>2. \A j \in B : m + j = (m + h) + 1 => j = h + 1
        OBVIOUS
      <4> QED BY <4>1, <4>2 DEF Joined
    <3>7. m + l = (m + h) + 1
      BY <3>1
    <3>8. Rank(Joined(m, A, B), m + l) = Cardinality(A) + Rank(B, l)
      BY <1>2, <3>1, <3>3, <3>4, <3>5, <3>6, <3>7
    <3> QED BY <2>1, <3>8
  <2> QED BY <2>2, <2>3
<1> QED BY <1>1, <1>3, <1>4

\* The two sets in order: first the one, then the other.
LEMMA AscendingJoined ==
    ASSUME NEW m \in Nat, NEW n \in Nat, NEW A \in SUBSET (1..m), NEW B \in SUBSET (1..n)
    PROVE  /\ Cardinality(A) \in Nat /\ Cardinality(B) \in Nat
           /\ Cardinality(Joined(m, A, B)) = Cardinality(A) + Cardinality(B)
           /\ \A k \in 1..Cardinality(A) : Ascending(Joined(m, A, B))[k] = Ascending(A)[k]
           /\ \A k \in 1..Cardinality(B) : Ascending(Joined(m, A, B))[Cardinality(A) + k] = m + Ascending(B)[k]
<1>a. /\ Joined(m, A, B) \in SUBSET (1..m + n)
      /\ \A i \in 0..m : Rank(Joined(m, A, B), i) = Rank(A, i)
      /\ \A j \in Nat : Rank(Joined(m, A, B), m + j) = Cardinality(A) + Rank(B, j)
  BY RankJoined
<1>1. Joined(m, A, B) \in SUBSET (1..m + n) /\ m + n \in Nat
  BY <1>a
<1>2. /\ A \subseteq Nat \ {0} /\ IsFiniteSet(A) /\ Cardinality(A) \in Nat
      /\ B \subseteq Nat \ {0} /\ IsFiniteSet(B) /\ Cardinality(B) \in Nat
  BY Finite
<1>3. Cardinality(Joined(m, A, B)) = Cardinality(A) + Cardinality(B)
  <2>1. {x \in Joined(m, A, B) : x <= m + n} = Joined(m, A, B)
    BY <1>1
  <2>2. {x \in B : x <= n} = B
    <3>1. \A x \in B : x <= n
      OBVIOUS
    <3> QED BY <3>1
  <2>3. Rank(Joined(m, A, B), m + n) = Cardinality(A) + Rank(B, n)
    BY <1>a
  <2> QED BY <2>1, <2>2, <2>3 DEF Rank
<1>4. ASSUME NEW k \in 1..Cardinality(A) PROVE Ascending(Joined(m, A, B))[k] = Ascending(A)[k]
  <2>1. PICK p \in A : p = Place(A, k) /\ Rank(A, p) = k
    BY PlaceHasRank
  <2>2. Rank(Joined(m, A, B), p) = k
    <3>1. p \in 0..m
      OBVIOUS
    <3> QED BY <1>a, <2>1, <3>1
  <2>3. Place(Joined(m, A, B), Rank(Joined(m, A, B), p)) = p
    <3>1. p \in Joined(m, A, B)
      BY DEF Joined
    <3> QED BY <1>1, <3>1, RankHasPlace
  <2>4. k \in 1..Cardinality(Joined(m, A, B))
    BY <1>2, <1>3
  <2> QED BY <2>1, <2>2, <2>3, <2>4 DEF Ascending
<1>5. ASSUME NEW k \in 1..Cardinality(B) PROVE Ascending(Joined(m, A, B))[Cardinality(A) + k] = m + Ascending(B)[k]
  <2>1. PICK p \in B : p = Place(B, k) /\ Rank(B, p) = k
    BY PlaceHasRank
  <2>2. Rank(Joined(m, A, B), m + p) = Cardinality(A) + k
    BY <1>a, <2>1
  <2>3. Place(Joined(m, A, B), Rank(Joined(m, A, B), m + p)) = m + p
    <3>1. m + p \in Joined(m, A, B)
      BY DEF Joined
    <3> QED BY <1>1, <3>1, RankHasPlace
  <2>4. Cardinality(A) + k \in 1..Cardinality(Joined(m, A, B))
    BY <1>2, <1>3
  <2> QED BY <2>1, <2>2, <2>3, <2>4 DEF Ascending
<1> QED BY <1>2, <1>3, <1>4, <1>5

\* The positions of a list are finitely many.
LEMMA Positions ==
    ASSUME NEW S, NEW s \in Seq(S), NEW keep \in SUBSET DOMAIN s
    PROVE  /\ Len(s) \in Nat /\ keep \in SUBSET (1..Len(s))
           /\ keep \subseteq Nat \ {0} /\ IsFiniteSet(keep) /\ Cardinality(keep) \in Nat
<1>1. Len(s) \in Nat /\ keep \in SUBSET (1..Len(s))
  OBVIOUS
<1> QED BY <1>1, Finite

\* A list comprehension as a function of the positions.
LEMMA SublistIs ==
    ASSUME NEW S, NEW s \in Seq(S), NEW keep \in SUBSET DOMAIN s
    PROVE  Sublist(s, keep) = [k \in 1..Cardinality(keep) |-> s[Place(keep, k)]]
<1> DEFINE g == [k \in 1..Cardinality(keep) |-> s[Place(keep, k)]]
<1>1. /\ Len(s) \in Nat /\ keep \in SUBSET (1..Len(s))
      /\ keep \subseteq Nat \ {0} /\ IsFiniteSet(keep) /\ Cardinality(keep) \in Nat
  BY Positions
<1>2. \A k \in 1..Cardinality(keep) : s[Place(keep, k)] \in S
  <2>1. \A k \in 1..Cardinality(keep) : Place(keep, k) \in keep
    BY <1>1, PlaceHasRank
  <2> QED BY <2>1
<1>3. g \in Seq(S) /\ Len(g) = Cardinality(keep)
  BY <1>1, <1>2
<1>4. SubSeq(g, 1, Cardinality(keep)) = g
  BY <1>1, <1>3
<1> QED BY <1>4 DEF Sublist

\* A list comprehension of a list is a list of its elements, one for each
\* position that is kept.
LEMMA SublistType ==
    ASSUME NEW S, NEW s \in Seq(S), NEW keep \in SUBSET DOMAIN s
    PROVE  /\ Sublist(s, keep) \in Seq(S)
           /\ Len(Sublist(s, keep)) = Cardinality(keep) /\ DOMAIN Sublist(s, keep) = 1..Cardinality(keep)
<1>1. /\ Len(s) \in Nat /\ keep \in SUBSET (1..Len(s))
      /\ keep \subseteq Nat \ {0} /\ IsFiniteSet(keep) /\ Cardinality(keep) \in Nat
  BY Positions
<1>2. \A k \in 1..Cardinality(keep) : Place(keep, k) \in keep
  BY <1>1, PlaceHasRank
<1>3. \A i \in keep : s[i] \in S
  OBVIOUS
<1> QED BY <1>1, <1>2, <1>3, SublistIs

\* Its elements are those that are kept, and no other.
LEMMA SublistElements ==
    ASSUME NEW S, NEW s \in Seq(S), NEW keep \in SUBSET DOMAIN s
    PROVE  /\ \A k \in DOMAIN Sublist(s, keep) : Place(keep, k) \in keep /\ Sublist(s, keep)[k] = s[Place(keep, k)]
           /\ \A i \in keep : \E k \in DOMAIN Sublist(s, keep) : Place(keep, k) = i /\ Sublist(s, keep)[k] = s[i]
<1>1. /\ Len(s) \in Nat /\ keep \in SUBSET (1..Len(s))
      /\ keep \subseteq Nat \ {0} /\ IsFiniteSet(keep) /\ Cardinality(keep) \in Nat
  BY Positions
<1>2. DOMAIN Sublist(s, keep) = 1..Cardinality(keep)
  BY SublistType
<1>3. \A k \in 1..Cardinality(keep) : Place(keep, k) \in keep /\ Sublist(s, keep)[k] = s[Place(keep, k)]
  <2>1. \A k \in 1..Cardinality(keep) : Place(keep, k) \in keep
    BY <1>1, PlaceHasRank
  <2>2. Sublist(s, keep) = [k \in 1..Cardinality(keep) |-> s[Place(keep, k)]]
    BY SublistIs
  <2> QED BY <2>1, <2>2
<1>4. ASSUME NEW i \in keep
      PROVE  \E k \in 1..Cardinality(keep) : Place(keep, k) = i /\ Sublist(s, keep)[k] = s[i]
  <2>1. Rank(keep, i) \in 1..Cardinality(keep) /\ Place(keep, Rank(keep, i)) = i
    BY <1>1, RankRange, RankHasPlace
  <2> QED BY <1>3, <2>1
<1> QED BY <1>2, <1>3, <1>4

\* They keep their order.
LEMMA SublistOrder ==
    ASSUME NEW S, NEW s \in Seq(S), NEW keep \in SUBSET DOMAIN s,
           NEW k \in DOMAIN Sublist(s, keep), NEW l \in DOMAIN Sublist(s, keep), k < l
    PROVE  Place(keep, k) < Place(keep, l)
<1>1. Len(s) \in Nat /\ keep \in SUBSET (1..Len(s))
  BY Positions
<1> QED BY <1>1, SublistType, PlacesInOrder

\* An element stands no further back in the list of what is kept than before.
LEMMA SublistLeft ==
    ASSUME NEW S, NEW s \in Seq(S), NEW keep \in SUBSET DOMAIN s, NEW k \in DOMAIN Sublist(s, keep)
    PROVE  Place(keep, k) >= k
<1>1. Len(s) \in Nat /\ keep \in SUBSET (1..Len(s))
  BY Positions
<1>2. k \in 1..Cardinality(keep)
  BY SublistType
<1> DEFINE i == Place(keep, k)
           below == {j \in keep : j <= i}
<1>3. i \in keep /\ i \in Nat /\ Cardinality(below) = k
  <2>1. Place(keep, k) \in keep /\ Rank(keep, Place(keep, k)) = k
    BY <1>1, <1>2, PlaceHasRank
  <2>2. i \in keep /\ Cardinality(below) = k
    BY <2>1 DEF Rank
  <2> HIDE DEF i
  <2> QED BY <1>1, <2>2
<1> HIDE DEF i
<1>4. below \subseteq 1..i
  BY <1>1, <1>3
<1>5. IsFiniteSet(1..i) /\ Cardinality(1..i) = i
  BY <1>3, FS_Interval
<1>6. Cardinality(below) <= i
  BY <1>4, <1>5, FS_Subset
<1> QED BY <1>3, <1>6 DEF i
=============================================================================
