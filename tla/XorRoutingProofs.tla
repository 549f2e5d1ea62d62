-------------------------- MODULE XorRoutingProofs --------------------------
(***************************************************************************)
(* Proofs about XorRouting, for keys of any length: Closer is a strict     *)
(* total order, and Closest takes the first k candidates of it.            *)
(***************************************************************************)
EXTENDS XorRouting, Integers, FiniteSetTheorems, WellFoundedInduction, TLAPS

-----------------------------------------------------------------------------
(* Closer is a strict total order of the keys *)

\* Two keys that differ differ in some first bit.
LEMMA FirstDifference ==
    ASSUME NEW x \in Key, NEW y \in Key, x # y
    PROVE  \E i \in 1..Bits : x[i] # y[i] /\ \A j \in 1..(i - 1) : x[j] = y[j]
  <1> DEFINE D == {i \in 1..Bits : x[i] # y[i]}
  <1>1. D \subseteq Nat /\ D # {}
    BY BitsAssumption DEF Key
  <1>2. PICK i \in D : \A j \in D : <<j, i>> \notin OpToRel(<, Nat)
    BY <1>1, NatLessThanWellFounded, WFMin
  <1>3. \A j \in D : ~(j < i)
    BY <1>1, <1>2 DEF OpToRel
  <1>4. \A j \in 1..(i - 1) : j \in 1..Bits /\ j < i
    BY BitsAssumption
  <1> QED
    BY <1>3, <1>4

\* Functions with one domain that agree everywhere are equal.
LEMMA SameFunction ==
    ASSUME NEW D, NEW S, NEW f \in [D -> S], NEW g \in [D -> S], \A i \in D : f[i] = g[i]
    PROVE  f = g
  OBVIOUS

\* XOR with the same key keeps keys apart.
LEMMA XORInjective ==
    ASSUME NEW t \in Key, NEW a \in Key, NEW b \in Key
    PROVE  XOR(t, a) \in Key /\ (XOR(t, a) = XOR(t, b) => a = b)
  <1>1. XOR(t, a) \in Key
    BY DEF XOR, Key
  <1>2. ASSUME XOR(t, a) = XOR(t, b), NEW i \in 1..Bits PROVE a[i] = b[i]
    <2>1. XOR(t, a)[i] = XOR(t, b)[i]
      BY <1>2
    <2>2. (t[i] # a[i]) <=> (t[i] # b[i])
      BY <2>1 DEF XOR
    <2>3. t[i] \in BOOLEAN /\ a[i] \in BOOLEAN /\ b[i] \in BOOLEAN
      BY DEF Key
    <2>4. a[i] = t[i] <=> b[i] = t[i]
      BY <2>2
    <2>5. ASSUME NEW u \in BOOLEAN, NEW v \in BOOLEAN, NEW w \in BOOLEAN, v = u <=> w = u
          PROVE  v = w
      BY <2>5
    <2> QED
      BY <2>3, <2>4, <2>5
  <1>3. (\A i \in 1..Bits : a[i] = b[i]) => a = b
    <2>1. \A f, g \in [1..Bits -> BOOLEAN] : (\A i \in 1..Bits : f[i] = g[i]) => f = g
      <3> DEFINE D == 1..Bits
                 B == BOOLEAN
      <3> HIDE DEF D, B
      <3>1. \A f, g \in [D -> B] : (\A i \in D : f[i] = g[i]) => f = g
        BY SameFunction
      <3> QED
        BY <3>1, Zenon DEF D, B
    <2>2. a \in [1..Bits -> BOOLEAN] /\ b \in [1..Bits -> BOOLEAN]
      BY DEF Key
    <2> QED
      BY <2>1, <2>2, Zenon
  <1>4. XOR(t, a) = XOR(t, b) => \A i \in 1..Bits : a[i] = b[i]
    BY <1>2
  <1> QED
    BY <1>1, <1>3, <1>4

\* No key is below itself.
LEMMA BelowIrreflexive == \A x \in Key : ~Below(x, x)
  BY DEF Below

\* A key below a second one, which is below a third, is below that one.
LEMMA BelowTransitive ==
    ASSUME NEW x \in Key, NEW y \in Key, NEW z \in Key, Below(x, y), Below(y, z)
    PROVE  Below(x, z)
  <1>1. PICK i \in 1..Bits : ~x[i] /\ y[i] /\ \A j \in 1..(i - 1) : x[j] = y[j]
    BY DEF Below
  <1>2. PICK k \in 1..Bits : ~y[k] /\ z[k] /\ \A j \in 1..(k - 1) : y[j] = z[j]
    BY DEF Below
  <1>0. i \in Int /\ k \in Int /\ i # k
    BY <1>1, <1>2
  <1>3. CASE i < k
    <2>1. y[i] = z[i] /\ \A j \in 1..(i - 1) : y[j] = z[j]
      BY <1>0, <1>2, <1>3
    <2> QED
      BY <1>1, <2>1 DEF Below
  <1>4. CASE k < i
    <2>1. x[k] = y[k] /\ \A j \in 1..(k - 1) : x[j] = y[j]
      BY <1>0, <1>1, <1>4
    <2> QED
      BY <1>2, <2>1 DEF Below
  <1> QED
    BY <1>0, <1>3, <1>4

\* Of two different keys one is below the other.
LEMMA BelowTotal ==
    ASSUME NEW x \in Key, NEW y \in Key, x # y
    PROVE  Below(x, y) \/ Below(y, x)
  <1>1. PICK i \in 1..Bits : x[i] # y[i] /\ \A j \in 1..(i - 1) : x[j] = y[j]
    BY FirstDifference
  <1>2. x[i] \in BOOLEAN /\ y[i] \in BOOLEAN
    BY DEF Key
  <1> QED
    BY <1>1, <1>2 DEF Below

\* Distance to any target puts the keys in one strict order: sorting by it
\* (ClosestPeerIDs) has one result, whatever order the registry's map is
\* iterated in.
THEOREM CloserStrictOrder ==
    ASSUME NEW t \in Key, NEW a \in Key, NEW b \in Key, NEW c \in Key
    PROVE  /\ ~Closer(t, a, a)
           /\ Closer(t, a, b) /\ Closer(t, b, c) => Closer(t, a, c)
           /\ a # b => Closer(t, a, b) \/ Closer(t, b, a)
  <1>1. /\ XOR(t, a) \in Key /\ XOR(t, b) \in Key /\ XOR(t, c) \in Key
        /\ a # b => XOR(t, a) # XOR(t, b)
    BY XORInjective
  <1> QED
    BY <1>1, BelowIrreflexive, BelowTransitive, BelowTotal DEF Closer

-----------------------------------------------------------------------------
(* Closest takes the first k *)

Rank(t, C, p) == Cardinality(CloserThan(t, C, p))

\* A closer candidate has fewer candidates before it.
LEMMA RankOrder ==
    ASSUME NEW t \in Key, NEW C \in SUBSET Key, IsFiniteSet(C),
           NEW p \in C, NEW q \in C, Closer(t, p, q)
    PROVE  /\ Rank(t, C, p) \in Nat /\ Rank(t, C, q) \in Nat
           /\ Rank(t, C, p) < Rank(t, C, q)
  <1> DEFINE P == CloserThan(t, C, p)
             Q == CloserThan(t, C, q)
  <1>1. P \subseteq C /\ Q \subseteq C
    BY DEF CloserThan
  <1>2. IsFiniteSet(P) /\ IsFiniteSet(Q)
    BY <1>1, FS_Subset
  <1>3. P \subseteq Q /\ p \in Q /\ p \notin P
    BY CloserStrictOrder DEF CloserThan
  <1> HIDE DEF P, Q
  <1>4. /\ Cardinality(P) <= Cardinality(Q)
        /\ Cardinality(P) = Cardinality(Q) => P = Q
    BY <1>2, <1>3, FS_Subset
  <1>5. Cardinality(P) \in Nat /\ Cardinality(Q) \in Nat
    BY <1>2, FS_CardinalityType
  <1> QED
    BY <1>3, <1>4, <1>5 DEF P, Q, Rank

\* Every peer that is chosen is closer than every candidate that is not: a
\* block goes to the closest Active peers.
THEOREM ClosestFirst ==
    ASSUME NEW t \in Key, NEW k \in Nat, NEW C \in SUBSET Key, IsFiniteSet(C),
           NEW p \in Closest(t, k, C), NEW q \in C \ Closest(t, k, C)
    PROVE  Closer(t, p, q)
  <1>1. p \in C /\ p # q /\ Rank(t, C, p) < k /\ ~(Rank(t, C, q) < k)
    BY DEF Closest, Rank
  <1>2. CASE Closer(t, q, p)
    <2>1. /\ Rank(t, C, p) \in Nat /\ Rank(t, C, q) \in Nat
          /\ Rank(t, C, q) < Rank(t, C, p)
      BY <1>1, <1>2, RankOrder
    <2> QED
      BY <1>1, <2>1
  <1> QED
    BY <1>1, <1>2, CloserStrictOrder

\* As many as asked for are chosen at most, and all candidates when there are
\* no more than that: the ranks of the chosen are different numbers below k.
THEOREM ClosestCount ==
    ASSUME NEW t \in Key, NEW k \in Nat, NEW C \in SUBSET Key, IsFiniteSet(C)
    PROVE  /\ Closest(t, k, C) \subseteq C
           /\ Cardinality(Closest(t, k, C)) <= k
           /\ Cardinality(C) <= k => Closest(t, k, C) = C
  <1> DEFINE S == Closest(t, k, C)
             rank == [p \in S |-> Rank(t, C, p)]
  <1>1. S \subseteq C /\ IsFiniteSet(S)
    BY FS_Subset DEF Closest
  <1>2. \A p \in C : Rank(t, C, p) \in Nat
    <2>1. \A p \in C : CloserThan(t, C, p) \subseteq C
      BY DEF CloserThan
    <2> QED
      BY <2>1, FS_Subset, FS_CardinalityType DEF Rank
  <1>3. \A p \in S : Rank(t, C, p) \in 0..(k - 1)
    BY <1>1, <1>2 DEF Closest, Rank
  <1>4. ASSUME NEW p \in S, NEW q \in S, rank[p] = rank[q] PROVE p = q
    <2>1. p \in C /\ q \in C /\ Rank(t, C, p) = Rank(t, C, q)
      BY <1>1, <1>4
    <2>2. CASE Closer(t, p, q)
      BY <2>1, <2>2, RankOrder
    <2>3. CASE Closer(t, q, p)
      BY <2>1, <2>3, RankOrder
    <2> QED
      BY <2>1, <2>2, <2>3, CloserStrictOrder
  <1>5. rank \in Injection(S, 0..(k - 1))
    BY <1>3, <1>4 DEF Injection, IsInjective
  <1>6. IsFiniteSet(0..(k - 1)) /\ Cardinality(0..(k - 1)) = k
    BY FS_Interval
  <1>7. Cardinality(S) <= k
    BY <1>5, <1>6, FS_Injection
  <1>8. ASSUME Cardinality(C) <= k, NEW p \in C PROVE p \in S
    <2>1. CloserThan(t, C, p) \subseteq C \ {p}
      BY CloserStrictOrder DEF CloserThan
    <2>2. /\ IsFiniteSet(C \ {p})
          /\ Cardinality(C \ {p}) = Cardinality(C) - 1
      BY FS_RemoveElement
    <2>3. Cardinality(CloserThan(t, C, p)) <= Cardinality(C \ {p})
      BY <2>1, <2>2, FS_Subset
    <2>4. Rank(t, C, p) \in Nat /\ Cardinality(C) \in Nat
      BY <1>2, FS_CardinalityType
    <2> QED
      BY <1>8, <2>2, <2>3, <2>4 DEF Closest, Rank
  <1> QED
    BY <1>1, <1>7, <1>8
=============================================================================
