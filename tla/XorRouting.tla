----------------------------- MODULE XorRouting -----------------------------
(***************************************************************************)
(* Whom a block is replicated to: the peers closest to its CID by XOR      *)
(* distance (internal/dht/xor_distance.go, routing_table.go).  CIDs and    *)
(* peer ids are keys of the same length, in the code 32 bytes, here Bits   *)
(* bits, the most significant one first.                                   *)
(***************************************************************************)
EXTENDS Naturals, FiniteSets

CONSTANT Bits

ASSUME BitsAssumption == Bits \in Nat

Key == [1..Bits -> BOOLEAN]

XOR(a, b) == [i \in 1..Bits |-> a[i] # b[i]]

\* The order of two keys read as big integers (Distance, big.Int.Cmp): that
\* of the first bit in which they differ.
Below(x, y) ==
    \E i \in 1..Bits :
        /\ ~x[i] /\ y[i]
        /\ \A j \in 1..(i - 1) : x[j] = y[j]

\* a is closer to target than b.
Closer(target, a, b) == Below(XOR(target, a), XOR(target, b))

\* The candidates that come before p when they are sorted by distance.
CloserThan(target, candidates, p) == {q \in candidates : Closer(target, q, p)}

\* The first k candidates in that order, or all when there are fewer.
Closest(target, k, candidates) ==
    {p \in candidates : Cardinality(CloserThan(target, candidates, p)) < k}
=============================================================================
