--------------------------- MODULE MCBlockExchange ---------------------------
(***************************************************************************)
(* An instance of BlockExchange for TLC: three nodes and a file of a root  *)
(* node and one chunk.  Keys have three bits; c is the best replica for    *)
(* the root and b for the chunk when a uploads them.  The operators of     *)
(* XorRouting are compared with reference definitions for every key of     *)
(* that length and up to four candidates.                                  *)
(***************************************************************************)
EXTENDS BlockExchange, SequencesExt

CONSTANTS
    a, b, c,        \* nodes
    root, c1        \* blocks

OneChunk == <<root, c1>>

Bits3(x, y, z) == [i \in 1..3 |-> CASE i = 1 -> x [] i = 2 -> y [] i = 3 -> z]

Keys ==
    [x \in {a, b, c, root, c1} |->
        CASE x = a    -> Bits3(FALSE, FALSE, FALSE)
          [] x = b    -> Bits3(FALSE, TRUE, TRUE)
          [] x = c    -> Bits3(TRUE, TRUE, FALSE)
          [] x = root -> Bits3(TRUE, FALSE, TRUE)
          [] x = c1   -> Bits3(FALSE, FALSE, TRUE)]

-----------------------------------------------------------------------------
(* Reference definitions *)

\* A key as a big integer (big.Int.SetBytes).
NumberOf(x) ==
    FoldSet(LAMBDA i, sum : sum + (IF x[i] THEN 2^(Bits - i) ELSE 0), 0, 1..Bits)

Distance(x, y) == NumberOf(XOR(x, y))

\* Closer compares distances as integers.
ASSUME CloserComparesDistances ==
    \A t, x, y \in Key : Closer(t, x, y) <=> Distance(t, x) < Distance(t, y)

\* ClosestPeerIDs sorts the candidates and cuts the list off after the first k.
ASSUME ClosestCutsSortedList ==
    \A t \in Key, candidates \in UNION {kSubset(n, Key) : n \in 0..4} :
        LET sorted == SetToSortSeq(candidates,
                                   LAMBDA x, y : Distance(t, x) < Distance(t, y))
        IN \A k \in 0..5 :
            Closest(t, k, candidates) = {sorted[i] : i \in DOMAIN sorted \cap 1..k}
=============================================================================
