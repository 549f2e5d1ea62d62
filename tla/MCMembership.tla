---------------------------- MODULE MCMembership ----------------------------
(***************************************************************************)
(* Instances of Membership for TLC: this node and two or three other ids.  *)
(***************************************************************************)
EXTENDS Membership, TLC

CONSTANTS self, p, q, r, g0, g1, g2, g3, h0, h1, h2, h3, g4, h4

At(g, h) == [grpc |-> g, http |-> h]

MCSelfEndpoint == At(g0, h0)

\* q may come up on the host of p, as its restart under a new id, or on one of
\* its own; with r that makes three hosts besides this node's, one more than
\* there are slots.  This node has had another address before.
MovingServe ==
    (self :> {MCSelfEndpoint, At(g3, h3)}) @@ (p :> {At(g1, h1)})
    @@ (q :> {At(g1, h1), At(g2, h2)}) @@ (r :> {At(g4, h4)})

\* Every node advertises the same HTTP address.
SameHttpServe == (self :> {MCSelfEndpoint}) @@ (p :> {At(g1, h0)}) @@ (q :> {At(g2, h0)})
=============================================================================
