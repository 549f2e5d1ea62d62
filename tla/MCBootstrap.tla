----------------------------- MODULE MCBootstrap -----------------------------
(***************************************************************************)
(* An instance of Bootstrap for TLC: four ids on three hosts.              *)
(***************************************************************************)
EXTENDS Bootstrap

CONSTANTS p, q, r, s, g1, g2, g3, h1, h2, h3

At(g, h) == [grpc |-> g, http |-> h]

\* A host for each id, but q and r are successive ids of the same host.
RestartServe ==
    [x \in PeerId |-> IF x = p THEN {At(g1, h1)}
                      ELSE IF x = s THEN {At(g3, h3)} ELSE {At(g2, h2)}]
=============================================================================
