-------------------------- MODULE MCSharedRegistry --------------------------
(***************************************************************************)
(* An instance of SharedRegistry for TLC: the entry of one peer in the     *)
(* registries of two nodes, every one of them on a host of its own.        *)
(***************************************************************************)
EXTENDS SharedRegistry

CONSTANTS a, b, p

At(g, h) == [grpc |-> g, http |-> h]

ApartServe == [x \in PeerId |-> {At(x, x)}]

ApartOwn == [n \in Node |-> At(n, n)]
=============================================================================
