------------------------------ MODULE MCGossip ------------------------------
(***************************************************************************)
(* An instance of Gossip for TLC: two nodes that stay, and one that        *)
(* registers and dies before its loops get further.                        *)
(***************************************************************************)
EXTENDS Gossip

CONSTANTS x, y, p

MCEndpointOf == [n \in Node |-> [grpc |-> n, http |-> n]]
=============================================================================
