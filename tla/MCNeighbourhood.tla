--------------------------- MODULE MCNeighbourhood ---------------------------
(***************************************************************************)
(* Instances of Neighbourhood for TLC: one or two neighbours, each with a  *)
(* host of its own whose addresses are written with the node's own name.   *)
(***************************************************************************)
EXTENDS Neighbourhood

CONSTANTS self, p, q

At(g, h) == [grpc |-> g, http |-> h]

MCSelfEndpoint == At(self, self)

ApartServe == [x \in PeerId |-> {At(x, x)}]
=============================================================================
