------------------------------ MODULE MCCatalog ------------------------------
(***************************************************************************)
(* Instances of Catalog for TLC: two to four concurrent calls.             *)
(***************************************************************************)
EXTENDS Catalog, TLC

Symmetry == Permutations(Call)
=============================================================================
