--------------------------- MODULE MCEquivalence ---------------------------
(***************************************************************************)
(* A small instance of Equivalence: designs of three partitions.           *)
(***************************************************************************)
EXTENDS Equivalence
=============================================================================
