--------------------------- MODULE MCExperiments ---------------------------
(***************************************************************************)
(* Small instances of Experiments: up to three commands of two attempts.   *)
(***************************************************************************)
EXTENDS Experiments
=============================================================================
