------------------------------ MODULE MCRunner ------------------------------
(***************************************************************************)
(* A small instance of Runner: a tool with up to two children.             *)
(***************************************************************************)
EXTENDS Runner
=============================================================================
