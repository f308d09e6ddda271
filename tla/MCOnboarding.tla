---------------------------- MODULE MCOnboarding ----------------------------
(***************************************************************************)
(* A small instance of Onboarding: three files of one module each.         *)
(***************************************************************************)
EXTENDS Onboarding

McFileOf == [m \in Modules |-> CASE m = "m1" -> "f1" [] m = "m2" -> "f2" [] OTHER -> "f3"]
============================================================================
