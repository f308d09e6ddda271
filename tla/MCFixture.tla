----------------------------- MODULE MCFixture -----------------------------
(***************************************************************************)
(* A small instance of Fixture: two words, ratios up to two.               *)
(***************************************************************************)
EXTENDS Fixture

McRatios == [d \in {"a", "b"} |-> IF d = "a" THEN {0, 2} ELSE {1, 2}]
============================================================================
