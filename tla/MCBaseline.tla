----------------------------- MODULE MCBaseline -----------------------------
(***************************************************************************)
(* A small instance of Baseline: two contents of the RTL and three         *)
(* settings, one of which creates one clock less, and one that the digest  *)
(* does not tell from the first.  The manifest declares both clocks, one,  *)
(* or none.                                                                *)
(***************************************************************************)
EXTENDS Baseline

McHash == [s \in Settings |-> IF s = "other_lef" THEN "frozen" ELSE s]

McClocks == [s \in Settings |-> IF s = "one_clock" THEN {"clk_a"} ELSE {"clk_a", "clk_b"}]

McDeclarations == {{}, {"clk_a"}, {"clk_a", "clk_b"}}
=============================================================================
