----------------------------- MODULE MCPipeline -----------------------------
(***************************************************************************)
(* Small instances of Pipeline.                                            *)
(***************************************************************************)
EXTENDS Pipeline

\* Two clocks; the routed baseline violates its target by two units.
MCBaseRun == [wns |-> -2, area |-> 100, cells |-> 100, clocks |-> {"clk_a", "clk_b"}]

MCGuard == [preserve |-> TRUE, area |-> 5000, cells |-> 5000]

MCBaseScreenWns == -2

\* The screen STA found a better slack, the same one, or none at all.
MCScreenSlacks == {-1, -2, Unmeasured}

\* Faster within the limits, slower, faster but too large, without an area
MCFigures ==
    { [wns |-> -1, area |-> 100, cells |-> 100],
      [wns |-> -3, area |-> 100, cells |-> 100],
      [wns |-> 0, area |-> 106, cells |-> 100],
      [wns |-> -1, area |-> Unmeasured, cells |-> 100] }
=============================================================================
