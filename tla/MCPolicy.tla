------------------------------ MODULE MCPolicy ------------------------------
(***************************************************************************)
(* Every combination of a small set of figures is put before the policy    *)
(* once; the properties compare its decision with the order of checks      *)
(* documented at the head of policy.py.                                    *)
(***************************************************************************)
EXTENDS Policy

CONSTANTS
  Slacks,          \* post-route wns figures, some of them possibly Unmeasured
  BaseAreas,       \* baseline areas
  CandAreas,       \* candidate areas
  BaseCells,       \* baseline cell counts
  CandCells,       \* candidate cell counts
  Clocks,          \* clock names
  AreaLimit,       \* max_area_regression_pct, in milli-percent
  CellLimit        \* max_cell_count_regression_pct, in milli-percent

\* Figures are numbers or absent.
ASSUME FiguresAssumption ==
    /\ Unmeasured \notin Int
    /\ Slacks \cup BaseAreas \cup CandAreas \cup BaseCells \cup CandCells
         \subseteq Int \cup {Unmeasured}
    /\ AreaLimit \in Int /\ CellLimit \in Int

VARIABLES comparable, proof, base, cand, guard, decision

\* The values of Slacks in the runs: two violations, the met target, a margin
\* and a figure the report lacks (a .cfg has no negative numbers).
MCSlacks == {-2, -1, 0, 1, Unmeasured}

\* The values of TiesUp in the runs.  Of the two ties at a limit, 40000 to 42001 is
\* 5.0025 % and comes out as 5.003, and 200000 to 210001 is 5.0005 % and comes out
\* as 5.0.
MCTiesUp == {<<40000, 42001>>}

policyVars == <<comparable, proof, base, cand, guard, decision>>

EqyStatuses == {"PASS", "FAIL", "ERROR", "TIMEOUT", "UNKNOWN"}
Baselines == [wns : Slacks, area : BaseAreas, cells : BaseCells, clocks : {Clocks}]
Candidates ==
    [wns : Slacks, area : CandAreas, cells : CandCells,
     clocks : {Clocks} \cup {Clocks \ {c} : c \in Clocks}]
Guards == [preserve : BOOLEAN, area : {AreaLimit}, cells : {CellLimit}]
Pending == Decision("NOT_EVALUATED", "NONE")

PolicyInit ==
    /\ comparable \in BOOLEAN /\ proof \in EqyStatuses
    /\ base \in Baselines /\ cand \in Candidates /\ guard \in Guards
    /\ decision = Pending

Judge ==
    /\ decision = Pending
    /\ decision' = Evaluate(comparable, proof, base, cand, guard)
    /\ UNCHANGED <<comparable, proof, base, cand, guard>>

PolicySpec == PolicyInit /\ [][Judge]_policyVars

Accepted == decision.verdict = "ACCEPTED"

\* c is at least as good as d on every figure the policy reads
Dominates(c, d) ==
    /\ Measured(c.wns) /\ Measured(d.wns) /\ c.wns >= d.wns
    /\ Measured(c.area) /\ Measured(d.area) /\ c.area <= d.area
    /\ Measured(c.cells) /\ Measured(d.cells) /\ c.cells <= d.cells
    /\ d.clocks \subseteq c.clocks

(***************************************************************************)
(* A candidate that is at least as good as an accepted one on every figure *)
(* is accepted too: no gate of evaluate punishes an improvement.           *)
(***************************************************************************)
AcceptanceIsMonotone ==
    Accepted =>
      \A better \in Candidates :
         Dominates(better, cand) =>
           Evaluate(comparable, proof, base, better, guard).verdict = "ACCEPTED"

\* The exact change from b to c is less than half a unit above the limit, so it
\* rounds to the limit or below; or it is more, and rounds to something larger.
SurelyWithin(b, c, limit) == 2 * Whole * (c - b) < (2 * limit + 1) * Magnitude(b)
SurelyAbove(b, c, limit) == 2 * Whole * (c - b) > (2 * limit + 1) * Magnitude(b)

\* The five checks at the head of policy.py, read off that text, on exact figures.
Met(g) ==
    CASE g = 1 -> comparable
      [] g = 2 -> proof = "PASS"
      [] g = 3 -> guard.preserve => base.clocks \subseteq cand.clocks
      [] g = 4 -> cand.wns > base.wns \/ cand.wns >= 0
      [] g = 5 -> /\ SurelyWithin(base.area, cand.area, guard.area)
                  /\ SurelyWithin(base.cells, cand.cells, guard.cells)

\* Where a tie of the rounding is what decides the fifth, it is neither met nor failed.
Failed(g) ==
    IF g = 5 THEN \/ SurelyAbove(base.area, cand.area, guard.area)
                  \/ SurelyAbove(base.cells, cand.cells, guard.cells)
             ELSE ~Met(g)

\* What the failure of each is recorded as
RecordedAs ==
    << {"NON_COMPARABLE"}, {"UNPROVEN", "NOT_EQUIVALENT"}, {"GUARDRAIL_BREACH"},
       {"QOR_REGRESSION"}, {"GUARDRAIL_BREACH"} >>

FullyMeasured ==
    \A r \in {base, cand} : Measured(r.wns) /\ Measured(r.area) /\ Measured(r.cells)

(***************************************************************************)
(* With every figure measured, a candidate is accepted only if none of the *)
(* five documented checks fails.  If it is not, the failure class names a  *)
(* check that is not met and that no failed one precedes.  Nothing is said *)
(* of which way a tie of the rounding goes.                                *)
(***************************************************************************)
FailureNamesFirstCheck ==
    (decision # Pending /\ FullyMeasured /\ base.area > 0 /\ base.cells > 0) =>
      IF Accepted
      THEN \A g \in 1 .. 5 : ~Failed(g)
      ELSE \E g \in 1 .. 5 :
             /\ ~Met(g) /\ decision.failure \in RecordedAs[g]
             /\ \A h \in 1 .. g - 1 : ~Failed(h)

(***************************************************************************)
(* No accepted candidate grew by more than the declared limit plus half a  *)
(* unit of the third decimal, whatever else was or was not measured.       *)
(***************************************************************************)
AcceptedAreaIsBounded ==
    Accepted =>
      2 * Whole * (cand.area - base.area) <= (2 * guard.area + 1) * Magnitude(base.area)

(***************************************************************************)
(* policy.py:15, "Timing must improve (or the target violation close)": an *)
(* accepted candidate is not slower than the baseline, because closing a   *)
(* violation makes it faster too.                                          *)
(***************************************************************************)
AcceptedIsNotSlower == Accepted /\ Measured(base.wns) => cand.wns >= base.wns

(***************************************************************************)
(* policy.py:16, "Area/cell regressions must stay within the declared      *)
(* limit": an accepted candidate's cell count was measured and is within   *)
(* it.                                                                     *)
(***************************************************************************)
AcceptedCellsWithinLimit ==
    Accepted => /\ Measured(base.cells) /\ Measured(cand.cells)
                /\ RelativePct(base.cells, cand.cells) <= guard.cells

============================================================================
