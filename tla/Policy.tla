------------------------------- MODULE Policy -------------------------------
(***************************************************************************)
(* The acceptance policy (src/orchestrator/policy.py) as pure operators.   *)
(*                                                                         *)
(* A measured quantity is an integer number of units (one unit is 1e-6 of  *)
(* the reported figure, the resolution absolute deltas are rounded to) or  *)
(* Unmeasured, the None of the code.  A percentage is an integer number of *)
(* milli-percent, because relative deltas are rounded to three decimals.   *)
(* The figures are taken to be moderate, so that the error of a float      *)
(* decides a tie but never carries a percentage across one.                *)
(*                                                                         *)
(* A run is a record [wns, area, cells, clocks]; the guardrails a record   *)
(* [preserve, area, cells].                                                *)
(***************************************************************************)
EXTENDS Integers

CONSTANTS
  Unmeasured,  \* None: the parser found no such figure
  TiesUp       \* the pairs <<baseline, candidate>> whose change lies halfway between
               \* two thousandths of a percent and whose float is the larger

Measured(q) == q # Unmeasured

\* 100 %, in thousandths of a percent
Whole == 100000

Magnitude(n) == IF n < 0 THEN -n ELSE n

\* round(x, 3), for the float x nearest to n / d: the nearest unit.  Of two that
\* are equally near to n / d the error of x, not parity, picks one.
Rounded(n, d, up) ==
    LET q == n \div d
        twice == 2 * (n % d)
    IN  IF twice > d \/ (twice = d /\ up) THEN q + 1 ELSE q

\* Mutant of RelativePct: the change relative to the candidate's own figure
RelativeToCandidate(b, c) ==
    IF Measured(b) /\ Measured(c) /\ b # 0 /\ c # 0
    THEN Rounded(Whole * (c - b), Magnitude(c), <<b, c>> \in TiesUp)
    ELSE Unmeasured

\* _delta(...).relative_delta_pct: None without both figures or on a zero base
RelativePct(b, c) ==
    IF Measured(b) /\ Measured(c) /\ b # 0
    THEN Rounded(Whole * (c - b), Magnitude(b), <<b, c>> \in TiesUp)
    ELSE Unmeasured

\* _delta("wns", ...).direction = "improve"
WnsImproves(b, c) == Measured(b) /\ Measured(c) /\ c > b

\* Mutant of TargetClosed: off by one at exactly zero slack
TargetExceeded(c) == Measured(c) /\ c > 0

\* the target violation is closed: candidate wns >= 0
TargetClosed(c) == Measured(c) /\ c >= 0

\* Mutant of WithinGuardrail: bounds the size of the change in both directions
WithinMagnitude(pct, limit) ==
    IF Measured(pct) THEN Magnitude(pct) <= limit ELSE 0 <= limit

\* `(relative or 0.0) <= limit`: a figure that is missing counts as no change
WithinGuardrail(pct, limit) == IF Measured(pct) THEN pct <= limit ELSE 0 <= limit

Decision(v, f) == [verdict |-> v, failure |-> f, raised |-> FALSE]

\* The accept message formats two deltas with "+"; None has no such format and
\* the TypeError leaves evaluate without a verdict.
RaisedWhileAccepting ==
    [verdict |-> "NOT_EVALUATED", failure |-> "NONE", raised |-> TRUE]

GuardrailsHold(base, cand, guard) ==
    /\ WithinGuardrail(RelativePct(base.area, cand.area), guard.area)
    /\ WithinGuardrail(RelativePct(base.cells, cand.cells), guard.cells)

AcceptMessageFormats(base, cand) ==
    /\ Measured(base.wns) /\ Measured(cand.wns)
    /\ Measured(RelativePct(base.area, cand.area))

\* evaluate: the gates in the order of the code, the first that fails decides
Evaluate(comparable, eqy, base, cand, guard) ==
    IF ~comparable
    THEN Decision("NON_COMPARABLE", "NON_COMPARABLE")
    ELSE IF eqy \in {"UNKNOWN", "TIMEOUT"}
    THEN Decision("REJECTED", "UNPROVEN")
    ELSE IF eqy # "PASS"
    THEN Decision("REJECTED", "NOT_EQUIVALENT")
    ELSE IF guard.preserve /\ ~(base.clocks \subseteq cand.clocks)
    THEN Decision("REJECTED", "GUARDRAIL_BREACH")
    ELSE IF ~WnsImproves(base.wns, cand.wns) /\ ~TargetClosed(cand.wns)
    THEN Decision("REJECTED", "QOR_REGRESSION")
    ELSE IF ~GuardrailsHold(base, cand, guard)
    THEN Decision("REJECTED", "GUARDRAIL_BREACH")
    ELSE IF ~AcceptMessageFormats(base, cand)
    THEN RaisedWhileAccepting
    ELSE Decision("ACCEPTED", "NONE")

\* screen_improved: strictly better slack after synthesis, both measured
ScreenImproved(baseWns, candWns) ==
    Measured(baseWns) /\ Measured(candWns) /\ candWns > baseWns

============================================================================
