-------------------------------- MODULE Asm --------------------------------
(***************************************************************************)
(* The transition table of the optimization loop                           *)
(* (src/orchestrator/statemachine.py) as data, and what                    *)
(* StateMachine.advance makes of it.  The module has no variables: the     *)
(* pipeline that drives the machine (Pipeline) and the abstract walk of    *)
(* the table (AsmWalk) both build on it.                                   *)
(***************************************************************************)

\* RunState
RunStates ==
    {"IDLE", "VALIDATE", "BASELINE_SYNTH", "BASELINE_STA", "PARSE", "MAP",
     "BUILD_REQUEST", "LLM_PROPOSE", "LLM_REPAIR", "VALIDATE_RECOMMENDATION",
     "APPLY_PATCH", "SCREEN", "EQY", "ORFS", "COMPARE", "NEXT_ITERATION",
     "DONE", "FAILED"}

\* FailureClass (schemas/common.py)
FailureClasses ==
    {"NONE", "INVALID_INPUT", "SYNTHESIS_FAILED", "INVALID_CONSTRAINTS",
     "PARSER_FAILED", "SCHEMA_INVALID", "UNGROUNDED_CLAIM", "ABSTAINED",
     "PATCH_REJECTED", "PROTECTED_REGION", "QOR_REGRESSION",
     "NOT_EQUIVALENT", "UNPROVEN", "PHYSICAL_FAILED", "GUARDRAIL_BREACH",
     "NON_COMPARABLE", "CYCLE_DETECTED"}

\* An edge: Transition(source, outcome, target, failure_class)
Edge(s, o, t, f) == [source |-> s, outcome |-> o, target |-> t, failure |-> f]

\* TRANSITIONS, one edge per line of the table
Transitions ==
  { Edge("IDLE", "start", "VALIDATE", "NONE"),
    Edge("VALIDATE", "valid", "BASELINE_SYNTH", "NONE"),
    Edge("VALIDATE", "invalid", "FAILED", "INVALID_INPUT"),
    Edge("BASELINE_SYNTH", "ok", "BASELINE_STA", "NONE"),
    Edge("BASELINE_SYNTH", "failed", "FAILED", "SYNTHESIS_FAILED"),
    Edge("BASELINE_STA", "constrained", "PARSE", "NONE"),
    Edge("BASELINE_STA", "unconstrained", "FAILED", "INVALID_CONSTRAINTS"),
    Edge("BASELINE_STA", "failed", "FAILED", "INVALID_CONSTRAINTS"),
    Edge("PARSE", "ok", "MAP", "NONE"),
    Edge("PARSE", "failed", "FAILED", "PARSER_FAILED"),
    Edge("MAP", "ok", "BUILD_REQUEST", "NONE"),
    Edge("BUILD_REQUEST", "ok", "LLM_PROPOSE", "NONE"),
    Edge("LLM_PROPOSE", "responded", "VALIDATE_RECOMMENDATION", "NONE"),
    Edge("LLM_PROPOSE", "error", "NEXT_ITERATION", "SCHEMA_INVALID"),
    Edge("VALIDATE_RECOMMENDATION", "valid", "APPLY_PATCH", "NONE"),
    Edge("VALIDATE_RECOMMENDATION", "abstained", "NEXT_ITERATION", "ABSTAINED"),
    Edge("VALIDATE_RECOMMENDATION", "repairable", "LLM_REPAIR", "NONE"),
    Edge("VALIDATE_RECOMMENDATION", "invalid", "NEXT_ITERATION", "SCHEMA_INVALID"),
    Edge("VALIDATE_RECOMMENDATION", "ungrounded", "NEXT_ITERATION", "UNGROUNDED_CLAIM"),
    Edge("LLM_REPAIR", "responded", "VALIDATE_RECOMMENDATION", "NONE"),
    Edge("LLM_REPAIR", "error", "NEXT_ITERATION", "SCHEMA_INVALID"),
    Edge("APPLY_PATCH", "applied", "SCREEN", "NONE"),
    Edge("APPLY_PATCH", "rejected", "NEXT_ITERATION", "PATCH_REJECTED"),
    Edge("APPLY_PATCH", "protected", "NEXT_ITERATION", "PROTECTED_REGION"),
    Edge("SCREEN", "improved", "EQY", "NONE"),
    Edge("SCREEN", "regressed", "NEXT_ITERATION", "QOR_REGRESSION"),
    Edge("SCREEN", "failed", "NEXT_ITERATION", "SYNTHESIS_FAILED"),
    Edge("EQY", "pass", "ORFS", "NONE"),
    Edge("EQY", "fail", "NEXT_ITERATION", "NOT_EQUIVALENT"),
    Edge("EQY", "unknown", "NEXT_ITERATION", "UNPROVEN"),
    Edge("ORFS", "completed", "COMPARE", "NONE"),
    Edge("ORFS", "failed", "NEXT_ITERATION", "PHYSICAL_FAILED"),
    Edge("COMPARE", "accepted", "NEXT_ITERATION", "NONE"),
    Edge("COMPARE", "guardrail_breach", "NEXT_ITERATION", "GUARDRAIL_BREACH"),
    Edge("COMPARE", "non_comparable", "NEXT_ITERATION", "NON_COMPARABLE"),
    Edge("NEXT_ITERATION", "continue", "BUILD_REQUEST", "NONE"),
    Edge("NEXT_ITERATION", "budget_exhausted", "DONE", "NONE"),
    Edge("NEXT_ITERATION", "cycle_detected", "DONE", "CYCLE_DETECTED") }

\* _INDEX.get((state, outcome)): the edges the pair selects (at most one)
EdgesOn(s, o) == {e \in Transitions : e.source = s /\ e.outcome = o}

\* advance raises ValueError when the table has no such edge
HasEdge(s, o) == EdgesOn(s, o) # {}

\* advance, for a pair that has an edge: the state it moves to ...
Target(s, o) == (CHOOSE e \in EdgesOn(s, o) : TRUE).target

\* ... and the last_failure it leaves; an edge without a class keeps the old one
FailureAfter(s, o, last) ==
    LET f == (CHOOSE e \in EdgesOn(s, o) : TRUE).failure
    IN  IF f = "NONE" THEN last ELSE f

============================================================================
