--------------------------- MODULE PipelineProofs ---------------------------
(***************************************************************************)
(* Type correctness and the main safety invariants of Pipeline, for every  *)
(* iteration budget and every set of patches, netlists and settings.       *)
(*                                                                         *)
(* None of the invariants is inductive by itself: IInv adds that a patch   *)
(* that was built is remembered by the ledger or by the record on its way  *)
(* there, that a netlist that was proved is in seen_netlists, and that the *)
(* ledger holds one record per finished iteration.  There is one lemma per *)
(* action or group of actions that treat the ledger alike.                 *)
(*                                                                         *)
(* Over IInv follow what the records tell, the settings what was accepted  *)
(* was measured under, the refinement of the abstract walk, and how many   *)
(* steps the loop may take.                                                *)
(***************************************************************************)
EXTENDS Pipeline, SequenceTheorems, TLAPS

\* Every edge of TRANSITIONS leads to a state, with a failure class of the enum.
LEMMA TableIsTyped ==
  \A e \in Transitions : e.target \in RunStates /\ e.failure \in FailureClasses
BY SMTT(60) DEF Transitions, Edge, RunStates, FailureClasses

\* No (state, outcome) pair occurs twice: _INDEX loses no transition.
LEMMA TableIsDeterministic ==
  \A e, f \in Transitions :
     e.source = f.source /\ e.outcome = f.outcome => e = f
BY SMTT(60) DEF Transitions, Edge

\* What advance looks up, for an edge of the table
LEMMA EdgeTaken ==
  ASSUME NEW e \in Transitions, NEW last
  PROVE  /\ HasEdge(e.source, e.outcome)
         /\ Target(e.source, e.outcome) = e.target
         /\ FailureAfter(e.source, e.outcome, last) =
              IF e.failure = "NONE" THEN last ELSE e.failure
<1>1. EdgesOn(e.source, e.outcome) = {e}
  BY TableIsDeterministic DEF EdgesOn
<1>2. (CHOOSE x \in EdgesOn(e.source, e.outcome) : TRUE) = e
  BY <1>1
<1> QED
  BY <1>1, <1>2 DEF HasEdge, Target, FailureAfter

\* advance leaves the machine in a state of the enum, or raises.
LEMMA AdvanceIsTyped ==
  ASSUME NEW o, NEW c \in Places, TypeOK, Advance(o, c)
  PROVE  /\ state' \in RunStates /\ last_failure' \in FailureClasses
         /\ ctl' \in {c, "off_table"}
<1>1. CASE HasEdge(state, o)
  <2> DEFINE e == CHOOSE x \in EdgesOn(state, o) : TRUE
  <2>1. e \in Transitions
    BY <1>1 DEF HasEdge, EdgesOn
  <2>2. e.target \in RunStates /\ e.failure \in FailureClasses
    BY <2>1, TableIsTyped
  <2> QED
    BY <1>1, <2>2 DEF Advance, Target, FailureAfter, TypeOK
<1>2. CASE ~HasEdge(state, o)
  BY <1>2 DEF Advance, machine, TypeOK
<1> QED
  BY <1>1, <1>2

\* A rejected record is a record: only its verdict and its class change.
LEMMA RejectIsTyped ==
  ASSUME NEW o, NEW r \in Records, TypeOK, Reject(o, r)
  PROVE  /\ state' \in RunStates /\ last_failure' \in FailureClasses
         /\ ctl' \in {"tail", "off_table"}
         /\ rec' = [r EXCEPT !.verdict = "REJECTED", !.failure_class = last_failure']
         /\ rec' \in Records
<1>1. /\ state' \in RunStates /\ last_failure' \in FailureClasses
      /\ ctl' \in {"tail", "off_table"}
  BY AdvanceIsTyped DEF Reject, Places
<1>2. rec' = [r EXCEPT !.verdict = "REJECTED", !.failure_class = last_failure']
  BY DEF Reject, Rejected
<1>3. rec' \in Records
  BY <1>1, <1>2 DEF Records
<1> QED
  BY <1>1, <1>2, <1>3

\* evaluate decides with a verdict and a class of the two enums.
LEMMA DecisionIsTyped ==
  /\ PolicyDecision.verdict \in {"NOT_EVALUATED", "ACCEPTED", "REJECTED", "NON_COMPARABLE"}
  /\ PolicyDecision.failure \in FailureClasses
BY DEF PolicyDecision, Evaluate, Decision, RaisedWhileAccepting, FailureClasses

\* The loop starts well typed.
LEMMA InitIsTyped == Init => TypeOK
<1> SUFFICES ASSUME Init PROVE TypeOK
  OBVIOUS
<1>1. FreshRecord \in Records
  BY DEF FreshRecord, Records, FailureClasses
<1>2. FreshLocals \in Locals
  BY DEF FreshLocals, Locals
<1>3. BaseSettings \in Settings
  BY SettingsAssumption DEF BaseSettings
<1>4. ledger \in Ledgers /\ report \in Reports
  BY DEF Init, Ledgers, Reports, StopReasons
<1>5. audit \in Audits
  BY DEF Init, Audits
<1> QED
  BY <1>1, <1>2, <1>3, <1>4, <1>5, MaxIterationsAssumption
     DEF Init, TypeOK, Places, RunStates, FailureClasses

\* advance along an edge of the table
LEMMA AdvanceAlong ==
  ASSUME NEW o, NEW c, NEW t, NEW f,
         Edge(state, o, t, f) \in Transitions, Advance(o, c)
  PROVE  /\ state' = t /\ ctl' = c
         /\ last_failure' = IF f = "NONE" THEN last_failure ELSE f
<1>1. /\ HasEdge(state, o)
      /\ Target(state, o) = t
      /\ FailureAfter(state, o, last_failure) = IF f = "NONE" THEN last_failure ELSE f
  <2> DEFINE e == Edge(state, o, t, f)
  <2>1. e.source = state /\ e.outcome = o /\ e.target = t /\ e.failure = f
    BY DEF Edge
  <2> HIDE DEF e
  <2>2. e \in Transitions
    BY DEF e
  <2> QED
    BY <2>1, <2>2, EdgeTaken
<1> QED
  BY <1>1 DEF Advance

----------------------------------------------------------------------------
(***************************************************************************)
(* The inductive invariant                                                 *)
(***************************************************************************)

\* The ledger holds one record per finished iteration.
Counted ==
    /\ ctl = "head" => index < MaxIterations
    /\ ctl \in {"body", "tail"} => index >= 1
    /\ Len(ledger.iterations) =
         IF ctl \in {"body", "tail", "raised"} THEN index - 1 ELSE index

\* The boxes an iteration passes before it has a candidate
Early == {"BUILD_REQUEST", "LLM_PROPOSE", "LLM_REPAIR",
          "VALIDATE_RECOMMENDATION", "APPLY_PATCH"}

\* A hash that was built is in the ledger or in the record on its way there.
BuiltOnce ==
    /\ \A h \in Hashes :
         /\ audit.built[h] <= 1
         /\ audit.built[h] = 1 =>
              \/ h \in ledger.seen
              \/ ctl \in {"body", "tail", "raised"} /\ rec.patch_hash = h
    /\ (ctl = "body" /\ state \in Early) => rec.patch_hash = None

\* A netlist that was proved is remembered; the one about to be proved is
\* remembered and was not proved.
ProvedOnce ==
    /\ \A n \in Netlists :
         audit.proofs[n] <= 1 /\ (audit.proofs[n] = 1 => n \in seen_netlists)
    /\ At("EQY") => /\ cur.netlist \in seen_netlists
                    /\ audit.proofs[cur.netlist] = 0

IInv == TypeOK /\ ctl # "off_table" /\ Counted /\ BuiltOnce /\ ProvedOnce

\* The inductive invariant holds initially.
LEMMA InitHolds == Init => IInv
<1> SUFFICES ASSUME Init PROVE IInv
  OBVIOUS
<1>1. TypeOK
  BY InitIsTyped
<1>2. Counted
  BY MaxIterationsAssumption DEF Init, Counted
<1>3. BuiltOnce
  BY DEF Init, BuiltOnce, FreshRecord
<1>4. ProvedOnce
  BY DEF Init, ProvedOnce, At
<1> QED
  BY <1>1, <1>2, <1>3, <1>4 DEF Init, IInv

\* The actions of an iteration before there is a candidate, and those that
\* reject one, leave the ledger and the audit alone.
LEMMA QuietStep ==
  ASSUME IInv, ctl = "body", ctl' \in {"body", "tail", "raised"},
         state' \in RunStates, last_failure' \in FailureClasses,
         rec' \in Records, rec'.patch_hash = rec.patch_hash,
         cur' \in Locals,
         ctl' = "body" /\ state' \in Early => state \in Early,
         ~At("EQY")',
         UNCHANGED <<seen_netlists, index, ledger, report, environment, audit>>
  PROVE  IInv'
<1>1. TypeOK'
  BY DEF IInv, TypeOK, Places, environment
<1>2. Counted'
  BY DEF IInv, Counted
<1>3. BuiltOnce'
  BY DEF IInv, BuiltOnce
<1>4. ProvedOnce'
  BY DEF IInv, ProvedOnce
<1> QED
  BY <1>1, <1>2, <1>3, <1>4 DEF IInv

\* A new iteration: a fresh record, and the audit of its tools is empty
LEMMA BeginPreserves == IInv /\ BeginIteration => IInv'
<1> SUFFICES ASSUME IInv, BeginIteration PROVE IInv'
  OBVIOUS
<1> USE DEF BeginIteration
<1>1. TypeOK'
  <2>1. FreshRecord \in Records /\ FreshLocals \in Locals
    BY DEF FreshRecord, Records, FreshLocals, Locals, FailureClasses
  <2>2. index' \in 0 .. MaxIterations
    BY MaxIterationsAssumption DEF IInv, TypeOK, Counted
  <2>3. audit' \in Audits
    BY DEF IInv, TypeOK, Audits
  <2> QED
    BY <2>1, <2>2, <2>3
       DEF IInv, TypeOK, Places, RunStates, FailureClasses, ClearedFailure, environment
<1>2. Counted'
  BY DEF IInv, TypeOK, Counted
<1>3. BuiltOnce'
  BY DEF IInv, TypeOK, Audits, BuiltOnce, FreshRecord
<1>4. ProvedOnce'
  BY DEF IInv, TypeOK, Audits, ProvedOnce, At
<1> QED
  BY <1>1, <1>2, <1>3, <1>4 DEF IInv

\* What an edge of the table does to the machine, for the edges the loop uses
LEMMA EdgesOfTheLoop ==
  /\ Edge("BUILD_REQUEST", "ok", "LLM_PROPOSE", "NONE") \in Transitions
  /\ Edge("LLM_PROPOSE", "responded", "VALIDATE_RECOMMENDATION", "NONE") \in Transitions
  /\ Edge("LLM_PROPOSE", "error", "NEXT_ITERATION", "SCHEMA_INVALID") \in Transitions
  /\ Edge("VALIDATE_RECOMMENDATION", "valid", "APPLY_PATCH", "NONE") \in Transitions
  /\ Edge("VALIDATE_RECOMMENDATION", "repairable", "LLM_REPAIR", "NONE") \in Transitions
  /\ Edge("VALIDATE_RECOMMENDATION", "abstained", "NEXT_ITERATION", "ABSTAINED") \in Transitions
  /\ Edge("VALIDATE_RECOMMENDATION", "invalid", "NEXT_ITERATION", "SCHEMA_INVALID") \in Transitions
  /\ Edge("VALIDATE_RECOMMENDATION", "ungrounded", "NEXT_ITERATION", "UNGROUNDED_CLAIM") \in Transitions
  /\ Edge("LLM_REPAIR", "responded", "VALIDATE_RECOMMENDATION", "NONE") \in Transitions
  /\ Edge("LLM_REPAIR", "error", "NEXT_ITERATION", "SCHEMA_INVALID") \in Transitions
  /\ Edge("APPLY_PATCH", "applied", "SCREEN", "NONE") \in Transitions
  /\ Edge("APPLY_PATCH", "rejected", "NEXT_ITERATION", "PATCH_REJECTED") \in Transitions
  /\ Edge("APPLY_PATCH", "protected", "NEXT_ITERATION", "PROTECTED_REGION") \in Transitions
  /\ Edge("SCREEN", "improved", "EQY", "NONE") \in Transitions
  /\ Edge("SCREEN", "regressed", "NEXT_ITERATION", "QOR_REGRESSION") \in Transitions
  /\ Edge("SCREEN", "failed", "NEXT_ITERATION", "SYNTHESIS_FAILED") \in Transitions
  /\ Edge("EQY", "pass", "ORFS", "NONE") \in Transitions
  /\ Edge("EQY", "fail", "NEXT_ITERATION", "NOT_EQUIVALENT") \in Transitions
  /\ Edge("EQY", "unknown", "NEXT_ITERATION", "UNPROVEN") \in Transitions
  /\ Edge("ORFS", "completed", "COMPARE", "NONE") \in Transitions
  /\ Edge("ORFS", "failed", "NEXT_ITERATION", "PHYSICAL_FAILED") \in Transitions
  /\ Edge("COMPARE", "accepted", "NEXT_ITERATION", "NONE") \in Transitions
  /\ Edge("COMPARE", "guardrail_breach", "NEXT_ITERATION", "GUARDRAIL_BREACH") \in Transitions
  /\ Edge("COMPARE", "non_comparable", "NEXT_ITERATION", "NON_COMPARABLE") \in Transitions
  /\ Edge("NEXT_ITERATION", "continue", "BUILD_REQUEST", "NONE") \in Transitions
<1>1. /\ Edge("BUILD_REQUEST", "ok", "LLM_PROPOSE", "NONE") \in Transitions
      /\ Edge("LLM_PROPOSE", "responded", "VALIDATE_RECOMMENDATION", "NONE") \in Transitions
      /\ Edge("LLM_PROPOSE", "error", "NEXT_ITERATION", "SCHEMA_INVALID") \in Transitions
      /\ Edge("VALIDATE_RECOMMENDATION", "valid", "APPLY_PATCH", "NONE") \in Transitions
      /\ Edge("VALIDATE_RECOMMENDATION", "repairable", "LLM_REPAIR", "NONE") \in Transitions
  BY DEF Transitions
<1>2. /\ Edge("VALIDATE_RECOMMENDATION", "abstained", "NEXT_ITERATION", "ABSTAINED") \in Transitions
      /\ Edge("VALIDATE_RECOMMENDATION", "invalid", "NEXT_ITERATION", "SCHEMA_INVALID") \in Transitions
      /\ Edge("VALIDATE_RECOMMENDATION", "ungrounded", "NEXT_ITERATION", "UNGROUNDED_CLAIM") \in Transitions
      /\ Edge("LLM_REPAIR", "responded", "VALIDATE_RECOMMENDATION", "NONE") \in Transitions
      /\ Edge("LLM_REPAIR", "error", "NEXT_ITERATION", "SCHEMA_INVALID") \in Transitions
  BY DEF Transitions
<1>3. /\ Edge("APPLY_PATCH", "applied", "SCREEN", "NONE") \in Transitions
      /\ Edge("APPLY_PATCH", "rejected", "NEXT_ITERATION", "PATCH_REJECTED") \in Transitions
      /\ Edge("APPLY_PATCH", "protected", "NEXT_ITERATION", "PROTECTED_REGION") \in Transitions
      /\ Edge("SCREEN", "improved", "EQY", "NONE") \in Transitions
      /\ Edge("SCREEN", "regressed", "NEXT_ITERATION", "QOR_REGRESSION") \in Transitions
  BY DEF Transitions
<1>4. /\ Edge("SCREEN", "failed", "NEXT_ITERATION", "SYNTHESIS_FAILED") \in Transitions
      /\ Edge("EQY", "pass", "ORFS", "NONE") \in Transitions
      /\ Edge("EQY", "fail", "NEXT_ITERATION", "NOT_EQUIVALENT") \in Transitions
      /\ Edge("EQY", "unknown", "NEXT_ITERATION", "UNPROVEN") \in Transitions
      /\ Edge("ORFS", "completed", "COMPARE", "NONE") \in Transitions
  BY DEF Transitions
<1>5. /\ Edge("ORFS", "failed", "NEXT_ITERATION", "PHYSICAL_FAILED") \in Transitions
      /\ Edge("COMPARE", "accepted", "NEXT_ITERATION", "NONE") \in Transitions
      /\ Edge("COMPARE", "guardrail_breach", "NEXT_ITERATION", "GUARDRAIL_BREACH") \in Transitions
      /\ Edge("COMPARE", "non_comparable", "NEXT_ITERATION", "NON_COMPARABLE") \in Transitions
      /\ Edge("NEXT_ITERATION", "continue", "BUILD_REQUEST", "NONE") \in Transitions
  BY DEF Transitions
<1> QED
  BY <1>1, <1>2, <1>3, <1>4, <1>5

\* The steps around the language model
LEMMA ModelStepsPreserve ==
  IInv /\ (BuildRequest \/ ProposeFails \/ Propose \/ Proceed \/ Decline
             \/ RepairFails \/ Repair \/ NoPatchToHash) => IInv'
<1> SUFFICES ASSUME IInv PROVE (BuildRequest \/ ProposeFails \/ Propose \/ Proceed
             \/ Decline \/ RepairFails \/ Repair \/ NoPatchToHash) => IInv'
  OBVIOUS
<1> USE DEF At, Loop, Early
<1>0. TypeOK /\ rec \in Records /\ cur \in Locals
  BY DEF IInv, TypeOK
<1>1. ASSUME BuildRequest PROVE IInv'
  <2>1. state' = "LLM_PROPOSE" /\ ctl' = "body" /\ last_failure' = last_failure
    BY <1>1, EdgesOfTheLoop, AdvanceAlong DEF BuildRequest
  <2> QED
    BY <1>0, <1>1, <2>1, QuietStep DEF BuildRequest, TypeOK, RunStates
<1>2. ASSUME ProposeFails PROVE IInv'
  <2>1. state' = "NEXT_ITERATION" /\ ctl' = "tail"
    BY <1>2, EdgesOfTheLoop, AdvanceAlong DEF ProposeFails, Reject
  <2>2. last_failure' \in FailureClasses /\ rec' \in Records
        /\ rec'.patch_hash = rec.patch_hash
    BY <1>0, <1>2, RejectIsTyped DEF ProposeFails, Records
  <2> QED
    BY <1>0, <1>2, <2>1, <2>2, QuietStep DEF ProposeFails, RunStates
<1>3. ASSUME Propose PROVE IInv'
  <2>1. state' = "VALIDATE_RECOMMENDATION" /\ ctl' = "body" /\ last_failure' = last_failure
    BY <1>3, EdgesOfTheLoop, AdvanceAlong DEF Propose
  <2>2. cur' \in Locals
    BY <1>0, <1>3 DEF Propose, Locals
  <2> QED
    BY <1>0, <1>3, <2>1, <2>2, QuietStep DEF Propose, TypeOK, RunStates
<1>4. ASSUME Proceed PROVE IInv'
  <2>1. /\ state' \in {"APPLY_PATCH", "LLM_REPAIR"}
        /\ ctl' = "body" /\ last_failure' = last_failure
    BY <1>4, EdgesOfTheLoop, AdvanceAlong DEF Proceed
  <2> QED
    BY <1>0, <1>4, <2>1, QuietStep DEF Proceed, TypeOK, RunStates
<1>5. ASSUME Decline PROVE IInv'
  <2>1. last_failure' \in FailureClasses
    <3> DEFINE o == Outcome(cur.answer, cur.repaired)
    <3>1. /\ o \in {"abstained", "repairable", "ungrounded", "invalid"}
          /\ last_failure' = FailureAfter("VALIDATE_RECOMMENDATION", o, last_failure)
      BY <1>5 DEF Decline, Outcome
    <3>2. \A x \in {"abstained", "repairable", "ungrounded", "invalid"} :
            FailureAfter("VALIDATE_RECOMMENDATION", x, last_failure) \in
              {last_failure, "ABSTAINED", "UNGROUNDED_CLAIM", "SCHEMA_INVALID"}
      BY EdgesOfTheLoop, EdgeTaken DEF Edge
    <3> QED
      BY <1>0, <3>1, <3>2 DEF TypeOK, FailureClasses
  <2>2. rec' \in Records /\ rec'.patch_hash = rec.patch_hash
    BY <1>0, <1>5, <2>1 DEF Decline, Rejected, Records
  <2> QED
    BY <1>0, <1>5, <2>1, <2>2, QuietStep DEF Decline, RunStates
<1>6. ASSUME RepairFails PROVE IInv'
  <2>1. state' = "NEXT_ITERATION" /\ ctl' = "tail"
    BY <1>6, EdgesOfTheLoop, AdvanceAlong DEF RepairFails, Reject
  <2>2. last_failure' \in FailureClasses /\ rec' \in Records
        /\ rec'.patch_hash = rec.patch_hash
    BY <1>0, <1>6, RejectIsTyped DEF RepairFails, Records
  <2> QED
    BY <1>0, <1>6, <2>1, <2>2, QuietStep DEF RepairFails, RunStates
<1>7. ASSUME Repair PROVE IInv'
  <2>1. state' = "VALIDATE_RECOMMENDATION" /\ ctl' = "body" /\ last_failure' = last_failure
    BY <1>7, EdgesOfTheLoop, AdvanceAlong DEF Repair
  <2>2. cur' \in Locals
    BY <1>0, <1>7 DEF Repair, Locals
  <2> QED
    BY <1>0, <1>7, <2>1, <2>2, QuietStep DEF Repair, TypeOK, RunStates
<1>8. ASSUME NoPatchToHash PROVE IInv'
  BY <1>0, <1>8, QuietStep DEF NoPatchToHash, Raise, machine, TypeOK
<1> QED
  BY <1>1, <1>2, <1>3, <1>4, <1>5, <1>6, <1>7, <1>8

\* A repeated patch is rejected before anything is built.
LEMMA RepeatPreserves == IInv /\ Repeat => IInv'
<1> SUFFICES ASSUME IInv, Repeat PROVE IInv'
  OBVIOUS
<1> USE DEF Repeat, At
<1>0. cur.answer.hash \in Hashes /\ rec.patch_hash = None
  BY DEF IInv, TypeOK, Ledgers, BuiltOnce, Early
<1>1. TypeOK'
  <2>1. rec' \in Records
    BY <1>0 DEF IInv, TypeOK, Rejected, Records
  <2>2. ledger' \in Ledgers
    BY DEF IInv, TypeOK, Ledgers, StopReasons
  <2> QED
    BY <2>1, <2>2 DEF IInv, TypeOK, Places, RunStates, environment
<1>2. Counted'
  BY DEF IInv, TypeOK, Ledgers, Counted
<1>3. BuiltOnce'
  BY <1>0, NoneAssumption DEF IInv, TypeOK, Ledgers, BuiltOnce, Early
<1>4. ProvedOnce'
  BY DEF IInv, ProvedOnce
<1> QED
  BY <1>1, <1>2, <1>3, <1>4 DEF IInv

\* A hash that is not in the ledger is built for the first time.
LEMMA BuildPreserves ==
  ASSUME IInv, BuildCandidate, ctl' \in {"body", "tail"},
         state' \in {"SCREEN", "NEXT_ITERATION"}, last_failure' \in FailureClasses,
         rec' \in Records, rec'.patch_hash = cur.answer.hash
  PROVE  IInv'
<1> USE DEF BuildCandidate, At, Loop
<1>0. rec.patch_hash = None
  BY DEF IInv, BuiltOnce, Early
<1>1. TypeOK'
  <2>1. audit' \in Audits
    BY DEF IInv, TypeOK, Audits
  <2> QED
    BY <2>1 DEF IInv, TypeOK, Places, RunStates, environment
<1>2. Counted'
  BY DEF IInv, Counted
<1>3. BuiltOnce'
  <2> SUFFICES ASSUME NEW h \in Hashes
               PROVE  /\ audit'.built[h] <= 1
                      /\ audit'.built[h] = 1 =>
                           \/ h \in ledger'.seen
                           \/ ctl' \in {"body", "tail", "raised"} /\ rec'.patch_hash = h
    BY DEF BuiltOnce, Early
  <2>1. CASE h = cur.answer.hash
    <3>1. audit.built[h] = 0
      BY <1>0, <2>1, NoneAssumption DEF IInv, TypeOK, Audits, BuiltOnce
    <3>2. audit'.built[h] = 1
      BY <2>1, <3>1 DEF IInv, TypeOK, Audits
    <3> QED
      BY <2>1, <3>2
  <2>2. CASE h # cur.answer.hash
    <3>1. audit'.built[h] = audit.built[h]
      BY <2>2 DEF IInv, TypeOK, Audits
    <3> QED
      BY <1>0, <3>1, NoneAssumption DEF IInv, BuiltOnce
  <2> QED
    BY <2>1, <2>2
<1>4. ProvedOnce'
  BY DEF IInv, TypeOK, Audits, ProvedOnce
<1> QED
  BY <1>1, <1>2, <1>3, <1>4 DEF IInv

\* The record of a candidate is a record, and carries the hash of its patch.
LEMMA CandidateIsTyped ==
  ASSUME TypeOK, BuildCandidate
  PROVE  CandidateRecord \in Records /\ CandidateRecord.patch_hash = cur.answer.hash
BY DEF TypeOK, BuildCandidate, CandidateRecord, Records

\* The patch applied
LEMMA AppliedPreserves == IInv /\ Applied => IInv'
<1> SUFFICES ASSUME IInv, Applied PROVE IInv'
  OBVIOUS
<1>1. state' = "SCREEN" /\ ctl' = "body" /\ last_failure' = last_failure
  BY EdgesOfTheLoop, AdvanceAlong DEF Applied, BuildCandidate, At
<1>2. rec' \in Records /\ rec'.patch_hash = cur.answer.hash
  BY CandidateIsTyped DEF IInv, Applied
<1> QED
  BY <1>1, <1>2, BuildPreserves DEF Applied, IInv, TypeOK

\* The patcher refused
LEMMA RefusedPreserves == IInv /\ PatchRefused => IInv'
<1> SUFFICES ASSUME IInv, PatchRefused PROVE IInv'
  OBVIOUS
<1>1. PICK o \in {"protected", "rejected"} : Reject(o, CandidateRecord)
  BY DEF PatchRefused
<1>2. state' = "NEXT_ITERATION" /\ ctl' = "tail"
  BY <1>1, EdgesOfTheLoop, AdvanceAlong DEF PatchRefused, BuildCandidate, At, Reject
<1>3. CandidateRecord \in Records /\ CandidateRecord.patch_hash = cur.answer.hash
  BY CandidateIsTyped DEF PatchRefused, IInv
<1>4. /\ last_failure' \in FailureClasses /\ rec' \in Records
      /\ rec'.patch_hash = cur.answer.hash
  BY <1>1, <1>3, RejectIsTyped DEF IInv, Records
<1> QED
  BY <1>2, <1>4, BuildPreserves DEF PatchRefused

\* Of the netlists, only one that is new to seen_netlists reaches EQY.
LEMMA ScreenPreserves == IInv /\ (SynthesisFails \/ Screen) => IInv'
<1> SUFFICES ASSUME IInv PROVE SynthesisFails \/ Screen => IInv'
  OBVIOUS
<1> USE DEF At, Loop, Early
<1>0. TypeOK /\ rec \in Records /\ cur \in Locals
  BY DEF IInv, TypeOK
<1>1. ASSUME SynthesisFails PROVE IInv'
  <2>1. state' = "NEXT_ITERATION" /\ ctl' = "tail"
    BY <1>1, EdgesOfTheLoop, AdvanceAlong DEF SynthesisFails, Reject
  <2>2. PICK status \in {"FAIL", "TIMEOUT", "ERROR"} :
          Reject("failed", [rec EXCEPT !.screen = status])
    BY <1>1 DEF SynthesisFails
  <2>3. last_failure' \in FailureClasses /\ rec' \in Records
        /\ rec'.patch_hash = rec.patch_hash
    <3>1. [rec EXCEPT !.screen = status] \in Records
      BY <1>0 DEF Records
    <3> QED
      BY <1>0, <2>2, <3>1, RejectIsTyped DEF Records
  <2> QED
    BY <1>0, <1>1, <2>1, <2>3, QuietStep DEF SynthesisFails, RunStates
<1>2. ASSUME Screen PROVE IInv'
  <2>1. PICK n \in Netlists, wns \in ScreenSlacks, clocks \in {{}, BaseRun.clocks} :
          LET better == ScreenImproved(BaseScreenWns, wns)
              r == [rec EXCEPT !.screen = IF Measured(wns) THEN "PASS" ELSE "ERROR"]
          IN  /\ IF n \in seen_netlists
                 THEN Reject("regressed", r) /\ UNCHANGED seen_netlists
                 ELSE /\ IF better THEN Advance("improved", "body") /\ rec' = r
                                   ELSE Reject("regressed", r)
                      /\ seen_netlists' = Remembered(seen_netlists, n, better)
              /\ cur' = [cur EXCEPT !.netlist = n, !.clocks = clocks]
    BY <1>2 DEF Screen
  <2> DEFINE r == [rec EXCEPT !.screen = IF Measured(wns) THEN "PASS" ELSE "ERROR"]
  <2>2. r \in Records /\ r.patch_hash = rec.patch_hash
    BY <1>0 DEF Records
  <2>3. cur' \in Locals /\ cur'.netlist = n
    BY <1>0, <2>1 DEF Locals
  <2>4. audit' \in Audits /\ audit'.built = audit.built /\ audit'.proofs = audit.proofs
    BY <1>0, <1>2 DEF Screen, TypeOK, Audits
  <2>5. seen_netlists' \in SUBSET Netlists /\ seen_netlists \subseteq seen_netlists'
    BY <1>0, <2>1 DEF TypeOK, Remembered
  <2>6. \/ /\ n \notin seen_netlists /\ n \in seen_netlists'
           /\ Advance("improved", "body") /\ rec' = r
        \/ Reject("regressed", r)
    BY <2>1 DEF Remembered
  <2> HIDE DEF r
  <2>7. /\ last_failure' \in FailureClasses /\ rec' \in Records
        /\ rec'.patch_hash = rec.patch_hash
        /\ \/ /\ state' = "EQY" /\ ctl' = "body"
              /\ n \notin seen_netlists /\ n \in seen_netlists'
           \/ state' = "NEXT_ITERATION" /\ ctl' = "tail"
    <3>1. CASE /\ n \notin seen_netlists /\ n \in seen_netlists'
               /\ Advance("improved", "body") /\ rec' = r
      <4>1. state' = "EQY" /\ ctl' = "body" /\ last_failure' = last_failure
        BY <1>2, <3>1, EdgesOfTheLoop, AdvanceAlong DEF Screen
      <4> QED
        BY <1>0, <2>2, <3>1, <4>1 DEF TypeOK
    <3>2. CASE Reject("regressed", r)
      <4>1. state' = "NEXT_ITERATION" /\ ctl' = "tail"
        BY <1>2, <3>2, EdgesOfTheLoop, AdvanceAlong DEF Screen, Reject
      <4>2. /\ last_failure' \in FailureClasses /\ rec' \in Records
            /\ rec' = [r EXCEPT !.verdict = "REJECTED", !.failure_class = last_failure']
        BY <1>0, <2>2, <3>2, RejectIsTyped
      <4>3. rec'.patch_hash = rec.patch_hash
        BY <2>2, <4>2 DEF Records
      <4> QED
        BY <4>1, <4>2, <4>3
    <3> QED
      BY <2>6, <3>1, <3>2
  <2>8. TypeOK'
    BY <1>0, <1>2, <2>3, <2>4, <2>5, <2>7
       DEF Screen, TypeOK, Places, RunStates, environment
  <2>9. Counted'
    BY <1>2, <2>7 DEF Screen, IInv, Counted
  <2>10. BuiltOnce'
    BY <1>2, <2>4, <2>7 DEF Screen, IInv, BuiltOnce
  <2>11. ProvedOnce'
    <3>1. \A m \in Netlists :
            audit'.proofs[m] <= 1 /\ (audit'.proofs[m] = 1 => m \in seen_netlists')
      BY <2>4, <2>5 DEF IInv, ProvedOnce
    <3>2. At("EQY")' => /\ n \in seen_netlists'
                        /\ audit'.proofs[n] = 0
      BY <1>0, <2>4, <2>7 DEF IInv, ProvedOnce, TypeOK, Audits
    <3> QED
      BY <2>3, <3>1, <3>2 DEF ProvedOnce
  <2> QED
    BY <2>7, <2>8, <2>9, <2>10, <2>11 DEF IInv
<1> QED
  BY <1>1, <1>2

\* The netlist under proof was remembered by the screen and never proved.
LEMMA ProvePreserves == IInv /\ Prove => IInv'
<1> SUFFICES ASSUME IInv, Prove PROVE IInv'
  OBVIOUS
<1> USE DEF At, Loop, Early
<1>0. TypeOK /\ rec \in Records /\ cur.netlist \in seen_netlists
      /\ audit.proofs[cur.netlist] = 0
  BY DEF IInv, TypeOK, Prove, ProvedOnce
<1>1. PICK status \in EqyStatuses :
        IF EqyEdge(status) = "pass"
        THEN Advance("pass", "body") /\ rec' = [rec EXCEPT !.eqy = status]
        ELSE Reject(EqyEdge(status), [rec EXCEPT !.eqy = status])
  BY DEF Prove
<1> DEFINE r == [rec EXCEPT !.eqy = status]
<1>2. r \in Records /\ r.patch_hash = rec.patch_hash
  BY <1>0 DEF Records
<1>9. /\ EqyEdge(status) = "pass" => Advance("pass", "body") /\ rec' = r
      /\ EqyEdge(status) # "pass" => Reject(EqyEdge(status), r)
  BY <1>1
<1> HIDE DEF r
<1>3. /\ last_failure' \in FailureClasses /\ rec' \in Records
      /\ rec'.patch_hash = rec.patch_hash
      /\ \/ state' = "ORFS" /\ ctl' = "body"
         \/ state' = "NEXT_ITERATION" /\ ctl' = "tail"
  <2>1. CASE EqyEdge(status) = "pass"
    <3>1. state' = "ORFS" /\ ctl' = "body" /\ last_failure' = last_failure
      BY <1>9, <2>1, EdgesOfTheLoop, AdvanceAlong DEF Prove
    <3> QED
      BY <1>0, <1>2, <1>9, <2>1, <3>1 DEF TypeOK
  <2>2. CASE EqyEdge(status) # "pass"
    <3>1. EqyEdge(status) \in {"fail", "unknown"} /\ Reject(EqyEdge(status), r)
      BY <1>9, <2>2 DEF EqyEdge
    <3>2. state' = "NEXT_ITERATION" /\ ctl' = "tail"
      BY <3>1, EdgesOfTheLoop, AdvanceAlong DEF Prove, Reject
    <3>3. /\ last_failure' \in FailureClasses /\ rec' \in Records
          /\ rec' = [r EXCEPT !.verdict = "REJECTED", !.failure_class = last_failure']
      BY <1>0, <1>2, <3>1, RejectIsTyped
    <3>4. rec'.patch_hash = r.patch_hash
      BY <1>2, <3>3 DEF Records
    <3> QED
      BY <1>2, <3>2, <3>3, <3>4
  <2> QED
    BY <2>1, <2>2
<1>4. audit' \in Audits /\ audit'.built = audit.built
  BY <1>0 DEF Prove, TypeOK, Audits
<1>5. TypeOK'
  BY <1>0, <1>3, <1>4 DEF Prove, TypeOK, Places, RunStates, environment
<1>6. Counted'
  BY <1>3 DEF Prove, IInv, Counted
<1>7. BuiltOnce'
  BY <1>3, <1>4 DEF Prove, IInv, BuiltOnce
<1>8. ProvedOnce'
  BY <1>0, <1>3 DEF Prove, IInv, ProvedOnce, TypeOK, Audits
<1> QED
  BY <1>3, <1>5, <1>6, <1>7, <1>8 DEF IInv

\* The physical run and the comparison touch neither ledger nor counters.
LEMMA PhysicalPreserves ==
  IInv /\ (PhysicalFails \/ Physical \/ Compare \/ CompareRaises) => IInv'
<1> SUFFICES ASSUME IInv
             PROVE  (PhysicalFails \/ Physical \/ Compare \/ CompareRaises) => IInv'
  OBVIOUS
<1> USE DEF At, Loop, Early
<1>0. TypeOK /\ rec \in Records /\ cur \in Locals
  BY DEF IInv, TypeOK
<1>1. ASSUME PhysicalFails PROVE IInv'
  <2>1. state' = "NEXT_ITERATION" /\ ctl' = "tail"
    BY <1>1, EdgesOfTheLoop, AdvanceAlong DEF PhysicalFails, Reject
  <2>2. last_failure' \in FailureClasses /\ rec' \in Records
        /\ rec'.patch_hash = rec.patch_hash
    BY <1>0, <1>1, RejectIsTyped DEF PhysicalFails, Records
  <2> QED
    BY <1>0, <1>1, <2>1, <2>2, QuietStep DEF PhysicalFails, RunStates
<1>2. ASSUME Physical PROVE IInv'
  <2>1. state' = "COMPARE" /\ ctl' = "body" /\ last_failure' = last_failure
    BY <1>2, EdgesOfTheLoop, AdvanceAlong DEF Physical
  <2>2. cur' \in Locals
    BY <1>0, <1>2 DEF Physical, Locals
  <2>3. audit' \in Audits /\ audit'.built = audit.built /\ audit'.proofs = audit.proofs
    BY <1>0, <1>2 DEF Physical, TypeOK, Audits
  <2>4. TypeOK'
    BY <1>0, <1>2, <2>1, <2>2, <2>3 DEF Physical, TypeOK, Places, RunStates, environment
  <2>5. Counted' /\ BuiltOnce' /\ ProvedOnce'
    BY <1>2, <2>1, <2>3 DEF Physical, IInv, Counted, BuiltOnce, ProvedOnce
  <2> QED
    BY <2>1, <2>4, <2>5 DEF IInv
<1>3. ASSUME Compare PROVE IInv'
  <2>1. VerdictEdge(PolicyDecision.verdict) \in
          {"accepted", "non_comparable", "guardrail_breach"}
    BY DEF VerdictEdge
  <2>2. /\ state' = "NEXT_ITERATION" /\ ctl' = "tail"
        /\ last_failure' \in FailureClasses
    BY <1>0, <1>3, <2>1, EdgesOfTheLoop, AdvanceAlong DEF Compare, TypeOK, FailureClasses
  <2>3. rec' \in Records /\ rec'.patch_hash = rec.patch_hash
    BY <1>0, <1>3, DecisionIsTyped DEF Compare, Records
  <2> QED
    BY <1>0, <1>3, <2>2, <2>3, QuietStep DEF Compare, RunStates
<1>4. ASSUME CompareRaises PROVE IInv'
  BY <1>0, <1>4, QuietStep DEF CompareRaises, Raise, machine, TypeOK
<1> QED
  BY <1>1, <1>2, <1>3, <1>4

\* The hash of the finished record moves into the ledger.
LEMMA RecordPreserves == IInv /\ Record => IInv'
<1> SUFFICES ASSUME IInv, Record PROVE IInv'
  OBVIOUS
<1> USE DEF Record, Recorded
<1>0. /\ index \in 1 .. MaxIterations /\ Len(ledger.iterations) = index - 1
      /\ ledger \in Ledgers /\ report \in Reports /\ rec \in Records
  BY MaxIterationsAssumption DEF IInv, TypeOK, Counted
<1>1. ctl' = IF index < MaxIterations THEN "head" ELSE "finish"
  BY <1>0, MaxIterationsAssumption
<1>2. \A s \in Seq(1 .. MaxIterations) :
        AcceptedAfter(s, rec) \in Seq(1 .. MaxIterations)
  <2> DEFINE S == 1 .. MaxIterations
  <2>1. index \in S
    BY <1>0
  <2> HIDE DEF S
  <2> SUFFICES ASSUME NEW s \in Seq(S) PROVE AcceptedAfter(s, rec) \in Seq(S)
    BY DEF S
  <2>2. Append(s, index) \in Seq(S)
    BY <2>1, AppendProperties
  <2> QED
    BY <2>2 DEF AcceptedAfter
<1>3. HashesAfter(ledger.seen, rec) = ledger.seen \cup ({rec.patch_hash} \ {None})
  BY DEF HashesAfter
<1>4. ledger' \in Ledgers
  <2>1. Append(ledger.iterations, rec) \in Seq(Records)
    BY <1>0, AppendProperties DEF Ledgers
  <2>2. HashesAfter(ledger.seen, rec) \in SUBSET Hashes
    BY <1>0, <1>3 DEF Ledgers, Records
  <2>3. AcceptedAfter(ledger.accepted, rec) \in Seq(1 .. MaxIterations)
    BY <1>0, <1>2 DEF Ledgers
  <2>4. ledger' = [iterations |-> Append(ledger.iterations, rec),
                   seen |-> HashesAfter(ledger.seen, rec),
                   accepted |-> AcceptedAfter(ledger.accepted, rec),
                   stop |-> ledger.stop]
    BY <1>0 DEF Ledgers
  <2>5. ledger.stop \in StopReasons
    BY <1>0 DEF Ledgers
  <2> QED
    BY <2>1, <2>2, <2>3, <2>4, <2>5 DEF Ledgers
<1>5. report' \in Reports
  BY <1>0, <1>2 DEF Reports
<1>6. Len(ledger'.iterations) = index
  BY <1>0 DEF Ledgers
<1>7. TypeOK'
  BY <1>1, <1>4, <1>5 DEF IInv, TypeOK, Places, machine, environment
<1>8. Counted'
  BY <1>0, <1>1, <1>6 DEF Counted
<1>9. BuiltOnce'
  BY <1>0, <1>1, <1>3, NoneAssumption DEF IInv, BuiltOnce, Ledgers
<1>10. ProvedOnce'
  BY <1>1 DEF IInv, ProvedOnce, At
<1> QED
  BY <1>1, <1>7, <1>8, <1>9, <1>10 DEF IInv

\* The stop reason is written.
LEMMA FinishPreserves == IInv /\ Finish => IInv'
<1> SUFFICES ASSUME IInv, Finish PROVE IInv'
  OBVIOUS
<1> USE DEF Finish
<1>1. ledger' \in Ledgers /\ report' \in Reports
  BY DEF IInv, TypeOK, Ledgers, Reports, StopReason, StopReasons
<1>2. TypeOK'
  BY <1>1 DEF IInv, TypeOK, Places, machine, environment
<1>3. Counted' /\ BuiltOnce' /\ ProvedOnce'
  BY DEF IInv, TypeOK, Ledgers, Counted, BuiltOnce, ProvedOnce, At
<1> QED
  BY <1>2, <1>3 DEF IInv

\* Editing the settings disturbs nothing the loop remembers.
LEMMA EditPreserves == IInv /\ EditSettings => IInv'
<1> SUFFICES ASSUME IInv, EditSettings PROVE IInv'
  OBVIOUS
<1> USE DEF EditSettings
<1>1. TypeOK'
  BY DEF IInv, TypeOK, machine
<1>2. Counted' /\ BuiltOnce' /\ ProvedOnce'
  BY DEF IInv, Counted, BuiltOnce, ProvedOnce, At, machine
<1> QED
  BY <1>1, <1>2 DEF IInv

\* Every step of the specification preserves the invariant.
LEMMA StepPreserves == IInv /\ [Next]_vars => IInv'
<1> SUFFICES ASSUME IInv, [Next]_vars PROVE IInv'
  OBVIOUS
<1>1. CASE Iterate
  BY <1>1, ModelStepsPreserve, RepeatPreserves, AppliedPreserves, RefusedPreserves,
     ScreenPreserves, ProvePreserves, PhysicalPreserves DEF Iterate
<1>2. CASE UNCHANGED vars
  BY <1>2 DEF vars, machine, environment, IInv, TypeOK, Counted, BuiltOnce, ProvedOnce, At
<1> QED
  BY <1>1, <1>2, BeginPreserves, RecordPreserves, FinishPreserves, EditPreserves
     DEF Next, Step

\* The inductive invariant holds in every reachable state.
THEOREM Invariance == Spec => []IInv
BY InitHolds, StepPreserves, PTL DEF Spec

\* Type correctness of the loop.
THEOREM TypeCorrect == Spec => []TypeOK
<1>1. IInv => TypeOK
  BY DEF IInv
<1> QED
  BY <1>1, Invariance, PTL

\* advance never raises: the loop follows the table (statemachine.py:142-147).
THEOREM StaysOnTheTable == Spec => []NeverOffTheTable
<1>1. IInv => NeverOffTheTable
  BY DEF IInv, NeverOffTheTable
<1> QED
  BY <1>1, Invariance, PTL

\* No patch is built twice, for any number of patches and iterations.
THEOREM BuildsOnce == Spec => []NoPatchBuiltTwice
<1>1. IInv => NoPatchBuiltTwice
  BY DEF IInv, BuiltOnce, NoPatchBuiltTwice
<1> QED
  BY <1>1, Invariance, PTL

\* No netlist is proved twice, whatever patches elaborate to it.
THEOREM ProvesOnce == Spec => []NoNetlistProvedTwice
<1>1. IInv => NoNetlistProvedTwice
  BY DEF IInv, ProvedOnce, NoNetlistProvedTwice
<1> QED
  BY <1>1, Invariance, PTL
----------------------------------------------------------------------------
(***************************************************************************)
(* What was built is on record.  The hash of a built patch is not the one  *)
(* of the record before APPLY_PATCH (BuiltOnce), so that a new attempt     *)
(* never overwrites the only trace of an earlier one.                      *)
(***************************************************************************)

\* Steps after which the record names the same candidate, or that follow none
LEMMA SameAttempt ==
  ASSUME AttemptsAreOnRecord, UNCHANGED <<audit.built, ledger.iterations>>,
         \/ /\ ctl \in {"body", "tail", "raised", "off_table"}
               => ctl' \in {"body", "tail", "raised", "off_table"}
            /\ rec'.candidate = rec.candidate /\ rec'.patch_hash = rec.patch_hash
         \/ ctl \in {"head", "finish"}
         \/ rec.patch_hash = None
  PROVE  AttemptsAreOnRecord'
<1> SUFFICES ASSUME NEW h \in Hashes, audit'.built[h] > 0 PROVE OnRecord(h)'
  BY DEF AttemptsAreOnRecord
<1>1. OnRecord(h)
  BY DEF AttemptsAreOnRecord
<1>2. h # None
  BY NoneAssumption
<1> QED
  BY <1>1, <1>2 DEF OnRecord

\* A step between a patch that applied and the verdict
LEMMA AttemptGoesOn ==
  ASSUME IInv, AttemptsAreOnRecord,
         SynthesisFails \/ Screen \/ Prove \/ PhysicalFails \/ Physical \/ Compare
           \/ CompareRaises
  PROVE  AttemptsAreOnRecord'
<1> USE DEF At, Loop
<1>0. TypeOK /\ rec \in Records /\ ctl = "body" /\ IInv'
  BY StepPreserves
     DEF IInv, TypeOK, SynthesisFails, Screen, Prove, PhysicalFails, Physical, Compare,
         CompareRaises, Next, Step, Iterate
<1>1. audit'.built = audit.built /\ UNCHANGED ledger
  BY <1>0 DEF TypeOK, Audits, SynthesisFails, Screen, Prove, PhysicalFails, Physical, Compare,
         CompareRaises, Raise
<1>2. ctl' \in {"body", "tail", "raised", "off_table"}
  BY DEF SynthesisFails, Screen, Prove, PhysicalFails, Physical, Compare,
         CompareRaises, Raise, Reject, Advance
<1>3. rec'.candidate = rec.candidate /\ rec'.patch_hash = rec.patch_hash
  BY <1>0 DEF Records, SynthesisFails, Screen, Prove, PhysicalFails, Physical, Compare,
         CompareRaises, Raise, Reject, Rejected
<1> QED
  BY <1>1, <1>2, <1>3, SameAttempt

\* A candidate is on record from the moment it is built.
LEMMA BuiltIsOnRecord ==
  ASSUME IInv, AttemptsAreOnRecord, Applied \/ PatchRefused
  PROVE  AttemptsAreOnRecord'
<1>1. /\ BuildCandidate /\ rec \in Records /\ rec.patch_hash = None
      /\ audit.built \in [Hashes -> Nat] /\ audit \in Audits
  BY DEF Applied, PatchRefused, BuildCandidate, At, IInv, TypeOK, BuiltOnce, Early, Audits
<1>2. ctl' \in {"body", "tail", "off_table"}
  BY DEF Applied, PatchRefused, Reject, Advance
<1>3. rec'.candidate /\ rec'.patch_hash = cur.answer.hash
  BY <1>1 DEF Applied, PatchRefused, Reject, Rejected, CandidateRecord, Records
<1>4. /\ UNCHANGED ledger
      /\ audit'.built = [audit.built EXCEPT ![cur.answer.hash] = @ + 1]
  BY <1>1 DEF BuildCandidate, Loop, Audits
<1> SUFFICES ASSUME NEW h \in Hashes, audit'.built[h] > 0 PROVE OnRecord(h)'
  BY DEF AttemptsAreOnRecord
<1>5. CASE h = cur.answer.hash
  BY <1>2, <1>3, <1>5 DEF OnRecord
<1>6. CASE h # cur.answer.hash
  <2>1. OnRecord(h)
    BY <1>1, <1>4, <1>6 DEF AttemptsAreOnRecord
  <2> QED
    BY <1>1, <1>4, <2>1, NoneAssumption DEF OnRecord
<1> QED
  BY <1>5, <1>6

\* The record enters the ledger.
LEMMA RecordedIsOnRecord ==
  ASSUME IInv, AttemptsAreOnRecord, Record
  PROVE  AttemptsAreOnRecord'
<1>1. ledger \in Ledgers /\ rec \in Records /\ UNCHANGED audit
  BY DEF IInv, TypeOK, Record
<1>2. ledger'.iterations = Append(ledger.iterations, rec)
  BY <1>1 DEF Record, Recorded, Ledgers
<1>3. /\ DOMAIN ledger.iterations \subseteq DOMAIN ledger'.iterations
      /\ \A i \in DOMAIN ledger.iterations : ledger'.iterations[i] = ledger.iterations[i]
      /\ \E i \in DOMAIN ledger'.iterations : ledger'.iterations[i] = rec
  BY <1>1, <1>2, AppendProperties DEF Ledgers
<1> SUFFICES ASSUME NEW h \in Hashes, audit'.built[h] > 0 PROVE OnRecord(h)'
  BY DEF AttemptsAreOnRecord
<1>4. OnRecord(h)
  BY <1>1 DEF AttemptsAreOnRecord
<1> QED
  BY <1>3, <1>4 DEF OnRecord

\* Every attempt is recorded, whatever became of it (history.py:3-7).
THEOREM RecordsEveryAttempt == Spec => []AttemptsAreOnRecord
<1>1. Init => AttemptsAreOnRecord
  BY DEF Init, AttemptsAreOnRecord
<1>2. IInv /\ AttemptsAreOnRecord /\ [Next]_vars => AttemptsAreOnRecord'
  <2> SUFFICES ASSUME IInv, AttemptsAreOnRecord, [Next]_vars PROVE AttemptsAreOnRecord'
    OBVIOUS
  <2>1. CASE BuildRequest \/ ProposeFails \/ Propose \/ Proceed \/ Decline
               \/ RepairFails \/ Repair \/ NoPatchToHash \/ Repeat
    <3>1. rec.patch_hash = None
      BY <2>1 DEF IInv, BuiltOnce, At, Early, BuildRequest, ProposeFails, Propose, Proceed,
                  Decline, RepairFails, Repair, NoPatchToHash, Repeat
    <3>2. UNCHANGED <<audit, ledger.iterations>>
      BY <2>1 DEF IInv, TypeOK, Ledgers, Loop, BuildRequest, ProposeFails, Propose, Proceed,
                  Decline, RepairFails, Repair, NoPatchToHash, Raise, Repeat
    <3> QED
      BY <3>1, <3>2, SameAttempt
  <2>2. CASE BeginIteration \/ Finish
    <3>1. UNCHANGED <<audit.built, ledger.iterations>> /\ ctl \in {"head", "finish"}
      BY <2>2 DEF IInv, TypeOK, Ledgers, Audits, BeginIteration, Finish
    <3> QED
      BY <3>1, SameAttempt
  <2>3. CASE EditSettings
    BY <2>3, SameAttempt DEF EditSettings
  <2>4. CASE UNCHANGED vars
    BY <2>4, SameAttempt DEF vars
  <2> QED
    BY <2>1, <2>2, <2>3, <2>4, AttemptGoesOn, BuiltIsOnRecord, RecordedIsOnRecord
       DEF Next, Step, Iterate
<1> QED
  BY <1>1, <1>2, Invariance, PTL DEF Spec
----------------------------------------------------------------------------
(***************************************************************************)
(* What a record tells of its iteration, and the stop reason of the loop.  *)
(* The ledger's hashes are those of its records, so the check before       *)
(* apply_patch finds a repeat exactly if there is one; every other way out *)
(* of an iteration takes an edge with a class, and the machine arrives     *)
(* there with the class cleared.                                           *)
(***************************************************************************)

\* seen_patch_hashes
Remembers ==
    \A h \in Hashes :
       h \in ledger.seen <=>
         \E i \in DOMAIN ledger.iterations : ledger.iterations[i].patch_hash = h

\* The record in the making, while no stage has ended the iteration
InTheMaking ==
    ctl = "body" =>
      /\ last_failure = "NONE" /\ rec.patch_hash \notin ledger.seen
      /\ state \in Early => rec = FreshRecord
      /\ state = "SCREEN" => rec.eqy = "NOT_RUN"
      /\ state \in {"EQY", "ORFS", "COMPARE"} => rec.screen \in {"PASS", "ERROR"}
      /\ state \in {"ORFS", "COMPARE"} => rec.eqy = "PASS"

\* The record on its way to the ledger
Told ==
    ctl = "tail" =>
      /\ rec.failure_class = "NONE" <=>
           (rec.verdict = "ACCEPTED" \/ rec.patch_hash \in ledger.seen)
      /\ rec.verdict # "ACCEPTED" => Explains(rec.failure_class, rec)

SomeRepeat == \E i \in DOMAIN ledger.iterations : IsRepeat(i)

\* The cycle is the stop reason from the moment the repeat is met.
StopTold ==
    /\ ctl # "done" =>
         (ledger.stop = "cycle detected" <=>
            SomeRepeat \/ (ctl = "tail" /\ rec.patch_hash \in ledger.seen))
    /\ StopReasonTellsCycle

RInv ==
    /\ Remembers /\ InTheMaking /\ Told /\ StopTold
    /\ OnlyRepeatsAreUnclassified /\ FailuresAreExplained

\* The loop starts with an empty ledger.
LEMMA InitTells == Init => RInv
<1> SUFFICES ASSUME Init PROVE RInv
  OBVIOUS
<1>1. ledger.iterations = <<>> /\ ledger.seen = {} /\ ctl \in {"head", "finish"}
      /\ ledger.stop = None
  BY DEF Init
<1>2. DOMAIN ledger.iterations = {}
  BY <1>1
<1> QED
  BY <1>1, <1>2, NoStopAssumption
     DEF RInv, Remembers, InTheMaking, Told, StopTold, SomeRepeat, StopReasonTellsCycle,
         OnlyRepeatsAreUnclassified, FailuresAreExplained

\* Of the ledger, what is told of its records depends on these and the hashes.
LEMMA SameRecords ==
  ASSUME ledger'.iterations = ledger.iterations, ledger'.seen = ledger.seen
  PROVE  /\ SomeRepeat' <=> SomeRepeat
         /\ OnlyRepeatsAreUnclassified' <=> OnlyRepeatsAreUnclassified
         /\ FailuresAreExplained' <=> FailuresAreExplained
         /\ Remembers' <=> Remembers
BY DEF SomeRepeat, OnlyRepeatsAreUnclassified, FailuresAreExplained, Remembers, IsRepeat

\* A step that leaves the ledger and the report alone and meets no repeat
LEMMA LedgerStays ==
  ASSUME RInv, UNCHANGED <<ledger, report>>, InTheMaking', Told',
         ctl # "done", ctl' # "done",
         (ctl' = "tail" /\ rec'.patch_hash \in ledger.seen)
           <=> (ctl = "tail" /\ rec.patch_hash \in ledger.seen)
  PROVE  RInv'
<1>1. /\ SomeRepeat' <=> SomeRepeat
      /\ OnlyRepeatsAreUnclassified' <=> OnlyRepeatsAreUnclassified
      /\ FailuresAreExplained' <=> FailuresAreExplained
      /\ Remembers' <=> Remembers
  BY SameRecords
<1>2. StopTold'
  BY <1>1 DEF RInv, StopTold, StopReasonTellsCycle
<1> QED
  BY <1>1, <1>2 DEF RInv

\* A stage passes: the class stays clear and the record says so.
LEMMA PassedOn ==
  ASSUME RInv, ctl = "body", ctl' = "body", last_failure' = last_failure,
         rec'.patch_hash \notin ledger.seen,
         state' \in Early => rec' = FreshRecord,
         state' = "SCREEN" => rec'.eqy = "NOT_RUN",
         state' \in {"EQY", "ORFS", "COMPARE"} => rec'.screen \in {"PASS", "ERROR"},
         state' \in {"ORFS", "COMPARE"} => rec'.eqy = "PASS",
         UNCHANGED <<ledger, report>>
  PROVE  RInv'
<1>1. InTheMaking' /\ Told'
  BY DEF RInv, InTheMaking, Told
<1> QED
  BY <1>1, LedgerStays

\* A stage rejects with a class that the record r bears out.
LEMMA RejectedWith ==
  ASSUME RInv, ctl = "body", ctl' = "tail",
         NEW r \in Records, NEW f \in FailureClasses \ {"NONE"},
         rec' = [r EXCEPT !.verdict = "REJECTED", !.failure_class = f],
         r.patch_hash \notin ledger.seen, Explains(f, r),
         UNCHANGED <<ledger, report>>
  PROVE  RInv'
<1>1. /\ rec'.verdict = "REJECTED" /\ rec'.failure_class = f
      /\ rec'.patch_hash = r.patch_hash /\ rec'.candidate = r.candidate
      /\ rec'.screen = r.screen /\ rec'.eqy = r.eqy
  BY DEF Records
<1>2. Explains(f, rec')
  BY <1>1 DEF Explains
<1>3. InTheMaking' /\ Told'
  BY <1>1, <1>2 DEF InTheMaking, Told
<1> QED
  BY <1>1, <1>3, LedgerStays

\* ... along an edge of the table
LEMMA RejectAlong ==
  ASSUME RInv, ctl = "body", NEW o, NEW r \in Records, NEW f \in FailureClasses \ {"NONE"},
         Edge(state, o, "NEXT_ITERATION", f) \in Transitions, Reject(o, r),
         r.patch_hash \notin ledger.seen, Explains(f, r),
         UNCHANGED <<ledger, report>>
  PROVE  RInv'
<1>1. ctl' = "tail" /\ last_failure' = f
  BY AdvanceAlong DEF Reject
<1>2. rec' = [r EXCEPT !.verdict = "REJECTED", !.failure_class = f]
  BY <1>1 DEF Reject, Rejected
<1> QED
  BY <1>1, <1>2, RejectedWith

\* The steps around the language model
LEMMA ModelStepsTell ==
  IInv /\ RInv /\ (BuildRequest \/ ProposeFails \/ Propose \/ Proceed \/ Decline
                     \/ RepairFails \/ Repair \/ NoPatchToHash) => RInv'
<1> SUFFICES ASSUME IInv, RInv
             PROVE  (BuildRequest \/ ProposeFails \/ Propose \/ Proceed \/ Decline
                       \/ RepairFails \/ Repair \/ NoPatchToHash) => RInv'
  OBVIOUS
<1> USE DEF At, Loop
<1>0. /\ rec \in Records
      /\ ctl = "body" => last_failure = "NONE" /\ rec.patch_hash \notin ledger.seen
      /\ ctl = "body" /\ state \in Early => rec = FreshRecord
  BY DEF IInv, TypeOK, RInv, InTheMaking
<1>1. ASSUME BuildRequest \/ Propose \/ Proceed \/ Repair PROVE RInv'
  <2>1. /\ ctl' = "body" /\ last_failure' = last_failure
        /\ state' \in Early
    BY <1>1, EdgesOfTheLoop, AdvanceAlong DEF BuildRequest, Propose, Proceed, Repair, Early
  <2>2. rec' = FreshRecord /\ rec' = rec /\ ctl = "body" /\ UNCHANGED <<ledger, report>>
    BY <1>0, <1>1 DEF BuildRequest, Propose, Proceed, Repair, Early
  <2> QED
    BY <1>0, <2>1, <2>2, PassedOn DEF Early
<1>2. ASSUME ProposeFails \/ RepairFails PROVE RInv'
  <2>1. /\ ctl = "body" /\ Reject("error", rec) /\ UNCHANGED <<ledger, report>>
        /\ Edge(state, "error", "NEXT_ITERATION", "SCHEMA_INVALID") \in Transitions
        /\ rec.patch_hash = None
    BY <1>0, <1>2, EdgesOfTheLoop DEF ProposeFails, RepairFails, Early, FreshRecord
  <2>2. Explains("SCHEMA_INVALID", rec)
    BY <2>1 DEF Explains
  <2> QED
    BY <1>0, <2>1, <2>2, RejectAlong DEF FailureClasses
<1>3. ASSUME Decline PROVE RInv'
  <2> DEFINE o == Outcome(cur.answer, cur.repaired)
  <2>1. /\ ctl = "body" /\ ctl' = "tail" /\ rec' = Rejected(rec) /\ rec.patch_hash = None
        /\ UNCHANGED <<ledger, report>>
        /\ last_failure' = FailureAfter("VALIDATE_RECOMMENDATION", o, last_failure)
        /\ o \in {"abstained", "ungrounded", "invalid"}
    BY <1>0, <1>3 DEF Decline, Outcome, Early, FreshRecord
  <2> HIDE DEF o
  <2>2. last_failure' \in {"ABSTAINED", "UNGROUNDED_CLAIM", "SCHEMA_INVALID"}
    <3>1. \A x \in {"abstained", "ungrounded", "invalid"} :
            FailureAfter("VALIDATE_RECOMMENDATION", x, last_failure) \in
              {"ABSTAINED", "UNGROUNDED_CLAIM", "SCHEMA_INVALID"}
      BY EdgesOfTheLoop, EdgeTaken DEF Edge
    <3> QED
      BY <2>1, <3>1
  <2>3. Explains(last_failure', rec)
    BY <2>1, <2>2 DEF Explains
  <2>4. rec' = [rec EXCEPT !.verdict = "REJECTED", !.failure_class = last_failure']
    BY <2>1 DEF Rejected
  <2>5. last_failure' \in FailureClasses \ {"NONE"}
    BY <2>2 DEF FailureClasses
  <2> QED
    BY <1>0, <2>1, <2>3, <2>4, <2>5, RejectedWith
<1>4. ASSUME NoPatchToHash PROVE RInv'
  <2>1. ctl = "body" /\ ctl' = "raised" /\ UNCHANGED <<ledger, report>>
    BY <1>4 DEF NoPatchToHash, Raise
  <2>2. InTheMaking' /\ Told'
    BY <2>1 DEF InTheMaking, Told
  <2> QED
    BY <2>1, <2>2, LedgerStays
<1> QED
  BY <1>1, <1>2, <1>3, <1>4

\* The repeat is the one rejection without a class, and it sets the stop reason.
LEMMA RepeatTells == IInv /\ RInv /\ Repeat => RInv'
<1> SUFFICES ASSUME IInv, RInv, Repeat PROVE RInv'
  OBVIOUS
<1> USE DEF Repeat, At
<1>1. /\ ctl = "body" /\ ctl' = "tail" /\ last_failure' = "NONE" /\ rec = FreshRecord
      /\ cur.answer.hash \in ledger.seen /\ ledger \in Ledgers
  BY DEF IInv, TypeOK, RInv, InTheMaking, Early
<1>2. /\ ledger'.iterations = ledger.iterations /\ ledger'.seen = ledger.seen
      /\ ledger'.stop = "cycle detected" /\ report' = report
  BY <1>1 DEF Ledgers
<1>3. /\ rec'.verdict = "REJECTED" /\ rec'.failure_class = "NONE" /\ ~rec'.candidate
      /\ rec'.patch_hash = cur.answer.hash
  BY <1>1 DEF Rejected, FreshRecord
<1>4. Explains("NONE", rec')
  BY <1>3 DEF Explains
<1>5. /\ OnlyRepeatsAreUnclassified' <=> OnlyRepeatsAreUnclassified
      /\ FailuresAreExplained' <=> FailuresAreExplained
      /\ Remembers' <=> Remembers
  BY <1>2, SameRecords
<1>6. InTheMaking' /\ Told' /\ StopTold'
  BY <1>1, <1>2, <1>3, <1>4 DEF InTheMaking, Told, StopTold, StopReasonTellsCycle
<1> QED
  BY <1>5, <1>6 DEF RInv

\* A new patch, applied or refused
LEMMA BuildTells == IInv /\ RInv /\ (Applied \/ PatchRefused) => RInv'
<1> SUFFICES ASSUME IInv, RInv PROVE Applied \/ PatchRefused => RInv'
  OBVIOUS
<1> DEFINE r == CandidateRecord
<1>1. ASSUME BuildCandidate
      PROVE  /\ ctl = "body" /\ state = "APPLY_PATCH" /\ UNCHANGED <<ledger, report>>
             /\ r \in Records /\ r.patch_hash \notin ledger.seen
             /\ r.candidate /\ r.screen = "NOT_RUN" /\ r.eqy = "NOT_RUN"
  <2>1. ctl = "body" /\ state = "APPLY_PATCH" /\ rec = FreshRecord
    BY <1>1 DEF BuildCandidate, At, RInv, InTheMaking, Early
  <2>2. r \in Records /\ r.patch_hash = cur.answer.hash
    BY <1>1, CandidateIsTyped DEF IInv
  <2>3. r.candidate /\ r.screen = "NOT_RUN" /\ r.eqy = "NOT_RUN"
    BY <2>1 DEF CandidateRecord, FreshRecord
  <2> QED
    BY <1>1, <2>1, <2>2, <2>3 DEF BuildCandidate, Loop
<1>2. ASSUME Applied PROVE RInv'
  <2>1. state' = "SCREEN" /\ ctl' = "body" /\ last_failure' = last_failure
    BY <1>2, EdgesOfTheLoop, AdvanceAlong DEF Applied, BuildCandidate, At
  <2>2. rec' = r /\ BuildCandidate
    BY <1>2 DEF Applied
  <2> HIDE DEF r
  <2> QED
    BY <1>1, <2>1, <2>2, PassedOn DEF Early
<1>3. ASSUME PatchRefused PROVE RInv'
  <2>1. PICK o \in {"protected", "rejected"} : Reject(o, r) /\ BuildCandidate
    BY <1>3 DEF PatchRefused
  <2> HIDE DEF r
  <2>2. Explains("PATCH_REJECTED", r) /\ Explains("PROTECTED_REGION", r)
    BY <1>1, <2>1 DEF Explains
  <2>3. CASE o = "protected"
    <3>1. Edge(state, o, "NEXT_ITERATION", "PROTECTED_REGION") \in Transitions
      BY <1>1, <2>1, <2>3, EdgesOfTheLoop
    <3> QED
      BY <1>1, <2>1, <2>2, <3>1, RejectAlong DEF FailureClasses
  <2>4. CASE o = "rejected"
    <3>1. Edge(state, o, "NEXT_ITERATION", "PATCH_REJECTED") \in Transitions
      BY <1>1, <2>1, <2>4, EdgesOfTheLoop
    <3> QED
      BY <1>1, <2>1, <2>2, <3>1, RejectAlong DEF FailureClasses
  <2> QED
    BY <2>1, <2>3, <2>4
<1> QED
  BY <1>2, <1>3

\* Before the screen nothing is measured; after it the record has its status.
LEMMA ScreenTells == IInv /\ RInv /\ (SynthesisFails \/ Screen) => RInv'
<1> SUFFICES ASSUME IInv, RInv PROVE SynthesisFails \/ Screen => RInv'
  OBVIOUS
<1>0. /\ rec \in Records
      /\ ctl = "body" => rec.patch_hash \notin ledger.seen
      /\ ctl = "body" /\ state = "SCREEN" => rec.eqy = "NOT_RUN"
  BY DEF IInv, TypeOK, RInv, InTheMaking
<1>1. ASSUME SynthesisFails PROVE RInv'
  <2>0. PICK status \in {"FAIL", "TIMEOUT", "ERROR"} :
          Reject("failed", [rec EXCEPT !.screen = status])
    BY <1>1 DEF SynthesisFails
  <2> DEFINE r == [rec EXCEPT !.screen = status]
  <2>1. /\ ctl = "body" /\ state = "SCREEN" /\ Reject("failed", r)
        /\ UNCHANGED <<ledger, report>>
    BY <1>1, <2>0 DEF SynthesisFails, At, Loop
  <2>2. /\ r \in Records /\ r.patch_hash \notin ledger.seen
        /\ Explains("SYNTHESIS_FAILED", r)
    BY <1>0, <2>1 DEF Records, Explains
  <2> HIDE DEF r
  <2>3. Edge(state, "failed", "NEXT_ITERATION", "SYNTHESIS_FAILED") \in Transitions
    BY <2>1, EdgesOfTheLoop
  <2> QED
    BY <2>1, <2>2, <2>3, RejectAlong DEF FailureClasses
<1>2. ASSUME Screen PROVE RInv'
  <2>1. PICK wns \in ScreenSlacks :
          LET r == [rec EXCEPT !.screen = IF Measured(wns) THEN "PASS" ELSE "ERROR"]
          IN  Reject("regressed", r) \/ (Advance("improved", "body") /\ rec' = r)
    BY <1>2 DEF Screen
  <2>2. ctl = "body" /\ state = "SCREEN" /\ UNCHANGED <<ledger, report>>
    BY <1>2 DEF Screen, At, Loop
  <2> DEFINE r == [rec EXCEPT !.screen = IF Measured(wns) THEN "PASS" ELSE "ERROR"]
  <2>3. /\ r \in Records /\ r.patch_hash \notin ledger.seen
        /\ r.screen \in {"PASS", "ERROR"} /\ r.eqy = "NOT_RUN"
    BY <1>0, <2>2 DEF Records
  <2>4. Reject("regressed", r) \/ (Advance("improved", "body") /\ rec' = r)
    BY <2>1
  <2> HIDE DEF r
  <2>5. CASE Reject("regressed", r)
    <3>1. Edge(state, "regressed", "NEXT_ITERATION", "QOR_REGRESSION") \in Transitions
      BY <2>2, EdgesOfTheLoop
    <3>2. Explains("QOR_REGRESSION", r)
      BY <2>3 DEF Explains
    <3> QED
      BY <2>2, <2>3, <2>5, <3>1, <3>2, RejectAlong DEF FailureClasses
  <2>6. CASE Advance("improved", "body") /\ rec' = r
    <3>1. state' = "EQY" /\ ctl' = "body" /\ last_failure' = last_failure
      BY <2>2, <2>6, EdgesOfTheLoop, AdvanceAlong
    <3> QED
      BY <2>2, <2>3, <2>6, <3>1, PassedOn DEF Early
  <2> QED
    BY <2>4, <2>5, <2>6
<1> QED
  BY <1>1, <1>2

\* Every status but PASS is a rejection with the class of that status.
LEMMA ProveTells == IInv /\ RInv /\ Prove => RInv'
<1> SUFFICES ASSUME IInv, RInv, Prove PROVE RInv'
  OBVIOUS
<1>1. PICK status \in EqyStatuses :
        LET r == [rec EXCEPT !.eqy = status]
        IN  IF EqyEdge(status) = "pass"
            THEN Advance("pass", "body") /\ rec' = r
            ELSE Reject(EqyEdge(status), r)
  BY DEF Prove
<1> DEFINE r == [rec EXCEPT !.eqy = status]
<1>2. ctl = "body" /\ state = "EQY" /\ UNCHANGED <<ledger, report>>
  BY DEF Prove, At, Loop
<1>3. /\ r \in Records /\ r.patch_hash \notin ledger.seen
      /\ r.eqy = status /\ r.screen \in {"PASS", "ERROR"}
  BY <1>2 DEF IInv, TypeOK, RInv, InTheMaking, Records
<1>4. IF EqyEdge(status) = "pass" THEN Advance("pass", "body") /\ rec' = r
                                  ELSE Reject(EqyEdge(status), r)
  BY <1>1
<1> HIDE DEF r
<1>5. CASE status = "PASS"
  <2>1. Advance("pass", "body") /\ rec' = r
    BY <1>4, <1>5 DEF EqyEdge
  <2>2. state' = "ORFS" /\ ctl' = "body" /\ last_failure' = last_failure
    BY <1>2, <2>1, EdgesOfTheLoop, AdvanceAlong
  <2> QED
    BY <1>2, <1>3, <1>5, <2>1, <2>2, PassedOn DEF Early
<1>6. CASE status = "FAIL"
  <2>1. /\ Reject("fail", r) /\ Explains("NOT_EQUIVALENT", r)
        /\ Edge(state, "fail", "NEXT_ITERATION", "NOT_EQUIVALENT") \in Transitions
    BY <1>2, <1>3, <1>4, <1>6, EdgesOfTheLoop DEF EqyEdge, Explains
  <2> QED
    BY <1>2, <1>3, <2>1, RejectAlong DEF FailureClasses
<1>7. CASE status \in {"ERROR", "TIMEOUT", "UNKNOWN"}
  <2>1. /\ Reject("unknown", r) /\ Explains("UNPROVEN", r)
        /\ Edge(state, "unknown", "NEXT_ITERATION", "UNPROVEN") \in Transitions
    BY <1>2, <1>3, <1>4, <1>7, EdgesOfTheLoop DEF EqyEdge, Explains
  <2> QED
    BY <1>2, <1>3, <2>1, RejectAlong DEF FailureClasses
<1> QED
  BY <1>5, <1>6, <1>7 DEF EqyStatuses

\* Of a proved candidate the policy rejects only what was measured or compared.
LEMMA DecisionTells ==
  ASSUME rec.eqy = "PASS", rec.screen \in {"PASS", "ERROR"}, ~PolicyDecision.raised
  PROVE  /\ PolicyDecision.failure = "NONE" <=> PolicyDecision.verdict = "ACCEPTED"
         /\ PolicyDecision.verdict # "ACCEPTED" => Explains(PolicyDecision.failure, rec)
<1>1. \/ PolicyDecision.verdict = "ACCEPTED" /\ PolicyDecision.failure = "NONE"
      \/ /\ PolicyDecision.verdict \in {"REJECTED", "NON_COMPARABLE"}
         /\ PolicyDecision.failure \in {"NON_COMPARABLE", "GUARDRAIL_BREACH", "QOR_REGRESSION"}
  BY DEF PolicyDecision, Evaluate, Decision, RaisedWhileAccepting
<1> QED
  BY <1>1 DEF Explains

\* The physical run and the policy's verdict
LEMMA PhysicalTells ==
  IInv /\ RInv /\ (PhysicalFails \/ Physical \/ Compare \/ CompareRaises) => RInv'
<1> SUFFICES ASSUME IInv, RInv
             PROVE  (PhysicalFails \/ Physical \/ Compare \/ CompareRaises) => RInv'
  OBVIOUS
<1>0. /\ rec \in Records
      /\ ctl = "body" /\ state \in {"ORFS", "COMPARE"} =>
           /\ rec.patch_hash \notin ledger.seen
           /\ rec.screen \in {"PASS", "ERROR"} /\ rec.eqy = "PASS"
  BY DEF IInv, TypeOK, RInv, InTheMaking
<1>1. ASSUME PhysicalFails PROVE RInv'
  <2>1. /\ ctl = "body" /\ state = "ORFS" /\ Reject("failed", rec)
        /\ UNCHANGED <<ledger, report>>
    BY <1>1 DEF PhysicalFails, At, Loop
  <2>2. /\ Edge(state, "failed", "NEXT_ITERATION", "PHYSICAL_FAILED") \in Transitions
        /\ Explains("PHYSICAL_FAILED", rec)
    BY <1>0, <2>1, EdgesOfTheLoop DEF Explains
  <2> QED
    BY <1>0, <2>1, <2>2, RejectAlong DEF FailureClasses
<1>2. ASSUME Physical PROVE RInv'
  <2>1. /\ ctl = "body" /\ state = "ORFS" /\ Advance("completed", "body") /\ rec' = rec
        /\ UNCHANGED <<ledger, report>>
    BY <1>2 DEF Physical, At, Loop
  <2>2. state' = "COMPARE" /\ ctl' = "body" /\ last_failure' = last_failure
    BY <2>1, EdgesOfTheLoop, AdvanceAlong
  <2> QED
    BY <1>0, <2>1, <2>2, PassedOn DEF Early
<1>3. ASSUME Compare PROVE RInv'
  <2>1. /\ ctl = "body" /\ state = "COMPARE" /\ ~PolicyDecision.raised
        /\ UNCHANGED <<ledger, report>>
        /\ Advance(VerdictEdge(PolicyDecision.verdict), "tail")
    BY <1>3 DEF Compare, At, Loop
  <2>2. ctl' = "tail"
    BY <2>1, EdgesOfTheLoop, AdvanceAlong DEF VerdictEdge
  <2>3. /\ rec'.verdict = PolicyDecision.verdict
        /\ rec'.failure_class = PolicyDecision.failure
        /\ rec'.patch_hash = rec.patch_hash /\ rec'.candidate = rec.candidate
        /\ rec'.screen = rec.screen /\ rec'.eqy = rec.eqy
    BY <1>0, <1>3 DEF Compare, Records
  <2>4. /\ PolicyDecision.failure = "NONE" <=> PolicyDecision.verdict = "ACCEPTED"
        /\ PolicyDecision.verdict # "ACCEPTED" => Explains(PolicyDecision.failure, rec)
    BY <1>0, <2>1, DecisionTells
  <2>5. Explains(PolicyDecision.failure, rec) => Explains(PolicyDecision.failure, rec')
    BY <2>3 DEF Explains
  <2>6. InTheMaking' /\ Told'
    BY <1>0, <2>1, <2>2, <2>3, <2>4, <2>5 DEF InTheMaking, Told
  <2> QED
    BY <1>0, <2>1, <2>2, <2>3, <2>6, LedgerStays
<1>4. ASSUME CompareRaises PROVE RInv'
  <2>1. ctl = "body" /\ ctl' = "raised" /\ UNCHANGED <<ledger, report>>
    BY <1>4 DEF CompareRaises, Raise, At
  <2>2. InTheMaking' /\ Told'
    BY <2>1 DEF InTheMaking, Told
  <2> QED
    BY <2>1, <2>2, LedgerStays
<1> QED
  BY <1>1, <1>2, <1>3, <1>4

\* An iteration begins with the class cleared and a fresh record.
LEMMA BeginTells == IInv /\ RInv /\ BeginIteration => RInv'
<1> SUFFICES ASSUME IInv, RInv, BeginIteration PROVE RInv'
  OBVIOUS
<1>1. /\ ctl = "head" /\ ctl' = "body" /\ state' = "BUILD_REQUEST" /\ last_failure' = "NONE"
      /\ rec' = FreshRecord /\ UNCHANGED <<ledger, report>>
  BY DEF BeginIteration, ClearedFailure
<1>2. rec'.patch_hash = None /\ None \notin ledger.seen
  BY <1>1, NoneAssumption DEF FreshRecord, IInv, TypeOK, Ledgers
<1>3. InTheMaking' /\ Told'
  BY <1>1, <1>2 DEF InTheMaking, Told
<1> QED
  BY <1>1, <1>3, LedgerStays

\* What the ledger tells once the record is in it: the older records are as
\* they were, and the new one is a repeat if its hash was known.
LEMMA RepeatsAfterRecord ==
  ASSUME IInv, Remembers, Record, NEW n, n = Len(ledger.iterations)
  PROVE  /\ n \in Nat /\ DOMAIN ledger.iterations = 1 .. n
         /\ DOMAIN ledger'.iterations = 1 .. n + 1
         /\ \A i \in 1 .. n : ledger'.iterations[i] = ledger.iterations[i]
         /\ ledger'.iterations[n + 1] = rec
         /\ \A i \in 1 .. n : IsRepeat(i)' <=> IsRepeat(i)
         /\ IsRepeat(n + 1)' <=> rec.patch_hash \in ledger.seen
<1> DEFINE s == ledger.iterations
           t == ledger'.iterations
<1>1. ledger \in Ledgers /\ rec \in Records /\ s \in Seq(Records)
  BY DEF IInv, TypeOK, Ledgers
<1>2. t = Append(s, rec)
  BY <1>1 DEF Record, Recorded, Ledgers
<1>3. /\ n \in Nat /\ DOMAIN s = 1 .. n /\ DOMAIN t = 1 .. n + 1
      /\ \A i \in 1 .. n : t[i] = s[i]
      /\ t[n + 1] = rec
  BY <1>1, <1>2, AppendProperties
<1>4. /\ \A i : IsRepeat(i) <=> \E j \in 1 .. i - 1 :
                 s[i].patch_hash # None /\ s[i].patch_hash = s[j].patch_hash
      /\ \A i : IsRepeat(i)' <=> \E j \in 1 .. i - 1 :
                 t[i].patch_hash # None /\ t[i].patch_hash = t[j].patch_hash
  BY DEF IsRepeat
<1>5. rec.patch_hash \in ledger.seen <=>
        /\ rec.patch_hash # None
        /\ \E i \in DOMAIN s : s[i].patch_hash = rec.patch_hash
  <2>1. rec.patch_hash \in Hashes \cup {None} /\ ledger.seen \subseteq Hashes
    BY <1>1 DEF Records, Ledgers
  <2> QED
    BY <2>1, NoneAssumption DEF Remembers
<1> HIDE DEF s, t
<1>6. \A i \in 1 .. n : IsRepeat(i)' <=> IsRepeat(i)
  <2> SUFFICES ASSUME NEW i \in 1 .. n PROVE IsRepeat(i)' <=> IsRepeat(i)
    OBVIOUS
  <2>1. \A j \in 1 .. i - 1 : j \in 1 .. n /\ t[j] = s[j]
    BY <1>3
  <2> QED
    BY <1>3, <1>4, <2>1
<1>7. IsRepeat(n + 1)' <=> rec.patch_hash \in ledger.seen
  <2>1. 1 .. (n + 1) - 1 = 1 .. n
    BY <1>3
  <2>2. IsRepeat(n + 1)' <=> \E j \in 1 .. n :
          t[n + 1].patch_hash # None /\ t[n + 1].patch_hash = t[j].patch_hash
    BY <1>4, <2>1
  <2> QED
    BY <1>3, <1>5, <2>2
<1> QED
  BY <1>3, <1>6, <1>7 DEF s, t

\* The record enters the ledger with what it tells.
LEMMA RecordTells == IInv /\ RInv /\ Record => RInv'
<1> SUFFICES ASSUME IInv, RInv, Record, NEW n, n = Len(ledger.iterations) PROVE RInv'
  OBVIOUS
<1>1. /\ n \in Nat /\ DOMAIN ledger.iterations = 1 .. n
      /\ DOMAIN ledger'.iterations = 1 .. n + 1
      /\ \A i \in 1 .. n : ledger'.iterations[i] = ledger.iterations[i]
      /\ ledger'.iterations[n + 1] = rec
      /\ \A i \in 1 .. n : IsRepeat(i)' <=> IsRepeat(i)
      /\ IsRepeat(n + 1)' <=> rec.patch_hash \in ledger.seen
  BY RepeatsAfterRecord DEF RInv
<1>2. /\ ctl = "tail" /\ ctl' \in {"head", "finish"} /\ ledger'.stop = ledger.stop
      /\ ledger'.seen = HashesAfter(ledger.seen, rec) /\ ledger \in Ledgers
      /\ rec \in Records
  BY DEF IInv, TypeOK, Ledgers, Record
<1>3. \A i \in 1 .. n + 1 : i \in 1 .. n \/ i = n + 1
  BY <1>1
<1>4. n + 1 \in 1 .. n + 1 /\ \A i \in 1 .. n : i \in 1 .. n + 1
  BY <1>1
<1>5. Remembers'
  <2>1. ledger'.seen = ledger.seen \cup ({rec.patch_hash} \ {None})
    BY <1>2 DEF HashesAfter
  <2> SUFFICES ASSUME NEW h \in Hashes
               PROVE  h \in ledger'.seen <=>
                        \E i \in 1 .. n + 1 : ledger'.iterations[i].patch_hash = h
    BY <1>1 DEF Remembers
  <2>2. h \in ledger.seen <=> \E i \in 1 .. n : ledger.iterations[i].patch_hash = h
    BY <1>1 DEF RInv, Remembers
  <2> QED
    BY <1>1, <1>3, <1>4, <2>1, <2>2, NoneAssumption
<1>6. OnlyRepeatsAreUnclassified'
  <2> SUFFICES ASSUME NEW i \in 1 .. n + 1
               PROVE  ledger'.iterations[i].failure_class = "NONE" <=>
                        (ledger'.iterations[i].verdict = "ACCEPTED" \/ IsRepeat(i)')
    BY <1>1 DEF OnlyRepeatsAreUnclassified
  <2>1. CASE i \in 1 .. n
    BY <1>1, <2>1 DEF RInv, OnlyRepeatsAreUnclassified
  <2>2. CASE i = n + 1
    BY <1>1, <1>2, <2>2 DEF RInv, Told
  <2> QED
    BY <1>3, <2>1, <2>2
<1>7. FailuresAreExplained'
  <2> SUFFICES ASSUME NEW i \in 1 .. n + 1, ledger'.iterations[i].verdict # "ACCEPTED"
               PROVE  Explains(ledger'.iterations[i].failure_class, ledger'.iterations[i])
    BY <1>1 DEF FailuresAreExplained, Explains
  <2>1. CASE i \in 1 .. n
    BY <1>1, <2>1 DEF RInv, FailuresAreExplained
  <2>2. CASE i = n + 1
    BY <1>1, <1>2, <2>2 DEF RInv, Told
  <2> QED
    BY <1>3, <2>1, <2>2
<1>8. StopTold'
  <2>1. SomeRepeat' <=> SomeRepeat \/ rec.patch_hash \in ledger.seen
    BY <1>1, <1>3, <1>4 DEF SomeRepeat
  <2> QED
    BY <1>2, <2>1 DEF RInv, StopTold, StopReasonTellsCycle
<1> QED
  BY <1>2, <1>5, <1>6, <1>7, <1>8 DEF RInv, InTheMaking, Told

\* stop_reason or "iteration budget reached"
LEMMA FinishTells == IInv /\ RInv /\ Finish => RInv'
<1> SUFFICES ASSUME IInv, RInv, Finish PROVE RInv'
  OBVIOUS
<1>1. /\ ctl = "finish" /\ ctl' = "done"
      /\ ledger'.iterations = ledger.iterations /\ ledger'.seen = ledger.seen
      /\ report'.stop = StopReason(ledger.stop)
  BY DEF IInv, TypeOK, Ledgers, Reports, Finish
<1>2. /\ SomeRepeat' <=> SomeRepeat
      /\ OnlyRepeatsAreUnclassified' <=> OnlyRepeatsAreUnclassified
      /\ FailuresAreExplained' <=> FailuresAreExplained
      /\ Remembers' <=> Remembers
  BY <1>1, SameRecords
<1>3. report'.stop = "cycle detected" <=> SomeRepeat'
  BY <1>1, <1>2, NoStopAssumption DEF StopReason, RInv, StopTold
<1>4. StopTold'
  BY <1>1, <1>3 DEF StopTold, StopReasonTellsCycle, SomeRepeat
<1>5. InTheMaking' /\ Told'
  BY <1>1 DEF InTheMaking, Told
<1> QED
  BY <1>2, <1>4, <1>5 DEF RInv

\* Nobody edits a record.
LEMMA EditTells == RInv /\ (EditSettings \/ UNCHANGED vars) => RInv'
<1> SUFFICES ASSUME RInv, EditSettings \/ UNCHANGED vars PROVE RInv'
  OBVIOUS
<1>1. UNCHANGED <<ctl, state, last_failure, rec, ledger, report>>
  BY DEF EditSettings, vars, machine
<1>2. /\ SomeRepeat' <=> SomeRepeat
      /\ OnlyRepeatsAreUnclassified' <=> OnlyRepeatsAreUnclassified
      /\ FailuresAreExplained' <=> FailuresAreExplained
      /\ Remembers' <=> Remembers
  BY <1>1, SameRecords
<1>3. InTheMaking' /\ Told'
  BY <1>1 DEF RInv, InTheMaking, Told, Explains
<1>4. StopTold'
  BY <1>1, <1>2 DEF RInv, StopTold, StopReasonTellsCycle, SomeRepeat
<1> QED
  BY <1>2, <1>3, <1>4 DEF RInv

\* What the records tell is right in every reachable state.
LEMMA RecordsAreRight == Spec => []RInv
<1>1. IInv /\ RInv /\ [Next]_vars => RInv'
  BY BeginTells, ModelStepsTell, RepeatTells, BuildTells, ScreenTells, ProveTells,
     PhysicalTells, RecordTells, FinishTells, EditTells DEF Next, Step, Iterate
<1> QED
  BY InitTells, <1>1, Invariance, PTL DEF Spec

\* Every class of failure in the ledger is borne out by its own iteration.
THEOREM ExplainsEveryFailure == Spec => []FailuresAreExplained
<1>1. RInv => FailuresAreExplained
  BY DEF RInv
<1> QED
  BY <1>1, RecordsAreRight, PTL

\* Without a class there are only acceptances and repeats (pipeline.py:371-375).
THEOREM ClassifiesAllButRepeats == Spec => []OnlyRepeatsAreUnclassified
<1>1. RInv => OnlyRepeatsAreUnclassified
  BY DEF RInv
<1> QED
  BY <1>1, RecordsAreRight, PTL

\* The cycle is reported exactly if there was one, for any budget.
THEOREM TellsOfCycles == Spec => []StopReasonTellsCycle
<1>1. RInv => StopReasonTellsCycle
  BY DEF RInv, StopTold
<1> QED
  BY <1>1, RecordsAreRight, PTL
----------------------------------------------------------------------------
(***************************************************************************)
(* Settings.  The configuration check of the policy is sound as long as no *)
(* edit restores earlier contents: the digest is compared once, at         *)
(* COMPARE, and if it is the baseline's then, it was the baseline's all    *)
(* along.                                                                  *)
(***************************************************************************)

\* The candidate has been screened, so some tool has read the settings.
Screened == At("EQY") \/ At("ORFS") \/ At("COMPARE")

\* The settings the tools read are among those there have been; the baseline's
\* are current only if there have been no others.
SettingsInv ==
    /\ audit.ran_under \subseteq used_settings
    /\ BaseSettings \in used_settings
    /\ settings = BaseSettings => used_settings = {BaseSettings}
    /\ Screened => audit.ran_under # {}
    /\ (ctl = "body" /\ state # "NEXT_ITERATION") => rec.verdict # "ACCEPTED"
    /\ AcceptedUnderBaselineSettings

\* An iteration that rejects, or goes on, without running a tool
LEMMA RejectKeepsSettings ==
  ASSUME SettingsInv, TypeOK, ctl = "body",
         UNCHANGED <<environment, audit>>,
         rec'.verdict # "ACCEPTED",
         Screened' => Screened
  PROVE  SettingsInv'
BY DEF SettingsInv, AcceptedUnderBaselineSettings, environment

\* A tool of the screen or of the physical run reads the settings of the moment.
LEMMA ToolKeepsSettings ==
  ASSUME SettingsInv, TypeOK, ctl = "body", UNCHANGED environment,
         audit'.ran_under = audit.ran_under \cup {settings},
         rec'.verdict # "ACCEPTED"
  PROVE  SettingsInv'
BY DEF SettingsInv, TypeOK, AcceptedUnderBaselineSettings, environment

\* A rejected record is not an accepted one.
LEMMA RejectIsNoAccept ==
  ASSUME NEW o, NEW r \in Records, TypeOK, Reject(o, r)
  PROVE  rec'.verdict # "ACCEPTED"
BY RejectIsTyped DEF Records

\* The policy accepts no candidate whose settings differ from the baseline's.
LEMMA AcceptComparesSettings ==
  PolicyDecision.verdict = "ACCEPTED" => settings = BaseSettings
BY DEF PolicyDecision, Evaluate, Decision, RaisedWhileAccepting, CandidateSettings

\* The settings stay accounted for by every step of the program.
LEMMA StepKeepsSettings ==
  ASSUME TypeOK, IInv, SettingsInv, ~Reverts, [Next]_vars
  PROVE  SettingsInv'
<1> USE DEF At, Loop
<1>0. rec \in Records /\ audit \in Audits
  BY DEF TypeOK
<1>1. CASE BeginIteration
  BY <1>1 DEF BeginIteration, SettingsInv, Screened, FreshRecord, TypeOK, Audits,
              AcceptedUnderBaselineSettings, environment
<1>2. ASSUME BuildRequest \/ ProposeFails \/ Propose PROVE SettingsInv'
  <2>1. rec'.verdict # "ACCEPTED"
    BY <1>0, <1>2, RejectIsNoAccept
       DEF BuildRequest, ProposeFails, Propose, SettingsInv
  <2>2. ~Screened'
    BY <1>2, EdgesOfTheLoop, AdvanceAlong
       DEF BuildRequest, ProposeFails, Propose, Reject, Screened
  <2> QED
    BY <1>2, <2>1, <2>2, RejectKeepsSettings DEF BuildRequest, ProposeFails, Propose
<1>3. ASSUME Proceed \/ Decline PROVE SettingsInv'
  <2>1. rec'.verdict # "ACCEPTED"
    BY <1>0, <1>3 DEF Proceed, Decline, Rejected, Records, SettingsInv
  <2>2. ~Screened'
    BY <1>3, EdgesOfTheLoop, AdvanceAlong DEF Proceed, Decline, Screened
  <2> QED
    BY <1>3, <2>1, <2>2, RejectKeepsSettings DEF Proceed, Decline
<1>4. ASSUME RepairFails \/ Repair PROVE SettingsInv'
  <2>1. rec'.verdict # "ACCEPTED"
    BY <1>0, <1>4, RejectIsNoAccept DEF RepairFails, Repair, SettingsInv
  <2>2. state' \in {"NEXT_ITERATION", "VALIDATE_RECOMMENDATION"}
    <3>1. CASE RepairFails
      BY <3>1, EdgesOfTheLoop, AdvanceAlong DEF RepairFails, Reject
    <3>2. CASE Repair
      BY <3>2, EdgesOfTheLoop, AdvanceAlong DEF Repair
    <3> QED
      BY <1>4, <3>1, <3>2
  <2> QED
    BY <1>4, <2>1, <2>2, RejectKeepsSettings DEF RepairFails, Repair, Screened
<1>5. ASSUME NoPatchToHash \/ Repeat \/ CompareRaises PROVE SettingsInv'
  <2>1. rec'.verdict # "ACCEPTED"
    BY <1>0, <1>5
       DEF NoPatchToHash, Repeat, CompareRaises, Raise, Rejected, Records, SettingsInv
  <2>2. ~Screened'
    BY <1>5 DEF NoPatchToHash, Repeat, CompareRaises, Raise, Screened
  <2> QED
    BY <1>5, <2>1, <2>2, RejectKeepsSettings
       DEF NoPatchToHash, Repeat, CompareRaises, Raise
<1>6. ASSUME Applied \/ PatchRefused PROVE SettingsInv'
  <2>1. BuildCandidate
    BY <1>6 DEF Applied, PatchRefused
  <2>2. CandidateRecord \in Records /\ CandidateRecord.verdict = rec.verdict
    BY <1>0, <2>1, CandidateIsTyped DEF CandidateRecord, Records
  <2>3. rec'.verdict # "ACCEPTED"
    BY <1>6, <2>1, <2>2, RejectIsNoAccept
       DEF Applied, PatchRefused, BuildCandidate, SettingsInv
  <2>4. ~Screened'
    BY <1>6, <2>1, EdgesOfTheLoop, AdvanceAlong
       DEF Applied, PatchRefused, BuildCandidate, Reject, Screened
  <2>5. audit'.ran_under = audit.ran_under
    BY <1>0, <2>1 DEF BuildCandidate, Audits
  <2> QED
    BY <2>1, <2>3, <2>4, <2>5
       DEF BuildCandidate, SettingsInv, AcceptedUnderBaselineSettings, environment
<1>7. ASSUME SynthesisFails \/ PhysicalFails PROVE SettingsInv'
  <2>1. \A status \in {"FAIL", "TIMEOUT", "ERROR"} : [rec EXCEPT !.screen = status] \in Records
    BY <1>0 DEF Records
  <2>2. rec'.verdict # "ACCEPTED"
    BY <1>0, <1>7, <2>1, RejectIsNoAccept DEF SynthesisFails, PhysicalFails
  <2>3. ~Screened'
    BY <1>7, EdgesOfTheLoop, AdvanceAlong
       DEF SynthesisFails, PhysicalFails, Reject, Screened
  <2> QED
    BY <1>7, <2>2, <2>3, RejectKeepsSettings DEF SynthesisFails, PhysicalFails
<1>8. ASSUME Screen PROVE SettingsInv'
  <2>1. PICK n \in Netlists, wns \in ScreenSlacks, clocks \in {{}, BaseRun.clocks} :
          LET better == ScreenImproved(BaseScreenWns, wns)
              r == [rec EXCEPT !.screen = IF Measured(wns) THEN "PASS" ELSE "ERROR"]
          IN  IF n \in seen_netlists THEN Reject("regressed", r)
              ELSE IF better THEN rec' = r ELSE Reject("regressed", r)
    BY <1>8 DEF Screen
  <2> DEFINE r == [rec EXCEPT !.screen = IF Measured(wns) THEN "PASS" ELSE "ERROR"]
  <2>2. r \in Records /\ r.verdict = rec.verdict
    BY <1>0 DEF Records
  <2>3. rec' = r \/ Reject("regressed", r)
    BY <2>1
  <2> HIDE DEF r
  <2>4. rec'.verdict # "ACCEPTED"
    BY <1>8, <2>2, <2>3, RejectIsNoAccept DEF Screen, SettingsInv
  <2>5. audit'.ran_under = audit.ran_under \cup {settings}
    BY <1>0, <1>8 DEF Screen, Audits
  <2> QED
    BY <1>8, <2>4, <2>5, ToolKeepsSettings DEF Screen
<1>9. ASSUME Prove PROVE SettingsInv'
  <2>1. PICK status \in EqyStatuses :
          \/ rec' = [rec EXCEPT !.eqy = status]
          \/ Reject(EqyEdge(status), [rec EXCEPT !.eqy = status])
    BY <1>9 DEF Prove
  <2> DEFINE r == [rec EXCEPT !.eqy = status]
  <2>2. r \in Records /\ r.verdict = rec.verdict
    BY <1>0 DEF Records
  <2>3. rec' = r \/ Reject(EqyEdge(status), r)
    BY <2>1
  <2> HIDE DEF r
  <2>4. rec'.verdict # "ACCEPTED"
    BY <1>9, <2>2, <2>3, RejectIsNoAccept DEF Prove, SettingsInv
  <2>5. audit'.ran_under = audit.ran_under
    BY <1>0, <1>9 DEF Prove, Audits
  <2> QED
    BY <1>9, <2>4, <2>5
       DEF Prove, SettingsInv, Screened, AcceptedUnderBaselineSettings, environment
<1>10. ASSUME Physical PROVE SettingsInv'
  <2>1. rec'.verdict # "ACCEPTED"
    BY <1>10 DEF Physical, SettingsInv
  <2>2. audit'.ran_under = audit.ran_under \cup {settings}
    BY <1>0, <1>10 DEF Physical, Audits
  <2> QED
    BY <1>10, <2>1, <2>2, ToolKeepsSettings DEF Physical
<1>11. ASSUME Compare PROVE SettingsInv'
  <2>1. VerdictEdge(PolicyDecision.verdict) \in
          {"accepted", "non_comparable", "guardrail_breach"}
    BY DEF VerdictEdge
  <2>2. ctl' = "tail" /\ state' = "NEXT_ITERATION"
    BY <1>11, <2>1, EdgesOfTheLoop, AdvanceAlong DEF Compare
  <2>3. rec'.verdict = PolicyDecision.verdict
    BY <1>0, <1>11 DEF Compare, Records
  <2>4. rec'.verdict = "ACCEPTED" => audit.ran_under = {BaseSettings}
    BY <1>11, <2>3, AcceptComparesSettings DEF Compare, SettingsInv, Screened
  <2> QED
    BY <1>11, <2>2, <2>4
       DEF Compare, SettingsInv, Screened, AcceptedUnderBaselineSettings, environment
<1>12. CASE Record \/ Finish
  BY <1>12 DEF Record, Finish, SettingsInv, Screened, AcceptedUnderBaselineSettings,
               environment
<1>13. CASE EditSettings
  BY <1>13 DEF EditSettings, SettingsInv, Screened, AcceptedUnderBaselineSettings,
               machine, TypeOK
<1>14. CASE UNCHANGED vars
  BY <1>14 DEF vars, machine, environment, SettingsInv, Screened,
               AcceptedUnderBaselineSettings
<1> QED
  BY <1>1, <1>2, <1>3, <1>4, <1>5, <1>6, <1>7, <1>8, <1>9, <1>10, <1>11, <1>12,
     <1>13, <1>14 DEF Next, Step, Iterate

\* Without reverts, every accepted candidate was screened and routed under the
\* settings of the baseline, whatever was edited and when (pipeline.py:516-517).
THEOREM AcceptanceKeepsSettings ==
  ASSUME ~Reverts PROVE Spec => []AcceptedUnderBaselineSettings
<1>1. Init => SettingsInv
  BY DEF Init, SettingsInv, Screened, At, AcceptedUnderBaselineSettings, FreshRecord
<1>2. IInv /\ SettingsInv /\ [Next]_vars => SettingsInv'
  BY StepKeepsSettings DEF IInv
<1>3. SettingsInv => AcceptedUnderBaselineSettings
  BY DEF SettingsInv
<1> QED
  BY <1>1, <1>2, <1>3, Invariance, PTL DEF Spec
----------------------------------------------------------------------------
(***************************************************************************)
(* The walk.  Each step of the loop is one edge of the table, or leaves    *)
(* the machine where it is.  This covers the three places where the code   *)
(* assigns machine.state instead of calling advance: the restart of an     *)
(* iteration, a repeated patch, and the parking of _reject.                *)
(***************************************************************************)

\* An iteration ends at NEXT_ITERATION, and the first begins unproven.
Parked ==
    /\ (ctl = "tail" \/ (ctl = "head" /\ index > 0)) => state = "NEXT_ITERATION"
    /\ (ctl = "head" /\ index = 0) => state = "BUILD_REQUEST" /\ rec.eqy # "PASS"

\* What a step of the loop is to the abstract machine
WalkStep == Walk!Next \/ UNCHANGED Walk!walkVars

\* The walk is over the very table of the loop.
LEMMA SameTable == Walk!Transitions = Transitions
BY DEF Walk!Transitions, Transitions, Walk!Edge, Edge

\* advance along an edge that neither leaves EQY nor begins an iteration
LEMMA EdgeIsAStep ==
  ASSUME NEW o, NEW c, NEW t, NEW f,
         Edge(state, o, t, f) \in Transitions, Advance(o, c),
         state # "EQY", t # "BUILD_REQUEST",
         (rec'.eqy = "PASS") = (rec.eqy = "PASS")
  PROVE  Walk!Next
<1> DEFINE e == Edge(state, o, t, f)
<1>1. e.source = state /\ e.outcome = o /\ e.target = t
  BY DEF Edge
<1> HIDE DEF e
<1>2. e \in Transitions
  BY DEF e
<1>3. state' = t
  BY AdvanceAlong
<1>4. Walk!Take(e)
  BY <1>1, <1>3 DEF Walk!Take
<1> QED
  BY <1>2, <1>4, SameTable DEF Walk!Next

\* A rejected record keeps its equivalence status.
LEMMA RejectKeepsProof ==
  ASSUME NEW o, NEW r \in Records, TypeOK, Reject(o, r)
  PROVE  rec'.eqy = r.eqy
BY RejectIsTyped DEF Records

\* The steps up to a valid recommendation
LEMMA ModelStepsWalk ==
  ASSUME TypeOK, BuildRequest \/ ProposeFails \/ Propose \/ Proceed \/ Decline
                   \/ RepairFails \/ Repair \/ NoPatchToHash
  PROVE  WalkStep
<1> USE DEF At, WalkStep
<1>0. rec \in Records
  BY DEF TypeOK
<1>1. CASE BuildRequest
  BY <1>1, EdgesOfTheLoop, EdgeIsAStep DEF BuildRequest
<1>2. CASE ProposeFails
  BY <1>0, <1>2, EdgesOfTheLoop, EdgeIsAStep, RejectKeepsProof DEF ProposeFails, Reject
<1>3. CASE Propose
  BY <1>3, EdgesOfTheLoop, EdgeIsAStep DEF Propose
<1>4. CASE Proceed
  <2>1. CASE Outcome(cur.answer, cur.repaired) = "valid"
    BY <1>4, <2>1, EdgesOfTheLoop, EdgeIsAStep DEF Proceed
  <2>2. CASE Outcome(cur.answer, cur.repaired) = "repairable"
    BY <1>4, <2>2, EdgesOfTheLoop, EdgeIsAStep DEF Proceed
  <2> QED
    BY <1>4, <2>1, <2>2 DEF Proceed
<1>5. CASE Decline
  <2>1. PICK o \in {"abstained", "invalid", "ungrounded"} :
          o = Outcome(cur.answer, cur.repaired)
    BY <1>5 DEF Decline, Outcome
  <2>2. PICK e \in Transitions :
          /\ e.source = "VALIDATE_RECOMMENDATION" /\ e.outcome = o
          /\ e.target = "NEXT_ITERATION"
    BY <2>1, EdgesOfTheLoop DEF Edge
  <2>3. rec'.eqy = rec.eqy /\ state' = "NEXT_ITERATION" /\ state = e.source
    BY <1>0, <1>5, <2>2 DEF Decline, Rejected, Records
  <2>4. Walk!Take(e)
    BY <2>2, <2>3 DEF Walk!Take
  <2> QED
    BY <2>4, SameTable DEF Walk!Next
<1>6. CASE RepairFails
  BY <1>0, <1>6, EdgesOfTheLoop, EdgeIsAStep, RejectKeepsProof DEF RepairFails, Reject
<1>7. CASE Repair
  BY <1>7, EdgesOfTheLoop, EdgeIsAStep DEF Repair
<1>8. CASE NoPatchToHash
  BY <1>8 DEF NoPatchToHash, Raise, machine, Walk!walkVars
<1> QED
  BY <1>1, <1>2, <1>3, <1>4, <1>5, <1>6, <1>7, <1>8

\* The steps from the patch to the proof
LEMMA CandidateStepsWalk ==
  ASSUME TypeOK, Repeat \/ Applied \/ PatchRefused \/ SynthesisFails \/ Screen
  PROVE  WalkStep
<1> USE DEF At, WalkStep
<1>0. rec \in Records
  BY DEF TypeOK
<1>1. CASE Repeat
  <2>1. PICK e \in Transitions :
          e.source = "APPLY_PATCH" /\ e.target = "NEXT_ITERATION"
    BY EdgesOfTheLoop DEF Edge
  <2>2. rec'.eqy = rec.eqy /\ state' = "NEXT_ITERATION" /\ state = e.source
    BY <1>0, <1>1, <2>1 DEF Repeat, Rejected, Records
  <2>3. Walk!Take(e)
    BY <2>1, <2>2 DEF Walk!Take
  <2> QED
    BY <2>3, SameTable DEF Walk!Next
<1>2. ASSUME BuildCandidate
      PROVE  /\ state = "APPLY_PATCH"
             /\ CandidateRecord \in Records /\ CandidateRecord.eqy = rec.eqy
  BY <1>0, <1>2, CandidateIsTyped DEF BuildCandidate, CandidateRecord, Records
<1>3. CASE Applied
  BY <1>2, <1>3, EdgesOfTheLoop, EdgeIsAStep DEF Applied
<1>4. CASE PatchRefused
  <2>1. PICK o \in {"protected", "rejected"} : Reject(o, CandidateRecord)
    BY <1>4 DEF PatchRefused
  <2>2. Advance(o, "tail") /\ rec'.eqy = rec.eqy /\ state = "APPLY_PATCH"
    BY <1>2, <1>4, <2>1, RejectKeepsProof DEF Reject, PatchRefused
  <2> QED
    BY <2>2, EdgesOfTheLoop, EdgeIsAStep
<1>5. CASE SynthesisFails
  <2>1. \A status \in {"FAIL", "TIMEOUT", "ERROR"} :
          /\ [rec EXCEPT !.screen = status] \in Records
          /\ [rec EXCEPT !.screen = status].eqy = rec.eqy
    BY <1>0 DEF Records
  <2>2. Advance("failed", "tail") /\ rec'.eqy = rec.eqy /\ state = "SCREEN"
    BY <1>5, <2>1, RejectKeepsProof DEF SynthesisFails, Reject
  <2> QED
    BY <2>2, EdgesOfTheLoop, EdgeIsAStep
<1>6. CASE Screen
  <2>1. PICK n \in Netlists, wns \in ScreenSlacks, clocks \in {{}, BaseRun.clocks} :
          LET better == ScreenImproved(BaseScreenWns, wns)
              r == [rec EXCEPT !.screen = IF Measured(wns) THEN "PASS" ELSE "ERROR"]
          IN  IF n \in seen_netlists THEN Reject("regressed", r)
              ELSE IF better THEN Advance("improved", "body") /\ rec' = r
                   ELSE Reject("regressed", r)
    BY <1>6 DEF Screen
  <2> DEFINE r == [rec EXCEPT !.screen = IF Measured(wns) THEN "PASS" ELSE "ERROR"]
  <2>2. r \in Records /\ r.eqy = rec.eqy
    BY <1>0 DEF Records
  <2>3. (Advance("improved", "body") /\ rec' = r) \/ Reject("regressed", r)
    BY <2>1
  <2> HIDE DEF r
  <2>4. rec'.eqy = rec.eqy
    BY <2>2, <2>3, RejectKeepsProof
  <2>5. Advance("improved", "body") \/ Advance("regressed", "tail")
    BY <2>3 DEF Reject
  <2> QED
    BY <1>6, <2>4, <2>5, EdgesOfTheLoop, EdgeIsAStep DEF Screen
<1> QED
  BY <1>1, <1>3, <1>4, <1>5, <1>6

\* The proof takes the edge of its status, and only PASS takes "pass".
LEMMA ProveWalks == TypeOK /\ Prove => WalkStep
<1> SUFFICES ASSUME TypeOK, Prove PROVE WalkStep
  OBVIOUS
<1>0. rec \in Records /\ state = "EQY"
  BY DEF TypeOK, Prove, At
<1>1. PICK status \in EqyStatuses :
        IF EqyEdge(status) = "pass"
        THEN Advance("pass", "body") /\ rec' = [rec EXCEPT !.eqy = status]
        ELSE Reject(EqyEdge(status), [rec EXCEPT !.eqy = status])
  BY DEF Prove
<1> DEFINE r == [rec EXCEPT !.eqy = status]
<1>2. r \in Records /\ r.eqy = status
  BY <1>0 DEF Records
<1>3. \/ EqyEdge(status) = "pass" /\ Advance("pass", "body") /\ rec' = r
      \/ EqyEdge(status) # "pass" /\ Reject(EqyEdge(status), r)
  BY <1>1
<1> HIDE DEF r
<1>4. rec'.eqy = status
  BY <1>2, <1>3, RejectKeepsProof
<1>5. PICK c : Advance(EqyEdge(status), c)
  BY <1>3 DEF Reject
<1>6. PICK e \in Transitions :
        e.source = "EQY" /\ e.outcome = EqyEdge(status) /\ e.target # "BUILD_REQUEST"
  <2>1. EqyEdge(status) \in {"pass", "fail", "unknown"}
    BY DEF EqyEdge
  <2> QED
    BY <2>1, EdgesOfTheLoop DEF Edge
<1>7. state' = e.target
  BY <1>0, <1>5, <1>6, EdgeTaken DEF Advance
<1>8. (rec'.eqy = "PASS") = (e.outcome = "pass")
  BY <1>4, <1>6 DEF EqyEdge, EqyStatuses
<1>9. Walk!Take(e)
  BY <1>0, <1>6, <1>7, <1>8 DEF Walk!Take
<1> QED
  BY <1>9, SameTable DEF Walk!Next, WalkStep

\* The physical run and the comparison
LEMMA PhysicalStepsWalk ==
  ASSUME TypeOK, PhysicalFails \/ Physical \/ Compare \/ CompareRaises
  PROVE  WalkStep
<1> USE DEF At, WalkStep
<1>0. rec \in Records
  BY DEF TypeOK
<1>1. CASE PhysicalFails
  BY <1>0, <1>1, EdgesOfTheLoop, EdgeIsAStep, RejectKeepsProof DEF PhysicalFails, Reject
<1>2. CASE Physical
  BY <1>2, EdgesOfTheLoop, EdgeIsAStep DEF Physical
<1>3. CASE Compare
  <2>1. VerdictEdge(PolicyDecision.verdict) \in
          {"accepted", "non_comparable", "guardrail_breach"}
    BY DEF VerdictEdge
  <2>2. rec'.eqy = rec.eqy
    BY <1>0, <1>3 DEF Compare, Records
  <2> QED
    BY <1>3, <2>1, <2>2, EdgesOfTheLoop, EdgeIsAStep DEF Compare
<1>4. CASE CompareRaises
  BY <1>4 DEF CompareRaises, Raise, machine, Walk!walkVars
<1> QED
  BY <1>1, <1>2, <1>3, <1>4

\* The restart of an iteration is the edge "continue", or the very first.
LEMMA BeginWalks == Parked /\ TypeOK /\ BeginIteration => WalkStep
<1> SUFFICES ASSUME Parked, TypeOK, BeginIteration PROVE WalkStep
  OBVIOUS
<1> USE DEF BeginIteration, WalkStep
<1>1. rec'.eqy # "PASS" /\ state' = "BUILD_REQUEST"
  BY DEF FreshRecord
<1>2. CASE index = 0
  BY <1>1, <1>2 DEF Parked, Walk!walkVars
<1>3. CASE index > 0
  <2>1. PICK e \in Transitions :
          /\ e.source = "NEXT_ITERATION" /\ e.outcome = "continue"
          /\ e.target = "BUILD_REQUEST"
    BY EdgesOfTheLoop DEF Edge
  <2>2. Walk!Take(e)
    BY <1>1, <1>3, <2>1 DEF Parked, Walk!Take
  <2> QED
    BY <2>2, SameTable DEF Walk!Next
<1> QED
  BY <1>2, <1>3, MaxIterationsAssumption DEF TypeOK

\* Every step of the program is a step of the walk, or leaves it alone.
LEMMA EveryStepWalks == IInv /\ Parked /\ [Next]_vars => WalkStep
<1> SUFFICES ASSUME TypeOK, Parked, [Next]_vars PROVE WalkStep
  BY DEF IInv
<1>1. CASE Record \/ Finish \/ EditSettings \/ UNCHANGED vars
  BY <1>1 DEF Record, Finish, EditSettings, vars, machine, WalkStep, Walk!walkVars
<1> QED
  BY <1>1, BeginWalks, ModelStepsWalk, CandidateStepsWalk, ProveWalks, PhysicalStepsWalk
     DEF Next, Step, Iterate

\* Where an iteration leaves the machine
LEMMA StepParks == IInv /\ Parked /\ [Next]_vars => Parked'
<1> SUFFICES ASSUME IInv, TypeOK, Parked, [Next]_vars, IInv' PROVE Parked'
  BY StepPreserves DEF IInv
<1> USE DEF Parked
<1>0. index \in Nat
  BY MaxIterationsAssumption DEF TypeOK
<1>1. CASE BeginIteration \/ Record \/ Finish \/ EditSettings \/ UNCHANGED vars
  BY <1>0, <1>1, MaxIterationsAssumption
     DEF BeginIteration, Record, Finish, EditSettings, vars, machine, IInv, Counted
<1>2. CASE Iterate
  <2>1. ctl' = "tail" => state' = "NEXT_ITERATION"
    <3> USE DEF At
    <3>1. CASE BuildRequest \/ ProposeFails \/ Propose \/ Proceed \/ Decline
      BY <3>1, EdgesOfTheLoop, AdvanceAlong
         DEF BuildRequest, ProposeFails, Propose, Proceed, Decline, Reject
    <3>2. CASE RepairFails \/ Repair \/ NoPatchToHash \/ Repeat
      BY <3>2, EdgesOfTheLoop, AdvanceAlong
         DEF RepairFails, Repair, NoPatchToHash, Repeat, Raise, Reject
    <3>3. CASE Applied \/ PatchRefused \/ SynthesisFails
      BY <3>3, EdgesOfTheLoop, AdvanceAlong
         DEF Applied, PatchRefused, BuildCandidate, SynthesisFails, Reject
    <3>4. CASE Screen
      BY <3>4, EdgesOfTheLoop, AdvanceAlong DEF Screen, Reject
    <3>5. CASE Prove
      <4>1. PICK status \in EqyStatuses :
              \/ Advance("pass", "body")
              \/ EqyEdge(status) # "pass" /\ Advance(EqyEdge(status), "tail")
        BY <3>5 DEF Prove, Reject
      <4>2. EqyEdge(status) \in {"pass", "fail", "unknown"}
        BY DEF EqyEdge
      <4> QED
        BY <3>5, <4>1, <4>2, EdgesOfTheLoop, AdvanceAlong DEF Prove
    <3>6. CASE PhysicalFails \/ Physical \/ CompareRaises
      BY <3>6, EdgesOfTheLoop, AdvanceAlong
         DEF PhysicalFails, Physical, CompareRaises, Raise, Reject
    <3>7. CASE Compare
      <4>1. VerdictEdge(PolicyDecision.verdict) \in
              {"accepted", "non_comparable", "guardrail_breach"}
        BY DEF VerdictEdge
      <4> QED
        BY <3>7, <4>1, EdgesOfTheLoop, AdvanceAlong DEF Compare
    <3> QED
      BY <1>2, <3>1, <3>2, <3>3, <3>4, <3>5, <3>6, <3>7 DEF Iterate
  <2>2. ctl' # "head"
    BY <1>2 DEF Iterate, BuildRequest, ProposeFails, Propose, Proceed, Decline,
                RepairFails, Repair, NoPatchToHash, Repeat, Applied, PatchRefused,
                SynthesisFails, Screen, Prove, PhysicalFails, Physical, Compare,
                CompareRaises, Raise, Reject, Advance
  <2> QED
    BY <2>1, <2>2
<1> QED
  BY <1>1, <1>2 DEF Next, Step

\* The loop implements AsmWalk: the machine moves along the table, and ORFS is
\* entered only on the proof of the candidate at hand (statemachine.py:163-176).
THEOREM Refinement == Spec => WalksTheTable
<1>1. Init => Walk!Init /\ Parked
  BY DEF Init, Walk!Init, Parked, FreshRecord
<1>2. IInv /\ Parked /\ [Next]_vars => [Walk!Next]_Walk!walkVars
  BY EveryStepWalks DEF WalkStep
<1>3. IInv /\ Parked /\ [Next]_vars => Parked'
  BY StepParks
<1> QED
  BY <1>1, <1>2, <1>3, Invariance, PTL DEF Spec, Walk!Spec, WalksTheTable
----------------------------------------------------------------------------
(***************************************************************************)
(* The length of a run.  LoopEnds is liveness and stays with TLC; what it  *)
(* rests on is safety: there is a number of steps the loop has left, which *)
(* each step of the loop lowers and no edit of the settings touches.       *)
(***************************************************************************)

\* What the place in an iteration adds.  VALIDATE_RECOMMENDATION comes twice: the
\* repair is behind it, or may be ahead.
LeftInBody ==
    CASE state = "BUILD_REQUEST" -> 12
      [] state = "LLM_PROPOSE" -> 11
      [] state = "VALIDATE_RECOMMENDATION" -> IF cur.repaired THEN 8 ELSE 10
      [] state = "LLM_REPAIR" -> 9
      [] state = "APPLY_PATCH" -> 7
      [] state = "SCREEN" -> 6
      [] state = "EQY" -> 5
      [] state = "ORFS" -> 4
      [] OTHER -> 3

\* The steps the loop has left, at most: 12 for each iteration, and Finish
StepsLeft ==
    CASE ctl \in {"done", "raised"} -> 0
      [] ctl = "finish" -> 1
      [] ctl = "head" -> 12 * (MaxIterations - index) + 1
      [] ctl = "tail" -> 12 * (MaxIterations - index) + 2
      [] OTHER -> 12 * (MaxIterations - index) + LeftInBody

\* No more than twelve steps per iteration of the budget and the report at the
\* end, and none only once the loop was left.
LeftIsBounded ==
    /\ StepsLeft \in 0 .. 12 * MaxIterations + 1
    /\ StepsLeft = 0 <=> ctl \in {"done", "raised"}

\* What a step does to the number of steps left
Lowered ==
    /\ StepsLeft' <= StepsLeft
    /\ Step => StepsLeft' < StepsLeft

ComesCloser == [][Lowered]_vars

\* A step from one box of an iteration to a later one, or out of it
LEMMA BoxesGoOn ==
  ASSUME IInv, ctl = "body", index' = index,
         \/ ctl' = "body" /\ LeftInBody' < LeftInBody
         \/ ctl' \in {"tail", "raised"}
  PROVE  StepsLeft' < StepsLeft
<1>1. MaxIterations - index \in Nat
  BY MaxIterationsAssumption DEF IInv, TypeOK
<1>2. LeftInBody \in 3 .. 12 /\ (ctl' = "body" => LeftInBody' < LeftInBody)
  BY DEF LeftInBody
<1>3. StepsLeft = 12 * (MaxIterations - index) + LeftInBody
  BY DEF StepsLeft
<1>4. CASE ctl' = "body"
  <2>1. StepsLeft' = 12 * (MaxIterations - index) + LeftInBody'
    BY <1>4 DEF StepsLeft
  <2>2. LeftInBody' \in Int
    BY DEF LeftInBody
  <2> QED
    BY <1>1, <1>2, <1>3, <1>4, <2>1, <2>2
<1>5. CASE ctl' = "tail"
  BY <1>1, <1>2, <1>3, <1>5 DEF StepsLeft
<1>6. CASE ctl' = "raised"
  BY <1>1, <1>2, <1>3, <1>6 DEF StepsLeft
<1> QED
  BY <1>4, <1>5, <1>6

\* Inside an iteration, each step leads to a later box, or out of it; it leads
\* back to VALIDATE_RECOMMENDATION with the repair used up.
LEMMA IterationGoesOn == ASSUME IInv, Iterate PROVE StepsLeft' < StepsLeft
<1> USE DEF At, Loop
<1>0. ctl = "body" /\ index' = index
  BY DEF Iterate, BuildRequest, ProposeFails, Propose, Proceed, Decline,
         RepairFails, Repair, NoPatchToHash, Repeat, Applied, PatchRefused,
         BuildCandidate, SynthesisFails, Screen, Prove, PhysicalFails, Physical,
         Compare, CompareRaises, Raise
<1>1. CASE BuildRequest
  <2>1. state' = "LLM_PROPOSE" /\ ctl' = "body"
    BY <1>1, EdgesOfTheLoop, AdvanceAlong DEF BuildRequest
  <2> QED
    BY <1>0, <1>1, <2>1, BoxesGoOn DEF BuildRequest, LeftInBody
<1>2. CASE Propose
  <2>1. state' = "VALIDATE_RECOMMENDATION" /\ ctl' = "body"
    BY <1>2, EdgesOfTheLoop, AdvanceAlong DEF Propose
  <2> QED
    BY <1>0, <1>2, <2>1, BoxesGoOn DEF Propose, LeftInBody
<1>3. CASE Proceed
  <2>1. /\ ctl' = "body" /\ cur' = cur
        /\ state' = "APPLY_PATCH" \/ (state' = "LLM_REPAIR" /\ ~cur.repaired)
    BY <1>3, EdgesOfTheLoop, AdvanceAlong DEF Proceed
  <2> QED
    BY <1>0, <1>3, <2>1, BoxesGoOn DEF Proceed, LeftInBody
<1>4. CASE Repair
  <2>1. state' = "VALIDATE_RECOMMENDATION" /\ ctl' = "body"
    BY <1>4, EdgesOfTheLoop, AdvanceAlong DEF Repair
  <2>2. cur'.repaired
    BY <1>4 DEF Repair, IInv, TypeOK, Locals
  <2> QED
    BY <1>0, <1>4, <2>1, <2>2, BoxesGoOn DEF Repair, LeftInBody
<1>5. CASE Applied
  <2>1. state' = "SCREEN" /\ ctl' = "body" /\ state = "APPLY_PATCH"
    BY <1>5, EdgesOfTheLoop, AdvanceAlong DEF Applied, BuildCandidate
  <2> QED
    BY <1>0, <2>1, BoxesGoOn DEF LeftInBody
<1>6. CASE Screen
  <2>1. PICK n \in Netlists, wns \in ScreenSlacks, clocks \in {{}, BaseRun.clocks} :
          LET r == [rec EXCEPT !.screen = IF Measured(wns) THEN "PASS" ELSE "ERROR"]
          IN  Reject("regressed", r) \/ Advance("improved", "body")
    BY <1>6 DEF Screen
  <2>2. ctl' = "tail" \/ (ctl' = "body" /\ state' = "EQY")
    BY <1>6, <2>1, EdgesOfTheLoop, AdvanceAlong DEF Screen, Reject
  <2> QED
    BY <1>0, <1>6, <2>2, BoxesGoOn DEF Screen, LeftInBody
<1>7. CASE Prove
  <2>1. PICK status \in EqyStatuses :
          \/ Advance("pass", "body")
          \/ EqyEdge(status) # "pass"
             /\ Reject(EqyEdge(status), [rec EXCEPT !.eqy = status])
    BY <1>7 DEF Prove
  <2>2. EqyEdge(status) \in {"pass", "fail", "unknown"}
    BY DEF EqyEdge
  <2>3. ctl' = "tail" \/ (ctl' = "body" /\ state' = "ORFS")
    BY <1>7, <2>1, <2>2, EdgesOfTheLoop, AdvanceAlong DEF Prove, Reject
  <2> QED
    BY <1>0, <1>7, <2>3, BoxesGoOn DEF Prove, LeftInBody
<1>8. CASE Physical
  <2>1. state' = "COMPARE" /\ ctl' = "body"
    BY <1>8, EdgesOfTheLoop, AdvanceAlong DEF Physical
  <2> QED
    BY <1>0, <1>8, <2>1, BoxesGoOn DEF Physical, LeftInBody
<1>9. CASE ProposeFails \/ RepairFails \/ SynthesisFails \/ PhysicalFails
  <2>1. ctl' = "tail"
    BY <1>9, EdgesOfTheLoop, AdvanceAlong
       DEF ProposeFails, RepairFails, SynthesisFails, PhysicalFails, Reject
  <2> QED
    BY <1>0, <2>1, BoxesGoOn
<1>10. CASE PatchRefused
  <2>1. PICK o \in {"protected", "rejected"} : Reject(o, CandidateRecord)
    BY <1>10 DEF PatchRefused
  <2>2. ctl' = "tail"
    BY <1>10, <2>1, EdgesOfTheLoop, AdvanceAlong
       DEF PatchRefused, BuildCandidate, Reject
  <2> QED
    BY <1>0, <2>2, BoxesGoOn
<1>11. CASE Compare
  <2>1. VerdictEdge(PolicyDecision.verdict) \in
          {"accepted", "non_comparable", "guardrail_breach"}
    BY DEF VerdictEdge
  <2>2. ctl' = "tail"
    BY <1>11, <2>1, EdgesOfTheLoop, AdvanceAlong DEF Compare
  <2> QED
    BY <1>0, <2>2, BoxesGoOn
<1>12. CASE Decline \/ Repeat \/ NoPatchToHash \/ CompareRaises
  <2>1. CASE Decline
    BY <1>0, <2>1, BoxesGoOn DEF Decline
  <2>2. CASE Repeat
    BY <1>0, <2>2, BoxesGoOn DEF Repeat
  <2>3. CASE NoPatchToHash \/ CompareRaises
    BY <1>0, <2>3, BoxesGoOn DEF NoPatchToHash, CompareRaises, Raise
  <2> QED
    BY <1>12, <2>1, <2>2, <2>3
<1> QED
  BY <1>1, <1>2, <1>3, <1>4, <1>5, <1>6, <1>7, <1>8, <1>9, <1>10, <1>11, <1>12
     DEF Iterate

\* Around the iterations: the next one begins, the record is appended, the
\* report is written.
LEMMA LoopGoesOn ==
  ASSUME IInv, BeginIteration \/ Record \/ Finish
  PROVE  StepsLeft' < StepsLeft
<1>0. /\ MaxIterations \in Nat /\ index \in 0 .. MaxIterations
      /\ Len(ledger.iterations) = IF ctl = "tail" THEN index - 1 ELSE index
  BY MaxIterationsAssumption DEF IInv, TypeOK, Counted, BeginIteration, Record, Finish
<1>1. CASE BeginIteration
  <2>1. StepsLeft = 12 * (MaxIterations - index) + 1
    BY <1>1 DEF BeginIteration, StepsLeft
  <2>2. /\ index' = index + 1
        /\ StepsLeft' = 12 * (MaxIterations - index') + 12
    BY <1>1 DEF BeginIteration, StepsLeft, LeftInBody
  <2> QED
    BY <1>0, <2>1, <2>2
<1>2. CASE Record
  <2>1. StepsLeft = 12 * (MaxIterations - index) + 2
    BY <1>2 DEF Record, StepsLeft
  <2>2. StepsLeft' \in {12 * (MaxIterations - index) + 1, 1}
    BY <1>2 DEF Record, StepsLeft
  <2> QED
    BY <1>0, <2>1, <2>2
<1>3. CASE Finish
  BY <1>3 DEF Finish, StepsLeft
<1> QED
  BY <1>1, <1>2, <1>3

\* The bound, in every state the loop can be in
LEMMA LeftInBounds == IInv => LeftIsBounded
<1> SUFFICES ASSUME IInv PROVE LeftIsBounded
  OBVIOUS
<1> DEFINE gone == MaxIterations - index
<1>1. /\ MaxIterations \in Nat /\ gone \in 0 .. MaxIterations
      /\ ctl = "body" => gone <= MaxIterations - 1
      /\ ctl = "tail" => gone <= MaxIterations - 1
  BY MaxIterationsAssumption DEF IInv, TypeOK, Counted
<1>2. LeftInBody \in 3 .. 12
  BY DEF LeftInBody
<1>3. ctl \in {"head", "body", "tail", "finish", "done", "raised"}
  BY DEF IInv, TypeOK, Places
<1>4. CASE ctl \in {"done", "raised"}
  BY <1>1, <1>4 DEF LeftIsBounded, StepsLeft
<1>5. CASE ctl = "finish"
  BY <1>1, <1>5 DEF LeftIsBounded, StepsLeft
<1>6. CASE ctl \in {"head", "tail", "body"}
  <2>1. StepsLeft \in {12 * gone + 1, 12 * gone + 2, 12 * gone + LeftInBody}
        /\ (ctl = "head" => StepsLeft = 12 * gone + 1)
    BY <1>6 DEF StepsLeft
  <2> QED
    BY <1>1, <1>2, <1>6, <2>1 DEF LeftIsBounded
<1> QED
  BY <1>3, <1>4, <1>5, <1>6

\* The loop makes at most 12 * MaxIterations + 1 steps, whatever the model and
\* the tools answer and however often the settings are edited in between
\* (pipeline.py, optimize; validator.py, already_repaired): the number of steps
\* left is bounded, each step lowers it, and it is 0 only when the loop was left.
THEOREM EndsInBoundedSteps == Spec => []LeftIsBounded /\ ComesCloser
<1>1. IInv /\ [Next]_vars => [Lowered]_vars
  <2> SUFFICES ASSUME IInv, Next PROVE Lowered
    OBVIOUS
  <2>1. StepsLeft \in Int /\ StepsLeft' \in Int
    <3>1. IInv'
      BY StepPreserves
    <3>2. LeftIsBounded'
      BY <3>1, LeftInBounds, PTL
    <3>3. 0 .. 12 * MaxIterations + 1 \subseteq Int
      BY MaxIterationsAssumption
    <3> QED
      BY <3>2, <3>3, LeftInBounds DEF LeftIsBounded
  <2>2. CASE Step
    <3>1. StepsLeft' < StepsLeft
      BY <2>2, IterationGoesOn, LoopGoesOn DEF Step
    <3> QED
      BY <2>1, <3>1 DEF Lowered
  <2>3. CASE EditSettings /\ ~Step
    <3>1. StepsLeft' = StepsLeft
      BY <2>3 DEF EditSettings, machine, StepsLeft, LeftInBody
    <3> QED
      BY <2>1, <2>3, <3>1 DEF Lowered
  <2> QED
    BY <2>2, <2>3 DEF Next
<1> QED
  BY <1>1, LeftInBounds, Invariance, PTL DEF Spec, ComesCloser

=============================================================================
