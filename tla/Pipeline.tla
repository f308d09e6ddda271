------------------------------ MODULE Pipeline ------------------------------
(***************************************************************************)
(* The optimization loop (src/orchestrator/pipeline.py, optimize and       *)
(* _run_iteration) with its ledger (history.py), driving the state machine *)
(* (Asm) and the acceptance policy (Policy).  The language model and the   *)
(* EDA tools are nondeterministic; the frozen settings (SDC, Liberty) are  *)
(* files that anybody may edit while the loop runs.                        *)
(*                                                                         *)
(* A patch is named by its normalised hash.  Whether it applies, and the   *)
(* netlist it elaborates to, are not functions of the hash: the hash drops *)
(* context lines and file names, so two diffs that share it may fare       *)
(* differently.                                                            *)
(***************************************************************************)
EXTENDS Asm, Policy, Sequences, FiniteSets

CONSTANTS
  MaxIterations,   \* iterations = max_iterations or run_policy.max_iterations
  Hashes,          \* normalised patch hashes the model may propose
  Netlists,        \* contents netlist.v may have after a candidate's synthesis
  Settings,        \* values config.settings_hash() may take
  Reverts,         \* TRUE when an edit may restore earlier contents
  ScreenSlacks,    \* wns figures the screen STA may report, or Unmeasured
  Figures,         \* post-route [wns, area, cells] a candidate may come out with
  BaseScreenWns,   \* baseline.timing.wns
  BaseRun,         \* baseline [wns, area, cells, clocks] after routing
  Guard,           \* objective.guardrails
  None             \* no value

ASSUME MaxIterationsAssumption == MaxIterations \in Nat
ASSUME SettingsAssumption == Settings # {}
ASSUME NoneAssumption == None \notin Hashes /\ None \notin Netlists
ASSUME NoStopAssumption == None # "cycle detected"

EqyStatuses == {"PASS", "FAIL", "ERROR", "TIMEOUT", "UNKNOWN"}

\* A recommendation the model may return.  `problem` is what the validator
\* finds wrong with it, `hash` the patch it carries: an "advise" may carry none.
Answers ==
    [kind : {"abstain"}, problem : {"none"}, hash : {None}]
      \cup [kind : {"advise"}, problem : {"none"}, hash : {None}]
      \cup [kind : {"patch"}, problem : {"none"}, hash : Hashes]
      \cup [kind : {"patch"}, problem : {"structural", "ungrounded"}, hash : {None}]

\* IterationRecord; `candidate` is that a candidate id was allotted
Records ==
    [patch_hash : Hashes \cup {None}, candidate : BOOLEAN,
     screen : {"NOT_RUN", "PASS", "FAIL", "TIMEOUT", "ERROR"},
     eqy : EqyStatuses \cup {"NOT_RUN"},
     verdict : {"NOT_EVALUATED", "ACCEPTED", "REJECTED", "NON_COMPARABLE"},
     failure_class : FailureClasses]

VARIABLES
  ctl,            \* where control is: see Places
  index,          \* the iteration of the for loop
  state,          \* machine.state
  last_failure,   \* machine.last_failure
  rec,            \* record, the IterationRecord in the making
  cur,            \* locals of _run_iteration, see Locals
  seen_netlists,  \* seen_netlist_hashes
  ledger,         \* OptimizationIterationHistory
  report,         \* LoopReport without its iterations, which are the ledger's
  settings,       \* what config.settings_hash() would return now
  used_settings,  \* every value settings has had
  audit           \* history: what was done, see Audits

machine == <<state, last_failure>>
environment == <<settings, used_settings>>
vars == <<ctl, index, machine, rec, cur, seen_netlists, ledger, report,
          environment, audit>>

\* head, tail: the loop of optimize around _run_iteration (body).  raised: an
\* exception left optimize; off_table: that of advance, for a missing edge.
Places == {"head", "body", "tail", "finish", "done", "raised", "off_table"}

Locals ==
    [answer : Answers \cup {None},      \* recommendation
     repaired : BOOLEAN,                \* the one repair was used
     netlist : Netlists \cup {None},    \* netlist_hash
     clocks : SUBSET BaseRun.clocks,    \* screen_timing.clocks
     figures : Figures \cup {None}]     \* cand_timing, cand_qor

Audits ==
    [built : [Hashes -> Nat],           \* apply_patch calls per hash
     proofs : [Netlists -> Nat],        \* EQY runs per netlist
     ran_under : SUBSET Settings]       \* settings the candidate's tools read

FreshRecord ==
    [patch_hash |-> None, candidate |-> FALSE, screen |-> "NOT_RUN",
     eqy |-> "NOT_RUN", verdict |-> "NOT_EVALUATED", failure_class |-> "NONE"]

FreshLocals ==
    [answer |-> None, repaired |-> FALSE, netlist |-> None, clocks |-> {},
     figures |-> None]

StopReasons == {None, "cycle detected", "iteration budget reached"}

Ledgers ==
    [iterations : Seq(Records), seen : SUBSET Hashes,
     accepted : Seq(1 .. MaxIterations), stop : StopReasons]

Reports == [accepted : Seq(1 .. MaxIterations), stop : StopReasons]

\* The settings the baseline was measured under
BaseSettings == CHOOSE s \in Settings : TRUE

Init ==
    /\ ctl = IF MaxIterations = 0 THEN "finish" ELSE "head"
    /\ index = 0
    /\ state = "BUILD_REQUEST" /\ last_failure = "NONE"
    /\ rec = FreshRecord /\ cur = FreshLocals
    /\ seen_netlists = {}
    /\ ledger = [iterations |-> <<>>, seen |-> {}, accepted |-> <<>>, stop |-> None]
    /\ report = [accepted |-> <<>>, stop |-> None]
    /\ settings = BaseSettings /\ used_settings = {BaseSettings}
    /\ audit = [built |-> [h \in Hashes |-> 0], proofs |-> [n \in Netlists |-> 0],
                ran_under |-> {}]
----------------------------------------------------------------------------
\* The machine

At(s) == ctl = "body" /\ state = s

\* machine.advance(outcome), then control passes to c; off the table it raises
Advance(outcome, c) ==
    IF HasEdge(state, outcome)
    THEN /\ state' = Target(state, outcome)
         /\ last_failure' = FailureAfter(state, outcome, last_failure)
         /\ ctl' = c
    ELSE ctl' = "off_table" /\ UNCHANGED machine

\* _reject: the record takes the class the machine was left with
Rejected(r) ==
    [r EXCEPT !.verdict = "REJECTED", !.failure_class = last_failure']

\* advance(outcome) followed by _reject of the record r
Reject(outcome, r) ==
    /\ Advance(outcome, "tail")
    /\ rec' = Rejected(r)

\* An exception nobody catches: optimize ends here
Raise ==
    /\ ctl' = "raised"
    /\ UNCHANGED <<index, machine, rec, cur, seen_netlists, ledger, report,
                   environment, audit>>

Loop == <<index, ledger, report, environment>>
----------------------------------------------------------------------------
\* The loop of optimize

\* Mutant of ClearedFailure: reset_iteration is forgotten
KeptFailure(last) == last

\* Mutant of ClearedFailure: the class is unset, and nothing turns it into NONE
UnsetFailure(last) == None

\* reset_iteration
ClearedFailure(last) == "NONE"

BeginIteration ==
    /\ ctl = "head"
    /\ ctl' = "body" /\ index' = index + 1
    /\ state' = "BUILD_REQUEST" /\ last_failure' = ClearedFailure(last_failure)
    /\ rec' = FreshRecord /\ cur' = FreshLocals
    /\ audit' = [audit EXCEPT !.ran_under = {}]
    /\ UNCHANGED <<seen_netlists, ledger, report, environment>>

\* build_request, then advance("ok")
BuildRequest ==
    /\ At("BUILD_REQUEST")
    /\ Advance("ok", "body")
    /\ UNCHANGED <<rec, cur, seen_netlists, Loop, audit>>

\* llm.propose raised
ProposeFails ==
    /\ At("LLM_PROPOSE")
    /\ Reject("error", rec)
    /\ UNCHANGED <<cur, seen_netlists, Loop, audit>>

Propose ==
    /\ At("LLM_PROPOSE")
    /\ \E a \in Answers : cur' = [cur EXCEPT !.answer = a]
    /\ Advance("responded", "body")
    /\ UNCHANGED <<rec, seen_netlists, Loop, audit>>

\* Mutant of Outcome: the second validation does not know of the repair
OutcomeForgetsRepair(answer, repaired) ==
    IF answer.kind = "abstain" THEN "abstained"
    ELSE IF answer.problem = "none" THEN "valid"
    ELSE "repairable"

\* validate_recommendation(recommendation, request, already_repaired)
Outcome(answer, repaired) ==
    IF answer.kind = "abstain" THEN "abstained"
    ELSE IF answer.problem = "none" THEN "valid"
    ELSE IF ~repaired THEN "repairable"
    ELSE IF answer.problem = "ungrounded" THEN "ungrounded" ELSE "invalid"

\* A valid recommendation, or the first one with something to repair
Proceed ==
    /\ At("VALIDATE_RECOMMENDATION")
    /\ LET o == Outcome(cur.answer, cur.repaired)
       IN  /\ o = "valid" \/ (o = "repairable" /\ ~cur.repaired)
           /\ Advance(o, "body")
    /\ UNCHANGED <<rec, cur, seen_netlists, Loop, audit>>

\* Any other outcome rejects.  _reject parks the machine at NEXT_ITERATION if
\* the edge did not.
Decline ==
    /\ At("VALIDATE_RECOMMENDATION")
    /\ LET o == Outcome(cur.answer, cur.repaired)
       IN  /\ o # "valid" /\ ~(o = "repairable" /\ ~cur.repaired)
           /\ last_failure' = FailureAfter(state, o, last_failure)
    /\ state' = "NEXT_ITERATION" /\ ctl' = "tail"
    /\ rec' = Rejected(rec)
    /\ UNCHANGED <<cur, seen_netlists, Loop, audit>>

\* llm.repair raised
RepairFails ==
    /\ At("LLM_REPAIR")
    /\ Reject("error", rec)
    /\ UNCHANGED <<cur, seen_netlists, Loop, audit>>

Repair ==
    /\ At("LLM_REPAIR")
    /\ \E a \in Answers : cur' = [cur EXCEPT !.answer = a, !.repaired = TRUE]
    /\ Advance("responded", "body")
    /\ UNCHANGED <<rec, seen_netlists, Loop, audit>>
----------------------------------------------------------------------------
\* The candidate

\* patch.diff_text of a valid recommendation without a patch: AttributeError
NoPatchToHash ==
    /\ At("APPLY_PATCH") /\ cur.answer.hash = None
    /\ Raise

\* The hash is in the ledger: the machine is set to NEXT_ITERATION by hand, so
\* no failure class is recorded, and the loop goes on.
Repeat ==
    /\ At("APPLY_PATCH") /\ cur.answer.hash \in ledger.seen
    /\ state' = "NEXT_ITERATION" /\ UNCHANGED last_failure
    /\ rec' = Rejected([rec EXCEPT !.patch_hash = cur.answer.hash])
    /\ ledger' = [ledger EXCEPT !.stop = "cycle detected"]
    /\ ctl' = "tail"
    /\ UNCHANGED <<index, cur, seen_netlists, report, environment, audit>>

\* A new hash gets a candidate id and goes to apply_patch
CandidateRecord ==
    [rec EXCEPT !.patch_hash = cur.answer.hash, !.candidate = TRUE]

BuildCandidate ==
    /\ At("APPLY_PATCH") /\ cur.answer.hash \in Hashes \ ledger.seen
    /\ audit' = [audit EXCEPT !.built[cur.answer.hash] = @ + 1]
    /\ UNCHANGED <<cur, seen_netlists, Loop>>

Applied ==
    /\ BuildCandidate
    /\ rec' = CandidateRecord
    /\ Advance("applied", "body")

\* One of the patcher's checks failed, on a protected path or otherwise
PatchRefused ==
    /\ BuildCandidate
    /\ \E o \in {"protected", "rejected"} : Reject(o, CandidateRecord)

\* The candidate's synthesis did not pass; the status of its process is recorded.
SynthesisFails ==
    /\ At("SCREEN")
    /\ \E status \in {"FAIL", "TIMEOUT", "ERROR"} :
         Reject("failed", [rec EXCEPT !.screen = status])
    /\ UNCHANGED <<cur, seen_netlists, Loop, audit>>

\* Mutant of Remembered: added on the path that rejects, not before it
RememberedIfWorse(seen, n, better) == IF better THEN seen ELSE seen \cup {n}

\* seen_netlist_hashes.add(netlist_hash)
Remembered(seen, n, better) == seen \cup {n}

\* Synthesis passed and STA ran (its status is ignored): a netlist that was
\* evaluated before is dropped, the others must beat the baseline's slack.
Screen ==
    /\ At("SCREEN")
    /\ \E n \in Netlists, wns \in ScreenSlacks, clocks \in {{}, BaseRun.clocks} :
         LET better == ScreenImproved(BaseScreenWns, wns)
             r == [rec EXCEPT !.screen = IF Measured(wns) THEN "PASS" ELSE "ERROR"]
         IN  /\ IF n \in seen_netlists
                THEN Reject("regressed", r) /\ UNCHANGED seen_netlists
                ELSE /\ IF better THEN Advance("improved", "body") /\ rec' = r
                                  ELSE Reject("regressed", r)
                     /\ seen_netlists' = Remembered(seen_netlists, n, better)
             /\ cur' = [cur EXCEPT !.netlist = n, !.clocks = clocks]
    /\ audit' = [audit EXCEPT !.ran_under = @ \cup {settings}]
    /\ UNCHANGED Loop

\* Mutant of EqyEdge: anything that is not an outright failure goes on
EqyEdgeUnlessFail(status) == IF status = "FAIL" THEN "fail" ELSE "pass"

\* The edge an equivalence status takes
EqyEdge(status) ==
    CASE status = "PASS" -> "pass"
      [] status = "FAIL" -> "fail"
      [] OTHER -> "unknown"

Prove ==
    /\ At("EQY")
    /\ \E status \in EqyStatuses :
         LET r == [rec EXCEPT !.eqy = status]
         IN  IF EqyEdge(status) = "pass"
             THEN Advance("pass", "body") /\ rec' = r
             ELSE Reject(EqyEdge(status), r)
    /\ audit' = [audit EXCEPT !.proofs[cur.netlist] = @ + 1]
    /\ UNCHANGED <<cur, seen_netlists, Loop>>

PhysicalFails ==
    /\ At("ORFS")
    /\ Reject("failed", rec)
    /\ UNCHANGED <<cur, seen_netlists, Loop, audit>>

Physical ==
    /\ At("ORFS")
    /\ \E f \in Figures : cur' = [cur EXCEPT !.figures = f]
    /\ Advance("completed", "body")
    /\ audit' = [audit EXCEPT !.ran_under = @ \cup {settings}]
    /\ UNCHANGED <<rec, seen_netlists, Loop>>

\* Mutant of CandidateSettings: the digest is computed once, with the baseline's
CachedSettings(now) == BaseSettings

\* config.settings_hash() as COMPARE reads it, after the candidate's runs
CandidateSettings(now) == now

\* evaluate, on the routed figures and the clock names of the screen STA
PolicyDecision ==
    Evaluate(CandidateSettings(settings) = BaseSettings, rec.eqy,
             BaseRun,
             [wns |-> cur.figures.wns, area |-> cur.figures.area,
              cells |-> cur.figures.cells, clocks |-> cur.clocks],
             Guard)

\* Mutant of VerdictEdge: the verdict's own name, in lower case
VerdictEdgeByName(verdict) ==
    CASE verdict = "ACCEPTED" -> "accepted"
      [] verdict = "NON_COMPARABLE" -> "non_comparable"
      [] OTHER -> "rejected"

\* The edge out of COMPARE for a verdict
VerdictEdge(verdict) ==
    CASE verdict = "ACCEPTED" -> "accepted"
      [] verdict = "NON_COMPARABLE" -> "non_comparable"
      [] OTHER -> "guardrail_breach"

\* The verdict comes from the policy, and so does the failure class
Compare ==
    /\ At("COMPARE") /\ ~PolicyDecision.raised
    /\ Advance(VerdictEdge(PolicyDecision.verdict), "tail")
    /\ rec' = [rec EXCEPT !.verdict = PolicyDecision.verdict,
                          !.failure_class = PolicyDecision.failure]
    /\ UNCHANGED <<cur, seen_netlists, Loop, audit>>

\* evaluate raised while wording an acceptance
CompareRaises ==
    /\ At("COMPARE") /\ PolicyDecision.raised
    /\ Raise
----------------------------------------------------------------------------
\* The ledger and the end of the loop

\* Mutant of Recorded: attempts that were never measured are left out
MeasuredRecords(iterations, r) ==
    IF r.candidate /\ r.screen = "NOT_RUN" THEN iterations ELSE Append(iterations, r)

\* history.iterations.append(record)
Recorded(iterations, r) == Append(iterations, r)

\* Mutant of HashesAfter: only measured attempts are remembered
MeasuredHashesAfter(seen, r) ==
    IF r.patch_hash = None \/ r.screen = "NOT_RUN" THEN seen
    ELSE seen \cup {r.patch_hash}

\* seen_patch_hashes after append(record): every attempt that had a patch
HashesAfter(seen, r) ==
    IF r.patch_hash = None THEN seen ELSE seen \cup {r.patch_hash}

\* accepted ids after a record; the iteration stands for the candidate id
AcceptedAfter(accepted, r) ==
    IF r.verdict = "ACCEPTED" THEN Append(accepted, index) ELSE accepted

\* report and ledger append the record; budget_remaining() breaks the loop
Record ==
    /\ ctl = "tail"
    /\ ledger' = [ledger EXCEPT !.iterations = Recorded(@, rec),
                                !.seen = HashesAfter(@, rec),
                                !.accepted = AcceptedAfter(@, rec)]
    /\ report' = [report EXCEPT !.accepted = AcceptedAfter(@, rec)]
    /\ ctl' = IF Len(ledger.iterations) + 1 < MaxIterations THEN "head" ELSE "finish"
    /\ UNCHANGED <<index, machine, rec, cur, seen_netlists, environment, audit>>

\* Mutant of StopReason: the budget is always the reason
BudgetReason(stop) == "iteration budget reached"

\* ledger.history.stop_reason or "iteration budget reached"
StopReason(stop) == IF stop = None THEN "iteration budget reached" ELSE stop

\* The loop is over: stop, then _write_report
Finish ==
    /\ ctl = "finish"
    /\ ledger' = [ledger EXCEPT !.stop = StopReason(@)]
    /\ report' = [report EXCEPT !.stop = StopReason(ledger.stop)]
    /\ ctl' = "done"
    /\ UNCHANGED <<index, machine, rec, cur, seen_netlists, environment, audit>>

\* Somebody edits the SDC or the Liberty file while the loop runs
EditSettings ==
    /\ ctl \notin {"done", "raised", "off_table"}
    /\ \E s \in Settings \ {settings} :
         /\ Reverts \/ s \notin used_settings
         /\ settings' = s /\ used_settings' = used_settings \cup {s}
    /\ UNCHANGED <<ctl, index, machine, rec, cur, seen_netlists, ledger, report, audit>>

Iterate ==
    \/ BuildRequest \/ ProposeFails \/ Propose \/ Proceed \/ Decline
    \/ RepairFails \/ Repair
    \/ NoPatchToHash \/ Repeat \/ Applied \/ PatchRefused
    \/ SynthesisFails \/ Screen \/ Prove \/ PhysicalFails \/ Physical
    \/ Compare \/ CompareRaises

Step == BeginIteration \/ Iterate \/ Record \/ Finish

Next == Step \/ EditSettings

Spec == Init /\ [][Next]_vars

\* The loop is one thread that only waits for calls with a timeout: the clients
\* give the model 120 s, run_command bounds every tool.
FairSpec == Spec /\ WF_vars(Step)
----------------------------------------------------------------------------
TypeOK ==
    /\ ctl \in Places
    /\ index \in 0 .. MaxIterations
    /\ state \in RunStates /\ last_failure \in FailureClasses
    /\ rec \in Records /\ cur \in Locals
    /\ seen_netlists \subseteq Netlists
    /\ ledger \in Ledgers /\ report \in Reports
    /\ settings \in used_settings /\ used_settings \subseteq Settings
    /\ audit \in Audits

(***************************************************************************)
(* However machine.state is changed, by advance or by assignment, the      *)
(* machine moves along the table, and the physical stage is entered only   *)
(* with the PASS of this very candidate (AsmWalk).                         *)
(***************************************************************************)
Walk == INSTANCE AsmWalk WITH proven <- (rec.eqy = "PASS")

WalksTheTable == Walk!Spec

(***************************************************************************)
(* advance is never asked for an edge the table does not have, so its      *)
(* ValueError never ends a run.                                            *)
(***************************************************************************)
NeverOffTheTable == ctl # "off_table"

(***************************************************************************)
(* No patch is built twice in one run of the loop, not even one that was   *)
(* refused or failed before anything was measured: the ledger of the       *)
(* previous iterations and the check before apply_patch see to it          *)
(* (history.py, seen_patch_hashes).                                        *)
(***************************************************************************)
NoPatchBuiltTwice == \A h \in Hashes : audit.built[h] <= 1

\* The attempt at patch h is in the ledger, or is the one being made or lost.
OnRecord(h) ==
    \/ \E i \in DOMAIN ledger.iterations :
          /\ ledger.iterations[i].candidate
          /\ ledger.iterations[i].patch_hash = h
    \/ /\ ctl \in {"body", "tail", "raised", "off_table"}
       /\ rec.candidate /\ rec.patch_hash = h

(***************************************************************************)
(* history.py:3-7: "Rejected and failed iterations are recorded with the   *)
(* same fields as accepted ones".  Every candidate that was built is on    *)
(* record with its patch, and an exception that leaves the loop            *)
(* (policy.py:188) takes along no more than the iteration it ends.         *)
(***************************************************************************)
AttemptsAreOnRecord == \A h \in Hashes : audit.built[h] > 0 => OnRecord(h)

(***************************************************************************)
(* No netlist is put through whole-design EQY twice, although different    *)
(* patches may elaborate to it (pipeline.py:440-444).                      *)
(***************************************************************************)
NoNetlistProvedTwice == \A n \in Netlists : audit.proofs[n] <= 1

\* What a failure class says about the evidence of its own iteration
Explains(f, r) ==
    CASE f \in {"SCHEMA_INVALID", "UNGROUNDED_CLAIM", "ABSTAINED"} ->
           r.patch_hash = None
      [] f \in {"PATCH_REJECTED", "PROTECTED_REGION"} ->
           r.candidate /\ r.screen = "NOT_RUN"
      [] f = "SYNTHESIS_FAILED" ->
           r.screen \in {"FAIL", "TIMEOUT", "ERROR"} /\ r.eqy = "NOT_RUN"
      [] f = "NOT_EQUIVALENT" -> r.eqy = "FAIL"
      [] f = "UNPROVEN" -> r.eqy \in {"UNKNOWN", "TIMEOUT", "ERROR"}
      [] f = "QOR_REGRESSION" ->
           r.screen \in {"PASS", "ERROR"} /\ r.eqy \in {"NOT_RUN", "PASS"}
      [] f \in {"PHYSICAL_FAILED", "GUARDRAIL_BREACH", "NON_COMPARABLE"} ->
           r.eqy = "PASS"
      [] OTHER -> ~r.candidate

(***************************************************************************)
(* Every failure class in the ledger is borne out by the stages of its own *)
(* iteration: no class leaks from an earlier iteration into a record       *)
(* (reset_iteration), and no record is blamed on a stage it never reached. *)
(***************************************************************************)
FailuresAreExplained ==
    \A i \in DOMAIN ledger.iterations :
       LET r == ledger.iterations[i]
       IN  r.verdict # "ACCEPTED" => Explains(r.failure_class, r)

\* The attempt repeated a patch of an earlier one
IsRepeat(i) ==
    \E j \in 1 .. i - 1 :
       /\ ledger.iterations[i].patch_hash # None
       /\ ledger.iterations[i].patch_hash = ledger.iterations[j].patch_hash

(***************************************************************************)
(* The only attempts without a class of failure that were not accepted are *)
(* the repeats of a patch, which pipeline.py:371-375 rejects outside the   *)
(* table.                                                                  *)
(***************************************************************************)
OnlyRepeatsAreUnclassified ==
    \A i \in DOMAIN ledger.iterations :
       LET r == ledger.iterations[i]
       IN  r.failure_class = "NONE" <=> (r.verdict = "ACCEPTED" \/ IsRepeat(i))

(***************************************************************************)
(* A finished loop reports the cycle as its stop reason exactly when some  *)
(* attempt was a repeat, even if the loop went on for its whole budget.    *)
(***************************************************************************)
StopReasonTellsCycle ==
    ctl = "done" =>
      (report.stop = "cycle detected" <=>
         \E i \in DOMAIN ledger.iterations : IsRepeat(i))

(***************************************************************************)
(* The loop ends, whatever the model and the tools answer and however the  *)
(* settings are edited: it returns its report or an exception leaves it    *)
(* that is not the state machine's own.                                    *)
(***************************************************************************)
LoopEnds == <>(ctl \in {"done", "raised"})

(***************************************************************************)
(* A candidate is accepted only if the screen and the physical run read    *)
(* the settings the baseline was measured under (policy.py, check 1).      *)
(***************************************************************************)
AcceptedUnderBaselineSettings ==
    (ctl = "tail" /\ rec.verdict = "ACCEPTED") => audit.ran_under = {BaseSettings}

(***************************************************************************)
(* history.py:9-11: "When the model proposes a change whose normalised     *)
(* hash has already been tried, the loop stops rather than spending the    *)
(* remaining budget": nothing follows a repeat.                            *)
(***************************************************************************)
LoopStopsAtRepeat ==
    \A i \in DOMAIN ledger.iterations :
       IsRepeat(i) => i = Len(ledger.iterations)

(***************************************************************************)
(* pipeline.py:308: "Returns the iteration record whatever happened": no   *)
(* iteration ends in an exception that takes its record along.             *)
(***************************************************************************)
IterationReturnsItsRecord == ctl # "raised"

(***************************************************************************)
(* schemas/history.py:45: seen_patch_hashes "stops the loop re-proposing a *)
(* change it already measured": what a repeat repeats was measured.        *)
(***************************************************************************)
RepeatsWereMeasured ==
    \A i \in DOMAIN ledger.iterations :
       IsRepeat(i) =>
         \E j \in 1 .. i - 1 :
            /\ ledger.iterations[j].patch_hash = ledger.iterations[i].patch_hash
            /\ ledger.iterations[j].screen # "NOT_RUN"
============================================================================
