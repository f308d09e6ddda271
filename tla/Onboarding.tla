----------------------------- MODULE Onboarding -----------------------------
(***************************************************************************)
(* Onboarding an RTL tree (src/orchestrator/onboarding.py, onboard_project *)
(* and _ordered_files): infer the top module, order the files so that what *)
(* is instantiated is read first, and write a manifest, constraints and a  *)
(* report for a human to review.  A run may be interrupted anywhere, and   *)
(* repeated on a changed tree.                                             *)
(*                                                                         *)
(* Files are visited in the order of their names; here in any order.       *)
(***************************************************************************)
EXTENDS Naturals, SequencesExt

CONSTANTS
  Modules,    \* modules declared in the tree
  FileOf,     \* the file of each
  MaxRuns     \* bound on the runs

ASSUME FileOfAssumption == DOMAIN FileOf = Modules

VARIABLES
  pc,           \* control of onboard_project
  attempt,      \* number of the run
  force,        \* --force
  top,          \* --top, then the top module
  connections,  \* pairs of a module and one it instantiates
  stack,        \* files being visited, in the order of the calls
  ordered,      \* files that were visited
  reachable,    \* modules found below the top
  outputs,      \* the run each output was written by, 0 if there is none
  reviewed      \* outputs a human has edited since

project == <<outputs, reviewed>>
inputs == <<attempt, force, connections>>
vars == <<pc, inputs, top, stack, ordered, reachable, project>>

Files == Range(FileOf)
Outputs == {"manifest", "sdc", "report"}
Unnamed == "unnamed"

Init ==
    /\ pc = "idle" /\ attempt = 0 /\ force = FALSE /\ top = Unnamed
    /\ connections = {} /\ stack = <<>> /\ ordered = <<>> /\ reachable = {}
    /\ outputs = [o \in Outputs |-> 0] /\ reviewed = {}

Go(place) == pc' = place

\* The call ends, and with it its variables.
End ==
    /\ Go("idle")
    /\ force' = FALSE /\ top' = Unnamed /\ connections' = {}
    /\ stack' = <<>> /\ ordered' = <<>> /\ reachable' = {}
    /\ UNCHANGED attempt

Begin ==
    /\ pc = "idle" /\ attempt < MaxRuns
    /\ attempt' = attempt + 1 /\ force' \in BOOLEAN
    /\ connections' \in SUBSET {c \in Modules \X Modules : c[1] # c[2]}
    /\ top' \in Modules \cup {Unnamed, "unknown"}
    /\ Go("existing")
    /\ UNCHANGED <<stack, ordered, reachable, project>>

\* Mutant of Existing: the report, which is written last, stands for all
ExistingReport(written) == {o \in {"report"} : written[o] # 0}

Existing(written) == {o \in Outputs : written[o] # 0}

Refuse ==
    /\ pc = "existing" /\ Existing(outputs) # {} /\ ~force
    /\ End /\ UNCHANGED project

Proceed ==
    /\ pc = "existing" /\ (Existing(outputs) = {} \/ force)
    /\ Go("scan")
    /\ UNCHANGED <<inputs, top, stack, ordered, reachable, project>>

\* No files, no modules, or a module declared twice
ScanFails ==
    /\ pc = "scan"
    /\ End /\ UNCHANGED project

TopCandidates == Modules \ {c[2] : c \in connections}

InferTop ==
    /\ pc = "scan" /\ top = Unnamed
    /\ \E m \in Modules : TopCandidates = {m} /\ top' = m
    /\ Go("order")
    /\ UNCHANGED <<inputs, stack, ordered, reachable, project>>

AcceptTop ==
    /\ pc = "scan" /\ top \in Modules
    /\ Go("order")
    /\ UNCHANGED <<inputs, top, stack, ordered, reachable, project>>

NoTop ==
    /\ pc = "scan"
    /\ top = "unknown" \/ (top = Unnamed /\ Cardinality(TopCandidates) # 1)
    /\ End /\ UNCHANGED project
----------------------------------------------------------------------------
\* _ordered_files

Dependencies(f) ==
    {FileOf[c[2]] : c \in {d \in connections : FileOf[d[1]] = f}} \ {f}

\* visit() returns at once for a file that was visited, or is being visited.
Unvisited == Files \ (Range(ordered) \cup Range(stack))

Calls(f) ==
    /\ f \in Unvisited
    /\ stack' = Append(stack, f)
    /\ UNCHANGED <<pc, inputs, top, ordered, reachable, project>>

\* The loop over the files, then the top's
Visit(f) ==
    /\ pc = "order" /\ stack = <<>>
    /\ f = FileOf[top] => Unvisited = {f}
    /\ Calls(f)

Descend(f) ==
    /\ pc = "order" /\ stack # <<>> /\ f \in Dependencies(Last(stack))
    /\ Calls(f)

\* Mutant of Finished: a file is left as soon as one dependency was visited
FinishedEarly(f) == Dependencies(f) = {} \/ Dependencies(f) \ Unvisited # {}

\* All its dependencies were visited, or are being visited.
Finished(f) == Dependencies(f) \cap Unvisited = {}

Leave ==
    /\ pc = "order" /\ stack # <<>> /\ Finished(Last(stack))
    /\ ordered' = Append(ordered, Last(stack)) /\ stack' = Front(stack)
    /\ UNCHANGED <<pc, inputs, top, reachable, project>>

AllOrdered ==
    /\ pc = "order" /\ stack = <<>> /\ Unvisited = {}
    /\ reachable' = {top} /\ Go("reach")
    /\ UNCHANGED <<inputs, top, stack, ordered, project>>
----------------------------------------------------------------------------
\* Mutant of Found: a pass that finds only what it had found changes something
FoundAgain(reached) == {c[2] : c \in {d \in connections : d[1] \in reached}}

\* What one pass over the connections adds
Found(reached) == {c[2] : c \in {d \in connections : d[1] \in reached}} \ reached

Reach ==
    /\ pc = "reach" /\ Found(reachable) # {}
    /\ \E m \in Found(reachable) : reachable' = reachable \cup {m}
    /\ UNCHANGED <<pc, inputs, top, stack, ordered, project>>

AllReached ==
    /\ pc = "reach" /\ Found(reachable) = {}
    /\ Go("manifest")
    /\ UNCHANGED <<inputs, top, stack, ordered, reachable, project>>

Write(output) ==
    /\ pc = output
    /\ outputs' = [outputs EXCEPT ![output] = attempt]
    /\ reviewed' = reviewed \ {output}

WriteManifest ==
    /\ Write("manifest") /\ Go("sdc")
    /\ UNCHANGED <<inputs, top, stack, ordered, reachable>>

WriteSdc ==
    /\ Write("sdc") /\ Go("elaboration")
    /\ UNCHANGED <<inputs, top, stack, ordered, reachable>>

\* Yosys's outcome, or that it was not asked for, goes into the report.
Elaborate ==
    /\ pc = "elaboration"
    /\ Go("report")
    /\ UNCHANGED <<inputs, top, stack, ordered, reachable, project>>

WriteReport == Write("report") /\ End

Python ==
    \/ Refuse \/ Proceed \/ ScanFails \/ InferTop \/ AcceptTop \/ NoTop
    \/ \E f \in Files : Visit(f) \/ Descend(f)
    \/ Leave \/ AllOrdered \/ Reach \/ AllReached
    \/ WriteManifest \/ WriteSdc \/ Elaborate \/ WriteReport

\* Killed, or an exception
Interrupt ==
    /\ pc # "idle"
    /\ End /\ UNCHANGED project

\* A human edits a draft between two runs,
Review(o) ==
    /\ pc = "idle" /\ outputs[o] # 0
    /\ reviewed' = reviewed \cup {o}
    /\ UNCHANGED <<pc, inputs, top, stack, ordered, reachable, outputs>>

Next == Begin \/ Python \/ Interrupt \/ \E o \in Outputs : Review(o)

Spec == Init /\ [][Next]_vars

\* One thread; run_command bounds the elaboration by 300 seconds.
FairSpec == Spec /\ WF_vars(Python)
----------------------------------------------------------------------------
TypeOK ==
    /\ pc \in {"idle", "existing", "scan", "order", "reach", "elaboration"} \cup Outputs
    /\ attempt \in 0 .. MaxRuns /\ force \in BOOLEAN
    /\ top \in Modules \cup {Unnamed, "unknown"}
    /\ connections \subseteq Modules \X Modules
    /\ Range(stack) \subseteq Files /\ Range(ordered) \subseteq Files
    /\ reachable \subseteq Modules
    /\ outputs \in [Outputs -> 0 .. MaxRuns] /\ reviewed \subseteq Outputs

\* f needs g, by way of any number of files.
Needs(f, g) ==
    \A closed \in SUBSET Files :
       (f \in closed /\ \A h \in closed : Dependencies(h) \subseteq closed) => g \in closed

(***************************************************************************)
(* The source order has every file once, and a file after those whose      *)
(* modules it instantiates, unless they need it as well, even if the       *)
(* hierarchy is recursive elsewhere or the chosen top is not its root      *)
(* (onboarding.py:94-129).                                                 *)
(***************************************************************************)
InstantiatedFilesComeFirst ==
    pc = "reach" =>
      /\ IsInjective(ordered) /\ Range(ordered) = Files
      /\ \A i, j \in DOMAIN ordered :
           ordered[j] \in Dependencies(ordered[i]) /\ ~Needs(ordered[j], ordered[i]) => j < i

(***************************************************************************)
(* What a human has reviewed is overwritten only by a run with --force,    *)
(* even if the run before was interrupted between its outputs              *)
(* (onboarding.py:459-465).                                                *)
(***************************************************************************)
ReviewedWorkIsKept ==
    [][\A o \in reviewed : outputs'[o] # outputs[o] => force]_vars

(***************************************************************************)
(* Onboarding returns for every hierarchy, also a recursive one            *)
(* (onboarding.py:111-122, 499-506).                                       *)
(***************************************************************************)
OnboardingEnds == pc # "idle" ~> pc = "idle"

============================================================================
