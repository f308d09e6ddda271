------------------------------ MODULE Baseline ------------------------------
(***************************************************************************)
(* Measuring the baseline (src/orchestrator/pipeline.py, run_baseline),    *)
(* taking it over in a later process (reuse_baseline), and the comparison  *)
(* of candidates with it.  The RTL and the frozen settings are files that  *)
(* may be edited between any two steps.  The digest of the settings is     *)
(* that of the top, its defines and parameters, SDC, Liberty, platform,    *)
(* corners and tool versions; include directories, LEF files and the       *)
(* equivalence relation are settings that it leaves out.  So are the       *)
(* clocks the manifest declares, which a process reads once, when it       *)
(* starts.                                                                 *)
(*                                                                         *)
(* What a stage measured is the set of pairs <<rtl, settings>> its tools   *)
(* read.  The run directory outlives the process: a baseline that failed   *)
(* or was killed leaves what it had saved until then.                      *)
(***************************************************************************)
EXTENDS Naturals

CONSTANTS
  Rtls,         \* contents the declared RTL files may have, up to equivalence
  Settings,     \* values all the rest may have: manifest, SDC, Liberty and LEF files
  SettingsHash, \* config.settings_hash(), which does not cover all of it
  ClocksOf,     \* the clocks STA finds under the SDC of each settings
  Declarations, \* the sets of clocks that constraints.clock_expectations may name
  Reverts,      \* TRUE when an edit may restore earlier contents
  None          \* no value

Hashes == {SettingsHash[s] : s \in Settings}

Inputs == SUBSET (Rtls \X Settings)

Inventories == {ClocksOf[s] : s \in Settings}

\* timing_analysis.json and qor.json
Timings == [from : Inputs, clocks : Inventories]

Results ==
    [settings_hash : Hashes, from : Inputs, clocks : Inventories]

ASSUME NoneAssumption ==
    None \notin Hashes /\ None \notin Rtls /\ None \notin Timings /\ None \notin Results

VARIABLES
  rtl, settings,   \* the files now
  past,            \* every contents, and every digest, they have had
  expects,         \* clock_expectations as each process has loaded them
  bpc,             \* control of run_baseline
  measured,        \* its locals: what the netlist and the STA reports come from
  run,             \* the run directory
  rpc,             \* control of reuse_baseline
  result,          \* BaselineResult of each process
  loop             \* a candidate of the loop that holds the result

files == <<rtl, settings, past>>
vars == <<files, expects, bpc, measured, run, rpc, result, loop>>

Processes == {"fresh", "reuse"}

BaselinePlaces == {"create", "lock", "synth", "sta", "clocks", "map", "orfs",
                   "return", "done", "failed"}
ReusePlaces == {"idle", "settings", "rtl", "load", "workspace", "done", "failed"}

Runs ==
    [manifest : Hashes \cup {None},   \* run_manifest.json: settings_hash
     lock : Rtls \cup {None},           \* manifest.lock.json: the RTL hashes
     timing : Timings \cup {None},
     paths : BOOLEAN,                   \* critical_paths.json is there
     metadata : Inputs]                 \* ORFS metadata.json; {} when absent

\* A candidate: what it computes, the settings its tools have read, whether EQY
\* has passed it, and whether it was found comparable
Candidates ==
    [design : Rtls \cup {None}, ran_under : SUBSET Settings,
     proved : BOOLEAN, comparable : BOOLEAN]
Loops == [Processes -> Candidates]
NoCandidate == [design |-> None, ran_under |-> {}, proved |-> FALSE, comparable |-> FALSE]

Init ==
    /\ rtl \in Rtls /\ settings \in Settings
    /\ past = [rtl |-> {rtl}, hashes |-> {SettingsHash[settings]}]
    /\ \E d \in Declarations : expects = [p \in Processes |-> d]
    /\ bpc = "create" /\ measured = [netlist |-> {}, timing |-> None]
    /\ run = [manifest |-> None, lock |-> None, timing |-> None, paths |-> FALSE,
              metadata |-> {}]
    /\ rpc = "idle"
    /\ result = [p \in Processes |-> None]
    /\ loop = [p \in Processes |-> NoCandidate]
----------------------------------------------------------------------------
\* run_baseline

Other == <<files, expects, rpc, loop>>

\* Workspace.create
CreateRun ==
    /\ bpc = "create"
    /\ run' = [run EXCEPT !.manifest = SettingsHash[settings]]
    /\ bpc' = "lock"
    /\ UNCHANGED <<measured, result, Other>>

\* write_lock
WriteLock ==
    /\ bpc = "lock"
    /\ run' = [run EXCEPT !.lock = rtl]
    /\ bpc' = "synth"
    /\ UNCHANGED <<measured, result, Other>>

Synth ==
    /\ bpc = "synth"
    /\ measured' = [measured EXCEPT !.netlist = {<<rtl, settings>>}]
    /\ bpc' = "sta"
    /\ UNCHANGED <<run, result, Other>>

\* STA reads the netlist, the SDC and the Liberty file.
Sta ==
    /\ bpc = "sta"
    /\ measured' =
         [measured EXCEPT !.timing =
            [from |-> measured.netlist \cup {<<p[1], settings>> : p \in measured.netlist},
             clocks |-> ClocksOf[settings]]]
    /\ bpc' = "clocks"
    /\ UNCHANGED <<run, result, Other>>

\* Mutant of ClockProblems: an inventory that differs is only reported
IgnoredClocks(declared, seen) == FALSE

\* check_clock_inventory: nothing declared is nothing to check
ClockProblems(declared, seen) == declared # {} /\ seen # declared

\* The clock inventory is checked before the parsed results are saved.
SaveParsed ==
    /\ bpc = "clocks"
    /\ IF ClockProblems(expects.fresh, measured.timing.clocks)
       THEN bpc' = "failed" /\ UNCHANGED run
       ELSE /\ run' = [run EXCEPT !.timing = measured.timing]
            /\ bpc' = "map"
    /\ UNCHANGED <<measured, result, Other>>

SavePaths ==
    /\ bpc = "map"
    /\ run' = [run EXCEPT !.paths = TRUE]
    /\ bpc' = "orfs"
    /\ UNCHANGED <<measured, result, Other>>

\* The physical run; metadata.json is its last product.
Orfs ==
    /\ bpc = "orfs"
    /\ run' = [run EXCEPT !.metadata = {<<rtl, settings>>}]
    /\ bpc' = "return"
    /\ UNCHANGED <<measured, result, Other>>

\* The digest of the result is computed here, not taken from the lock.
Return ==
    /\ bpc = "return"
    /\ result' = [result EXCEPT !.fresh =
                    [settings_hash |-> SettingsHash[settings],
                     from |-> run.timing.from \cup run.metadata,
                     clocks |-> run.timing.clocks]]
    /\ bpc' = "done"
    /\ UNCHANGED <<measured, run, Other>>

\* A tool fails, an artifact does not parse, or the process is killed
BaselineFails ==
    /\ bpc \notin {"done", "failed"}
    /\ bpc' = "failed"
    /\ UNCHANGED <<measured, run, result, Other>>
----------------------------------------------------------------------------
\* reuse_baseline, on the directory of a run that is over

Run == <<files, bpc, measured, run, loop>>
Mine == <<Run, expects>>

\* Somebody passes --reuse-baseline; the manifest may declare other clocks by now.
StartReuse ==
    /\ rpc = "idle" /\ bpc \in {"done", "failed"}
    /\ \E d \in Declarations : expects' = [expects EXCEPT !.reuse = d]
    /\ rpc' = "settings"
    /\ UNCHANGED <<result, Run>>

CheckSettings ==
    /\ rpc = "settings"
    /\ rpc' = IF run.manifest = SettingsHash[settings] THEN "rtl" ELSE "failed"
    /\ UNCHANGED <<result, Mine>>

\* Mutant of RtlMatches: the RTL is not looked at, as before the lock was read
AnyRtl(lock, now) == TRUE

\* mismatched_rtl is empty
RtlMatches(lock, now) == lock = now

\* A run without a lock cannot be read; one that differs is refused.
CheckRtl ==
    /\ rpc = "rtl"
    /\ rpc' = IF run.lock # None /\ RtlMatches(run.lock, rtl) THEN "load" ELSE "failed"
    /\ UNCHANGED <<result, Mine>>

\* All the artifacts are there, among them exactly one metadata.json
Complete == run.timing # None /\ run.paths /\ run.metadata # {}

Load ==
    /\ rpc = "load"
    /\ rpc' = IF Complete THEN "workspace" ELSE "failed"
    /\ UNCHANGED <<result, Mine>>

\* A workspace of its own, and the digest computed once more
ReturnReused ==
    /\ rpc = "workspace"
    /\ result' = [result EXCEPT !.reuse =
                    [settings_hash |-> SettingsHash[settings],
                     from |-> run.timing.from \cup run.metadata,
                     clocks |-> run.timing.clocks]]
    /\ rpc' = "done"
    /\ UNCHANGED Mine
----------------------------------------------------------------------------
\* The loop of the process that holds a result

Stages == <<files, expects, bpc, measured, run, rpc, result>>

\* apply_patch: the patch may keep what the design computes, or not.
BuildCandidate(p) ==
    /\ result[p] # None /\ loop[p].design = None
    /\ \E d \in Rtls : loop' = [loop EXCEPT ![p].design = d]
    /\ UNCHANGED Stages

\* A tool runs on the candidate.
MeasureCandidate(p) ==
    /\ loop[p].design # None /\ ~loop[p].comparable
    /\ loop' = [loop EXCEPT ![p].ran_under = @ \cup {settings}]
    /\ UNCHANGED Stages

\* EQY, whose gold design is config.rtl_files(), not the files of the baseline's run;
\* a candidate it does not pass is rejected.
ProveCandidate(p) ==
    /\ loop[p].ran_under # {} /\ ~loop[p].proved
    /\ loop' = IF loop[p].design = rtl
               THEN [loop EXCEPT ![p].proved = TRUE]
               ELSE [loop EXCEPT ![p] = NoCandidate]
    /\ UNCHANGED Stages

\* check_configuration_equivalence, on the digest of the moment
CompareCandidate(p) ==
    /\ loop[p].proved /\ ~loop[p].comparable
    /\ loop' = IF result[p].settings_hash = SettingsHash[settings]
               THEN [loop EXCEPT ![p].comparable = TRUE]
               ELSE [loop EXCEPT ![p] = NoCandidate]
    /\ UNCHANGED Stages
----------------------------------------------------------------------------
\* Somebody edits a file

Else == <<expects, bpc, measured, run, rpc, result, loop>>

\* Some edits the digest does not tell.
EditSettings ==
    \E s \in Settings \ {settings} :
       /\ Reverts \/ SettingsHash[s] \notin past.hashes \ {SettingsHash[settings]}
       /\ settings' = s /\ past' = [past EXCEPT !.hashes = @ \cup {SettingsHash[s]}]
       /\ UNCHANGED <<rtl, Else>>

EditRtl ==
    \E r \in Rtls \ {rtl} :
       /\ Reverts \/ r \notin past.rtl
       /\ rtl' = r /\ past' = [past EXCEPT !.rtl = @ \cup {r}]
       /\ UNCHANGED <<settings, Else>>

RunBaseline ==
    CreateRun \/ WriteLock \/ Synth \/ Sta \/ SaveParsed \/ SavePaths \/ Orfs
      \/ Return \/ BaselineFails

ReuseBaseline == StartReuse \/ CheckSettings \/ CheckRtl \/ Load \/ ReturnReused

Next ==
    \/ RunBaseline \/ ReuseBaseline
    \/ \E p \in Processes :
         BuildCandidate(p) \/ MeasureCandidate(p) \/ ProveCandidate(p) \/ CompareCandidate(p)
    \/ EditSettings \/ EditRtl

Spec == Init /\ [][Next]_vars
----------------------------------------------------------------------------
TypeOK ==
    /\ rtl \in Rtls /\ settings \in Settings
    /\ past \in [rtl : SUBSET Rtls, hashes : SUBSET Hashes]
    /\ expects \in [Processes -> Declarations]
    /\ bpc \in BaselinePlaces /\ rpc \in ReusePlaces
    /\ measured \in [netlist : Inputs, timing : Timings \cup {None}]
    /\ run \in Runs
    /\ result \in [Processes -> Results \cup {None}]
    /\ loop \in Loops

(***************************************************************************)
(* A reused baseline is of one piece: everything it takes over, from the   *)
(* synthesis to the routed metrics, was measured on the RTL its lock       *)
(* records and under settings with the digest its manifest records, even   *)
(* if the run failed halfway and files were edited while it ran            *)
(* (pipeline.py:182-197).                                                  *)
(***************************************************************************)
ReusedFromOneInput ==
    result.reuse # None =>
      \A i \in result.reuse.from : i[1] = run.lock /\ SettingsHash[i[2]] = run.manifest

(***************************************************************************)
(* A baseline, fresh or reused, has exactly the declared clocks, although  *)
(* reuse_baseline does not look at the inventory again, as long as the     *)
(* manifest declares what it did when the baseline was measured            *)
(* (pipeline.py:124-133).                                                  *)
(***************************************************************************)
BaselineHasItsClocks ==
    \A p \in Processes :
       result[p] # None /\ expects[p] = expects.fresh /\ expects[p] # {} =>
         result[p].clocks = expects[p]

(***************************************************************************)
(* pipeline.py:124-126: "A baseline missing a declared clock is not a      *)
(* worse baseline, it is an invalid one": each has the clocks that its own *)
(* process declares, also when the manifest was edited in between.         *)
(***************************************************************************)
DeclaredClocksArePresent ==
    \A p \in Processes :
       result[p] # None /\ expects[p] # {} => expects[p] \subseteq result[p].clocks

(***************************************************************************)
(* adapters/eqy.py:27: "gold is always the immutable baseline": a          *)
(* candidate that was compared computes the same as what was measured.     *)
(***************************************************************************)
GoldIsTheBaseline ==
    \A p \in Processes :
       loop[p].comparable => \A i \in result[p].from : i[1] = loop[p].design

(***************************************************************************)
(* policy.py:7: two runs are compared only if they "did ... use the same   *)
(* toolchain, library, corner, and constraints": the settings under which  *)
(* the baseline was measured have the digest of those that the candidate's *)
(* tools have read.                                                        *)
(***************************************************************************)
ComparableRunsShareSettings ==
    \A p \in Processes :
       loop[p].comparable =>
         \A i \in result[p].from, s \in loop[p].ran_under :
            SettingsHash[i[2]] = SettingsHash[s]

(***************************************************************************)
(* config.py:224-228: the digest is of "everything except the RTL" and     *)
(* "nothing else may" differ: if it has never changed, a baseline and a    *)
(* candidate that are compared were measured under the same settings.      *)
(***************************************************************************)
OnlyTheRtlDiffers ==
    past.hashes = {SettingsHash[settings]} =>
      \A p \in Processes :
         loop[p].comparable => \A i \in result[p].from : loop[p].ran_under = {i[2]}
============================================================================
