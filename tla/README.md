# A verification of the Nebula orchestrator

Nebula lets a language model propose small RTL patches, and lets EDA tools
decide: a patch is applied to a copy of the design, synthesized, timed, proved
equivalent, routed, and compared with a baseline. The orchestrator
(`src/orchestrator/`) is the Python program in between. Its promise is that an
accepted candidate was proved, measured under the baseline's settings, and
better; that what was tried is on record; and that the program comes back. This
directory states that promise, part by part, in TLA+, checks it with TLC on
small instances, and proves a good deal of it with TLAPS for all instances.

`PROJECT.json` lists the runs, what each checks, the source lines of every
definition, the places the code is exposed to (`hazards`), the disagreements
with the documentation (`findings`) and the theorems.

## 1. The system

| part | state | operations | hard because |
| --- | --- | --- | --- |
| state machine, `statemachine.py` | current state, last failure class | `advance`, `reset_iteration`; the loop also assigns the state | the class outlives the iteration; assignments bypass the table |
| loop, `pipeline.py` (`optimize`, `_run_iteration`) | record in the making, netlist hashes, report | request, proposal, one repair, patch, screen, EQY, ORFS, compare; some fifteen ways out | every exit must leave machine, record and ledger consistent; settings are read at several moments |
| ledger, `history.py` | `history.json`: records, patch hashes, stop reason | create, append, stop | repeats, budget, crash during a write, a second experiment |
| policy, `policy.py` | none | `evaluate`, `screen_improved` | absent figures, rounding, order of the checks |
| baseline, `pipeline.py` (`run_baseline`, `reuse_baseline`) | run directory: manifest, lock, parsed files, ORFS metadata | measure, reuse | hours between the digest, the tools and the comparison; runs that failed halfway |
| runner, `runner.py`, `adapters/base.py` | process group, pipes, exit code, logs | `run_command`, `execute` | the timeout races the exit; children hold the pipes |
| equivalence, `parsers/eqy_status.py`, `adapters/eqy.py` | log, marker files, process status | `parse_equivalence` | partial logs of a run that was cut off |
| source map, `parsers/yosys_json_src.py`, `sourcemap.py` | index of the netlist, links of a path | look up, blame | names of pins, cells and wires; files known by their base names |
| request, `rtl_hierarchy.py`, `llm/request_builder.py` | modules and connections, slices | scan, select, cut | line numbers of the baseline, files of now; a cap on files |
| patcher, `patcher.py`, `llm/validator.py` | diff, sources, candidate tree | file gate, six checks, hunk by hunk | hunks that overlap or fit twice, files edited meanwhile |
| workspace, `workspace.py` | `runs/<stamp>/`, `candidates/<id>/rtl` | create, stage directories | shared by all experiments of a project |
| onboarding, `onboarding.py` | manifest, SDC, report | scan, order, write | recursive hierarchies, interrupted runs, drafts a human edited |
| clock domain crossing, `rtl/cdc_sync.v` | two state machines, two synchronizers | accept, deliver, acknowledge, reset | unrelated clocks, an unsynchronised bus, independent resets |
| the fixture around it, `rtl/clk_div.v`, `dsp_core.v`, `nebula_top.v` | dividers, the offered word | divide, reload, offer | ratios that change anywhere, offers that look at no handshake |
| configuration, `config.py` | the manifest | digests, protected paths, clock inventory | what the digests leave out |

They interact by calls within one thread. What makes that hard is outside it:
tool processes, files that anybody may edit, other experiments on the same
project, and death at any moment. The loop asks the model (`llm/`), hands its
diff to the validator and the patcher, runs tools through a backend, parses
their reports, asks the policy, and appends to the ledger. `reuse_baseline`
takes what an earlier process left on disk, and so does the request: the path
it is about was mapped to lines of the RTL when the baseline was measured. The CDC handshake is hardware of the
fixture, which the patcher protects because equivalence checking says nothing
about it.

What makes each part correct:

- *loop*: nothing is routed without a proof of this very candidate, no patch is
  built twice, no netlist proved twice, every patch that was built is on record
  and counts as a repeat from then on, the record of a rejection names its
  cause, the stop reason tells of a repeat, and the loop ends;
- *policy*: the recorded failure is the first documented check that fails; no
  check punishes an improvement; limits hold with rounding and absent figures;
- *baseline*: what is reused was measured on one RTL, the recorded one, under
  settings of the recorded digest; a baseline has the declared clocks; a candidate
  that is compared was measured under the baseline's settings and proved equivalent
  to the design whose figures it is compared with (the last three hold only in
  part, see section 6);
- *runner*: it returns, leaves no process behind, and passes only what passed;
- *equivalence*: a PASS proves the whole design, a disproof is not lost;
- *source map and request*: the model sees the line the path is blamed on, and
  sees source whenever the path is called mapped;
- *validator and patcher*: the files of an admitted patch are connected and
  allowed by the patcher as well; candidates are within the budget, protected
  files untouched; patches of one hash are made of the same lines (but for
  lines that look like a header);
- *ledger and workspace*: the file is whole, trees are the experiment's own;
- *onboarding*: what is instantiated comes first, reviewed drafts are kept;
- *crossing and fixture*: each accepted word is delivered once, unchanged; both
  clocks run, every word offered is accepted if whoever feeds the fixture waits
  for it, and after any resets words get through again.

## 2. The modules

**`Asm`** is the transition table and `advance` (`HasEdge`, `Target`,
`FailureAfter`). **`AsmWalk`** is the abstract specification of the machine: a
walk along the table in which the physical stage is entered only with a proof.

**`Policy`** has `Evaluate`, with deltas and rounding as the code computes them:
percentages in thousandths, at a zero base as the code defines it. The code rounds
a float, so a change that is half a thousandth in exact numbers goes up or down with
the error of that float; the constant `TiesUp` says which go up, for each pair of
figures (40000 to 42001 is 5.0025 % and comes out as 5.003, 200000 to 210001 is
5.0005 % and comes out as 5.0). Figures are taken to be moderate enough that the
error decides nothing but such ties. **`MCPolicy`** puts every combination of
figures before it once, and states the checks as the head of `policy.py` documents
them, on exact figures (`Met`, `Failed`; a tie is neither). The figures and limits
are constants, numbers or absent (`FiguresAssumption`).

**`Pipeline`** is `optimize` with `_run_iteration`, built on `Asm` and `Policy`.
`ctl` and `state` are the program counter: `head` and `tail` are the loop of
`optimize`, `body` an iteration, at the call `state` stands for. `rec` is the
`IterationRecord`, `cur` the locals, `ledger` and `report` the objects of these
names. One action is one call with everything up to the next: `Screen` is
synthesis, STA, the duplicate check and `screen_improved`, with the `_reject`
that may follow; a synthesis fails as FAIL, TIMEOUT or ERROR. Answers of model and
tools are free choices. `EditSettings` is anybody editing SDC or Liberty. `audit` is a history variable: what was built,
proved, and under which settings. `AttemptsAreOnRecord` relates it to the ledger
in memory, also where an exception ends the loop. A patch is its normalised hash; that equal
hashes may elaborate differently is kept, since context lines do not count for
the hash. An exception no one catches leads to `raised`, one of `advance` to
`off_table`. Parsers are assumed not to raise.

**`Baseline`** is `run_baseline` (one action per stage, with the files it leaves
in the run directory), `reuse_baseline` (`CheckSettings`, `CheckRtl`, `Load`,
`ReturnReused`), and one candidate built, proved, measured and compared with
each baseline. A measurement is the set of pairs of RTL and settings its tools
read. A tool reads its inputs at one moment, and EQY takes the RTL of its moment as
gold. `SettingsHash` is the digest, which several settings may share; `ClocksOf` is
what STA finds under some settings. `expects` has the clocks that
`constraints.clock_expectations` named when each process loaded the manifest, which
may be edited before a reuse. A failed baseline leaves its files, with or without
ORFS's `metadata.json`.

**`Runner`** is `run_command` and `RealBackend.execute` against a tool and its
children, as processes that hang, exit, close their pipes and are killed.
`communicate` returns when the tool is gone and nobody holds the pipes.

**`Equivalence`** is an external EQY, which lists its partitions one by one,
sums up, leaves a marker and exits, and may be stopped between any two of these,
with `parse_equivalence` (`Classify`, `Discarded`, `StatusFromLog`).

**`SourceMap`** is the way from a timing report to lines: `SourceIndex` of the
objects of `design.json` with a `src` attribute, the rows of the report that
count as `Elements`, `MapPath` with exact links and links by the last segment of
a name, `MappingStatus`, `DominantSource`. Names are sequences of segments, files
paths with a base name.

**`Hierarchy`** is the light scan of the RTL: modules and the lines they span,
instances, and whether their connection is known completely. What the regular
expressions find in a line is the constant `Meaning`.

**`Request`** is `build_request` on top of both: the modules the path goes
through (`Anchors`), their neighbours under the cap on files, and the slices,
cut one after the other from files that may be edited meanwhile. `measured` is
what the baseline left: its netlist and its timing report.

**`Patcher`** extends `Request`: the model's answer (any diff), the validator's
file gate with the connection of files, and `apply_patch`. A line is a text
and the form of its white space; a diff is a sequence of hunks with the prefix
of their header. Files may be edited between any two steps. Paths are taken as
normalised. `NormalisedPatch` is what the ledger hashes of a diff; `LikeHeader` has
the lines that start with `+++` or `---` though they are no headers (the added
`++i;`), which the patcher applies and the hash leaves out.

**`Experiments`** is several `optimize` commands on one project, with clock,
ledger file, candidate trees and run directories, killed anywhere. Opening a
file empties it, writing it is another step.

**`Onboarding`** is `onboard_project`, with the depth-first search of
`_ordered_files` one call or return at a time (`stack` is Python's). Where the
code goes through names in order, the model goes through them in any. Humans
edit drafts between runs. The regular expressions are abstracted: the scan
yields any set of connections.

**`CdcSync`** is `cdc_sync.v`: a step is an edge of either clock or of both, or a
reset of either side or both. Registers take what their inputs were before the
edge; a bit sampled while it changes is old or new, a bus anything. **`Channel`**
is what it promises: a channel of one place, which a reset may break.

**`Fixture`** puts it into `nebula_top.v`: a master clock and a divider for each
side, pins that change at any edge, and the moment `dsp_core` offers a word. The
sums are free choices. An edge of a divided clock is an edge of its side of
`CdcSync` in the same step.

**Composition.** `Pipeline` extends `Asm` and `Policy`, and is shown to implement
`AsmWalk` (`Walk`, with `proven` as `rec.eqy = "PASS"`). `Patcher` extends
`Request`, `SourceMap` and `Hierarchy`, so that a patch answers a request that
was really built. `Fixture` extends `CdcSync`; both implement `Channel`
(`Promised`, with the word in transit computed from the two states).

## 3. The runs

| run | states | shows |
| --- | --- | --- |
| `policy` | 648 000 | `FailureNamesFirstCheck`, `AcceptanceIsMonotone`, `AcceptedAreaIsBounded` |
| `policy_timing` | violation | `AcceptedIsNotSlower`, see section 6 |
| `loop` | 484 172 | memory (`NoPatchBuiltTwice`, `NoNetlistProvedTwice`, `AttemptsAreOnRecord`), records, stop reason, settings; refinement of `AsmWalk`; `LoopEnds` |
| `loop_repeat` | violation | `LoopStopsAtRepeat`, see section 6 |
| `baseline` | 1 158 448 | `ReusedFromOneInput`, `BaselineHasItsClocks` |
| `runner` | 435 | `NobodyLeft`, `PassIsEarned`, `EveryRunIsBounded` |
| `equivalence` | 1 244 | `PassProvesAll`, `DisproofIsReported` |
| `equivalence_crash` | violation | `PassProvesAll`, see section 6 |
| `patcher` | 134 220 | the request (`TargetIsShown`, `MappedPathsComeWithSource`), the validator (`AdmittedPathsAreAllowed`, `AdmittedFilesAreConnected`), the candidate (`CandidateWithinBudget`, `OthersStayAsTheyAre`), the hash (`HashTellsTheLines`) |
| `experiments` | 63 990 | `FileIsTheHistory`, `TestsItsOwnTrees` |
| `cdc` | 183 600 | `ImplementsChannel`, `OffersAreTaken`, `ClocksRun`, `RunningFixtureDelivers`, `RunningFixtureRecovers` |
| `onboarding` | 92 085 | `InstantiatedFilesComeFirst`, `ReviewedWorkIsKept`, `OnboardingEnds` |

Every property has a mutant in `PROJECT.json`, a plausible mistake in one
definition under which TLC finds the property violated.

**Bounds.**

- `policy`: slacks -2 to 1 and none; areas and cell counts that are zero, at
  the limit, at a tie of the rounding, one rounding beyond it, and absent. As in
  the code, the tie at the area's limit goes down and is within it, that at the
  limit of the cells goes up and is not. Each gate has inputs on both sides of its
  threshold.
- `loop`: three iterations over two patches and two netlists: the first may
  succeed or fail anywhere, the second may repeat it or collide with its
  netlist, the third follows a repeat. One edit of the settings
  (`Reverts = FALSE`, two values).
- `baseline`: two RTLs; three settings, of which one makes one clock instead of
  two and two share a digest; each may be edited to a value, or a digest, it did not
  have before. The manifest declares both clocks, one or none, and may declare
  others when a baseline is reused.
- `runner`: a tool and two children, so that one can outlast the other.
- `equivalence`: three partitions: equal, different and undecided ones together.
- `patcher`: four files, two of which may be shown or changed, so that anchors
  of a path and neighbours compete; one is joined by positional ports, one is
  protected and outside of all modules. Slices without margin, so that a line is
  there only if it was meant to be. Eight reports: paths between registers of two
  modules, to a port, with a wire named like a pin, of two groups, mapped at an
  end only, or nowhere. Two hunks over files of up to three lines of two texts,
  which can overlap, repeat, fit twice or undo each other; a budget of two lines
  that some of them exceed; with an allowlist and without. One of the hunks adds a
  line that the hash takes for a header.
- `experiments`: two commands of two attempts, two seconds.
- `cdc`: two words, the reset value and another; ratios zero and two on one
  side, one and two on the other, changing at any edge with `div_enable`.
- `onboarding`: every graph on three modules in three files; two runs, the
  second on a changed tree.

`CHECK_DEADLOCK FALSE` is set where the program really ends: the policy has
decided, the loop is done, the verdict is in, bounded runs are used up. The
fixture runs forever, and is checked for deadlock.

**Fairness.** `Pipeline`: weak fairness of the loop's own steps. It is one
thread that waits only for calls with a timeout: model clients time out after
120 s (`llm/client.py`), tools are bounded by `run_command`. No fairness is
assumed of edits. `Runner`: weak fairness of Python alone; the tool and its
children may hang forever. `Fixture`: both master
clocks run, nothing else; that pins stand still, that resets cease and that a
ratio is at least one are premises of the formulas that need them.
`Onboarding`: its own steps;
the elaboration is bounded by 300 s, human and killer owe nothing.

## 4. What is proved

All theorems hold for every value of the constants that meets the named
assumptions of the modules.

| module | theorems | needs | argument |
| --- | --- | --- | --- |
| `PipelineProofs` | `TypeCorrect`, `StaysOnTheTable`, `BuildsOnce`, `RecordsEveryAttempt`, `ProvesOnce` | | `IInv`, one lemma per action or group of them |
| | `ExplainsEveryFailure`, `ClassifiesAllButRepeats`, `TellsOfCycles` | | `RInv` over `IInv` |
| | `AcceptanceKeepsSettings` | `~Reverts` | `SettingsInv` over `IInv` |
| | `Refinement` | | every step is an edge or leaves the machine alone |
| | `EndsInBoundedSteps` | | `StepsLeft` over `IInv` |
| `BaselineProofs` | `BaselineTypes`, `BaselinesHaveClocks` | | `BInv`, `ClockedInv` |
| | `ReuseIsOfOnePiece` | `~Reverts` | `BInv` |
| `RunnerProofs` | `RunnerTypes`, `PassesAreEarned`, `NoProcessIsLeft` | the last: `~Outlive` | `RInv`, `Orphanless` |
| | `InvocationsNeverHang` | `~Outlive` | `StepsLeft`, and `Orphanless` for the read without a timeout |
| `VerdictProofs` | `PassesProveAll` | EQY does not die while listing | `EInv` |
| | `DisproofsAreReported` | | `DInv` |
| | `NoImprovementIsPunished`, `GrowthIsBounded`, `FailuresNameTheFirstCheck` | | `PercentAtMost`, `JInv` |
| `PatcherProofs` | `AdmittedAreConnected`, `AdmittedAreAllowed` | | `PInv`, `SearchRounds` |
| | `ProtectedFilesStay` | base names differ (`DistinctBases`) | `PInv` |
| | `MappedPathsShowSource` | `NamesResolve` | `MInv` over `PInv` |
| | `TargetsAreShown` | `FilesInside`, `TargetsAreScanned` | `TInv` over `MInv` and `PInv` |
| | `CandidatesKeepBudget` | `DistinctBases` | `BInv` over `PInv` |
| | `HashTellsWhatIsMade` | `DistinctBases` | `HInv` over `BInv` |
| `OnboardingProofs` | `FilesComeInOrder`, `ReviewsAreKept` | | `OInv`, `ReviewInv` |
| | `OnboardsInBoundedSteps` | finitely many modules | `StepsLeft` over `EInv` |
| `ExperimentsProofs` | `TheFileIsTheHistory`, `TreesAreTheirOwn` | `~Overlap` | `IInv` |
| `CdcSyncProofs` | `CdcSyncTypes`, `HandshakeRefines`, `FixtureDrivesTheCrossing`, `PatientOffersAreTaken` | the last: `Patient` | `CInv`; a step of the fixture is a step of the crossing |

- *`NoPatchBuiltTwice` is not inductive*: a count of one says nothing unless
  the hash is in the ledger, or in the record that is about to go there. `IInv`
  says so for patches, the same for netlists and `seen_netlists`, and that the
  ledger has one record for each finished iteration.
- *Records*: what a failure class, a repeat and a stop reason say is written
  while the iteration runs. So `RInv` says what the record in the making has
  already been told (`InTheMaking`, by `state`), that the class of an earlier
  iteration is gone by then, and what is said of each record of the ledger
  (`Told`).
- *Settings*: the digest is compared once, at COMPARE. Without reverts, if it
  is the baseline's then, it was at every moment before, so the tools read it.
  With reverts this is false (`MCPipelineDocs.cfg`).
- *Walk*: the code assigns `machine.state` in three places. Each assignment
  amounts to an edge of the table, because of where an iteration ends
  (`Parked`).
- *Reuse*: a recorded digest that equals the current one did so ever since, so
  all reads between saw content of that digest.
- *Clocks*: timing is saved only with the clocks that the measuring process
  expects, and whoever returns it returns these (`ClockedInv`). A later process that
  expects others does not look, so the theorem is about one that expects the same.
- *Runner*: the tool is reaped when `communicate` returns, so its code is final.
  If the tool waits for its children, killing its group while it lives reaches
  all of them.
- *Equivalence*: a token in a log speaks for its partition; a log without bad
  news speaks for the design only if it lists all partitions.
- *Disproof*: the log has a line for each partition EQY has listed, and once one
  of them differs, no marker but FAIL is written (`DInv`).
- *Policy*: what decides is a rounded quotient. It is at most a limit exactly if the
  figures themselves satisfy a linear inequality, strict if that tie goes up
  (`RoundedAtMost`, `PercentAtMost`). In this form the checks are monotone in each
  figure, whatever `TiesUp` is, and what `Met` and `Failed` say of the exact
  percentages can be compared with what the code makes of the rounded ones.
- *Search*: if no connection crosses between two parts of the files, the rounds of
  `_files_connected` never leave the part they start in, so they cannot reach
  all. The rounds are a recursive function on Nat, and what holds in each of them
  is shown by induction over a set of numbers (`SetInduction`, from the library's
  theorem that the order of Nat is well-founded).
- *Source of a path*: an entry of the source index is an attribute of what has its
  name (`IndexIsJustified`), so every link is traced to a piece of a file that was
  measured, or there is none (`PathIsMapped`), and what the path is blamed on is
  one of these (`DominantIsLinked`). An unmapped path selects nothing
  (`NothingSelected`); a mapped one has at least the slice of `Fallback`
  (`FallbackShows`). `MInv` carries this through the building of the request.
- *Target*: the modules of a file do not overlap (`ModulesAreApart`), so there is
  one around the line at most. It is the first module of the path (`FirstOfPath`),
  and the first always fits under the cap, whatever competes for it (`AddKeeps`).
  `TInv` says that its slice is cut or still to be, and that what is cut shows the
  line (`FocusShows`). The proof needs that the scan finds the module of the line,
  or no module of the path at all (`TargetsAreScanned`; else other modules take the
  place of the fallback), and that the declared files are those `rtl_dir` has under
  their base names (`FilesInside`).
- *Folds*: the request is made by folds over sequences, which the community modules
  define by a recursive function that is chosen. That there is one is no matter of
  course for a prover: `FoldExists` shows it by induction, `FoldRuns` that it goes
  through the sequence step by step. Each fold of the model then has a lemma that
  says what it keeps.
- *Budget*: the code counts what is left of a hunk without the common ends of its
  halves; the property measures how far two files are apart by a longest common
  subsequence. Its table grows by one at most when a file has a line more
  (`TableGrowsSlowly`), and before and after a place that is replaced it is as it
  was, up to the lines there (`SameBefore`, `FewerByBlock`). So a hunk takes a file
  no further from what was read than the lines that are counted of it, wherever it
  is put and whatever was done there before (`ReplacingDiffers`, `ApplyingIsCounted`).
  `BInv` says that the files are as far from what was read as the hunks applied so
  far are counted, or less; the sum over all hunks is what `CheckBudget` has checked.
- *Hash*: a hunk that is applied exchanges lines with its old texts for lines with
  its new ones (`ApplyingExchanges`), also where it matches but for white space. What
  it gains of a text is what it adds of it less what it removes, since context is in
  both halves (`GainIsSigned`), and the gains of all hunks are what the diff's changed
  lines say (`ChangesAreGains`), and what the hash says of each text that no line of
  `LikeHeader` has (`HashCountsHits`). `HInv` says that the files have gained what the hunks
  applied so far gain. A hunk without old lines is left out: `_apply_hunk` does
  nothing with it, so the hash tells of lines no candidate has.
- *Sums*: `SumFunction` goes through a set in an order it chooses. `SumOrder` shows
  that any order does, so a sum changes by what one of its terms does (`SumChanges`).
- *Scope and protected files*: a slice the model may edit is of a file it may
  edit (`Honest`), and past the check of paths every file of the patch is one
  (`Checked`). All other files are copied, each under a base name of its own.
- *Order of files*: who is being visited needs all that are visited on its behalf
  (`Chained`); a file is left when each file it depends on stands in the order or
  is being visited, and then needs it.
- *Experiments*: one process runs at a time; between two flushes it alone has
  written the file, and what it tests it has just built.
- *Crossing*: the six control bits, in the order a request travels, are a wave
  of ones followed by zeros, or of zeros followed by ones (`Wave`). So when the
  destination first sees a request the source still asserts it, no
  acknowledgement is on its way, and the word stands still.

- *Length of a run*: a function of the state (`StepsLeft`) is bounded by the
  constants, and each step of the program's own thread lowers it, whatever others
  do in between. The loop can come back to a box only with the repair used up or
  the iteration counted; onboarding calls and leaves a file once, since a called
  file is no longer `Unvisited`, and each round of the search below the top adds a
  module. `run_command` goes forward only, and its one wait without a timeout
  (`Drained`) is over when it begins, since nobody is left to hold the pipes.

Only model-checked is liveness (`LoopEnds`, `EveryRunIsBounded`, `ClocksRun`,
`RunningFixtureDelivers`, `RunningFixtureRecovers`, `OnboardingEnds`), since
ENABLED is out of the prover's reach. Of `LoopEnds`, `EveryRunIsBounded` and
`OnboardingEnds` the safety they rest on is proved, for every value of the
constants: there are only so many steps. That there is a next step until the end,
and that it is taken, is what TLC and the fairness add. Every invariant and every
action property of a passing run is a theorem.

## 5. Assumptions to remember

`~Reverts`, `~Outlive`, `~Overlap`, `Patient`, that the texts of `LikeHeader` are left
aside, that the declared clocks are those of the measurement, that all files are in
`rtl_dir` under names of their own (`DistinctBases`, `FilesInside`, or at least
`NamesResolve`), and where EQY dies are conditions, not facts
about the code. For each there is a configuration that drops it and shows what
happens then (next section). `TargetsAreScanned` is a condition on the RTL: no
line the path is blamed on lies outside of all modules the light scan finds while
other parts of the path lie in one. It holds in every instance of `MCPatcher`,
which states it as an assumption for TLC.

The assumptions on constants say what kind of thing they are: figures are numbers
or absent (`FiguresAssumption`), files are sequences of lines, and a netlist and a
report speak of pieces of the files they were made of (`RequestAssumption`); a hunk is of
one file and has lines that are added, removed or context (`PatcherAssumption`).

## 6. Disagreements with the documentation

Three are findings, with a run each.

- `loop_repeat`: `history.py:9-11` says a repeated patch stops the loop. It is
  rejected, the stop reason is set, and the loop goes on to the budget.
- `policy_timing`: `policy.py:15` asks timing to improve, or the violation to
  close. A baseline that meets its target may be replaced by a slower candidate
  that meets it too.
- `equivalence_crash`: an EQY that dies while it lists partitions leaves a log
  that reads as PASS, since of the process only TIMEOUT is looked at.

Further configurations have counterexamples to what the documentation says. Run
those with several properties as `tlc -workers 1 -continue -config <cfg> <MC
module>` and look for "is violated": TLC names the first one a state violates, and may stop
early once every one was reported. `MCRequestDocs.cfg` is of `MCPatcher`.

| configuration | property | what happens |
| --- | --- | --- |
| `MCPolicyCells.cfg` | `AcceptedCellsWithinLimit` (`policy.py:16`) | an absent cell count passes its guardrail |
| `MCPipelineDocs.cfg` | `IterationReturnsItsRecord` (`pipeline.py:308`) | an exception ends the loop without a record |
| | `RepeatsWereMeasured` (`schemas/history.py:45`) | a patch that was refused before any measurement counts as tried |
| | `AcceptedUnderBaselineSettings` | settings edited and edited back between measurement and comparison |
| `MCBaselineDocs.cfg` | `DeclaredClocksArePresent` (`pipeline.py:124-126`) | a reuse looks for no clocks, and the digest does not cover the declaration |
| | `GoldIsTheBaseline` (`adapters/eqy.py:27`) | EQY reads the RTL of now, edited since it was measured |
| | `ComparableRunsShareSettings` (`policy.py:7-9`) | a fresh baseline takes its digest when it returns, after its tools have read |
| | `OnlyTheRtlDiffers` (`config.py:218-222`) | the digest leaves out LEF files, include directories and the equivalence relation |
| `MCRunnerOrphan.cfg` | `EveryRunIsBounded` (`runner.py:9-15`) | a child that outlives the tool holds the pipes, and its group is not killed |
| `MCRequestDocs.cfg` | `TargetIsTheMeasured` (`request_builder.py:5-8`) | lines numbered by the baseline are cut from RTL that was edited since |
| | `TargetIsShown` | a file outside of `rtl_dir` is looked for inside |
| | `TheWorstIsShown` (`request_builder.py:5`) | the first path of the first group is not the worst of all |
| | `CellsOnThePathAreLinked` (`yosys_json_src.py:56-58`) | the last segment of a row's name is the pin, so its cell is not found |
| | `HighestConfidenceWins` (`sourcemap.py:99`) | a wire named like a pin is preferred to the register the path ends in |
| | `PatchStaysInContext` (`validator.py:78`) | headers without `b/` pass the validator unseen |
| `MCPatcherDocs.cfg` | `AmbiguousHunksAreRefused` (`patcher.py:101`) | of several exact matches the first is taken |
| | `AppliedHunksTakeEffect` (`patcher.py:10`) | a hunk is applied and changes nothing |
| | `ContextKeepsItsBytes` (`patcher.py:135-137`) | a context line that occurs twice in a hunk gets the model's white space |
| | `OthersStayAsTheyAre` (`patcher.py:244`) | of two files with one base name the protected one is overwritten |
| | `HashTellsEveryLine` (`history.py:26`) | lines that start with `+++` or `---` are taken for headers, and the patcher applies some |
| `MCExperimentsKill.cfg` | `LedgerKeepsEveryAttempt` (`README.md:97` of the orchestrator) | killed while it writes the ledger |
| `MCExperimentsTwo.cfg` | `LedgerKeepsEveryAttempt` | the next experiment starts the ledger anew |
| | `RunDirectoriesAreOwned` (`workspace.py:3`) | two commands in one second share a directory |
| | `TestsItsOwnTrees` (`workspace.py:87`) | of two commands at once one tests the other's RTL |
| `MCFixtureDocs.cfg` | `AnyRatioRuns` (`clk_div.v:36`) | at ratio zero a divider reloads at every edge and its clock stands still |
| | `OffersAreTaken` | words that come back to back are dropped while a handshake runs |

## 7. What is not modelled

Most of the parsers of tool reports, the scripts the adapters write, prompts and
HTTP clients, the mock backend and the command line: text in, text out, without
control worth checking; what they can answer or how they can fail is a choice in
the modules above. The regular expressions that scan Verilog are constants or
choices. Of a request, redaction, the facts and the summary of earlier attempts
are left out; of a recommendation, that the files it declares must be those of
its diff, and the validator's other grounds, which are choices of `Pipeline`.
Lines of a diff outside of its hunks are not modelled, nor are removed lines that
the patcher itself takes for headers (`-- ` at their start). The branch that ends an
iteration with `patch_incomplete` (`pipeline.py:401-405`) cannot be reached: an
applied patch always has its tree. `max_candidates` is recorded and never read,
so there is nothing to check. The Windows branch of `_kill_tree` is not modelled.
Which order OpenSTA reports paths in, what Yosys puts into `src` and how EQY
lists partitions is the tools'; the models allow what their formats do.
Benchmarks and submission material are data.

## 8. Plan

The order so far followed what an acceptance rests on: machine, policy, loop,
then baseline, equivalence, runner, ledger, then what the model is shown and what
becomes of its answer, and the fixture. What is left, the most important first:

1. *RTL in the loop*: `Baseline` compares one candidate at a time; an `rtl`
   beside `settings` in `Pipeline` would put the gold design into the ledger.
