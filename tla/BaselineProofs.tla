--------------------------- MODULE BaselineProofs ---------------------------
(***************************************************************************)
(* A reused baseline is of one piece, for any contents of the files and    *)
(* any edits that do not restore earlier ones.                             *)
(*                                                                         *)
(* The argument: a digest that equals the current file was equal to it     *)
(* ever since it was recorded.  So as long as the settings (the RTL) are   *)
(* what the run recorded, every tool of the run has read just those; the   *)
(* reuse finds this to be so at its two checks, and by then the run is     *)
(* over, so what the checks have seen stays true.                          *)
(***************************************************************************)
EXTENDS Baseline, TLAPS

\* What a part of the run was measured on; nothing while it is missing
From(timing) == IF timing = None THEN {} ELSE timing.from

\* Everything the tools of the run have read
Read == measured.netlist \cup From(measured.timing) \cup From(run.timing)
          \cup run.metadata

Types == TypeOK /\ rtl \in past.rtl /\ SettingsHash[settings] \in past.hashes

\* Nothing is measured before it is recorded what is to be measured.
RecordsFirst ==
    /\ bpc = "create" => run.manifest = None
    /\ bpc \in {"create", "lock"} => run.lock = None /\ Read = {}
    /\ run.manifest = None => Read = {}
    /\ run.lock = None => Read = {}
    /\ bpc \notin {"create", "failed"} => run.manifest # None
    /\ bpc \notin {"create", "lock", "failed"} => run.lock # None
    /\ bpc = "clocks" => measured.timing # None
    /\ bpc \in {"map", "orfs", "return"} => run.timing # None

\* What the two digests of the run tell of its inputs, if no edit restores any
SettingsHeld ==
    ~Reverts =>
      /\ run.manifest # None => run.manifest \in past.hashes
      /\ SettingsHash[settings] = run.manifest =>
           \A i \in Read : SettingsHash[i[2]] = run.manifest
      /\ rpc \in {"rtl", "load", "workspace", "done"} =>
           run.manifest # None /\ \A i \in Read : SettingsHash[i[2]] = run.manifest

RtlHeld ==
    ~Reverts =>
      /\ run.lock # None => run.lock \in past.rtl
      /\ rtl = run.lock => \A i \in Read : i[1] = run.lock
      /\ rpc \in {"load", "workspace", "done"} =>
           run.lock # None /\ \A i \in Read : i[1] = run.lock

ReusedHeld == ~Reverts => ReusedFromOneInput

ReuseIsLate ==
    /\ rpc # "idle" => bpc \in {"done", "failed"}
    /\ rpc \in {"workspace", "done"} => Complete
    /\ result.reuse # None => rpc = "done"

BInv == Types /\ RecordsFirst /\ SettingsHeld /\ RtlHeld /\ ReuseIsLate
          /\ ReusedHeld

\* A digest is a value, and so are the clocks that STA finds.
LEMMA DigestOf == ASSUME NEW s \in Settings
                  PROVE  SettingsHash[s] \in Hashes /\ SettingsHash[s] # None
<1>1. SettingsHash[s] \in Hashes
  BY DEF Hashes
<1> QED
  BY <1>1, NoneAssumption

\* Before anything is recorded, nothing has been read.
LEMMA BaselineInit == Init => BInv
<1> SUFFICES ASSUME Init PROVE BInv
  OBVIOUS
<1> USE DEF Init
<1>1. Types
  BY DigestOf DEF Types, TypeOK, Inputs, Timings, Runs, Results, Loops, Candidates,
                   NoCandidate, Processes, BaselinePlaces, ReusePlaces
<1>2. Read = {}
  BY DEF Read, From
<1>3. RecordsFirst /\ SettingsHeld /\ RtlHeld /\ ReuseIsLate /\ ReusedHeld
  BY <1>2 DEF RecordsFirst, SettingsHeld, RtlHeld, ReuseIsLate, ReusedHeld, ReusedFromOneInput,
              Processes
<1> QED
  BY <1>1, <1>3 DEF BInv

\* Steps of run_baseline that read the files: what they read is the current.
LEMMA ReadingStep ==
  ASSUME BInv, UNCHANGED Other, Types',
         bpc \notin {"create", "lock", "done", "failed"},
         bpc' \notin {"create", "lock"},
         bpc' = "clocks" => measured'.timing # None,
         bpc' \in {"map", "orfs", "return"} => run'.timing # None,
         run'.manifest = run.manifest, run'.lock = run.lock,
         result'.reuse = result.reuse,
         \A i \in Read' : i \in Read \/ i = <<rtl, settings>>
                            \/ \E j \in Read : i = <<j[1], settings>>
  PROVE  BInv'
<1> USE DEF Other, files
<1>0. rpc = "idle" /\ rpc' = "idle" /\ result.reuse = None
  BY DEF BInv, ReuseIsLate
<1>1. RecordsFirst'
  BY DEF BInv, RecordsFirst
<1>2. SettingsHeld'
  BY <1>0 DEF BInv, SettingsHeld
<1>3. RtlHeld'
  BY <1>0 DEF BInv, RtlHeld
<1>4. ReuseIsLate' /\ ReusedHeld'
  BY <1>0 DEF BInv, ReuseIsLate, ReusedHeld, ReusedFromOneInput
<1> QED
  BY <1>1, <1>2, <1>3, <1>4 DEF BInv

\* Everything but the files stays, and so does what was read.
LEMMA EditStep == BInv /\ (EditSettings \/ EditRtl) => BInv'
<1> SUFFICES ASSUME BInv, EditSettings \/ EditRtl PROVE BInv'
  OBVIOUS
<1>1. UNCHANGED Else /\ Read' = Read
  BY DEF EditSettings, EditRtl, Else, Read
<1>2. Types'
  <2>1. CASE EditSettings
    <3>1. PICK s \in Settings :
            settings' = s /\ past' = [past EXCEPT !.hashes = @ \cup {SettingsHash[s]}]
      BY <2>1 DEF EditSettings
    <3>2. SettingsHash[s] \in Hashes /\ past \in [rtl : SUBSET Rtls, hashes : SUBSET Hashes]
      BY DigestOf DEF BInv, Types, TypeOK
    <3> QED
      BY <1>1, <2>1, <3>1, <3>2 DEF EditSettings, BInv, Types, TypeOK, Else
  <2>2. CASE EditRtl
    BY <1>1, <2>2 DEF EditRtl, BInv, Types, TypeOK, Else
  <2> QED
    BY <2>1, <2>2
<1>3. RecordsFirst' /\ ReuseIsLate' /\ ReusedHeld'
  BY <1>1 DEF Else, BInv, RecordsFirst, ReuseIsLate, ReusedHeld, ReusedFromOneInput, Complete
<1>4. SettingsHeld'
  <2> SUFFICES ASSUME ~Reverts PROVE SettingsHeld'
    BY DEF SettingsHeld
  <2>1. CASE EditSettings
    <3>1. past.hashes \subseteq past'.hashes
      BY <2>1 DEF EditSettings, BInv, Types, TypeOK
    <3>2. \/ SettingsHash[settings'] = SettingsHash[settings]
          \/ SettingsHash[settings'] \notin past.hashes
      BY <2>1 DEF EditSettings
    <3>3. run.manifest # None => run.manifest \in past.hashes
      BY DEF BInv, SettingsHeld
    <3>4. run.manifest # None =>
            (SettingsHash[settings'] = run.manifest => SettingsHash[settings] = run.manifest)
      BY <3>2, <3>3
    <3>5. run.manifest = None => Read = {}
      BY DEF BInv, RecordsFirst
    <3> QED
      BY <1>1, <3>1, <3>3, <3>4, <3>5 DEF Else, BInv, SettingsHeld
  <2>2. CASE EditRtl
    BY <1>1, <2>2 DEF EditRtl, Else, BInv, Types, TypeOK, SettingsHeld
  <2> QED
    BY <2>1, <2>2
<1>5. RtlHeld'
  <2> SUFFICES ASSUME ~Reverts PROVE RtlHeld'
    BY DEF RtlHeld
  <2>1. CASE EditSettings
    BY <1>1, <2>1 DEF EditSettings, Else, BInv, Types, TypeOK, RtlHeld
  <2>2. CASE EditRtl
    BY <1>1, <2>2, NoneAssumption DEF EditRtl, Else, BInv, Types, TypeOK, RtlHeld
  <2> QED
    BY <2>1, <2>2
<1> QED
  BY <1>2, <1>3, <1>4, <1>5 DEF BInv

\* run_baseline: each step reads what is there now, or nothing.
LEMMA RunStep == BInv /\ RunBaseline => BInv'
<1> SUFFICES ASSUME BInv, RunBaseline PROVE BInv'
  OBVIOUS
<1> USE DEF Other, files
<1>0. /\ Types /\ rtl \in Rtls /\ settings \in Settings
      /\ measured \in [netlist : Inputs, timing : Timings \cup {None}]
      /\ run \in Runs /\ result \in [Processes -> Results \cup {None}]
  BY DEF BInv, Types, TypeOK
<1>1. CASE CreateRun
  <2>1. run' = [run EXCEPT !.manifest = SettingsHash[settings]] /\ run' \in Runs
    <3>1. SettingsHash[settings] \in Hashes \cup {None}
      BY <1>0, DigestOf
    <3> QED
      BY <1>0, <1>1, <3>1 DEF CreateRun, Runs
  <2>2. Read' = Read /\ Read = {} /\ run'.manifest = SettingsHash[settings] /\ run'.lock = None
    BY <1>0, <1>1, <2>1 DEF CreateRun, BInv, RecordsFirst, Read, Runs
  <2>3. Types'
    BY <1>1, <2>1 DEF CreateRun, BInv, Types, TypeOK, BaselinePlaces
  <2> QED
    BY <1>0, <1>1, <2>2, <2>3, DigestOf
       DEF CreateRun, BInv, Types, RecordsFirst, SettingsHeld, RtlHeld, ReuseIsLate,
           ReusedHeld, ReusedFromOneInput
<1>2. CASE WriteLock
  <2>1. run' = [run EXCEPT !.lock = rtl] /\ run' \in Runs
    BY <1>0, <1>2 DEF WriteLock, Runs
  <2>2. Read' = Read /\ Read = {} /\ run'.lock = rtl /\ run'.manifest = run.manifest
    BY <1>0, <1>2, <2>1 DEF WriteLock, BInv, RecordsFirst, Read, Runs
  <2>3. Types'
    BY <1>2, <2>1 DEF WriteLock, BInv, Types, TypeOK, BaselinePlaces
  <2> QED
    BY <1>0, <1>2, <2>2, <2>3, NoneAssumption
       DEF WriteLock, BInv, Types, RecordsFirst, SettingsHeld, RtlHeld, ReuseIsLate,
           ReusedHeld, ReusedFromOneInput
<1>3. CASE Synth
  <2>1. /\ measured' \in [netlist : Inputs, timing : Timings \cup {None}]
        /\ measured'.timing = measured.timing /\ measured'.netlist = {<<rtl, settings>>}
    BY <1>0, <1>3 DEF Synth, Inputs
  <2>2. Types'
    BY <1>3, <2>1 DEF Synth, BInv, Types, TypeOK, BaselinePlaces
  <2> QED
    BY <1>3, <2>1, <2>2, ReadingStep DEF Synth, Read
<1>4. CASE Sta
  <2>1. {<<p[1], settings>> : p \in measured.netlist} \in Inputs
    BY <1>0 DEF Inputs
  <2>2. /\ measured' \in [netlist : Inputs, timing : Timings \cup {None}]
        /\ measured'.netlist = measured.netlist /\ measured'.timing \in Timings
        /\ measured'.timing.from =
             measured.netlist \cup {<<p[1], settings>> : p \in measured.netlist}
    <3> DEFINE again == {<<p[1], settings>> : p \in measured.netlist}
    <3>1. again \in Inputs /\ measured.netlist \cup again \in Inputs
      BY <1>0, <2>1 DEF Inputs
    <3>2. measured' = [measured EXCEPT !.timing =
            [from |-> measured.netlist \cup again, clocks |-> ClocksOf[settings]]]
      BY <1>4 DEF Sta
    <3> HIDE DEF again
    <3>3. [from |-> measured.netlist \cup again, clocks |-> ClocksOf[settings]]
            \in Timings
      BY <1>0, <3>1 DEF Timings, Inventories
    <3>4. /\ measured' \in [netlist : Inputs, timing : Timings \cup {None}]
          /\ measured'.netlist = measured.netlist /\ measured'.timing \in Timings
          /\ measured'.timing.from = measured.netlist \cup again
      BY <1>0, <3>2, <3>3
    <3> QED
      BY <3>4 DEF again
  <2>3. Types'
    BY <1>4, <2>2 DEF Sta, BInv, Types, TypeOK, BaselinePlaces
  <2>4. \A i \in Read' : i \in Read \/ \E j \in Read : i = <<j[1], settings>>
    BY <1>4, <2>2 DEF Sta, Read, From
  <2>5. measured'.timing # None
    BY <2>2, NoneAssumption
  <2> QED
    BY <1>4, <2>3, <2>4, <2>5, ReadingStep DEF Sta
<1>5. CASE SaveParsed
  <2>1. CASE ClockProblems(expects.fresh, measured.timing.clocks)
    <3>1. Types' /\ Read' = Read
      BY <1>5, <2>1 DEF SaveParsed, BInv, Types, TypeOK, BaselinePlaces, Read
    <3> QED
      BY <1>5, <2>1, <3>1, ReadingStep DEF SaveParsed
  <2>2. CASE ~ClockProblems(expects.fresh, measured.timing.clocks)
    <3>1. /\ run' \in Runs /\ run'.timing = measured.timing /\ bpc' = "map"
          /\ run'.manifest = run.manifest /\ run'.lock = run.lock
          /\ run'.metadata = run.metadata
      BY <1>0, <1>5, <2>2 DEF SaveParsed, Runs
    <3>2. Types' /\ Read' \subseteq Read
      BY <1>5, <3>1 DEF SaveParsed, BInv, Types, TypeOK, BaselinePlaces, Read
    <3>3. measured.timing # None
      BY <1>5 DEF SaveParsed, BInv, RecordsFirst
    <3> QED
      BY <1>5, <3>1, <3>2, <3>3, ReadingStep DEF SaveParsed
  <2> QED
    BY <2>1, <2>2
<1>6. CASE SavePaths
  <2>1. /\ run' \in Runs /\ run'.timing = run.timing
        /\ run'.manifest = run.manifest /\ run'.lock = run.lock
        /\ run'.metadata = run.metadata
    BY <1>0, <1>6 DEF SavePaths, Runs
  <2>2. Types' /\ Read' = Read
    BY <1>6, <2>1 DEF SavePaths, BInv, Types, TypeOK, BaselinePlaces, Read
  <2>3. run.timing # None
    BY <1>6 DEF SavePaths, BInv, RecordsFirst
  <2> QED
    BY <1>6, <2>1, <2>2, <2>3, ReadingStep DEF SavePaths
<1>7. CASE Orfs
  <2>1. /\ run' \in Runs /\ run'.timing = run.timing
        /\ run'.manifest = run.manifest /\ run'.lock = run.lock
        /\ run'.metadata = {<<rtl, settings>>}
    BY <1>0, <1>7 DEF Orfs, Runs, Inputs
  <2>2. Types' /\ \A i \in Read' : i \in Read \/ i = <<rtl, settings>>
    BY <1>7, <2>1 DEF Orfs, BInv, Types, TypeOK, BaselinePlaces, Read
  <2>3. run.timing # None
    BY <1>7 DEF Orfs, BInv, RecordsFirst
  <2> QED
    BY <1>7, <2>1, <2>2, <2>3, ReadingStep DEF Orfs
<1>8. CASE Return
  <2>1. run.timing \in Timings
    BY <1>0, <1>8 DEF Return, BInv, RecordsFirst, Runs
  <2>2. [settings_hash |-> SettingsHash[settings], from |-> run.timing.from \cup run.metadata,
         clocks |-> run.timing.clocks] \in Results
    BY <1>0, <2>1, DigestOf DEF Results, Timings, Runs, Inputs
  <2>3. result' \in [Processes -> Results \cup {None}] /\ result'.reuse = result.reuse
    BY <1>0, <1>8, <2>2 DEF Return, Processes
  <2>4. Types' /\ Read' = Read
    BY <1>8, <2>3 DEF Return, BInv, Types, TypeOK, BaselinePlaces, Read
  <2> QED
    BY <1>8, <2>3, <2>4, ReadingStep DEF Return
<1>9. CASE BaselineFails
  <2>1. Types' /\ Read' = Read
    BY <1>9 DEF BaselineFails, BInv, Types, TypeOK, BaselinePlaces, Read
  <2> QED
    BY <1>9, <2>1
       DEF BaselineFails, BInv, RecordsFirst, SettingsHeld, RtlHeld, ReuseIsLate,
           ReusedHeld, ReusedFromOneInput, Complete
<1> QED
  BY <1>1, <1>2, <1>3, <1>4, <1>5, <1>6, <1>7, <1>8, <1>9 DEF RunBaseline

\* reuse_baseline: its checks establish what the run was measured on.
LEMMA ReuseStep == BInv /\ ReuseBaseline => BInv'
<1> SUFFICES ASSUME BInv, ReuseBaseline PROVE BInv'
  OBVIOUS
<1> USE DEF Run, Mine, files
<1>0. /\ Types /\ run \in Runs /\ settings \in Settings /\ rtl \in Rtls
      /\ result \in [Processes -> Results \cup {None}]
  BY DEF BInv, Types, TypeOK
<1>1. Read' = Read /\ UNCHANGED Run /\ expects' \in [Processes -> Declarations]
  BY DEF ReuseBaseline, StartReuse, CheckSettings, CheckRtl, Load, ReturnReused, Read, BInv,
         Types, TypeOK
<1>2. RecordsFirst'
  BY <1>1 DEF BInv, RecordsFirst
<1>3. CASE StartReuse \/ CheckSettings \/ CheckRtl \/ Load
  <2>1. UNCHANGED result /\ rpc' \in ReusePlaces
    BY <1>3 DEF StartReuse, CheckSettings, CheckRtl, Load, ReusePlaces
  <2>2. Types' /\ ReusedHeld'
    BY <1>1, <2>1 DEF BInv, Types, TypeOK, ReusedHeld, ReusedFromOneInput
  <2>3. ReuseIsLate'
    BY <1>1, <1>3, <2>1
       DEF StartReuse, CheckSettings, CheckRtl, Load, BInv, ReuseIsLate, Complete
  <2>4. SettingsHeld'
    BY <1>0, <1>1, <1>3, DigestOf
       DEF StartReuse, CheckSettings, CheckRtl, Load, BInv, SettingsHeld
  <2>5. RtlHeld'
    BY <1>0, <1>1, <1>3, NoneAssumption
       DEF StartReuse, CheckSettings, CheckRtl, Load, BInv, RtlHeld, RtlMatches
  <2> QED
    BY <1>2, <2>2, <2>3, <2>4, <2>5 DEF BInv
<1>4. CASE ReturnReused
  <2> DEFINE from == run.timing.from \cup run.metadata
  <2>1. Complete /\ run.timing \in Timings /\ run.metadata # {} /\ from \in Inputs
    BY <1>0, <1>4 DEF ReturnReused, BInv, ReuseIsLate, Complete, Runs, Timings, Inputs
  <2>2. ~Reverts => \A i \in from : i[1] = run.lock /\ SettingsHash[i[2]] = run.manifest
    BY <1>4, <2>1 DEF ReturnReused, BInv, SettingsHeld, RtlHeld, Read, From, Complete
  <2>3. [settings_hash |-> SettingsHash[settings], from |-> from, clocks |-> run.timing.clocks]
          \in Results
    BY <1>0, <2>1, DigestOf DEF Results, Timings
  <2>4. /\ result' \in [Processes -> Results \cup {None}]
        /\ result'.reuse.from = from
    BY <1>0, <1>4, <2>3 DEF ReturnReused, Processes
  <2>5. Types'
    BY <1>1, <1>4, <2>4 DEF ReturnReused, BInv, Types, TypeOK, ReusePlaces
  <2>6. ReusedHeld'
    BY <1>1, <2>2, <2>4 DEF ReusedHeld, ReusedFromOneInput
  <2>7. ReuseIsLate' /\ SettingsHeld' /\ RtlHeld'
    BY <1>1, <1>4 DEF ReturnReused, BInv, ReuseIsLate, SettingsHeld, RtlHeld, Complete
  <2> QED
    BY <1>2, <2>5, <2>6, <2>7 DEF BInv
<1> QED
  BY <1>3, <1>4 DEF ReuseBaseline

\* A step of the loop changes the one candidate.
LoopSteps(p) ==
    BuildCandidate(p) \/ MeasureCandidate(p) \/ ProveCandidate(p) \/ CompareCandidate(p)

LEMMA LoopChange ==
  ASSUME TypeOK, NEW p \in Processes, LoopSteps(p)
  PROVE  \E c \in Candidates : loop' = [loop EXCEPT ![p] = c]
<1>0. loop \in [Processes -> Candidates] /\ settings \in Settings
  BY DEF TypeOK, Loops
<1>1. loop[p] \in Candidates
  BY <1>0
<1>2. NoCandidate \in Candidates
  BY DEF NoCandidate, Candidates
<1>3. CASE BuildCandidate(p)
  <2>1. PICK d \in Rtls : loop' = [loop EXCEPT ![p].design = d]
    BY <1>3 DEF BuildCandidate
  <2>2. [loop[p] EXCEPT !.design = d] \in Candidates
    BY <1>1 DEF Candidates
  <2> QED
    BY <1>0, <2>1, <2>2
<1>4. CASE MeasureCandidate(p)
  <2>1. [loop[p] EXCEPT !.ran_under = @ \cup {settings}] \in Candidates
    BY <1>0, <1>1 DEF Candidates
  <2> QED
    BY <1>0, <1>4, <2>1 DEF MeasureCandidate
<1>5. CASE ProveCandidate(p)
  <2>1. [loop[p] EXCEPT !.proved = TRUE] \in Candidates
    BY <1>1 DEF Candidates
  <2> QED
    BY <1>0, <1>2, <1>5, <2>1 DEF ProveCandidate
<1>6. CASE CompareCandidate(p)
  <2>1. [loop[p] EXCEPT !.comparable = TRUE] \in Candidates
    BY <1>1 DEF Candidates
  <2> QED
    BY <1>0, <1>2, <1>6, <2>1 DEF CompareCandidate
<1> QED
  BY <1>3, <1>4, <1>5, <1>6 DEF LoopSteps

\* The loop of a process leaves the run and the result alone.
LEMMA LoopStep ==
  ASSUME BInv, NEW p \in Processes, LoopSteps(p)
  PROVE  BInv'
<1>1. UNCHANGED Stages /\ Read' = Read
  BY DEF LoopSteps, BuildCandidate, MeasureCandidate, ProveCandidate, CompareCandidate,
         Stages, Read
<1>2. loop' \in Loops
  BY LoopChange DEF BInv, Types, TypeOK, Loops
<1> QED
  BY <1>1, <1>2 DEF Stages, files, BInv, Types, TypeOK, RecordsFirst, SettingsHeld, RtlHeld,
                    ReuseIsLate, ReusedHeld, ReusedFromOneInput, Complete

\* BInv holds in every reachable state.
LEMMA BaselineInvariance == Spec => []BInv
<1>1. BInv /\ [Next]_vars => BInv'
  <2> SUFFICES ASSUME BInv, [Next]_vars PROVE BInv'
    OBVIOUS
  <2>1. CASE UNCHANGED vars
    BY <2>1 DEF vars, files, BInv, Types, TypeOK, RecordsFirst, SettingsHeld, RtlHeld,
                ReuseIsLate, ReusedHeld, ReusedFromOneInput, Complete, Read
  <2> QED
    BY <2>1, RunStep, ReuseStep, LoopStep, EditStep DEF Next, LoopSteps
<1> QED
  BY <1>1, BaselineInit, PTL DEF Spec

\* Type correctness of the two processes and of the run directory.
THEOREM BaselineTypes == Spec => []TypeOK
<1>1. BInv => TypeOK
  BY DEF BInv, Types
<1> QED
  BY <1>1, BaselineInvariance, PTL

\* What a reuse takes over was measured on the recorded RTL under the recorded
\* settings, however the files were edited meanwhile (pipeline.py:182-197).
THEOREM ReuseIsOfOnePiece == ASSUME ~Reverts PROVE Spec => []ReusedFromOneInput
<1>1. BInv => ReusedFromOneInput
  BY DEF BInv, ReusedHeld
<1> QED
  BY <1>1, BaselineInvariance, PTL
-----------------------------------------------------------------------------
\* The clocks of a run are looked at before its timing is saved, and a process
\* knows those it read when it started.
ClockedInv ==
    /\ run.timing # None /\ expects.fresh # {} => run.timing.clocks = expects.fresh
    /\ BaselineHasItsClocks

LEMMA ResultsAreClocked ==
  ASSUME BInv, ClockedInv, NEW p \in Processes,
         run.timing # None, UNCHANGED <<run, expects>>,
         result' = [result EXCEPT ![p] =
                      [settings_hash |-> SettingsHash[settings],
                       from |-> run.timing.from \cup run.metadata,
                       clocks |-> run.timing.clocks]]
  PROVE  ClockedInv'
<1> DEFINE new == [settings_hash |-> SettingsHash[settings],
                   from |-> run.timing.from \cup run.metadata,
                   clocks |-> run.timing.clocks]
<1>1. result \in [Processes -> Results \cup {None}]
  BY DEF BInv, Types, TypeOK
<1>2. expects.fresh # {} => new.clocks = expects.fresh
  BY DEF ClockedInv
<1>3. result' = [result EXCEPT ![p] = new]
  OBVIOUS
<1> HIDE DEF new
<1>4. \A q \in Processes : result'[q] = IF q = p THEN new ELSE result[q]
  BY <1>1, <1>3
<1> QED
  BY <1>2, <1>4 DEF ClockedInv, BaselineHasItsClocks

\* As long as the manifest declares the clocks it did when the baseline was
\* measured, none, fresh or reused, has others, however the settings are edited,
\* and edited back, meanwhile (pipeline.py:124-133).
THEOREM BaselinesHaveClocks == Spec => []BaselineHasItsClocks
<1>1. Init => ClockedInv
  BY DEF Init, ClockedInv, BaselineHasItsClocks
<1>2. BInv /\ ClockedInv /\ [Next]_vars => ClockedInv'
  <2> SUFFICES ASSUME BInv, ClockedInv, [Next]_vars PROVE ClockedInv'
    OBVIOUS
  <2>0. run \in Runs /\ expects \in [Processes -> Declarations]
    BY DEF BInv, Types, TypeOK
  <2>1. CASE SaveParsed
    <3>1. /\ UNCHANGED <<result, expects>>
          /\ \/ run'.timing = run.timing
             \/ expects.fresh # {} => run'.timing.clocks = expects.fresh
      BY <2>0, <2>1 DEF SaveParsed, ClockProblems, Runs, Other
    <3> QED
      BY <3>1 DEF ClockedInv, BaselineHasItsClocks
  <2>2. CASE Return
    <3>1. run.timing # None
      BY <2>2 DEF Return, BInv, RecordsFirst
    <3> QED
      BY <2>2, <3>1, ResultsAreClocked DEF Return, Other, Processes
  <2>3. CASE ReturnReused
    <3>1. run.timing # None
      BY <2>3 DEF ReturnReused, BInv, ReuseIsLate, Complete
    <3> QED
      BY <2>3, <3>1, ResultsAreClocked DEF ReturnReused, Run, Mine, Processes
  <2>4. CASE UNCHANGED <<result, expects>> /\ run'.timing = run.timing
    BY <2>4 DEF ClockedInv, BaselineHasItsClocks
  <2>5. CASE CreateRun \/ WriteLock \/ SavePaths \/ Orfs
    BY <2>0, <2>4, <2>5 DEF CreateRun, WriteLock, SavePaths, Orfs, Runs, Other
  <2>6. CASE Synth \/ Sta \/ BaselineFails
    BY <2>4, <2>6 DEF Synth, Sta, BaselineFails, Other
  <2>7. CASE StartReuse
    <3>1. UNCHANGED <<run, result>> /\ result.reuse = None
      BY <2>7 DEF StartReuse, Run, BInv, ReuseIsLate
    <3>2. expects'.fresh = expects.fresh
      BY <2>0, <2>7 DEF StartReuse, Processes
    <3> QED
      BY <3>1, <3>2 DEF ClockedInv, BaselineHasItsClocks, Processes
  <2>8. CASE CheckSettings \/ CheckRtl \/ Load
    BY <2>4, <2>8 DEF CheckSettings, CheckRtl, Load, Run, Mine
  <2>9. CASE \E p \in Processes : LoopSteps(p)
    BY <2>4, <2>9 DEF LoopSteps, BuildCandidate, MeasureCandidate, ProveCandidate,
                      CompareCandidate, Stages
  <2>10. CASE EditSettings \/ EditRtl \/ UNCHANGED vars
    BY <2>4, <2>10 DEF EditSettings, EditRtl, Else, vars
  <2> QED
    BY <2>1, <2>2, <2>3, <2>5, <2>6, <2>7, <2>8, <2>9, <2>10
       DEF Next, RunBaseline, ReuseBaseline, LoopSteps
<1>3. ClockedInv => BaselineHasItsClocks
  BY DEF ClockedInv
<1> QED
  BY <1>1, <1>2, <1>3, BaselineInvariance, PTL DEF Spec
=============================================================================
