---------------------------- MODULE PatcherProofs ----------------------------
(***************************************************************************)
(* What the request shows and what the patcher and the validator promise   *)
(* about files, for any tree of sources, any diff and any number of files: *)
(* what is protected stays as it is, the checks of the request, the        *)
(* validator and the patcher agree, the files of an admitted patch are     *)
(* connected, and the line a path is blamed on is shown.  A candidate is   *)
(* within the budget, and made of the lines its patch's hash tells.        *)
(*                                                                         *)
(* Much of it needs induction: over the rounds of a search, and over the   *)
(* sequences the folds of the request go through.  The library's induction *)
(* theorems take an operator, so it is stated here for sets: the least     *)
(* counterexample comes from the well-foundedness of Nat.  A fold of the   *)
(* community modules is chosen, as what satisfies an equation; FoldExists  *)
(* says that something does, and FoldRuns what it then is.                 *)
(*                                                                         *)
(* First the patcher, then folds, the source map, the scan, the selection  *)
(* and the slices; then the candidate: its distance from the sources and   *)
(* sums, hunks as they are applied, the budget and the hash.               *)
(***************************************************************************)
EXTENDS Patcher, FiniteSetTheorems, SequenceTheorems, TLAPS

\* The order of the natural numbers, as a set of pairs
NatLess == {p \in Nat \X Nat : p[1] < p[2]}

\* A set of natural numbers has a least element.
LEMMA LeastNatural ==
  ASSUME NEW T \in SUBSET Nat, T # {}
  PROVE  \E m \in T : \A k \in T : m <= k
<1>1. IsWellFoundedOn(NatLess, Nat)
  <2>1. NatLess = OpToRel(<, Nat)
    BY DEF NatLess, OpToRel
  <2> QED
    BY <2>1, NatLessThanWellFounded
<1>2. PICK x \in T : \A y \in T : ~ (<<y, x>> \in NatLess)
  BY <1>1, WFMin
<1>3. ASSUME NEW k \in T PROVE x <= k
  <2>1. <<k, x>> \in Nat \X Nat /\ <<k, x>>[1] = k /\ <<k, x>>[2] = x
    OBVIOUS
  <2>2. ~(k < x)
    BY <1>2, <2>1 DEF NatLess
  <2> QED
    BY <2>2
<1> QED
  BY <1>3

\* Induction over the natural numbers, for a set
LEMMA SetInduction ==
  ASSUME NEW T \in SUBSET Nat, 0 \in T, \A n \in T : n + 1 \in T
  PROVE  T = Nat
<1> SUFFICES ASSUME Nat \ T # {} PROVE FALSE
  OBVIOUS
<1>1. PICK m \in Nat \ T : \A k \in Nat \ T : m <= k
  BY LeastNatural
<1>2. m # 0 /\ m - 1 \in T
  BY <1>1
<1> QED
  BY <1>1, <1>2

\* A function may be defined by what it is at 0 and a step from n to n + 1.
LEMMA IterationExists ==
  ASSUME NEW S, NEW start \in S, NEW step \in [S -> S]
  PROVE  \E g \in [Nat -> S] : g[0] = start /\ \A n \in Nat : g[n + 1] = step[g[n]]
<1> DEFINE Upto(n) == {h \in [0 .. n -> S] :
                         h[0] = start /\ \A k \in 0 .. n - 1 : h[k + 1] = step[h[k]]}
<1>1. \A n \in Nat : Upto(n) # {}
  <2> DEFINE T == {n \in Nat : Upto(n) # {}}
  <2>1. 0 \in T
    <3>1. [k \in 0 .. 0 |-> start] \in Upto(0)
      OBVIOUS
    <3> QED
      BY <3>1
  <2>2. ASSUME NEW n \in T PROVE n + 1 \in T
    <3>1. PICK h \in Upto(n) : TRUE
      OBVIOUS
    <3> DEFINE i == [k \in 0 .. n + 1 |-> IF k = n + 1 THEN step[h[n]] ELSE h[k]]
    <3>2. h \in [0 .. n -> S] /\ h[0] = start /\ \A k \in 0 .. n - 1 : h[k + 1] = step[h[k]]
      OBVIOUS
    <3>3. i \in [0 .. n + 1 -> S] /\ i[0] = start
      BY <3>2
    <3>4. ASSUME NEW k \in 0 .. (n + 1) - 1 PROVE i[k + 1] = step[i[k]]
      BY <3>2
    <3>5. i \in Upto(n + 1)
      BY <3>3, <3>4
    <3>6. n + 1 \in Nat
      OBVIOUS
    <3> HIDE DEF Upto, i
    <3> QED
      BY <3>5, <3>6
  <2> HIDE DEF T
  <2>3. T \subseteq Nat
    BY DEF T
  <2>4. T = Nat
    BY <2>1, <2>2, <2>3, SetInduction
  <2> QED
    BY <2>4 DEF T
<1>2. \A m, n \in Nat : \A h \in Upto(m), i \in Upto(n) :
         \A k \in Nat : k <= m /\ k <= n => h[k] = i[k]
  <2> SUFFICES ASSUME NEW m \in Nat, NEW n \in Nat, NEW h \in Upto(m), NEW i \in Upto(n)
               PROVE  \A k \in Nat : k <= m /\ k <= n => h[k] = i[k]
    OBVIOUS
  <2> DEFINE T == {k \in Nat : k <= m /\ k <= n => h[k] = i[k]}
  <2>1. 0 \in T
    OBVIOUS
  <2>2. ASSUME NEW k \in T PROVE k + 1 \in T
    <3> SUFFICES ASSUME k + 1 <= m, k + 1 <= n PROVE h[k + 1] = i[k + 1]
      OBVIOUS
    <3>1. h[k] = i[k] /\ k \in 0 .. m - 1 /\ k \in 0 .. n - 1
      OBVIOUS
    <3> QED
      BY <3>1
  <2> HIDE DEF T
  <2>3. T \subseteq Nat
    BY DEF T
  <2>4. T = Nat
    BY <2>1, <2>2, <2>3, SetInduction
  <2> QED
    BY <2>4 DEF T
<1> DEFINE G(n) == CHOOSE h \in Upto(n) : TRUE
           g == [n \in Nat |-> G(n)[n]]
<1>3. \A n \in Nat : G(n) \in Upto(n)
  BY <1>1
<1> HIDE DEF G
<1>4. \A n \in Nat : G(n) \in [0 .. n -> S] /\ G(n)[0] = start
                      /\ \A k \in 0 .. n - 1 : G(n)[k + 1] = step[G(n)[k]]
  BY <1>3
<1>5. g \in [Nat -> S] /\ g[0] = start
  BY <1>4
<1>6. ASSUME NEW n \in Nat PROVE g[n + 1] = step[g[n]]
  <2>1. n + 1 \in Nat /\ n \in 0 .. (n + 1) - 1 /\ n <= n + 1 /\ n <= n
    OBVIOUS
  <2>2. G(n + 1)[n + 1] = step[G(n + 1)[n]]
    BY <1>4, <2>1
  <2>3. G(n + 1)[n] = G(n)[n]
    <3> HIDE DEF Upto
    <3> QED
      BY <1>2, <1>3, <2>1
  <2> QED
    BY <2>1, <2>2, <2>3
<1> QED
  BY <1>5, <1>6
----------------------------------------------------------------------------
\* The rounds of the search
LEMMA SearchRounds ==
  ASSUME NEW files, files # {}
  PROVE  /\ Search(files)[0] = {CHOOSE f \in files : TRUE}
         /\ \A n \in Nat : Search(files)[n + 1] = Around(files, Search(files)[n])
<1> DEFINE start == {CHOOSE f \in files : TRUE}
           step == [V \in SUBSET files |-> Around(files, V)]
           Is(v) == v = [n \in Nat |-> IF n = 0 THEN start ELSE Around(files, v[n - 1])]
<1>1. start \in SUBSET files /\ step \in [SUBSET files -> SUBSET files]
  BY DEF Around
<1>2. \E v : Is(v)
  <2>1. PICK g \in [Nat -> SUBSET files] :
           g[0] = start /\ \A n \in Nat : g[n + 1] = step[g[n]]
    <3> HIDE DEF start, step
    <3> QED
      BY <1>1, IterationExists
  <2>2. \A n \in Nat : n # 0 => g[n] = Around(files, g[n - 1])
    <3> SUFFICES ASSUME NEW n \in Nat, n # 0 PROVE g[n] = Around(files, g[n - 1])
      OBVIOUS
    <3>1. n - 1 \in Nat /\ (n - 1) + 1 = n
      OBVIOUS
    <3> QED
      BY <2>1, <3>1
  <2>3. Is(g)
    BY <2>1, <2>2
  <2> QED
    BY <2>3
<1>3. Search(files) = CHOOSE v : Is(v)
  BY DEF Search
<1>4. Is(Search(files))
  BY <1>2, <1>3
<1> QED
  BY <1>4

\* A search that reaches all files crosses every line between them.
LEMMA ConnectedAcross ==
  ASSUME NEW files, IsFiniteSet(files), FilesConnected(files),
         NEW part \in SUBSET files, part # {}, part # files
  PROVE  \E f \in part, g \in files \ part : Joined(shown.connection_map, f, g)
<1> SUFFICES ASSUME \A f \in part, g \in files \ part : ~Joined(shown.connection_map, f, g)
             PROVE  FALSE
  OBVIOUS
<1>1. \A f, g : Joined(shown.connection_map, f, g) <=> Joined(shown.connection_map, g, f)
  <2>1. \A f, g : {f, g} = {g, f}
    OBVIOUS
  <2> QED
    BY <2>1 DEF Joined
<1> DEFINE start == CHOOSE f \in files : TRUE
           side == IF start \in part THEN part ELSE files \ part
           T == {n \in Nat : Search(files)[n] \subseteq side}
<1>2. start \in side
  OBVIOUS
<1>3. \A V \in SUBSET side : Around(files, V) \subseteq side
  BY <1>1 DEF Around
<1>4. 0 \in T
  <2>1. Search(files)[0] = {start}
    BY SearchRounds
  <2> HIDE DEF side, start
  <2> QED
    BY <1>2, <2>1
<1>5. ASSUME NEW n \in T PROVE n + 1 \in T
  <2>1. Search(files)[n + 1] = Around(files, Search(files)[n])
    BY SearchRounds
  <2>2. Search(files)[n] \in SUBSET side
    OBVIOUS
  <2> HIDE DEF side
  <2>3. Around(files, Search(files)[n]) \subseteq side
    BY <1>3, <2>2
  <2> QED
    BY <2>1, <2>3
<1>6. T \subseteq Nat
  OBVIOUS
<1>7. Cardinality(files) \in Nat
  BY FS_CardinalityType
<1>8. Cardinality(files) \in T
  <2> HIDE DEF T
  <2> QED
    BY <1>4, <1>5, <1>6, <1>7, SetInduction
<1> QED
  BY <1>8 DEF FilesConnected
----------------------------------------------------------------------------
(***************************************************************************)
(* The checks of the paths, one after the other                            *)
(***************************************************************************)

\* Slices that the model may edit are of files it may edit.
Honest(slices) == \A s \in slices : s.editable => MayEdit(s.file)

\* What the checks so far say of the files
Checked ==
    /\ pc \in {"hierarchy", "slices"} => \E S : rtl_context \in Seq(S) /\ Honest(S)
    /\ pc = "propose" => Honest(Range(rtl_context))
    /\ pc \in {"validate", "parse", "paths"} => \A f \in shown.files : MayEdit(f)
    /\ pc = "parse" => FilesAdmitted(DiffFiles)
    /\ pc = "paths" => DiffFiles \subseteq shown.files
    /\ pc \in {"budget", "read", "hunks", "identifiers", "write"} =>
         \A f \in Touched : ~IsProtected(f) /\ IsEditable(f)

PInv == diff \in Seq(Hunks) /\ Checked

\* Whether a file may be edited is settled by the manifest.
LEMMA SameManifest ==
  ASSUME UNCHANGED editable
  PROVE  /\ \A f : (IsEditable(f)' <=> IsEditable(f)) /\ (IsProtected(f)' <=> IsProtected(f))
         /\ \A f : MayEdit(f)' <=> MayEdit(f)
         /\ \A S : Honest(S)' <=> Honest(S)
<1>1. \A f : (IsEditable(f)' <=> IsEditable(f)) /\ (IsProtected(f)' <=> IsProtected(f))
  BY DEF IsEditable, IsProtected
<1>2. \A f : MayEdit(f)' <=> MayEdit(f)
  BY <1>1 DEF MayEdit
<1> QED
  BY <1>1, <1>2 DEF Honest

\* A slice says of its file whether it may be edited.
LEMMA SliceIsHonest ==
  ASSUME NEW file, NEW lines
  PROVE  Slice(file, lines).editable => MayEdit(Slice(file, lines).file)
BY DEF Slice

\* A slice more
LEMMA CutSlicePreserves == PInv /\ CutSlice /\ UNCHANGED patchVars => PInv'
<1> SUFFICES ASSUME PInv, CutSlice, UNCHANGED patchVars PROVE PInv'
  OBVIOUS
<1>1. PICK S : rtl_context \in Seq(S) /\ Honest(S)
  BY DEF CutSlice, PInv, Checked
<1>2. PICK x : rtl_context' = Append(rtl_context, x) /\ (x.editable => MayEdit(x.file))
  BY SliceIsHonest DEF CutSlice
<1>3. Append(rtl_context, x) \in Seq(S \cup {x})
  <2>1. rtl_context \in Seq(S \cup {x}) /\ x \in S \cup {x}
    BY <1>1
  <2> QED
    BY <2>1, AppendProperties
<1>4. Honest(S \cup {x})'
  BY <1>1, <1>2, SameManifest DEF CutSlice, Honest
<1> QED
  BY <1>2, <1>3, <1>4 DEF CutSlice, PInv, Checked, patchVars

\* The request is complete.
LEMMA BuildRequestPreserves == PInv /\ BuildRequest /\ UNCHANGED patchVars => PInv'
<1> SUFFICES ASSUME PInv, BuildRequest, UNCHANGED patchVars PROVE PInv'
  OBVIOUS
<1>1. PICK S : rtl_context \in Seq(S) /\ Honest(S)
  BY DEF BuildRequest, PInv, Checked
<1>2. Honest(Range(rtl_context))
  BY <1>1 DEF Honest, Range
<1>3. Honest(Range(Fallback))
  <2>1. PICK link, lines :
          Fallback = [k \in DOMAIN link |-> Slice(link[k].file, lines[k])]
    <3> DEFINE link == SetToSeq({l \in DominantSource(path) : l.file \in Files})
               lines == [k \in DOMAIN link |-> {link[k].first, link[k].last}]
    <3>1. Fallback = [k \in DOMAIN link |-> Slice(link[k].file, lines[k])]
      BY DEF Fallback
    <3> HIDE DEF link, lines
    <3> QED
      BY <3>1
  <2> QED
    BY <2>1, SliceIsHonest DEF Honest, Range
<1>4. Honest(Range(rtl_context'))
  BY <1>2, <1>3 DEF BuildRequest
<1>5. Honest(Range(rtl_context))'
  BY <1>4, SameManifest DEF BuildRequest, Range
<1> QED
  BY <1>5 DEF BuildRequest, PInv, Checked, patchVars

\* Two files that are joined stand on either side of a line between them.
LEMMA JoinedAcross ==
  ASSUME NEW files, NEW part \in SUBSET files, NEW f \in part, NEW g \in files \ part,
         Joined(shown.connection_map, f, g)
  PROVE  \E e \in shown.connection_map :
            e.complete /\ Cardinality(e.files \cap part) = 1
              /\ Cardinality(e.files \cap (files \ part)) = 1
<1>1. PICK e \in shown.connection_map : e.complete /\ e.files = {f, g}
  BY DEF Joined
<1>2. e.files \cap part = {f} /\ e.files \cap (files \ part) = {g}
  BY <1>1
<1> QED
  BY <1>1, <1>2, FS_Singleton

\* A diff names finitely many files.
LEMMA DiffIsFinite == ASSUME diff \in Seq(Hunks) PROVE IsFiniteSet(DiffFiles)
<1> DEFINE n == Len(diff)
           named == {k \in 1 .. n : diff[k].prefix = "b"}
           file == [k \in named |-> diff[k].file]
<1>1. n \in Nat /\ DOMAIN diff = 1 .. n
  OBVIOUS
<1>2. IsFiniteSet(named)
  <2>1. IsFiniteSet(1 .. n)
    BY <1>1, FS_Interval
  <2>2. named \in SUBSET (1 .. n)
    OBVIOUS
  <2> HIDE DEF named, n
  <2> QED
    BY <2>1, <2>2, FS_Subset
<1>3. DiffFiles = {diff[k].file : k \in named}
  BY <1>1 DEF DiffFiles, Named, Range
<1>4. file \in Surjection(named, DiffFiles)
  BY <1>3 DEF Surjection
<1> QED
  BY <1>2, <1>4, FS_Surjection

\* What was admitted is connected.
LEMMA AdmittedIsConnected == PInv => AdmittedFilesAreConnected
<1> SUFFICES ASSUME PInv, pc = "parse",
                    NEW part \in (SUBSET DiffFiles) \ {{}, DiffFiles}
             PROVE  \E e \in shown.connection_map :
                       e.complete /\ Cardinality(e.files \cap part) = 1
                         /\ Cardinality(e.files \cap (DiffFiles \ part)) = 1
  BY DEF AdmittedFilesAreConnected
<1>1. IsFiniteSet(DiffFiles) /\ FilesAdmitted(DiffFiles)
  BY DiffIsFinite DEF PInv, Checked
<1>2. Cardinality(DiffFiles) > 1
  <2>1. Cardinality(DiffFiles) \in Nat /\ DiffFiles # {}
    BY <1>1, FS_CardinalityType
  <2>2. Cardinality(DiffFiles) # 0
    BY <1>1, <2>1, FS_EmptySet
  <2>3. Cardinality(DiffFiles) # 1
    <3> SUFFICES ASSUME NEW x, DiffFiles = {x} PROVE FALSE
      BY <1>1, FS_Singleton
    <3> QED
      OBVIOUS
  <2> QED
    BY <2>1, <2>2, <2>3
<1>3. PICK f \in part, g \in DiffFiles \ part : Joined(shown.connection_map, f, g)
  BY <1>1, <1>2, ConnectedAcross DEF FilesAdmitted
<1> QED
  BY <1>3, JoinedAcross

\* The model answers: the request was honest, and nothing is touched yet.
LEMMA ProposePreserves == PInv /\ Propose => PInv'
<1> SUFFICES ASSUME PInv, Propose PROVE PInv'
  OBVIOUS
<1>1. \A f \in shown'.files : MayEdit(f)
  BY DEF Propose, Handed, ContextFiles, PInv, Checked, Honest
<1>2. diff' \in Seq(Hunks)
  <2>1. PICK n \in 0 .. MaxHunks : diff' \in [1 .. n -> Hunks]
    BY DEF Propose
  <2>2. n \in Nat
    OBVIOUS
  <2> QED
    BY <2>1, <2>2
<1> QED
  BY <1>1, <1>2, SameManifest DEF Propose, Go, PInv, Checked

\* The validator and the parser
LEMMA AdmissionPreserves == PInv /\ (Validate \/ ParseDiff) => PInv'
<1> SUFFICES ASSUME PInv, Validate \/ ParseDiff PROVE PInv'
  OBVIOUS
<1>1. UNCHANGED <<editable, shown, diff>>
  BY DEF Validate, ParseDiff, Keep, requestVars, patchVars
<1>2. DiffFiles' = DiffFiles
  BY <1>1 DEF DiffFiles, Named, Range
<1>3. FilesAdmitted(DiffFiles)' <=> FilesAdmitted(DiffFiles)
  BY <1>1, <1>2 DEF FilesAdmitted, FilesConnected, Search, Around, Joined
<1>4. pc' = "parse" => pc = "validate" /\ FilesAdmitted(DiffFiles)
  BY DEF Validate, ParseDiff, Go
<1>5. pc' = "paths" => pc = "parse" /\ DiffFiles \subseteq shown.files
  BY DEF Validate, ParseDiff, Go, PInv, Checked, FilesAdmitted
<1>6. pc' \in {"parse", "paths", "invalid", "rejected"}
  BY DEF Validate, ParseDiff, Go
<1> QED
  BY <1>1, <1>2, <1>3, <1>4, <1>5, <1>6, SameManifest DEF PInv, Checked

\* From the check of the paths on, what is touched may be.
LEMMA PatchingPreserves ==
  PInv /\ (RefusePath \/ PathsAllowed \/ CheckBudget \/ ReadSources \/ PatchHunk
             \/ NoMatch \/ Patched \/ CheckIdentifiers \/ WriteCandidate) => PInv'
<1> SUFFICES ASSUME PInv, RefusePath \/ PathsAllowed \/ CheckBudget \/ ReadSources
                            \/ PatchHunk \/ NoMatch \/ Patched \/ CheckIdentifiers
                            \/ WriteCandidate
             PROVE  PInv'
  OBVIOUS
<1> USE DEF RefusePath, PathsAllowed, CheckBudget, ReadSources, PatchHunk, NoMatch, Patched,
            CheckIdentifiers, WriteCandidate, Go
<1>1. UNCHANGED <<editable, diff, hunks>>
  BY DEF Keep, requestVars, patchVars
<1>2. pc' \in {"budget", "read", "hunks", "identifiers", "write"} =>
        \A f \in Touched : ~IsProtected(f) /\ IsEditable(f)
  BY DEF PInv, Checked
<1>3. pc' \in {"budget", "read", "hunks", "identifiers", "write", "protected", "rejected",
               "applied"}
  OBVIOUS
<1>4. Touched' = Touched
  BY <1>1 DEF Touched, Named, Range
<1> QED
  BY <1>1, <1>2, <1>3, <1>4, SameManifest DEF PInv, Checked

\* Edits of the sources, and steps of the scan, are no answer of a check.
LEMMA OthersPreserve ==
  PInv /\ (((ScanHierarchy \/ EditWhileBuilding) /\ UNCHANGED patchVars)
              \/ EditSource \/ UNCHANGED vars) => PInv'
<1> SUFFICES ASSUME PInv, ((ScanHierarchy \/ EditWhileBuilding) /\ UNCHANGED patchVars)
                            \/ EditSource \/ UNCHANGED vars
             PROVE  PInv'
  OBVIOUS
<1>1. UNCHANGED <<editable, rtl_context, shown, diff, hunks>>
  BY DEF ScanHierarchy, EditWhileBuilding, EditSource, vars, requestVars, patchVars
<1>2. \/ pc' = pc
      \/ pc = "hierarchy" /\ pc' = "slices"
  BY DEF ScanHierarchy, EditWhileBuilding, EditSource, vars
<1>3. DiffFiles' = DiffFiles /\ Touched' = Touched /\ Range(rtl_context)' = Range(rtl_context)
  BY <1>1 DEF DiffFiles, Touched, Named, Range
<1>4. FilesAdmitted(DiffFiles)' <=> FilesAdmitted(DiffFiles)
  BY <1>1, <1>3 DEF FilesAdmitted, FilesConnected, Search, Around, Joined
<1>5. (\E S : rtl_context \in Seq(S) /\ Honest(S)) =>
        \E S : rtl_context' \in Seq(S) /\ Honest(S)'
  BY <1>1, SameManifest
<1> QED
  BY <1>1, <1>2, <1>3, <1>4, <1>5, SameManifest DEF PInv, Checked

\* The checks say so in every reachable state.
LEMMA ChecksHold == Spec => []PInv
<1>1. Init => PInv
  <2> SUFFICES ASSUME Init PROVE PInv
    OBVIOUS
  <2>1. pc = "hierarchy" /\ rtl_context = <<>> /\ diff = <<>>
    BY DEF Init, RequestInit
  <2>2. rtl_context \in Seq({}) /\ Honest({})
    BY <2>1 DEF Honest
  <2> QED
    BY <2>1, <2>2 DEF PInv, Checked
<1>2. PInv /\ [Next]_vars => PInv'
  BY CutSlicePreserves, BuildRequestPreserves, ProposePreserves, AdmissionPreserves,
     PatchingPreserves, OthersPreserve DEF Next, Building, Answering
<1> QED
  BY <1>1, <1>2, PTL DEF Spec

\* The files of an admitted patch form one component of the connection map, for any
\* number of files (validator.py:95, _files_connected).
THEOREM AdmittedAreConnected == Spec => []AdmittedFilesAreConnected
BY ChecksHold, AdmittedIsConnected, PTL

\* What the model was shown as editable the patcher allows, whatever it answers
\* (request_builder.py:186, validator.py:70-76, patcher.py:169-184).
THEOREM AdmittedAreAllowed == Spec => []AdmittedPathsAreAllowed
<1>1. PInv => AdmittedPathsAreAllowed
  BY DEF PInv, Checked, AdmittedPathsAreAllowed, MayEdit, IsEditable, IsProtected
<1> QED
  BY <1>1, ChecksHold, PTL
----------------------------------------------------------------------------
(***************************************************************************)
(* The candidate tree is flat.  If the declared files have different base  *)
(* names, what ends up under the name of a file that is not touched is     *)
(* that file.                                                              *)
(***************************************************************************)
DistinctBases ==
    DOMAIN Base = Files /\ \A f, g \in Files : Base[f] = Base[g] => f = g

\* Max is the greatest of numbers that have a bound.
LEMMA MaxIsOneOfThem ==
  ASSUME NEW n \in Nat, NEW T \in SUBSET (1 .. n), T # {}
  PROVE  Max(T) \in T
<1> DEFINE D == {d \in Nat : n - d \in T}
<1>1. D \in SUBSET Nat /\ D # {}
  <2>1. PICK k \in T : TRUE
    OBVIOUS
  <2>2. n - k \in Nat /\ n - (n - k) = k
    OBVIOUS
  <2>3. n - k \in D
    BY <2>2
  <2> QED
    BY <2>3
<1>2. PICK d \in D : \A e \in D : d <= e
  <2> HIDE DEF D
  <2> QED
    BY <1>1, LeastNatural
<1>3. n - d \in T /\ d \in Nat
  OBVIOUS
<1>4. ASSUME NEW k \in T PROVE n - d >= k
  <2>1. n - k \in Nat /\ n - (n - k) = k
    OBVIOUS
  <2>2. n - k \in D
    BY <2>1
  <2>3. d <= n - k
    BY <1>2, <2>2
  <2> QED
    BY <1>3, <2>3
<1>5. \E x \in T : \A y \in T : x >= y
  BY <1>3, <1>4
<1> QED
  BY <1>5 DEF Max

\* Under the base name of a file that is not touched there is that file.
LEMMA UntouchedIsLast ==
  ASSUME DistinctBases, NEW f \in Files, f \notin Touched,
         NEW last \in Files, last \in LastUnder(Base[f])
  PROVE  last = f
<1> DEFINE under == {k \in DOMAIN FileList : Base[FileList[k]] = Base[f]}
           written == {g \in Touched : Base[g] = Base[f]}
<1>1. last \notin written
  BY DEF DistinctBases
<1>2. last = FileList[Max(under)]
  BY <1>1 DEF LastUnder
<1>3. Max(under) \in under
  <2>1. Len(FileList) \in Nat /\ DOMAIN FileList = 1 .. Len(FileList)
    BY FileListAssumption
  <2>2. under \in SUBSET (1 .. Len(FileList))
    BY <2>1
  <2>3. under # {}
    BY DEF Files, Range
  <2> HIDE DEF under
  <2> QED
    BY <2>1, <2>2, <2>3, MaxIsOneOfThem
<1>4. Base[last] = Base[f]
  BY <1>2, <1>3
<1> QED
  BY <1>4 DEF DistinctBases

\* The tree is written from what was checked.
LEMMA WriteKeepsOthers ==
  ASSUME DistinctBases, PInv, WriteCandidate
  PROVE  OthersStayAsTheyAre'
<1>1. /\ UNCHANGED <<editable, sources, hunks>>
      /\ \A f \in Touched : ~IsProtected(f) /\ IsEditable(f)
  BY DEF WriteCandidate, requestVars, PInv, Checked
<1>2. PICK last \in [Range(Base) -> Files] :
        /\ \A name \in Range(Base) : last[name] \in LastUnder(name)
        /\ tree' = [name \in Range(Base) |->
                      IF last[name] \in Touched THEN patched[last[name]]
                                               ELSE sources[last[name]]]
  BY DEF WriteCandidate
<1> SUFFICES ASSUME NEW f \in Files, f \in Protected \/ (editable # {} /\ f \notin editable)
             PROVE  tree'[Base[f]] = sources[f]
  BY <1>1 DEF OthersStayAsTheyAre
<1>3. f \notin Touched
  BY <1>1 DEF IsProtected, IsEditable
<1>4. Base[f] \in Range(Base)
  BY DEF DistinctBases, Range
<1>5. last[Base[f]] = f
  BY <1>2, <1>3, <1>4, UntouchedIsLast
<1> QED
  BY <1>2, <1>3, <1>4, <1>5

\* Whatever the diff, and whoever edits files on the way, a candidate holds the
\* protected files as they are (patcher.py:169-184, 239-248).
THEOREM ProtectedFilesStay ==
  ASSUME DistinctBases PROVE Spec => []OthersStayAsTheyAre
<1>1. Init => OthersStayAsTheyAre
  BY DEF Init, RequestInit, OthersStayAsTheyAre
<1>2. PInv /\ OthersStayAsTheyAre /\ [Next]_vars => OthersStayAsTheyAre'
  <2> SUFFICES ASSUME PInv, OthersStayAsTheyAre, [Next]_vars PROVE OthersStayAsTheyAre'
    OBVIOUS
  <2>1. CASE UNCHANGED vars
    BY <2>1 DEF vars, requestVars, patchVars, OthersStayAsTheyAre
  <2>2. CASE WriteCandidate
    BY <2>2, WriteKeepsOthers
  <2>3. CASE Next /\ ~WriteCandidate
    <3>1. pc' # "applied"
      BY <2>3 DEF Next, Building, ScanHierarchy, CutSlice, BuildRequest, EditWhileBuilding,
                  Propose, Answering, Validate, ParseDiff, RefusePath, PathsAllowed,
                  CheckBudget, ReadSources, PatchHunk, NoMatch, Patched, CheckIdentifiers,
                  EditSource, Outcomes, Go
    <3> QED
      BY <3>1 DEF OthersStayAsTheyAre
  <2> QED
    BY <2>1, <2>2, <2>3
<1> QED
  BY <1>1, <1>2, ChecksHold, PTL DEF Spec
----------------------------------------------------------------------------
(***************************************************************************)
(* Folds: a fold is the function, chosen by MapThenFoldSet, from the parts *)
(* of a sequence to what has been computed of them.                        *)
(***************************************************************************)

\* The last of the first numbers is left out, or Max.
LEMMA MaxOfPart ==
  ASSUME NEW k \in Nat, NEW s \in SUBSET (1 .. k + 1)
  PROVE  /\ k + 1 \notin s => s \in SUBSET (1 .. k)
         /\ k + 1 \in s => Max(s) = k + 1 /\ s \ {Max(s)} \in SUBSET (1 .. k)
         /\ s # {} => Max(s) \in s
<1>1. s # {} => Max(s) \in s
  <2>1. k + 1 \in Nat
    OBVIOUS
  <2> QED
    BY <2>1, MaxIsOneOfThem
<1>2. ASSUME k + 1 \in s PROVE Max(s) = k + 1
  <2>1. \A y \in s : k + 1 >= y
    OBVIOUS
  <2>2. Max(s) \in s /\ \A y \in s : Max(s) >= y
    BY <1>2, <2>1 DEF Max
  <2>3. Max(s) \in 1 .. k + 1 /\ Max(s) >= k + 1
    BY <1>2, <2>2
  <2> QED
    BY <2>3
<1>3. ASSUME NEW j \in s, j # k + 1 PROVE j \in 1 .. k
  BY <1>3
<1> QED
  BY <1>1, <1>2, <1>3

\* What satisfies the equation of a fold: for a part of a sequence, the step from the
\* part before its last index
FoldEquation(iter, n, seq, start, step) ==
    \A s \in SUBSET (1 .. n) :
       iter[s] = IF s = {} THEN start ELSE step[<<iter[s \ {Max(s)}], seq[Max(s)]>>]

\* A fold exists: what MapThenFoldSet computes for the parts of a sequence, if its step
\* does not leave V.
LEMMA FoldExists ==
  ASSUME NEW V, NEW E, NEW n \in Nat, NEW seq \in [1 .. n -> E], NEW start \in V,
         NEW step \in [V \X E -> V]
  PROVE  \E g \in [SUBSET (1 .. n) -> V] : FoldEquation(g, n, seq, start, step)
<1> DEFINE IsFold(k, g) ==
             /\ g \in [SUBSET (1 .. k) -> V]
             /\ \A s \in SUBSET (1 .. k) :
                  g[s] = IF s = {} THEN start ELSE step[<<g[s \ {Max(s)}], seq[Max(s)]>>]
           T == {k \in Nat : k <= n => \E g : IsFold(k, g)}
<1>1. 0 \in T
  <2>1. IsFold(0, [s \in SUBSET (1 .. 0) |-> start])
    <3>1. \A s \in SUBSET (1 .. 0) : s = {}
      OBVIOUS
    <3> QED
      BY <3>1
  <2> QED
    BY <2>1
<1>2. ASSUME NEW k \in T PROVE k + 1 \in T
  <2>5. k \in Nat /\ k + 1 \in Nat /\ (k <= n => \E g : IsFold(k, g))
    <3> HIDE DEF IsFold
    <3> QED
      OBVIOUS
  <2>6. SUFFICES ASSUME k + 1 <= n PROVE \E g : IsFold(k + 1, g)
    <3> HIDE DEF IsFold
    <3> QED
      BY <2>5
  <2>1. PICK g : IsFold(k, g)
    <3> HIDE DEF IsFold
    <3> QED
      BY <2>5, <2>6
  <2> DEFINE h == [s \in SUBSET (1 .. k + 1) |->
                     IF k + 1 \in s THEN step[<<g[s \ {k + 1}], seq[k + 1]>>] ELSE g[s]]
  <2>2. seq[k + 1] \in E /\ k \in Nat
    BY <2>5, <2>6
  <2>3. ASSUME NEW s \in SUBSET (1 .. k + 1)
        PROVE  h[s] \in V /\ h[s] = IF s = {} THEN start ELSE step[<<h[s \ {Max(s)}], seq[Max(s)]>>]
    <3>1. CASE k + 1 \in s
      <4>1. Max(s) = k + 1 /\ s \ {k + 1} \in SUBSET (1 .. k)
        BY <2>2, <3>1, MaxOfPart
      <4>2. g[s \ {k + 1}] \in V
        BY <2>1, <4>1
      <4>3. h[s] = step[<<g[s \ {k + 1}], seq[k + 1]>>]
        BY <3>1
      <4>4. h[s \ {k + 1}] = g[s \ {k + 1}]
        OBVIOUS
      <4> HIDE DEF h, IsFold, T
      <4> QED
        BY <2>2, <3>1, <4>1, <4>2, <4>3, <4>4
    <3>2. CASE k + 1 \notin s
      <4>1. s \in SUBSET (1 .. k) /\ (s # {} => Max(s) \in s)
        BY <2>2, <3>2, MaxOfPart
      <4>2. g[s] \in V /\ g[s] = IF s = {} THEN start ELSE step[<<g[s \ {Max(s)}], seq[Max(s)]>>]
        BY <2>1, <4>1
      <4>3. h[s] = g[s] /\ h[s \ {Max(s)}] = g[s \ {Max(s)}]
        BY <3>2
      <4> HIDE DEF h, IsFold, T
      <4> QED
        BY <4>2, <4>3
    <3> QED
      BY <3>1, <3>2
  <2>4. IsFold(k + 1, h)
    BY <2>3
  <2> QED
    BY <2>4
<1>3. T \subseteq Nat
  OBVIOUS
<1>4. n \in T
  <2> HIDE DEF T
  <2> QED
    BY <1>1, <1>2, <1>3, SetInduction
<1>5. PICK g : IsFold(n, g)
  <2> HIDE DEF IsFold
  <2> QED
    BY <1>4
<1> QED
  BY <1>5 DEF FoldEquation

\* A fold goes through the sequence from its start to its end.
LEMMA FoldSteps ==
  ASSUME NEW n \in Nat, NEW k \in 0 .. n - 1
  PROVE  /\ 1 .. k + 1 \in SUBSET (1 .. n) /\ 1 .. k + 1 # {}
         /\ Max(1 .. k + 1) = k + 1 /\ (1 .. k + 1) \ {k + 1} = 1 .. k
<1>1. k + 1 \in 1 .. k + 1 /\ k \in Nat
  OBVIOUS
<1>2. Max(1 .. k + 1) = k + 1
  BY <1>1, MaxOfPart
<1>3. ASSUME NEW j PROVE j \in (1 .. k + 1) \ {k + 1} <=> j \in 1 .. k
  BY <1>1
<1>4. (1 .. k + 1) \ {k + 1} = 1 .. k
  BY <1>3
<1> QED
  BY <1>1, <1>2, <1>4

\* As long as it stays in V, a fold goes on by its step.
StepsWithin(iter, V, n, seq, step) ==
    \A s \in SUBSET (1 .. n) : s # {} /\ iter[s \ {Max(s)}] \in V =>
       iter[s] = step[<<iter[s \ {Max(s)}], seq[Max(s)]>>]

\* A fold that stays in V
RunsWithin(iter, V, n, seq, step) ==
    /\ \A k \in 0 .. n : iter[1 .. k] \in V
    /\ \A k \in 0 .. n - 1 : iter[1 .. k + 1] = step[<<iter[1 .. k], seq[k + 1]>>]

\* A fold that starts in V stays there.
LEMMA FoldRuns ==
  ASSUME NEW V, NEW E, NEW n \in Nat, NEW seq \in [1 .. n -> E],
         NEW step \in [V \X E -> V], NEW iter, iter[{}] \in V,
         StepsWithin(iter, V, n, seq, step)
  PROVE  RunsWithin(iter, V, n, seq, step)
<1> DEFINE T == {k \in Nat : k <= n => iter[1 .. k] \in V}
<1>1. 0 \in T
  <2>1. 1 .. 0 = {}
    OBVIOUS
  <2> QED
    BY <2>1
<1>2. ASSUME NEW k \in 0 .. n - 1, iter[1 .. k] \in V
      PROVE  iter[1 .. k + 1] \in V /\ iter[1 .. k + 1] = step[<<iter[1 .. k], seq[k + 1]>>]
  <2>1. /\ 1 .. k + 1 \in SUBSET (1 .. n) /\ 1 .. k + 1 # {}
        /\ Max(1 .. k + 1) = k + 1 /\ (1 .. k + 1) \ {k + 1} = 1 .. k
    BY FoldSteps
  <2>2. iter[1 .. k + 1] = step[<<iter[1 .. k], seq[k + 1]>>]
    BY <1>2, <2>1 DEF StepsWithin
  <2>3. seq[k + 1] \in E
    OBVIOUS
  <2> QED
    BY <1>2, <2>2, <2>3
<1>3. ASSUME NEW k \in T PROVE k + 1 \in T
  <2>1. SUFFICES ASSUME k + 1 <= n PROVE iter[1 .. k + 1] \in V
    OBVIOUS
  <2>2. k \in 0 .. n - 1 /\ iter[1 .. k] \in V
    BY <2>1
  <2> QED
    BY <1>2, <2>2
<1>4. T \subseteq Nat
  OBVIOUS
<1>5. T = Nat
  <2> HIDE DEF T
  <2> QED
    BY <1>1, <1>3, <1>4, SetInduction
<1>6. \A k \in 0 .. n : iter[1 .. k] \in V
  BY <1>5
<1>7. ASSUME NEW k \in 0 .. n - 1 PROVE iter[1 .. k + 1] = step[<<iter[1 .. k], seq[k + 1]>>]
  <2>1. k \in 0 .. n
    OBVIOUS
  <2> QED
    BY <1>2, <1>6, <2>1
<1> QED
  BY <1>6, <1>7 DEF RunsWithin
----------------------------------------------------------------------------
\* From links that the scan sees no module around come no modules.
LEMMA NoModulesAround ==
  ASSUME NEW spans, NEW n \in Nat, NEW E, \A link \in E : ModulesAt(spans, link) = {},
         Anchors(path) \in [1 .. n -> E]
  PROVE  PathModules(spans) = <<>>
<1> DEFINE V == {<<>>}
           seq == Anchors(path)
           Op(modules, link) == modules \o SetToSeq(ModulesAt(spans, link) \ Range(modules))
           step == [p \in V \X E |-> Op(p[1], p[2])]
           IsIter(iter) == iter = [s \in SUBSET DOMAIN seq |->
                                     IF s = {} THEN <<>> ELSE Op(iter[s \ {Max(s)}], seq[Max(s)])]
           iter == CHOOSE i : IsIter(i)
<1>1. ASSUME NEW link \in E PROVE Op(<<>>, link) = <<>>
  <2>1. ModulesAt(spans, link) \ Range(<<>>) = {}
    OBVIOUS
  <2>2. SetToSeq({}) = <<>>
    BY FS_EmptySet DEF SetToSeq
  <2>4. <<>> \o <<>> = <<>>
    OBVIOUS
  <2>3. Op(<<>>, link) = <<>> \o SetToSeq(ModulesAt(spans, link) \ Range(<<>>))
    OBVIOUS
  <2> HIDE DEF Op
  <2> QED
    BY <2>1, <2>2, <2>3, <2>4
<1>2. step \in [V \X E -> V] /\ <<>> \in V /\ seq \in [1 .. n -> E] /\ DOMAIN seq = 1 .. n
  BY <1>1
<1>3. ASSUME NEW v \in V, NEW e \in E PROVE step[<<v, e>>] = Op(v, e)
  OBVIOUS
<1>4. PathModules(spans) = iter[DOMAIN seq]
  BY DEF PathModules, FoldLeft, MapThenFoldSet
<1> HIDE DEF Op, V, step, seq
<1>5. PICK g \in [SUBSET (1 .. n) -> V] : FoldEquation(g, n, seq, <<>>, step)
  BY <1>2, FoldExists
<1>6. \A s \in SUBSET (1 .. n) : s # {} => Max(s) \in s
  BY MaxIsOneOfThem
<1>7. ASSUME NEW s \in SUBSET (1 .. n)
      PROVE  g[s] = IF s = {} THEN <<>> ELSE Op(g[s \ {Max(s)}], seq[Max(s)])
  BY <1>2, <1>3, <1>5, <1>6 DEF FoldEquation
<1>8. IsIter(g)
  BY <1>2, <1>5, <1>7
<1>9. IsIter(iter)
  <2> HIDE DEF IsIter
  <2> QED
    BY <1>8
<1>10. iter[{}] = <<>>
  BY <1>2, <1>9
<1>11. ASSUME NEW s \in SUBSET (1 .. n), s # {}, iter[s \ {Max(s)}] \in V
       PROVE  iter[s] = step[<<iter[s \ {Max(s)}], seq[Max(s)]>>]
  <2>1. iter[s] = Op(iter[s \ {Max(s)}], seq[Max(s)])
    BY <1>2, <1>9, <1>11
  <2>2. seq[Max(s)] \in E
    BY <1>2, <1>6, <1>11
  <2> QED
    BY <1>3, <1>11, <2>1, <2>2
<1>12. StepsWithin(iter, V, n, seq, step)
  BY <1>11 DEF StepsWithin
<1> HIDE DEF iter
<1>13. <<>> \in V
  BY <1>2
<1>14. RunsWithin(iter, V, n, seq, step)
  BY <1>2, <1>10, <1>12, <1>13, FoldRuns
<1> QED
  BY <1>2, <1>4, <1>14 DEF V, RunsWithin
----------------------------------------------------------------------------
\* Whatever a report says, the elements of a path are rows of its block.
LEMMA ElementsAreRows ==
  ASSUME NEW R, NEW rows \in Seq(R)
  PROVE  Elements(rows) \in Seq(R)
<1> DEFINE n == Len(rows)
           V == Seq(R)
           Op(elements, r) == IF r.figures = 2 /\ ~r.arrival THEN Append(elements, r) ELSE elements
           step == [p \in V \X R |-> Op(p[1], p[2])]
           IsIter(iter) == iter = [s \in SUBSET DOMAIN rows |->
                                     IF s = {} THEN <<>> ELSE Op(iter[s \ {Max(s)}], rows[Max(s)])]
           iter == CHOOSE i : IsIter(i)
<1>1. ASSUME NEW v \in V, NEW e \in R PROVE Op(v, e) \in V /\ step[<<v, e>>] = Op(v, e)
  BY AppendProperties
<1>2. step \in [V \X R -> V] /\ <<>> \in V /\ rows \in [1 .. n -> R] /\ DOMAIN rows = 1 .. n
        /\ n \in Nat
  BY <1>1
<1>3. Elements(rows) = iter[DOMAIN rows]
  BY DEF Elements, FoldLeft, MapThenFoldSet
<1> HIDE DEF Op, V, step, n
<1>4. PICK g \in [SUBSET (1 .. n) -> V] : FoldEquation(g, n, rows, <<>>, step)
  BY <1>2, FoldExists
<1>5. \A s \in SUBSET (1 .. n) : s # {} => Max(s) \in s
  BY <1>2, MaxIsOneOfThem
<1>6. ASSUME NEW s \in SUBSET (1 .. n)
      PROVE  g[s] = IF s = {} THEN <<>> ELSE Op(g[s \ {Max(s)}], rows[Max(s)])
  BY <1>1, <1>2, <1>4, <1>5 DEF FoldEquation
<1>7. IsIter(g)
  BY <1>2, <1>4, <1>6
<1>8. IsIter(iter)
  <2> HIDE DEF IsIter
  <2> QED
    BY <1>7
<1>9. iter[{}] \in V
  BY <1>2, <1>8
<1>10. ASSUME NEW s \in SUBSET (1 .. n), s # {}, iter[s \ {Max(s)}] \in V
       PROVE  iter[s] = step[<<iter[s \ {Max(s)}], rows[Max(s)]>>]
  <2>1. iter[s] = Op(iter[s \ {Max(s)}], rows[Max(s)])
    BY <1>2, <1>8, <1>10
  <2>2. rows[Max(s)] \in R
    BY <1>2, <1>5, <1>10
  <2> QED
    BY <1>1, <1>10, <2>1, <2>2
<1>11. StepsWithin(iter, V, n, rows, step)
  BY <1>10 DEF StepsWithin
<1> HIDE DEF iter
<1>12. RunsWithin(iter, V, n, rows, step)
  BY <1>2, <1>9, <1>11, FoldRuns
<1> QED
  BY <1>2, <1>3, <1>12 DEF V, RunsWithin
----------------------------------------------------------------------------
\* What a source of an object among the modules of a netlist is: an attribute of a cell,
\* of a net only if no cell has one
CellSources(modules, k, n) ==
    {modules[j].cells[n] : j \in {i \in 1 .. k : n \in Sourced(modules[i].cells)}}
NetSources(modules, k, n) ==
    {modules[j].netnames[n] : j \in {i \in 1 .. k : n \in Sourced(modules[i].netnames)}}
SourcesUpto(modules, k, n) ==
    IF CellSources(modules, k, n) # {} THEN CellSources(modules, k, n)
    ELSE NetSources(modules, k, n)

\* An index of the first modules has the objects that have a source there, with one of
\* their sources.
Justified(spans, modules, k) ==
    /\ \A n : SourcesUpto(modules, k, n) # {} => n \in DOMAIN spans
    /\ \A n \in DOMAIN spans : \E src \in SourcesUpto(modules, k, n) : spans[n] = ParseSrc(src)

\* The sources of an object among one module more
LEMMA SourcesGrow ==
  ASSUME NEW modules, NEW k \in Nat, NEW n
  PROVE  /\ CellSources(modules, k, n) \subseteq CellSources(modules, k + 1, n)
         /\ NetSources(modules, k, n) \subseteq NetSources(modules, k + 1, n)
         /\ n \in Sourced(modules[k + 1].cells) =>
              modules[k + 1].cells[n] \in CellSources(modules, k + 1, n)
         /\ n \notin Sourced(modules[k + 1].cells) =>
              CellSources(modules, k + 1, n) = CellSources(modules, k, n)
         /\ n \in Sourced(modules[k + 1].netnames) =>
              modules[k + 1].netnames[n] \in NetSources(modules, k + 1, n)
         /\ n \notin Sourced(modules[k + 1].netnames) =>
              NetSources(modules, k + 1, n) = NetSources(modules, k, n)
<1>1. \A j : j \in 1 .. k + 1 <=> j \in 1 .. k \/ j = k + 1
  OBVIOUS
<1> QED
  BY <1>1 DEF CellSources, NetSources

\* The attributes of an object are its sources among all modules.
LEMMA AttributesAreSources ==
  ASSUME NEW R, NEW modules \in Seq(R), NEW n
  PROVE  Attributes(modules, n) = SourcesUpto(modules, Len(modules), n)
<1>1. DOMAIN modules = 1 .. Len(modules)
  OBVIOUS
<1> DEFINE Of(objects) == {objects[o] : o \in {n} \cap Sourced(objects)}
<1>2. \A objects, a : a \in Of(objects) <=> n \in Sourced(objects) /\ a = objects[n]
  OBVIOUS
<1> HIDE DEF Of
<1>3. UNION {Of(m.cells) : m \in Range(modules)} = CellSources(modules, Len(modules), n)
  BY <1>1, <1>2 DEF CellSources, Range
<1>4. UNION {Of(m.netnames) : m \in Range(modules)} = NetSources(modules, Len(modules), n)
  BY <1>1, <1>2 DEF NetSources, Range
<1> QED
  BY <1>3, <1>4 DEF Attributes, SourcesUpto, Of

\* A module more in the index
LEMMA IndexGrows ==
  ASSUME NEW modules, NEW k \in Nat, NEW spans, Justified(spans, modules, k),
         NEW more, NEW m, m = modules[k + 1],
         DOMAIN more = Sourced(m.cells) \cup DOMAIN spans \cup Sourced(m.netnames),
         \A n \in DOMAIN more :
            more[n] = IF n \in Sourced(m.cells) THEN ParseSrc(m.cells[n])
                      ELSE IF n \in DOMAIN spans THEN spans[n] ELSE ParseSrc(m.netnames[n])
  PROVE  Justified(more, modules, k + 1)
<1>4. ASSUME NEW n, SourcesUpto(modules, k + 1, n) # {} PROVE n \in DOMAIN more
  <2>1. SUFFICES ASSUME n \notin Sourced(m.cells), n \notin Sourced(m.netnames)
                 PROVE  n \in DOMAIN spans
    OBVIOUS
  <2>2. SourcesUpto(modules, k + 1, n) = SourcesUpto(modules, k, n)
    BY <2>1, SourcesGrow DEF SourcesUpto
  <2> QED
    BY <1>4, <2>2 DEF Justified
<1>5. SUFFICES ASSUME NEW n \in DOMAIN more
               PROVE  \E src \in SourcesUpto(modules, k + 1, n) : more[n] = ParseSrc(src)
  BY <1>4 DEF Justified
<1>1. CASE n \in Sourced(m.cells)
  BY <1>1, SourcesGrow DEF SourcesUpto
<1>2. CASE n \notin Sourced(m.cells) /\ n \in DOMAIN spans
  <2>1. PICK src \in SourcesUpto(modules, k, n) : spans[n] = ParseSrc(src)
    BY <1>2 DEF Justified
  <2>2. CellSources(modules, k + 1, n) = CellSources(modules, k, n)
          /\ NetSources(modules, k, n) \subseteq NetSources(modules, k + 1, n)
    BY <1>2, SourcesGrow
  <2> QED
    BY <1>2, <2>1, <2>2 DEF SourcesUpto
<1>3. CASE n \notin Sourced(m.cells) /\ n \notin DOMAIN spans
  <2>1. n \in Sourced(m.netnames)
    BY <1>3
  <2>2. CellSources(modules, k + 1, n) = {}
    BY <1>3, SourcesGrow DEF Justified, SourcesUpto
  <2> QED
    BY <1>3, <2>1, <2>2, SourcesGrow DEF SourcesUpto
<1> QED
  BY <1>1, <1>2, <1>3

\* Every entry of the index is an attribute of what has the name.
LEMMA IndexIsJustified ==
  ASSUME NEW modules, NEW rtl, IsNetlist(modules, rtl)
  PROVE  Justified(SourceIndex(modules), modules, Len(modules))
<1> DEFINE n == Len(modules)
           R == Range(modules)
           N == UNION {Sourced(m.cells) \cup Sourced(m.netnames) : m \in R}
           S == {ParseSrc(src) : src \in Seq(Pieces(rtl))}
           V == UNION {[D -> S] : D \in SUBSET N}
           Op(spans, m) ==
             [o \in Sourced(m.cells) \cup DOMAIN spans \cup Sourced(m.netnames) |->
                IF o \in Sourced(m.cells) THEN ParseSrc(m.cells[o])
                ELSE IF o \in DOMAIN spans THEN spans[o] ELSE ParseSrc(m.netnames[o])]
           step == [p \in V \X R |-> Op(p[1], p[2])]
           IsIter(iter) == iter = [s \in SUBSET DOMAIN modules |->
                                     IF s = {} THEN <<>> ELSE Op(iter[s \ {Max(s)}], modules[Max(s)])]
           iter == CHOOSE i : IsIter(i)
<1>1. ASSUME NEW v \in V, NEW e \in R PROVE Op(v, e) \in V /\ step[<<v, e>>] = Op(v, e)
  <2>1. PICK D \in SUBSET N : v \in [D -> S]
    OBVIOUS
  <2>2. Sourced(e.cells) \cup DOMAIN v \cup Sourced(e.netnames) \in SUBSET N
    BY <2>1
  <2>3. /\ \A o \in Sourced(e.cells) : ParseSrc(e.cells[o]) \in S
        /\ \A o \in Sourced(e.netnames) : ParseSrc(e.netnames[o]) \in S
    BY DEF IsNetlist
  <2> HIDE DEF S, N
  <2>4. Op(v, e) \in [Sourced(e.cells) \cup DOMAIN v \cup Sourced(e.netnames) -> S]
    BY <2>1, <2>3
  <2> QED
    BY <2>2, <2>4
<1>2. <<>> \in V
  <2>1. <<>> \in [{} -> S]
    OBVIOUS
  <2>2. {} \in SUBSET N
    OBVIOUS
  <2> HIDE DEF S, N
  <2> QED
    BY <2>1, <2>2
<1>3. modules \in [1 .. n -> R] /\ DOMAIN modules = 1 .. n /\ n \in Nat
  BY DEF IsNetlist
<1> HIDE DEF S, N
<1>4. step \in [V \X R -> V]
  <2> HIDE DEF V, Op, R
  <2> QED
    BY <1>1
<1>5. SourceIndex(modules) = iter[DOMAIN modules]
  BY DEF SourceIndex, FoldLeft, MapThenFoldSet
<1>14. ASSUME NEW spans, NEW k \in 0 .. n - 1, Justified(spans, modules, k)
       PROVE  Justified(Op(spans, modules[k + 1]), modules, k + 1)
  BY <1>3, <1>14, IndexGrows
<1> HIDE DEF Op, V, step, n, R
<1>6. PICK g \in [SUBSET (1 .. n) -> V] : FoldEquation(g, n, modules, <<>>, step)
  BY <1>2, <1>3, <1>4, FoldExists
<1>7. \A s \in SUBSET (1 .. n) : s # {} => Max(s) \in s
  BY <1>3, MaxIsOneOfThem
<1>8. ASSUME NEW s \in SUBSET (1 .. n)
      PROVE  g[s] = IF s = {} THEN <<>> ELSE Op(g[s \ {Max(s)}], modules[Max(s)])
  BY <1>1, <1>3, <1>6, <1>7 DEF FoldEquation
<1>9. IsIter(g)
  BY <1>3, <1>6, <1>8
<1>10. IsIter(iter)
  <2> HIDE DEF IsIter
  <2> QED
    BY <1>9
<1>11. iter[{}] = <<>>
  BY <1>3, <1>10
<1>12. ASSUME NEW s \in SUBSET (1 .. n), s # {}, iter[s \ {Max(s)}] \in V
       PROVE  iter[s] = step[<<iter[s \ {Max(s)}], modules[Max(s)]>>]
  <2>1. iter[s] = Op(iter[s \ {Max(s)}], modules[Max(s)])
    BY <1>3, <1>10, <1>12
  <2>2. modules[Max(s)] \in R
    BY <1>3, <1>7, <1>12
  <2> QED
    BY <1>1, <1>12, <2>1, <2>2
<1>13. StepsWithin(iter, V, n, modules, step)
  BY <1>12 DEF StepsWithin
<1> HIDE DEF iter
<1>15. iter[{}] \in V
  BY <1>2, <1>11
<1>16. RunsWithin(iter, V, n, modules, step)
  BY <1>3, <1>4, <1>13, <1>15, FoldRuns
<1> DEFINE T == {k \in Nat : k <= n => Justified(iter[1 .. k], modules, k)}
<1>17. 0 \in T
  <2>1. 1 .. 0 = {} /\ iter[1 .. 0] = <<>>
    BY <1>11
  <2>2. \A o : SourcesUpto(modules, 0, o) = {}
    BY DEF SourcesUpto, CellSources, NetSources
  <2>3. Justified(<<>>, modules, 0)
    BY <2>2 DEF Justified
  <2> QED
    BY <2>1, <2>3
<1>18. ASSUME NEW k \in T PROVE k + 1 \in T
  <2>1. SUFFICES ASSUME k + 1 <= n PROVE Justified(iter[1 .. k + 1], modules, k + 1)
    OBVIOUS
  <2>2. k \in 0 .. n - 1 /\ k \in 0 .. n /\ Justified(iter[1 .. k], modules, k)
    BY <1>3, <2>1
  <2>3. iter[1 .. k + 1] = step[<<iter[1 .. k], modules[k + 1]>>] /\ iter[1 .. k] \in V
    BY <1>16, <2>2 DEF RunsWithin
  <2>4. modules[k + 1] \in R
    BY <1>3, <2>2
  <2> QED
    BY <1>1, <1>14, <2>2, <2>3, <2>4
<1>19. n \in T
  <2>1. T \subseteq Nat
    OBVIOUS
  <2> HIDE DEF T
  <2> QED
    BY <1>3, <1>17, <1>18, <2>1, SetInduction
<1> QED
  BY <1>3, <1>5, <1>19 DEF n
----------------------------------------------------------------------------
\* Where a link comes from: an attribute of what it names
Traced(l) ==
    \E src \in Attributes(measured.modules,
                          IF l.exact THEN l.netlist_object ELSE <<Last(l.netlist_object)>>) :
       /\ src \in Seq(Pieces(base)) /\ src # <<>>
       /\ l.file = InRtlDir[Base[src[1].file]] /\ l.first = src[1].first /\ l.last = src[1].last

\* A source of a link: none, or one that is traced
Linked(link) == (\A l, m \in link : l = m) /\ \A l \in link : Traced(l)

\* The attributes of a netlist are pieces.
LEMMA AttributesArePieces ==
  ASSUME NEW modules, NEW rtl, IsNetlist(modules, rtl), NEW n, NEW src \in Attributes(modules, n)
  PROVE  src \in Seq(Pieces(rtl)) /\ src # <<>>
<1>1. \E m \in Range(modules) : \E objects \in {m.cells, m.netnames} :
         n \in Sourced(objects) /\ src = objects[n]
  BY DEF Attributes
<1> QED
  BY <1>1 DEF IsNetlist, Sourced

\* The link of an object
LEMMA LinkIsTraced ==
  ASSUME IsNetlist(measured.modules, base), NEW object
  PROVE  Linked(Link(SourceIndex(measured.modules), object))
<1> DEFINE spans == SourceIndex(measured.modules)
<1>1. \A n \in DOMAIN spans : \E src \in Attributes(measured.modules, n) : spans[n] = ParseSrc(src)
  <2>1. Justified(SourceIndex(measured.modules), measured.modules, Len(measured.modules))
    BY IndexIsJustified
  <2>2. measured.modules \in Seq(Range(measured.modules))
    BY DEF IsNetlist
  <2>3. \A n : Attributes(measured.modules, n)
                = SourcesUpto(measured.modules, Len(measured.modules), n)
    BY <2>2, AttributesAreSources
  <2> QED
    BY <2>1, <2>3 DEF Justified
<1> HIDE DEF spans
<1>2. \A n, m \in Found(spans, object) : n = m
  BY DEF Found
<1>3. ASSUME NEW l \in Link(spans, object) PROVE Traced(l)
  <2>1. PICK n \in Found(spans, object) :
           l = [file |-> InRtlDir[spans[n].file], first |-> spans[n].first,
                last |-> spans[n].last, netlist_object |-> object, exact |-> n = object]
    BY DEF Link
  <2>2. n \in DOMAIN spans /\ (n # object => n = <<Last(object)>>)
    BY DEF Found
  <2>3. n = IF l.exact THEN l.netlist_object ELSE <<Last(l.netlist_object)>>
    BY <2>1, <2>2
  <2>4. PICK src \in Attributes(measured.modules, n) : spans[n] = ParseSrc(src)
    BY <1>1, <2>2
  <2>5. src \in Seq(Pieces(base)) /\ src # <<>>
    BY <2>4, AttributesArePieces
  <2> QED
    BY <2>1, <2>3, <2>4, <2>5 DEF Traced, ParseSrc
<1> QED
  BY <1>2, <1>3 DEF Linked, Link, spans

\* What is known of a mapped path
IsMapped(p, n) ==
    /\ DOMAIN p.elements = 1 .. n
    /\ \A i \in 1 .. n : Linked(p.elements[i].link) /\ p.elements[i].delay \in Int
    /\ Linked(p.startpoint_source) /\ Linked(p.endpoint_source)

\* The path of a report is mapped to what the netlist holds.
LEMMA PathIsMapped ==
  ASSUME IsNetlist(measured.modules, base), IsReport(measured.report)
  PROVE  \E n \in Nat : IsMapped(path, n)
<1>1. CASE measured.report = <<>>
  <2>1. path = NoPath
    BY <1>1 DEF path, PathOf
  <2>2. IsMapped(NoPath, 0)
    BY DEF IsMapped, NoPath, Linked
  <2> QED
    BY <2>1, <2>2
<1>2. CASE measured.report # <<>>
  <2> DEFINE block == Head(measured.report)
             spans == SourceIndex(measured.modules)
             elements == Elements(block.rows)
             n == Len(elements)
  <2>1. block \in Range(measured.report)
    <3>1. measured.report \in Seq(Range(measured.report)) /\ 1 \in DOMAIN measured.report
            /\ Head(measured.report) = measured.report[1]
      BY <1>2 DEF IsReport
    <3> QED
      BY <3>1 DEF Range
  <2>2. /\ block.rows \in Seq(Range(block.rows))
        /\ \A row \in Range(block.rows) : row.delay \in Int
        /\ \A o, p \in block.startpoint : o = p
        /\ \A o, p \in block.endpoint : o = p
    BY <2>1 DEF IsReport
  <2>3. elements \in Seq(Range(block.rows))
    BY <2>2, ElementsAreRows
  <2>4. \A o : Linked(Link(spans, o))
    BY LinkIsTraced
  <2>5. path = MapPath(spans, block)
    BY <1>2 DEF path, PathOf
  <2> HIDE DEF spans, block
  <2>6. DOMAIN elements = 1 .. n /\ n \in Nat /\ \A i \in 1 .. n : elements[i].delay \in Int
    BY <2>2, <2>3
  <2> HIDE DEF elements, n
  <2>7. /\ path.elements = [i \in 1 .. n |->
                              [link |-> Link(spans, elements[i].name), delay |-> elements[i].delay]]
        /\ path.startpoint_source = UNION {Link(spans, o) : o \in block.startpoint}
        /\ path.endpoint_source = UNION {Link(spans, o) : o \in block.endpoint}
    BY <2>5, <2>6 DEF MapPath, elements
  <2>8. ASSUME NEW S, \A o, p \in S : o = p PROVE Linked(UNION {Link(spans, o) : o \in S})
    BY <2>4, <2>8 DEF Linked
  <2>9. Linked(path.startpoint_source) /\ Linked(path.endpoint_source)
    BY <2>2, <2>7, <2>8
  <2>10. \A i \in 1 .. n : Linked(path.elements[i].link) /\ path.elements[i].delay \in Int
    BY <2>4, <2>6, <2>7
  <2>11. DOMAIN path.elements = 1 .. n
    BY <2>7
  <2> QED
    BY <2>6, <2>9, <2>10, <2>11 DEF IsMapped
<1> QED
  BY <1>1, <1>2
----------------------------------------------------------------------------
\* A finite set of elements has one with the greatest delay.
LEMMA GreatestExists ==
  ASSUME NEW n \in Nat, NEW T \in SUBSET (1 .. n), T # {}, NEW f, \A i \in T : f[i] \in Int
  PROVE  \E i \in T : \A j \in T : f[j] <= f[i]
<1> DEFINE Has(k) == T \cap (1 .. k) # {} =>
                       \E i \in T \cap (1 .. k) : \A j \in T \cap (1 .. k) : f[j] <= f[i]
           D == {k \in Nat : Has(k)}
<1>1. 0 \in D
  OBVIOUS
<1>2. ASSUME NEW k \in D PROVE k + 1 \in D
  <2>1. \A j : j \in 1 .. k + 1 <=> j \in 1 .. k \/ j = k + 1
    OBVIOUS
  <2>2. CASE k + 1 \notin T
    <3>1. T \cap (1 .. k + 1) = T \cap (1 .. k)
      BY <2>1, <2>2
    <3> QED
      BY <3>1
  <2>3. CASE k + 1 \in T /\ T \cap (1 .. k) = {}
    <3>1. T \cap (1 .. k + 1) = {k + 1} /\ f[k + 1] \in Int
      BY <2>1, <2>3
    <3> QED
      BY <3>1
  <2>4. CASE k + 1 \in T /\ T \cap (1 .. k) # {}
    <3>1. PICK i \in T \cap (1 .. k) : \A j \in T \cap (1 .. k) : f[j] <= f[i]
      BY <2>4
    <3>2. f[i] \in Int /\ f[k + 1] \in Int /\ \A j \in T : f[j] \in Int
      BY <2>4
    <3> DEFINE best == IF f[k + 1] <= f[i] THEN i ELSE k + 1
    <3>3. best \in T \cap (1 .. k + 1)
      BY <2>1, <2>4
    <3>4. ASSUME NEW j \in T \cap (1 .. k + 1) PROVE f[j] <= f[best]
      BY <2>1, <3>1, <3>2
    <3>5. Has(k + 1) /\ k + 1 \in Nat
      BY <3>3, <3>4
    <3> QED
      BY <3>5
  <2> QED
    BY <2>2, <2>3, <2>4
<1>3. n \in D
  <2>1. D \subseteq Nat
    OBVIOUS
  <2> HIDE DEF D
  <2> QED
    BY <1>1, <1>2, <2>1, SetInduction
<1>4. T \cap (1 .. n) = T
  OBVIOUS
<1> QED
  BY <1>3, <1>4

\* What a path is blamed on: nothing if nothing is mapped, else one traced link
LEMMA DominantIsLinked ==
  ASSUME NEW n \in Nat, IsMapped(path, n)
  PROVE  /\ Linked(DominantSource(path))
         /\ MappingStatus(path) # "unmapped" => DominantSource(path) # {}
         /\ MappingStatus(path) = "unmapped" =>
              /\ DominantSource(path) = {}
              /\ path.startpoint_source = {} /\ path.endpoint_source = {}
              /\ \A i \in 1 .. n : path.elements[i].link = {}
<1> DEFINE linked == MappedElements(path)
           best == {i \in linked : \A j \in linked :
                                      ~Outranks(path.elements[j], path.elements[i])}
<1>1. linked = {i \in 1 .. n : path.elements[i].link # {}}
  BY DEF MappedElements, IsMapped
<1>2. CASE linked = {}
  BY <1>1, <1>2 DEF DominantSource, MappingStatus, IsMapped
<1>3. CASE linked # {}
  <2> DEFINE exact == {i \in linked : \E l \in path.elements[i].link : l.exact}
             first == IF exact # {} THEN exact ELSE linked
             delay == [i \in 1 .. n |-> path.elements[i].delay]
  <2>1. first \in SUBSET (1 .. n) /\ first # {} /\ \A i \in first : delay[i] \in Int
    BY <1>1, <1>3 DEF IsMapped
  <2>2. PICK i \in first : \A j \in first : delay[j] <= delay[i]
    <3> HIDE DEF first, delay
    <3> QED
      BY <2>1, GreatestExists
  <2>3. ASSUME NEW j \in linked PROVE ~Outranks(path.elements[j], path.elements[i])
    <3>1. j \in first => path.elements[j].delay <= path.elements[i].delay
      BY <2>1, <2>2
    <3>2. path.elements[i].delay \in Int /\ path.elements[j].delay \in Int
      BY <1>1, <2>1 DEF IsMapped
    <3>3. CASE j \in first
      BY <1>1, <3>1, <3>2, <3>3 DEF Outranks
    <3>4. CASE j \notin first
      BY <3>4 DEF Outranks
    <3> QED
      BY <3>3, <3>4
  <2>4. i \in best
    BY <2>1, <2>3
  <2>5. best \in SUBSET (1 .. n)
    BY <1>1
  <2>6. Min(best) \in best
    <3> HIDE DEF best
    <3>1. \E m \in best : \A k \in best : m <= k
      BY <2>4, <2>5, LeastNatural
    <3> QED
      BY <3>1 DEF Min
  <2>7. DominantSource(path) = path.elements[Min(best)].link
    BY <1>3 DEF DominantSource
  <2>8. DominantSource(path) # {} /\ Linked(DominantSource(path))
    BY <1>1, <2>6, <2>7 DEF IsMapped
  <2>9. MappingStatus(path) # "unmapped"
    BY <1>3 DEF MappingStatus
  <2> QED
    BY <2>8, <2>9
<1> QED
  BY <1>2, <1>3
----------------------------------------------------------------------------
\* Adding no modules
LEMMA NothingAdded == FoldLeft(Add, <<>>, <<>>) = <<>>
<1> DEFINE IsIter(iter) ==
             iter = [s \in SUBSET DOMAIN <<>> |->
                       IF s = {} THEN <<>> ELSE Add(iter[s \ {Max(s)}], <<>>[Max(s)])]
           iter == CHOOSE i : IsIter(i)
           g == [s \in SUBSET {} |-> <<>>]
<1>1. FoldLeft(Add, <<>>, <<>>) = iter[DOMAIN <<>>]
  BY DEF FoldLeft, MapThenFoldSet
<1>2. DOMAIN <<>> = {}
  OBVIOUS
<1>3. IsIter(g)
  <2>1. \A s \in SUBSET {} : s = {}
    OBVIOUS
  <2> QED
    BY <1>2, <2>1
<1>4. IsIter(iter)
  <2> HIDE DEF IsIter
  <2> QED
    BY <1>3
<1>5. iter[{}] = <<>>
  BY <1>2, <1>4
<1> HIDE DEF iter
<1> QED
  BY <1>1, <1>2, <1>5

\* One sequence after another
LEMMA Concatenated ==
  ASSUME NEW S, NEW m \in Nat, NEW n \in Nat, NEW s \in [1 .. m -> S], NEW t \in [1 .. n -> S]
  PROVE  s \o t \in [1 .. m + n -> S]
<1>1. s \in Seq(S) /\ Len(s) = m /\ t \in Seq(S) /\ Len(t) = n
  OBVIOUS
<1> DEFINE u == s \o t
<1>2. u \in Seq(S) /\ Len(u) = m + n
  BY <1>1, ConcatProperties
<1> HIDE DEF u
<1>3. u \in [1 .. Len(u) -> S]
  BY <1>2
<1> QED
  BY <1>2, <1>3 DEF u

\* Of a path that is not mapped nothing is selected, whatever the scan finds.
LEMMA NothingSelected ==
  ASSUME NEW n \in Nat, IsMapped(path, n), MappingStatus(path) = "unmapped", NEW spans, NEW edges
  PROVE  Selected(spans, edges) = <<>>
<1>1. /\ DominantSource(path) = {} /\ path.endpoint_source = {} /\ path.startpoint_source = {}
      /\ \A i \in 1 .. n : path.elements[i].link = {}
  BY DominantIsLinked
<1>2. DOMAIN path.elements = 1 .. n
  BY DEF IsMapped
<1>3. Anchors(path) = <<{}, {}, {}>> \o [i \in 1 .. n |-> {}]
  BY <1>1, <1>2 DEF Anchors
<1> DEFINE ends == <<{}, {}, {}>>
           inner == [i \in 1 .. n |-> {}]
           E == {{}}
           m == 3
<1>4. /\ ends \in [1 .. m -> E] /\ inner \in [1 .. n -> E] /\ m \in Nat /\ m + n \in Nat
      /\ \A link \in E : ModulesAt(spans, link) = {}
  BY DEF ModulesAt
<1>5. Anchors(path) = ends \o inner
  BY <1>3
<1> HIDE DEF ends, inner, E, m
<1>8. Anchors(path) \in [1 .. m + n -> E]
  <2>1. ends \o inner \in [1 .. m + n -> E]
    BY <1>4, Concatenated
  <2> QED
    BY <1>5, <2>1
<1>6. PathModules(spans) = <<>>
  BY <1>4, <1>8, NoModulesAround
<1>7. Neighbours(spans, edges, <<>>) = <<>>
  BY DEF Neighbours, FlattenSeq
<1> QED
  BY <1>6, <1>7, NothingAdded DEF Selected
----------------------------------------------------------------------------
(***************************************************************************)
(* Source comes with the request if and only if the path is mapped.  What  *)
(* is mapped was measured, and is not touched while the request is built;  *)
(* what is selected, and cut, is nothing as long as nothing is mapped.     *)
(***************************************************************************)

\* What is asked of the manifest: design.rtl_dir holds a file of every base name.
NamesResolve == \A f \in Files : InRtlDir[Base[f]] \in Files

\* Nothing of the path is mapped.
Unmapped == MappingStatus(path) = "unmapped"

\* How far the request is
MInv ==
    /\ pc \in {"hierarchy", "slices", "propose"} =>
         IsNetlist(measured.modules, base) /\ IsReport(measured.report)
    /\ pc = "hierarchy" => rtl_context = <<>>
    /\ pc = "slices" /\ Unmapped => scanned.selected = <<>> /\ rtl_context = <<>>
    /\ pc = "propose" => (Unmapped <=> rtl_context = <<>>)

\* That is settled when the baseline is measured.
LEMMA MeasuredStays == UNCHANGED measured => (Unmapped' <=> Unmapped)
BY DEF Unmapped, path, PathOf, NoPath, MapPath, MappingStatus, MappedElements

\* An attribute starts with a piece.
LEMMA FirstPiece ==
  ASSUME NEW rtl, NEW src \in Seq(Pieces(rtl)), src # <<>>
  PROVE  src[1] \in Pieces(rtl) /\ src[1].file \in Files
<1>1. src[1] \in Pieces(rtl)
  OBVIOUS
<1> QED
  BY <1>1 DEF Pieces

\* A path that is mapped has a source that may be shown.
LEMMA FallbackShows ==
  ASSUME NamesResolve, IsNetlist(measured.modules, base), IsReport(measured.report)
  PROVE  Fallback = <<>> <=> Unmapped
<1>1. PICK n \in Nat : IsMapped(path, n)
  BY PathIsMapped
<1> DEFINE shows == {l \in DominantSource(path) : l.file \in Files}
<1>2. \A l \in DominantSource(path) : l.file \in Files
  <2> SUFFICES ASSUME NEW l \in DominantSource(path) PROVE l.file \in Files
    OBVIOUS
  <2>1. PICK src \in Seq(Pieces(base)) : src # <<>> /\ l.file = InRtlDir[Base[src[1].file]]
    <3>1. Traced(l)
      BY <1>1, DominantIsLinked DEF Linked
    <3> QED
      BY <3>1 DEF Traced
  <2>2. src[1].file \in Files
    BY <2>1, FirstPiece
  <2> QED
    BY <2>1, <2>2 DEF NamesResolve
<1>3. (shows = {} <=> Unmapped) /\ \A l, m \in shows : l = m
  BY <1>1, <1>2, DominantIsLinked DEF Unmapped, Linked
<1>4. Fallback = [k \in DOMAIN SetToSeq(shows) |->
                    Slice(SetToSeq(shows)[k].file,
                          {SetToSeq(shows)[k].first, SetToSeq(shows)[k].last})]
  BY DEF Fallback
<1> HIDE DEF shows
<1>5. CASE shows = {}
  <2>1. SetToSeq({}) = <<>>
    BY FS_EmptySet DEF SetToSeq
  <2> QED
    BY <1>3, <1>4, <1>5, <2>1
<1>6. CASE shows # {}
  <2>1. PICK l : shows = {l}
    <3>1. PICK l \in shows : TRUE
      BY <1>6
    <3>2. shows = {l}
      BY <1>3, <3>1
    <3> QED
      BY <3>2
  <2>2. Cardinality(shows) = 1
    BY <2>1, FS_Singleton
  <2>3. SetToSeq(shows) \in [1 .. 1 -> shows]
    <3>1. [i \in 1 .. 1 |-> l] \in [1 .. 1 -> shows] /\ IsInjective([i \in 1 .. 1 |-> l])
      BY <2>1 DEF IsInjective
    <3> QED
      BY <2>2, <3>1 DEF SetToSeq
  <2>4. DOMAIN Fallback = 1 .. 1
    <3>1. DOMAIN SetToSeq(shows) = 1 .. 1
      BY <2>3
    <3> QED
      BY <1>4, <3>1
  <2>5. Fallback # <<>>
    <3>1. 1 \in DOMAIN Fallback /\ 1 \notin DOMAIN <<>>
      BY <2>4
    <3> QED
      BY <3>1
  <2> QED
    BY <1>3, <1>6, <2>5
<1> QED
  BY <1>5, <1>6

\* The steps of the scan and the slices
LEMMA BuildingKeepsMInv ==
  ASSUME NamesResolve, PInv, MInv, Building /\ UNCHANGED patchVars
  PROVE  MInv'
<1>1. pc \in {"hierarchy", "slices"} /\ UNCHANGED <<base, measured>>
  BY DEF Building, ScanHierarchy, CutSlice, BuildRequest, EditWhileBuilding
<1>2. /\ IsNetlist(measured.modules, base) /\ IsReport(measured.report)
      /\ IsNetlist(measured'.modules, base') /\ IsReport(measured'.report)
  BY <1>1 DEF MInv
<1>3. Unmapped' <=> Unmapped
  BY <1>1, MeasuredStays
<1>4. CASE ScanHierarchy
  <2>1. rtl_context' = <<>> /\ pc' = "slices"
    BY <1>4 DEF ScanHierarchy, MInv
  <2>2. PICK n \in Nat : IsMapped(path, n)
    BY <1>2, PathIsMapped
  <2>3. ASSUME Unmapped PROVE scanned'.selected = <<>>
    BY <1>4, <2>2, <2>3, NothingSelected DEF ScanHierarchy, Unmapped
  <2> QED
    BY <1>2, <1>3, <2>1, <2>3 DEF MInv
<1>5. CASE CutSlice
  <2>1. ~Unmapped /\ pc' = "slices"
    BY <1>5 DEF CutSlice, MInv
  <2> QED
    BY <1>2, <1>3, <2>1 DEF MInv
<1>6. CASE BuildRequest
  <2>1. pc = "slices" /\ pc' = "propose"
    BY <1>6 DEF BuildRequest
  <2>2. rtl_context' = IF rtl_context # <<>> THEN rtl_context ELSE Fallback
    BY <1>6 DEF BuildRequest
  <2>3. rtl_context' = <<>> <=> Unmapped
    BY <1>2, <2>1, <2>2, FallbackShows DEF MInv
  <2> QED
    BY <1>2, <1>3, <2>1, <2>3 DEF MInv
<1>7. CASE EditWhileBuilding
  BY <1>2, <1>3, <1>7 DEF EditWhileBuilding, MInv
<1> QED
  BY <1>4, <1>5, <1>6, <1>7 DEF Building

\* The request goes out, and comes back as a diff.
LEMMA AnsweringKeepsMInv ==
  ASSUME MInv, Propose \/ Answering \/ EditSource \/ UNCHANGED vars
  PROVE  MInv'
<1>1. CASE pc' \notin {"hierarchy", "slices", "propose"}
  BY <1>1 DEF MInv
<1>2. CASE pc' \in {"hierarchy", "slices", "propose"}
  <2>1. UNCHANGED <<pc, base, measured, scanned, rtl_context>>
    BY <1>2 DEF Propose, Answering, Validate, ParseDiff, RefusePath, PathsAllowed,
                CheckBudget, ReadSources, PatchHunk, NoMatch, Patched, CheckIdentifiers,
                WriteCandidate, EditSource, Go, Keep, vars, requestVars
  <2>2. Unmapped' <=> Unmapped
    BY <2>1, MeasuredStays
  <2> QED
    BY <2>1, <2>2 DEF MInv
<1> QED
  BY <1>1, <1>2

\* The request has source if and only if any of the path is mapped to it, whatever the
\* scan of the RTL finds and whoever edits it (sourcemap.py:85-94,
\* request_builder.py:204-214).
THEOREM MappedPathsShowSource ==
  ASSUME NamesResolve PROVE Spec => []MappedPathsComeWithSource
<1>1. Init => MInv
  BY RequestAssumption DEF Init, RequestInit, MInv
<1>2. PInv /\ MInv /\ [Next]_vars => MInv'
  BY BuildingKeepsMInv, AnsweringKeepsMInv DEF Next
<1>3. MInv => MappedPathsComeWithSource
  BY DEF MInv, MappedPathsComeWithSource, Unmapped
<1> QED
  BY <1>1, <1>2, <1>3, ChecksHold, PTL DEF Spec
----------------------------------------------------------------------------
(***************************************************************************)
(* The scan: the modules of a file lie one after the other, so there is at *)
(* most one around a line; and the selection, which keeps what it has.     *)
(***************************************************************************)

\* The elements of a finite set, in a sequence
LEMMA SequenceOfSet ==
  ASSUME NEW S, IsFiniteSet(S)
  PROVE  /\ SetToSeq(S) \in Seq(S)
         /\ \A x : S = {x} => Len(SetToSeq(S)) = 1 /\ SetToSeq(S)[1] = x
<1>1. Cardinality(S) \in Nat /\ ExistsBijection(1 .. Cardinality(S), S)
  BY FS_CardinalityType
<1>2. PICK f \in [1 .. Cardinality(S) -> S] : IsInjective(f)
  BY <1>1 DEF ExistsBijection, Bijection, Injection
<1>3. SetToSeq(S) \in [1 .. Cardinality(S) -> S]
  BY <1>2 DEF SetToSeq
<1> DEFINE q == SetToSeq(S)
<1> HIDE DEF q
<1>4. q \in [1 .. Cardinality(S) -> S]
  BY <1>3 DEF q
<1>5. q \in Seq(S) /\ Len(q) = Cardinality(S)
  BY <1>1, <1>4
<1>6. ASSUME NEW x, S = {x} PROVE Len(q) = 1 /\ q[1] = x
  <2>1. Cardinality(S) = 1
    BY <1>6, FS_Singleton
  <2>2. q \in [1 .. 1 -> {x}]
    BY <1>4, <1>6, <2>1
  <2> QED
    BY <1>5, <2>1, <2>2
<1> QED
  BY <1>5, <1>6 DEF q

\* Each is the one before, and a sequence more.
IsRun(w, seqs) == \A k \in 0 .. Len(seqs) - 1 : w[k + 1] = w[k] \o seqs[k + 1]

\* Sequences are flattened one after another.
LEMMA FlattenRuns ==
  ASSUME NEW S, NEW seqs \in Seq(Seq(S))
  PROVE  \E w \in [0 .. Len(seqs) -> Seq(S)] :
           w[0] = <<>> /\ w[Len(seqs)] = FlattenSeq(seqs) /\ IsRun(w, seqs)
<1> DEFINE n == Len(seqs)
           V == Seq(S)
           step == [p \in V \X V |-> p[1] \o p[2]]
           IsFlat(f) == f = [i \in 1 .. n |-> IF i = 1 THEN seqs[i] ELSE f[i - 1] \o seqs[i]]
           flatten == CHOOSE f : IsFlat(f)
<1>1. n \in Nat /\ seqs \in [1 .. n -> V]
  OBVIOUS
<1>2. step \in [V \X V -> V] /\ <<>> \in V
  BY ConcatProperties
<1>3. CASE n = 0
  <2> DEFINE w == [k \in 0 .. n |-> <<>>]
  <2>1. FlattenSeq(seqs) = <<>>
    BY <1>3 DEF FlattenSeq
  <2>2. w \in [0 .. n -> V] /\ w[0] = <<>> /\ w[n] = <<>>
    BY <1>2, <1>3
  <2>3. IsRun(w, seqs)
    BY <1>3 DEF IsRun
  <2> HIDE DEF w
  <2> QED
    BY <2>1, <2>2, <2>3
<1>4. CASE n # 0
  <2>1. FlattenSeq(seqs) = flatten[n]
    BY <1>4 DEF FlattenSeq
  <2>2. \A v, u \in V : step[<<v, u>>] = v \o u
    OBVIOUS
  <2>3. \A v \in V : <<>> \o v = v
    OBVIOUS
  <2> HIDE DEF V, step, n
  <2>4. PICK g \in [SUBSET (1 .. n) -> V] : FoldEquation(g, n, seqs, <<>>, step)
    BY <1>1, <1>2, FoldExists
  <2>5. g[{}] = <<>> /\ StepsWithin(g, V, n, seqs, step)
    BY <2>4 DEF FoldEquation, StepsWithin
  <2>6. RunsWithin(g, V, n, seqs, step)
    BY <1>1, <1>2, <2>5, FoldRuns
  <2> DEFINE h == [i \in 1 .. n |-> g[1 .. i]]
  <2>7. ASSUME NEW i \in 1 .. n
        PROVE  h[i] = IF i = 1 THEN seqs[i] ELSE h[i - 1] \o seqs[i]
    <3>1. i - 1 \in 0 .. n - 1 /\ i - 1 \in 0 .. n /\ (i - 1) + 1 = i
      BY <1>1
    <3>2. h[i] = step[<<g[1 .. i - 1], seqs[i]>>] /\ g[1 .. i - 1] \in V /\ seqs[i] \in V
      BY <1>1, <2>6, <3>1 DEF RunsWithin
    <3>3. h[i] = g[1 .. i - 1] \o seqs[i]
      BY <2>2, <3>2
    <3>4. CASE i = 1
      <4>1. 1 .. i - 1 = {}
        BY <3>4
      <4> QED
        BY <2>3, <2>5, <3>2, <3>3, <3>4, <4>1
    <3>5. CASE i # 1
      <4>1. i - 1 \in 1 .. n
        BY <3>1, <3>5
      <4> QED
        BY <3>3, <3>5, <4>1
    <3> QED
      BY <3>4, <3>5
  <2>8. IsFlat(h)
    BY <2>7
  <2>9. IsFlat(flatten)
    <3> HIDE DEF IsFlat
    <3> QED
      BY <2>8
  <2> HIDE DEF flatten
  <2>10. ASSUME NEW i \in 1 .. n
         PROVE  flatten[i] = IF i = 1 THEN seqs[i] ELSE flatten[i - 1] \o seqs[i]
    BY <2>9
  <2> DEFINE w == [k \in 0 .. n |-> IF k = 0 THEN <<>> ELSE flatten[k]]
             T == {k \in Nat : k <= n => w[k] \in V}
  <2>11. ASSUME NEW k \in 0 .. n - 1, w[k] \in V
         PROVE  w[k + 1] = w[k] \o seqs[k + 1] /\ w[k + 1] \in V
    <3>1. k + 1 \in 1 .. n /\ k + 1 \in 0 .. n /\ k \in 0 .. n /\ (k + 1) - 1 = k /\ k \in Nat
      BY <1>1
    <3>2. seqs[k + 1] \in V /\ w[k + 1] = flatten[k + 1]
      BY <1>1, <3>1
    <3>3. w[k + 1] = w[k] \o seqs[k + 1]
      <4>1. CASE k = 0
        <5>1. flatten[k + 1] = seqs[k + 1] /\ w[k] = <<>>
          BY <2>10, <3>1, <4>1
        <5> QED
          BY <2>3, <3>2, <5>1
      <4>2. CASE k # 0
        <5>1. flatten[k + 1] = flatten[(k + 1) - 1] \o seqs[k + 1]
          <6> HIDE DEF w, T, h
          <6>1. k + 1 # 1
            BY <3>1, <4>2
          <6> QED
            BY <2>10, <3>1, <6>1
        <5>2. w[k] = flatten[k]
          BY <3>1, <4>2
        <5> QED
          BY <3>1, <3>2, <5>1, <5>2
      <4> QED
        BY <4>1, <4>2
    <3> HIDE DEF w, T, h, IsFlat
    <3>4. step[<<w[k], seqs[k + 1]>>] = w[k] \o seqs[k + 1]
      BY <2>2, <2>11, <3>2
    <3>5. step[<<w[k], seqs[k + 1]>>] \in V
      BY <1>2, <2>11, <3>2
    <3> QED
      BY <3>3, <3>4, <3>5
  <2>12. 0 \in T
    BY <1>1, <1>2
  <2>13. ASSUME NEW k \in T PROVE k + 1 \in T
    <3>1. SUFFICES ASSUME k + 1 <= n PROVE w[k + 1] \in V
      OBVIOUS
    <3>2. k \in 0 .. n - 1 /\ w[k] \in V
      BY <1>1, <3>1
    <3> QED
      BY <2>11, <3>2
  <2>14. T = Nat
    <3>1. T \subseteq Nat
      OBVIOUS
    <3> HIDE DEF T
    <3> QED
      BY <2>12, <2>13, <3>1, SetInduction
  <2>15. ASSUME NEW k \in 0 .. n PROVE w[k] \in V
    <3>1. k \in Nat /\ k <= n
      BY <1>1
    <3>2. k \in T
      BY <2>14, <3>1
    <3> HIDE DEF w
    <3> QED
      BY <3>1, <3>2
  <2>16. w[0] = <<>> /\ w[n] = FlattenSeq(seqs) /\ DOMAIN w = 0 .. n
    BY <1>1, <1>4, <2>1
  <2>17. w = [k \in 0 .. n |-> w[k]]
    OBVIOUS
  <2> HIDE DEF w
  <2>18. w \in [0 .. n -> V]
    BY <2>15, <2>17
  <2>19. IsRun(w, seqs)
    <3>1. \A k \in 0 .. n - 1 : k \in 0 .. n
      BY <1>1
    <3> QED
      BY <2>11, <2>15, <3>1 DEF IsRun, n
  <2> QED
    BY <2>16, <2>18, <2>19 DEF V, n
<1> QED
  BY <1>3, <1>4

LEMMA FlattenIsSequence ==
  ASSUME NEW S, NEW seqs \in Seq(Seq(S))
  PROVE  FlattenSeq(seqs) \in Seq(S)
<1>1. PICK w \in [0 .. Len(seqs) -> Seq(S)] : w[Len(seqs)] = FlattenSeq(seqs)
  BY FlattenRuns
<1>2. Len(seqs) \in 0 .. Len(seqs)
  OBVIOUS
<1> QED
  BY <1>1, <1>2
----------------------------------------------------------------------------
\* Modules of one file, one after the other
InOrder(spans) ==
    \A a, b \in DOMAIN spans : a < b => spans[a].last < spans[b].first

\* How far a scan of a file is after k lines: what it has closed lies before what is open.
ScannedUpto(seen, k) ==
    /\ seen.open <= k /\ InOrder(seen.spans)
    /\ \A a \in DOMAIN seen.spans :
          seen.spans[a].last <= k /\ (seen.open # 0 => seen.spans[a].last < seen.open)

\* A module more
LEMMA ModuleAppended ==
  ASSUME NEW n \in Nat, NEW M, \A m \in M : m.first \in 0 .. n /\ m.last \in 0 .. n,
         NEW spans \in Seq(M), InOrder(spans), NEW m \in M,
         \A a \in DOMAIN spans : spans[a].last < m.first
  PROVE  InOrder(Append(spans, m))
<1> DEFINE more == Append(spans, m)
<1>1. /\ DOMAIN spans = 1 .. Len(spans) /\ DOMAIN more = 1 .. Len(spans) + 1 /\ Len(spans) \in Nat
      /\ \A a \in DOMAIN spans : more[a] = spans[a]
      /\ more[Len(spans) + 1] = m
  BY AppendProperties
<1> HIDE DEF more
<1>2. ASSUME NEW a \in DOMAIN more, NEW b \in DOMAIN more, a < b
      PROVE  more[a].last < more[b].first
  <2>1. a \in DOMAIN spans
    BY <1>1, <1>2
  <2>2. CASE b \in DOMAIN spans
    BY <1>1, <1>2, <2>1, <2>2 DEF InOrder
  <2>3. CASE b = Len(spans) + 1
    BY <1>1, <2>1, <2>3
  <2> QED
    BY <1>1, <2>2, <2>3
<1>3. InOrder(more)
  BY <1>2 DEF InOrder
<1> QED
  BY <1>3 DEF more

\* The scan of a file finds modules of the file, one after the other.
LEMMA ModulesAreInOrder ==
  ASSUME NEW file, NEW R, NEW lines \in Seq(R)
  PROVE  \E M : /\ ModuleSpans(file, lines) \in Seq(M)
                /\ \A m \in M : m.file = file /\ m.first \in Nat /\ m.last \in Nat
                /\ InOrder(ModuleSpans(file, lines))
<1> DEFINE n == Len(lines)
           E == 1 .. n
           M == [name : {Says(lines[i]).name : i \in 1 .. n},
                 ports : {Says(lines[i]).ports : i \in 1 .. n},
                 file : {file}, first : 0 .. n, last : 0 .. n]
           V == [open : 0 .. n, spans : Seq(M)]
           start == [open |-> 0, spans |-> <<>>]
           seq == [i \in DOMAIN lines |-> i]
           Closed(seen, i) ==
             [name |-> Says(lines[seen.open]).name, ports |-> Says(lines[seen.open]).ports,
              file |-> file, first |-> seen.open, last |-> i]
           Op(seen, i) ==
             LET says == Says(lines[i])
             IN  IF says.kind = "module" /\ seen.open = 0 THEN [seen EXCEPT !.open = i]
                 ELSE IF says.kind = "endmodule" /\ seen.open # 0
                 THEN LET head == Says(lines[seen.open])
                      IN  [open |-> 0,
                           spans |-> Append(seen.spans,
                                       [name |-> head.name, ports |-> head.ports, file |-> file,
                                        first |-> seen.open, last |-> i])]
                 ELSE seen
           step == [p \in V \X E |-> Op(p[1], p[2])]
           IsIter(iter) == iter = [s \in SUBSET DOMAIN seq |->
                                     IF s = {} THEN start ELSE Op(iter[s \ {Max(s)}], seq[Max(s)])]
           iter == CHOOSE i : IsIter(i)
<1>1. ASSUME NEW v \in V, NEW e \in E
      PROVE  /\ Op(v, e) \in V /\ step[<<v, e>>] = Op(v, e)
             /\ \/ Op(v, e) = v
                \/ v.open = 0 /\ Op(v, e) = [v EXCEPT !.open = e]
                \/ /\ v.open # 0 /\ Closed(v, e) \in M
                   /\ Op(v, e) = [open |-> 0, spans |-> Append(v.spans, Closed(v, e))]
  <2>1. v.open # 0 => Closed(v, e) \in M
    OBVIOUS
  <2>2. v.open # 0 => Append(v.spans, Closed(v, e)) \in Seq(M)
    BY <2>1, AppendProperties
  <2>3. \/ Op(v, e) = v
        \/ v.open = 0 /\ Op(v, e) = [v EXCEPT !.open = e]
        \/ v.open # 0 /\ Op(v, e) = [open |-> 0, spans |-> Append(v.spans, Closed(v, e))]
    OBVIOUS
  <2>4. Op(v, e) \in V
    <3>1. n \in Nat /\ 0 \in 0 .. n /\ e \in 0 .. n
      OBVIOUS
    <3> HIDE DEF Op, Closed, M, E, n
    <3>2. [v EXCEPT !.open = e] \in V
      BY <3>1
    <3>3. v.open # 0 => [open |-> 0, spans |-> Append(v.spans, Closed(v, e))] \in V
      BY <2>2, <3>1
    <3> HIDE DEF V
    <3> QED
      BY <2>3, <3>2, <3>3
  <2> QED
    BY <2>1, <2>3, <2>4
<1>2. ASSUME NEW v \in V, NEW k \in 0 .. n - 1, ScannedUpto(v, k)
      PROVE  ScannedUpto(Op(v, k + 1), k + 1)
  <2>1. k + 1 \in E /\ k \in Nat /\ n \in Nat /\ v.open \in 0 .. n
    OBVIOUS
  <2>2. v.spans \in Seq(M) /\ \A m \in M : m.first \in 0 .. n /\ m.last \in 0 .. n
    OBVIOUS
  <2>3. \A a \in DOMAIN v.spans : v.spans[a].last \in 0 .. n /\ v.spans[a].last <= k
    <3> HIDE DEF V, M, Op
    <3>1. \A a \in DOMAIN v.spans : v.spans[a] \in M
      BY <2>2
    <3> QED
      BY <1>2, <2>2, <3>1 DEF ScannedUpto
  <2>4. CASE Op(v, k + 1) = v
    <3> HIDE DEF V, M, E, Op, n
    <3>1. ScannedUpto(v, k + 1)
      BY <1>2, <2>1, <2>3 DEF ScannedUpto
    <3> QED
      BY <2>4, <3>1
  <2>5. CASE v.open = 0 /\ Op(v, k + 1) = [v EXCEPT !.open = k + 1]
    <3>1. Op(v, k + 1).open = k + 1 /\ Op(v, k + 1).spans = v.spans
      BY <2>5
    <3> HIDE DEF Op, V, M
    <3> QED
      BY <1>2, <2>1, <2>3, <3>1 DEF ScannedUpto
  <2>6. CASE /\ v.open # 0 /\ Closed(v, k + 1) \in M
             /\ Op(v, k + 1) = [open |-> 0, spans |-> Append(v.spans, Closed(v, k + 1))]
    <3> DEFINE m == Closed(v, k + 1)
    <3>1. m.first = v.open /\ m.last = k + 1
      OBVIOUS
    <3>2. m \in M /\ Op(v, k + 1).open = 0 /\ Op(v, k + 1).spans = Append(v.spans, m)
      BY <2>6
    <3> HIDE DEF Op, V, M, m
    <3>3. \A a \in DOMAIN v.spans : v.spans[a].last < m.first
      BY <1>2, <2>6, <3>1 DEF ScannedUpto
    <3>4. InOrder(v.spans)
      BY <1>2 DEF ScannedUpto
    <3>5. InOrder(Append(v.spans, m))
      BY <2>1, <2>2, <3>2, <3>3, <3>4, ModuleAppended
    <3>6. ASSUME NEW a \in DOMAIN Append(v.spans, m)
          PROVE  Append(v.spans, m)[a].last <= k + 1
      <4>1. \/ a \in DOMAIN v.spans /\ Append(v.spans, m)[a] = v.spans[a]
            \/ Append(v.spans, m)[a] = m
        BY <2>2, <3>2, AppendProperties
      <4> QED
        BY <2>1, <2>3, <3>1, <4>1
    <3> DEFINE w == Op(v, k + 1)
    <3>7. w.open = 0 /\ w.spans = Append(v.spans, m)
      BY <3>2
    <3>8. 0 <= k + 1
      BY <2>1
    <3> HIDE DEF w
    <3>9. ScannedUpto(w, k + 1)
      BY <3>5, <3>6, <3>7, <3>8 DEF ScannedUpto
    <3> QED
      BY <3>9 DEF w
  <2> HIDE DEF Op, V, M, Closed
  <2> QED
    BY <1>1, <2>1, <2>4, <2>5, <2>6
<1>3. start \in V /\ ScannedUpto(start, 0) /\ n \in Nat
  BY DEF ScannedUpto, InOrder
<1>4. /\ seq \in [1 .. n -> E] /\ DOMAIN seq = 1 .. n
      /\ \A k \in 1 .. n : seq[k] = k
  OBVIOUS
<1>5. step \in [V \X E -> V]
  <2> HIDE DEF V, E, Op
  <2> QED
    BY <1>1
<1>6. ModuleSpans(file, lines) = iter[DOMAIN seq].spans
  BY DEF ModuleSpans, FoldLeftDomain, FoldLeft, MapThenFoldSet
<1>7. \A v \in V : v.spans \in Seq(M)
  OBVIOUS
<1>8. \A m \in M : m.file = file /\ m.first \in Nat /\ m.last \in Nat
  OBVIOUS
<1> HIDE DEF Op, V, E, M, Closed, step, n, seq, start
<1>9. PICK g \in [SUBSET (1 .. n) -> V] : FoldEquation(g, n, seq, start, step)
  BY <1>3, <1>4, <1>5, FoldExists
<1>10. \A s \in SUBSET (1 .. n) : s # {} => Max(s) \in s
  BY <1>3, MaxIsOneOfThem
<1>11. ASSUME NEW s \in SUBSET (1 .. n)
       PROVE  g[s] = IF s = {} THEN start ELSE Op(g[s \ {Max(s)}], seq[Max(s)])
  BY <1>1, <1>4, <1>9, <1>10 DEF FoldEquation
<1>12. IsIter(g)
  BY <1>4, <1>9, <1>11
<1>13. IsIter(iter)
  <2> HIDE DEF IsIter
  <2> QED
    BY <1>12
<1>14. iter[{}] = start
  BY <1>4, <1>13
<1>15. ASSUME NEW s \in SUBSET (1 .. n), s # {}, iter[s \ {Max(s)}] \in V
       PROVE  iter[s] = step[<<iter[s \ {Max(s)}], seq[Max(s)]>>]
  <2>1. iter[s] = Op(iter[s \ {Max(s)}], seq[Max(s)])
    BY <1>4, <1>13, <1>15
  <2>2. seq[Max(s)] \in E
    BY <1>4, <1>10, <1>15
  <2> QED
    BY <1>1, <1>15, <2>1, <2>2
<1>16. iter[{}] \in V /\ StepsWithin(iter, V, n, seq, step)
  BY <1>3, <1>14, <1>15 DEF StepsWithin
<1> HIDE DEF iter
<1>17. RunsWithin(iter, V, n, seq, step)
  BY <1>3, <1>4, <1>5, <1>16, FoldRuns
<1> DEFINE T == {k \in Nat : k <= n => ScannedUpto(iter[1 .. k], k)}
<1>18. 0 \in T
  <2>1. 1 .. 0 = {}
    OBVIOUS
  <2> QED
    BY <1>3, <1>14, <2>1
<1>19. ASSUME NEW k \in T PROVE k + 1 \in T
  <2>1. SUFFICES ASSUME k + 1 <= n PROVE ScannedUpto(iter[1 .. k + 1], k + 1)
    OBVIOUS
  <2>2. k \in 0 .. n - 1 /\ k \in 0 .. n /\ k + 1 \in 1 .. n /\ ScannedUpto(iter[1 .. k], k)
    BY <1>3, <2>1
  <2>3. iter[1 .. k + 1] = step[<<iter[1 .. k], seq[k + 1]>>] /\ iter[1 .. k] \in V
    BY <1>17, <2>2 DEF RunsWithin
  <2>4. seq[k + 1] = k + 1 /\ seq[k + 1] \in E
    BY <1>4, <2>2
  <2> QED
    BY <1>1, <1>2, <2>2, <2>3, <2>4
<1>20. n \in T
  <2>1. T \subseteq Nat
    OBVIOUS
  <2> HIDE DEF T
  <2> QED
    BY <1>3, <1>18, <1>19, <2>1, SetInduction
<1>21. ModuleSpans(file, lines) \in Seq(M) /\ InOrder(ModuleSpans(file, lines))
  <2>1. iter[1 .. n] \in V /\ ScannedUpto(iter[1 .. n], n)
    BY <1>3, <1>17, <1>20 DEF RunsWithin
  <2> QED
    BY <1>4, <1>6, <1>7, <2>1 DEF ScannedUpto
<1> QED
  BY <1>8, <1>21

\* Files that are sequences of lines
AreFiles(rtl) == \A f \in Files : rtl[f] \in Seq(Range(rtl[f]))

\* The modules of a tree
ModulesOf(rtl) == UNION {Range(ModuleSpans(f, rtl[f])) : f \in Files}

\* The scan lists the modules of the tree.
LEMMA SpansAreModules ==
  ASSUME NEW rtl, AreFiles(rtl)
  PROVE  Spans(rtl) \in Seq(ModulesOf(rtl))
<1> DEFINE seqs == [k \in DOMAIN FileList |-> ModuleSpans(FileList[k], rtl[FileList[k]])]
           S == ModulesOf(rtl)
<1>1. FileList \in Seq(Files)
  BY FileListAssumption
<1>2. ASSUME NEW f \in Files PROVE ModuleSpans(f, rtl[f]) \in Seq(S)
  <2> DEFINE q == ModuleSpans(f, rtl[f])
  <2>1. PICK M : q \in Seq(M)
    BY ModulesAreInOrder DEF AreFiles
  <2>2. Range(q) \subseteq S
    BY DEF ModulesOf
  <2> HIDE DEF q, S
  <2>3. \A k \in 1 .. Len(q) : q[k] \in S
    BY <2>1, <2>2 DEF Range
  <2>4. q \in Seq(S)
    BY <2>1, <2>3
  <2> QED
    BY <2>4 DEF q
<1>3. seqs \in Seq(Seq(S))
  <2>1. \A k \in DOMAIN FileList : FileList[k] \in Files
    BY <1>1
  <2>2. DOMAIN FileList = 1 .. Len(FileList) /\ Len(FileList) \in Nat
    BY <1>1
  <2> HIDE DEF S
  <2> DEFINE V == Seq(S)
  <2>3. seqs \in [1 .. Len(FileList) -> V]
    BY <1>2, <2>1, <2>2
  <2> HIDE DEF seqs, V
  <2>4. seqs \in Seq(V)
    BY <2>2, <2>3
  <2> QED
    BY <2>4 DEF V
<1> HIDE DEF seqs, S
<1>4. FlattenSeq(seqs) \in Seq(S)
  BY <1>3, FlattenIsSequence
<1> QED
  BY <1>4 DEF Spans, seqs, S

\* The modules of a file do not overlap.
LEMMA ModulesAreApart ==
  ASSUME NEW rtl, AreFiles(rtl)
  PROVE  /\ \A m \in ModulesOf(rtl) : m.file \in Files /\ m.first \in Nat /\ m.last \in Nat
         /\ \A m, o \in ModulesOf(rtl) : \A line \in Int :
               m.file = o.file /\ line \in m.first .. m.last /\ line \in o.first .. o.last => m = o
<1>1. ASSUME NEW f \in Files, NEW m \in Range(ModuleSpans(f, rtl[f]))
      PROVE  m.file = f /\ m.first \in Nat /\ m.last \in Nat
  <2>1. PICK M : /\ ModuleSpans(f, rtl[f]) \in Seq(M)
                 /\ \A x \in M : x.file = f /\ x.first \in Nat /\ x.last \in Nat
    BY ModulesAreInOrder DEF AreFiles
  <2>2. m \in M
    BY <2>1 DEF Range
  <2> QED
    BY <2>1, <2>2
<1>2. ASSUME NEW f \in Files, NEW m \in Range(ModuleSpans(f, rtl[f])),
             NEW o \in Range(ModuleSpans(f, rtl[f])), NEW line \in Int,
             line \in m.first .. m.last, line \in o.first .. o.last
      PROVE  m = o
  <2> DEFINE q == ModuleSpans(f, rtl[f])
  <2>1. PICK M : q \in Seq(M) /\ InOrder(q)
    BY ModulesAreInOrder DEF AreFiles
  <2>2. DOMAIN q = 1 .. Len(q)
    BY <2>1
  <2>3. PICK a \in DOMAIN q, b \in DOMAIN q : m = q[a] /\ o = q[b]
    BY DEF Range
  <2> HIDE DEF q
  <2>4. m.first \in Nat /\ m.last \in Nat /\ o.first \in Nat /\ o.last \in Nat
    BY <1>1
  <2>5. ~(a < b) /\ ~(b < a)
    BY <1>2, <2>1, <2>3, <2>4 DEF InOrder
  <2>6. a = b
    BY <2>2, <2>5
  <2> QED
    BY <2>3, <2>6
<1> QED
  BY <1>1, <1>2 DEF ModulesOf

\* There is at most one module around a line.
LEMMA OneModuleAround ==
  ASSUME NEW rtl, AreFiles(rtl), NEW file, NEW line \in Int
  PROVE  /\ \A m, o \in ModuleAt(Spans(rtl), file, line) : m = o
         /\ \A m \in ModuleAt(Spans(rtl), file, line) : m \in Range(Spans(rtl)) /\ m.file = file
<1> DEFINE spans == Spans(rtl)
           here == {spans[k] : k \in {l \in DOMAIN spans :
                                        IsKnown(spans, l) /\ spans[l].file = file}}
           around == {m \in here : line \in m.first .. m.last}
<1>1. spans \in Seq(ModulesOf(rtl))
  BY SpansAreModules
<1>2. ModuleAt(spans, file, line) =
        IF around # {} THEN around ELSE IF Cardinality(here) = 1 THEN here ELSE {}
  BY DEF ModuleAt
<1> HIDE DEF spans
<1>3. \A m \in here : m \in Range(spans) /\ m.file = file /\ m \in ModulesOf(rtl)
  BY <1>1 DEF Range
<1>4. \A m, o \in around : m = o
  BY <1>3, ModulesAreApart
<1>5. Cardinality(here) = 1 => \A m, o \in here : m = o
  <2>1. IsFiniteSet(DOMAIN spans)
    <3>1. DOMAIN spans = 1 .. Len(spans) /\ Len(spans) \in Nat
      BY <1>1
    <3> QED
      BY <3>1, FS_Interval
  <2> DEFINE D == {l \in DOMAIN spans : IsKnown(spans, l) /\ spans[l].file = file}
             f == [k \in D |-> spans[k]]
  <2>2. IsFiniteSet(D)
    BY <2>1, FS_Subset
  <2>3. f \in Surjection(D, here)
    BY DEF Surjection
  <2>4. IsFiniteSet(here)
    <3> HIDE DEF D, f, here
    <3> QED
      BY <2>2, <2>3, FS_Surjection
  <2>5. Cardinality(here) = 1 => \E x : here = {x}
    <3> HIDE DEF here
    <3> QED
      BY <2>4, FS_Singleton
  <2> QED
    BY <2>5
<1>6. \A m \in ModuleAt(spans, file, line) : m \in here
  BY <1>2
<1>7. \A m, o \in ModuleAt(spans, file, line) : m = o
  <2> HIDE DEF here, around
  <2> QED
    BY <1>2, <1>4, <1>5
<1> QED
  BY <1>3, <1>6, <1>7 DEF spans
----------------------------------------------------------------------------
\* The instances of one module in another are a sequence,
LEMMA InstancesAreASequence ==
  ASSUME NEW parent, NEW child, NEW R, NEW lines \in Seq(R)
  PROVE  \E C : InstancesOf(parent, child, lines) \in Seq(C)
<1> DEFINE n == Len(lines)
           E == 1 .. n
           C == {Connection(parent, child, i, Says(lines[i])) : i \in E}
           V == Seq(C)
           seq == [i \in DOMAIN lines |-> i]
           Op(found, i) ==
             LET says == Says(lines[i])
             IN  IF i \in parent.first + 1 .. parent.last
                      /\ says.kind = "instance" /\ says.name = child.name
                 THEN Append(found, Connection(parent, child, i, says)) ELSE found
           step == [p \in V \X E |-> Op(p[1], p[2])]
           IsIter(iter) == iter = [s \in SUBSET DOMAIN seq |->
                                     IF s = {} THEN <<>> ELSE Op(iter[s \ {Max(s)}], seq[Max(s)])]
           iter == CHOOSE i : IsIter(i)
<1>1. ASSUME NEW v \in V, NEW e \in E PROVE Op(v, e) \in V /\ step[<<v, e>>] = Op(v, e)
  <2>1. Connection(parent, child, e, Says(lines[e])) \in C
    OBVIOUS
  <2> HIDE DEF C
  <2> QED
    BY <2>1, AppendProperties
<1>2. /\ seq \in [1 .. n -> E] /\ DOMAIN seq = 1 .. n /\ n \in Nat /\ <<>> \in V
  OBVIOUS
<1>3. step \in [V \X E -> V]
  <2> HIDE DEF V, E, Op
  <2> QED
    BY <1>1
<1>4. InstancesOf(parent, child, lines) = iter[DOMAIN seq]
  BY DEF InstancesOf, FoldLeftDomain, FoldLeft, MapThenFoldSet
<1> HIDE DEF Op, V, E, C, step, n, seq
<1>5. PICK g \in [SUBSET (1 .. n) -> V] : FoldEquation(g, n, seq, <<>>, step)
  BY <1>2, <1>3, FoldExists
<1>6. \A s \in SUBSET (1 .. n) : s # {} => Max(s) \in s
  BY <1>2, MaxIsOneOfThem
<1>7. ASSUME NEW s \in SUBSET (1 .. n)
      PROVE  g[s] = IF s = {} THEN <<>> ELSE Op(g[s \ {Max(s)}], seq[Max(s)])
  BY <1>1, <1>2, <1>5, <1>6 DEF FoldEquation
<1>8. IsIter(g)
  BY <1>2, <1>5, <1>7
<1>9. IsIter(iter)
  <2> HIDE DEF IsIter
  <2> QED
    BY <1>8
<1>10. iter[{}] \in V
  BY <1>2, <1>9
<1>11. ASSUME NEW s \in SUBSET (1 .. n), s # {}, iter[s \ {Max(s)}] \in V
       PROVE  iter[s] = step[<<iter[s \ {Max(s)}], seq[Max(s)]>>]
  <2>1. iter[s] = Op(iter[s \ {Max(s)}], seq[Max(s)])
    BY <1>2, <1>9, <1>11
  <2>2. seq[Max(s)] \in E
    BY <1>2, <1>6, <1>11
  <2> QED
    BY <1>1, <1>11, <2>1, <2>2
<1>12. StepsWithin(iter, V, n, seq, step)
  BY <1>11 DEF StepsWithin
<1> HIDE DEF iter
<1>13. RunsWithin(iter, V, n, seq, step)
  BY <1>2, <1>3, <1>10, <1>12, FoldRuns
<1> QED
  BY <1>2, <1>4, <1>13 DEF V, RunsWithin

\* and so are the names of the modules,
LEMMA NamesAreASequence ==
  ASSUME NEW M, NEW spans \in Seq(M)
  PROVE  \E N : Names(spans) \in Seq(N)
<1> DEFINE n == Len(spans)
           N == {m.name : m \in M}
           V == Seq(N)
           Op(names, span) ==
             IF Contains(names, span.name) THEN names ELSE Append(names, span.name)
           step == [p \in V \X M |-> Op(p[1], p[2])]
           IsIter(iter) == iter = [s \in SUBSET DOMAIN spans |->
                                     IF s = {} THEN <<>> ELSE Op(iter[s \ {Max(s)}], spans[Max(s)])]
           iter == CHOOSE i : IsIter(i)
<1>1. ASSUME NEW v \in V, NEW e \in M PROVE Op(v, e) \in V /\ step[<<v, e>>] = Op(v, e)
  <2>1. e.name \in N
    OBVIOUS
  <2> HIDE DEF N
  <2> QED
    BY <2>1, AppendProperties
<1>2. /\ spans \in [1 .. n -> M] /\ DOMAIN spans = 1 .. n /\ n \in Nat /\ <<>> \in V
  OBVIOUS
<1>3. step \in [V \X M -> V]
  <2> HIDE DEF V, Op
  <2> QED
    BY <1>1
<1>4. Names(spans) = iter[DOMAIN spans]
  BY DEF Names, FoldLeft, MapThenFoldSet
<1> HIDE DEF Op, V, N, step, n
<1>5. PICK g \in [SUBSET (1 .. n) -> V] : FoldEquation(g, n, spans, <<>>, step)
  BY <1>2, <1>3, FoldExists
<1>6. \A s \in SUBSET (1 .. n) : s # {} => Max(s) \in s
  BY <1>2, MaxIsOneOfThem
<1>7. ASSUME NEW s \in SUBSET (1 .. n)
      PROVE  g[s] = IF s = {} THEN <<>> ELSE Op(g[s \ {Max(s)}], spans[Max(s)])
  BY <1>1, <1>2, <1>5, <1>6 DEF FoldEquation
<1>8. IsIter(g)
  BY <1>2, <1>5, <1>7
<1>9. IsIter(iter)
  <2> HIDE DEF IsIter
  <2> QED
    BY <1>8
<1>10. iter[{}] \in V
  BY <1>2, <1>9
<1>11. ASSUME NEW s \in SUBSET (1 .. n), s # {}, iter[s \ {Max(s)}] \in V
       PROVE  iter[s] = step[<<iter[s \ {Max(s)}], spans[Max(s)]>>]
  <2>1. iter[s] = Op(iter[s \ {Max(s)}], spans[Max(s)])
    BY <1>2, <1>9, <1>11
  <2>2. spans[Max(s)] \in M
    BY <1>2, <1>6, <1>11
  <2> QED
    BY <1>1, <1>11, <2>1, <2>2
<1>12. StepsWithin(iter, V, n, spans, step)
  BY <1>11 DEF StepsWithin
<1> HIDE DEF iter
<1>13. RunsWithin(iter, V, n, spans, step)
  BY <1>2, <1>3, <1>10, <1>12, FoldRuns
<1> QED
  BY <1>2, <1>4, <1>13 DEF V, RunsWithin

\* A sequence of something
IsSequence(q) == \E S : q \in Seq(S)

\* and what is put together from sequences.
LEMMA SequencesFlatten ==
  ASSUME NEW n \in Nat, NEW q, q = [k \in 1 .. n |-> q[k]], \A k \in 1 .. n : IsSequence(q[k])
  PROVE  IsSequence(FlattenSeq(q))
<1> DEFINE S == UNION {Range(q[k]) : k \in 1 .. n}
           V == Seq(S)
<1>1. ASSUME NEW k \in 1 .. n PROVE q[k] \in V
  <2> DEFINE p == q[k]
  <2>1. PICK C : p \in Seq(C)
    BY DEF IsSequence
  <2>2. Range(p) \subseteq S
    OBVIOUS
  <2> HIDE DEF p, S
  <2>3. \A i \in 1 .. Len(p) : p[i] \in S
    BY <2>1, <2>2 DEF Range
  <2>4. p \in Seq(S)
    BY <2>1, <2>3
  <2> QED
    BY <2>4 DEF p
<1> HIDE DEF S, V
<1>2. q \in [1 .. n -> V]
  BY <1>1
<1>3. q \in Seq(V)
  BY <1>2
<1>4. FlattenSeq(q) \in Seq(S)
  BY <1>3, FlattenIsSequence DEF V
<1> QED
  BY <1>4 DEF IsSequence

\* So are the edges of the hierarchy,
LEMMA ConnectionsAreASequence ==
  ASSUME NEW rtl, AreFiles(rtl)
  PROVE  IsSequence(Connections(Spans(rtl), rtl))
<1> DEFINE spans == Spans(rtl)
           children == Names(spans)
           Row(parent) ==
             [c \in DOMAIN children |->
                IF children[c] = parent.name THEN <<>>
                ELSE InstancesOf(parent, ModuleNamed(spans, children[c]), rtl[parent.file])]
           rows == [k \in DOMAIN spans |-> FlattenSeq(Row(spans[k]))]
<1>1. spans \in Seq(ModulesOf(rtl)) /\ \A m \in ModulesOf(rtl) : m.file \in Files
  BY SpansAreModules, ModulesAreApart
<1>2. PICK N : children \in Seq(N)
  BY <1>1, NamesAreASequence
<1> DEFINE n == Len(spans)
           c == Len(children)
<1>3. /\ DOMAIN spans = 1 .. n /\ n \in Nat /\ DOMAIN children = 1 .. c /\ c \in Nat
      /\ \A k \in 1 .. n : spans[k] \in ModulesOf(rtl)
  BY <1>1, <1>2
<1>4. Connections(spans, rtl) = FlattenSeq(rows)
  BY DEF Connections
<1> HIDE DEF spans, children, n, c
<1>5. ASSUME NEW k \in 1 .. n PROVE IsSequence(FlattenSeq(Row(spans[k])))
  <2>1. spans[k].file \in Files
    BY <1>1, <1>3
  <2>2. rtl[spans[k].file] \in Seq(Range(rtl[spans[k].file]))
    BY <2>1 DEF AreFiles
  <2>3. \A child : IsSequence(InstancesOf(spans[k], child, rtl[spans[k].file]))
    BY <2>2, InstancesAreASequence DEF IsSequence
  <2>4. IsSequence(<<>>)
    <3>1. <<>> \in Seq({})
      OBVIOUS
    <3> QED
      BY <3>1 DEF IsSequence
  <2> DEFINE q == Row(spans[k])
  <2>5. \A i \in 1 .. c : IsSequence(q[i])
    BY <1>3, <2>3, <2>4
  <2>6. q = [i \in 1 .. c |-> q[i]]
    BY <1>3
  <2> HIDE DEF q
  <2>7. IsSequence(FlattenSeq(q))
    BY <1>3, <2>5, <2>6, SequencesFlatten
  <2> QED
    BY <2>7 DEF q
<1>6. rows = [k \in 1 .. n |-> rows[k]] /\ \A k \in 1 .. n : IsSequence(rows[k])
  BY <1>3, <1>5
<1> HIDE DEF rows
<1>7. IsSequence(FlattenSeq(rows))
  BY <1>3, <1>6, SequencesFlatten
<1> QED
  BY <1>4, <1>7 DEF spans

\* and the modules next to others.
LEMMA NeighboursAreASequence ==
  ASSUME NEW spans, NEW edges, IsSequence(edges), NEW modules, IsSequence(modules)
  PROVE  IsSequence(Neighbours(spans, edges, modules))
<1> DEFINE Across(m, e) ==
             IF e.parent_module = m.name THEN <<ModuleNamed(spans, e.child_module)>>
             ELSE IF e.child_module = m.name THEN <<ModuleNamed(spans, e.parent_module)>>
             ELSE <<>>
           Row(m) == [l \in DOMAIN edges |-> Across(m, edges[l])]
           rows == [k \in DOMAIN modules |-> FlattenSeq(Row(modules[k]))]
           n == Len(modules)
           c == Len(edges)
<1>1. DOMAIN modules = 1 .. n /\ n \in Nat /\ DOMAIN edges = 1 .. c /\ c \in Nat
  BY DEF IsSequence
<1>2. Neighbours(spans, edges, modules) = FlattenSeq(rows)
  BY DEF Neighbours
<1>3. ASSUME NEW m, NEW e PROVE IsSequence(Across(m, e))
  <2>1. \A x : <<x>> \in Seq({x})
    OBVIOUS
  <2>2. <<>> \in Seq({})
    OBVIOUS
  <2> QED
    BY <2>1, <2>2 DEF IsSequence
<1> HIDE DEF Across, n, c
<1>4. ASSUME NEW m PROVE IsSequence(FlattenSeq(Row(m)))
  <2> DEFINE q == Row(m)
  <2>1. q = [l \in 1 .. c |-> q[l]] /\ \A l \in 1 .. c : IsSequence(q[l])
    BY <1>1, <1>3
  <2> HIDE DEF q
  <2>2. IsSequence(FlattenSeq(q))
    BY <1>1, <2>1, SequencesFlatten
  <2> QED
    BY <2>2 DEF q
<1>5. rows = [k \in 1 .. n |-> rows[k]] /\ \A k \in 1 .. n : IsSequence(rows[k])
  BY <1>1, <1>4
<1> HIDE DEF rows
<1>6. IsSequence(FlattenSeq(rows))
  BY <1>1, <1>5, SequencesFlatten
<1> QED
  BY <1>2, <1>6
----------------------------------------------------------------------------
\* A module more: no module that is selected is lost, and the first one always fits.
LEMMA AddOne ==
  ASSUME NEW E, NEW v \in Seq(E), NEW e \in E
  PROVE  /\ Add(v, e) \in Seq(E) /\ Range(v) \subseteq Range(Add(v, e))
         /\ v = <<>> => Add(v, e) = <<e>>
<1>1. Append(v, e) \in Seq(E) /\ Range(v) \subseteq Range(Append(v, e))
  <2>1. /\ Append(v, e) \in Seq(E) /\ DOMAIN v \subseteq DOMAIN Append(v, e)
        /\ \A k \in DOMAIN v : Append(v, e)[k] = v[k]
    BY AppendProperties
  <2> QED
    BY <2>1 DEF Range
<1>2. Add(v, e) = v \/ Add(v, e) = Append(v, e)
  BY DEF Add
<1>3. ASSUME v = <<>> PROVE Add(v, e) = <<e>>
  <2>1. Range(v) = {} /\ FilesOf(v) = {}
    BY <1>3 DEF Range, FilesOf
  <2>2. Cardinality(FilesOf(v)) = 0
    BY <2>1, FS_EmptySet
  <2>3. Max({1, MaxFiles}) >= 1 /\ Max({1, MaxFiles}) \in Int
    <3>1. MaxFiles \in Int
      BY RequestAssumption
    <3>2. \E x \in {1, MaxFiles} : \A y \in {1, MaxFiles} : x >= y
      <4>1. CASE MaxFiles >= 1
        BY <3>1, <4>1
      <4>2. CASE ~(MaxFiles >= 1)
        BY <3>1, <4>2
      <4> QED
        BY <4>1, <4>2
    <3>3. Max({1, MaxFiles}) \in {1, MaxFiles} /\ \A y \in {1, MaxFiles} : Max({1, MaxFiles}) >= y
      BY <3>2 DEF Max
    <3> QED
      BY <3>1, <3>3
  <2>4. e \notin Range(v) /\ Cardinality(FilesOf(v)) < Max({1, MaxFiles})
    BY <2>1, <2>2, <2>3
  <2>5. Add(v, e) = Append(v, e)
    BY <2>4 DEF Add
  <2> QED
    BY <1>3, <2>5
<1> QED
  BY <1>1, <1>2, <1>3

\* Whatever competes for the files that are shown, what was selected, and else the first
\* module, is selected in the end.
LEMMA AddKeeps ==
  ASSUME NEW E, NEW start \in Seq(E), NEW seq \in Seq(E), NEW m,
         m \in Range(start) \/ (start = <<>> /\ seq # <<>> /\ seq[1] = m)
  PROVE  FoldLeft(Add, start, seq) \in Seq(E) /\ m \in Range(FoldLeft(Add, start, seq))
<1> DEFINE n == Len(seq)
           V == Seq(E)
           step == [p \in V \X E |-> Add(p[1], p[2])]
           IsIter(iter) == iter = [s \in SUBSET DOMAIN seq |->
                                     IF s = {} THEN start ELSE Add(iter[s \ {Max(s)}], seq[Max(s)])]
           iter == CHOOSE i : IsIter(i)
<1>1. ASSUME NEW v \in V, NEW e \in E PROVE Add(v, e) \in V /\ step[<<v, e>>] = Add(v, e)
  BY AddOne
<1>2. /\ seq \in [1 .. n -> E] /\ DOMAIN seq = 1 .. n /\ n \in Nat /\ start \in V
      /\ seq # <<>> => n # 0
  OBVIOUS
<1>3. step \in [V \X E -> V]
  <2> HIDE DEF V
  <2> QED
    BY <1>1
<1>4. FoldLeft(Add, start, seq) = iter[DOMAIN seq]
  BY DEF FoldLeft, MapThenFoldSet
<1>20. ASSUME NEW v \in V, NEW e \in E
       PROVE  (m \in Range(v) => m \in Range(Add(v, e))) /\ (v = <<>> => Add(v, e) = <<e>>)
  <2> HIDE DEF step, n, IsIter, iter
  <2>1. Range(v) \subseteq Range(Add(v, e)) /\ (v = <<>> => Add(v, e) = <<e>>)
    BY AddOne
  <2> QED
    BY <2>1
<1> HIDE DEF V, step, n
<1>5. PICK g \in [SUBSET (1 .. n) -> V] : FoldEquation(g, n, seq, start, step)
  BY <1>2, <1>3, FoldExists
<1>6. \A s \in SUBSET (1 .. n) : s # {} => Max(s) \in s
  BY <1>2, MaxIsOneOfThem
<1>7. ASSUME NEW s \in SUBSET (1 .. n)
      PROVE  g[s] = IF s = {} THEN start ELSE Add(g[s \ {Max(s)}], seq[Max(s)])
  BY <1>1, <1>2, <1>5, <1>6 DEF FoldEquation
<1>8. IsIter(g)
  BY <1>2, <1>5, <1>7
<1>9. IsIter(iter)
  <2> HIDE DEF IsIter
  <2> QED
    BY <1>8
<1>10. iter[{}] = start
  BY <1>2, <1>9
<1>11. ASSUME NEW s \in SUBSET (1 .. n), s # {}, iter[s \ {Max(s)}] \in V
       PROVE  iter[s] = step[<<iter[s \ {Max(s)}], seq[Max(s)]>>]
  <2>1. iter[s] = Add(iter[s \ {Max(s)}], seq[Max(s)])
    BY <1>2, <1>9, <1>11
  <2>2. seq[Max(s)] \in E
    BY <1>2, <1>6, <1>11
  <2> QED
    BY <1>1, <1>11, <2>1, <2>2
<1>12. iter[{}] \in V /\ StepsWithin(iter, V, n, seq, step)
  BY <1>2, <1>10, <1>11 DEF StepsWithin
<1> HIDE DEF iter
<1>13. RunsWithin(iter, V, n, seq, step)
  BY <1>2, <1>3, <1>12, FoldRuns
<1>14. ASSUME NEW k \in 0 .. n - 1
       PROVE  iter[1 .. k + 1] = Add(iter[1 .. k], seq[k + 1]) /\ iter[1 .. k] \in V /\ seq[k + 1] \in E
  <2>1. k + 1 \in 1 .. n /\ k \in 0 .. n
    BY <1>2
  <2> QED
    BY <1>1, <1>2, <1>13, <2>1 DEF RunsWithin
<1> DEFINE T == {k \in Nat : k <= n /\ (k # 0 \/ start # <<>>) => m \in Range(iter[1 .. k])}
<1>15. 1 .. 0 = {} /\ Range(<<>>) = {}
  BY DEF Range
<1>16. 0 \in T
  BY <1>10, <1>15
<1>17. ASSUME NEW k \in T PROVE k + 1 \in T
  <2>1. SUFFICES ASSUME k + 1 <= n PROVE m \in Range(iter[1 .. k + 1])
    OBVIOUS
  <2>2. k \in 0 .. n - 1 /\ k <= n
    BY <1>2, <2>1
  <2>3. CASE m \in Range(iter[1 .. k])
    BY <1>14, <1>20, <2>2, <2>3
  <2>4. CASE m \notin Range(iter[1 .. k])
    <3>1. k = 0 /\ start = <<>> /\ seq[1] = m
      BY <1>15, <2>2, <2>4
    <3>2. iter[1 .. k] = <<>> /\ seq[k + 1] = m
      BY <1>10, <1>15, <3>1
    <3>3. iter[1 .. k + 1] = Add(iter[1 .. k], seq[k + 1]) /\ iter[1 .. k] \in V /\ seq[k + 1] \in E
      BY <1>14, <2>2
    <3>4. iter[1 .. k + 1] = <<m>>
      BY <1>20, <3>2, <3>3
    <3> QED
      BY <3>4 DEF Range
  <2> QED
    BY <2>3, <2>4
<1>18. n \in T
  <2>1. T \subseteq Nat
    OBVIOUS
  <2> HIDE DEF T
  <2> QED
    BY <1>2, <1>16, <1>17, <2>1, SetInduction
<1>19. m \in Range(iter[1 .. n])
  BY <1>2, <1>15, <1>18
<1> QED
  BY <1>2, <1>4, <1>13, <1>19 DEF V, RunsWithin

\* The module around the first link of a path is the first of its modules.
LEMMA FirstOfPath ==
  ASSUME NEW spans, NEW n \in Nat, n # 0, NEW E, Anchors(path) \in [1 .. n -> E],
         \A link \in E : IsFiniteSet(ModulesAt(spans, link)),
         NEW m, ModulesAt(spans, Anchors(path)[1]) = {m}
  PROVE  /\ IsSequence(PathModules(spans)) /\ PathModules(spans) # <<>>
         /\ PathModules(spans)[1] = m
<1> DEFINE M == UNION {ModulesAt(spans, link) : link \in E}
           V == Seq(M)
           W == {q \in V : q # <<>> /\ q[1] = m}
           seq == Anchors(path)
           Op(modules, link) == modules \o SetToSeq(ModulesAt(spans, link) \ Range(modules))
           step == [p \in V \X E |-> Op(p[1], p[2])]
           IsIter(iter) == iter = [s \in SUBSET DOMAIN seq |->
                                     IF s = {} THEN <<>> ELSE Op(iter[s \ {Max(s)}], seq[Max(s)])]
           iter == CHOOSE i : IsIter(i)
<1>1. ASSUME NEW v \in V, NEW e \in E
      PROVE  /\ Op(v, e) \in V /\ step[<<v, e>>] = Op(v, e)
             /\ v \in W => Op(v, e) \in W
             /\ v = <<>> /\ ModulesAt(spans, e) = {m} => Op(v, e) = <<m>> /\ <<m>> \in W
  <2> DEFINE new == ModulesAt(spans, e) \ Range(v)
             q == SetToSeq(new)
  <2>1. IsFiniteSet(new) /\ new \subseteq M
    <3>1. IsFiniteSet(ModulesAt(spans, e)) /\ new \subseteq ModulesAt(spans, e)
      OBVIOUS
    <3> HIDE DEF new
    <3>2. IsFiniteSet(new)
      BY <3>1, FS_Subset
    <3> QED
      BY <3>1, <3>2
  <2>2. v = <<>> => new = ModulesAt(spans, e)
    BY DEF Range
  <2>3. Op(v, e) = v \o q /\ step[<<v, e>>] = Op(v, e)
    OBVIOUS
  <2>4. m \in ModulesAt(spans, e) => m \in M
    OBVIOUS
  <2> HIDE DEF new, M, Op, step
  <2>5. q \in Seq(new) /\ (new = {m} => Len(q) = 1 /\ q[1] = m)
    BY <2>1, SequenceOfSet
  <2>6. q \in V
    <3> HIDE DEF q
    <3> QED
      BY <2>1, <2>5
  <2> HIDE DEF q
  <2>7. Op(v, e) \in V
    BY <2>3, <2>6, ConcatProperties
  <2>8. ASSUME v \in W PROVE Op(v, e) \in W
    <3>1. Len(v) >= 1 /\ Len(v) \in Nat /\ v[1] = m
      BY <2>8
    <3>2. Len(v \o q) = Len(v) + Len(q) /\ Len(q) \in Nat /\ (v \o q)[1] = v[1]
      BY <2>6, <3>1
    <3>3. v \o q # <<>>
      BY <3>1, <3>2
    <3> QED
      BY <2>3, <2>7, <3>1, <3>2, <3>3
  <2>9. ASSUME v = <<>>, ModulesAt(spans, e) = {m} PROVE Op(v, e) = <<m>> /\ <<m>> \in W
    <3>1. Len(q) = 1 /\ q[1] = m
      BY <2>2, <2>5, <2>9
    <3>2. q = <<m>>
      BY <2>6, <3>1
    <3>3. <<>> \o q = q
      BY <2>6
    <3> QED
      BY <2>3, <2>4, <2>9, <3>2, <3>3
  <2> QED
    BY <2>3, <2>7, <2>8, <2>9
<1>2. seq \in [1 .. n -> E] /\ DOMAIN seq = 1 .. n /\ <<>> \in V
  OBVIOUS
<1>3. step \in [V \X E -> V]
  <2> HIDE DEF V, Op, W
  <2> QED
    BY <1>1
<1>4. PathModules(spans) = iter[DOMAIN seq]
  BY DEF PathModules, FoldLeft, MapThenFoldSet
<1>5. W \subseteq V /\ \A q \in W : q # <<>> /\ q[1] = m
  OBVIOUS
<1>6. ModulesAt(spans, seq[1]) = {m}
  OBVIOUS
<1> HIDE DEF Op, V, W, M, step, seq
<1>7. PICK g \in [SUBSET (1 .. n) -> V] : FoldEquation(g, n, seq, <<>>, step)
  BY <1>2, <1>3, FoldExists
<1>8. \A s \in SUBSET (1 .. n) : s # {} => Max(s) \in s
  BY MaxIsOneOfThem
<1>9. ASSUME NEW s \in SUBSET (1 .. n)
      PROVE  g[s] = IF s = {} THEN <<>> ELSE Op(g[s \ {Max(s)}], seq[Max(s)])
  BY <1>1, <1>2, <1>7, <1>8 DEF FoldEquation
<1>10. IsIter(g)
  BY <1>2, <1>7, <1>9
<1>11. IsIter(iter)
  <2> HIDE DEF IsIter
  <2> QED
    BY <1>10
<1>12. iter[{}] = <<>>
  BY <1>2, <1>11
<1>13. ASSUME NEW s \in SUBSET (1 .. n), s # {}, iter[s \ {Max(s)}] \in V
       PROVE  iter[s] = step[<<iter[s \ {Max(s)}], seq[Max(s)]>>]
  <2>1. iter[s] = Op(iter[s \ {Max(s)}], seq[Max(s)])
    BY <1>2, <1>11, <1>13
  <2>2. seq[Max(s)] \in E
    BY <1>2, <1>8, <1>13
  <2> QED
    BY <1>1, <1>13, <2>1, <2>2
<1>14. iter[{}] \in V /\ StepsWithin(iter, V, n, seq, step)
  BY <1>2, <1>12, <1>13 DEF StepsWithin
<1> HIDE DEF iter
<1>15. RunsWithin(iter, V, n, seq, step)
  BY <1>2, <1>3, <1>14, FoldRuns
<1>16. ASSUME NEW k \in 0 .. n - 1
       PROVE  iter[1 .. k + 1] = Op(iter[1 .. k], seq[k + 1]) /\ iter[1 .. k] \in V /\ seq[k + 1] \in E
  <2>1. k + 1 \in 1 .. n /\ k \in 0 .. n
    OBVIOUS
  <2> QED
    BY <1>1, <1>2, <1>15, <2>1 DEF RunsWithin
<1> DEFINE T == {k \in Nat : k + 1 <= n => iter[1 .. k + 1] \in W}
<1>17. 0 \in T
  <2>1. 0 \in 0 .. n - 1 /\ 1 .. 0 = {}
    OBVIOUS
  <2>2. iter[1 .. 0 + 1] = Op(iter[1 .. 0], seq[0 + 1]) /\ iter[1 .. 0] \in V /\ seq[0 + 1] \in E
    BY <1>16, <2>1
  <2>3. iter[1 .. 0] = <<>> /\ ModulesAt(spans, seq[0 + 1]) = {m}
    BY <1>6, <1>12, <2>1
  <2>4. Op(iter[1 .. 0], seq[0 + 1]) \in W
    BY <1>1, <2>2, <2>3
  <2> QED
    BY <2>2, <2>4
<1>18. ASSUME NEW k \in T PROVE k + 1 \in T
  <2>1. SUFFICES ASSUME (k + 1) + 1 <= n PROVE iter[1 .. (k + 1) + 1] \in W
    OBVIOUS
  <2>2. k + 1 \in 0 .. n - 1 /\ iter[1 .. k + 1] \in W
    BY <2>1
  <2>3. /\ iter[1 .. (k + 1) + 1] = Op(iter[1 .. k + 1], seq[(k + 1) + 1])
        /\ iter[1 .. k + 1] \in V /\ seq[(k + 1) + 1] \in E
    BY <1>16, <2>2
  <2>4. Op(iter[1 .. k + 1], seq[(k + 1) + 1]) \in W
    BY <1>1, <2>2, <2>3
  <2> QED
    BY <2>3, <2>4
<1>19. n - 1 \in T
  <2>1. T \subseteq Nat /\ n - 1 \in Nat
    OBVIOUS
  <2> HIDE DEF T
  <2> QED
    BY <1>17, <1>18, <2>1, SetInduction
<1>20. iter[1 .. n] \in W
  BY <1>19
<1> QED
  BY <1>2, <1>4, <1>5, <1>20 DEF V, IsSequence
----------------------------------------------------------------------------
(***************************************************************************)
(* The line a path is blamed on is shown.  Its module is the first of the  *)
(* modules of the path, so it is selected whatever competes for the files; *)
(* its slice reaches over the line, or the only slice does.                *)
(***************************************************************************)

\* What is asked of the manifest: the declared files are those of design.rtl_dir.
FilesInside == \A f \in Files : InRtlDir[Base[f]] = f

\* A slice shows the first line of a link, as it was measured.
Shows(s, l) ==
    /\ s.file = l.file /\ l.first \in s.first .. s.last
    /\ s.text[l.first - s.first + 1] = base[l.file][l.first]

\* The ends of a finite set of lines
LEMMA LinesHaveEnds ==
  ASSUME NEW S \in SUBSET Nat, IsFiniteSet(S), NEW line \in S
  PROVE  /\ Min(S) \in Nat /\ Min(S) <= line
         /\ Max(S) \in Nat /\ line <= Max(S)
<1>1. Min(S) \in S /\ \A k \in S : Min(S) <= k
  <2>1. \E x \in S : \A k \in S : x <= k
    BY LeastNatural
  <2> QED
    BY <2>1 DEF Min
<1>2. Max(S) \in S /\ \A k \in S : Max(S) >= k
  <2> DEFINE n == Cardinality(S)
  <2>1. n \in Nat /\ ExistsBijection(1 .. n, S)
    BY FS_CardinalityType
  <2>2. PICK f \in [1 .. n -> S] : \A x \in S : \E i \in 1 .. n : f[i] = x
    BY <2>1 DEF ExistsBijection, Bijection, Surjection
  <2> HIDE DEF n
  <2> DEFINE T == 1 .. n
  <2>3. T \in SUBSET (1 .. n) /\ T # {} /\ \A i \in T : f[i] \in Int
    <3>1. PICK i \in 1 .. n : f[i] = line
      BY <2>2
    <3>2. \A j \in 1 .. n : f[j] \in S
      BY <2>2
    <3>3. \A x \in S : x \in Int
      OBVIOUS
    <3> QED
      BY <3>1, <3>2, <3>3
  <2> HIDE DEF T
  <2>4. PICK i \in T : \A j \in T : f[j] <= f[i]
    BY <2>1, <2>3, GreatestExists
  <2>5. f[i] \in S /\ \A x \in S : f[i] >= x
    BY <2>2, <2>4 DEF T
  <2>6. \E x \in S : \A y \in S : x >= y
    BY <2>5
  <2> QED
    BY <2>6 DEF Max
<1> QED
  BY <1>1, <1>2

\* A slice around lines on either side shows a line.
LEMMA SliceShows ==
  ASSUME sources = base, NEW l, base[l.file] \in Seq(Range(base[l.file])),
         l.first \in DOMAIN base[l.file],
         NEW lines, Min(lines) \in Nat, Min(lines) <= l.first,
         Max(lines) \in Nat, l.first <= Max(lines)
  PROVE  Shows(Slice(l.file, lines), l)
<1> DEFINE now == base[l.file]
           first == Max({1, Min(lines) - Margin})
           last == Min({Len(now), Max(lines) + Margin})
<1>1. Margin \in Nat /\ Len(now) \in Nat /\ l.first \in 1 .. Len(now)
  BY RequestAssumption
<1>2. first \in Nat /\ 1 <= first /\ first <= l.first
  <2> DEFINE a == Min(lines) - Margin
  <2>1. a \in Int /\ a <= l.first
    BY <1>1
  <2> HIDE DEF a
  <2>2. \E x \in {1, a} : \A y \in {1, a} : x >= y
    <3>1. CASE a >= 1
      BY <2>1, <3>1
    <3>2. CASE ~(a >= 1)
      BY <2>1, <3>2
    <3> QED
      BY <3>1, <3>2
  <2>3. Max({1, a}) \in {1, a} /\ \A y \in {1, a} : Max({1, a}) >= y
    BY <2>2 DEF Max
  <2> QED
    BY <1>1, <2>1, <2>3 DEF a
<1>3. last \in Nat /\ last <= Len(now) /\ l.first <= last
  <2> DEFINE a == Max(lines) + Margin
             c == Len(now)
  <2>1. a \in Nat /\ l.first <= a /\ c \in Nat
    BY <1>1
  <2> HIDE DEF a, c
  <2>2. \E x \in {c, a} : \A y \in {c, a} : x <= y
    <3>1. CASE a <= c
      BY <2>1, <3>1
    <3>2. CASE ~(a <= c)
      BY <2>1, <3>2
    <3> QED
      BY <3>1, <3>2
  <2>3. Min({c, a}) \in {c, a} /\ \A y \in {c, a} : Min({c, a}) <= y
    BY <2>2 DEF Min
  <2> QED
    BY <1>1, <2>1, <2>3 DEF a, c
<1>4. /\ Slice(l.file, lines).file = l.file /\ Slice(l.file, lines).first = first
      /\ Slice(l.file, lines).last = last
      /\ Slice(l.file, lines).text = SubSeq(now, first, last)
  BY DEF Slice
<1> HIDE DEF first, last
<1>5. SubSeq(now, first, last)[l.first - first + 1] = now[l.first]
  <2> DEFINE i == l.first - first + 1
  <2>1. i \in 1 .. (last - first) + 1 /\ first + i - 1 = l.first
    BY <1>1, <1>2, <1>3
  <2> HIDE DEF i
  <2>2. now \in Seq(Range(now))
    OBVIOUS
  <2> HIDE DEF now
  <2>3. SubSeq(now, first, last)[i] = now[first + i - 1]
    BY <1>1, <1>2, <1>3, <2>1, <2>2
  <2> QED
    BY <2>1, <2>3 DEF i
<1> QED
  BY <1>1, <1>2, <1>3, <1>4, <1>5 DEF Shows

\* What is blamed lies in a file, at a line that was measured.
LEMMA LinkInside ==
  ASSUME FilesInside, NEW l, Traced(l)
  PROVE  /\ l.file \in Files /\ l.first \in Nat /\ l.last \in Nat
         /\ l.first \in DOMAIN base[l.file]
         /\ \E src \in Attributes(measured.modules,
                          IF l.exact THEN l.netlist_object ELSE <<Last(l.netlist_object)>>) :
               src[1].file = l.file /\ src[1].first = l.first
<1>1. PICK src \in Attributes(measured.modules,
                          IF l.exact THEN l.netlist_object ELSE <<Last(l.netlist_object)>>) :
         /\ src \in Seq(Pieces(base)) /\ src # <<>>
         /\ l.file = InRtlDir[Base[src[1].file]] /\ l.first = src[1].first /\ l.last = src[1].last
  BY DEF Traced
<1> HIDE DEF Attributes
<1>2. src[1] \in Pieces(base) /\ src[1].file \in Files
  BY <1>1, FirstPiece
<1>3. l.file = src[1].file
  BY <1>1, <1>2 DEF FilesInside
<1>4. src[1].first \in Nat /\ src[1].last \in Nat /\ src[1].first \in DOMAIN base[src[1].file]
  BY <1>2 DEF Pieces
<1> QED
  BY <1>1, <1>2, <1>3, <1>4

\* To show a link is to show the piece of the attribute it comes from.
LEMMA ShownIsThePiece ==
  ASSUME FilesInside, NEW l, Traced(l), NEW s, Shows(s, l)
  PROVE  \E src \in Attributes(measured.modules,
                          IF l.exact THEN l.netlist_object ELSE <<Last(l.netlist_object)>>) :
            ShowsLine(s, src[1])
BY LinkInside DEF Shows, ShowsLine

\* The modules around a link of at most one are finitely many.
LEMMA ModulesAtAreFinite ==
  ASSUME FilesInside, AreFiles(base), NEW link, Linked(link)
  PROVE  IsFiniteSet(ModulesAt(Spans(base), link))
<1>1. CASE link = {}
  BY <1>1, FS_EmptySet DEF ModulesAt
<1>2. CASE link # {}
  <2>1. PICK l \in link : link = {l} /\ Traced(l)
    BY <1>2 DEF Linked
  <2>2. l.first \in Int
    <3>1. Traced(l)
      BY <2>1
    <3>2. l.first \in Nat
      BY <3>1, LinkInside
    <3> QED
      BY <3>2
  <2> DEFINE at == ModuleAt(Spans(base), l.file, l.first)
  <2>3. \A m, o \in at : m = o
    BY <2>2, OneModuleAround
  <2>4. ModulesAt(Spans(base), link) = at
    BY <2>1 DEF ModulesAt
  <2> HIDE DEF at
  <2>5. at = {} \/ \E m : at = {m}
    BY <2>3
  <2>6. IsFiniteSet(at)
    BY <2>5, FS_EmptySet, FS_Singleton
  <2> QED
    BY <2>4, <2>6
<1> QED
  BY <1>1, <1>2

\* The links of a mapped path, the one it is blamed on first
LEMMA AnchorsAreLinked ==
  ASSUME NEW n \in Nat, IsMapped(path, n)
  PROVE  /\ \A link \in Range(Anchors(path)) : Linked(link)
         /\ Anchors(path)[1] = DominantSource(path)
         /\ \E k \in Nat : k # 0 /\ Anchors(path) \in [1 .. k -> Range(Anchors(path))]
<1> DEFINE ends == <<DominantSource(path), path.endpoint_source, path.startpoint_source>>
           inner == [i \in 1 .. n |-> path.elements[i].link]
           E == {DominantSource(path), path.endpoint_source, path.startpoint_source}
                  \cup {path.elements[i].link : i \in 1 .. n}
           m == 3
<1>1. Anchors(path) = ends \o inner
  BY DEF Anchors, IsMapped
<1>2. ends \in [1 .. m -> E] /\ inner \in [1 .. n -> E] /\ m \in Nat /\ m + n \in Nat /\ m + n # 0
  OBVIOUS
<1>3. \A link \in E : Linked(link)
  BY DominantIsLinked DEF IsMapped
<1>4. (ends \o inner)[1] = DominantSource(path)
  OBVIOUS
<1> HIDE DEF ends, inner, E, m
<1>5. ends \o inner \in [1 .. m + n -> E]
  BY <1>2, Concatenated
<1> DEFINE all == ends \o inner
<1> HIDE DEF all
<1>6. all \in [1 .. m + n -> E]
  BY <1>5 DEF all
<1>7. all \in [1 .. m + n -> Range(all)] /\ Range(all) \subseteq E
  BY <1>6 DEF Range
<1> QED
  BY <1>1, <1>2, <1>3, <1>4, <1>7 DEF all

\* The scan of the files as they were measured selects the module around what the path
\* is blamed on, or nothing at all.
LEMMA BlamedIsSelected ==
  ASSUME FilesInside, TargetsAreScanned, base \in Trees, measured \in Baselines[base],
         NEW l \in DominantSource(path), NEW spans, spans = Spans(base),
         NEW edges, edges = Connections(spans, base)
  PROVE  LET around == ModuleAt(spans, l.file, l.first)
             selected == Selected(spans, edges)
         IN  IF around = {} THEN selected = <<>>
             ELSE /\ IsSequence(selected) /\ around \subseteq Range(selected)
                  /\ around \subseteq Range(PathModules(spans))
<1> DEFINE around == ModuleAt(spans, l.file, l.first)
           near == FoldLeft(Add, <<>>, PathModules(spans))
           selected == Selected(spans, edges)
<1>1. AreFiles(base) /\ IsNetlist(measured.modules, base) /\ IsReport(measured.report)
  BY RequestAssumption DEF AreFiles
<1>2. PICK n \in Nat : IsMapped(path, n)
  BY <1>1, PathIsMapped
<1> DEFINE E == Range(Anchors(path))
<1>3. /\ \A link \in E : Linked(link)
      /\ Anchors(path)[1] = DominantSource(path)
      /\ \E k \in Nat : k # 0 /\ Anchors(path) \in [1 .. k -> E]
  BY <1>2, AnchorsAreLinked
<1> HIDE DEF E
<1>10. PICK k \in Nat : k # 0 /\ Anchors(path) \in [1 .. k -> E]
  BY <1>3
<1>4. Linked(DominantSource(path))
  BY <1>2, DominantIsLinked
<1>5. DominantSource(path) = {l} /\ Traced(l)
  BY <1>4 DEF Linked
<1>6. ModulesAt(spans, DominantSource(path)) = around
  BY <1>5 DEF ModulesAt
<1>7. selected = FoldLeft(Add, near, Neighbours(spans, edges, near))
  BY DEF Selected
<1>8. CASE around = {}
  <2>1. \A link \in Range(Anchors(path)) : ModulesAt(spans, link) = {}
    <3>1. PathOf(measured) = path
      BY DEF path
    <3>2. \/ \A x \in DominantSource(path) : ModuleAt(Spans(base), x.file, x.first) # {}
          \/ \A link \in Range(Anchors(path)) : ModulesAt(Spans(base), link) = {}
      BY <3>1 DEF TargetsAreScanned
    <3> QED
      BY <1>8, <3>2
  <2>2. \A link \in E : ModulesAt(spans, link) = {}
    BY <2>1 DEF E
  <2>3. PathModules(spans) = <<>>
    BY <1>10, <2>2, NoModulesAround
  <2>4. Neighbours(spans, edges, <<>>) = <<>>
    BY DEF Neighbours, FlattenSeq
  <2> QED
    BY <1>7, <1>8, <2>3, <2>4, NothingAdded
<1>9. CASE around # {}
  <2>1. \A m, o \in around : m = o
    <3>1. l.first \in Nat
      BY <1>5, LinkInside
    <3>2. l.first \in Int
      BY <3>1
    <3> QED
      BY <1>1, <3>2, OneModuleAround
  <2>2. PICK m : around = {m}
    BY <1>9, <2>1
  <2>3. \A link \in E : IsFiniteSet(ModulesAt(spans, link))
    BY <1>1, <1>3, ModulesAtAreFinite
  <2>4. /\ IsSequence(PathModules(spans)) /\ PathModules(spans) # <<>>
        /\ PathModules(spans)[1] = m
    BY <1>3, <1>6, <1>10, <2>2, <2>3, FirstOfPath
  <2> DEFINE first == PathModules(spans)
  <2>5. PICK S : first \in Seq(S)
    BY <2>4 DEF IsSequence
  <2>6. first # <<>> /\ first[1] = m
    BY <2>4
  <2> HIDE DEF first
  <2>7. m \in Range(first)
    BY <2>5, <2>6 DEF Range
  <2>8. near \in Seq(S) /\ m \in Range(near)
    <3>1. <<>> \in Seq(S)
      OBVIOUS
    <3>2. FoldLeft(Add, <<>>, first) \in Seq(S) /\ m \in Range(FoldLeft(Add, <<>>, first))
      BY <2>5, <2>6, <3>1, AddKeeps
    <3> QED
      BY <3>2 DEF first
  <2> HIDE DEF near
  <2> DEFINE next == Neighbours(spans, edges, near)
  <2>9. IsSequence(edges) /\ IsSequence(near)
    BY <1>1, <2>8, ConnectionsAreASequence DEF IsSequence
  <2>10. IsSequence(next)
    BY <2>9, NeighboursAreASequence
  <2> HIDE DEF next
  <2>11. PICK N : next \in Seq(N)
    BY <2>10 DEF IsSequence
  <2> DEFINE U == S \cup N
  <2>12. near \in Seq(U) /\ next \in Seq(U)
    BY <2>8, <2>11
  <2> HIDE DEF U
  <2>13. FoldLeft(Add, near, next) \in Seq(U) /\ m \in Range(FoldLeft(Add, near, next))
    BY <2>8, <2>12, AddKeeps
  <2>14. selected \in Seq(U) /\ m \in Range(selected)
    BY <1>7, <2>13 DEF next
  <2> HIDE DEF selected, around
  <2>15. IsSequence(selected) /\ around \subseteq Range(selected)
    BY <2>2, <2>14 DEF IsSequence
  <2>16. around \subseteq Range(PathModules(spans))
    BY <2>2, <2>7 DEF first
  <2> QED
    BY <1>9, <2>15, <2>16 DEF around, selected
<1> QED
  BY <1>8, <1>9

\* A set of at most one link is finite, and so are the lines it begins and ends at.
LEMMA LinkIsFinite ==
  ASSUME NEW link, Linked(link)
  PROVE  IsFiniteSet(link)
<1>1. link = {} \/ \E l : link = {l}
  BY DEF Linked
<1> QED
  BY <1>1, FS_EmptySet, FS_Singleton

\* The lines of finitely many links
LEMMA LinesAreFinite ==
  ASSUME NEW S, IsFiniteSet(S)
  PROVE  IsFiniteSet({l.first : l \in S}) /\ IsFiniteSet({l.last : l \in S})
<1>1. [l \in S |-> l.first] \in Surjection(S, {l.first : l \in S})
  BY DEF Surjection
<1>2. [l \in S |-> l.last] \in Surjection(S, {l.last : l \in S})
  BY DEF Surjection
<1> QED
  BY <1>1, <1>2, FS_Surjection

\* The slice of the module around a link shows it.
LEMMA FocusShows ==
  ASSUME FilesInside, sources = base, base \in Trees, measured \in Baselines[base],
         scanned.spans = Spans(base), NEW l \in DominantSource(path),
         NEW m \in scanned.seeds, ModuleAt(scanned.spans, l.file, l.first) = {m}
  PROVE  Shows(Slice(m.file, Focus(m)), l)
<1> DEFINE links == UNION {DominantSource(path), path.endpoint_source, path.startpoint_source}
           on == {x \in links : ModuleAt(scanned.spans, x.file, x.first) = {m}}
           lines == {x.first : x \in on} \cup {x.last : x \in on}
<1>1. AreFiles(base) /\ IsNetlist(measured.modules, base) /\ IsReport(measured.report)
  BY RequestAssumption DEF AreFiles
<1>2. PICK n \in Nat : IsMapped(path, n)
  BY <1>1, PathIsMapped
<1>3. /\ Linked(DominantSource(path)) /\ Linked(path.endpoint_source)
      /\ Linked(path.startpoint_source)
  BY <1>2, DominantIsLinked DEF IsMapped
<1>4. \A x \in links : Traced(x)
  BY <1>3 DEF Linked
<1>5. l \in on
  OBVIOUS
<1>6. IsFiniteSet(lines)
  <2> DEFINE a == DominantSource(path)
             b == path.endpoint_source
             c == path.startpoint_source
  <2>1. links = (a \cup b) \cup c
    OBVIOUS
  <2>2. IsFiniteSet(links)
    <3>1. IsFiniteSet(a) /\ IsFiniteSet(b) /\ IsFiniteSet(c)
      BY <1>3, LinkIsFinite
    <3> HIDE DEF a, b, c, links
    <3>2. IsFiniteSet(a \cup b)
      BY <3>1, FS_Union
    <3>3. IsFiniteSet((a \cup b) \cup c)
      BY <3>1, <3>2, FS_Union
    <3> QED
      BY <2>1, <3>3
  <2>3. on \subseteq links
    OBVIOUS
  <2> HIDE DEF links, on
  <2>4. IsFiniteSet(on)
    BY <2>2, <2>3, FS_Subset
  <2>5. IsFiniteSet({x.first : x \in on}) /\ IsFiniteSet({x.last : x \in on})
    BY <2>4, LinesAreFinite
  <2> QED
    BY <2>5, FS_Union
<1>7. \A x \in on : x.first \in Nat /\ x.last \in Nat
  BY <1>4, LinkInside
<1>8. lines \in SUBSET Nat /\ l.first \in lines
  BY <1>5, <1>7
<1>9. Focus(m) = lines
  <2>1. lines # {}
    BY <1>8
  <2> QED
    BY <2>1 DEF Focus
<1>10. l.file \in Files /\ l.first \in DOMAIN base[l.file] /\ l.first \in Nat /\ Traced(l)
  <2>1. Traced(l)
    BY <1>4
  <2> QED
    BY <2>1, LinkInside
<1>11. m.file = l.file
  <2>1. l.first \in Int
    BY <1>10
  <2> QED
    BY <1>1, <2>1, OneModuleAround
<1>12. base[l.file] \in Seq(Range(base[l.file]))
  BY <1>1, <1>10 DEF AreFiles
<1> HIDE DEF lines
<1>13. /\ Min(lines) \in Nat /\ Min(lines) <= l.first
       /\ Max(lines) \in Nat /\ l.first <= Max(lines)
  BY <1>6, <1>8, LinesHaveEnds
<1>14. Shows(Slice(l.file, lines), l)
  BY <1>10, <1>12, <1>13, SliceShows
<1> QED
  BY <1>9, <1>11, <1>14

\* If no module is shown, the slice around the link shows it.
LEMMA FallbackShowsBlamed ==
  ASSUME FilesInside, sources = base, base \in Trees, measured \in Baselines[base],
         NEW l \in DominantSource(path)
  PROVE  \E s \in Range(Fallback) : Shows(s, l)
<1>1. AreFiles(base) /\ IsNetlist(measured.modules, base) /\ IsReport(measured.report)
  BY RequestAssumption DEF AreFiles
<1>2. PICK n \in Nat : IsMapped(path, n)
  BY <1>1, PathIsMapped
<1>3. DominantSource(path) = {l} /\ Traced(l)
  BY <1>2, DominantIsLinked DEF Linked
<1>4. /\ l.file \in Files /\ l.first \in Nat /\ l.last \in Nat
      /\ l.first \in DOMAIN base[l.file]
  BY <1>3, LinkInside
<1> DEFINE shows == {x \in DominantSource(path) : x.file \in Files}
           link == SetToSeq(shows)
<1>5. shows = {l}
  BY <1>3, <1>4
<1>6. Fallback = [k \in DOMAIN link |-> Slice(link[k].file, {link[k].first, link[k].last})]
  BY DEF Fallback
<1> HIDE DEF shows
<1>7. link \in Seq(shows) /\ Len(link) = 1 /\ link[1] = l
  <2>1. IsFiniteSet(shows)
    BY <1>5, FS_Singleton
  <2> QED
    BY <1>5, <2>1, SequenceOfSet
<1> HIDE DEF link
<1>8. DOMAIN link = 1 .. 1 /\ 1 \in DOMAIN link
  BY <1>7
<1> DEFINE lines == {l.first, l.last}
<1>9. Fallback[1] = Slice(l.file, lines) /\ 1 \in DOMAIN Fallback
  BY <1>6, <1>7, <1>8
<1>10. lines \in SUBSET Nat /\ l.first \in lines /\ IsFiniteSet(lines)
  <2>1. IsFiniteSet({l.first} \cup {l.last})
    BY FS_Singleton, FS_Union
  <2>2. lines = {l.first} \cup {l.last}
    OBVIOUS
  <2> QED
    BY <1>4, <2>1, <2>2
<1>11. base[l.file] \in Seq(Range(base[l.file]))
  BY <1>1, <1>4 DEF AreFiles
<1> HIDE DEF lines
<1>12. /\ Min(lines) \in Nat /\ Min(lines) <= l.first
       /\ Max(lines) \in Nat /\ l.first <= Max(lines)
  BY <1>10, LinesHaveEnds
<1>13. Shows(Slice(l.file, lines), l)
  BY <1>4, <1>11, <1>12, SliceShows
<1> QED
  BY <1>9, <1>13 DEF Range

\* A slice that shows it was cut
Shown(l) == \E s \in Range(rtl_context) : Shows(s, l)

\* What is blamed is shown, or its module is still to be; if it lies in none, none is.
Aimed(l) ==
    LET around == ModuleAt(scanned.spans, l.file, l.first)
    IN  IF around = {} THEN scanned.selected = <<>> /\ rtl_context = <<>>
        ELSE \/ Shown(l)
             \/ /\ IsSequence(scanned.selected)
                /\ around \subseteq Range(scanned.selected) /\ around \subseteq scanned.seeds

\* The request about files that nobody edited since the baseline
TInv ==
    /\ pc \in {"hierarchy", "slices", "propose"} => base \in Trees /\ measured \in Baselines[base]
    /\ pc \in {"hierarchy", "slices"} /\ ~edited => sources = base
    /\ pc = "slices" /\ ~edited =>
         /\ "selected" \in DOMAIN scanned /\ scanned.spans = Spans(base)
         /\ \A l \in DominantSource(path) : Aimed(l)
    /\ pc = "propose" /\ ~edited => \A l \in DominantSource(path) : Shown(l)

\* What is blamed is settled when the baseline is measured.
LEMMA BlameStays == UNCHANGED measured => DominantSource(path)' = DominantSource(path)
BY DEF DominantSource, path, PathOf, NoPath, MapPath, MappedElements

\* The scan aims at what is blamed.
LEMMA ScanAims ==
  ASSUME FilesInside, TargetsAreScanned, MInv, TInv, ScanHierarchy
  PROVE  TInv'
<1>1. /\ pc = "hierarchy" /\ pc' = "slices" /\ rtl_context = <<>> /\ rtl_context' = <<>>
      /\ UNCHANGED <<base, edited, measured, sources>>
  BY DEF ScanHierarchy, MInv
<1>2. base \in Trees /\ measured \in Baselines[base]
  BY <1>1 DEF TInv
<1>3. ASSUME ~edited
      PROVE  /\ sources = base /\ "selected" \in DOMAIN scanned' /\ scanned'.spans = Spans(base)
             /\ \A l \in DominantSource(path) : Aimed(l)'
  <2>1. sources = base
    BY <1>1, <1>3 DEF TInv
  <2> DEFINE spans == Spans(base)
             edges == Connections(spans, base)
  <2>2. /\ scanned'.spans = spans /\ scanned'.selected = Selected(spans, edges)
        /\ scanned'.seeds = Range(PathModules(spans)) /\ "selected" \in DOMAIN scanned'
    BY <2>1 DEF ScanHierarchy
  <2>3. spans = Spans(base) /\ edges = Connections(spans, base)
    OBVIOUS
  <2> HIDE DEF spans, edges
  <2>4. ASSUME NEW l \in DominantSource(path) PROVE Aimed(l)'
    <3> DEFINE around == ModuleAt(spans, l.file, l.first)
    <3>1. IF around = {} THEN Selected(spans, edges) = <<>>
          ELSE /\ IsSequence(Selected(spans, edges)) /\ around \subseteq Range(Selected(spans, edges))
               /\ around \subseteq Range(PathModules(spans))
      BY <1>2, <2>3, BlamedIsSelected
    <3> QED
      BY <1>1, <2>2, <3>1 DEF Aimed, Shown
  <2> QED
    BY <2>1, <2>2, <2>3, <2>4
<1>4. DominantSource(path)' = DominantSource(path)
  BY <1>1, BlameStays
<1> QED
  BY <1>1, <1>2, <1>3, <1>4 DEF TInv

\* A slice is cut of the module of what is blamed, or its module is still to be shown.
LEMMA CutKeepsAim ==
  ASSUME FilesInside, PInv, TInv, CutSlice
  PROVE  TInv'
<1>1. /\ pc = "slices" /\ pc' = "slices" /\ UNCHANGED <<base, edited, measured, sources>>
      /\ scanned.selected # <<>>
      /\ scanned' = [scanned EXCEPT !.selected = Tail(scanned.selected)]
  BY DEF CutSlice
<1>2. base \in Trees /\ measured \in Baselines[base]
  BY <1>1 DEF TInv
<1>3. DominantSource(path)' = DominantSource(path)
  BY <1>1, BlameStays
<1> DEFINE m == Head(scanned.selected)
           new == Slice(m.file, Focus(m))
<1>4. rtl_context' = Append(rtl_context, new)
  BY DEF CutSlice
<1> HIDE DEF new
<1>5. PICK S : rtl_context \in Seq(S)
  BY <1>1 DEF PInv, Checked
<1>6. Range(rtl_context) \subseteq Range(rtl_context') /\ new \in Range(rtl_context')
  BY <1>4, <1>5 DEF Range
<1>7. ASSUME ~edited, NEW l \in DominantSource(path) PROVE Aimed(l)'
  <2>1. sources = base /\ scanned.spans = Spans(base) /\ Aimed(l)
    BY <1>1, <1>7 DEF TInv
  <2> DEFINE around == ModuleAt(scanned.spans, l.file, l.first)
  <2>2. around # {}
    BY <1>1, <2>1 DEF Aimed
  <2>3. around = ModuleAt(scanned.spans, l.file, l.first)
    OBVIOUS
  <2>4. CASE Shown(l)
    <3>1. Shown(l)'
      BY <1>1, <1>6, <2>4 DEF Shown, Shows
    <3>2. scanned'.spans = scanned.spans
      BY <1>1
    <3> QED
      BY <2>2, <3>1, <3>2 DEF Aimed
  <2>5. CASE /\ IsSequence(scanned.selected)
             /\ around \subseteq Range(scanned.selected) /\ around \subseteq scanned.seeds
    <3> HIDE DEF around
    <3>1. PICK M : scanned.selected \in Seq(M)
      BY <2>5 DEF IsSequence
    <3>2. CASE around = {m}
      <4>1. Shows(new, l)
        <5>1. m \in scanned.seeds
          BY <2>5, <3>2
        <5>2. ModuleAt(scanned.spans, l.file, l.first) = {m}
          BY <2>3, <3>2
        <5> HIDE DEF m
        <5>3. Shows(Slice(m.file, Focus(m)), l)
          BY <1>2, <2>1, <5>1, <5>2, FocusShows
        <5> QED
          BY <5>3 DEF new
      <4>2. Shown(l)'
        BY <1>1, <1>6, <4>1 DEF Shown, Shows
      <4>3. scanned'.spans = scanned.spans
        BY <1>1
      <4> QED
        BY <2>2, <2>3, <4>2, <4>3 DEF Aimed
    <3>3. CASE around # {m}
      <4>1. PICK o \in around : around = {o}
        <5>1. AreFiles(base)
          BY <1>2, RequestAssumption DEF AreFiles
        <5>2. l.first \in Int
          <6>1. PICK n \in Nat : IsMapped(path, n)
            BY <1>2, RequestAssumption, PathIsMapped
          <6>2. Traced(l)
            BY <6>1, DominantIsLinked DEF Linked
          <6>3. l.first \in Nat
            BY <6>2, LinkInside
          <6> QED
            BY <6>3
        <5>3. \A x, y \in ModuleAt(Spans(base), l.file, l.first) : x = y
          BY <5>1, <5>2, OneModuleAround
        <5> QED
          BY <2>1, <2>2, <2>3, <5>3
      <4>2. o # m /\ o \in Range(scanned.selected)
        BY <2>5, <3>3, <4>1
      <4>3. o \in Range(Tail(scanned.selected)) /\ Tail(scanned.selected) \in Seq(M)
        <5> DEFINE q == scanned.selected
        <5>1. q \in Seq(M) /\ q # <<>> /\ m = q[1]
          BY <1>1, <3>1
        <5>2. PICK i \in DOMAIN q : q[i] = o
          BY <4>2 DEF Range
        <5> HIDE DEF q, m
        <5>3. i # 1 /\ i \in 1 .. Len(q) /\ Len(q) \in Nat
          BY <4>2, <5>1, <5>2
        <5>4. i - 1 \in 1 .. Len(q) - 1 /\ (i - 1) + 1 = i
          BY <5>3
        <5>5. /\ Tail(q) \in Seq(M) /\ DOMAIN Tail(q) = 1 .. Len(q) - 1
              /\ Tail(q)[i - 1] = q[(i - 1) + 1]
          BY <5>1, <5>3, <5>4
        <5> QED
          BY <5>2, <5>4, <5>5 DEF Range, q
      <4>4. /\ scanned'.selected = Tail(scanned.selected) /\ scanned'.seeds = scanned.seeds
            /\ scanned'.spans = scanned.spans
        BY <1>1, <1>7 DEF TInv
      <4>5. /\ IsSequence(scanned'.selected) /\ around \subseteq Range(scanned'.selected)
            /\ around \subseteq scanned'.seeds
        BY <2>5, <4>1, <4>3, <4>4 DEF IsSequence
      <4> QED
        BY <2>2, <2>3, <4>4, <4>5 DEF Aimed
    <3> QED
      BY <3>2, <3>3
  <2> QED
    BY <2>1, <2>2, <2>4, <2>5 DEF Aimed
<1>8. ~edited => /\ "selected" \in DOMAIN scanned' /\ scanned'.spans = Spans(base)
                 /\ sources = base
  BY <1>1 DEF TInv
<1> QED
  BY <1>1, <1>2, <1>3, <1>7, <1>8 DEF TInv

\* The request is complete: what is blamed is shown.
LEMMA BuildShows ==
  ASSUME FilesInside, TInv, BuildRequest
  PROVE  TInv'
<1>1. /\ pc = "slices" /\ pc' = "propose" /\ UNCHANGED <<base, edited, measured, sources>>
      /\ scanned.selected = <<>>
      /\ rtl_context' = IF rtl_context # <<>> THEN rtl_context ELSE Fallback
  BY DEF BuildRequest
<1>2. base \in Trees /\ measured \in Baselines[base]
  BY <1>1 DEF TInv
<1>3. DominantSource(path)' = DominantSource(path)
  BY <1>1, BlameStays
<1>4. Range(<<>>) = {}
  BY DEF Range
<1>5. ASSUME ~edited, NEW l \in DominantSource(path) PROVE Shown(l)'
  <2>1. sources = base /\ scanned.spans = Spans(base) /\ Aimed(l)
    BY <1>1, <1>5 DEF TInv
  <2>2. CASE ModuleAt(scanned.spans, l.file, l.first) = {}
    <3>1. rtl_context' = Fallback
      BY <1>1, <2>1, <2>2 DEF Aimed
    <3>2. \E s \in Range(Fallback) : Shows(s, l)
      BY <1>2, <2>1, FallbackShowsBlamed
    <3>3. PICK s \in Range(rtl_context') : Shows(s, l)
      BY <3>1, <3>2
    <3> QED
      BY <1>1, <3>3 DEF Shown, Shows
  <2>3. CASE ModuleAt(scanned.spans, l.file, l.first) # {}
    <3>1. Shown(l)
      BY <1>1, <1>4, <2>1, <2>3 DEF Aimed
    <3>2. PICK s \in Range(rtl_context) : Shows(s, l)
      BY <3>1 DEF Shown
    <3>3. rtl_context' = rtl_context
      BY <1>1, <1>4, <3>2
    <3> QED
      BY <1>1, <3>2, <3>3 DEF Shown, Shows
  <2> QED
    BY <2>2, <2>3
<1> QED
  BY <1>1, <1>2, <1>3, <1>5 DEF TInv

\* Nothing else touches the request.
LEMMA OthersKeepTInv ==
  ASSUME TInv, EditWhileBuilding \/ Propose \/ Answering \/ EditSource \/ UNCHANGED vars
  PROVE  TInv'
<1>1. CASE pc' \notin {"hierarchy", "slices", "propose"}
  BY <1>1 DEF TInv
<1>2. CASE EditWhileBuilding
  BY <1>2 DEF EditWhileBuilding, TInv
<1>3. CASE /\ pc' \in {"hierarchy", "slices", "propose"}
           /\ Propose \/ Answering \/ EditSource \/ UNCHANGED vars
  <2>1. /\ UNCHANGED <<pc, base, edited, measured, scanned, rtl_context>>
        /\ pc \in {"hierarchy", "slices"} => UNCHANGED sources
    BY <1>3 DEF Propose, Answering, Validate, ParseDiff, RefusePath, PathsAllowed,
                CheckBudget, ReadSources, PatchHunk, NoMatch, Patched, CheckIdentifiers,
                WriteCandidate, EditSource, Go, Keep, vars, requestVars
  <2>2. DominantSource(path)' = DominantSource(path)
    BY <2>1, BlameStays
  <2>3. \A l : (Shown(l)' <=> Shown(l)) /\ (Aimed(l)' <=> Aimed(l))
    BY <2>1 DEF Shown, Shows, Aimed
  <2> QED
    BY <2>1, <2>2, <2>3 DEF TInv
<1> QED
  BY <1>1, <1>2, <1>3

\* Whatever modules compete for the files that are shown, and however their slices are
\* cut, the line a path is blamed on is among what is shown, if nobody edited the RTL
\* since the baseline (request_builder.py:204-319).
THEOREM TargetsAreShown ==
  ASSUME FilesInside, TargetsAreScanned PROVE Spec => []TargetIsShown
<1>1. NamesResolve
  BY DEF FilesInside, NamesResolve
<1>2. Init => MInv
  BY RequestAssumption DEF Init, RequestInit, MInv
<1>3. PInv /\ MInv /\ [Next]_vars => MInv'
  BY <1>1, BuildingKeepsMInv, AnsweringKeepsMInv DEF Next
<1>4. Init => TInv
  BY DEF Init, RequestInit, TInv
<1>5. PInv /\ MInv /\ TInv /\ [Next]_vars => TInv'
  BY ScanAims, CutKeepsAim, BuildShows, OthersKeepTInv DEF Next, Building
<1>6. MInv /\ TInv => TargetIsShown
  <2> SUFFICES ASSUME MInv, TInv, pc = "propose", ~edited, NEW l \in DominantSource(path)
               PROVE  \E src \in Attributes(measured.modules,
                                   IF l.exact THEN l.netlist_object ELSE <<Last(l.netlist_object)>>) :
                         \E s \in Range(rtl_context) : ShowsLine(s, src[1])
    BY DEF TargetIsShown, BlamedIsShown
  <2>1. PICK s \in Range(rtl_context) : Shows(s, l)
    BY DEF TInv, Shown
  <2>2. PICK n \in Nat : IsMapped(path, n)
    BY PathIsMapped DEF MInv
  <2>3. Traced(l)
    BY <2>2, DominantIsLinked DEF Linked
  <2>4. PICK src \in Attributes(measured.modules,
                          IF l.exact THEN l.netlist_object ELSE <<Last(l.netlist_object)>>) :
          ShowsLine(s, src[1])
    BY <2>1, <2>3, ShownIsThePiece
  <2> HIDE DEF Attributes
  <2> QED
    BY <2>1, <2>4
<1> QED
  BY <1>2, <1>3, <1>4, <1>5, <1>6, ChecksHold, PTL DEF Spec
----------------------------------------------------------------------------
(***************************************************************************)
(* How far two files are apart: a longest common subsequence, as a table   *)
(* of the first lines of both.  Where two files have the same lines, the   *)
(* table grows by one; a line more in one of them lets it grow by one at   *)
(* most.  So to replace a lines by b others takes a file no further from a *)
(* third than a + b.                                                       *)
(***************************************************************************)

\* The length of a longest common subsequence of the first lines of two files, as a table
\* indexed by how many lines they are
LcsEquation(lcs, s, t) ==
    lcs = [at \in (0 .. Len(s)) \X (0 .. Len(t)) |->
             IF at[1] = 0 \/ at[2] = 0 THEN 0
             ELSE IF s[at[1]] = t[at[2]] THEN lcs[<<at[1] - 1, at[2] - 1>>] + 1
             ELSE Max({lcs[<<at[1] - 1, at[2]>>], lcs[<<at[1], at[2] - 1>>]})]

Lcs(s, t) == CHOOSE lcs : LcsEquation(lcs, s, t)

\* The reference definition takes such a table.
LEMMA DifferenceIsChosen ==
  ASSUME NEW s, NEW t
  PROVE  Difference(s, t) = Len(s) + Len(t) - 2 * Lcs(s, t)[<<Len(s), Len(t)>>]
BY DEF Difference, Lcs, LcsEquation

\* Where lines are equal the table grows by one, elsewhere it is the greater of the two
\* before.
EntryOf(lcs, s, t, i, j) ==
    /\ i = 0 \/ j = 0 => lcs[<<i, j>>] = 0
    /\ i # 0 /\ j # 0 /\ s[i] = t[j] => lcs[<<i, j>>] = lcs[<<i - 1, j - 1>>] + 1
    /\ i # 0 /\ j # 0 /\ s[i] # t[j] =>
         /\ lcs[<<i - 1, j>>] <= lcs[<<i, j>>] /\ lcs[<<i, j - 1>>] <= lcs[<<i, j>>]
         /\ lcs[<<i, j>>] \in {lcs[<<i - 1, j>>], lcs[<<i, j - 1>>]}

IsTable(lcs, s, t, m, n) ==
    \A i \in 0 .. m, j \in 0 .. n : lcs[<<i, j>>] \in Nat /\ EntryOf(lcs, s, t, i, j)

EntryIn(lcs, s, t, i, j) ==
    IF i = 0 \/ j = 0 THEN 0
    ELSE IF s[i] = t[j] THEN lcs[<<i - 1, j - 1>>] + 1
    ELSE Max({lcs[<<i - 1, j>>], lcs[<<i, j - 1>>]})

IsComputed(lcs, s, t, m, n) ==
    \A i \in 0 .. m, j \in 0 .. n : lcs[<<i, j>>] = EntryIn(lcs, s, t, i, j)

\* The greater of two numbers
LEMMA MaxOfTwo ==
  ASSUME NEW a \in Nat, NEW b \in Nat
  PROVE  Max({a, b}) = IF a >= b THEN a ELSE b
BY DEF Max

\* Some table satisfies the equation.
LEMMA TableExists ==
  ASSUME NEW m \in Nat, NEW n \in Nat, NEW s, NEW t
  PROVE  \E lcs \in [(0 .. m) \X (0 .. n) -> Nat] : IsComputed(lcs, s, t, m, n)
<1> DEFINE P == (0 .. m) \X (0 .. n)
           Entry(f, i, j) == IF i = 0 \/ j = 0 THEN 0
                 ELSE IF s[i] = t[j] THEN f[<<i - 1, j - 1>>] + 1
                 ELSE Max({f[<<i - 1, j>>], f[<<i, j - 1>>]})
           Upto(f, k) == \A i \in 0 .. m, j \in 0 .. n : i + j <= k => f[<<i, j>>] = Entry(f, i, j)
           T == {k \in Nat : \E f \in [P -> Nat] : Upto(f, k)}
<1>1. 0 \in T
  <2>1. [p \in P |-> 0] \in [P -> Nat] /\ Upto([p \in P |-> 0], 0)
    OBVIOUS
  <2> QED
    BY <2>1
<1>2. ASSUME NEW k \in T PROVE k + 1 \in T
  <2>1. k \in Nat /\ \E f \in [P -> Nat] : Upto(f, k)
    <3> HIDE DEF P, Upto
    <3> QED
      OBVIOUS
  <2>2. PICK f \in [P -> Nat] : Upto(f, k)
    <3> HIDE DEF P, Upto
    <3> QED
      BY <2>1
  <2> DEFINE g == [p \in P |-> IF p[1] + p[2] <= k THEN f[p] ELSE Entry(f, p[1], p[2])]
  <2>3. ASSUME NEW i \in 0 .. m, NEW j \in 0 .. n PROVE Entry(f, i, j) \in Nat
    <3>1. CASE i = 0 \/ j = 0
      BY <3>1
    <3>2. CASE i # 0 /\ j # 0
      <4>1. <<i - 1, j - 1>> \in P /\ <<i - 1, j>> \in P /\ <<i, j - 1>> \in P
        BY <3>2
      <4>2. f[<<i - 1, j - 1>>] \in Nat /\ f[<<i - 1, j>>] \in Nat /\ f[<<i, j - 1>>] \in Nat
        BY <4>1
      <4>3. Max({f[<<i - 1, j>>], f[<<i, j - 1>>]}) \in Nat
        <5> DEFINE a == f[<<i - 1, j>>]
                   b == f[<<i, j - 1>>]
        <5>1. a \in Nat /\ b \in Nat
          BY <4>2
        <5> HIDE DEF a, b
        <5>2. Max({a, b}) = IF a >= b THEN a ELSE b
          BY <5>1, MaxOfTwo
        <5>3. Max({a, b}) \in Nat
          BY <5>1, <5>2
        <5> QED
          BY <5>3 DEF a, b
      <4> QED
        BY <3>2, <4>2, <4>3
    <3> QED
      BY <3>1, <3>2
  <2>4. g \in [P -> Nat]
    <3> HIDE DEF Entry
    <3> QED
      BY <2>1, <2>3
  <2>5. ASSUME NEW i \in 0 .. m, NEW j \in 0 .. n, i + j <= k
        PROVE  g[<<i, j>>] = f[<<i, j>>]
    BY <2>5
  <2>6. ASSUME NEW i \in 0 .. m, NEW j \in 0 .. n, i + j <= k + 1
        PROVE  Entry(g, i, j) = Entry(f, i, j)
    <3>1. SUFFICES ASSUME i # 0, j # 0 PROVE Entry(g, i, j) = Entry(f, i, j)
      BY DEF Entry
    <3>2. /\ g[<<i - 1, j - 1>>] = f[<<i - 1, j - 1>>]
          /\ g[<<i - 1, j>>] = f[<<i - 1, j>>] /\ g[<<i, j - 1>>] = f[<<i, j - 1>>]
      <4>1. /\ i - 1 \in 0 .. m /\ j - 1 \in 0 .. n /\ (i - 1) + (j - 1) <= k
            /\ (i - 1) + j <= k /\ i + (j - 1) <= k
        BY <2>1, <2>6, <3>1
      <4> HIDE DEF g, Entry, Upto, P, T
      <4> QED
        BY <2>5, <4>1
    <3> HIDE DEF g
    <3> QED
      BY <3>2
  <2>7. ASSUME NEW i \in 0 .. m, NEW j \in 0 .. n, i + j <= k + 1
        PROVE  g[<<i, j>>] = Entry(f, i, j)
    <3>1. CASE i + j <= k
      <4> HIDE DEF Entry, g
      <4> QED
        BY <2>2, <2>5, <3>1
    <3>2. CASE ~(i + j <= k)
      <4> HIDE DEF Entry
      <4> QED
        BY <3>2
    <3> QED
      BY <3>1, <3>2
  <2>8. Upto(g, k + 1)
    <3> HIDE DEF g, Entry
    <3> QED
      BY <2>6, <2>7
  <2> HIDE DEF g, Upto, P
  <2> QED
    BY <2>1, <2>4, <2>8
<1>3. T \subseteq Nat
  OBVIOUS
<1>4. m + n \in T
  <2> HIDE DEF T
  <2> QED
    BY <1>1, <1>2, <1>3, SetInduction
<1>5. PICK f \in [P -> Nat] : Upto(f, m + n)
  <2> HIDE DEF P, Upto
  <2> QED
    BY <1>4
<1>6. ASSUME NEW i \in 0 .. m, NEW j \in 0 .. n PROVE f[<<i, j>>] = Entry(f, i, j)
  <2>1. i + j <= m + n
    OBVIOUS
  <2> HIDE DEF Entry
  <2> QED
    BY <1>5, <2>1
<1>7. IsComputed(f, s, t, m, n)
  BY <1>6 DEF IsComputed, EntryIn
<1> HIDE DEF P
<1>8. f \in [P -> Nat] /\ IsComputed(f, s, t, m, n)
  BY <1>5, <1>7
<1> QED
  BY <1>8 DEF P

\* What is chosen by the equation is such a table.
LEMMA TableIsComputed ==
  ASSUME NEW s, NEW t, Len(s) \in Nat, Len(t) \in Nat
  PROVE  IsComputed(Lcs(s, t), s, t, Len(s), Len(t))
<1> DEFINE m == Len(s)
           n == Len(t)
           P == (0 .. m) \X (0 .. n)
<1>1. PICK f \in [P -> Nat] : IsComputed(f, s, t, m, n)
  <2> HIDE DEF m, n
  <2> QED
    BY TableExists DEF m, n
<1>2. LcsEquation(f, s, t)
  <2>1. ASSUME NEW at \in P PROVE f[at] = EntryIn(f, s, t, at[1], at[2])
    <3>1. PICK i \in 0 .. m, j \in 0 .. n : at = <<i, j>>
      OBVIOUS
    <3> QED
      BY <1>1, <3>1 DEF IsComputed
  <2>2. f = [at \in P |-> EntryIn(f, s, t, at[1], at[2])]
    BY <1>1, <2>1
  <2> QED
    BY <2>2 DEF LcsEquation, EntryIn
<1>3. LcsEquation(Lcs(s, t), s, t)
  BY <1>2 DEF Lcs
<1> DEFINE g == Lcs(s, t)
<1>4. g = [at \in P |-> EntryIn(g, s, t, at[1], at[2])]
  BY <1>3 DEF LcsEquation, EntryIn
<1> HIDE DEF g, m, n
<1>5. ASSUME NEW i \in 0 .. m, NEW j \in 0 .. n PROVE g[<<i, j>>] = EntryIn(g, s, t, i, j)
  <2>1. <<i, j>> \in P /\ <<i, j>>[1] = i /\ <<i, j>>[2] = j
    OBVIOUS
  <2> HIDE DEF P
  <2>2. g[<<i, j>>] = EntryIn(g, s, t, <<i, j>>[1], <<i, j>>[2])
    BY <1>4, <2>1
  <2> QED
    BY <2>1, <2>2
<1> QED
  BY <1>5 DEF IsComputed, g, m, n

\* What satisfies the equation is such a table.
LEMMA ComputedIsTable ==
  ASSUME NEW m \in Nat, NEW n \in Nat, NEW s, NEW t, NEW lcs, IsComputed(lcs, s, t, m, n)
  PROVE  IsTable(lcs, s, t, m, n)
<1> DEFINE T == {k \in Nat : \A i \in 0 .. m, j \in 0 .. n : i + j <= k =>
                               lcs[<<i, j>>] \in Nat /\ EntryOf(lcs, s, t, i, j)}
<1>1. 0 \in T
  <2>1. ASSUME NEW i \in 0 .. m, NEW j \in 0 .. n, i + j <= 0
        PROVE  lcs[<<i, j>>] \in Nat /\ EntryOf(lcs, s, t, i, j)
    <3>1. i = 0 /\ lcs[<<i, j>>] = EntryIn(lcs, s, t, i, j)
      BY <2>1 DEF IsComputed
    <3> QED
      BY <3>1 DEF EntryIn, EntryOf
  <2> QED
    BY <2>1
<1>2. ASSUME NEW k \in T PROVE k + 1 \in T
  <2>1. /\ k \in Nat
        /\ \A i \in 0 .. m, j \in 0 .. n : i + j <= k => lcs[<<i, j>>] \in Nat
    OBVIOUS
  <2>2. ASSUME NEW i \in 0 .. m, NEW j \in 0 .. n, i + j <= k + 1
        PROVE  lcs[<<i, j>>] \in Nat /\ EntryOf(lcs, s, t, i, j)
    <3> HIDE DEF T
    <3>1. lcs[<<i, j>>] = EntryIn(lcs, s, t, i, j)
      BY DEF IsComputed
    <3>2. CASE i = 0 \/ j = 0
      BY <3>1, <3>2 DEF EntryIn, EntryOf
    <3>3. CASE i # 0 /\ j # 0
      <4>1. /\ i - 1 \in 0 .. m /\ j - 1 \in 0 .. n /\ (i - 1) + (j - 1) <= k
            /\ (i - 1) + j <= k /\ i + (j - 1) <= k
        BY <2>1, <2>2, <3>3
      <4> DEFINE a == lcs[<<i - 1, j>>]
                 b == lcs[<<i, j - 1>>]
                 c == lcs[<<i - 1, j - 1>>]
                 e == lcs[<<i, j>>]
      <4>2. a \in Nat /\ b \in Nat /\ c \in Nat
        BY <2>1, <4>1
      <4>3. e = IF s[i] = t[j] THEN c + 1 ELSE Max({a, b})
        BY <3>1, <3>3 DEF EntryIn
      <4> HIDE DEF a, b, c, e
      <4>4. Max({a, b}) = IF a >= b THEN a ELSE b
        BY <4>2, MaxOfTwo
      <4>5. /\ e \in Nat
            /\ s[i] = t[j] => e = c + 1
            /\ s[i] # t[j] => a <= e /\ b <= e /\ e \in {a, b}
        BY <4>2, <4>3, <4>4
      <4> QED
        BY <3>3, <4>5 DEF a, b, c, e, EntryOf
    <3> QED
      BY <3>2, <3>3
  <2> QED
    BY <2>1, <2>2
<1>3. T \subseteq Nat
  OBVIOUS
<1>4. m + n \in T
  <2> HIDE DEF T
  <2> QED
    BY <1>1, <1>2, <1>3, SetInduction
<1>5. ASSUME NEW i \in 0 .. m, NEW j \in 0 .. n
      PROVE  lcs[<<i, j>>] \in Nat /\ EntryOf(lcs, s, t, i, j)
  <2>1. i + j <= m + n
    OBVIOUS
  <2> QED
    BY <1>4, <2>1
<1> QED
  BY <1>5 DEF IsTable

\* The difference of two files is given by a table.
LEMMA DifferenceHasTable ==
  ASSUME NEW s, NEW t, Len(s) \in Nat, Len(t) \in Nat
  PROVE  \E lcs : /\ IsTable(lcs, s, t, Len(s), Len(t))
                  /\ Difference(s, t) = Len(s) + Len(t) - 2 * lcs[<<Len(s), Len(t)>>]
BY TableIsComputed, ComputedIsTable, DifferenceIsChosen

\* What a table has before an entry
Near(lcs, i, j) ==
    /\ i # 0 => lcs[<<i - 1, j>>] <= lcs[<<i, j>>] /\ lcs[<<i, j>>] <= lcs[<<i - 1, j>>] + 1
    /\ j # 0 => lcs[<<i, j - 1>>] <= lcs[<<i, j>>] /\ lcs[<<i, j>>] <= lcs[<<i, j - 1>>] + 1

\* One line more in one of the files adds at most one to a table.
LEMMA TableGrowsSlowly ==
  ASSUME NEW m \in Nat, NEW n \in Nat, NEW s, NEW t, NEW lcs, IsTable(lcs, s, t, m, n)
  PROVE  \A i \in 0 .. m, j \in 0 .. n : Near(lcs, i, j)
<1> DEFINE T == {k \in Nat : \A i \in 0 .. m, j \in 0 .. n : i + j <= k => Near(lcs, i, j)}
<1>1. 0 \in T
  BY DEF Near
<1>2. ASSUME NEW k \in T PROVE k + 1 \in T
  <2>1. k \in Nat /\ \A i \in 0 .. m, j \in 0 .. n : i + j <= k => Near(lcs, i, j)
    OBVIOUS
  <2>2. ASSUME NEW i \in 0 .. m, NEW j \in 0 .. n, i + j <= k + 1 PROVE Near(lcs, i, j)
    <3> HIDE DEF T
    <3>1. lcs[<<i, j>>] \in Nat /\ EntryOf(lcs, s, t, i, j)
      BY DEF IsTable
    <3>2. CASE i = 0 \/ j = 0
      <4>1. i # 0 => i - 1 \in 0 .. m
        OBVIOUS
      <4>2. j # 0 => j - 1 \in 0 .. n
        OBVIOUS
      <4>3. i # 0 => lcs[<<i - 1, j>>] = 0
        BY <3>2, <4>1 DEF IsTable, EntryOf
      <4>4. j # 0 => lcs[<<i, j - 1>>] = 0
        BY <3>2, <4>2 DEF IsTable, EntryOf
      <4> QED
        BY <3>1, <3>2, <4>3, <4>4 DEF EntryOf, Near
    <3>3. CASE i # 0 /\ j # 0
      <4>1. /\ i - 1 \in 0 .. m /\ j - 1 \in 0 .. n
            /\ (i - 1) + j <= k /\ i + (j - 1) <= k
        BY <2>1, <2>2, <3>3
      <4> DEFINE a == lcs[<<i - 1, j>>]
                 b == lcs[<<i, j - 1>>]
                 c == lcs[<<i - 1, j - 1>>]
                 e == lcs[<<i, j>>]
      <4>2. a \in Nat /\ b \in Nat /\ c \in Nat /\ e \in Nat
        BY <3>1, <4>1 DEF IsTable
      <4>3. c <= a /\ a <= c + 1
        <5>1. Near(lcs, i - 1, j)
          BY <2>1, <4>1
        <5> QED
          BY <3>3, <5>1 DEF Near
      <4>4. c <= b /\ b <= c + 1
        <5>1. Near(lcs, i, j - 1)
          BY <2>1, <4>1
        <5> QED
          BY <3>3, <5>1 DEF Near
      <4>5. \/ e = c + 1
            \/ a <= e /\ b <= e /\ e \in {a, b}
        BY <3>1, <3>3 DEF EntryOf
      <4> HIDE DEF a, b, c, e
      <4>6. a <= e /\ e <= a + 1 /\ b <= e /\ e <= b + 1
        BY <4>2, <4>3, <4>4, <4>5
      <4> QED
        BY <3>3, <4>6 DEF a, b, e, Near
    <3> QED
      BY <3>2, <3>3
  <2> QED
    BY <2>1, <2>2
<1>3. T \subseteq Nat
  OBVIOUS
<1>4. m + n \in T
  <2> HIDE DEF T
  <2> QED
    BY <1>1, <1>2, <1>3, SetInduction
<1>5. ASSUME NEW i \in 0 .. m, NEW j \in 0 .. n PROVE Near(lcs, i, j)
  <2>1. i + j <= m + n
    OBVIOUS
  <2> QED
    BY <1>4, <2>1
<1> QED
  BY <1>5

\* A file does not differ from itself.
LEMMA SameDoesNotDiffer ==
  ASSUME NEW s, Len(s) \in Nat
  PROVE  Difference(s, s) = 0
<1> DEFINE m == Len(s)
<1>1. PICK lcs : IsTable(lcs, s, s, m, m) /\ Difference(s, s) = m + m - 2 * lcs[<<m, m>>]
  BY DifferenceHasTable
<1>2. m \in Nat
  OBVIOUS
<1> HIDE DEF m
<1> DEFINE T == {k \in Nat : k <= m => lcs[<<k, k>>] = k}
<1>3. 0 \in T
  <2>1. 0 \in 0 .. m
    BY <1>2
  <2>2. EntryOf(lcs, s, s, 0, 0)
    BY <1>1, <2>1 DEF IsTable
  <2>3. lcs[<<0, 0>>] = 0
    BY <2>2 DEF EntryOf
  <2> QED
    BY <2>3
<1>4. ASSUME NEW k \in T PROVE k + 1 \in T
  <2> SUFFICES ASSUME k + 1 <= m PROVE lcs[<<k + 1, k + 1>>] = k + 1
    OBVIOUS
  <2>1. k + 1 \in 0 .. m /\ lcs[<<k, k>>] = k /\ k + 1 # 0 /\ (k + 1) - 1 = k
    BY <1>2
  <2>2. EntryOf(lcs, s, s, k + 1, k + 1)
    BY <1>1, <2>1 DEF IsTable
  <2> QED
    BY <2>1, <2>2 DEF EntryOf
<1>5. T \subseteq Nat
  OBVIOUS
<1>6. m \in T
  <2> HIDE DEF T
  <2> QED
    BY <1>2, <1>3, <1>4, <1>5, SetInduction
<1> QED
  BY <1>1, <1>2, <1>6

\* Two files begin with the same lines.
SameUpto(t, u, p) == \A j \in 1 .. p : t[j] = u[j]

\* In a file, a lines that follow p are replaced by b others.
IsReplaced(t, u, p, a, b, q) ==
    /\ SameUpto(t, u, p)
    /\ \A k \in 1 .. q : t[p + a + k] = u[p + b + k]

\* Two tables have the same entries for the first p lines.
SameEntries(old, new, m, p) == \A i \in 0 .. m, j \in 0 .. p : old[<<i, j>>] = new[<<i, j>>]

\* Before the place the tables are the same.
LEMMA SameBefore ==
  ASSUME NEW m \in Nat, NEW p \in Nat, NEW n \in Nat, NEW o \in Nat, p <= n, p <= o,
         NEW s, NEW t, NEW u, SameUpto(t, u, p),
         NEW old, IsTable(old, s, t, m, n), NEW new, IsTable(new, s, u, m, o)
  PROVE  SameEntries(old, new, m, p)
<1> DEFINE T == {k \in Nat : \A i \in 0 .. m, j \in 0 .. p :
                               i + j <= k => old[<<i, j>>] = new[<<i, j>>]}
<1>0. ASSUME NEW i \in 0 .. m, NEW j \in 0 .. p
      PROVE  /\ old[<<i, j>>] \in Nat /\ EntryOf(old, s, t, i, j)
             /\ new[<<i, j>>] \in Nat /\ EntryOf(new, s, u, i, j)
  BY DEF IsTable
<1>1. 0 \in T
  <2>1. ASSUME NEW i \in 0 .. m, NEW j \in 0 .. p, i + j <= 0
        PROVE  old[<<i, j>>] = new[<<i, j>>]
    <3>1. i = 0
      BY <2>1
    <3> QED
      BY <1>0, <3>1 DEF EntryOf
  <2> QED
    BY <2>1
<1>2. ASSUME NEW k \in T PROVE k + 1 \in T
  <2>1. /\ k \in Nat
        /\ \A i \in 0 .. m, j \in 0 .. p : i + j <= k => old[<<i, j>>] = new[<<i, j>>]
    OBVIOUS
  <2>2. ASSUME NEW i \in 0 .. m, NEW j \in 0 .. p, i + j <= k + 1
        PROVE  old[<<i, j>>] = new[<<i, j>>]
    <3> HIDE DEF T
    <3>1. CASE i = 0 \/ j = 0
      BY <1>0, <3>1 DEF EntryOf
    <3>2. CASE i # 0 /\ j # 0
      <4>1. /\ i - 1 \in 0 .. m /\ j - 1 \in 0 .. p /\ (i - 1) + (j - 1) <= k
            /\ (i - 1) + j <= k /\ i + (j - 1) <= k /\ t[j] = u[j]
        BY <2>1, <2>2, <3>2 DEF SameUpto
      <4>2. /\ old[<<i - 1, j>>] = new[<<i - 1, j>>] /\ old[<<i, j - 1>>] = new[<<i, j - 1>>]
            /\ old[<<i - 1, j - 1>>] = new[<<i - 1, j - 1>>]
        BY <2>1, <4>1
      <4>3. old[<<i - 1, j>>] \in Nat /\ old[<<i, j - 1>>] \in Nat
        BY <1>0, <4>1
      <4> DEFINE a == old[<<i - 1, j>>]
                 b == old[<<i, j - 1>>]
                 c == old[<<i - 1, j - 1>>]
                 e == old[<<i, j>>]
                 f == new[<<i, j>>]
      <4>4. e \in Nat /\ f \in Nat /\ EntryOf(old, s, t, i, j) /\ EntryOf(new, s, u, i, j)
        BY <1>0
      <4>5. /\ s[i] = t[j] => e = c + 1
            /\ s[i] # t[j] => a <= e /\ b <= e /\ e \in {a, b}
        BY <3>2, <4>4 DEF EntryOf
      <4>6. /\ s[i] = u[j] => f = c + 1
            /\ s[i] # u[j] => a <= f /\ b <= f /\ f \in {a, b}
        BY <3>2, <4>2, <4>4 DEF EntryOf
      <4>7. t[j] = u[j] /\ a \in Nat /\ b \in Nat /\ e \in Nat /\ f \in Nat
        BY <4>1, <4>3, <4>4
      <4> HIDE DEF a, b, c, e, f
      <4>8. e = f
        BY <4>5, <4>6, <4>7
      <4> QED
        BY <4>8 DEF e, f
    <3> QED
      BY <3>1, <3>2
  <2> QED
    BY <2>1, <2>2
<1>3. T \subseteq Nat
  OBVIOUS
<1>4. m + p \in T
  <2> HIDE DEF T
  <2> QED
    BY <1>1, <1>2, <1>3, SetInduction
<1>5. ASSUME NEW i \in 0 .. m, NEW j \in 0 .. p PROVE old[<<i, j>>] = new[<<i, j>>]
  <2>1. i + j <= m + p
    OBVIOUS
  <2> QED
    BY <1>4, <2>1
<1> QED
  BY <1>5 DEF SameEntries

\* A block of lines adds at most its length to a table.
LEMMA BlockGrowsSlowly ==
  ASSUME NEW m \in Nat, NEW n \in Nat, NEW s, NEW t, NEW lcs, IsTable(lcs, s, t, m, n),
         NEW i \in 0 .. m, NEW p \in Nat, NEW a \in Nat, p + a <= n
  PROVE  lcs[<<i, p>>] <= lcs[<<i, p + a>>] /\ lcs[<<i, p + a>>] <= lcs[<<i, p>>] + a
<1> DEFINE T == {k \in Nat : k <= a =>
                   lcs[<<i, p>>] <= lcs[<<i, p + k>>] /\ lcs[<<i, p + k>>] <= lcs[<<i, p>>] + k}
<1>1. \A j \in 0 .. n : lcs[<<i, j>>] \in Nat /\ Near(lcs, i, j)
  BY TableGrowsSlowly DEF IsTable
<1>2. 0 \in T
  <2>1. p \in 0 .. n /\ p + 0 = p
    OBVIOUS
  <2>2. lcs[<<i, p>>] \in Nat
    BY <1>1, <2>1
  <2> QED
    BY <2>1, <2>2
<1>3. ASSUME NEW k \in T PROVE k + 1 \in T
  <2> SUFFICES ASSUME k + 1 <= a
               PROVE  /\ lcs[<<i, p>>] <= lcs[<<i, p + (k + 1)>>]
                      /\ lcs[<<i, p + (k + 1)>>] <= lcs[<<i, p>>] + (k + 1)
    OBVIOUS
  <2>1. /\ p \in 0 .. n /\ p + k \in 0 .. n /\ p + (k + 1) \in 0 .. n /\ p + (k + 1) # 0
        /\ (p + (k + 1)) - 1 = p + k /\ k \in Nat
        /\ lcs[<<i, p>>] <= lcs[<<i, p + k>>] /\ lcs[<<i, p + k>>] <= lcs[<<i, p>>] + k
    OBVIOUS
  <2> HIDE DEF T
  <2>2. /\ lcs[<<i, p + k>>] <= lcs[<<i, p + (k + 1)>>]
        /\ lcs[<<i, p + (k + 1)>>] <= lcs[<<i, p + k>>] + 1
    BY <1>1, <2>1 DEF Near
  <2>3. lcs[<<i, p>>] \in Nat /\ lcs[<<i, p + k>>] \in Nat /\ lcs[<<i, p + (k + 1)>>] \in Nat
    BY <1>1, <2>1
  <2> QED
    BY <2>1, <2>2, <2>3
<1>4. T \subseteq Nat
  OBVIOUS
<1>5. a \in T
  <2> HIDE DEF T
  <2> QED
    BY <1>2, <1>3, <1>4, SetInduction
<1> QED
  BY <1>5

\* After the place a table is at most a less.
LEMMA FewerByBlock ==
  ASSUME NEW m \in Nat, NEW p \in Nat, NEW a \in Nat, NEW b \in Nat, NEW q \in Nat,
         NEW s, NEW t, NEW u, IsReplaced(t, u, p, a, b, q),
         NEW old, IsTable(old, s, t, m, p + a + q),
         NEW new, IsTable(new, s, u, m, p + b + q)
  PROVE  old[<<m, p + a + q>>] <= new[<<m, p + b + q>>] + a
<1> DEFINE n == p + a + q
           o == p + b + q
           Fewer(i, k) == old[<<i, p + a + k>>] <= new[<<i, p + b + k>>] + a
           T == {d \in Nat : \A i \in 0 .. m, k \in 0 .. q : i + k <= d => Fewer(i, k)}
<1>1. /\ n \in Nat /\ o \in Nat /\ p <= n /\ p <= o /\ p + a <= n /\ p + b <= o
      /\ IsTable(old, s, t, m, n) /\ IsTable(new, s, u, m, o)
  OBVIOUS
<1>2. ASSUME NEW i \in 0 .. m, NEW k \in 0 .. q
      PROVE  /\ p + a + k \in 0 .. n /\ p + b + k \in 0 .. o
             /\ old[<<i, p + a + k>>] \in Nat /\ EntryOf(old, s, t, i, p + a + k)
             /\ new[<<i, p + b + k>>] \in Nat /\ EntryOf(new, s, u, i, p + b + k)
  <2>1. p + a + k \in 0 .. n /\ p + b + k \in 0 .. o
    OBVIOUS
  <2> HIDE DEF n, o
  <2> QED
    BY <1>1, <2>1 DEF IsTable
<1>3. ASSUME NEW i \in 0 .. m PROVE Fewer(i, 0)
  <2>1. p \in 0 .. p /\ p \in 0 .. n /\ p \in 0 .. o /\ p + a \in 0 .. n /\ p + b \in 0 .. o
        /\ p + a + 0 = p + a /\ p + b + 0 = p + b
    OBVIOUS
  <2> HIDE DEF n, o
  <2>2. old[<<i, p + a>>] <= old[<<i, p>>] + a
    BY <1>1, BlockGrowsSlowly
  <2>3. new[<<i, p>>] <= new[<<i, p + b>>]
    BY <1>1, BlockGrowsSlowly
  <2>4. SameUpto(t, u, p)
    BY DEF IsReplaced
  <2>5. old[<<i, p>>] = new[<<i, p>>]
    <3>1. SameEntries(old, new, m, p)
      BY <1>1, <2>4, SameBefore
    <3> QED
      BY <2>1, <3>1 DEF SameEntries
  <2>6. old[<<i, p>>] \in Nat /\ old[<<i, p + a>>] \in Nat /\ new[<<i, p + b>>] \in Nat
    BY <1>1, <2>1 DEF IsTable
  <2> QED
    BY <2>1, <2>2, <2>3, <2>5, <2>6
<1>4. 0 \in T
  <2>1. ASSUME NEW i \in 0 .. m, NEW k \in 0 .. q, i + k <= 0 PROVE Fewer(i, k)
    <3>1. k = 0
      BY <2>1
    <3> HIDE DEF Fewer
    <3> QED
      BY <1>3, <3>1
  <2> HIDE DEF Fewer
  <2> QED
    BY <2>1
<1>5. ASSUME NEW d \in T PROVE d + 1 \in T
  <2>1. d \in Nat /\ \A i \in 0 .. m, k \in 0 .. q : i + k <= d => Fewer(i, k)
    <3> HIDE DEF Fewer
    <3> QED
      OBVIOUS
  <2> HIDE DEF T
  <2>2. ASSUME NEW i \in 0 .. m, NEW k \in 0 .. q, i + k <= d + 1 PROVE Fewer(i, k)
    <3>1. CASE k = 0
      <4> HIDE DEF Fewer
      <4> QED
        BY <1>3, <3>1
    <3>2. CASE i = 0
      <4>1. old[<<i, p + a + k>>] = 0
        <5>1. EntryOf(old, s, t, i, p + a + k)
          BY <1>2
        <5> QED
          BY <3>2, <5>1 DEF EntryOf
      <4>2. new[<<i, p + b + k>>] \in Nat
        BY <1>2
      <4> QED
        BY <4>1, <4>2
    <3>3. CASE i # 0 /\ k # 0
      <4>1. /\ i - 1 \in 0 .. m /\ k - 1 \in 0 .. q /\ (i - 1) + (k - 1) <= d
            /\ (i - 1) + k <= d /\ i + (k - 1) <= d
            /\ p + a + k # 0 /\ (p + a + k) - 1 = p + a + (k - 1)
            /\ p + b + k # 0 /\ (p + b + k) - 1 = p + b + (k - 1)
        BY <2>1, <2>2, <3>3
      <4>2. t[p + a + k] = u[p + b + k]
        <5>1. k \in 1 .. q
          BY <3>3
        <5> QED
          BY <5>1 DEF IsReplaced
      <4> DEFINE x1 == old[<<i - 1, p + a + k>>]
                 x2 == old[<<i, p + a + (k - 1)>>]
                 x3 == old[<<i - 1, p + a + (k - 1)>>]
                 x == old[<<i, p + a + k>>]
                 y1 == new[<<i - 1, p + b + k>>]
                 y2 == new[<<i, p + b + (k - 1)>>]
                 y3 == new[<<i - 1, p + b + (k - 1)>>]
                 y == new[<<i, p + b + k>>]
                 equal == s[i] = t[p + a + k]
      <4>3. x \in Nat /\ x1 \in Nat /\ x2 \in Nat /\ x3 \in Nat
        <5> HIDE DEF n, o
        <5> QED
          BY <1>2, <4>1
      <4>4. y \in Nat /\ y1 \in Nat /\ y2 \in Nat /\ y3 \in Nat
        <5> HIDE DEF n, o
        <5> QED
          BY <1>2, <4>1
      <4>5. x1 <= y1 + a /\ x2 <= y2 + a /\ x3 <= y3 + a
        <5>1. Fewer(i - 1, k) /\ Fewer(i, k - 1) /\ Fewer(i - 1, k - 1)
          <6> HIDE DEF Fewer
          <6> QED
            BY <2>1, <4>1
        <5> QED
          BY <5>1
      <4>6. /\ equal => x = x3 + 1
            /\ ~equal => x \in {x1, x2}
        <5>1. EntryOf(old, s, t, i, p + a + k)
          BY <1>2
        <5> QED
          BY <3>3, <4>1, <5>1 DEF EntryOf
      <4>7. /\ equal => y = y3 + 1
            /\ ~equal => y1 <= y /\ y2 <= y
        <5>1. EntryOf(new, s, u, i, p + b + k)
          BY <1>2
        <5> QED
          BY <3>3, <4>1, <4>2, <5>1 DEF EntryOf
      <4> HIDE DEF x1, x2, x3, x, y1, y2, y3, y, equal
      <4>8. x <= y + a
        BY <4>3, <4>4, <4>5, <4>6, <4>7
      <4> QED
        BY <4>8 DEF x, y
    <3> QED
      <4> HIDE DEF Fewer
      <4> QED
        BY <3>1, <3>2, <3>3
  <2> HIDE DEF Fewer
  <2> QED
    BY <2>1, <2>2 DEF T
<1>6. T \subseteq Nat
  OBVIOUS
<1>7. m + q \in T
  <2> HIDE DEF T
  <2> QED
    BY <1>4, <1>5, <1>6, SetInduction
<1>8. m \in 0 .. m /\ q \in 0 .. q /\ m + q <= m + q
  OBVIOUS
<1>9. Fewer(m, q)
  <2> HIDE DEF Fewer
  <2> QED
    BY <1>7, <1>8
<1> QED
  BY <1>9

\* Replacing a lines of a file by b others takes it at most a + b further from another.
LEMMA ReplacingDiffers ==
  ASSUME NEW s, NEW t, NEW u, Len(s) \in Nat,
         NEW p \in Nat, NEW a \in Nat, NEW b \in Nat, NEW q \in Nat,
         Len(t) = p + a + q, Len(u) = p + b + q, IsReplaced(t, u, p, a, b, q)
  PROVE  /\ Difference(s, t) \in Int /\ Difference(s, u) \in Int
         /\ Difference(s, u) <= Difference(s, t) + a + b
<1> DEFINE m == Len(s)
           n == p + a + q
           o == p + b + q
<1>1. m \in Nat /\ n \in Nat /\ o \in Nat /\ Len(t) = n /\ Len(u) = o
  OBVIOUS
<1> HIDE DEF m, n, o
<1>2. PICK old : IsTable(old, s, t, m, n) /\ Difference(s, t) = m + n - 2 * old[<<m, n>>]
  BY <1>1, DifferenceHasTable DEF m
<1>3. PICK new : IsTable(new, s, u, m, o) /\ Difference(s, u) = m + o - 2 * new[<<m, o>>]
  BY <1>1, DifferenceHasTable DEF m
<1>4. old[<<m, n>>] \in Nat /\ new[<<m, o>>] \in Nat
  BY <1>1, <1>2, <1>3 DEF IsTable
<1>5. old[<<m, n>>] <= new[<<m, o>>] + a
  BY <1>1, <1>2, <1>3, FewerByBlock DEF n, o
<1> DEFINE x == old[<<m, n>>]
           y == new[<<m, o>>]
           before == Difference(s, t)
           after == Difference(s, u)
<1>6. /\ x \in Nat /\ y \in Nat /\ x <= y + a
      /\ before = m + n - 2 * x /\ after = m + o - 2 * y
  BY <1>2, <1>3, <1>4, <1>5
<1>7. n = p + a + q /\ o = p + b + q
  BY DEF n, o
<1> HIDE DEF x, y, before, after
<1>8. before \in Int /\ after \in Int /\ after <= before + a + b
  BY <1>1, <1>6, <1>7
<1> QED
  BY <1>8 DEF before, after
----------------------------------------------------------------------------
(***************************************************************************)
(* Sums over a finite set.  The fold goes through the set in an order it   *)
(* chooses; the sum is the same in any, so one value can be taken out.     *)
(***************************************************************************)

\* The element a sum goes on with
Pick(s) == CHOOSE x \in s : TRUE

\* The sums of F over the parts of S, as FoldFunctionOnSet computes them
Summed(sum, F, s) == IF s = {} THEN 0 ELSE F[Pick(s)] + sum[s \ {Pick(s)}]

SumEquation(sum, F, S) == sum = [s \in SUBSET S |-> Summed(sum, F, s)]

ChosenSum(F, S) == CHOOSE sum : SumEquation(sum, F, S)

\* SumFunction is the sum that is chosen.
LEMMA SumIsChosen ==
  ASSUME NEW F
  PROVE  SumFunction(F) = ChosenSum(F, DOMAIN F)[DOMAIN F]
BY DEF SumFunction, SumFunctionOnSet, FoldFunctionOnSet, MapThenFoldSet, ChosenSum,
       SumEquation, Summed, Pick

\* A part that has an element has one element more than without it.
LEMMA PartWithout ==
  ASSUME NEW S, IsFiniteSet(S), NEW s \in SUBSET S, NEW x \in s
  PROVE  /\ s \ {x} \in SUBSET S
         /\ Cardinality(s) \in Nat /\ Cardinality(s \ {x}) \in Nat
         /\ Cardinality(s) = Cardinality(s \ {x}) + 1
<1>1. IsFiniteSet(s) /\ IsFiniteSet(s \ {x})
  BY FS_Subset
<1>2. Cardinality(s \ {x}) = Cardinality(s) - 1
  BY <1>1, FS_RemoveElement
<1> QED
  BY <1>1, <1>2, FS_CardinalityType

\* A part without elements
LEMMA PartIsEmpty ==
  ASSUME NEW S, IsFiniteSet(S), NEW s \in SUBSET S
  PROVE  /\ Cardinality(s) \in Nat /\ (s = {} <=> Cardinality(s) = 0)
         /\ s # {} => Pick(s) \in s
<1>1. IsFiniteSet(s)
  BY FS_Subset
<1> QED
  BY <1>1, FS_CardinalityType, FS_EmptySet DEF Pick

\* There are such sums: those of parts with k + 1 elements come from those with k.
LEMMA SumExists ==
  ASSUME NEW S, IsFiniteSet(S), NEW F \in [S -> Int]
  PROVE  \E sum \in [SUBSET S -> Int] : SumEquation(sum, F, S)
<1> DEFINE Upto(g, k) == \A s \in SUBSET S : Cardinality(s) <= k => g[s] = Summed(g, F, s)
           T == {k \in Nat : \E g \in [SUBSET S -> Int] : Upto(g, k)}
<1>1. 0 \in T
  <2> DEFINE g == [s \in SUBSET S |-> 0]
  <2>1. ASSUME NEW s \in SUBSET S, Cardinality(s) <= 0 PROVE g[s] = Summed(g, F, s)
    <3>1. s = {}
      BY <2>1, PartIsEmpty
    <3> QED
      BY <3>1 DEF Summed
  <2>2. g \in [SUBSET S -> Int] /\ Upto(g, 0)
    BY <2>1
  <2> HIDE DEF g, Upto
  <2> QED
    BY <2>2
<1>2. ASSUME NEW k \in T PROVE k + 1 \in T
  <2>1. k \in Nat /\ \E g \in [SUBSET S -> Int] : Upto(g, k)
    <3> HIDE DEF Upto
    <3> QED
      OBVIOUS
  <2>2. PICK g \in [SUBSET S -> Int] : Upto(g, k)
    <3> HIDE DEF Upto
    <3> QED
      BY <2>1
  <2> DEFINE h == [s \in SUBSET S |-> Summed(g, F, s)]
  <2>3. ASSUME NEW s \in SUBSET S
        PROVE  /\ Summed(g, F, s) \in Int
               /\ Cardinality(s) <= k => h[s] = g[s]
               /\ s # {} => s \ {Pick(s)} \in SUBSET S
               /\ s # {} /\ Cardinality(s) <= k + 1 => Cardinality(s \ {Pick(s)}) <= k
    <3>1. s # {} => Pick(s) \in s
      BY PartIsEmpty
    <3>2. ASSUME s # {}
          PROVE  /\ Cardinality(s) = Cardinality(s \ {Pick(s)}) + 1
                 /\ Cardinality(s \ {Pick(s)}) \in Nat
      <4>1. Pick(s) \in s
        BY <3>1, <3>2
      <4> QED
        BY <4>1, PartWithout
    <3>3. s # {} => F[Pick(s)] \in Int /\ g[s \ {Pick(s)}] \in Int
      BY <2>2, <3>1
    <3>4. Summed(g, F, s) \in Int
      BY <3>3 DEF Summed
    <3>5. s # {} /\ Cardinality(s) <= k + 1 => Cardinality(s \ {Pick(s)}) <= k
      BY <2>1, <3>2
    <3>6. Cardinality(s) <= k => h[s] = g[s]
      BY <2>2
    <3> HIDE DEF h, T, Upto
    <3> QED
      BY <3>1, <3>4, <3>5, <3>6
  <2>4. ASSUME NEW s \in SUBSET S, Cardinality(s) <= k + 1 PROVE h[s] = Summed(h, F, s)
    <3>1. CASE s = {}
      BY <3>1 DEF Summed
    <3>2. CASE s # {}
      <4>1. s \ {Pick(s)} \in SUBSET S /\ Cardinality(s \ {Pick(s)}) <= k
        <5> HIDE DEF h, T, Upto
        <5> QED
          BY <2>3, <2>4, <3>2
      <4>2. h[s \ {Pick(s)}] = g[s \ {Pick(s)}]
        <5> HIDE DEF h, T, Upto
        <5> QED
          BY <2>3, <4>1
      <4>3. h[s] = Summed(g, F, s)
        OBVIOUS
      <4> HIDE DEF h
      <4> QED
        BY <3>2, <4>2, <4>3 DEF Summed
    <3> QED
      BY <3>1, <3>2
  <2>5. h \in [SUBSET S -> Int]
    <3>1. \A s \in SUBSET S : Summed(g, F, s) \in Int
      BY <2>3
    <3> QED
      BY <3>1
  <2>6. Upto(h, k + 1)
    <3> HIDE DEF h
    <3> QED
      BY <2>4
  <2> HIDE DEF h, Upto
  <2> QED
    BY <2>1, <2>5, <2>6
<1>3. T \subseteq Nat
  OBVIOUS
<1>4. Cardinality(S) \in T
  <2>1. Cardinality(S) \in Nat
    BY FS_CardinalityType
  <2> HIDE DEF T
  <2> QED
    BY <1>1, <1>2, <1>3, <2>1, SetInduction
<1>5. PICK g \in [SUBSET S -> Int] : Upto(g, Cardinality(S))
  <2> HIDE DEF Upto
  <2> QED
    BY <1>4
<1>6. ASSUME NEW s \in SUBSET S PROVE g[s] = Summed(g, F, s)
  <2>1. Cardinality(s) <= Cardinality(S)
    BY FS_Subset
  <2> QED
    BY <1>5, <2>1
<1>7. g = [s \in SUBSET S |-> Summed(g, F, s)]
  BY <1>5, <1>6
<1> HIDE DEF Upto
<1>8. SumEquation(g, F, S)
  BY <1>7 DEF SumEquation
<1> QED
  BY <1>5, <1>8

\* What is chosen sums up.
LEMMA ChosenSums ==
  ASSUME NEW S, IsFiniteSet(S), NEW F \in [S -> Int]
  PROVE  \A s \in SUBSET S : ChosenSum(F, S)[s] = Summed(ChosenSum(F, S), F, s)
<1>1. SumEquation(ChosenSum(F, S), F, S)
  BY SumExists DEF ChosenSum
<1> DEFINE sum == ChosenSum(F, S)
<1>2. sum = [s \in SUBSET S |-> Summed(sum, F, s)]
  BY <1>1 DEF SumEquation
<1> HIDE DEF sum
<1>3. \A s \in SUBSET S : sum[s] = Summed(sum, F, s)
  BY <1>2
<1> QED
  BY <1>3 DEF sum

\* The sums of two functions are the same over what they agree on.
LEMMA SumsAgree ==
  ASSUME NEW S, IsFiniteSet(S), NEW F \in [S -> Int], NEW R \in SUBSET S,
         NEW G \in [R -> Int], \A x \in R : F[x] = G[x]
  PROVE  \A s \in SUBSET R : ChosenSum(F, S)[s] \in Int /\ ChosenSum(F, S)[s] = ChosenSum(G, R)[s]
<1> DEFINE f == ChosenSum(F, S)
           g == ChosenSum(G, R)
           Same(s) == f[s] \in Int /\ f[s] = g[s]
           T == {k \in Nat : \A s \in SUBSET R : Cardinality(s) <= k => Same(s)}
<1>1. IsFiniteSet(R)
  BY FS_Subset
<1>2. ASSUME NEW s \in SUBSET R PROVE f[s] = Summed(f, F, s) /\ g[s] = Summed(g, G, s)
  <2>1. s \in SUBSET S
    OBVIOUS
  <2> QED
    BY <1>1, <2>1, ChosenSums
<1> HIDE DEF f, g
<1>3. 0 \in T
  <2>1. ASSUME NEW s \in SUBSET R, Cardinality(s) <= 0 PROVE Same(s)
    <3>1. s = {}
      BY <1>1, <2>1, PartIsEmpty
    <3>2. f[s] = 0 /\ g[s] = 0
      BY <1>2, <3>1 DEF Summed
    <3> QED
      BY <3>2
  <2> HIDE DEF Same
  <2> QED
    BY <2>1
<1>4. ASSUME NEW k \in T PROVE k + 1 \in T
  <2>1. k \in Nat /\ \A s \in SUBSET R : Cardinality(s) <= k => Same(s)
    <3> HIDE DEF Same
    <3> QED
      OBVIOUS
  <2> HIDE DEF T
  <2>2. ASSUME NEW s \in SUBSET R, Cardinality(s) <= k + 1 PROVE Same(s)
    <3>1. CASE s = {}
      <4>1. f[s] = 0 /\ g[s] = 0
        BY <1>2, <3>1 DEF Summed
      <4> QED
        BY <4>1
    <3>2. CASE s # {}
      <4> DEFINE x == Pick(s)
                 r == s \ {x}
      <4>1. x \in s
        BY <1>1, <3>2, PartIsEmpty
      <4> HIDE DEF x
      <4>2. r \in SUBSET R /\ Cardinality(s) = Cardinality(r) + 1 /\ Cardinality(r) \in Nat
        BY <1>1, <4>1, PartWithout
      <4>3. Cardinality(r) <= k
        BY <2>1, <2>2, <4>2
      <4> HIDE DEF r
      <4>4. f[r] \in Int /\ f[r] = g[r]
        <5>1. Same(r)
          <6> HIDE DEF Same
          <6> QED
            BY <2>1, <4>2, <4>3
        <5> QED
          BY <5>1
      <4>5. F[x] \in Int /\ F[x] = G[x]
        BY <4>1
      <4>6. f[s] = F[x] + f[r] /\ g[s] = G[x] + g[r]
        BY <1>2, <3>2 DEF Summed, x, r
      <4> QED
        BY <4>4, <4>5, <4>6
    <3> QED
      BY <3>1, <3>2
  <2> HIDE DEF Same
  <2> QED
    BY <2>1, <2>2 DEF T
<1>5. T \subseteq Nat
  OBVIOUS
<1>6. T = Nat
  <2> HIDE DEF T
  <2> QED
    BY <1>3, <1>4, <1>5, SetInduction
<1>7. ASSUME NEW s \in SUBSET R PROVE Same(s)
  <2>1. Cardinality(s) \in Nat
    BY <1>1, PartIsEmpty
  <2> HIDE DEF Same
  <2> QED
    BY <1>6, <2>1
<1> QED
  BY <1>7 DEF f, g

\* A sum may go on with any element.
LEMMA SumOrder ==
  ASSUME NEW S, IsFiniteSet(S), NEW F \in [S -> Int], NEW x \in S
  PROVE  ChosenSum(F, S)[S] = F[x] + ChosenSum(F, S)[S \ {x}]
<1> DEFINE f == ChosenSum(F, S)
           EachWay(s) == \A y \in s : f[s] = F[y] + f[s \ {y}]
           T == {k \in Nat : \A s \in SUBSET S : Cardinality(s) <= k => EachWay(s)}
<1>1. \A s \in SUBSET S : f[s] = Summed(f, F, s)
  BY ChosenSums
<1>2. \A s \in SUBSET S : f[s] \in Int
  <2>1. S \in SUBSET S /\ \A y \in S : F[y] = F[y]
    OBVIOUS
  <2> QED
    BY <2>1, SumsAgree
<1> HIDE DEF f
<1>3. 0 \in T
  <2>1. ASSUME NEW s \in SUBSET S, Cardinality(s) <= 0 PROVE EachWay(s)
    <3>1. s = {}
      BY <2>1, PartIsEmpty
    <3> QED
      BY <3>1
  <2> HIDE DEF EachWay
  <2> QED
    BY <2>1
<1>4. ASSUME NEW k \in T PROVE k + 1 \in T
  <2>1. k \in Nat /\ \A s \in SUBSET S : Cardinality(s) <= k => EachWay(s)
    <3> HIDE DEF EachWay
    <3> QED
      OBVIOUS
  <2> HIDE DEF T
  <2>2. ASSUME NEW s \in SUBSET S, Cardinality(s) <= k + 1, NEW y \in s
        PROVE  f[s] = F[y] + f[s \ {y}]
    <3> DEFINE z == Pick(s)
    <3>1. z \in s
      BY PartIsEmpty
    <3>2. f[s] = F[z] + f[s \ {z}]
      BY <1>1 DEF Summed
    <3> HIDE DEF z
    <3>3. CASE y = z
      BY <3>2, <3>3
    <3>4. CASE y # z
      <4> DEFINE r == s \ {z}
                 q == s \ {y}
                 p == (s \ {z}) \ {y}
      <4>1. /\ r \in SUBSET S /\ Cardinality(s) = Cardinality(r) + 1 /\ Cardinality(r) \in Nat
        BY <3>1, PartWithout
      <4>2. /\ q \in SUBSET S /\ Cardinality(s) = Cardinality(q) + 1 /\ Cardinality(q) \in Nat
        BY PartWithout
      <4>3. y \in r /\ z \in q /\ r \ {y} = p /\ q \ {z} = p /\ p \in SUBSET S
        BY <3>1, <3>4
      <4>4. Cardinality(r) <= k /\ Cardinality(q) <= k
        BY <2>1, <2>2, <4>1, <4>2
      <4>5. EachWay(r) /\ EachWay(q)
        <5> HIDE DEF EachWay, r, q
        <5> QED
          BY <2>1, <4>1, <4>2, <4>4
      <4>6. f[r] = F[y] + f[p] /\ f[q] = F[z] + f[p]
        <5> HIDE DEF r, q, p
        <5> QED
          BY <4>3, <4>5
      <4>7. F[y] \in Int /\ F[z] \in Int /\ f[p] \in Int
        BY <1>2, <3>1
      <4>8. f[s] = F[z] + f[r]
        BY <3>2
      <4> HIDE DEF r, q, p
      <4>9. f[s] = F[y] + f[q]
        BY <4>6, <4>7, <4>8
      <4> QED
        BY <4>9 DEF q
    <3> QED
      BY <3>3, <3>4
  <2>3. \A s \in SUBSET S : Cardinality(s) <= k + 1 => EachWay(s)
    BY <2>2
  <2> HIDE DEF EachWay
  <2> QED
    BY <2>1, <2>3 DEF T
<1>5. T \subseteq Nat
  OBVIOUS
<1>6. T = Nat
  <2> HIDE DEF T
  <2> QED
    BY <1>3, <1>4, <1>5, SetInduction
<1>7. EachWay(S)
  <2>1. Cardinality(S) \in Nat
    BY FS_CardinalityType
  <2> HIDE DEF EachWay
  <2> QED
    BY <1>6, <2>1
<1> QED
  BY <1>7 DEF f

\* The sum of nothing
LEMMA SumOfNone ==
  ASSUME NEW F \in [{} -> Int]
  PROVE  SumFunction(F) = 0
<1>1. IsFiniteSet({}) /\ {} \in SUBSET {} /\ DOMAIN F = {}
  BY FS_EmptySet
<1>2. ChosenSum(F, {})[{}] = Summed(ChosenSum(F, {}), F, {})
  BY <1>1, ChosenSums
<1> QED
  BY <1>1, <1>2, SumIsChosen DEF Summed

\* A function without one of its arguments
Rest(F, x) == [y \in DOMAIN F \ {x} |-> F[y]]

\* A sum is one of its values and the sum of the others.
LEMMA SumSplits ==
  ASSUME NEW S, IsFiniteSet(S), NEW F \in [S -> Int], NEW x \in S
  PROVE  /\ SumFunction(F) \in Int /\ SumFunction(Rest(F, x)) \in Int
         /\ SumFunction(F) = F[x] + SumFunction(Rest(F, x))
<1> DEFINE R == S \ {x}
           G == Rest(F, x)
<1>1. /\ R \in SUBSET S /\ R \in SUBSET R /\ G \in [R -> Int] /\ \A y \in R : F[y] = G[y]
      /\ DOMAIN F = S /\ DOMAIN G = R
  BY DEF Rest
<1> HIDE DEF G
<1>2. ChosenSum(F, S)[S] = F[x] + ChosenSum(F, S)[R]
  BY SumOrder
<1> HIDE DEF R
<1>3. SumFunction(F) = ChosenSum(F, S)[S] /\ SumFunction(G) = ChosenSum(G, R)[R]
  BY <1>1, SumIsChosen
<1>4. ChosenSum(F, S)[R] \in Int /\ ChosenSum(F, S)[R] = ChosenSum(G, R)[R]
  BY <1>1, SumsAgree
<1>5. F[x] \in Int
  OBVIOUS
<1>6. SumFunction(F) \in Int /\ SumFunction(G) \in Int /\ SumFunction(F) = F[x] + SumFunction(G)
  BY <1>2, <1>3, <1>4, <1>5
<1> QED
  BY <1>6 DEF G
----------------------------------------------------------------------------
(***************************************************************************)
(* The parts of a diff: without the lines of a sign, without the hunks     *)
(* that have none; and the ends a hunk's halves have in common.            *)
(***************************************************************************)

\* What is kept of the first lines of a hunk
IsKept(kept, sign, lines) ==
    \A k \in 0 .. Len(lines) - 1 :
       kept[k + 1] = IF lines[k + 1].sign = sign THEN kept[k] ELSE Append(kept[k], lines[k + 1])

\* The lines without a sign are kept one by one.
LEMMA WithoutRuns ==
  ASSUME NEW sign, NEW S, NEW lines \in Seq(S)
  PROVE  \E kept \in [0 .. Len(lines) -> Seq(S)] :
           kept[0] = <<>> /\ kept[Len(lines)] = Without(sign, lines) /\ IsKept(kept, sign, lines)
<1> DEFINE n == Len(lines)
           V == Seq(S)
           Op(kept, l) == IF l.sign = sign THEN kept ELSE Append(kept, l)
           step == [p \in V \X S |-> Op(p[1], p[2])]
           IsIter(iter) == iter = [s \in SUBSET DOMAIN lines |->
                                     IF s = {} THEN <<>> ELSE Op(iter[s \ {Max(s)}], lines[Max(s)])]
           iter == CHOOSE i : IsIter(i)
<1>1. ASSUME NEW v \in V, NEW e \in S PROVE Op(v, e) \in V /\ step[<<v, e>>] = Op(v, e)
  BY AppendProperties
<1>2. /\ lines \in [1 .. n -> S] /\ DOMAIN lines = 1 .. n /\ n \in Nat /\ <<>> \in V
  OBVIOUS
<1>3. step \in [V \X S -> V]
  <2> HIDE DEF V, Op
  <2> QED
    BY <1>1
<1>4. Without(sign, lines) = iter[DOMAIN lines]
  BY DEF Without, FoldLeft, MapThenFoldSet
<1> HIDE DEF Op, V, step, n
<1>5. PICK g \in [SUBSET (1 .. n) -> V] : FoldEquation(g, n, lines, <<>>, step)
  BY <1>2, <1>3, FoldExists
<1>6. \A s \in SUBSET (1 .. n) : s # {} => Max(s) \in s
  BY <1>2, MaxIsOneOfThem
<1>7. ASSUME NEW s \in SUBSET (1 .. n)
      PROVE  g[s] = IF s = {} THEN <<>> ELSE Op(g[s \ {Max(s)}], lines[Max(s)])
  BY <1>1, <1>2, <1>5, <1>6 DEF FoldEquation
<1>8. IsIter(g)
  BY <1>2, <1>5, <1>7
<1>9. IsIter(iter)
  <2> HIDE DEF IsIter
  <2> QED
    BY <1>8
<1>10. iter[{}] = <<>>
  BY <1>2, <1>9
<1>11. ASSUME NEW s \in SUBSET (1 .. n), s # {}, iter[s \ {Max(s)}] \in V
       PROVE  iter[s] = step[<<iter[s \ {Max(s)}], lines[Max(s)]>>]
  <2>1. iter[s] = Op(iter[s \ {Max(s)}], lines[Max(s)])
    BY <1>2, <1>9, <1>11
  <2>2. lines[Max(s)] \in S
    BY <1>2, <1>6, <1>11
  <2> QED
    BY <1>1, <1>11, <2>1, <2>2
<1>12. StepsWithin(iter, V, n, lines, step)
  BY <1>11 DEF StepsWithin
<1> HIDE DEF iter
<1>13. RunsWithin(iter, V, n, lines, step)
  BY <1>2, <1>3, <1>10, <1>12, FoldRuns
<1> DEFINE kept == [k \in 0 .. n |-> iter[1 .. k]]
<1>14. /\ kept \in [0 .. n -> V] /\ kept[0] = <<>> /\ kept[n] = Without(sign, lines)
  <2>1. 1 .. 0 = {} /\ 0 \in 0 .. n /\ n \in 0 .. n
    BY <1>2
  <2> QED
    BY <1>2, <1>4, <1>10, <1>13, <2>1 DEF RunsWithin
<1>15. ASSUME NEW k \in 0 .. n - 1 PROVE kept[k + 1] = Op(kept[k], lines[k + 1])
  <2>1. k \in 0 .. n /\ k + 1 \in 0 .. n /\ k + 1 \in 1 .. n
    BY <1>2
  <2>2. iter[1 .. k + 1] = step[<<iter[1 .. k], lines[k + 1]>>] /\ iter[1 .. k] \in V
    BY <1>13, <2>1 DEF RunsWithin
  <2>3. lines[k + 1] \in S
    BY <1>2, <2>1
  <2> QED
    BY <1>1, <2>1, <2>2, <2>3
<1> HIDE DEF kept
<1>16. IsKept(kept, sign, lines)
  BY <1>15 DEF IsKept, Op, n
<1> QED
  BY <1>14, <1>16 DEF V, n

LEMMA WithoutIsSequence ==
  ASSUME NEW sign, NEW S, NEW lines \in Seq(S)
  PROVE  Without(sign, lines) \in Seq(S)
<1>1. PICK kept \in [0 .. Len(lines) -> Seq(S)] : kept[Len(lines)] = Without(sign, lines)
  BY WithoutRuns
<1>2. Len(lines) \in 0 .. Len(lines)
  OBVIOUS
<1> QED
  BY <1>1, <1>2

\* What is kept of the first hunks
IsFilling(kept, d) ==
    \A k \in 0 .. Len(d) - 1 :
       kept[k + 1] = IF d[k + 1].lines = <<>> THEN kept[k] ELSE Append(kept[k], d[k + 1])

\* The hunks that have lines are kept one by one.
LEMMA FilledRuns ==
  ASSUME NEW H, NEW d \in Seq(H)
  PROVE  \E kept \in [0 .. Len(d) -> Seq(H)] :
           kept[0] = <<>> /\ kept[Len(d)] = Filled(d) /\ IsFilling(kept, d)
<1> DEFINE n == Len(d)
           V == Seq(H)
           Op(kept, h) == IF h.lines = <<>> THEN kept ELSE Append(kept, h)
           step == [p \in V \X H |-> Op(p[1], p[2])]
           IsIter(iter) == iter = [s \in SUBSET DOMAIN d |->
                                     IF s = {} THEN <<>> ELSE Op(iter[s \ {Max(s)}], d[Max(s)])]
           iter == CHOOSE i : IsIter(i)
<1>1. ASSUME NEW v \in V, NEW e \in H PROVE Op(v, e) \in V /\ step[<<v, e>>] = Op(v, e)
  BY AppendProperties
<1>2. /\ d \in [1 .. n -> H] /\ DOMAIN d = 1 .. n /\ n \in Nat /\ <<>> \in V
  OBVIOUS
<1>3. step \in [V \X H -> V]
  <2> HIDE DEF V, Op
  <2> QED
    BY <1>1
<1>4. Filled(d) = iter[DOMAIN d]
  BY DEF Filled, FoldLeft, MapThenFoldSet
<1> HIDE DEF Op, V, step, n
<1>5. PICK g \in [SUBSET (1 .. n) -> V] : FoldEquation(g, n, d, <<>>, step)
  BY <1>2, <1>3, FoldExists
<1>6. \A s \in SUBSET (1 .. n) : s # {} => Max(s) \in s
  BY <1>2, MaxIsOneOfThem
<1>7. ASSUME NEW s \in SUBSET (1 .. n)
      PROVE  g[s] = IF s = {} THEN <<>> ELSE Op(g[s \ {Max(s)}], d[Max(s)])
  BY <1>1, <1>2, <1>5, <1>6 DEF FoldEquation
<1>8. IsIter(g)
  BY <1>2, <1>5, <1>7
<1>9. IsIter(iter)
  <2> HIDE DEF IsIter
  <2> QED
    BY <1>8
<1>10. iter[{}] = <<>>
  BY <1>2, <1>9
<1>11. ASSUME NEW s \in SUBSET (1 .. n), s # {}, iter[s \ {Max(s)}] \in V
       PROVE  iter[s] = step[<<iter[s \ {Max(s)}], d[Max(s)]>>]
  <2>1. iter[s] = Op(iter[s \ {Max(s)}], d[Max(s)])
    BY <1>2, <1>9, <1>11
  <2>2. d[Max(s)] \in H
    BY <1>2, <1>6, <1>11
  <2> QED
    BY <1>1, <1>11, <2>1, <2>2
<1>12. StepsWithin(iter, V, n, d, step)
  BY <1>11 DEF StepsWithin
<1> HIDE DEF iter
<1>13. RunsWithin(iter, V, n, d, step)
  BY <1>2, <1>3, <1>10, <1>12, FoldRuns
<1> DEFINE kept == [k \in 0 .. n |-> iter[1 .. k]]
<1>14. /\ kept \in [0 .. n -> V] /\ kept[0] = <<>> /\ kept[n] = Filled(d)
  <2>1. 1 .. 0 = {} /\ 0 \in 0 .. n /\ n \in 0 .. n
    BY <1>2
  <2> QED
    BY <1>2, <1>4, <1>10, <1>13, <2>1 DEF RunsWithin
<1>15. ASSUME NEW k \in 0 .. n - 1 PROVE kept[k + 1] = Op(kept[k], d[k + 1])
  <2>1. k \in 0 .. n /\ k + 1 \in 0 .. n /\ k + 1 \in 1 .. n
    BY <1>2
  <2>2. iter[1 .. k + 1] = step[<<iter[1 .. k], d[k + 1]>>] /\ iter[1 .. k] \in V
    BY <1>13, <2>1 DEF RunsWithin
  <2>3. d[k + 1] \in H
    BY <1>2, <2>1
  <2> QED
    BY <1>1, <2>1, <2>2, <2>3
<1> HIDE DEF kept
<1>16. IsFilling(kept, d)
  BY <1>15 DEF IsFilling, Op, n
<1> QED
  BY <1>14, <1>16 DEF V, n

LEMMA FilledIsSequence ==
  ASSUME NEW H, NEW d \in Seq(H)
  PROVE  Filled(d) \in Seq(H)
<1>1. PICK kept \in [0 .. Len(d) -> Seq(H)] : kept[Len(d)] = Filled(d)
  BY FilledRuns
<1>2. Len(d) \in 0 .. Len(d)
  OBVIOUS
<1> QED
  BY <1>1, <1>2
----------------------------------------------------------------------------
\* The common prefix of two sequences is one: what they have in common are their first
\* elements.
LEMMA PrefixIsCommon ==
  ASSUME NEW S, NEW s \in Seq(S), NEW t \in Seq(S)
  PROVE  /\ CommonPrefix(s, t) \in 0 .. Len(s) /\ CommonPrefix(s, t) <= Len(t)
         /\ \A j \in 1 .. CommonPrefix(s, t) : s[j] = t[j]
<1> DEFINE C == CommonPrefixes({s, t})
           Longest(p) == \A q \in C : Len(q) <= Len(p)
<1>1. ASSUME NEW p \in C
      PROVE  /\ Len(p) \in 0 .. Len(s) /\ Len(p) <= Len(t)
             /\ \A j \in 1 .. Len(p) : s[j] = t[j]
  <2>1. IsPrefix(p, s) /\ IsPrefix(p, t) /\ (p \in Prefixes(s) \/ p \in Prefixes(t))
    BY DEF CommonPrefixes
  <2>2. Len(p) \in Nat
    <3>1. ASSUME NEW l \in 0 .. Len(s), p = SubSeq(s, 1, l) PROVE Len(p) \in Nat
      BY <3>1
    <3>2. ASSUME NEW l \in 0 .. Len(t), p = SubSeq(t, 1, l) PROVE Len(p) \in Nat
      BY <3>2
    <3> QED
      BY <2>1, <3>1, <3>2 DEF Prefixes
  <2>3. Len(p) <= Len(s) /\ Len(p) <= Len(t) /\ SubSeq(s, 1, Len(p)) = SubSeq(t, 1, Len(p))
    BY <2>1 DEF IsPrefix
  <2> DEFINE l == Len(p)
  <2>4. l \in Nat /\ l <= Len(s) /\ l <= Len(t) /\ SubSeq(s, 1, l) = SubSeq(t, 1, l)
    BY <2>2, <2>3
  <2> HIDE DEF l
  <2>5. ASSUME NEW j \in 1 .. l PROVE s[j] = t[j]
    <3>1. SubSeq(s, 1, l)[j] = s[j]
      BY <2>4
    <3>2. SubSeq(t, 1, l)[j] = t[j]
      BY <2>4
    <3> QED
      BY <2>4, <3>1, <3>2
  <2> QED
    BY <2>4, <2>5 DEF l
<1>2. <<>> \in C
  <2>1. <<>> = SubSeq(s, 1, 0) /\ 0 \in 0 .. Len(s)
    OBVIOUS
  <2>2. <<>> \in Prefixes(s)
    BY <2>1 DEF Prefixes
  <2>3. IsPrefix(<<>>, s) /\ IsPrefix(<<>>, t)
    <3>1. SubSeq(<<>>, 1, 0) = <<>> /\ SubSeq(s, 1, 0) = <<>> /\ SubSeq(t, 1, 0) = <<>>
          /\ Len(<<>>) = 0 /\ Len(s) >= 0 /\ Len(t) >= 0
      OBVIOUS
    <3> QED
      BY <3>1 DEF IsPrefix
  <2> QED
    BY <2>2, <2>3 DEF CommonPrefixes
<1> HIDE DEF C
<1>3. \E p \in C : Longest(p)
  <2> DEFINE D == {Len(s) - Len(p) : p \in C}
  <2>1. D \in SUBSET Nat /\ D # {}
    BY <1>1, <1>2
  <2>2. PICK d \in D : \A e \in D : d <= e
    <3> HIDE DEF D
    <3> QED
      BY <2>1, LeastNatural
  <2>3. PICK p \in C : d = Len(s) - Len(p)
    OBVIOUS
  <2>4. ASSUME NEW q \in C PROVE Len(q) <= Len(p)
    <3>1. Len(s) - Len(p) <= Len(s) - Len(q)
      BY <2>2, <2>3
    <3>2. Len(p) \in Nat /\ Len(q) \in Nat /\ Len(s) \in Nat
      BY <1>1
    <3> QED
      BY <3>1, <3>2
  <2> QED
    BY <2>4
<1>4. LongestCommonPrefix({s, t}) \in C
  BY <1>3 DEF LongestCommonPrefix, C
<1> QED
  BY <1>1, <1>4 DEF CommonPrefix

\* A hunk's halves have pre lines in common before, and post lines after, what changes.
HasEnds(old, new, pre, a, b, post) ==
    /\ pre \in Nat /\ a \in Nat /\ b \in Nat /\ post \in Nat
    /\ Len(old) = pre + a + post /\ Len(new) = pre + b + post
    /\ \A j \in 1 .. pre : old[j] = new[j]
    /\ \A k \in 1 .. post : old[pre + a + k] = new[pre + b + k]

\* What From leaves
LEMMA FromDrops ==
  ASSUME NEW S, NEW s \in Seq(S), NEW n \in 0 .. Len(s)
  PROVE  /\ From(s, n) \in Seq(S) /\ Len(From(s, n)) = Len(s) - n
         /\ \A j \in 1 .. Len(s) - n : From(s, n)[j] = s[n + j]
BY DEF From

\* The last comes first.
LEMMA ReverseTurns ==
  ASSUME NEW S, NEW s \in Seq(S)
  PROVE  /\ Reverse(s) \in Seq(S) /\ Len(Reverse(s)) = Len(s)
         /\ \A j \in 1 .. Len(s) : Reverse(s)[j] = s[Len(s) - j + 1]
<1> DEFINE n == Len(s)
           r == [i \in 1 .. n |-> s[(n - i) + 1]]
<1>1. n \in Nat /\ \A i \in 1 .. n : (n - i) + 1 \in 1 .. n
  OBVIOUS
<1>2. r \in [1 .. n -> S]
  BY <1>1
<1>3. r \in Seq(S) /\ Len(r) = n
  BY <1>1, <1>2
<1>4. Reverse(s) = r
  BY DEF Reverse
<1> QED
  BY <1>3, <1>4

\* What the budget counts of a hunk is what it replaces.
LEMMA ChangedLinesAreReplaced ==
  ASSUME NEW S, NEW hunk, hunk.old \in Seq(S), hunk.new \in Seq(S)
  PROVE  \E pre, a, b, post : /\ HasEnds(hunk.old, hunk.new, pre, a, b, post)
                              /\ ChangedLines(hunk) = a + b
<1> DEFINE old == hunk.old
           new == hunk.new
           pre == CommonPrefix(old, new)
           s == From(old, pre)
           t == From(new, pre)
           post == CommonPrefix(Reverse(s), Reverse(t))
<1>1. ChangedLines(hunk) = Len(new) + Len(old) - 2 * (pre + post)
  BY DEF ChangedLines, CommonEnds
<1>2. old \in Seq(S) /\ new \in Seq(S) /\ Len(old) \in Nat /\ Len(new) \in Nat
  OBVIOUS
<1> HIDE DEF old, new
<1>3. /\ pre \in 0 .. Len(old) /\ pre <= Len(new)
      /\ \A j \in 1 .. pre : old[j] = new[j]
  BY <1>2, PrefixIsCommon
<1> HIDE DEF pre
<1>4. /\ s \in Seq(S) /\ Len(s) = Len(old) - pre
      /\ \A j \in 1 .. Len(old) - pre : s[j] = old[pre + j]
  BY <1>2, <1>3, FromDrops
<1>5. /\ t \in Seq(S) /\ Len(t) = Len(new) - pre
      /\ \A j \in 1 .. Len(new) - pre : t[j] = new[pre + j]
  BY <1>2, <1>3, FromDrops
<1> HIDE DEF s, t
<1>6. /\ Reverse(s) \in Seq(S) /\ Len(Reverse(s)) = Len(s)
      /\ \A j \in 1 .. Len(s) : Reverse(s)[j] = s[Len(s) - j + 1]
  BY <1>4, ReverseTurns
<1>7. /\ Reverse(t) \in Seq(S) /\ Len(Reverse(t)) = Len(t)
      /\ \A j \in 1 .. Len(t) : Reverse(t)[j] = t[Len(t) - j + 1]
  BY <1>5, ReverseTurns
<1>8. /\ post \in 0 .. Len(s) /\ post <= Len(t)
      /\ \A j \in 1 .. post : Reverse(s)[j] = Reverse(t)[j]
  BY <1>6, <1>7, PrefixIsCommon
<1> HIDE DEF post
<1> DEFINE a == Len(old) - pre - post
           b == Len(new) - pre - post
<1>9. /\ pre \in Nat /\ a \in Nat /\ b \in Nat /\ post \in Nat
      /\ Len(old) = pre + a + post /\ Len(new) = pre + b + post
      /\ Len(s) = a + post /\ Len(t) = b + post
  BY <1>2, <1>3, <1>4, <1>5, <1>8
<1>10. ChangedLines(hunk) = a + b
  BY <1>1, <1>2, <1>3, <1>9
<1> HIDE DEF a, b
<1>11. ASSUME NEW k \in 1 .. post PROVE old[pre + a + k] = new[pre + b + k]
  <2> DEFINE j == post - k + 1
  <2>1. /\ j \in 1 .. post /\ j \in 1 .. Len(s) /\ j \in 1 .. Len(t)
        /\ Len(s) - j + 1 = a + k /\ Len(t) - j + 1 = b + k
        /\ a + k \in 1 .. Len(old) - pre /\ b + k \in 1 .. Len(new) - pre
        /\ pre + (a + k) = pre + a + k /\ pre + (b + k) = pre + b + k
    BY <1>9
  <2> HIDE DEF j
  <2>2. Reverse(s)[j] = s[a + k] /\ Reverse(t)[j] = t[b + k]
    BY <1>6, <1>7, <2>1
  <2>3. Reverse(s)[j] = Reverse(t)[j]
    BY <1>8, <2>1
  <2>4. s[a + k] = old[pre + a + k] /\ t[b + k] = new[pre + b + k]
    BY <1>4, <1>5, <2>1
  <2> QED
    BY <2>2, <2>3, <2>4
<1>12. HasEnds(old, new, pre, a, b, post)
  BY <1>3, <1>9, <1>11 DEF HasEnds
<1> QED
  BY <1>10, <1>12 DEF old, new
----------------------------------------------------------------------------
\* Applying a hunk

\* In a sequence, n elements from i on are replaced by new.
IsSplice(t, u, i, n, new) ==
    /\ i \in Nat /\ i > 0 /\ n \in Nat /\ i + n - 1 <= Len(t)
    /\ Len(u) = Len(t) - n + Len(new)
    /\ \A j \in 1 .. i - 1 : u[j] = t[j]
    /\ \A k \in 1 .. Len(new) : u[i - 1 + k] = new[k]
    /\ \A k \in 1 .. Len(t) - (i + n - 1) : u[i - 1 + Len(new) + k] = t[i - 1 + n + k]

\* Splice is one.
LEMMA SpliceIsOne ==
  ASSUME NEW S, NEW lines \in Seq(S), NEW new \in Seq(S), NEW i \in Nat, NEW n \in Nat,
         i > 0, i + n - 1 <= Len(lines)
  PROVE  Splice(lines, i, n, new) \in Seq(S) /\ IsSplice(lines, Splice(lines, i, n, new), i, n, new)
<1> DEFINE m == Len(lines)
           o == Len(new)
           before == SubSeq(lines, 1, i - 1)
           after == SubSeq(lines, i + n, m)
           u == Splice(lines, i, n, new)
<1>1. m \in Nat /\ o \in Nat /\ i + n - 1 <= m
  OBVIOUS
<1>2. before \in Seq(S) /\ Len(before) = i - 1 /\ \A j \in 1 .. i - 1 : before[j] = lines[j]
  OBVIOUS
<1>3. /\ after \in Seq(S) /\ Len(after) = m - (i + n - 1)
      /\ \A k \in 1 .. m - (i + n - 1) : after[k] = lines[i - 1 + n + k]
  OBVIOUS
<1>4. u = (before \o new) \o after
  BY DEF Splice
<1> HIDE DEF before, after, u
<1> DEFINE v == before \o new
<1>5. /\ v \in Seq(S) /\ Len(v) = i - 1 + o
      /\ \A j \in 1 .. i - 1 : v[j] = lines[j]
      /\ \A k \in 1 .. o : v[i - 1 + k] = new[k]
  <2>1. v \in Seq(S) /\ Len(v) = Len(before) + Len(new)
    BY <1>2, ConcatProperties
  <2>2. \A j \in 1 .. Len(v) : v[j] = IF j <= Len(before) THEN before[j] ELSE new[j - Len(before)]
    BY <1>2, ConcatProperties
  <2>3. ASSUME NEW j \in 1 .. i - 1 PROVE v[j] = lines[j]
    BY <1>1, <1>2, <2>1, <2>2
  <2>4. ASSUME NEW k \in 1 .. o PROVE v[i - 1 + k] = new[k]
    <3>1. i - 1 + k \in 1 .. Len(v) /\ ~(i - 1 + k <= Len(before)) /\ (i - 1 + k) - Len(before) = k
      BY <1>1, <1>2, <2>1
    <3> QED
      BY <2>2, <3>1
  <2> QED
    BY <1>2, <2>1, <2>3, <2>4
<1> HIDE DEF v
<1>6. u = v \o after
  BY <1>4 DEF v
<1>7. u \in Seq(S) /\ Len(u) = Len(v) + Len(after)
  <2>1. v \in Seq(S) /\ after \in Seq(S)
    BY <1>3, <1>5
  <2> HIDE DEF m, o
  <2> QED
    BY <1>6, <2>1, ConcatProperties
<1>8. \A j \in 1 .. Len(u) : u[j] = IF j <= Len(v) THEN v[j] ELSE after[j - Len(v)]
  <2>1. v \in Seq(S) /\ after \in Seq(S)
    BY <1>3, <1>5
  <2> HIDE DEF m, o
  <2> QED
    BY <1>6, <2>1, ConcatProperties
<1> HIDE DEF m, o
<1>9. Len(u) = m - n + o
  BY <1>1, <1>3, <1>5, <1>7
<1>10. ASSUME NEW j \in 1 .. i - 1 PROVE u[j] = lines[j]
  <2>1. j \in 1 .. Len(u) /\ j <= Len(v)
    BY <1>1, <1>5, <1>9
  <2> QED
    BY <1>5, <1>8, <2>1
<1>11. ASSUME NEW k \in 1 .. o PROVE u[i - 1 + k] = new[k]
  <2>1. i - 1 + k \in 1 .. Len(u) /\ i - 1 + k <= Len(v)
    BY <1>1, <1>5, <1>9
  <2> QED
    BY <1>5, <1>8, <2>1
<1>12. ASSUME NEW k \in 1 .. m - (i + n - 1) PROVE u[i - 1 + o + k] = lines[i - 1 + n + k]
  <2>1. /\ i - 1 + o + k \in 1 .. Len(u) /\ ~(i - 1 + o + k <= Len(v))
        /\ (i - 1 + o + k) - Len(v) = k
    BY <1>1, <1>5, <1>9
  <2> QED
    BY <1>3, <1>8, <2>1
<1>13. IsSplice(lines, u, i, n, new)
  BY <1>1, <1>9, <1>10, <1>11, <1>12 DEF IsSplice, m, o
<1> QED
  BY <1>7, <1>13 DEF u

\* The texts of lines
LEMMA TextsAreThose ==
  ASSUME NEW S, NEW lines \in Seq(S)
  PROVE  /\ Len(Texts(lines)) = Len(lines) /\ DOMAIN Texts(lines) = 1 .. Len(lines)
         /\ Texts(lines) \in Seq({l.text : l \in S})
         /\ \A j \in 1 .. Len(lines) : Texts(lines)[j] = lines[j].text
<1> DEFINE n == Len(lines)
           T == {l.text : l \in S}
           t == [j \in 1 .. n |-> lines[j].text]
<1>1. n \in Nat /\ t \in [1 .. n -> T] /\ Texts(lines) = t
  BY DEF Texts
<1> HIDE DEF T, n
<1>2. t \in Seq(T) /\ Len(t) = n
  BY <1>1
<1> QED
  BY <1>1, <1>2 DEF T, n

\* The texts of what is spliced
LEMMA SplicedTexts ==
  ASSUME NEW S, NEW lines \in Seq(S), NEW u \in Seq(S), NEW new \in Seq(S), NEW i, NEW n,
         IsSplice(lines, u, i, n, new)
  PROVE  IsSplice(Texts(lines), Texts(u), i, n, Texts(new))
<1> DEFINE m == Len(lines)
           o == Len(new)
           p == Len(u)
<1>1. /\ i \in Nat /\ i > 0 /\ n \in Nat /\ i + n - 1 <= m /\ p = m - n + o
      /\ m \in Nat /\ o \in Nat /\ p \in Nat
  BY DEF IsSplice
<1>2. /\ Len(Texts(lines)) = m /\ Len(Texts(u)) = p /\ Len(Texts(new)) = o
      /\ \A j \in 1 .. m : Texts(lines)[j] = lines[j].text
      /\ \A j \in 1 .. p : Texts(u)[j] = u[j].text
      /\ \A j \in 1 .. o : Texts(new)[j] = new[j].text
  BY TextsAreThose
<1>3. /\ \A j \in 1 .. i - 1 : u[j] = lines[j]
      /\ \A k \in 1 .. o : u[i - 1 + k] = new[k]
      /\ \A k \in 1 .. m - (i + n - 1) : u[i - 1 + o + k] = lines[i - 1 + n + k]
  BY DEF IsSplice
<1> HIDE DEF m, o, p
<1>4. ASSUME NEW j \in 1 .. i - 1 PROVE Texts(u)[j] = Texts(lines)[j]
  <2>1. j \in 1 .. m /\ j \in 1 .. p
    BY <1>1
  <2> QED
    BY <1>2, <1>3, <2>1
<1>5. ASSUME NEW k \in 1 .. o PROVE Texts(u)[i - 1 + k] = Texts(new)[k]
  <2>1. i - 1 + k \in 1 .. p
    BY <1>1
  <2> QED
    BY <1>2, <1>3, <2>1
<1>6. ASSUME NEW k \in 1 .. m - (i + n - 1)
      PROVE  Texts(u)[i - 1 + o + k] = Texts(lines)[i - 1 + n + k]
  <2>1. i - 1 + o + k \in 1 .. p /\ i - 1 + n + k \in 1 .. m
    BY <1>1
  <2> QED
    BY <1>2, <1>3, <2>1
<1> QED
  BY <1>1, <1>2, <1>4, <1>5, <1>6 DEF IsSplice

\* Where a sequence is matched
LEMMA MatchesAre ==
  ASSUME NEW S, NEW lines \in Seq(S), NEW old \in Seq(S), NEW i \in MatchesOf(lines, old)
  PROVE  /\ i \in Nat /\ i > 0 /\ i + Len(old) - 1 <= Len(lines)
         /\ SubSeq(lines, i, i + Len(old) - 1) \in Seq(S)
         /\ Len(SubSeq(lines, i, i + Len(old) - 1)) = Len(old)
         /\ \A k \in 1 .. Len(old) : SubSeq(lines, i, i + Len(old) - 1)[k] = lines[i - 1 + k]
         /\ \A k \in 1 .. Len(old) : lines[i - 1 + k] = old[k]
<1> DEFINE n == Len(old)
           m == Len(lines)
           q == SubSeq(lines, i, i + n - 1)
<1>1. n \in Nat /\ m \in Nat /\ i \in 1 .. m - n + 1 /\ q = old
  BY DEF MatchesOf
<1>2. i \in Nat /\ i > 0 /\ i + n - 1 <= m
  BY <1>1
<1>3. \A k \in 1 .. n : q[k] = lines[i - 1 + k]
  BY <1>1, <1>2
<1> QED
  BY <1>1, <1>2, <1>3

\* Where a hunk was applied and what it then replaced
WasApplied(t, u, i, old, new) ==
    /\ IsSplice(t, u, i, Len(old), new)
    /\ \A k \in 1 .. Len(old) : t[i - 1 + k] = old[k]

\* The lines a hunk puts in have the texts of its new lines, whatever becomes of their
\* white space.
LEMMA ResolvedTexts ==
  ASSUME NEW S, NEW hunk, hunk.old \in Seq(S), hunk.new \in Seq(S), NEW matched \in Seq(S),
         Len(matched) = Len(hunk.old),
         \A k \in 1 .. Len(hunk.old) : matched[k].text = hunk.old[k].text
  PROVE  Resolved(hunk, matched) \in Seq(S) /\ Texts(Resolved(hunk, matched)) = Texts(hunk.new)
<1> DEFINE old == hunk.old
           new == hunk.new
           n == Len(old)
           o == Len(new)
           same(k) == {j \in DOMAIN old : old[j].text = new[k].text}
           r == [k \in 1 .. o |-> IF Cardinality(same(k)) = 1 THEN matched[Max(same(k))] ELSE new[k]]
<1>1. Resolved(hunk, matched) = r
  BY DEF Resolved
<1>2. n \in Nat /\ o \in Nat /\ DOMAIN old = 1 .. n /\ \A k \in 1 .. o : new[k] \in S
  OBVIOUS
<1>3. ASSUME NEW k \in 1 .. o PROVE r[k] \in S /\ r[k].text = new[k].text
  <2>1. CASE Cardinality(same(k)) # 1
    BY <1>2, <2>1
  <2>2. CASE Cardinality(same(k)) = 1
    <3>1. same(k) \in SUBSET (1 .. n)
      OBVIOUS
    <3>2. same(k) # {}
      <4>1. Cardinality(same(k)) # 0
        BY <2>2
      <4>2. Cardinality({}) = 0
        BY FS_EmptySet
      <4> HIDE DEF same
      <4> QED
        BY <4>1, <4>2
    <3>3. Max(same(k)) \in same(k)
      <4> HIDE DEF same
      <4> QED
        BY <1>2, <3>1, <3>2, MaxIsOneOfThem
    <3> DEFINE j == Max(same(k))
    <3>4. j \in 1 .. n /\ old[j].text = new[k].text
      BY <3>3
    <3>5. r[k] = matched[j]
      BY <2>2
    <3> HIDE DEF j, r, same
    <3>6. matched[j] \in S /\ matched[j].text = old[j].text
      BY <3>4
    <3> QED
      BY <3>4, <3>5, <3>6
  <2> QED
    BY <2>1, <2>2
<1> HIDE DEF same
<1>4. DOMAIN r = 1 .. o
  OBVIOUS
<1>5. r = [k \in 1 .. o |-> r[k]]
  OBVIOUS
<1> HIDE DEF r
<1>6. r \in [1 .. o -> S]
  BY <1>3, <1>5
<1>7. r \in Seq(S)
  BY <1>2, <1>6
<1>8. Texts(r) = Texts(new)
  BY <1>2, <1>3, <1>4 DEF Texts
<1> QED
  BY <1>1, <1>7, <1>8

\* A hunk that is applied replaces lines that have the texts of its old ones by lines
\* that have those of its new ones.
LEMMA ApplyingSplices ==
  ASSUME NEW S, NEW lines \in Seq(S), NEW hunk, hunk.old \in Seq(S), hunk.new \in Seq(S),
         hunk.old # <<>>, NEW u \in ApplyHunk(lines, hunk)
  PROVE  /\ u \in Seq(S)
         /\ \E i : WasApplied(Texts(lines), Texts(u), i, Texts(hunk.old), Texts(hunk.new))
<1> DEFINE old == hunk.old
           new == hunk.new
           n == Len(old)
           t == Texts(lines)
           loosely(i) == Splice(lines, i, n, Resolved(hunk, SubSeq(lines, i, i + n - 1)))
<1>1. n \in Nat /\ n # 0 /\ old \in Seq(S) /\ new \in Seq(S)
  OBVIOUS
<1>2. /\ Len(Texts(old)) = n /\ \A k \in 1 .. n : Texts(old)[k] = old[k].text
      /\ Len(t) = Len(lines) /\ \A k \in 1 .. Len(lines) : t[k] = lines[k].text
      /\ Len(lines) \in Nat
  <2>1. Len(Texts(old)) = Len(old) /\ \A k \in 1 .. Len(old) : Texts(old)[k] = old[k].text
    BY <1>1, TextsAreThose
  <2>2. /\ Len(Texts(lines)) = Len(lines)
        /\ \A k \in 1 .. Len(lines) : Texts(lines)[k] = lines[k].text
    BY TextsAreThose
  <2>3. Len(lines) \in Nat
    OBVIOUS
  <2> QED
    BY <2>1, <2>2, <2>3
<1>3. \/ Exact(lines, hunk) # {} /\ u = Splice(lines, Min(Exact(lines, hunk)), n, new)
      \/ \E i \in Loose(lines, hunk) : u = loosely(i)
  BY <1>1 DEF ApplyHunk
<1>4. CASE Exact(lines, hunk) # {} /\ u = Splice(lines, Min(Exact(lines, hunk)), n, new)
  <2> DEFINE i == Min(Exact(lines, hunk))
  <2>1. i \in MatchesOf(lines, old)
    <3>1. Exact(lines, hunk) = MatchesOf(lines, old)
      BY DEF Exact
    <3>2. Exact(lines, hunk) \in SUBSET Nat
      <4>1. \A k \in 1 .. Len(lines) - n + 1 : k \in Nat
        BY <1>1, <1>2
      <4>2. \A k \in MatchesOf(lines, old) : k \in 1 .. Len(lines) - n + 1
        BY DEF MatchesOf
      <4> QED
        BY <3>1, <4>1, <4>2
    <3>3. \E x \in Exact(lines, hunk) : \A y \in Exact(lines, hunk) : x <= y
      BY <1>4, <3>2, LeastNatural
    <3> QED
      BY <3>1, <3>3 DEF Min
  <2> HIDE DEF i
  <2>2. /\ i \in Nat /\ i > 0 /\ i + n - 1 <= Len(lines)
        /\ \A k \in 1 .. n : lines[i - 1 + k] = old[k]
    BY <1>1, <2>1, MatchesAre
  <2>3. u = Splice(lines, i, n, new)
    BY <1>4 DEF i
  <2>4. u \in Seq(S) /\ IsSplice(lines, u, i, n, new)
    BY <1>1, <2>2, <2>3, SpliceIsOne
  <2>5. IsSplice(t, Texts(u), i, n, Texts(new))
    BY <1>1, <2>4, SplicedTexts
  <2>6. ASSUME NEW k \in 1 .. n PROVE t[i - 1 + k] = Texts(old)[k]
    <3>1. i - 1 + k \in 1 .. Len(lines)
      BY <1>1, <1>2, <2>2
    <3> QED
      BY <1>2, <2>2, <3>1
  <2>7. WasApplied(t, Texts(u), i, Texts(old), Texts(new))
    BY <1>2, <2>5, <2>6 DEF WasApplied
  <2> QED
    BY <2>4, <2>7
<1>5. ASSUME NEW i \in Loose(lines, hunk), u = loosely(i)
      PROVE  /\ u \in Seq(S)
             /\ WasApplied(t, Texts(u), i, Texts(old), Texts(new))
  <2> DEFINE matched == SubSeq(lines, i, i + n - 1)
             T == {l.text : l \in S}
  <2>1. t \in Seq(T) /\ Texts(old) \in Seq(T) /\ i \in MatchesOf(t, Texts(old))
    <3>1. t \in Seq(T) /\ Texts(old) \in Seq(T)
      BY <1>1, TextsAreThose
    <3> QED
      BY <3>1 DEF Loose
  <2>2. /\ i \in Nat /\ i > 0 /\ i + n - 1 <= Len(lines)
        /\ \A k \in 1 .. n : t[i - 1 + k] = Texts(old)[k]
    <3> HIDE DEF T, t
    <3> QED
      BY <1>2, <2>1, MatchesAre
  <2>3. /\ matched \in Seq(S) /\ Len(matched) = n
        /\ \A k \in 1 .. n : matched[k] = lines[i - 1 + k]
    BY <1>1, <1>2, <2>2
  <2> HIDE DEF matched
  <2>4. ASSUME NEW k \in 1 .. n PROVE matched[k].text = old[k].text
    <3>1. i - 1 + k \in 1 .. Len(lines)
      BY <1>1, <1>2, <2>2
    <3> QED
      BY <1>2, <2>2, <2>3, <3>1
  <2>5. Resolved(hunk, matched) \in Seq(S) /\ Texts(Resolved(hunk, matched)) = Texts(new)
    BY <1>1, <2>3, <2>4, ResolvedTexts
  <2> DEFINE r == Resolved(hunk, matched)
  <2>6. u = Splice(lines, i, n, r)
    BY <1>5 DEF matched
  <2> HIDE DEF r
  <2>7. r \in Seq(S) /\ Texts(r) = Texts(new)
    BY <2>5 DEF r
  <2>8. u \in Seq(S) /\ IsSplice(lines, u, i, n, r)
    BY <1>1, <2>2, <2>6, <2>7, SpliceIsOne
  <2>9. IsSplice(t, Texts(u), i, n, Texts(new))
    <3>1. IsSplice(t, Texts(u), i, n, Texts(r))
      BY <2>7, <2>8, SplicedTexts
    <3> QED
      BY <2>7, <3>1
  <2>10. WasApplied(t, Texts(u), i, Texts(old), Texts(new))
    BY <1>2, <2>2, <2>9 DEF WasApplied
  <2> QED
    BY <2>8, <2>10
<1> QED
  <2> HIDE DEF loosely, n, t
  <2> QED
    BY <1>3, <1>4, <1>5 DEF t

\* Of a splice that leaves both ends of the old lines, only the middle is replaced.
LEMMA SpliceReplaces ==
  ASSUME NEW t, NEW u, NEW old, NEW new, NEW i, NEW pre, NEW a, NEW b, NEW post,
         Len(t) \in Nat, WasApplied(t, u, i, old, new), HasEnds(old, new, pre, a, b, post)
  PROVE  \E p, q \in Nat : /\ IsReplaced(t, u, p, a, b, q)
                           /\ Len(t) = p + a + q /\ Len(u) = p + b + q
<1> DEFINE m == Len(t)
           n == pre + a + post
           o == pre + b + post
           p == i - 1 + pre
           q == post + (m - (i + n - 1))
<1>1. /\ pre \in Nat /\ a \in Nat /\ b \in Nat /\ post \in Nat /\ m \in Nat
      /\ Len(old) = n /\ Len(new) = o
      /\ i \in Nat /\ i > 0 /\ i + n - 1 <= m /\ Len(u) = m - n + o
  BY DEF WasApplied, HasEnds, IsSplice
<1>2. p \in Nat /\ q \in Nat /\ m = p + a + q /\ Len(u) = p + b + q
  BY <1>1
<1>3. /\ \A j \in 1 .. i - 1 : u[j] = t[j]
      /\ \A k \in 1 .. o : u[i - 1 + k] = new[k]
      /\ \A k \in 1 .. m - (i + n - 1) : u[i - 1 + o + k] = t[i - 1 + n + k]
      /\ \A k \in 1 .. n : t[i - 1 + k] = old[k]
  BY <1>1 DEF WasApplied, IsSplice
<1>4. /\ \A j \in 1 .. pre : old[j] = new[j]
      /\ \A k \in 1 .. post : old[pre + a + k] = new[pre + b + k]
  BY DEF HasEnds
<1> HIDE DEF m
<1>5. ASSUME NEW j \in 1 .. p PROVE t[j] = u[j]
  <2>1. CASE j <= i - 1
    BY <1>1, <1>3, <2>1
  <2>2. CASE ~(j <= i - 1)
    <3> DEFINE k == j - (i - 1)
    <3>1. k \in 1 .. pre /\ k \in 1 .. n /\ k \in 1 .. o /\ i - 1 + k = j
      BY <1>1, <2>2
    <3> HIDE DEF k
    <3>2. t[j] = old[k] /\ u[j] = new[k]
      BY <1>3, <3>1
    <3> QED
      BY <1>4, <3>1, <3>2
  <2> QED
    BY <2>1, <2>2
<1>6. ASSUME NEW k \in 1 .. q PROVE t[p + a + k] = u[p + b + k]
  <2>1. CASE k <= post
    <3>1. /\ k \in 1 .. post /\ pre + a + k \in 1 .. n /\ pre + b + k \in 1 .. o
          /\ i - 1 + (pre + a + k) = p + a + k /\ i - 1 + (pre + b + k) = p + b + k
      BY <1>1, <2>1
    <3>2. t[i - 1 + (pre + a + k)] = old[pre + a + k] /\ u[i - 1 + (pre + b + k)] = new[pre + b + k]
      BY <1>3, <3>1
    <3> QED
      BY <1>4, <3>1, <3>2
  <2>2. CASE ~(k <= post)
    <3> DEFINE l == k - post
    <3>1. /\ l \in 1 .. m - (i + n - 1)
          /\ i - 1 + n + l = p + a + k /\ i - 1 + o + l = p + b + k
      BY <1>1, <2>2
    <3>2. u[i - 1 + o + l] = t[i - 1 + n + l]
      BY <1>3, <3>1
    <3> QED
      BY <3>1, <3>2
  <2> QED
    BY <2>1, <2>2
<1> HIDE DEF p, q
<1>7. IsReplaced(t, u, p, a, b, q)
  BY <1>5, <1>6 DEF IsReplaced, SameUpto
<1> QED
  BY <1>2, <1>7 DEF m
----------------------------------------------------------------------------
\* Sums of a finite function

\* The sum of numbers is one.
LEMMA SumIsNumber ==
  ASSUME NEW S, IsFiniteSet(S), NEW F \in [S -> Int]
  PROVE  SumFunction(F) \in Int
<1>1. CASE S = {}
  <2>1. F \in [{} -> Int]
    BY <1>1
  <2>2. SumFunction(F) = 0
    BY <2>1, SumOfNone
  <2> QED
    BY <2>2
<1>2. CASE S # {}
  <2>1. PICK x \in S : TRUE
    BY <1>2
  <2> QED
    BY <2>1, SumSplits
<1> QED
  BY <1>1, <1>2

\* If two functions differ at one place only, so do their sums.
LEMMA SumChanges ==
  ASSUME NEW S, IsFiniteSet(S), NEW F \in [S -> Int], NEW G \in [S -> Int], NEW x \in S,
         \A y \in S \ {x} : F[y] = G[y]
  PROVE  /\ SumFunction(F) \in Int /\ SumFunction(G) \in Int
         /\ SumFunction(G) - SumFunction(F) = G[x] - F[x]
<1>1. Rest(F, x) = Rest(G, x)
  <2>1. DOMAIN F = S /\ DOMAIN G = S
    OBVIOUS
  <2> QED
    BY <2>1 DEF Rest
<1> DEFINE R == Rest(F, x)
<1>2. SumFunction(F) \in Int /\ SumFunction(R) \in Int /\ SumFunction(F) = F[x] + SumFunction(R)
  BY SumSplits
<1>3. SumFunction(G) \in Int /\ SumFunction(G) = G[x] + SumFunction(R)
  BY <1>1, SumSplits
<1>4. F[x] \in Int /\ G[x] \in Int
  OBVIOUS
<1> HIDE DEF R
<1> QED
  BY <1>2, <1>3, <1>4

\* Nothing sums up to nothing.
LEMMA SumOfZeros ==
  ASSUME NEW S, IsFiniteSet(S)
  PROVE  SumFunction([x \in S |-> 0]) = 0
<1> DEFINE Zero(R) == SumFunction([x \in R |-> 0]) = 0
           T == {k \in Nat : \A R \in SUBSET S : Cardinality(R) <= k => Zero(R)}
<1>0. Zero({})
  <2>1. [x \in {} |-> 0] \in [{} -> Int]
    OBVIOUS
  <2> QED
    BY <2>1, SumOfNone
<1>1. 0 \in T
  <2>1. ASSUME NEW R \in SUBSET S, Cardinality(R) <= 0 PROVE R = {}
    BY <2>1, PartIsEmpty
  <2> HIDE DEF Zero
  <2> QED
    BY <1>0, <2>1
<1>2. ASSUME NEW k \in T PROVE k + 1 \in T
  <2>1. k \in Nat /\ \A R \in SUBSET S : Cardinality(R) <= k => Zero(R)
    <3> HIDE DEF Zero
    <3> QED
      OBVIOUS
  <2> HIDE DEF T
  <2>2. ASSUME NEW R \in SUBSET S, Cardinality(R) <= k + 1, R # {} PROVE Zero(R)
    <3>1. PICK x \in R : TRUE
      BY <2>2
    <3>2. /\ R \ {x} \in SUBSET S /\ Cardinality(R \ {x}) \in Nat
          /\ Cardinality(R) = Cardinality(R \ {x}) + 1
      BY PartWithout
    <3>3. Zero(R \ {x})
      <4> HIDE DEF Zero
      <4> QED
        BY <2>1, <2>2, <3>2
    <3> DEFINE F == [y \in R |-> 0]
               G == [y \in R \ {x} |-> 0]
    <3>4. F \in [R -> Int] /\ F[x] = 0 /\ G = Rest(F, x)
      BY <3>1 DEF Rest
    <3>5. IsFiniteSet(R)
      BY FS_Subset
    <3>6. SumFunction(G) = 0
      BY <3>3
    <3> HIDE DEF F, G
    <3>7. SumFunction(F) = F[x] + SumFunction(G)
      BY <3>1, <3>4, <3>5, SumSplits
    <3>8. SumFunction(F) = 0
      BY <3>4, <3>6, <3>7
    <3> QED
      BY <3>8 DEF F
  <2> HIDE DEF Zero
  <2> QED
    BY <1>0, <2>1, <2>2 DEF T
<1>3. T \subseteq Nat
  OBVIOUS
<1>4. T = Nat
  <2> HIDE DEF T
  <2> QED
    BY <1>1, <1>2, <1>3, SetInduction
<1>5. Zero(S)
  <2>1. Cardinality(S) \in Nat
    BY FS_CardinalityType
  <2> HIDE DEF Zero
  <2> QED
    BY <1>4, <2>1
<1> QED
  BY <1>5

\* The sum of the first k
SumUpto(F, k) == SumFunction([i \in 1 .. k |-> F[i]])

\* A sum goes on one by one.
LEMMA SumGoesOn ==
  ASSUME NEW n \in Nat, NEW F \in [1 .. n -> Int]
  PROVE  /\ SumUpto(F, 0) = 0
         /\ \A k \in 0 .. n : SumUpto(F, k) \in Int
         /\ \A k \in 0 .. n - 1 : SumUpto(F, k + 1) = SumUpto(F, k) + F[k + 1]
<1> DEFINE first(k) == [i \in 1 .. k |-> F[i]]
<1>1. ASSUME NEW k \in 0 .. n PROVE first(k) \in [1 .. k -> Int] /\ IsFiniteSet(1 .. k)
  <2>1. \A i \in 1 .. k : i \in 1 .. n
    OBVIOUS
  <2>2. IsFiniteSet(1 .. k)
    BY FS_Interval
  <2> QED
    BY <2>1, <2>2
<1>2. SumUpto(F, 0) = 0
  <2>1. 1 .. 0 = {} /\ first(0) \in [{} -> Int]
    OBVIOUS
  <2> HIDE DEF first
  <2>2. SumFunction(first(0)) = 0
    BY <2>1, SumOfNone
  <2> QED
    BY <2>2 DEF first, SumUpto
<1>3. ASSUME NEW k \in 0 .. n PROVE SumUpto(F, k) \in Int
  <2> HIDE DEF first
  <2>1. SumFunction(first(k)) \in Int
    BY <1>1, SumIsNumber
  <2> QED
    BY <2>1 DEF first, SumUpto
<1>4. ASSUME NEW k \in 0 .. n - 1 PROVE SumUpto(F, k + 1) = SumUpto(F, k) + F[k + 1]
  <2>1. k \in 0 .. n /\ k + 1 \in 0 .. n /\ k + 1 \in 1 .. k + 1 /\ k \in Nat
    OBVIOUS
  <2>2. Rest(first(k + 1), k + 1) = first(k)
    <3>1. (1 .. k + 1) \ {k + 1} = 1 .. k
      <4>1. ASSUME NEW j PROVE j \in (1 .. k + 1) \ {k + 1} <=> j \in 1 .. k
        BY <2>1
      <4> QED
        BY <4>1
    <3> QED
      BY <3>1 DEF Rest
  <2> DEFINE g == first(k + 1)
  <2>3. g \in [1 .. k + 1 -> Int] /\ IsFiniteSet(1 .. k + 1) /\ g[k + 1] = F[k + 1]
    BY <1>1, <2>1
  <2> HIDE DEF first, g
  <2>4. SumFunction(g) = g[k + 1] + SumFunction(Rest(g, k + 1)) /\ SumFunction(Rest(g, k + 1)) \in Int
    BY <2>1, <2>3, SumSplits
  <2>5. g[k + 1] \in Int
    BY <2>1, <2>3
  <2>6. SumFunction(first(k + 1)) = SumFunction(first(k)) + F[k + 1]
    BY <2>2, <2>3, <2>4, <2>5 DEF g
  <2> QED
    BY <2>6 DEF first, SumUpto
<1> QED
  BY <1>2, <1>3, <1>4
----------------------------------------------------------------------------
\* The lines there may be: of the sources, and of hunks
SourceLines == UNION {Range(t[f]) : t \in Trees, f \in Files}
LinesOf(h) == {l.line : l \in Range(h.lines)}
AllLines == SourceLines \cup UNION {LinesOf(h) : h \in Hunks}

IsHunk(h) == h.file \in Files /\ h.old \in Seq(AllLines) /\ h.new \in Seq(AllLines)

\* Lines of a hunk without their signs
LEMMA UnsignedAreLines ==
  ASSUME NEW h \in Hunks, NEW lines \in Seq(Range(h.lines))
  PROVE  Unsigned(lines) \in Seq(AllLines)
<1>1. ASSUME NEW l \in Range(h.lines) PROVE l.line \in AllLines
  <2>1. l.line \in LinesOf(h)
    BY DEF LinesOf
  <2> QED
    BY <2>1 DEF AllLines
<1>2. \A k \in 1 .. Len(lines) : lines[k].line \in AllLines
  BY <1>1
<1> DEFINE q == [k \in 1 .. Len(lines) |-> lines[k].line]
<1>3. q \in [1 .. Len(lines) -> AllLines] /\ Len(lines) \in Nat
  BY <1>2
<1>4. Unsigned(lines) = q
  BY DEF Unsigned
<1> HIDE DEF q
<1> QED
  BY <1>3, <1>4

\* What is parsed of a hunk has a file, and two sequences of lines.
LEMMA ParsedAreHunks ==
  ASSUME NEW h \in Hunks
  PROVE  IsHunk(ParsedHunk(h))
<1>1. h.file \in Files /\ h.lines \in Seq(Range(h.lines))
  BY PatcherAssumption
<1>2. Without("+", h.lines) \in Seq(Range(h.lines)) /\ Without("-", h.lines) \in Seq(Range(h.lines))
  BY <1>1, WithoutIsSequence
<1> QED
  BY <1>1, <1>2, UnsignedAreLines DEF ParsedHunk, IsHunk

\* The files of a tree have lines.
LEMMA SourcesAreLines ==
  ASSUME NEW t \in Trees, NEW f \in Files
  PROVE  t[f] \in Seq(AllLines)
<1>1. t[f] \in Seq(Range(t[f]))
  BY RequestAssumption
<1>2. Range(t[f]) \subseteq AllLines
  BY DEF AllLines, SourceLines
<1> DEFINE q == t[f]
<1>3. q \in Seq(Range(q)) /\ Range(q) \subseteq AllLines
  BY <1>1, <1>2
<1> HIDE DEF q
<1>4. q \in Seq(AllLines)
  BY <1>3
<1> QED
  BY <1>4 DEF q

\* A hunk that is applied takes a file no further from another than the lines the budget
\* counts of it.
LEMMA ApplyingIsCounted ==
  ASSUME NEW lines \in Seq(AllLines), NEW hunk, IsHunk(hunk), NEW u \in ApplyHunk(lines, hunk),
         NEW s, Len(s) \in Nat
  PROVE  /\ u \in Seq(AllLines) /\ ChangedLines(hunk) \in Nat
         /\ Difference(s, Texts(lines)) \in Int /\ Difference(s, Texts(u)) \in Int
         /\ Difference(s, Texts(u)) <= Difference(s, Texts(lines)) + ChangedLines(hunk)
<1> DEFINE t == Texts(lines)
<1>1. hunk.old \in Seq(AllLines) /\ hunk.new \in Seq(AllLines)
  BY DEF IsHunk
<1>2. PICK pre, a, b, post : /\ HasEnds(hunk.old, hunk.new, pre, a, b, post)
                             /\ ChangedLines(hunk) = a + b
  BY <1>1, ChangedLinesAreReplaced
<1>3. a \in Nat /\ b \in Nat
  BY <1>2 DEF HasEnds
<1>4. CASE hunk.old = <<>>
  <2>1. u = lines
    BY <1>4 DEF ApplyHunk
  <2>2. Len(t) \in Nat
    BY TextsAreThose
  <2>3. Difference(s, t) \in Int
    <3>1. PICK lcs : /\ IsTable(lcs, s, t, Len(s), Len(t))
                     /\ Difference(s, t) = Len(s) + Len(t) - 2 * lcs[<<Len(s), Len(t)>>]
      BY <2>2, DifferenceHasTable
    <3>2. lcs[<<Len(s), Len(t)>>] \in Nat
      BY <2>2, <3>1 DEF IsTable
    <3> QED
      BY <2>2, <3>1, <3>2
  <2> QED
    BY <1>2, <1>3, <2>1, <2>3
<1>5. CASE hunk.old # <<>>
  <2>1. u \in Seq(AllLines) /\ \E i : WasApplied(t, Texts(u), i, Texts(hunk.old), Texts(hunk.new))
    BY <1>1, <1>5, ApplyingSplices
  <2>2. PICK i : WasApplied(t, Texts(u), i, Texts(hunk.old), Texts(hunk.new))
    BY <2>1
  <2>3. HasEnds(Texts(hunk.old), Texts(hunk.new), pre, a, b, post)
    <3>1. /\ Len(Texts(hunk.old)) = Len(hunk.old)
          /\ \A k \in 1 .. Len(hunk.old) : Texts(hunk.old)[k] = hunk.old[k].text
      BY <1>1, TextsAreThose
    <3>2. /\ Len(Texts(hunk.new)) = Len(hunk.new)
          /\ \A k \in 1 .. Len(hunk.new) : Texts(hunk.new)[k] = hunk.new[k].text
      BY <1>1, TextsAreThose
    <3>3. /\ pre \in Nat /\ post \in Nat
          /\ Len(hunk.old) = pre + a + post /\ Len(hunk.new) = pre + b + post
          /\ \A j \in 1 .. pre : hunk.old[j] = hunk.new[j]
          /\ \A k \in 1 .. post : hunk.old[pre + a + k] = hunk.new[pre + b + k]
      BY <1>2 DEF HasEnds
    <3>4. ASSUME NEW j \in 1 .. pre PROVE Texts(hunk.old)[j] = Texts(hunk.new)[j]
      <4>1. j \in 1 .. Len(hunk.old) /\ j \in 1 .. Len(hunk.new)
        BY <1>3, <3>3
      <4> QED
        BY <3>1, <3>2, <3>3, <4>1
    <3>5. ASSUME NEW k \in 1 .. post PROVE Texts(hunk.old)[pre + a + k] = Texts(hunk.new)[pre + b + k]
      <4>1. pre + a + k \in 1 .. Len(hunk.old) /\ pre + b + k \in 1 .. Len(hunk.new)
        BY <1>3, <3>3
      <4> QED
        BY <3>1, <3>2, <3>3, <4>1
    <3> QED
      BY <1>3, <3>1, <3>2, <3>3, <3>4, <3>5 DEF HasEnds
  <2>4. Len(t) \in Nat
    BY TextsAreThose
  <2> HIDE DEF t
  <2>5. PICK p \in Nat, q \in Nat : /\ IsReplaced(t, Texts(u), p, a, b, q)
                                    /\ Len(t) = p + a + q /\ Len(Texts(u)) = p + b + q
    BY <2>2, <2>3, <2>4, SpliceReplaces
  <2>6. /\ Difference(s, t) \in Int /\ Difference(s, Texts(u)) \in Int
        /\ Difference(s, Texts(u)) <= Difference(s, t) + a + b
    BY <1>3, <2>5, ReplacingDiffers
  <2>7. Difference(s, Texts(u)) <= Difference(s, t) + (a + b)
    BY <1>3, <2>6
  <2> QED
    BY <1>2, <1>3, <2>1, <2>6, <2>7 DEF t
<1> QED
  BY <1>4, <1>5
----------------------------------------------------------------------------
(***************************************************************************)
(* What the budget counts is an upper bound of what the hunks change: the  *)
(* invariant of the hunks that were applied, and its steps.                *)
(***************************************************************************)

\* What the budget counts of the first k hunks
CountedUpto(hs, k) == SumFunction([i \in 1 .. k |-> ChangedLines(hs[i])])

AreHunks(hs) == IsSequence(hs) /\ \A i \in 1 .. Len(hs) : IsHunk(hs[i])

\* How far the touched files are from what was read of them
ApartBy(before, after) == [f \in Touched |-> Difference(Texts(before[f]), Texts(after[f]))]

\* The files of hunks are finitely many.
LEMMA HunksAreFinite ==
  ASSUME NEW hs, AreHunks(hs)
  PROVE  /\ Len(hs) \in Nat /\ DOMAIN hs = 1 .. Len(hs)
         /\ IsFiniteSet(Named(Range(hs))) /\ Named(Range(hs)) \subseteq Files
         /\ \A i \in 1 .. Len(hs) : hs[i].file \in Named(Range(hs))
<1>1. Len(hs) \in Nat /\ DOMAIN hs = 1 .. Len(hs)
  BY DEF AreHunks, IsSequence
<1>2. IsFiniteSet(1 .. Len(hs))
  BY <1>1, FS_Interval
<1> DEFINE files == {hs[i].file : i \in 1 .. Len(hs)}
           file == [i \in 1 .. Len(hs) |-> hs[i].file]
<1>3. IsFiniteSet(files)
  <2>1. file \in Surjection(1 .. Len(hs), files)
    BY DEF Surjection
  <2> QED
    BY <1>2, <2>1, FS_Surjection
<1>4. Named(Range(hs)) = files
  BY <1>1 DEF Named, Range
<1>5. files \subseteq Files
  BY DEF AreHunks, IsHunk
<1>6. \A i \in 1 .. Len(hs) : hs[i].file \in files
  OBVIOUS
<1> QED
  BY <1>1, <1>3, <1>4, <1>5, <1>6

\* What the budget counts is a number.
LEMMA CountedIsNumber ==
  ASSUME NEW hunk, IsHunk(hunk)
  PROVE  ChangedLines(hunk) \in Nat
<1>1. PICK pre, a, b, post : /\ HasEnds(hunk.old, hunk.new, pre, a, b, post)
                             /\ ChangedLines(hunk) = a + b
  BY ChangedLinesAreReplaced DEF IsHunk
<1> QED
  BY <1>1 DEF HasEnds

\* The count goes hunk by hunk.
LEMMA CountGoesOn ==
  ASSUME NEW hs, AreHunks(hs)
  PROVE  /\ CountedUpto(hs, 0) = 0
         /\ \A k \in 0 .. Len(hs) : CountedUpto(hs, k) \in Int
         /\ \A k \in 0 .. Len(hs) - 1 :
              CountedUpto(hs, k + 1) = CountedUpto(hs, k) + ChangedLines(hs[k + 1])
<1> DEFINE n == Len(hs)
           F == [i \in 1 .. n |-> ChangedLines(hs[i])]
<1>1. n \in Nat /\ \A i \in 1 .. n : ChangedLines(hs[i]) \in Int
  BY HunksAreFinite, CountedIsNumber DEF AreHunks
<1> HIDE DEF n
<1>2. F \in [1 .. n -> Int]
  BY <1>1
<1>3. \A k \in 0 .. n : [i \in 1 .. k |-> F[i]] = [i \in 1 .. k |-> ChangedLines(hs[i])]
  <2>1. ASSUME NEW k \in 0 .. n, NEW i \in 1 .. k PROVE F[i] = ChangedLines(hs[i])
    <3>1. i \in 1 .. n
      BY <1>1
    <3> QED
      BY <3>1
  <2> HIDE DEF F
  <2> QED
    BY <2>1
<1>4. \A k \in 0 .. n - 1 : k \in 0 .. n /\ k + 1 \in 0 .. n /\ k + 1 \in 1 .. n
  BY <1>1
<1>5. \A k \in 0 .. n - 1 : F[k + 1] = ChangedLines(hs[k + 1])
  BY <1>4
<1> HIDE DEF F
<1>6. \A k \in 0 .. n : SumUpto(F, k) = CountedUpto(hs, k)
  BY <1>3 DEF SumUpto, CountedUpto
<1>7. /\ SumUpto(F, 0) = 0 /\ \A k \in 0 .. n : SumUpto(F, k) \in Int
      /\ \A k \in 0 .. n - 1 : SumUpto(F, k + 1) = SumUpto(F, k) + F[k + 1]
  BY <1>1, <1>2, SumGoesOn
<1>8. 0 \in 0 .. n
  BY <1>1
<1> QED
  BY <1>4, <1>5, <1>6, <1>7, <1>8 DEF n

\* What the patched files have in common with those read, and with the count so far
BInv ==
    /\ sources \in Trees /\ AreHunks(hunks)
    /\ pc \notin {"hunks", "identifiers", "write"} \cup Outcomes => applied = 0
    /\ pc \in {"read", "hunks", "identifiers", "write"} =>
         CountedUpto(hunks, Len(hunks)) <= MaxLines
    /\ pc \in {"hunks", "identifiers", "write"} =>
         /\ applied \in 0 .. Len(hunks)
         /\ read \in [Touched -> Seq(AllLines)] /\ patched \in [Touched -> Seq(AllLines)]
         /\ ApartBy(read, patched) \in [Touched -> Int]
         /\ SumFunction(ApartBy(read, patched)) <= CountedUpto(hunks, applied)
    /\ pc \in {"identifiers", "write"} => applied = Len(hunks)
    /\ CandidateWithinBudget

\* One hunk more is applied, and counted.
LEMMA HunkIsCounted ==
  ASSUME BInv, pc = "hunks", applied < Len(hunks), NEW u,
         u \in ApplyHunk(patched[hunks[applied + 1].file], hunks[applied + 1]),
         NEW after, after = [patched EXCEPT ![hunks[applied + 1].file] = u]
  PROVE  /\ after \in [Touched -> Seq(AllLines)]
         /\ ApartBy(read, after) \in [Touched -> Int]
         /\ SumFunction(ApartBy(read, after)) <= CountedUpto(hunks, applied + 1)
<1> DEFINE hunk == hunks[applied + 1]
           f == hunk.file
           F == ApartBy(read, patched)
           G == ApartBy(read, after)
           c == ChangedLines(hunk)
<1>1. /\ AreHunks(hunks) /\ applied \in 0 .. Len(hunks)
      /\ read \in [Touched -> Seq(AllLines)] /\ patched \in [Touched -> Seq(AllLines)]
      /\ F \in [Touched -> Int] /\ SumFunction(F) <= CountedUpto(hunks, applied)
  BY DEF BInv
<1>2. Len(hunks) \in Nat /\ IsFiniteSet(Touched) /\ applied + 1 \in 1 .. Len(hunks)
  BY <1>1, HunksAreFinite DEF Touched
<1>3. IsHunk(hunk) /\ f \in Touched
  BY <1>1, <1>2, HunksAreFinite DEF AreHunks, Touched
<1> HIDE DEF hunk
<1>4. patched[f] \in Seq(AllLines) /\ read[f] \in Seq(AllLines) /\ u \in ApplyHunk(patched[f], hunk)
  BY <1>1, <1>3 DEF hunk
<1> DEFINE s == Texts(read[f])
<1>5. Len(s) \in Nat
  BY <1>4, TextsAreThose
<1> HIDE DEF s, f
<1>6. /\ u \in Seq(AllLines) /\ c \in Nat
      /\ Difference(s, Texts(patched[f])) \in Int /\ Difference(s, Texts(u)) \in Int
      /\ Difference(s, Texts(u)) <= Difference(s, Texts(patched[f])) + c
  BY <1>3, <1>4, <1>5, ApplyingIsCounted
<1>7. /\ after \in [Touched -> Seq(AllLines)] /\ after[f] = u
      /\ \A g \in Touched \ {f} : after[g] = patched[g]
  BY <1>1, <1>3, <1>6 DEF f, hunk
<1>8. F[f] = Difference(s, Texts(patched[f])) /\ G[f] = Difference(s, Texts(u))
  BY <1>3, <1>7 DEF ApartBy, s
<1>9. \A g \in Touched \ {f} : F[g] = G[g]
  BY <1>7 DEF ApartBy
<1>10. G \in [Touched -> Int]
  <2>1. ASSUME NEW g \in Touched PROVE G[g] \in Int
    BY <1>1, <1>6, <1>8, <1>9
  <2>2. G = [g \in Touched |-> G[g]]
    BY DEF ApartBy
  <2> QED
    BY <2>1, <2>2
<1> HIDE DEF F, G, c
<1>11. /\ SumFunction(F) \in Int /\ SumFunction(G) \in Int
       /\ SumFunction(G) - SumFunction(F) = G[f] - F[f]
  BY <1>1, <1>2, <1>3, <1>9, <1>10, SumChanges
<1>12. /\ CountedUpto(hunks, applied + 1) = CountedUpto(hunks, applied) + c
       /\ CountedUpto(hunks, applied) \in Int
  BY <1>1, <1>2, CountGoesOn DEF c, hunk
<1>13. F[f] \in Int /\ G[f] \in Int /\ c \in Nat /\ G[f] <= F[f] + c
  BY <1>6, <1>8
<1>14. SumFunction(G) <= CountedUpto(hunks, applied + 1)
  BY <1>1, <1>11, <1>12, <1>13
<1> QED
  BY <1>7, <1>10, <1>14 DEF G

\* Before they are patched the files are as they were read.
LEMMA ReadingIsCounted ==
  ASSUME BInv, pc = "read", ReadSources
  PROVE  /\ read' \in [Touched -> Seq(AllLines)] /\ patched' = read'
         /\ ApartBy(read', patched') \in [Touched -> Int]
         /\ SumFunction(ApartBy(read', patched')) <= CountedUpto(hunks, 0)
<1>1. /\ AreHunks(hunks) /\ sources \in Trees
      /\ read' = [f \in Touched |-> sources[f]] /\ patched' = read'
  BY DEF BInv, ReadSources
<1>2. IsFiniteSet(Touched) /\ Touched \subseteq Files
  BY <1>1, HunksAreFinite DEF Touched
<1>3. ASSUME NEW f \in Touched
      PROVE  /\ read'[f] \in Seq(AllLines)
             /\ Difference(Texts(read'[f]), Texts(read'[f])) = 0
  <2>1. read'[f] \in Seq(AllLines)
    BY <1>1, <1>2, SourcesAreLines
  <2>2. Len(Texts(read'[f])) \in Nat
    BY <2>1, TextsAreThose
  <2> QED
    BY <2>1, <2>2, SameDoesNotDiffer
<1>4. read' \in [Touched -> Seq(AllLines)]
  BY <1>1, <1>3
<1>5. ApartBy(read', patched') = [f \in Touched |-> 0]
  BY <1>1, <1>3 DEF ApartBy
<1>6. SumFunction(ApartBy(read', patched')) = 0
  BY <1>2, <1>5, SumOfZeros
<1>7. CountedUpto(hunks, 0) = 0
  BY <1>1, CountGoesOn
<1> QED
  BY <1>1, <1>4, <1>5, <1>6, <1>7

\* The hunks that were parsed are hunks.
LEMMA ParsingCounts ==
  ASSUME diff \in Seq(Hunks), ParseDiff
  PROVE  AreHunks(hunks')
<1> DEFINE d == Filled(diff)
           q == [k \in DOMAIN d |-> ParsedHunk(d[k])]
           S == {ParsedHunk(h) : h \in Hunks}
<1>1. d \in Seq(Hunks) /\ hunks' = q
  BY FilledIsSequence DEF ParseDiff
<1> HIDE DEF d
<1>2. Len(d) \in Nat /\ q \in [1 .. Len(d) -> S] /\ \A k \in 1 .. Len(d) : d[k] \in Hunks
  BY <1>1
<1>3. q \in Seq(S) /\ Len(q) = Len(d)
  BY <1>2
<1>4. \A k \in 1 .. Len(d) : q[k] = ParsedHunk(d[k])
  BY <1>1
<1>5. \A k \in 1 .. Len(d) : IsHunk(q[k])
  BY <1>2, <1>4, ParsedAreHunks
<1> HIDE DEF q, S
<1> QED
  BY <1>1, <1>3, <1>5 DEF AreHunks, IsSequence

\* Where no two files have one base name, what is written of a touched file is what it
\* was patched to.
LEMMA WrittenAsPatched ==
  ASSUME DistinctBases, AreHunks(hunks), WriteCandidate
  PROVE  \A f \in Touched : tree'[Base[f]] = patched[f]
<1>1. PICK last \in [Range(Base) -> Files] :
        /\ \A name \in Range(Base) : last[name] \in LastUnder(name)
        /\ tree' = [name \in Range(Base) |->
                      IF last[name] \in Touched THEN patched[last[name]]
                                               ELSE sources[last[name]]]
  BY DEF WriteCandidate
<1>2. Touched \subseteq Files
  BY HunksAreFinite DEF Touched
<1>3. ASSUME NEW f \in Touched PROVE tree'[Base[f]] = patched[f]
  <2>1. f \in Files /\ Base[f] \in Range(Base)
    BY <1>2 DEF DistinctBases, Range
  <2>2. {g \in Touched : Base[g] = Base[f]} = {f}
    BY <1>2, <2>1 DEF DistinctBases
  <2>3. LastUnder(Base[f]) = {f}
    BY <2>2 DEF LastUnder
  <2>4. last[Base[f]] = f
    BY <1>1, <2>1, <2>3
  <2> QED
    BY <1>1, <2>1, <2>4
<1> QED
  BY <1>3

\* A tree is written from the patched files.
LEMMA WritingIsCounted ==
  ASSUME DistinctBases, BInv, pc = "write", WriteCandidate
  PROVE  CandidateWithinBudget'
<1>1. /\ AreHunks(hunks) /\ UNCHANGED <<hunks, read>> /\ Touched' = Touched
      /\ SumFunction(ApartBy(read, patched)) <= CountedUpto(hunks, applied)
      /\ applied = Len(hunks) /\ CountedUpto(hunks, Len(hunks)) <= MaxLines
      /\ ApartBy(read, patched) \in [Touched -> Int]
  BY DEF BInv, WriteCandidate, Touched
<1>2. \A f \in Touched : tree'[Base[f]] = patched[f]
  BY <1>1, WrittenAsPatched
<1>3. IsFiniteSet(Touched)
  BY <1>1, HunksAreFinite DEF Touched
<1> DEFINE apart == [f \in Touched |-> Difference(Texts(read[f]), Texts(tree'[Base[f]]))]
<1>4. apart = ApartBy(read, patched)
  BY <1>2 DEF ApartBy
<1>5. SumFunction(apart) <= MaxLines
  <2>1. SumFunction(ApartBy(read, patched)) \in Int
    BY <1>1, <1>3, SumIsNumber
  <2>2. CountedUpto(hunks, Len(hunks)) \in Int /\ MaxLines \in Int
    <3>1. Len(hunks) \in 0 .. Len(hunks)
      BY <1>1, HunksAreFinite
    <3>2. CountedUpto(hunks, Len(hunks)) \in Int
      BY <1>1, <3>1, CountGoesOn
    <3>3. MaxLines \in Nat
      BY PatcherAssumption
    <3> QED
      BY <3>2, <3>3
  <2> HIDE DEF apart
  <2> QED
    BY <1>1, <1>4, <2>1, <2>2
<1> QED
  BY <1>1, <1>5 DEF CandidateWithinBudget

\* BInv is inductive, given what PInv says of the diff.
LEMMA StepsAreCounted ==
  ASSUME DistinctBases
  PROVE  PInv /\ BInv /\ [Next]_vars => BInv'
<1> SUFFICES ASSUME PInv, BInv, [Next]_vars PROVE BInv'
  OBVIOUS
<1> USE DEF Go
<1>1. CASE UNCHANGED vars
  <2>1. UNCHANGED <<pc, sources, hunks, read, patched, applied, tree>>
    BY <1>1 DEF vars, patchVars
  <2> QED
    BY <2>1 DEF BInv, CandidateWithinBudget, Touched, AreHunks, CountedUpto, ApartBy
<1>2. CASE EditSource
  <2>1. /\ UNCHANGED <<pc, hunks, read, patched, applied, tree>> /\ sources' \in Trees
        /\ pc \notin Outcomes
    BY <1>2 DEF EditSource, patchVars
  <2> QED
    BY <2>1 DEF BInv, CandidateWithinBudget, Touched, AreHunks, CountedUpto, ApartBy
<1>3. CASE Building /\ UNCHANGED patchVars
  <2>1. /\ UNCHANGED <<hunks, read, patched, applied, tree>>
        /\ sources' \in Trees /\ pc \in {"hierarchy", "slices"}
        /\ pc' \in {"hierarchy", "slices", "propose"}
    BY <1>3 DEF patchVars, Building, ScanHierarchy, CutSlice, BuildRequest, EditWhileBuilding,
                BInv
  <2> QED
    BY <2>1 DEF BInv, CandidateWithinBudget, Touched, AreHunks, CountedUpto, ApartBy, Outcomes
<1>4. CASE Propose \/ Validate \/ RefusePath \/ PathsAllowed
  <2>1. /\ UNCHANGED <<sources, hunks, read, patched, applied, tree>>
        /\ pc \in {"propose", "validate", "paths"}
        /\ pc' \in {"validate", "parse", "invalid", "protected", "rejected", "budget"}
    BY <1>4 DEF Propose, Validate, RefusePath, PathsAllowed, Keep, patchVars
  <2> QED
    BY <2>1 DEF BInv, CandidateWithinBudget, Touched, AreHunks, CountedUpto, ApartBy, Outcomes
<1>5. CASE ParseDiff
  <2>1. /\ UNCHANGED <<sources, read, patched, applied, tree>> /\ pc = "parse"
        /\ pc' \in {"rejected", "paths"}
    BY <1>5 DEF ParseDiff
  <2>2. AreHunks(hunks')
    BY <1>5, ParsingCounts DEF PInv
  <2> QED
    BY <2>1, <2>2 DEF BInv, CandidateWithinBudget, AreHunks, Outcomes
<1>6. CASE CheckBudget
  <2>1. /\ UNCHANGED <<sources, hunks, read, patched, applied, tree>> /\ pc = "budget"
        /\ pc' \in {"rejected", "read"}
        /\ pc' = "read" => SumFunction([i \in DOMAIN hunks |-> ChangedLines(hunks[i])]) <= MaxLines
    BY <1>6 DEF CheckBudget, Keep, patchVars
  <2>2. DOMAIN hunks = 1 .. Len(hunks)
    BY HunksAreFinite DEF BInv
  <2>3. pc' = "read" => CountedUpto(hunks, Len(hunks)) <= MaxLines
    BY <2>1, <2>2 DEF CountedUpto
  <2> QED
    BY <2>1, <2>3 DEF BInv, CandidateWithinBudget, Touched, AreHunks, CountedUpto, ApartBy, Outcomes
<1>7. CASE ReadSources
  <2>1. /\ UNCHANGED <<sources, hunks, applied, tree>> /\ pc = "read" /\ pc' = "hunks"
        /\ applied = 0 /\ Touched' = Touched /\ Len(hunks) \in Nat /\ AreHunks(hunks)
        /\ CountedUpto(hunks, Len(hunks)) <= MaxLines /\ sources \in Trees
    BY <1>7, HunksAreFinite DEF ReadSources, BInv, Touched, Outcomes
  <2>2. /\ read' \in [Touched -> Seq(AllLines)] /\ patched' = read'
        /\ ApartBy(read', patched') \in [Touched -> Int]
        /\ SumFunction(ApartBy(read', patched')) <= CountedUpto(hunks, 0)
    BY <1>7, <2>1, ReadingIsCounted
  <2>3. ApartBy(read, patched)' = ApartBy(read', patched')
    BY <2>1 DEF ApartBy
  <2>4. CountedUpto(hunks, Len(hunks))' = CountedUpto(hunks, Len(hunks))
        /\ CountedUpto(hunks, applied)' = CountedUpto(hunks, 0)
    BY <2>1 DEF CountedUpto
  <2> QED
    BY <2>1, <2>2, <2>3, <2>4 DEF BInv, CandidateWithinBudget, AreHunks, Outcomes
<1>8. CASE PatchHunk
  <2>1. /\ UNCHANGED <<pc, sources, hunks, read, tree>> /\ pc = "hunks" /\ applied < Len(hunks)
        /\ applied' = applied + 1 /\ Touched' = Touched /\ Len(hunks) \in Nat /\ AreHunks(hunks)
        /\ CountedUpto(hunks, Len(hunks)) <= MaxLines /\ sources \in Trees
        /\ read \in [Touched -> Seq(AllLines)] /\ applied \in 0 .. Len(hunks)
    BY <1>8, HunksAreFinite DEF PatchHunk, BInv, Touched
  <2>2. PICK u \in ApplyHunk(patched[hunks[applied + 1].file], hunks[applied + 1]) :
          patched' = [patched EXCEPT ![hunks[applied + 1].file] = u]
    BY <1>8 DEF PatchHunk
  <2>3. /\ patched' \in [Touched -> Seq(AllLines)]
        /\ ApartBy(read, patched') \in [Touched -> Int]
        /\ SumFunction(ApartBy(read, patched')) <= CountedUpto(hunks, applied + 1)
    BY <2>1, <2>2, HunkIsCounted
  <2>4. ApartBy(read, patched)' = ApartBy(read, patched')
    BY <2>1 DEF ApartBy
  <2>5. CountedUpto(hunks, Len(hunks))' = CountedUpto(hunks, Len(hunks))
        /\ CountedUpto(hunks, applied)' = CountedUpto(hunks, applied + 1)
    BY <2>1 DEF CountedUpto
  <2>6. applied' \in 0 .. Len(hunks)
    BY <2>1
  <2> QED
    BY <2>1, <2>3, <2>4, <2>5, <2>6 DEF BInv, CandidateWithinBudget, AreHunks, Outcomes
<1>9. CASE NoMatch \/ Patched \/ CheckIdentifiers
  <2>1. /\ UNCHANGED <<sources, hunks, read, patched, applied, tree>>
        /\ \/ pc' = "rejected"
           \/ pc = "hunks" /\ applied = Len(hunks) /\ pc' = "identifiers"
           \/ pc = "identifiers" /\ pc' = "write"
    BY <1>9 DEF NoMatch, Patched, CheckIdentifiers, Keep, patchVars
  <2> QED
    BY <2>1 DEF BInv, CandidateWithinBudget, Touched, AreHunks, CountedUpto, ApartBy, Outcomes
<1>10. CASE WriteCandidate
  <2>1. UNCHANGED <<sources, hunks>> /\ pc = "write" /\ pc' = "applied"
    BY <1>10 DEF WriteCandidate
  <2>2. CandidateWithinBudget'
    BY <1>10, <2>1, WritingIsCounted
  <2> QED
    BY <2>1, <2>2 DEF BInv, AreHunks, Outcomes
<1> QED
  BY <1>1, <1>2, <1>3, <1>4, <1>5, <1>6, <1>7, <1>8, <1>9, <1>10 DEF Next, Answering

\* Files that are patched stay within what was counted.
LEMMA CountHolds ==
  ASSUME DistinctBases PROVE Spec => []BInv
<1>1. Init => BInv
  <2> SUFFICES ASSUME Init PROVE BInv
    OBVIOUS
  <2>1. pc = "hierarchy" /\ sources \in Trees /\ hunks = <<>> /\ applied = 0
    BY DEF Init, RequestInit
  <2>2. AreHunks(hunks)
    <3>1. hunks \in Seq({}) /\ Len(hunks) = 0
      BY <2>1
    <3> QED
      BY <3>1 DEF AreHunks, IsSequence
  <2> QED
    BY <2>1, <2>2 DEF BInv, CandidateWithinBudget
<1>2. PInv /\ BInv /\ [Next]_vars => BInv'
  BY StepsAreCounted
<1> QED
  BY <1>1, <1>2, ChecksHold, PTL DEF Spec

\* White space apart, a candidate differs from the sources it was made from by no more
\* lines than the budget allows, for any files, hunks and budget, if no two files have
\* one base name (patcher.py:186-200, 271-286).
THEOREM CandidatesKeepBudget ==
  ASSUME DistinctBases PROVE Spec => []CandidateWithinBudget
<1>1. BInv => CandidateWithinBudget
  BY DEF BInv
<1> QED
  BY <1>1, CountHolds, PTL
----------------------------------------------------------------------------
(***************************************************************************)
(* How often a text is in a file, before and after: the lines of a         *)
(* sequence that are in a set.  A hunk exchanges its old lines for its new *)
(* ones; what a diff adds and removes is what its hunks gain.              *)
(***************************************************************************)

\* How many elements of a sequence are in a set
Hits(q, T) == Cardinality({k \in DOMAIN q : q[k] \in T})

\* Sets that have nothing in common
LEMMA DisjointSets ==
  ASSUME NEW A, NEW B, IsFiniteSet(A), IsFiniteSet(B), A \cap B = {}
  PROVE  /\ IsFiniteSet(A \cup B) /\ Cardinality(A) \in Nat /\ Cardinality(B) \in Nat
         /\ Cardinality(A \cup B) = Cardinality(A) + Cardinality(B)
<1>1. /\ IsFiniteSet(A \cup B)
      /\ Cardinality(A \cup B) = Cardinality(A) + Cardinality(B) - Cardinality(A \cap B)
  BY FS_Union
<1>2. Cardinality(A \cap B) = 0
  BY FS_EmptySet
<1>3. Cardinality(A) \in Nat /\ Cardinality(B) \in Nat
  BY FS_CardinalityType
<1> QED
  BY <1>1, <1>2, <1>3

\* Hits are a number.
LEMMA HitsAreFinite ==
  ASSUME NEW S, NEW q \in Seq(S), NEW T
  PROVE  Hits(q, T) \in Nat /\ IsFiniteSet({k \in DOMAIN q : q[k] \in T})
<1>1. IsFiniteSet(1 .. Len(q)) /\ DOMAIN q = 1 .. Len(q)
  BY FS_Interval
<1>2. {k \in DOMAIN q : q[k] \in T} \in SUBSET (1 .. Len(q))
  BY <1>1
<1>3. IsFiniteSet({k \in DOMAIN q : q[k] \in T})
  BY <1>1, <1>2, FS_Subset
<1> QED
  BY <1>3, FS_CardinalityType DEF Hits

\* One sequence after another
LEMMA HitsOfBoth ==
  ASSUME NEW S, NEW p \in Seq(S), NEW q \in Seq(S), NEW T
  PROVE  Hits(p \o q, T) = Hits(p, T) + Hits(q, T)
<1> DEFINE m == Len(p)
           r == p \o q
           A == {k \in DOMAIN p : p[k] \in T}
           B == {k \in DOMAIN q : q[k] \in T}
           C == {k \in DOMAIN r : r[k] \in T}
           D == {m + k : k \in B}
           shift == [k \in B |-> m + k]
<1>1. /\ m \in Nat /\ Len(q) \in Nat /\ DOMAIN p = 1 .. m /\ DOMAIN q = 1 .. Len(q)
      /\ DOMAIN r = 1 .. m + Len(q)
      /\ \A k \in 1 .. m + Len(q) : r[k] = IF k <= m THEN p[k] ELSE q[k - m]
  OBVIOUS
<1>2. IsFiniteSet(A) /\ IsFiniteSet(B)
  BY HitsAreFinite
<1> HIDE DEF m, r
<1>3. B \subseteq Nat /\ A \subseteq 1 .. m
  BY <1>1
<1>4. shift \in Bijection(B, D)
  <2>1. shift \in Injection(B, D)
    BY <1>1, <1>3 DEF Injection, IsInjective
  <2>2. shift \in Surjection(B, D)
    BY DEF Surjection
  <2> QED
    BY <2>1, <2>2 DEF Bijection
<1>5. IsFiniteSet(D) /\ Cardinality(D) = Cardinality(B)
  <2>1. ExistsBijection(B, D)
    BY <1>4 DEF ExistsBijection
  <2> HIDE DEF D, B
  <2> QED
    BY <1>2, <2>1, FS_Bijection
<1>6. C = A \cup D
  <2>1. ASSUME NEW k \in C PROVE k \in A \cup D
    <3>1. k \in 1 .. m + Len(q) /\ r[k] \in T
      BY <1>1
    <3>2. CASE k <= m
      <4>1. k \in 1 .. m /\ p[k] \in T
        BY <1>1, <3>1, <3>2
      <4> QED
        BY <1>1, <4>1
    <3>3. CASE ~(k <= m)
      <4>1. k - m \in 1 .. Len(q) /\ q[k - m] \in T /\ k = m + (k - m)
        BY <1>1, <3>1, <3>3
      <4>2. k - m \in B
        BY <1>1, <4>1
      <4> QED
        BY <4>1, <4>2
    <3> QED
      BY <3>2, <3>3
  <2>2. ASSUME NEW k \in A PROVE k \in C
    <3>1. k \in 1 .. m /\ p[k] \in T
      BY <1>1
    <3>2. k \in 1 .. m + Len(q) /\ r[k] = p[k]
      BY <1>1, <3>1
    <3> QED
      BY <1>1, <3>1, <3>2
  <2>3. ASSUME NEW k \in B PROVE m + k \in C
    <3>1. k \in 1 .. Len(q) /\ q[k] \in T
      BY <1>1
    <3>2. m + k \in 1 .. m + Len(q) /\ ~(m + k <= m) /\ (m + k) - m = k
      BY <1>1, <3>1
    <3>3. r[m + k] = q[k]
      BY <1>1, <3>2
    <3> QED
      BY <1>1, <3>1, <3>2, <3>3
  <2> QED
    BY <2>1, <2>2, <2>3
<1>7. A \cap D = {}
  <2>1. \A k \in B : m + k \notin 1 .. m
    BY <1>1
  <2> QED
    BY <1>3, <2>1
<1> HIDE DEF A, B, C, D
<1>8. Cardinality(C) = Cardinality(A) + Cardinality(D)
  BY <1>2, <1>5, <1>6, <1>7, DisjointSets
<1> QED
  BY <1>5, <1>8 DEF A, B, C, r, Hits

\* Nothing hits nothing, and one element hits once or not.
LEMMA HitsOfFew ==
  ASSUME NEW T
  PROVE  /\ Hits(<<>>, T) = 0
         /\ \A x : Hits(<<x>>, T) = IF x \in T THEN 1 ELSE 0
<1>1. {k \in DOMAIN <<>> : <<>>[k] \in T} = {}
  OBVIOUS
<1>2. ASSUME NEW x, x \in T PROVE Hits(<<x>>, T) = 1
  <2>1. {k \in DOMAIN <<x>> : <<x>>[k] \in T} = {1}
    BY <1>2
  <2> QED
    BY <2>1, FS_Singleton DEF Hits
<1>3. ASSUME NEW x, x \notin T PROVE Hits(<<x>>, T) = 0
  <2>1. {k \in DOMAIN <<x>> : <<x>>[k] \in T} = {}
    BY <1>3
  <2> QED
    BY <2>1, FS_EmptySet DEF Hits
<1>4. Hits(<<>>, T) = 0
  BY <1>1, FS_EmptySet DEF Hits
<1> QED
  BY <1>2, <1>3, <1>4

\* An element more
LEMMA HitsOfAppend ==
  ASSUME NEW S, NEW q \in Seq(S), NEW x \in S, NEW T
  PROVE  Hits(Append(q, x), T) = Hits(q, T) + (IF x \in T THEN 1 ELSE 0)
<1>1. Append(q, x) = q \o <<x>> /\ <<x>> \in Seq(S)
  OBVIOUS
<1>2. Hits(q \o <<x>>, T) = Hits(q, T) + Hits(<<x>>, T)
  BY <1>1, HitsOfBoth
<1> QED
  BY <1>1, <1>2, HitsOfFew

\* Sets that have nothing in common
LEMMA HitsOfUnion ==
  ASSUME NEW S, NEW q \in Seq(S), NEW T, NEW U, T \cap U = {}
  PROVE  Hits(q, T \cup U) = Hits(q, T) + Hits(q, U)
<1> DEFINE A == {k \in DOMAIN q : q[k] \in T}
           B == {k \in DOMAIN q : q[k] \in U}
           C == {k \in DOMAIN q : q[k] \in T \cup U}
<1>1. IsFiniteSet(A) /\ IsFiniteSet(B)
  BY HitsAreFinite
<1>2. C = A \cup B /\ A \cap B = {}
  OBVIOUS
<1> HIDE DEF A, B, C
<1>3. Cardinality(C) = Cardinality(A) + Cardinality(B)
  BY <1>1, <1>2, DisjointSets
<1> QED
  BY <1>3 DEF A, B, C, Hits

\* What a splice takes away and puts in
LEMMA SplicedHits ==
  ASSUME NEW S, NEW t \in Seq(S), NEW u \in Seq(S), NEW old \in Seq(S), NEW new \in Seq(S),
         NEW i, NEW T, WasApplied(t, u, i, old, new)
  PROVE  Hits(u, T) + Hits(old, T) = Hits(t, T) + Hits(new, T)
<1> DEFINE m == Len(t)
           n == Len(old)
           o == Len(new)
           before == SubSeq(t, 1, i - 1)
           after == SubSeq(t, i + n, m)
<1>1. /\ m \in Nat /\ n \in Nat /\ o \in Nat /\ i \in Nat /\ i > 0 /\ i + n - 1 <= m
      /\ Len(u) = m - n + o
      /\ \A j \in 1 .. i - 1 : u[j] = t[j]
      /\ \A k \in 1 .. o : u[i - 1 + k] = new[k]
      /\ \A k \in 1 .. m - (i + n - 1) : u[i - 1 + o + k] = t[i - 1 + n + k]
      /\ \A k \in 1 .. n : t[i - 1 + k] = old[k]
  BY DEF WasApplied, IsSplice
<1>2. before \in Seq(S) /\ Len(before) = i - 1 /\ \A j \in 1 .. i - 1 : before[j] = t[j]
  BY <1>1
<1>3. /\ after \in Seq(S) /\ Len(after) = m - (i + n - 1)
      /\ \A k \in 1 .. m - (i + n - 1) : after[k] = t[i - 1 + n + k]
  <2>1. i + n \in Nat /\ i + n > 0 /\ m - (i + n) + 1 = m - (i + n - 1)
    BY <1>1
  <2> HIDE DEF n, o
  <2>2. after \in Seq(S) /\ Len(after) = m - (i + n) + 1
    BY <1>1, <2>1
  <2>3. ASSUME NEW k \in 1 .. m - (i + n - 1) PROVE after[k] = t[i - 1 + n + k]
    <3>1. after[k] = t[(i + n) + k - 1] /\ (i + n) + k - 1 = i - 1 + n + k
      BY <1>1, <2>1
    <3> QED
      BY <3>1
  <2> QED
    BY <2>1, <2>2, <2>3
<1> HIDE DEF before, after, m, n, o
<1>4. ASSUME NEW v \in Seq(S), NEW mid \in Seq(S), Len(v) = m - n + Len(mid),
             \A j \in 1 .. i - 1 : v[j] = t[j],
             \A k \in 1 .. Len(mid) : v[i - 1 + k] = mid[k],
             \A k \in 1 .. m - (i + n - 1) : v[i - 1 + Len(mid) + k] = t[i - 1 + n + k]
      PROVE  Hits(v, T) = Hits(before, T) + Hits(mid, T) + Hits(after, T)
  <2> DEFINE l == Len(mid)
             w == before \o mid
             x == w \o after
  <2>1. l \in Nat
    OBVIOUS
  <2>2. /\ w \in Seq(S) /\ Len(w) = i - 1 + l
        /\ \A j \in 1 .. i - 1 + l : w[j] = IF j <= i - 1 THEN before[j] ELSE mid[j - (i - 1)]
    BY <1>1, <1>2, <2>1, ConcatProperties
  <2> HIDE DEF w
  <2> HIDE DEF l
  <2>3. /\ x \in Seq(S) /\ Len(x) = Len(w) + Len(after)
        /\ \A j \in 1 .. Len(x) : x[j] = IF j <= Len(w) THEN w[j] ELSE after[j - Len(w)]
    <3>1. w \in Seq(S) /\ after \in Seq(S)
      BY <1>3, <2>2
    <3> QED
      BY <3>1, ConcatProperties
  <2> HIDE DEF x
  <2>4. Len(x) = Len(v) /\ Len(v) = m - n + l
    BY <1>1, <1>3, <1>4, <2>1, <2>2, <2>3 DEF l
  <2>9. Len(w) = i - 1 + l
    BY <2>2
  <2>5. ASSUME NEW j \in 1 .. Len(v) PROVE x[j] = v[j]
    <3>0. j \in Nat /\ j > 0
      BY <1>1, <2>1, <2>4
    <3>1. CASE j <= i - 1
      <4>1. j \in 1 .. i - 1 /\ j <= Len(w) /\ j \in 1 .. i - 1 + l
        BY <1>1, <2>1, <2>9, <3>0, <3>1
      <4> QED
        BY <1>2, <1>4, <2>2, <2>3, <2>4, <3>1, <4>1
    <3>2. CASE ~(j <= i - 1) /\ j <= i - 1 + l
      <4> DEFINE k == j - (i - 1)
      <4>1. k \in 1 .. l /\ i - 1 + k = j /\ j \in 1 .. i - 1 + l /\ j <= Len(w)
        BY <1>1, <2>1, <2>9, <3>0, <3>2
      <4>2. x[j] = mid[k]
        BY <2>2, <2>3, <2>4, <3>2, <4>1
      <4>3. v[i - 1 + k] = mid[k]
        BY <1>4, <4>1 DEF l
      <4> QED
        BY <4>1, <4>2, <4>3
    <3>3. CASE ~(j <= i - 1 + l)
      <4> DEFINE k == j - (i - 1 + l)
      <4>1. /\ k \in 1 .. m - (i + n - 1) /\ i - 1 + l + k = j /\ ~(j <= Len(w))
            /\ j - Len(w) = k
        BY <1>1, <2>1, <2>4, <2>9, <3>0, <3>3
      <4>2. x[j] = after[k]
        BY <2>3, <2>4, <4>1
      <4>3. v[i - 1 + l + k] = t[i - 1 + n + k] /\ after[k] = t[i - 1 + n + k]
        BY <1>3, <1>4, <4>1 DEF l
      <4> QED
        BY <4>1, <4>2, <4>3
    <3> QED
      BY <3>1, <3>2, <3>3
  <2>6. v = x
    <3>1. v \in [1 .. Len(v) -> S]
      OBVIOUS
    <3>2. x \in [1 .. Len(v) -> S]
      BY <2>3, <2>4
    <3> QED
      BY <2>5, <3>1, <3>2
  <2>7. Hits(x, T) = Hits(w, T) + Hits(after, T)
    BY <1>3, <2>2, HitsOfBoth DEF x
  <2>8. Hits(w, T) = Hits(before, T) + Hits(mid, T)
    BY <1>2, HitsOfBoth DEF w
  <2> QED
    BY <2>6, <2>7, <2>8
<1>5. Hits(u, T) = Hits(before, T) + Hits(new, T) + Hits(after, T)
  BY <1>1, <1>4 DEF o
<1>6. Hits(t, T) = Hits(before, T) + Hits(old, T) + Hits(after, T)
  <2>1. m = m - n + Len(old) /\ Len(t) = m /\ Len(old) = n
    BY <1>1 DEF m, n
  <2>2. \A k \in 1 .. m - (i + n - 1) : t[i - 1 + Len(old) + k] = t[i - 1 + n + k]
    BY <2>1
  <2> QED
    BY <1>1, <1>4, <2>1, <2>2
<1>7. /\ Hits(before, T) \in Nat /\ Hits(after, T) \in Nat
      /\ Hits(old, T) \in Nat /\ Hits(new, T) \in Nat
  BY <1>2, <1>3, HitsAreFinite
<1> QED
  BY <1>5, <1>6, <1>7

\* The lines with a text are the hits of it.
LEMMA OccurrencesAreHits ==
  ASSUME NEW S, NEW lines \in Seq(S), NEW x
  PROVE  Occurrences(lines, x) = Hits(Texts(lines), {x}) /\ Occurrences(lines, x) \in Nat
<1>1. {k \in DOMAIN lines : lines[k].text = x} = {k \in DOMAIN Texts(lines) : Texts(lines)[k] \in {x}}
  BY DEF Texts
<1>2. Texts(lines) \in Seq({l.text : l \in S})
  BY TextsAreThose
<1>3. Hits(Texts(lines), {x}) \in Nat
  BY <1>2, HitsAreFinite
<1> QED
  BY <1>1, <1>3 DEF Occurrences, Hits

\* What a hunk that is applied takes away and puts in
LEMMA ApplyingExchanges ==
  ASSUME NEW lines \in Seq(AllLines), NEW hunk, IsHunk(hunk), hunk.old # <<>>,
         NEW u \in ApplyHunk(lines, hunk), NEW x
  PROVE  /\ u \in Seq(AllLines) /\ Occurrences(hunk.old, x) \in Nat /\ Occurrences(hunk.new, x) \in Nat
         /\ Occurrences(lines, x) \in Nat /\ Occurrences(u, x) \in Nat
         /\ Occurrences(u, x) + Occurrences(hunk.old, x)
              = Occurrences(lines, x) + Occurrences(hunk.new, x)
<1> DEFINE T == {l.text : l \in AllLines}
<1>1. hunk.old \in Seq(AllLines) /\ hunk.new \in Seq(AllLines)
  BY DEF IsHunk
<1>2. u \in Seq(AllLines) /\ \E i : WasApplied(Texts(lines), Texts(u), i, Texts(hunk.old), Texts(hunk.new))
  BY <1>1, ApplyingSplices
<1>3. PICK i : WasApplied(Texts(lines), Texts(u), i, Texts(hunk.old), Texts(hunk.new))
  BY <1>2
<1>4. Texts(lines) \in Seq(T) /\ Texts(u) \in Seq(T) /\ Texts(hunk.old) \in Seq(T) /\ Texts(hunk.new) \in Seq(T)
  BY <1>1, <1>2, TextsAreThose
<1> HIDE DEF T
<1>5. Hits(Texts(u), {x}) + Hits(Texts(hunk.old), {x}) = Hits(Texts(lines), {x}) + Hits(Texts(hunk.new), {x})
  BY <1>3, <1>4, SplicedHits
<1>6. /\ Occurrences(u, x) = Hits(Texts(u), {x}) /\ Occurrences(u, x) \in Nat
      /\ Occurrences(lines, x) = Hits(Texts(lines), {x}) /\ Occurrences(lines, x) \in Nat
      /\ Occurrences(hunk.old, x) = Hits(Texts(hunk.old), {x}) /\ Occurrences(hunk.old, x) \in Nat
      /\ Occurrences(hunk.new, x) = Hits(Texts(hunk.new), {x}) /\ Occurrences(hunk.new, x) \in Nat
  BY <1>1, <1>2, OccurrencesAreHits
<1> QED
  BY <1>2, <1>5, <1>6
----------------------------------------------------------------------------
\* The first elements of a sequence, one more at a time
LEMMA FirstOnesGrow ==
  ASSUME NEW S, NEW q \in Seq(S)
  PROVE  /\ SubSeq(q, 1, 0) = <<>> /\ SubSeq(q, 1, Len(q)) = q
         /\ \A k \in 0 .. Len(q) - 1 :
              /\ SubSeq(q, 1, k) \in Seq(S) /\ q[k + 1] \in S
              /\ SubSeq(q, 1, k + 1) = Append(SubSeq(q, 1, k), q[k + 1])
<1>1. SubSeq(q, 1, 0) = <<>> /\ SubSeq(q, 1, Len(q)) = q /\ Len(q) \in Nat
  OBVIOUS
<1>2. ASSUME NEW k \in 0 .. Len(q) - 1
      PROVE  /\ SubSeq(q, 1, k) \in Seq(S) /\ q[k + 1] \in S
             /\ SubSeq(q, 1, k + 1) = Append(SubSeq(q, 1, k), q[k + 1])
  <2>1. k \in Nat /\ k <= Len(q) /\ k + 1 <= Len(q) /\ k + 1 \in 1 .. Len(q)
    BY <1>1
  <2>2. SubSeq(q, 1, k) \in Seq(S) /\ q[k + 1] \in S
    BY <2>1
  <2> DEFINE p == SubSeq(q, 1, k)
             e == q[k + 1]
             a == SubSeq(q, 1, k + 1)
             b == Append(p, e)
  <2>3. Len(p) = k /\ \A j \in 1 .. k : p[j] = q[j]
    BY <2>1
  <2>4. a \in Seq(S) /\ Len(a) = k + 1 /\ \A j \in 1 .. k + 1 : a[j] = q[j]
    BY <2>1
  <2>5. p \in Seq(S) /\ e \in S
    BY <2>2
  <2> HIDE DEF p, a
  <2>6. b \in Seq(S) /\ Len(b) = k + 1 /\ \A j \in 1 .. k + 1 : b[j] = q[j]
    <3> HIDE DEF e
    <3>1. /\ b \in Seq(S) /\ Len(b) = k + 1 /\ b[k + 1] = e
          /\ \A j \in 1 .. k : b[j] = p[j]
      BY <2>3, <2>5, AppendProperties
    <3>2. \A j \in 1 .. k + 1 : j \in 1 .. k \/ j = k + 1
      BY <2>1
    <3> QED
      BY <2>3, <3>1, <3>2 DEF e
  <2> HIDE DEF b
  <2>7. a \in [1 .. k + 1 -> S] /\ b \in [1 .. k + 1 -> S]
    BY <2>4, <2>6
  <2>8. a = b
    BY <2>4, <2>6, <2>7
  <2> QED
    BY <2>2, <2>8 DEF a, b, p
<1> QED
  BY <1>1, <1>2

\* The elements of a set that do not have a sign
Besides(T, sign) == {l \in T : l.sign # sign}

\* Without the lines of a sign there are the others.
LEMMA HitsWithout ==
  ASSUME NEW sign, NEW S, NEW lines \in Seq(S), NEW T
  PROVE  Hits(Without(sign, lines), T) = Hits(lines, Besides(T, sign))
<1> DEFINE n == Len(lines)
           U == Besides(T, sign)
           first(k) == SubSeq(lines, 1, k)
<1>1. PICK kept \in [0 .. n -> Seq(S)] :
        kept[0] = <<>> /\ kept[n] = Without(sign, lines) /\ IsKept(kept, sign, lines)
  BY WithoutRuns
<1>2. /\ first(0) = <<>> /\ first(n) = lines
      /\ \A k \in 0 .. n - 1 :
           /\ first(k) \in Seq(S) /\ lines[k + 1] \in S
           /\ first(k + 1) = Append(first(k), lines[k + 1])
  BY FirstOnesGrow
<1>3. \A k \in 0 .. n - 1 :
        kept[k + 1] = IF lines[k + 1].sign = sign THEN kept[k] ELSE Append(kept[k], lines[k + 1])
  BY <1>1 DEF IsKept
<1>4. n \in Nat
  OBVIOUS
<1>5. \A x \in S : x \in U <=> x \in T /\ x.sign # sign
  BY DEF Besides
<1> HIDE DEF n, U, first
<1> DEFINE I == {k \in Nat : k <= n => Hits(kept[k], T) = Hits(first(k), U)}
<1>6. 0 \in I
  BY <1>1, <1>2, HitsOfFew
<1>7. ASSUME NEW k \in I PROVE k + 1 \in I
  <2>1. SUFFICES ASSUME k + 1 <= n PROVE Hits(kept[k + 1], T) = Hits(first(k + 1), U)
    OBVIOUS
  <2>2. k \in 0 .. n - 1 /\ k \in 0 .. n /\ Hits(kept[k], T) = Hits(first(k), U)
    BY <1>4, <2>1
  <2> DEFINE l == lines[k + 1]
             p == kept[k]
             q == first(k)
  <2>3. p \in Seq(S) /\ q \in Seq(S) /\ l \in S /\ first(k + 1) = Append(q, l)
    BY <1>1, <1>2, <2>2
  <2>4. kept[k + 1] = IF l.sign = sign THEN p ELSE Append(p, l)
    BY <1>3, <2>2
  <2>8. Hits(p, T) = Hits(q, U)
    BY <2>2
  <2>9. l \in U <=> l \in T /\ l.sign # sign
    BY <1>5, <2>3
  <2> HIDE DEF l, p, q, I
  <2>5. Hits(Append(q, l), U) = Hits(q, U) + (IF l \in U THEN 1 ELSE 0)
    BY <2>3, HitsOfAppend
  <2>6. Hits(Append(p, l), T) = Hits(p, T) + (IF l \in T THEN 1 ELSE 0)
    BY <2>3, HitsOfAppend
  <2>7. Hits(q, U) \in Nat
    BY <2>3, HitsAreFinite
  <2>10. CASE l.sign = sign
    <3>1. l \notin U /\ kept[k + 1] = p
      BY <2>4, <2>9, <2>10
    <3>2. Hits(Append(q, l), U) = Hits(q, U)
      BY <2>5, <2>7, <3>1
    <3> QED
      BY <2>3, <2>8, <3>1, <3>2
  <2>11. CASE l.sign # sign
    <3>1. kept[k + 1] = Append(p, l) /\ (l \in U <=> l \in T)
      BY <2>4, <2>9, <2>11
    <3>2. Hits(Append(q, l), U) = Hits(Append(p, l), T)
      BY <2>5, <2>6, <2>8, <3>1
    <3> QED
      BY <2>3, <3>1, <3>2
  <2> QED
    BY <2>10, <2>11
<1>8. I \subseteq Nat
  OBVIOUS
<1>9. n \in I
  <2> HIDE DEF I
  <2> QED
    BY <1>4, <1>6, <1>7, <1>8, SetInduction
<1>10. Hits(kept[n], T) = Hits(first(n), U)
  BY <1>4, <1>9
<1> QED
  BY <1>1, <1>2, <1>10 DEF U

\* The signed lines there are, and those with a sign and a text
SignedLines == UNION {Range(h.lines) : h \in Hunks}
WithText(x) == {l \in SignedLines : l.line.text = x}
Signed(sign, x) == {l \in SignedLines : l.sign = sign /\ l.line.text = x}

\* The lines of a hunk are signed lines.
LEMMA HunkLinesAreSigned ==
  ASSUME NEW h \in Hunks
  PROVE  h.lines \in Seq(SignedLines)
<1> DEFINE q == h.lines
<1>1. q \in Seq(Range(q)) /\ Range(q) \subseteq SignedLines
  BY PatcherAssumption DEF SignedLines
<1> HIDE DEF q
<1>2. q \in Seq(SignedLines)
  BY <1>1
<1> QED
  BY <1>2 DEF q

\* A half of a hunk has a text as often as the lines that are left have it.
LEMMA UnsignedHits ==
  ASSUME NEW lines \in Seq(SignedLines), NEW x
  PROVE  Occurrences(Unsigned(lines), x) = Hits(lines, WithText(x))
<1>1. {k \in DOMAIN Unsigned(lines) : Unsigned(lines)[k].text = x}
        = {k \in DOMAIN lines : lines[k] \in WithText(x)}
  <2>1. \A k \in DOMAIN lines : lines[k] \in SignedLines
    OBVIOUS
  <2>2. DOMAIN Unsigned(lines) = DOMAIN lines /\ \A k \in DOMAIN lines : Unsigned(lines)[k] = lines[k].line
    BY DEF Unsigned
  <2> QED
    BY <2>1, <2>2 DEF WithText
<1> QED
  BY <1>1 DEF Occurrences, Hits

\* How much more often a text is in the new half of a hunk than in the old one
Gain(hunk, x) == Occurrences(hunk.new, x) - Occurrences(hunk.old, x)

\* The lines a hunk adds and removes make the difference of its halves.
LEMMA GainIsSigned ==
  ASSUME NEW h \in Hunks, NEW x
  PROVE  /\ Gain(ParsedHunk(h), x) = Hits(Without(" ", h.lines), Signed("+", x))
                                      - Hits(Without(" ", h.lines), Signed("-", x))
         /\ Without(" ", h.lines) \in Seq(SignedLines)
         /\ Hits(Without(" ", h.lines), Signed("+", x)) \in Nat
         /\ Hits(Without(" ", h.lines), Signed("-", x)) \in Nat
<1> DEFINE L == h.lines
           P == Signed("+", x)
           M == Signed("-", x)
           C == Signed(" ", x)
           W == WithText(x)
<1>1. L \in Seq(SignedLines)
  BY HunkLinesAreSigned
<1>2. \A l \in SignedLines : l.sign \in {" ", "+", "-"}
  BY PatcherAssumption DEF SignedLines
<1>3. Besides(W, "-") = P \cup C /\ P \cap C = {}
  BY <1>2 DEF Besides, WithText, Signed
<1>4. Besides(W, "+") = M \cup C /\ M \cap C = {}
  BY <1>2 DEF Besides, WithText, Signed
<1>5. Besides(P, " ") = P /\ Besides(M, " ") = M
  BY DEF Besides, Signed
<1>6. \A sign : Without(sign, L) \in Seq(SignedLines)
  <2> HIDE DEF L
  <2> QED
    BY <1>1, WithoutIsSequence
<1> DEFINE new == Without("-", L)
           old == Without("+", L)
           changed == Without(" ", L)
<1>7. Gain(ParsedHunk(h), x) = Occurrences(Unsigned(new), x) - Occurrences(Unsigned(old), x)
  BY DEF Gain, ParsedHunk
<1> HIDE DEF L, P, M, C, W
<1>8. Hits(new, W) = Hits(L, P) + Hits(L, C) /\ Occurrences(Unsigned(new), x) = Hits(new, W)
  <2>1. Hits(new, W) = Hits(L, Besides(W, "-"))
    BY <1>1, HitsWithout
  <2>2. Hits(L, P \cup C) = Hits(L, P) + Hits(L, C)
    BY <1>1, <1>3, HitsOfUnion
  <2>3. new \in Seq(SignedLines)
    BY <1>6
  <2> HIDE DEF new
  <2> QED
    BY <1>3, <2>1, <2>2, <2>3, UnsignedHits DEF W
<1>9. Hits(old, W) = Hits(L, M) + Hits(L, C) /\ Occurrences(Unsigned(old), x) = Hits(old, W)
  <2>1. Hits(old, W) = Hits(L, Besides(W, "+"))
    BY <1>1, HitsWithout
  <2>2. Hits(L, M \cup C) = Hits(L, M) + Hits(L, C)
    BY <1>1, <1>4, HitsOfUnion
  <2>3. old \in Seq(SignedLines)
    BY <1>6
  <2> HIDE DEF old
  <2> QED
    BY <1>4, <2>1, <2>2, <2>3, UnsignedHits DEF W
<1>10. Hits(changed, P) = Hits(L, P) /\ Hits(changed, M) = Hits(L, M)
  <2>1. /\ Hits(changed, P) = Hits(L, Besides(P, " "))
        /\ Hits(changed, M) = Hits(L, Besides(M, " "))
    BY <1>1, HitsWithout
  <2> QED
    BY <1>5, <2>1
<1>11. Hits(L, P) \in Nat /\ Hits(L, M) \in Nat /\ Hits(L, C) \in Nat
  BY <1>1, HitsAreFinite
<1>12. changed \in Seq(SignedLines)
  BY <1>6
<1> HIDE DEF new, old, changed
<1>13. Gain(ParsedHunk(h), x) = Hits(changed, P) - Hits(changed, M)
  BY <1>7, <1>8, <1>9, <1>10, <1>11
<1> QED
  BY <1>10, <1>11, <1>12, <1>13 DEF changed, L, P, M
----------------------------------------------------------------------------
\* The gain of a diff's hunks, and of the first k of those parsed
DiffGain(q, x) == SumFunction([i \in 1 .. Len(q) |-> Gain(ParsedHunk(q[i]), x)])
GainedUpto(hs, k, x) == SumFunction([i \in 1 .. k |-> Gain(hs[i], x)])

\* A hunk more, and its gain
LEMMA GainOfAppend ==
  ASSUME NEW q \in Seq(Hunks), NEW h \in Hunks, NEW x
  PROVE  /\ DiffGain(<<>>, x) = 0 /\ DiffGain(q, x) \in Int /\ Gain(ParsedHunk(h), x) \in Int
         /\ DiffGain(Append(q, h), x) = DiffGain(q, x) + Gain(ParsedHunk(h), x)
<1> DEFINE n == Len(q)
           r == Append(q, h)
           F == [i \in 1 .. n + 1 |-> Gain(ParsedHunk(r[i]), x)]
<1>1. n \in Nat
  OBVIOUS
<1>2. /\ r \in Seq(Hunks) /\ Len(r) = n + 1 /\ r[n + 1] = h
      /\ \A i \in 1 .. n : r[i] = q[i]
  BY AppendProperties
<1>3. \A g \in Hunks : Gain(ParsedHunk(g), x) \in Int
  <2>1. ASSUME NEW g \in Hunks PROVE Gain(ParsedHunk(g), x) \in Int
    <3> DEFINE a == Hits(Without(" ", g.lines), Signed("+", x))
               b == Hits(Without(" ", g.lines), Signed("-", x))
    <3>1. Gain(ParsedHunk(g), x) = a - b /\ a \in Nat /\ b \in Nat
      BY GainIsSigned
    <3> HIDE DEF a, b
    <3> QED
      BY <3>1
  <2> QED
    BY <2>1
<1> HIDE DEF n, r
<1>4. \A i \in 1 .. n + 1 : r[i] \in Hunks
  BY <1>2
<1>5. F \in [1 .. n + 1 -> Int]
  BY <1>3, <1>4
<1>6. F[n + 1] = Gain(ParsedHunk(h), x)
  BY <1>1, <1>2
<1>7. [i \in 1 .. n + 1 |-> F[i]] = [i \in 1 .. Len(r) |-> Gain(ParsedHunk(r[i]), x)]
  BY <1>2
<1>8. [i \in 1 .. n |-> F[i]] = [i \in 1 .. Len(q) |-> Gain(ParsedHunk(q[i]), x)]
  <2>1. \A i \in 1 .. n : i \in 1 .. n + 1 /\ F[i] = Gain(ParsedHunk(q[i]), x)
    BY <1>1, <1>2
  <2> HIDE DEF F
  <2> QED
    BY <2>1 DEF n
<1>9. SumUpto(F, n + 1) = DiffGain(r, x) /\ SumUpto(F, n) = DiffGain(q, x)
  <2> HIDE DEF F
  <2> QED
    BY <1>7, <1>8 DEF SumUpto, DiffGain
<1> HIDE DEF F
<1>10. /\ SumUpto(F, n) \in Int /\ SumUpto(F, n + 1) = SumUpto(F, n) + F[n + 1]
  <2>1. n + 1 \in Nat /\ n \in 0 .. n + 1 /\ n \in 0 .. (n + 1) - 1
    BY <1>1
  <2> QED
    BY <1>5, <2>1, SumGoesOn
<1>11. DiffGain(<<>>, x) = 0
  <2>1. 1 .. Len(<<>>) = {}
    OBVIOUS
  <2> DEFINE none == [i \in 1 .. Len(<<>>) |-> Gain(ParsedHunk(<<>>[i]), x)]
  <2>2. none \in [{} -> Int]
    BY <2>1
  <2> HIDE DEF none
  <2>3. SumFunction(none) = 0
    BY <2>2, SumOfNone
  <2> QED
    BY <2>3 DEF none, DiffGain
<1> QED
  BY <1>3, <1>6, <1>9, <1>10, <1>11 DEF r

\* The changed lines of a diff, one hunk after another
ChangedIn(d) == [k \in DOMAIN d |-> Without(" ", d[k].lines)]

\* What the changed lines of a diff add and remove is the gain of its hunks that have
\* lines.
LEMMA ChangesAreGains ==
  ASSUME NEW d \in Seq(Hunks), NEW x
  PROVE  /\ FlattenSeq(ChangedIn(d)) \in Seq(SignedLines)
         /\ DiffGain(Filled(d), x) = Hits(FlattenSeq(ChangedIn(d)), Signed("+", x))
                                      - Hits(FlattenSeq(ChangedIn(d)), Signed("-", x))
<1> DEFINE n == Len(d)
           V == Seq(SignedLines)
           c == ChangedIn(d)
           P == Signed("+", x)
           M == Signed("-", x)
<1>1. n \in Nat /\ DOMAIN d = 1 .. n /\ \A k \in 1 .. n : d[k] \in Hunks
  OBVIOUS
<1>2. ASSUME NEW k \in 1 .. n PROVE c[k] = Without(" ", d[k].lines) /\ c[k] \in V
  <2>1. c[k] = Without(" ", d[k].lines)
    BY <1>1 DEF ChangedIn
  <2>2. d[k] \in Hunks
    BY <1>1
  <2> HIDE DEF c
  <2> QED
    BY <2>1, <2>2, GainIsSigned
<1>3. c \in Seq(V) /\ Len(c) = n
  <2>1. c = [k \in 1 .. n |-> c[k]]
    BY DEF ChangedIn
  <2> HIDE DEF V, c, n
  <2>2. c \in [1 .. n -> V]
    BY <1>2, <2>1
  <2> QED
    BY <1>1, <2>2
<1> HIDE DEF n, c, P, M
<1>4. PICK w \in [0 .. n -> V] : w[0] = <<>> /\ w[n] = FlattenSeq(c) /\ IsRun(w, c)
  BY <1>3, FlattenRuns
<1>5. PICK kept \in [0 .. n -> Seq(Hunks)] :
        kept[0] = <<>> /\ kept[n] = Filled(d) /\ IsFilling(kept, d)
  BY FilledRuns DEF n
<1>6. \A k \in 0 .. n - 1 :
        /\ w[k + 1] = w[k] \o c[k + 1]
        /\ kept[k + 1] = IF d[k + 1].lines = <<>> THEN kept[k] ELSE Append(kept[k], d[k + 1])
  BY <1>3, <1>4, <1>5 DEF IsRun, IsFilling, n
<1> DEFINE I == {k \in Nat : k <= n => DiffGain(kept[k], x) = Hits(w[k], P) - Hits(w[k], M)}
<1>7. 0 \in I
  <2>1. DiffGain(<<>>, x) = 0
    <3>1. DiffGain(<<>>, x) = SumFunction([i \in 1 .. 0 |-> Gain(ParsedHunk(<<>>[i]), x)])
      BY DEF DiffGain
    <3> DEFINE none == [i \in 1 .. 0 |-> Gain(ParsedHunk(<<>>[i]), x)]
    <3>2. none \in [{} -> Int]
      OBVIOUS
    <3> HIDE DEF none
    <3>3. SumFunction(none) = 0
      BY <3>2, SumOfNone
    <3> QED
      BY <3>1, <3>3 DEF none
  <2>2. Hits(<<>>, P) = 0 /\ Hits(<<>>, M) = 0
    BY HitsOfFew
  <2> QED
    BY <1>4, <1>5, <2>1, <2>2
<1>8. ASSUME NEW k \in I PROVE k + 1 \in I
  <2>1. SUFFICES ASSUME k + 1 <= n
                 PROVE  DiffGain(kept[k + 1], x) = Hits(w[k + 1], P) - Hits(w[k + 1], M)
    OBVIOUS
  <2> DEFINE h == d[k + 1]
             q == kept[k]
             v == w[k]
             e == c[k + 1]
  <2>2. /\ k \in 0 .. n - 1 /\ k \in 0 .. n /\ k + 1 \in 1 .. n
        /\ DiffGain(q, x) = Hits(v, P) - Hits(v, M)
    BY <1>1, <2>1
  <2>3. h \in Hunks /\ q \in Seq(Hunks) /\ v \in V /\ e \in V /\ e = Without(" ", h.lines)
    BY <1>1, <1>2, <1>4, <1>5, <2>2
  <2>4. w[k + 1] = v \o e /\ kept[k + 1] = IF h.lines = <<>> THEN q ELSE Append(q, h)
    BY <1>6, <2>2
  <2> HIDE DEF h, q, v, e, I
  <2>5. /\ Gain(ParsedHunk(h), x) = Hits(e, P) - Hits(e, M)
        /\ Hits(e, P) \in Nat /\ Hits(e, M) \in Nat
    BY <2>3, GainIsSigned DEF P, M
  <2>6. /\ Hits(v \o e, P) = Hits(v, P) + Hits(e, P)
        /\ Hits(v \o e, M) = Hits(v, M) + Hits(e, M)
        /\ Hits(v, P) \in Nat /\ Hits(v, M) \in Nat
    BY <2>3, HitsOfBoth, HitsAreFinite
  <2>7. CASE h.lines = <<>>
    <3>1. e = <<>>
      <4>1. <<>> \in Seq({}) /\ Len(<<>>) = 0
        OBVIOUS
      <4>2. \E p \in [0 .. Len(<<>>) -> Seq({})] :
              p[0] = <<>> /\ p[Len(<<>>)] = Without(" ", <<>>) /\ IsKept(p, " ", <<>>)
        BY <4>1, WithoutRuns
      <4> QED
        BY <2>3, <2>7, <4>1, <4>2
    <3>2. Hits(e, P) = 0 /\ Hits(e, M) = 0
      BY <3>1, HitsOfFew
    <3>3. kept[k + 1] = q
      BY <2>4, <2>7
    <3> QED
      BY <2>2, <2>4, <2>6, <3>2, <3>3
  <2>8. CASE h.lines # <<>>
    <3>1. DiffGain(Append(q, h), x) = DiffGain(q, x) + Gain(ParsedHunk(h), x)
      BY <2>3, GainOfAppend
    <3>2. kept[k + 1] = Append(q, h)
      BY <2>4, <2>8
    <3>3. Hits(v, P) - Hits(v, M) + (Hits(e, P) - Hits(e, M))
            = Hits(v, P) + Hits(e, P) - (Hits(v, M) + Hits(e, M))
      BY <2>5, <2>6
    <3> QED
      BY <2>2, <2>4, <2>5, <2>6, <3>1, <3>2, <3>3
  <2> QED
    BY <2>7, <2>8
<1>9. n \in I
  <2>1. I \subseteq Nat
    OBVIOUS
  <2> HIDE DEF I
  <2> QED
    BY <1>1, <1>7, <1>8, <2>1, SetInduction
<1>10. DiffGain(kept[n], x) = Hits(w[n], P) - Hits(w[n], M)
  BY <1>1, <1>9
<1>11. w[n] \in V
  BY <1>1, <1>4
<1> QED
  BY <1>4, <1>5, <1>10, <1>11 DEF c, P, M

\* A hunk's gain is a number, and gains go on hunk by hunk.
LEMMA GainGoesOn ==
  ASSUME NEW hs, AreHunks(hs), NEW x
  PROVE  /\ GainedUpto(hs, 0, x) = 0
         /\ \A k \in 0 .. Len(hs) : GainedUpto(hs, k, x) \in Int
         /\ \A k \in 0 .. Len(hs) - 1 :
              GainedUpto(hs, k + 1, x) = GainedUpto(hs, k, x) + Gain(hs[k + 1], x)
<1> DEFINE n == Len(hs)
           F == [i \in 1 .. n |-> Gain(hs[i], x)]
<1>1. n \in Nat
  BY HunksAreFinite
<1>2. ASSUME NEW i \in 1 .. n PROVE Gain(hs[i], x) \in Int
  <2>1. hs[i].old \in Seq(AllLines) /\ hs[i].new \in Seq(AllLines)
    BY DEF AreHunks, IsHunk
  <2>2. Occurrences(hs[i].old, x) \in Nat /\ Occurrences(hs[i].new, x) \in Nat
    BY <2>1, OccurrencesAreHits
  <2> QED
    BY <2>2 DEF Gain
<1> HIDE DEF n
<1>3. F \in [1 .. n -> Int]
  BY <1>2
<1>4. \A k \in 0 .. n : [i \in 1 .. k |-> F[i]] = [i \in 1 .. k |-> Gain(hs[i], x)]
  <2>1. ASSUME NEW k \in 0 .. n, NEW i \in 1 .. k PROVE F[i] = Gain(hs[i], x)
    <3>1. i \in 1 .. n
      BY <1>1
    <3> QED
      BY <3>1
  <2> HIDE DEF F
  <2> QED
    BY <2>1
<1>5. \A k \in 0 .. n - 1 : F[k + 1] = Gain(hs[k + 1], x)
  <2>1. \A k \in 0 .. n - 1 : k + 1 \in 1 .. n
    BY <1>1
  <2> QED
    BY <2>1
<1> HIDE DEF F
<1>6. \A k \in 0 .. n : SumUpto(F, k) = GainedUpto(hs, k, x)
  BY <1>4 DEF SumUpto, GainedUpto
<1>7. \A k \in 0 .. n - 1 : k \in 0 .. n /\ k + 1 \in 0 .. n
  BY <1>1
<1>8. /\ SumUpto(F, 0) = 0 /\ \A k \in 0 .. n : SumUpto(F, k) \in Int
      /\ \A k \in 0 .. n - 1 : SumUpto(F, k + 1) = SumUpto(F, k) + F[k + 1]
  BY <1>1, <1>3, SumGoesOn
<1>9. 0 \in 0 .. n
  BY <1>1
<1> QED
  BY <1>5, <1>6, <1>7, <1>8, <1>9 DEF n

\* What the changed lines of a diff tell of its parsed hunks
Told(hs, d) ==
    \A x : GainedUpto(hs, Len(hs), x) = Hits(FlattenSeq(ChangedIn(d)), Signed("+", x))
                                         - Hits(FlattenSeq(ChangedIn(d)), Signed("-", x))

\* What is parsed gains what the diff tells.
LEMMA ParsingTells ==
  ASSUME diff \in Seq(Hunks), ParseDiff
  PROVE  Told(hunks', diff)
<1> DEFINE d == Filled(diff)
           q == [k \in DOMAIN d |-> ParsedHunk(d[k])]
<1>1. d \in Seq(Hunks) /\ hunks' = q
  BY FilledIsSequence DEF ParseDiff
<1>2. ASSUME NEW x
      PROVE  DiffGain(d, x) = Hits(FlattenSeq(ChangedIn(diff)), Signed("+", x))
                                - Hits(FlattenSeq(ChangedIn(diff)), Signed("-", x))
  BY ChangesAreGains
<1> HIDE DEF d
<1>3. Len(d) \in Nat /\ DOMAIN d = 1 .. Len(d)
  BY <1>1
<1>4. Len(q) = Len(d) /\ \A k \in 1 .. Len(d) : q[k] = ParsedHunk(d[k])
  BY <1>3
<1> HIDE DEF q
<1>5. ASSUME NEW x PROVE GainedUpto(q, Len(q), x) = DiffGain(d, x)
  <2>1. [i \in 1 .. Len(q) |-> Gain(q[i], x)] = [i \in 1 .. Len(d) |-> Gain(ParsedHunk(d[i]), x)]
    BY <1>4
  <2> QED
    BY <2>1 DEF GainedUpto, DiffGain
<1> QED
  BY <1>1, <1>2, <1>5 DEF Told

\* The hash counts the hits of a sign and a text, unless the text may look like a header.
LEMMA HashCountsHits ==
  ASSUME diff \in Seq(Hunks), NEW sign, NEW x, x \notin HeaderTexts
  PROVE  /\ Hashed(sign, x) = Hits(FlattenSeq(ChangedIn(diff)), Signed(sign, x))
         /\ Hashed(sign, x) \in Nat
<1> DEFINE c == FlattenSeq(ChangedIn(diff))
           meaningful == {k \in DOMAIN c : c[k] \notin LikeHeader}
           Entry(k) == <<c[k].sign, c[k].line.text>>
           count(r) == Cardinality({k \in meaningful : Entry(k) = r})
           entries == {Entry(k) : k \in meaningful}
<1>1. c \in Seq(SignedLines)
  BY ChangesAreGains
<1>2. NormalisedPatch(diff) = [r \in entries |-> count(r)]
  BY DEF NormalisedPatch, ChangedIn
<1> HIDE DEF c
<1>3. {k \in meaningful : Entry(k) = <<sign, x>>} = {k \in DOMAIN c : c[k] \in Signed(sign, x)}
  <2>1. \A k \in DOMAIN c : c[k] \in SignedLines
    BY <1>1
  <2>2. \A k \in DOMAIN c : c[k].line.text = x => k \in meaningful
    BY DEF HeaderTexts
  <2> QED
    BY <2>1, <2>2 DEF Signed
<1>4. count(<<sign, x>>) = Hits(c, Signed(sign, x)) /\ Hits(c, Signed(sign, x)) \in Nat
  BY <1>1, <1>3, HitsAreFinite DEF Hits
<1>5. CASE <<sign, x>> \in entries
  <2>1. Hashed(sign, x) = count(<<sign, x>>)
    <3> HIDE DEF count, entries
    <3> QED
      BY <1>2, <1>5 DEF Hashed
  <2> QED
    BY <1>4, <2>1 DEF c
<1>6. CASE <<sign, x>> \notin entries
  <2>1. {k \in meaningful : Entry(k) = <<sign, x>>} = {}
    BY <1>6
  <2>2. count(<<sign, x>>) = 0
    BY <2>1, FS_EmptySet
  <2>3. Hashed(sign, x) = 0
    <3> HIDE DEF count, entries
    <3> QED
      BY <1>2, <1>6 DEF Hashed
  <2> QED
    BY <1>4, <2>2, <2>3 DEF c
<1> QED
  BY <1>5, <1>6
----------------------------------------------------------------------------
(***************************************************************************)
(* The hash tells what a candidate is made of: the invariant of the gains, *)
(* and its steps.                                                          *)
(***************************************************************************)

\* How often a text is in the touched files
TotalOf(x, in) == SumFunction([f \in Touched |-> Occurrences(in[f], x)])

\* The files now and as read, and the gain of the hunks applied between them
Balanced(before, after, k) ==
    \A x : TotalOf(x, after) = TotalOf(x, before) + GainedUpto(hunks, k, x)

\* Every hunk has old lines.
Placed == \A h \in Range(hunks) : h.old # <<>>

\* The parsed hunks gain what the diff's changed lines tell, and the patched files have
\* gained what the applied hunks do.
HInv ==
    /\ pc \in {"paths", "budget", "read", "hunks", "identifiers", "write"} => Told(hunks, diff)
    /\ pc \in {"hunks", "identifiers", "write"} /\ Placed => Balanced(read, patched, applied)
    /\ HashTellsTheLines

\* A sum of occurrences is a number.
LEMMA TotalIsNumber ==
  ASSUME AreHunks(hunks), NEW in \in [Touched -> Seq(AllLines)], NEW x
  PROVE  /\ IsFiniteSet(Touched) /\ TotalOf(x, in) \in Int
         /\ [f \in Touched |-> Occurrences(in[f], x)] \in [Touched -> Int]
<1>1. IsFiniteSet(Touched)
  BY HunksAreFinite DEF Touched
<1> DEFINE F == [f \in Touched |-> Occurrences(in[f], x)]
<1>2. ASSUME NEW f \in Touched PROVE Occurrences(in[f], x) \in Int
  <2>1. in[f] \in Seq(AllLines)
    OBVIOUS
  <2>2. Occurrences(in[f], x) \in Nat
    BY <2>1, OccurrencesAreHits
  <2> QED
    BY <2>2
<1>3. F \in [Touched -> Int]
  BY <1>2
<1> HIDE DEF F
<1>4. SumFunction(F) \in Int
  BY <1>1, <1>3, SumIsNumber
<1> QED
  BY <1>1, <1>3, <1>4 DEF F, TotalOf

\* One hunk more is applied, and its gain is gained.
LEMMA HunkIsBalanced ==
  ASSUME BInv, HInv, Placed, pc = "hunks", applied < Len(hunks), NEW u,
         u \in ApplyHunk(patched[hunks[applied + 1].file], hunks[applied + 1]),
         NEW after, after = [patched EXCEPT ![hunks[applied + 1].file] = u]
  PROVE  Balanced(read, after, applied + 1)
<1> DEFINE hunk == hunks[applied + 1]
           f == hunk.file
<1>1. /\ AreHunks(hunks) /\ applied \in 0 .. Len(hunks)
      /\ read \in [Touched -> Seq(AllLines)] /\ patched \in [Touched -> Seq(AllLines)]
      /\ Balanced(read, patched, applied)
  BY DEF BInv, HInv
<1>2. /\ Len(hunks) \in Nat /\ applied + 1 \in 1 .. Len(hunks) /\ DOMAIN hunks = 1 .. Len(hunks)
      /\ applied \in 0 .. Len(hunks) - 1
  BY <1>1, HunksAreFinite
<1>3. IsHunk(hunk) /\ f \in Touched /\ hunk.old # <<>>
  <2>1. hunk \in Range(hunks)
    BY <1>2 DEF Range
  <2> QED
    BY <1>1, <1>2, <2>1, HunksAreFinite DEF AreHunks, Touched, Placed
<1> HIDE DEF hunk
<1>4. patched[f] \in Seq(AllLines) /\ u \in ApplyHunk(patched[f], hunk)
  BY <1>1, <1>3 DEF hunk
<1> HIDE DEF f
<1>5. u \in Seq(AllLines)
  BY <1>3, <1>4, ApplyingExchanges
<1>6. /\ after \in [Touched -> Seq(AllLines)] /\ after[f] = u
      /\ \A g \in Touched \ {f} : after[g] = patched[g]
  BY <1>1, <1>3, <1>5 DEF f, hunk
<1>7. ASSUME NEW x
      PROVE  TotalOf(x, after) = TotalOf(x, read) + GainedUpto(hunks, applied + 1, x)
  <2> DEFINE F == [g \in Touched |-> Occurrences(patched[g], x)]
             G == [g \in Touched |-> Occurrences(after[g], x)]
  <2>1. IsFiniteSet(Touched) /\ F \in [Touched -> Int] /\ G \in [Touched -> Int]
    BY <1>1, <1>6, TotalIsNumber
  <2>2. TotalOf(x, read) \in Int
    BY <1>1, TotalIsNumber
  <2>3. \A g \in Touched \ {f} : F[g] = G[g]
    BY <1>6
  <2>4. F[f] = Occurrences(patched[f], x) /\ G[f] = Occurrences(u, x)
    BY <1>3, <1>6
  <2>5. SumFunction(F) = TotalOf(x, patched) /\ SumFunction(G) = TotalOf(x, after)
    BY DEF TotalOf
  <2> HIDE DEF F, G
  <2>6. /\ SumFunction(F) \in Int /\ SumFunction(G) \in Int
        /\ SumFunction(G) - SumFunction(F) = G[f] - F[f]
    BY <1>3, <2>1, <2>3, SumChanges
  <2>7. /\ Occurrences(hunk.old, x) \in Nat /\ Occurrences(hunk.new, x) \in Nat
        /\ Occurrences(patched[f], x) \in Nat /\ Occurrences(u, x) \in Nat
        /\ Occurrences(u, x) + Occurrences(hunk.old, x)
             = Occurrences(patched[f], x) + Occurrences(hunk.new, x)
    BY <1>3, <1>4, ApplyingExchanges
  <2>8. G[f] - F[f] = Gain(hunk, x) /\ Gain(hunk, x) \in Int
    BY <2>4, <2>7 DEF Gain
  <2>9. /\ GainedUpto(hunks, applied + 1, x) = GainedUpto(hunks, applied, x) + Gain(hunk, x)
        /\ GainedUpto(hunks, applied, x) \in Int
    <3>1. applied \in 0 .. Len(hunks)
      BY <1>1
    <3> QED
      BY <1>1, <1>2, <3>1, GainGoesOn DEF hunk
  <2>10. SumFunction(F) = TotalOf(x, read) + GainedUpto(hunks, applied, x)
    BY <1>1, <2>5 DEF Balanced
  <2>11. SumFunction(G) = TotalOf(x, read) + GainedUpto(hunks, applied + 1, x)
    BY <2>2, <2>6, <2>8, <2>9, <2>10
  <2> QED
    BY <2>5, <2>11
<1> QED
  BY <1>7 DEF Balanced

\* A tree is written from the patched files: what it has gained is what the hash tells.
LEMMA WritingTells ==
  ASSUME DistinctBases, PInv, BInv, HInv, pc = "write", WriteCandidate
  PROVE  HashTellsTheLines'
<1>1. /\ AreHunks(hunks) /\ UNCHANGED <<hunks, read, diff>> /\ Touched' = Touched
      /\ Told(hunks, diff) /\ applied = Len(hunks) /\ diff \in Seq(Hunks)
      /\ Placed => Balanced(read, patched, applied)
      /\ read \in [Touched -> Seq(AllLines)] /\ patched \in [Touched -> Seq(AllLines)]
  BY DEF PInv, BInv, HInv, WriteCandidate, Touched
<1>2. \A f \in Touched : tree'[Base[f]] = patched[f]
  BY WrittenAsPatched DEF BInv
<1> DEFINE now == [f \in Touched |-> tree'[Base[f]]]
<1>3. SUFFICES ASSUME Placed, NEW x, x \notin HeaderTexts
               PROVE  TotalOf(x, now) + Hashed("-", x) = TotalOf(x, read) + Hashed("+", x)
  <2>1. Made' = now /\ HeaderTexts' = HeaderTexts
    BY <1>1 DEF Made, HeaderTexts
  <2>2. \A sign, x : Hashed(sign, x)' = Hashed(sign, x)
    BY <1>1 DEF Hashed
  <2>3. \A x : Accounted(x)' <=>
                TotalOf(x, now) + Hashed("-", x) = TotalOf(x, read) + Hashed("+", x)
    BY <1>1, <2>1, <2>2 DEF Accounted, TotalOf
  <2> QED
    BY <1>1, <2>1, <2>3 DEF HashTellsTheLines, Placed
<1> DEFINE plus == Hits(FlattenSeq(ChangedIn(diff)), Signed("+", x))
           minus == Hits(FlattenSeq(ChangedIn(diff)), Signed("-", x))
<1>4. /\ Hashed("+", x) = plus /\ Hashed("-", x) = minus
      /\ plus \in Nat /\ minus \in Nat
  BY <1>1, <1>3, HashCountsHits
<1>5. TotalOf(x, now) = TotalOf(x, patched)
  <2>1. \A f \in Touched : now[f] = patched[f]
    BY <1>2
  <2>2. [f \in Touched |-> Occurrences(now[f], x)] = [f \in Touched |-> Occurrences(patched[f], x)]
    <3> HIDE DEF now
    <3> QED
      BY <2>1
  <2> HIDE DEF now
  <2> QED
    BY <2>2 DEF TotalOf
<1>6. GainedUpto(hunks, Len(hunks), x) = plus - minus
  BY <1>1 DEF Told
<1>7. TotalOf(x, patched) = TotalOf(x, read) + GainedUpto(hunks, Len(hunks), x)
  BY <1>1, <1>3 DEF Balanced
<1>8. TotalOf(x, read) \in Int
  BY <1>1, TotalIsNumber
<1> HIDE DEF plus, minus, now
<1>9. TotalOf(x, now) + minus = TotalOf(x, read) + plus
  BY <1>4, <1>5, <1>6, <1>7, <1>8
<1> QED
  BY <1>4, <1>9

\* What HInv looks at is left alone by the steps that neither parse, read, apply nor write.
hashed == <<hunks, diff, read, patched, applied>>

\* HInv is inductive, given what BInv says of the files.
LEMMA StepsAreTold ==
  ASSUME DistinctBases
  PROVE  PInv /\ BInv /\ HInv /\ [Next]_vars => HInv'
<1> SUFFICES ASSUME PInv, BInv, HInv, [Next]_vars PROVE HInv'
  OBVIOUS
<1> USE DEF Go
<1>1. CASE UNCHANGED hashed /\ pc' = pc /\ (pc = "applied" => tree' = tree)
  <2>1. Touched' = Touched /\ Placed' = Placed
    BY <1>1 DEF hashed, Touched, Placed
  <2>2. HashTellsTheLines'
    <3>1. CASE pc = "applied"
      <4>1. Made' = Made /\ HeaderTexts' = HeaderTexts
        BY <1>1, <2>1, <3>1 DEF Made, HeaderTexts
      <4>2. AllTexts' = AllTexts
        BY <1>1, <2>1, <4>1 DEF AllTexts, hashed
      <4>3. \A sign, x : Hashed(sign, x)' = Hashed(sign, x)
        BY <1>1 DEF Hashed, hashed
      <4>4. \A x : TotalOf(x, Made)' = TotalOf(x, Made) /\ TotalOf(x, read)' = TotalOf(x, read)
        BY <1>1, <2>1, <4>1 DEF TotalOf, hashed
      <4>5. \A x : Accounted(x)' <=> Accounted(x)
        BY <4>3, <4>4 DEF Accounted, TotalOf
      <4> QED
        BY <1>1, <4>1, <4>2, <4>5 DEF HInv, hashed, HashTellsTheLines
    <3>2. CASE pc # "applied"
      BY <1>1, <3>2 DEF HashTellsTheLines
    <3> QED
      BY <3>1, <3>2
  <2> QED
    BY <1>1, <2>1, <2>2 DEF HInv, hashed, Told, Balanced, TotalOf, GainedUpto
<1>2. ASSUME UNCHANGED hashed, pc' \notin {"applied"},
             pc' \in {"paths", "budget", "read", "hunks", "identifiers", "write"} =>
               pc \in {"paths", "budget", "read", "hunks", "identifiers", "write"},
             pc' \in {"hunks", "identifiers", "write"} => pc \in {"hunks", "identifiers", "write"}
      PROVE  HInv'
  <2>1. Touched' = Touched /\ Placed' = Placed
    BY <1>2 DEF hashed, Touched, Placed
  <2>2. HashTellsTheLines'
    BY <1>2 DEF HashTellsTheLines
  <2> QED
    BY <1>2, <2>1, <2>2 DEF HInv, hashed, Told, Balanced, TotalOf, GainedUpto
<1>3. CASE UNCHANGED vars \/ EditSource
  <2>1. UNCHANGED hashed /\ pc' = pc /\ tree' = tree
    BY <1>3 DEF vars, patchVars, EditSource, hashed
  <2> QED
    BY <1>1, <2>1
<1>4. CASE Building /\ UNCHANGED patchVars
  <2>1. UNCHANGED hashed /\ pc' \in {"hierarchy", "slices", "propose"}
    BY <1>4 DEF patchVars, Building, ScanHierarchy, CutSlice, BuildRequest, EditWhileBuilding, hashed
  <2> QED
    BY <1>2, <2>1
<1>5. CASE Propose
  <2>1. UNCHANGED <<hunks, read, patched, applied>> /\ pc' = "validate"
    BY <1>5 DEF Propose
  <2> QED
    BY <2>1 DEF HInv, HashTellsTheLines
<1>6. CASE Validate \/ RefusePath \/ PathsAllowed \/ CheckBudget \/ NoMatch \/ Patched
           \/ CheckIdentifiers
  <2>1. /\ UNCHANGED hashed
        /\ \/ pc' \in {"parse", "invalid", "protected", "rejected"}
           \/ pc = "paths" /\ pc' = "budget"
           \/ pc = "budget" /\ pc' = "read"
           \/ pc = "hunks" /\ pc' = "identifiers"
           \/ pc = "identifiers" /\ pc' = "write"
    BY <1>6 DEF Validate, RefusePath, PathsAllowed, CheckBudget, NoMatch, Patched,
                CheckIdentifiers, Keep, patchVars, hashed
  <2> QED
    BY <1>2, <2>1
<1>7. CASE ParseDiff
  <2>1. diff' = diff /\ pc' \in {"rejected", "paths"}
    BY <1>7 DEF ParseDiff
  <2>2. Told(hunks', diff)
    BY <1>7, ParsingTells DEF PInv, ParseDiff
  <2> QED
    BY <2>1, <2>2 DEF HInv, HashTellsTheLines, Told
<1>8. CASE ReadSources
  <2>1. /\ UNCHANGED <<hunks, diff, applied>> /\ pc = "read" /\ pc' = "hunks"
        /\ applied = 0 /\ Touched' = Touched /\ AreHunks(hunks) /\ patched' = read'
    BY <1>8 DEF ReadSources, BInv, Touched, Outcomes
  <2>2. read' \in [Touched -> Seq(AllLines)]
    BY <1>8, <2>1, ReadingIsCounted
  <2>3. ASSUME NEW x
        PROVE  TotalOf(x, read') \in Int /\ GainedUpto(hunks, 0, x) = 0
    BY <2>1, <2>2, TotalIsNumber, GainGoesOn
  <2>4. \A x : TotalOf(x, read') = TotalOf(x, read') + GainedUpto(hunks, 0, x)
    BY <2>3
  <2>5. Balanced(read, patched, applied)'
    BY <2>1, <2>4 DEF Balanced, TotalOf, GainedUpto
  <2>6. Told(hunks, diff)'
    BY <2>1 DEF HInv, Told, GainedUpto
  <2> QED
    BY <2>1, <2>5, <2>6 DEF HInv, HashTellsTheLines
<1>9. CASE PatchHunk
  <2>1. /\ UNCHANGED <<pc, hunks, diff, read>> /\ pc = "hunks" /\ Touched' = Touched
        /\ applied < Len(hunks) /\ applied' = applied + 1 /\ Placed' = Placed
    BY <1>9 DEF PatchHunk, Touched, Placed
  <2>2. PICK u \in ApplyHunk(patched[hunks[applied + 1].file], hunks[applied + 1]) :
          patched' = [patched EXCEPT ![hunks[applied + 1].file] = u]
    BY <1>9 DEF PatchHunk
  <2>3. Placed => Balanced(read, patched', applied + 1)
    BY <2>1, <2>2, HunkIsBalanced
  <2>4. Balanced(read, patched, applied)' <=> Balanced(read, patched', applied + 1)
    BY <2>1 DEF Balanced, TotalOf, GainedUpto
  <2>5. Told(hunks, diff)'
    BY <2>1 DEF HInv, Told, GainedUpto
  <2> QED
    BY <2>1, <2>3, <2>4, <2>5 DEF HInv, HashTellsTheLines
<1>10. CASE WriteCandidate
  <2>1. pc = "write" /\ pc' = "applied"
    BY <1>10 DEF WriteCandidate
  <2>2. HashTellsTheLines'
    BY <1>10, <2>1, WritingTells
  <2> QED
    BY <2>1, <2>2 DEF HInv
<1> QED
  BY <1>3, <1>4, <1>5, <1>6, <1>7, <1>8, <1>9, <1>10 DEF Next, Answering

\* The added and removed texts of a diff tell which lines its candidate is made of, those
\* apart whose text may look like a header, for any files and hunks, if no two files have
\* one base name (history.py:25-38).
THEOREM HashTellsWhatIsMade ==
  ASSUME DistinctBases PROVE Spec => []HashTellsTheLines
<1>1. Init => HInv
  BY DEF Init, RequestInit, HInv, HashTellsTheLines
<1>2. PInv /\ BInv /\ HInv /\ [Next]_vars => HInv'
  BY StepsAreTold
<1>3. HInv => HashTellsTheLines
  BY DEF HInv
<1> QED
  BY <1>1, <1>2, <1>3, ChecksHold, CountHolds, PTL DEF Spec
============================================================================
