------------------------------ MODULE Patcher ------------------------------
(***************************************************************************)
(* A patch on its way from the request to the candidate tree: the answer   *)
(* of the model, the file checks of src/orchestrator/llm/validator.py and  *)
(* src/orchestrator/patcher.py, apply_patch.  Somebody may edit the        *)
(* sources anywhere on the way.                                            *)
(*                                                                         *)
(* A line is its text up to white space, and the form its white space has. *)
(* A diff is a sequence of hunks of signed lines; each has the prefix, a/  *)
(* or b/, under which its file is named in the +++ header.                 *)
(***************************************************************************)
EXTENDS Request

CONSTANTS
  Hunks,          \* hunks a diff may have: [file, prefix, lines]
  MaxHunks,       \* bound on the hunks of a diff
  LikeHeader,     \* lines of hunks that start with +++ or ---, as when ++i; is added
  MaxLines,       \* change_budget.max_changed_lines
  Top             \* the text that names the top module

ASSUME PatcherAssumption ==
    /\ MaxLines \in Nat
    /\ \A h \in Hunks :
         /\ h.file \in Files /\ h.lines \in Seq(Range(h.lines))
         /\ \A l \in Range(h.lines) : l.sign \in {" ", "+", "-"}
    /\ \A l \in LikeHeader : l.sign \in {"+", "-"}

VARIABLES
  shown,      \* what the validator looks at of the request, see Handed
  diff,       \* patch.diff_text
  hunks,      \* its hunks, parsed
  read,       \* baseline_sources: the files as apply_patch read them
  patched,    \* patched_sources
  applied,    \* the hunks applied so far
  tree        \* the candidate's files by base name, <<>> until they are written

patchVars == <<shown, diff, hunks, read, patched, applied, tree>>
vars == <<pc, sources, requestVars, patchVars>>

\* An outcome of apply_patch ends it, "invalid" one of the validator.
Outcomes == {"invalid", "protected", "rejected", "applied"}
Places == {"hierarchy", "slices", "propose", "validate", "parse", "paths", "budget", "read",
           "hunks", "identifiers", "write"} \cup Outcomes

Named(hs) == {h.file : h \in hs}
Touched == Named(Range(hunks))

\* A request before it is built
NotHanded == [files |-> {}, connection_map |-> {}]

Init ==
    /\ RequestInit
    /\ shown = NotHanded /\ diff = <<>> /\ hunks = <<>>
    /\ read = <<>> /\ patched = <<>> /\ applied = 0 /\ tree = <<>>

Go(place) == pc' = place
Keep == UNCHANGED <<sources, requestVars, patchVars>>
----------------------------------------------------------------------------
\* The model's answer

\* The edges of the request between files
FileEdges ==
    {[files |-> {e.parent_file, e.child_file}, complete |-> e.complete] :
       e \in Range(scanned.edges)}

Handed == [files |-> ContextFiles, connection_map |-> FileEdges]

\* Whatever it is shown, the model may answer with any diff.  The request's other
\* parts are not looked at again, nor are the baseline's files.
Propose ==
    /\ pc = "propose"
    /\ shown' = Handed
    /\ \E n \in 0 .. MaxHunks : diff' \in [1 .. n -> Hunks]
    /\ base' = <<>> /\ edited' = FALSE /\ measured' = <<>>
    /\ scanned' = NoScan /\ rtl_context' = <<>>
    /\ Go("validate")
    /\ UNCHANGED <<editable, sources, hunks, read, patched, applied, tree>>
----------------------------------------------------------------------------
\* The validator

\* The files of "+++ b/" headers
DiffFiles == Named({h \in Range(diff) : h.prefix = "b"})

\* Mutant of Joined: an edge counts, whatever is known of its ports
JoinedAnyhow(connection_map, f, g) == \E e \in connection_map : e.files = {f, g}

Joined(connection_map, f, g) ==
    \E e \in connection_map : e.complete /\ e.files = {f, g}

\* Files that are visited, or joined to one that is
Around(files, visited) ==
    {g \in files : g \in visited \/ \E f \in visited : Joined(shown.connection_map, f, g)}

\* What a search from one of the files has visited, round by round
Search(files) ==
    LET visited[n \in Nat] == IF n = 0 THEN {CHOOSE f \in files : TRUE}
                                       ELSE Around(files, visited[n - 1])
    IN  visited

\* _files_connected: the search reaches them all
FilesConnected(files) == Search(files)[Cardinality(files)] = files

FilesAdmitted(files) ==
    /\ files # {} /\ files \subseteq shown.files
    /\ Cardinality(files) <= MaxFiles
    /\ Cardinality(files) > 1 => FilesConnected(files)

Validate ==
    /\ pc = "validate"
    /\ Go(IF FilesAdmitted(DiffFiles) THEN "parse" ELSE "invalid")
    /\ Keep
----------------------------------------------------------------------------
\* The patcher

\* The lines of a hunk that do not have a sign
Without(sign, lines) ==
    LET AddLine(kept, l) == IF l.sign = sign THEN kept ELSE Append(kept, l)
    IN  FoldLeft(AddLine, <<>>, lines)

\* The hunks that have lines
Filled(d) ==
    LET AddHunk(kept, h) == IF h.lines = <<>> THEN kept ELSE Append(kept, h)
    IN  FoldLeft(AddHunk, <<>>, d)

Unsigned(lines) == [k \in DOMAIN lines |-> lines[k].line]

\* _parse_diff: context lines are in both halves of a hunk; a header without
\* lines is no hunk.
ParsedHunk(h) ==
    [file |-> h.file,
     old |-> Unsigned(Without("+", h.lines)), new |-> Unsigned(Without("-", h.lines))]

ParseDiff ==
    /\ pc = "parse"
    /\ hunks' = [k \in DOMAIN Filled(diff) |-> ParsedHunk(Filled(diff)[k])]
    /\ Go(IF hunks' = <<>> THEN "rejected" ELSE "paths")
    /\ UNCHANGED <<sources, requestVars, shown, diff, read, patched, applied, tree>>

\* Checks 1 and 2, file by file, in an order given by their names
RefusePath ==
    /\ pc = "paths"
    /\ \E file \in Touched :
         \/ IsProtected(file) /\ Go("protected")
         \/ ~IsProtected(file) /\ ~IsEditable(file) /\ Go("rejected")
    /\ Keep

PathsAllowed ==
    /\ pc = "paths"
    /\ \A file \in Touched : ~IsProtected(file) /\ IsEditable(file)
    /\ Go("budget") /\ Keep

CommonPrefix(s, t) == Len(LongestCommonPrefix({s, t}))

From(s, n) == SubSeq(s, n + 1, Len(s))

\* _common_prefix_suffix
CommonEnds(hunk) ==
    LET pre == CommonPrefix(hunk.old, hunk.new)
    IN  pre + CommonPrefix(Reverse(From(hunk.old, pre)), Reverse(From(hunk.new, pre)))

\* Mutant of ChangedLines: only what is added counts
AddedLines(hunk) == Len(hunk.new) - CommonEnds(hunk)

ChangedLines(hunk) == Len(hunk.new) + Len(hunk.old) - 2 * CommonEnds(hunk)

\* Check 3
CheckBudget ==
    /\ pc = "budget"
    /\ LET changed == SumFunction([i \in DOMAIN hunks |-> ChangedLines(hunks[i])])
       IN  Go(IF changed <= MaxLines /\ Cardinality(Touched) <= MaxFiles
              THEN "read" ELSE "rejected")
    /\ Keep

ReadSources ==
    /\ pc = "read"
    /\ read' = [f \in Touched |-> sources[f]] /\ patched' = read'
    /\ Go("hunks")
    /\ UNCHANGED <<sources, requestVars, shown, diff, hunks, applied, tree>>

MatchesOf(lines, old) ==
    {i \in 1 .. Len(lines) - Len(old) + 1 : SubSeq(lines, i, i + Len(old) - 1) = old}

Texts(lines) == [i \in DOMAIN lines |-> lines[i].text]

Exact(lines, hunk) == MatchesOf(lines, hunk.old)
Loose(lines, hunk) == MatchesOf(Texts(lines), Texts(hunk.old))

Splice(lines, i, n, new) ==
    SubSeq(lines, 1, i - 1) \o new \o SubSeq(lines, i + n, Len(lines))

\* A new line that is, up to white space, exactly one of the old ones becomes
\* the source's line.
Resolved(hunk, matched) ==
    [k \in DOMAIN hunk.new |->
       LET same == {j \in DOMAIN hunk.old : hunk.old[j].text = hunk.new[k].text}
       IN  IF Cardinality(same) = 1 THEN matched[Max(same)] ELSE hunk.new[k]]

\* The results of _apply_hunk, at most one; none is "did not match".  The first
\* exact match counts, a loose one only if it is the only one.
ApplyHunk(lines, hunk) ==
    LET n == Len(hunk.old)
        exact == Exact(lines, hunk)
        loose == Loose(lines, hunk)
        Loosely(i) == Splice(lines, i, n, Resolved(hunk, SubSeq(lines, i, i + n - 1)))
    IN  IF n = 0 THEN {lines}
        ELSE IF exact # {} THEN {Splice(lines, Min(exact), n, hunk.new)}
        ELSE IF Cardinality(loose) = 1 THEN {Loosely(i) : i \in loose} ELSE {}

\* Check 4, one hunk after the other
PatchHunk ==
    /\ pc = "hunks" /\ applied < Len(hunks)
    /\ LET hunk == hunks[applied + 1]
       IN  \E lines \in ApplyHunk(patched[hunk.file], hunk) :
              patched' = [patched EXCEPT ![hunk.file] = lines]
    /\ applied' = applied + 1
    /\ UNCHANGED <<pc, sources, requestVars, shown, diff, hunks, read, tree>>

NoMatch ==
    /\ pc = "hunks" /\ applied < Len(hunks)
    /\ ApplyHunk(patched[hunks[applied + 1].file], hunks[applied + 1]) = {}
    /\ Go("rejected") /\ Keep

Patched ==
    /\ pc = "hunks" /\ applied = Len(hunks)
    /\ Go("identifiers") /\ Keep

\* Check 5: the top module's name must not be new to the touched files.
CheckIdentifiers ==
    /\ pc = "identifiers"
    /\ LET written == UNION {Range(Texts(h.new)) : h \in Range(hunks)}
           known == UNION {Range(Texts(read[f])) : f \in Touched}
       IN  Go(IF Top \in written \ known THEN "rejected" ELSE "write")
    /\ Keep

\* The file whose contents end up under a base name: the files are copied in the
\* order of file_list, then those touched are written, in the order of their names.
LastUnder(name) ==
    LET under == {k \in DOMAIN FileList : Base[FileList[k]] = name}
        written == {f \in Touched : Base[f] = name}
    IN  IF written # {} THEN written ELSE {FileList[Max(under)]}

WriteCandidate ==
    /\ pc = "write"
    /\ \E last \in [Range(Base) -> Files] :
         /\ \A name \in Range(Base) : last[name] \in LastUnder(name)
         /\ tree' = [name \in Range(Base) |->
                       IF last[name] \in Touched THEN patched[last[name]]
                                                ELSE sources[last[name]]]
    /\ Go("applied")
    /\ UNCHANGED <<sources, requestVars, shown, diff, hunks, read, patched, applied>>

\* Somebody edits the sources.
EditSource ==
    /\ pc \notin {"hierarchy", "slices"} \cup Outcomes
    /\ sources' \in Trees \ {sources}
    /\ UNCHANGED <<pc, requestVars, patchVars>>

Answering ==
    \/ Validate \/ ParseDiff \/ RefusePath \/ PathsAllowed \/ CheckBudget \/ ReadSources
    \/ PatchHunk \/ NoMatch \/ Patched \/ CheckIdentifiers \/ WriteCandidate

Next == (Building /\ UNCHANGED patchVars) \/ Propose \/ Answering \/ EditSource

Spec == Init /\ [][Next]_vars

\* Mutant of NormalisedPatch: a line that occurs twice counts once
NormalisedSet(d) ==
    LET changed == FlattenSeq([k \in DOMAIN d |-> Without(" ", d[k].lines)])
        meaningful == {k \in DOMAIN changed : changed[k] \notin LikeHeader}
    IN  [p \in {<<changed[k].sign, changed[k].line.text>> : k \in meaningful} |-> 1]

\* normalise_patch before it is hashed: how often a text is added, and removed.  A
\* line that looks like a header is left out, although the patcher applies it.
NormalisedPatch(d) ==
    LET changed == FlattenSeq([k \in DOMAIN d |-> Without(" ", d[k].lines)])
        meaningful == {k \in DOMAIN changed : changed[k] \notin LikeHeader}
        Entry(k) == <<changed[k].sign, changed[k].line.text>>
    IN  [p \in {Entry(k) : k \in meaningful} |->
           Cardinality({k \in meaningful : Entry(k) = p})]
----------------------------------------------------------------------------
TypeOK ==
    /\ pc \in Places /\ editable \in Allowlists /\ sources \in Trees
    /\ shown.files \subseteq Files
    /\ Range(diff) \subseteq Hunks /\ Len(diff) <= MaxHunks
    /\ DOMAIN read \subseteq Files /\ DOMAIN patched = DOMAIN read
    /\ applied \in 0 .. MaxHunks /\ DOMAIN tree \in {{}, Range(Base)}

\* How many lines a diff of two files has at least: reference definition
Difference(s, t) ==
    LET lcs[at \in (0 .. Len(s)) \X (0 .. Len(t))] ==
          LET i == at[1]
              j == at[2]
          IN  IF i = 0 \/ j = 0 THEN 0
              ELSE IF s[i] = t[j] THEN lcs[<<i - 1, j - 1>>] + 1
              ELSE Max({lcs[<<i - 1, j>>], lcs[<<i, j - 1>>]})
    IN  Len(s) + Len(t) - 2 * lcs[<<Len(s), Len(t)>>]

(***************************************************************************)
(* White space apart, a candidate differs from the sources it was made     *)
(* from by no more lines than the budget allows, wherever its hunks were   *)
(* placed and however they overlap (patcher.py:186-200, 271-286).          *)
(***************************************************************************)
CandidateWithinBudget ==
    pc = "applied" =>
      SumFunction([f \in Touched |-> Difference(Texts(read[f]), Texts(tree[Base[f]]))])
        <= MaxLines

(***************************************************************************)
(* Protected files, and those an allowlist leaves out, reach the candidate *)
(* as they are when it is written, even if the validator did not see all   *)
(* the files of the diff, and files are edited after they were checked and *)
(* read (patcher.py:169-184, 239-248).                                     *)
(***************************************************************************)
OthersStayAsTheyAre ==
    pc = "applied" =>
      \A f \in Files :
         f \in Protected \/ (editable # {} /\ f \notin editable) => tree[Base[f]] = sources[f]

(***************************************************************************)
(* The request builder, the validator and the patcher agree on what may be *)
(* changed: a diff that was admitted, and names its files under b/ only,   *)
(* is never refused for a path (request_builder.py:186, 240-241,           *)
(* validator.py:70-76, patcher.py:169-184).                                *)
(***************************************************************************)
AdmittedPathsAreAllowed ==
    pc = "paths" /\ Touched \subseteq DiffFiles =>
      \A f \in Touched : f \notin Protected /\ (editable = {} \/ f \in editable)

(***************************************************************************)
(* validator.py:95: the files of an admitted patch "must form one          *)
(* connected component in the complete supplied connection map": wherever  *)
(* they are divided in two, a complete connection crosses.                 *)
(***************************************************************************)
AdmittedFilesAreConnected ==
    pc = "parse" =>
      \A part \in (SUBSET DiffFiles) \ {{}, DiffFiles} :
         \E e \in shown.connection_map :
            e.complete /\ Cardinality(e.files \cap part) = 1
              /\ Cardinality(e.files \cap (DiffFiles \ part)) = 1

Occurrences(lines, text) == Cardinality({k \in DOMAIN lines : lines[k].text = text})

\* How often the hash says that a text is added ("+"), or removed ("-")
Hashed(sign, text) ==
    LET patch == NormalisedPatch(diff)
    IN  IF <<sign, text>> \in DOMAIN patch THEN patch[<<sign, text>>] ELSE 0

\* The touched files as the candidate has them
Made == [f \in Touched |-> tree[Base[f]]]

\* The candidate has the lines of a text that the sources had, less those that the
\* hash says were removed, and those that it says were added.
Accounted(text) ==
    LET Total(in) == SumFunction([f \in Touched |-> Occurrences(in[f], text)])
    IN  Total(Made) + Hashed("-", text) = Total(read) + Hashed("+", text)

AllTexts == UNION {Range(Texts(in[f])) : f \in Touched, in \in {read, Made}}

HeaderTexts == {l.line.text : l \in LikeHeader}

(***************************************************************************)
(* history.py:25-38: of a patch only the added and removed texts are       *)
(* hashed, without their places.  They determine what the candidate is     *)
(* made of, the texts apart that may look like a header: white space       *)
(* aside, its lines are those of the sources, less what the hash says was  *)
(* removed, and what it says was added.  Patches that share a hash differ  *)
(* at most in where they put the same lines, and in such texts.            *)
(***************************************************************************)
HashTellsTheLines ==
    (pc = "applied" /\ \A h \in Range(hunks) : h.old # <<>>) =>
      \A text \in AllTexts \ HeaderTexts : Accounted(text)

(***************************************************************************)
(* history.py:26: a diff is hashed "by its added/removed content, ignoring *)
(* whitespace and headers": every line that a candidate gains or loses     *)
(* counts.                                                                 *)
(***************************************************************************)
HashTellsEveryLine ==
    (pc = "applied" /\ \A h \in Range(hunks) : h.old # <<>>) =>
      \A text \in AllTexts : Accounted(text)

\* The hunk the step applies
Current == hunks[applied + 1]

(***************************************************************************)
(* patcher.py:101: "Replace one matching occurrence of hunk.old_lines.     *)
(* None on ambiguity": a hunk is applied only where it alone fits.         *)
(***************************************************************************)
AmbiguousHunksAreRefused ==
    [][applied' > applied /\ Current.old # <<>> =>
         Cardinality(Exact(patched[Current.file], Current)) <= 1]_vars

(***************************************************************************)
(* patcher.py:10: "every hunk applies cleanly": a hunk that was applied    *)
(* and that changes a text has changed the file.                           *)
(***************************************************************************)
AppliedHunksTakeEffect ==
    [][applied' > applied /\ Texts(Current.old) # Texts(Current.new) =>
         patched' # patched]_vars

(***************************************************************************)
(* patcher.py:135-137: "Preserve the source byte-for-byte for an unchanged *)
(* context line": when the texts of a file stay, so do its bytes.          *)
(***************************************************************************)
ContextKeepsItsBytes ==
    [][applied' > applied /\ Exact(patched[Current.file], Current) = {} =>
         \A f \in Touched :
            Texts(patched'[f]) = Texts(patched[f]) => patched'[f] = patched[f]]_vars

(***************************************************************************)
(* validator.py:78: "patch paths must exactly match an RTL context path":  *)
(* what is applied touches only files the model was shown.                 *)
(***************************************************************************)
PatchStaysInContext == pc = "applied" => Touched \subseteq shown.files

============================================================================
