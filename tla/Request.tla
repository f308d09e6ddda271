------------------------------ MODULE Request ------------------------------
(***************************************************************************)
(* What the language model is shown (src/orchestrator/llm/                 *)
(* request_builder.py): the lines around the source of the first path of   *)
(* the baseline's timing report, the modules next to it, and how they are  *)
(* connected.                                                              *)
(*                                                                         *)
(* The path was mapped to lines of the RTL when the baseline was           *)
(* measured; the RTL is scanned, and read again slice by slice, now.  An   *)
(* optional value is a set of at most one.                                 *)
(***************************************************************************)
EXTENDS SourceMap

CONSTANTS
  Trees,        \* contents the declared files may have
  Baselines,    \* for each tree, what measuring it may give: [modules, report]
  Protected,    \* security.protected_paths
  Allowlists,   \* values security.editable_paths may have
  MaxFiles,     \* change_budget.max_changed_files
  Margin        \* CONTEXT_MARGIN

\* Files are sequences of lines, and what was measured speaks of them.
ASSUME RequestAssumption ==
    /\ MaxFiles \in Int /\ Margin \in Nat
    /\ \A t \in Trees :
         /\ \A f \in Files : t[f] \in Seq(Range(t[f]))
         /\ \A b \in Baselines[t] : IsNetlist(b.modules, t) /\ IsReport(b.report)

VARIABLES
  pc,          \* control of build_request, then of what follows
  editable,    \* security.editable_paths
  base,        \* history: the files as the baseline was measured on them
  edited,      \* history: they were edited since
  measured,    \* the netlist and the timing report of the baseline
  sources,     \* the declared files now
  scanned,     \* the hierarchy, see Scans
  rtl_context  \* the slices cut so far

\* A report without a path: nothing is mapped.
NoPath == [elements |-> <<>>, startpoint_source |-> {}, endpoint_source |-> {}]

\* paths[0], as it was mapped
PathOf(baseline) ==
    IF baseline.report = <<>> THEN NoPath
    ELSE MapPath(SourceIndex(baseline.modules), Head(baseline.report))

path == PathOf(measured)

\* spans: modules; edges: connections; selected: modules that are still to be shown
NoScan == [spans |-> <<>>, edges |-> <<>>, seeds |-> {}, selected |-> <<>>]

RequestInit ==
    /\ pc = "hierarchy" /\ editable \in Allowlists
    /\ sources \in Trees /\ base = sources /\ edited = FALSE /\ measured \in Baselines[base]
    /\ scanned = NoScan /\ rtl_context = <<>>

\* Mutant of IsProtected: no path of the manifest matches a header's
NothingProtected(file) == FALSE

IsProtected(file) == file \in Protected

\* Without an allowlist, whatever is not protected
IsEditable(file) ==
    IF editable = {} THEN ~IsProtected(file) ELSE file \in editable
----------------------------------------------------------------------------
\* Mutant of Anchors: from the start of the path to its end
AnchorsInOrder(p) ==
    <<p.startpoint_source>> \o [i \in DOMAIN p.elements |-> p.elements[i].link]
      \o <<p.endpoint_source, DominantSource(p)>>

\* The links of a path, the most useful first
Anchors(p) ==
    <<DominantSource(p), p.endpoint_source, p.startpoint_source>>
      \o [i \in DOMAIN p.elements |-> p.elements[i].link]

\* The modules around a link
ModulesAt(spans, link) == UNION {ModuleAt(spans, l.file, l.first) : l \in link}

\* What the scan needs of the RTL to serve the request: it finds the module of the line
\* a path is blamed on, or none of the path
TargetsAreScanned ==
    \A t \in Trees : \A b \in Baselines[t] :
       LET p == PathOf(b)
       IN  \/ \A l \in DominantSource(p) : ModuleAt(Spans(t), l.file, l.first) # {}
           \/ \A link \in Range(Anchors(p)) : ModulesAt(Spans(t), link) = {}

\* _path_modules
PathModules(spans) ==
    LET AddModules(modules, link) ==
          modules \o SetToSeq(ModulesAt(spans, link) \ Range(modules))
    IN  FoldLeft(AddModules, <<>>, Anchors(path))
----------------------------------------------------------------------------
\* Which modules are shown

FilesOf(modules) == {m.file : m \in Range(modules)}

\* add: no module of one file too many
Add(selected, m) ==
    IF m \in Range(selected) THEN selected
    ELSE IF m.file \in FilesOf(selected)
              \/ Cardinality(FilesOf(selected)) < Max({1, MaxFiles})
    THEN Append(selected, m) ELSE selected

\* The other end of the edges of the modules, in order
Neighbours(spans, edges, modules) ==
    LET Across(m, e) ==
          IF e.parent_module = m.name THEN <<ModuleNamed(spans, e.child_module)>>
          ELSE IF e.child_module = m.name THEN <<ModuleNamed(spans, e.parent_module)>>
          ELSE <<>>
    IN  FlattenSeq([k \in DOMAIN modules |->
           FlattenSeq([l \in DOMAIN edges |-> Across(modules[k], edges[l])])])

Selected(spans, edges) ==
    LET near == FoldLeft(Add, <<>>, PathModules(spans))
    IN  FoldLeft(Add, near, Neighbours(spans, edges, near))

\* build_rtl_hierarchy and the selection
ScanHierarchy ==
    /\ pc = "hierarchy"
    /\ LET spans == Spans(sources)
           edges == Connections(spans, sources)
           selected == Selected(spans, edges)
           names == {m.name : m \in Range(selected)}
           Between(e) == e.parent_module \in names /\ e.child_module \in names
       IN  scanned' = [spans |-> spans, edges |-> SelectSeq(edges, Between),
                       seeds |-> Range(PathModules(spans)), selected |-> selected]
    /\ pc' = "slices"
    /\ UNCHANGED <<editable, base, edited, measured, sources, rtl_context>>
----------------------------------------------------------------------------
\* The slices

\* The lines a module is shown for: those the path is on, those where it
\* instantiates others, or its header
Focus(m) ==
    LET on == {l \in UNION {DominantSource(path), path.endpoint_source, path.startpoint_source} :
                 ModuleAt(scanned.spans, l.file, l.first) = {m}}
        below == {e.line : e \in {x \in Range(scanned.edges) : x.parent_module = m.name}}
        lines == IF m \in scanned.seeds
                 THEN {l.first : l \in on} \cup {l.last : l \in on}
                 ELSE below
    IN  IF lines = {} THEN {m.first} ELSE lines

\* Mutant of MayEdit: the model may edit whatever it is shown
AnyShown(file) == TRUE

MayEdit(file) == IsEditable(file) /\ ~IsProtected(file)

\* _slice_source, from the file as it is now
Slice(file, lines) ==
    LET now == sources[file]
        first == Max({1, Min(lines) - Margin})
        last == Min({Len(now), Max(lines) + Margin})
    IN  [file |-> file, first |-> first, last |-> last, text |-> SubSeq(now, first, last),
         editable |-> MayEdit(file)]

CutSlice ==
    /\ pc = "slices" /\ scanned.selected # <<>>
    /\ LET m == Head(scanned.selected)
       IN  rtl_context' = Append(rtl_context, Slice(m.file, Focus(m)))
    /\ scanned' = [scanned EXCEPT !.selected = Tail(@)]
    /\ UNCHANGED <<pc, editable, base, edited, measured, sources>>

\* Mutant of Fallback: only what is in a module is shown
NoFallback == <<>>

\* No module was found: a single slice, if the path is mapped to a file that exists
Fallback ==
    LET link == SetToSeq({l \in DominantSource(path) : l.file \in Files})
    IN  [k \in DOMAIN link |-> Slice(link[k].file, {link[k].first, link[k].last})]

BuildRequest ==
    /\ pc = "slices" /\ scanned.selected = <<>>
    /\ rtl_context' = IF rtl_context # <<>> THEN rtl_context ELSE Fallback
    /\ pc' = "propose"
    /\ UNCHANGED <<editable, base, edited, measured, sources, scanned>>

\* Somebody edits the RTL while the request is built.
EditWhileBuilding ==
    /\ pc \in {"hierarchy", "slices"}
    /\ sources' \in Trees \ {sources} /\ edited' = TRUE
    /\ UNCHANGED <<pc, editable, base, measured, scanned, rtl_context>>

Building == ScanHierarchy \/ CutSlice \/ BuildRequest \/ EditWhileBuilding

requestVars == <<editable, base, edited, measured, scanned, rtl_context>>

\* Files the model may edit, and the pairs of files complete connections join
ContextFiles == {s.file : s \in {x \in Range(rtl_context) : x.editable}}
----------------------------------------------------------------------------
\* The slice shows the first line of a piece of an attribute, as it was measured.
ShowsLine(s, piece) ==
    /\ s.file = piece.file /\ piece.first \in s.first .. s.last
    /\ s.text[piece.first - s.first + 1] = base[piece.file][piece.first]

\* The source of what the path is blamed on is shown: of an object that has the name
\* the report gives, else of one that has its last segment.
BlamedIsShown ==
    \A l \in DominantSource(path) :
       \E src \in Attributes(measured.modules,
                             IF l.exact THEN l.netlist_object ELSE <<Last(l.netlist_object)>>) :
          \E s \in Range(rtl_context) : ShowsLine(s, src[1])

(***************************************************************************)
(* request_builder.py:5-8: the model receives "the worst path, a window of *)
(* source around it".  Whatever modules compete for the few files that are *)
(* shown, and however their slices are cut, the line the path is blamed on *)
(* is among what is shown, if nobody edited the RTL since the baseline.    *)
(***************************************************************************)
TargetIsShown == pc = "propose" /\ ~edited => BlamedIsShown

(***************************************************************************)
(* sourcemap.py:85-94: the request says how much of the path is mapped.    *)
(* Source comes with it if and only if anything is, whatever the scan of   *)
(* the RTL makes of the files, and of edits since the baseline.            *)
(***************************************************************************)
MappedPathsComeWithSource ==
    pc = "propose" => (MappingStatus(path) = "unmapped" <=> rtl_context = <<>>)

(***************************************************************************)
(* request_builder.py:5-8 without the proviso: the lines cut are those the *)
(* path was mapped to.                                                     *)
(***************************************************************************)
TargetIsTheMeasured == pc = "propose" => BlamedIsShown

(***************************************************************************)
(* request_builder.py:5: "the model receives the worst path": no path that *)
(* is reported has less slack than the one the request is about.           *)
(***************************************************************************)
TheWorstIsShown ==
    pc = "propose" =>
      \A i \in DOMAIN measured.report : measured.report[i].slack >= measured.report[1].slack

(***************************************************************************)
(* yosys_json_src.py:56-58: a pin's last segment finds its cell.  A row of *)
(* the path whose cell has a source is linked to it.                       *)
(***************************************************************************)
CellsOnThePathAreLinked ==
    pc = "propose" /\ measured.report # <<>> =>
      \A i \in DOMAIN path.elements :
         LET name == Elements(measured.report[1].rows)[i].name
         IN  Attributes(measured.modules, <<name[1]>>) # {} => path.elements[i].link # {}

(***************************************************************************)
(* sourcemap.py:99: the dominant source is "the highest-confidence source  *)
(* link on the path".                                                      *)
(***************************************************************************)
HighestConfidenceWins ==
    pc = "propose" /\ (\E l \in path.startpoint_source \cup path.endpoint_source : l.exact) =>
      \A l \in DominantSource(path) : l.exact
============================================================================
