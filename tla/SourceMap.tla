----------------------------- MODULE SourceMap -----------------------------
(***************************************************************************)
(* How a timing path is blamed on lines of the RTL: the index of the       *)
(* netlist (src/orchestrator/parsers/yosys_json_src.py), the blocks of the *)
(* timing report (parsers/opensta_timing.py) and sourcemap.py.             *)
(*                                                                         *)
(* The name of a netlist object is the sequence of what its slashes        *)
(* separate, so a pin is <<cell, pin>>.  A src attribute is a sequence of  *)
(* [file, first, last], the pieces Yosys joins, and empty if there is      *)
(* none.  A module of the netlist has its cells and netnames, each with    *)
(* its attribute.  A block of the report has a slack, the objects named as *)
(* startpoint and endpoint, and rows: how many figures stand before a      *)
(* name, the name and its delay, and whether the text speaks of arrival or *)
(* of what is required.                                                    *)
(***************************************************************************)
EXTENDS Hierarchy

CONSTANTS
  Base,       \* the base name of each declared file
  InRtlDir    \* the file that has a base name in design.rtl_dir

\* A SourceSpan forgets the directory; of joined pieces the first counts.
ParseSrc(src) == [file |-> Base[src[1].file], first |-> src[1].first, last |-> src[1].last]

\* The objects that have a source
Sourced(objects) == {n \in DOMAIN objects : objects[n] # <<>>}

\* build_source_index: a cell replaces what has its name, a net only fills a gap
SourceIndex(modules) ==
    LET AddModule(spans, m) ==
          [n \in Sourced(m.cells) \cup DOMAIN spans \cup Sourced(m.netnames) |->
             IF n \in Sourced(m.cells) THEN ParseSrc(m.cells[n])
             ELSE IF n \in DOMAIN spans THEN spans[n] ELSE ParseSrc(m.netnames[n])]
    IN  FoldLeft(AddModule, <<>>, modules)

\* lookup: the name as it is, else its last segment
Found(spans, object) ==
    IF object \in DOMAIN spans THEN {object} ELSE {<<Last(object)>>} \cap DOMAIN spans

\* _link, at most one: exact is the method src_attribute, else it is name_heuristic
Link(spans, object) ==
    {[file |-> InRtlDir[spans[n].file], first |-> spans[n].first, last |-> spans[n].last,
      netlist_object |-> object, exact |-> n = object] : n \in Found(spans, object)}

\* The elements of _parse_path_block: pins, and labels such as "clock a (rise edge)",
\* whose first word is taken for a pin
Elements(rows) ==
    LET AddPin(elements, r) ==
          IF r.figures = 2 /\ ~r.arrival THEN Append(elements, r) ELSE elements
    IN  FoldLeft(AddPin, <<>>, rows)

\* map_path
MapPath(spans, block) ==
    LET elements == Elements(block.rows)
        LinkAll(objects) == UNION {Link(spans, o) : o \in objects}
    IN  [elements |-> [i \in DOMAIN elements |->
                         [link |-> Link(spans, elements[i].name), delay |-> elements[i].delay]],
         startpoint_source |-> LinkAll(block.startpoint),
         endpoint_source |-> LinkAll(block.endpoint)]

MappedElements(path) == {i \in DOMAIN path.elements : path.elements[i].link # {}}

MappingStatus(path) ==
    LET mapped == MappedElements(path)
        ends == path.startpoint_source \cup path.endpoint_source
    IN  IF mapped = {} THEN IF ends = {} THEN "unmapped" ELSE "endpoints_only"
        ELSE IF mapped = DOMAIN path.elements THEN "fully_mapped" ELSE "partial"

\* An exact link before one by name, then the larger delay
Outranks(a, b) ==
    LET exact(e) == \E l \in e.link : l.exact
    IN  IF exact(a) = exact(b) THEN a.delay > b.delay ELSE exact(a)

\* dominant_source: the first best element, else the endpoint, else the startpoint
DominantSource(path) ==
    LET linked == MappedElements(path)
        best == {i \in linked : \A j \in linked : ~Outranks(path.elements[j], path.elements[i])}
    IN  IF linked # {} THEN path.elements[Min(best)].link
        ELSE IF path.endpoint_source # {} THEN path.endpoint_source
        ELSE path.startpoint_source

\* What the netlist itself says of an object: the attribute of the cells that have the
\* name, of the netnames if no cell with a source does
Attributes(modules, object) ==
    LET Of(objects) == {objects[n] : n \in {object} \cap Sourced(objects)}
        cells == UNION {Of(m.cells) : m \in Range(modules)}
    IN  IF cells # {} THEN cells ELSE UNION {Of(m.netnames) : m \in Range(modules)}
----------------------------------------------------------------------------
\* What the netlist and the report hold: pieces of the files it was made of; of each
\* block at most one object where the path starts, and one where it ends
Pieces(tree) == {p \in [file : Files, first : Nat, last : Nat] : p.first \in DOMAIN tree[p.file]}

IsNetlist(modules, tree) ==
    /\ modules \in Seq(Range(modules))
    /\ \A m \in Range(modules) : \A objects \in {m.cells, m.netnames} :
          \A n \in Sourced(objects) : objects[n] \in Seq(Pieces(tree))

IsReport(report) ==
    /\ report \in Seq(Range(report))
    /\ \A block \in Range(report) :
          /\ block.rows \in Seq(Range(block.rows))
          /\ \A row \in Range(block.rows) : row.delay \in Int
          /\ \A ends \in {block.startpoint, block.endpoint} : \A o, p \in ends : o = p
============================================================================
