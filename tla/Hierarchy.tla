----------------------------- MODULE Hierarchy -----------------------------
(***************************************************************************)
(* The light scan of the RTL, src/orchestrator/rtl_hierarchy.py: which     *)
(* modules the declared files hold, between which lines, and where one     *)
(* instantiates another.                                                   *)
(*                                                                         *)
(* A file is a sequence of lines.  What the regular expressions find in    *)
(* the text of a line is the constant Meaning: that it opens a module,     *)
(* with its ports, ends one, instantiates one, or nothing of the kind.     *)
(***************************************************************************)
EXTENDS SequencesExt

CONSTANTS
  FileList,   \* design.file_list
  Meaning     \* of each text: [kind, name, named, ports]

Files == Range(FileList)

ASSUME FileListAssumption == FileList \in Seq(Files)

Says(line) == Meaning[line.text]

\* _module_spans: a module runs from its header to the next endmodule; one that
\* is not ended is not a module.
ModuleSpans(file, lines) ==
    LET Scan(seen, i) ==
          LET says == Says(lines[i])
          IN  IF says.kind = "module" /\ seen.open = 0 THEN [seen EXCEPT !.open = i]
              ELSE IF says.kind = "endmodule" /\ seen.open # 0
              THEN LET head == Says(lines[seen.open])
                   IN  [open |-> 0,
                        spans |-> Append(seen.spans,
                                    [name |-> head.name, ports |-> head.ports, file |-> file,
                                     first |-> seen.open, last |-> i])]
              ELSE seen
    IN  FoldLeftDomain(Scan, [open |-> 0, spans |-> <<>>], lines).spans

\* The modules of a tree of files, in the order of file_list
Spans(tree) ==
    FlattenSeq([k \in DOMAIN FileList |-> ModuleSpans(FileList[k], tree[FileList[k]])])

\* What `modules` holds under a name: the last one scanned
IsKnown(spans, k) == \A l \in DOMAIN spans : spans[l].name = spans[k].name => l <= k

\* Its names, each where it came first
Names(spans) ==
    LET AddName(names, span) ==
          IF Contains(names, span.name) THEN names ELSE Append(names, span.name)
    IN  FoldLeft(AddName, <<>>, spans)

\* modules[name]
ModuleNamed(spans, name) ==
    LET k == CHOOSE l \in DOMAIN spans : spans[l].name = name /\ IsKnown(spans, l)
    IN  spans[k]

\* One ModuleConnection.  Positional ports, and ports of the child that are left
\* out, make it incomplete.
Connection(parent, child, line, says) ==
    [parent_module |-> parent.name, parent_file |-> parent.file,
     child_module |-> child.name, child_file |-> child.file, line |-> line,
     complete |-> says.named /\ child.ports \subseteq says.ports /\ says.ports # {}]

\* _find_instances of one child in one parent, from the top of its body
InstancesOf(parent, child, lines) ==
    LET AddInstance(found, i) ==
          LET says == Says(lines[i])
          IN  IF i \in parent.first + 1 .. parent.last
                   /\ says.kind = "instance" /\ says.name = child.name
              THEN Append(found, Connection(parent, child, i, says)) ELSE found
    IN  FoldLeftDomain(AddInstance, <<>>, lines)

\* hierarchy.connections: parent by parent, child by child
Connections(spans, tree) ==
    LET children == Names(spans)
        Below(parent) ==
          FlattenSeq([c \in DOMAIN children |->
             IF children[c] = parent.name THEN <<>>
             ELSE InstancesOf(parent, ModuleNamed(spans, children[c]), tree[parent.file])])
    IN  FlattenSeq([k \in DOMAIN spans |-> Below(spans[k])])

\* module_at: the module around the line, or the only one of the file; at most one
ModuleAt(spans, file, line) ==
    LET here == {spans[k] : k \in {l \in DOMAIN spans :
                                     IsKnown(spans, l) /\ spans[l].file = file}}
        around == {m \in here : line \in m.first .. m.last}
    IN  IF around # {} THEN around
        ELSE IF Cardinality(here) = 1 THEN here ELSE {}
============================================================================
