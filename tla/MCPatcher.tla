------------------------------ MODULE MCPatcher ------------------------------
(***************************************************************************)
(* A small instance of Patcher.  The top instantiates core with all its    *)
(* ports by name and util by position; a protected file of the crossing    *)
(* has no module the scan would see.  The body of core has up to three     *)
(* lines over two texts and may be edited; hunks have up to two old lines, *)
(* some with other white space than the file.                              *)
(***************************************************************************)
EXTENDS Patcher

Line(t, f) == [text |-> t, form |-> f]
A == Line("a", "tab")
B == Line("b", "tab")
DriftedA == Line("a", "spaces")
Increment == Line("++i", "none")

McFileList == <<"top", "core", "util", "cdc">>
McBase == [top |-> "top.v", core |-> "core.v", util |-> "util.v", cdc |-> "cdc.v"]
CollidingBase == [McBase EXCEPT !.cdc = "util.v"]

McInRtlDir == [b \in Range(McBase) |-> CHOOSE f \in DOMAIN McBase : McBase[f] = b]

\* The file of the crossing is kept in another directory.
PartlyInRtlDir == [McInRtlDir EXCEPT !["cdc.v"] = "nowhere"]

Other(kind) == [kind |-> kind, name |-> "", named |-> FALSE, ports |-> {}]
McMeaning ==
    [a |-> Other("statement"), b |-> Other("statement"), end |-> Other("endmodule"),
     top |-> [kind |-> "module", name |-> "top", named |-> FALSE, ports |-> {}],
     core |-> [kind |-> "module", name |-> "core", named |-> FALSE, ports |-> {"d", "q"}],
     util |-> [kind |-> "module", name |-> "util", named |-> FALSE, ports |-> {"d"}],
     u_core |-> [kind |-> "instance", name |-> "core", named |-> TRUE, ports |-> {"d", "q"}],
     u_util |-> [kind |-> "instance", name |-> "util", named |-> FALSE, ports |-> {}]]

Written(texts) == [k \in DOMAIN texts |-> Line(texts[k], "tab")]

McTree(body) ==
    [f \in Range(McFileList) |->
       CASE f = "top" -> Written(<<"top", "u_core", "u_util", "a", "end">>)
         [] f = "core" -> Written(<<"core">>) \o body \o Written(<<"end">>)
         [] f = "util" -> Written(<<"util", "a", "end">>)
         [] f = "cdc" -> <<A>>]

McTrees == {McTree(c) : c \in {<<A>>, <<A, A>>, <<B, A, B>>, <<A, B, A>>}}

Piece(file, first, last) == [file |-> file, first |-> first, last |-> last]
Src(object, src) == object :> src

\* Registers keep their src, a gate has none, a cell of the top has one of two pieces;
\* a net has the name of a register.  The wires are some the RTL may have.
McNetlist(t, wires) ==
    LET body == Len(t["core"]) - 1
    IN  <<[cells |-> Src(<<"r_core">>, <<Piece("core", body, body)>>)
                       @@ Src(<<"r_util">>, <<Piece("util", 2, 2)>>)
                       @@ Src(<<"r_cdc">>, <<Piece("cdc", 1, 1)>>)
                       @@ Src(<<"c_top">>, <<Piece("top", 2, 4), Piece("util", 2, 2)>>)
                       @@ Src(<<"g">>, <<>>),
           netnames |-> wires @@ Src(<<"r_core">>, <<Piece("core", 1, 1)>>)]>>

Unwired == <<>>
WireQ == Src(<<"Q">>, <<Piece("util", 2, 2)>>)
PortY == Src(<<"y">>, <<Piece("top", 4, 4)>>)

Block(slack, start, end, rows) ==
    [slack |-> slack, startpoint |-> start, endpoint |-> end, rows |-> rows]
Row(name, delay) == [figures |-> 2, name |-> name, delay |-> delay, arrival |-> FALSE]
Arrival == [figures |-> 1, name |-> <<"data">>, delay |-> 0, arrival |-> TRUE]

ClockEdge == Row(<<"clock">>, 5)
Gate == Row(<<"g", "ZN">>, 3)
Through ==
    <<ClockEdge, Row(<<"r_util", "Q">>, 2), Gate, Row(<<"r_core", "D">>, 0), Arrival, ClockEdge>>

\* Paths between registers of two modules, where a wire is named like a pin and where
\* not; to a port of the top; from a port, to nothing that is mapped; of the crossing;
\* of two groups; and no path at all
McBaselines ==
    [t \in McTrees |->
       LET Of(wires, report) == [modules |-> McNetlist(t, wires), report |-> report]
           util == {<<"r_util">>}
           core == {<<"r_core">>}
       IN  {Of(Unwired, <<Block(-1, util, core, Through)>>),
            Of(WireQ, <<Block(-1, util, core, Through)>>),
            Of(WireQ @@ PortY, <<Block(-1, core, {<<"y">>},
                                       <<Row(<<"r_util", "Q">>, 2), Gate, Row(<<"y">>, 1)>>)>>),
            Of(PortY, <<Block(-1, util, {<<"c_top">>}, <<Row(<<"y">>, 1)>>)>>),
            Of(Unwired, <<Block(-1, {<<"c_top">>}, {<<"x">>}, <<Gate>>),
                          Block(-2, util, core, <<>>)>>),
            Of(Unwired, <<Block(-1, {}, {<<"r_cdc">>}, Through)>>),
            Of(Unwired, <<Block(-1, {<<"a">>}, {<<"x">>}, <<ClockEdge>>)>>),
            Of(Unwired, <<>>)}]

Context(line) == [sign |-> " ", line |-> line]
Minus(line) == [sign |-> "-", line |-> line]
Plus(line) == [sign |-> "+", line |-> line]

Hunk(file, prefix, lines) == [file |-> file, prefix |-> prefix, lines |-> lines]
Change(file, prefix) == Hunk(file, prefix, <<Context(A), Plus(A)>>)

\* Hunks of core: lines replaced, added, removed, or kept as context
McEdits ==
    {<<>>, <<Plus(B)>>,
     <<Minus(A)>>, <<Minus(A), Plus(B)>>, <<Context(A), Plus(B)>>, <<Minus(A), Plus(B), Plus(B)>>,
     <<Minus(DriftedA)>>, <<Minus(DriftedA), Plus(B)>>, <<Minus(DriftedA), Plus(A)>>,
     <<Context(DriftedA), Plus(B)>>, <<Minus(A), Plus(DriftedA)>>,
     <<Context(A), Minus(B)>>, <<Context(A), Minus(B), Plus(A)>>, <<Minus(A), Context(B)>>,
     <<Minus(A), Plus(B), Context(B)>>, <<Minus(A), Minus(B), Plus(B), Plus(A)>>,
     <<Minus(DriftedA), Minus(B), Plus(B), Plus(B)>>, <<Context(DriftedA), Minus(B)>>,
     <<Context(DriftedA), Context(A)>>, <<Context(DriftedA), Context(A), Plus(B)>>,
     <<Minus(DriftedA), Context(A)>>,
     <<Minus(DriftedA), Minus(A), Plus(A), Plus(B)>>,
     <<Context(A), Plus(Increment), Plus(B)>>}

McLikeHeader == {Plus(Increment)}

McHunks ==
    {Hunk("core", "b", lines) : lines \in McEdits}
      \cup {Change(f, "b") : f \in {"top", "util", "cdc"}}
      \cup {Change(f, "a") : f \in {"util", "cdc"}}

\* What TargetsAreShown asks of the RTL
ASSUME ScanAssumption == TargetsAreScanned
=============================================================================
