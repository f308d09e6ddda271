------------------------------ MODULE Fixture ------------------------------
(***************************************************************************)
(* The design the orchestrator is tested on, src/rtl/nebula_top.v: two     *)
(* master clocks, a divider for each (clk_div.v), the datapath (dsp_core.v,*)
(* whose sums are free choices) and the crossing, CdcSync.                 *)
(*                                                                         *)
(* A step is an edge of one master clock or of both at once, a reset, or a *)
(* change of the configuration pins.  A divider's rising edge is an edge   *)
(* of its domain in the same step.                                         *)
(***************************************************************************)
EXTENDS CdcSync, Naturals

CONSTANTS
  MaxRatio,   \* 2^RW - 1
  Ratios,     \* the values each of ratio_a and ratio_b is given
  Patient     \* in_valid only with src_ready, and not twice in a row

Domains == {"a", "b"}

ASSUME RatioAssumption ==
    MaxRatio \in Nat \ {0} /\ Ratios \in [Domains -> SUBSET (0 .. MaxRatio)]

VARIABLES
  enable,     \* div_enable
  ratio,      \* ratio_a and ratio_b
  div,        \* the registers of u_div_a and u_div_b
  acc         \* acc_out if acc_valid, Nothing otherwise

pins == <<enable, ratio>>
top == <<vars, pins, div, acc>>

Dividers == [ratio_reg : 1 .. MaxRatio, cnt : 0 .. MaxRatio, clk_out : BOOLEAN]

DividerReset == [ratio_reg |-> 1, cnt |-> 0, clk_out |-> FALSE]

FixtureInit ==
    /\ Init
    /\ enable \in BOOLEAN /\ ratio \in [Domains -> 0 .. MaxRatio]
    /\ \A d \in Domains : ratio[d] \in Ratios[d]
    /\ div = [d \in Domains |-> DividerReset]
    /\ acc = Nothing
----------------------------------------------------------------------------
\* clk_div at an edge of clk_in

Expired(r) == r.cnt >= r.ratio_reg - 1

\* Mutant of Loaded: the last count, so that Expired need not subtract
LoadedLastCount(new) == IF new = 0 THEN 0 ELSE new - 1

Loaded(new) == IF new = 0 THEN 1 ELSE new

Divide(r, new) ==
    IF ~enable THEN [r EXCEPT !.cnt = 0, !.clk_out = FALSE]
    ELSE IF r.ratio_reg # new THEN [r EXCEPT !.ratio_reg = Loaded(new), !.cnt = 0]
    ELSE IF Expired(r) THEN [r EXCEPT !.cnt = 0, !.clk_out = ~@]
    ELSE [r EXCEPT !.cnt = @ + 1]
----------------------------------------------------------------------------
\* What the datapath shows the crossing at an edge of clk_a_div
Shown ==
    src_state = "S_IDLE" =>
      IF acc = Nothing THEN ~req' ELSE req' /\ data_reg' = acc

\* What drives in_valid
MayOffer == Patient => src_ready /\ acc = Nothing

\* dsp_core: what comes in at this edge is seen at the next
Datapath == acc' = Nothing \/ (MayOffer /\ acc' \in Words)

Risen == {d \in Domains : ~div[d].clk_out /\ div'[d].clk_out}

\* An edge of the master clocks of the domains in S
Edge(S) ==
    /\ div' = [d \in Domains |-> IF d \in S THEN Divide(div[d], ratio[d]) ELSE div[d]]
    /\ \/ Risen = {} /\ UNCHANGED vars
       \/ Risen = {"a"} /\ SrcEdge /\ UNCHANGED clean
       \/ Risen = {"b"} /\ DstEdge /\ UNCHANGED clean
       \/ Risen = Domains /\ BothEdges /\ UNCHANGED clean
    /\ IF "a" \in Risen THEN Shown /\ Datapath ELSE UNCHANGED acc
    /\ UNCHANGED pins

MasterEdge(d) == Edge({d}) \/ Edge(Domains)

SetPins ==
    /\ \/ enable' = ~enable /\ UNCHANGED ratio
       \/ \E d \in Domains : \E new \in Ratios[d] \ {ratio[d]} :
            ratio' = [ratio EXCEPT ![d] = new] /\ UNCHANGED enable
    /\ UNCHANGED <<vars, div, acc>>

\* rst_a_n and rst_b_n
ResetDomains ==
    /\ \/ ResetSrc /\ ResetDst /\ clean' = TRUE
          /\ div' = [d \in Domains |-> DividerReset] /\ acc' = Nothing
       \/ ResetSrc /\ UNCHANGED dst /\ clean' = (clean /\ AtRest)
          /\ div' = [div EXCEPT !["a"] = DividerReset] /\ acc' = Nothing
       \/ ResetDst /\ UNCHANGED src /\ clean' = (clean /\ AtRest)
          /\ div' = [div EXCEPT !["b"] = DividerReset] /\ UNCHANGED acc
    /\ UNCHANGED pins

FixtureNext == Edge({"a"}) \/ Edge({"b"}) \/ Edge(Domains) \/ SetPins \/ ResetDomains

FixtureSpec == FixtureInit /\ [][FixtureNext]_top

\* The master clocks run.
FairFixture == FixtureSpec /\ \A d \in Domains : WF_top(MasterEdge(d))
----------------------------------------------------------------------------
FixtureTypeOK ==
    /\ TypeOK
    /\ enable \in BOOLEAN /\ ratio \in [Domains -> 0 .. MaxRatio]
    /\ div \in [Domains -> Dividers]
    /\ acc \in Words \cup {Nothing}

\* From some time on nobody touches the pins, and the dividers are enabled,
Enabled == <>[]enable /\ <>[][~SetPins]_pins /\ <>[][~ResetDomains]_top

\* with ratios clk_div.v:20 allows ("minimum 1").
Running == Enabled /\ <>[](\A d \in Domains : ratio[d] # 0)

ClockRuns(d) == []<>div[d].clk_out /\ []<>~div[d].clk_out

(***************************************************************************)
(* The dividers of a running fixture do not stop, whatever ratios were     *)
(* loaded, in mid-count, before (clk_div.v:27-44).                         *)
(***************************************************************************)
ClocksRun == Running => \A d \in Domains : ClockRuns(d)

(***************************************************************************)
(* The crossing lives on divided clocks as it does on clocks that are just *)
(* assumed to run: an accepted word is delivered, or dropped by a reset    *)
(* (nebula_top.v:40-82).                                                   *)
(***************************************************************************)
RunningFixtureDelivers == Running => WordsGetThrough

(***************************************************************************)
(* No history of resets, pauses and ratios leaves the two domains of a     *)
(* running fixture waiting for each other.                                 *)
(***************************************************************************)
RunningFixtureRecovers == Running => []<>src_ready

(***************************************************************************)
(* The crossing ignores a word that comes while a handshake runs, and the  *)
(* datapath does not look at src_ready (nebula_top.v:72-75).  One who      *)
(* drives in_valid only while src_ready is high, and never twice in a row, *)
(* loses none, whatever the clocks and resets do.                          *)
(***************************************************************************)
OffersAreTaken == acc # Nothing => src_state = "S_IDLE"

(***************************************************************************)
(* clk_div.v:36 loads a ratio of zero as one, the shortest half-period: no *)
(* ratio stops a clock.                                                    *)
(***************************************************************************)
AnyRatioRuns == Enabled => \A d \in Domains : ClockRuns(d)

============================================================================
