------------------------------ MODULE CdcSync ------------------------------
(***************************************************************************)
(* The four-phase handshake between two clock domains of the design the    *)
(* orchestrator is tested on (src/rtl/cdc_sync.v), which the patcher       *)
(* protects.                                                               *)
(*                                                                         *)
(* A step is an edge of one clock or of both at once, or a reset.  At an   *)
(* edge every register of the domain takes what its inputs were before.  A *)
(* bit that crosses the domains while it changes is taken old or new, and  *)
(* a bus that changes while it is taken gives any word.                    *)
(***************************************************************************)
CONSTANTS
  Words,      \* values of src_data
  Zero,       \* {DW{1'b0}}
  Nothing     \* no word

ASSUME WordsAssumption == Zero \in Words /\ Nothing \notin Words

VARIABLES
  src_state, req, src_ready, data_reg, ack_meta, ack_sync,
  dst_state, ack, dst_valid, dst_data, req_meta, req_sync,
  clean       \* history variable: no side was reset alone while the other was busy

source == <<src_state, req, src_ready, data_reg>>
ack_synchronizer == <<ack_meta, ack_sync>>
destination == <<dst_state, ack, dst_valid, dst_data>>
req_synchronizer == <<req_meta, req_sync>>
src == <<source, ack_synchronizer>>
dst == <<destination, req_synchronizer>>
vars == <<src, dst, clean>>

Init ==
    /\ src_state = "S_IDLE" /\ req = FALSE /\ src_ready = TRUE /\ data_reg = Zero
    /\ ack_meta = FALSE /\ ack_sync = FALSE
    /\ dst_state = "D_IDLE" /\ ack = FALSE /\ dst_valid = FALSE /\ dst_data = Zero
    /\ req_meta = FALSE /\ req_sync = FALSE
    /\ clean = TRUE
----------------------------------------------------------------------------
\* The source's state machine, at an edge of src_clk

\* Mutant of Accept: src_ready stays high
AcceptReady(w) ==
    /\ src_state = "S_IDLE"
    /\ data_reg' = w /\ req' = TRUE /\ src_ready' = TRUE /\ src_state' = "S_ASSERT_REQ"

\* src_valid is high
Accept(w) ==
    /\ src_state = "S_IDLE"
    /\ data_reg' = w /\ req' = TRUE /\ src_ready' = FALSE /\ src_state' = "S_ASSERT_REQ"

Withdraw ==
    /\ src_state = "S_ASSERT_REQ" /\ ack_sync
    /\ req' = FALSE /\ src_state' = "S_CLEAR_REQ"
    /\ UNCHANGED <<src_ready, data_reg>>

\* Mutant of Acknowledged: the source does not wait for ack to fall
AcknowledgedAtOnce(acknowledge) == TRUE

\* ack has fallen again
Acknowledged(acknowledge) == ~acknowledge

Complete ==
    /\ src_state = "S_CLEAR_REQ" /\ Acknowledged(ack_sync)
    /\ src_ready' = TRUE /\ src_state' = "S_IDLE"
    /\ UNCHANGED <<req, data_reg>>

SrcWait ==
    /\ \/ src_state = "S_IDLE"
       \/ src_state = "S_ASSERT_REQ" /\ ~ack_sync
       \/ src_state = "S_CLEAR_REQ" /\ ~Acknowledged(ack_sync)
    /\ UNCHANGED source

Source == (\E w \in Words : Accept(w)) \/ Withdraw \/ Complete \/ SrcWait
----------------------------------------------------------------------------
\* The destination's state machine, at an edge of dst_clk

\* Mutant of Requested: the destination looks for an edge of req
RequestedByEdge(meta, sync) == meta /\ ~sync

\* The destination looks at the second flop.
Requested(meta, sync) == sync

Deliver ==
    /\ dst_state = "D_IDLE" /\ Requested(req_meta, req_sync)
    /\ dst_data' \in IF data_reg' = data_reg THEN {data_reg} ELSE Words
    /\ dst_valid' = TRUE /\ ack' = TRUE /\ dst_state' = "D_ASSERT_ACK"

Release ==
    /\ dst_state = "D_ASSERT_ACK" /\ ~Requested(req_meta, req_sync)
    /\ ack' = FALSE /\ dst_state' = "D_IDLE" /\ dst_valid' = FALSE
    /\ UNCHANGED dst_data

DstWait ==
    /\ (dst_state = "D_ASSERT_ACK") <=> Requested(req_meta, req_sync)
    /\ dst_valid' = FALSE
    /\ UNCHANGED <<dst_state, ack, dst_data>>

Destination == Deliver \/ Release \/ DstWait
----------------------------------------------------------------------------
\* The two-flop synchronizers
SyncAck == ack_meta' \in {ack, ack'} /\ ack_sync' = ack_meta
SyncReq == req_meta' \in {req, req'} /\ req_sync' = req_meta

SrcEdge == Source /\ UNCHANGED destination /\ SyncAck /\ UNCHANGED req_synchronizer
DstEdge == UNCHANGED source /\ Destination /\ SyncReq /\ UNCHANGED ack_synchronizer
BothEdges == Source /\ Destination /\ SyncAck /\ SyncReq

SrcClock == (SrcEdge \/ BothEdges) /\ UNCHANGED clean
DstClock == (DstEdge \/ BothEdges) /\ UNCHANGED clean

\* What the other side's reset leaves as it was after its own
AtRest == ~req /\ ~req_meta /\ ~req_sync /\ ~ack /\ ~ack_meta /\ ~ack_sync

ResetSrc ==
    /\ src_state' = "S_IDLE" /\ req' = FALSE /\ src_ready' = TRUE /\ data_reg' = Zero
    /\ ack_meta' = FALSE /\ ack_sync' = FALSE

ResetDst ==
    /\ dst_state' = "D_IDLE" /\ ack' = FALSE /\ dst_valid' = FALSE /\ dst_data' = Zero
    /\ req_meta' = FALSE /\ req_sync' = FALSE

\* src_rst_n and dst_rst_n are asynchronous and independent.
Reset ==
    \/ ResetSrc /\ ResetDst /\ clean' = TRUE
    \/ ResetSrc /\ UNCHANGED dst /\ clean' = (clean /\ AtRest)
    \/ ResetDst /\ UNCHANGED src /\ clean' = (clean /\ AtRest)

Next == SrcClock \/ DstClock \/ Reset

Spec == Init /\ [][Next]_vars
----------------------------------------------------------------------------
TypeOK ==
    /\ src_state \in {"S_IDLE", "S_ASSERT_REQ", "S_CLEAR_REQ"}
    /\ dst_state \in {"D_IDLE", "D_ASSERT_ACK"}
    /\ req \in BOOLEAN /\ src_ready \in BOOLEAN /\ ack_meta \in BOOLEAN /\ ack_sync \in BOOLEAN
    /\ ack \in BOOLEAN /\ dst_valid \in BOOLEAN /\ req_meta \in BOOLEAN /\ req_sync \in BOOLEAN
    /\ data_reg \in Words /\ dst_data \in Words /\ clean \in BOOLEAN

\* The word in transit: accepted, and not yet taken
Transit ==
    IF clean /\ src_state = "S_ASSERT_REQ" /\ dst_state = "D_IDLE" THEN data_reg ELSE Nothing

Promised ==
    INSTANCE Channel WITH
      broken <- ~clean,
      place <- Transit,
      delivered <- IF clean THEN dst_data ELSE Zero,
      valid <- clean /\ dst_valid

(***************************************************************************)
(* The handshake implements the channel: whatever the two clocks, a word   *)
(* is delivered once, unchanged, before the next is accepted, although its *)
(* bus is not synchronised; and a side may be reset alone when the control *)
(* bits are low (cdc_sync.v:8-13).                                         *)
(***************************************************************************)
ImplementsChannel == Promised!Spec

(***************************************************************************)
(* An accepted word is delivered, or dropped by a reset, if both clocks    *)
(* run (cdc_sync.v:73-131).                                                *)
(***************************************************************************)
WordsGetThrough == Transit # Nothing ~> Transit = Nothing

============================================================================
