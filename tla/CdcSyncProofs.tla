--------------------------- MODULE CdcSyncProofs ---------------------------
(***************************************************************************)
(* The handshake implements the channel, for every set of words.           *)
(*                                                                         *)
(* The argument: as long as no reset broke a handshake, the control bits,  *)
(* in the order in which a request travels from req by way of req_sync and *)
(* ack to ack_sync, are a wave: while req is high, ones followed by        *)
(* zeros, and otherwise zeros followed by ones.  So a request the          *)
(* destination sees for the first time is one the source still asserts,    *)
(* with an acknowledgement not yet on its way, and its word stands still.  *)
(*                                                                         *)
(* The fixture drives the crossing: each of its steps is one of the        *)
(* crossing or is not seen there, and what it offers is waited for.        *)
(***************************************************************************)
EXTENDS Fixture, TLAPS

\* The registers that follow from the states, in whatever state the other side is
Settled ==
    /\ req <=> src_state = "S_ASSERT_REQ"
    /\ ack <=> dst_state = "D_ASSERT_ACK"

Rising ==
    /\ req_sync => req_meta
    /\ ack => req_sync
    /\ ack_meta => ack
    /\ ack_sync => ack_meta

Falling ==
    /\ req_meta => req_sync
    /\ req_sync => ack
    /\ ack => ack_meta
    /\ ack_meta => ack_sync

Wave ==
    clean =>
      /\ req => Rising
      /\ ~req => Falling
      /\ src_state = "S_IDLE" => ~ack_sync

CInv == TypeOK /\ Settled /\ Wave

\* The wave has not started.
LEMMA InitWave == Init => CInv
BY WordsAssumption DEF Init, CInv, TypeOK, Settled, Wave, Falling

\* Every edge of either clock moves the wave on, or leaves it.
LEMMA ClocksKeepWave ==
  ASSUME CInv, SrcClock \/ DstClock
  PROVE  CInv'
<1> USE DEF CInv, source, destination, ack_synchronizer, req_synchronizer
<1>1. TypeOK'
  <2>0. /\ Source \/ UNCHANGED source
        /\ Destination \/ UNCHANGED destination
        /\ SyncAck \/ UNCHANGED ack_synchronizer
        /\ SyncReq \/ UNCHANGED req_synchronizer
        /\ UNCHANGED clean
    BY DEF SrcClock, DstClock, SrcEdge, DstEdge, BothEdges
  <2>1. /\ src_state' \in {"S_IDLE", "S_ASSERT_REQ", "S_CLEAR_REQ"}
        /\ req' \in BOOLEAN /\ src_ready' \in BOOLEAN /\ data_reg' \in Words
    BY <2>0 DEF TypeOK, Source, Accept, Withdraw, Complete, SrcWait
  <2>2. /\ dst_state' \in {"D_IDLE", "D_ASSERT_ACK"}
        /\ ack' \in BOOLEAN /\ dst_valid' \in BOOLEAN /\ dst_data' \in Words
    BY <2>0 DEF TypeOK, Destination, Deliver, Release, DstWait
  <2>3. ack_meta' \in BOOLEAN /\ ack_sync' \in BOOLEAN
    BY <2>0, <2>2 DEF TypeOK, SyncAck
  <2>4. req_meta' \in BOOLEAN /\ req_sync' \in BOOLEAN
    BY <2>0, <2>1 DEF TypeOK, SyncReq
  <2> QED BY <2>0, <2>1, <2>2, <2>3, <2>4 DEF TypeOK
<1>2. Settled'
  BY DEF Settled, TypeOK, SrcClock, DstClock, SrcEdge, DstEdge, BothEdges, Source,
         Destination, Accept, Withdraw, Complete, SrcWait, Deliver, Release, DstWait
<1>3. Wave'
  BY DEF Wave, Rising, Falling, Settled, TypeOK, SrcClock, DstClock, SrcEdge, DstEdge,
         BothEdges, Source, Destination, Accept, Withdraw, Complete, SrcWait, Deliver,
         Release, DstWait, SyncAck, SyncReq, Requested, Acknowledged
<1> QED BY <1>1, <1>2, <1>3

\* A reset of one side leaves a wave if there was none on its way.
LEMMA ResetKeepsWave ==
  ASSUME CInv, Reset
  PROVE  CInv'
<1> USE WordsAssumption
        DEF CInv, TypeOK, Settled, Wave, Rising, Falling, AtRest, ResetSrc, ResetDst,
            src, dst, source, destination, ack_synchronizer, req_synchronizer
<1>1. CASE ResetSrc /\ ResetDst /\ clean' = TRUE
  BY <1>1
<1>2. CASE ResetSrc /\ UNCHANGED dst /\ clean' = (clean /\ AtRest)
  BY <1>2
<1>3. CASE ResetDst /\ UNCHANGED src /\ clean' = (clean /\ AtRest)
  BY <1>3
<1> QED BY <1>1, <1>2, <1>3 DEF Reset

\* Every step keeps the invariant.
LEMMA StepKeepsWave == CInv /\ [Next]_vars => CInv'
<1> SUFFICES ASSUME CInv, [Next]_vars PROVE CInv'
  OBVIOUS
<1>1. CASE SrcClock \/ DstClock BY <1>1, ClocksKeepWave
<1>2. CASE Reset BY <1>2, ResetKeepsWave
<1>3. CASE UNCHANGED vars
  BY <1>3 DEF CInv, TypeOK, Settled, Wave, Rising, Falling, vars, src, dst, source,
              destination, ack_synchronizer, req_synchronizer
<1> QED BY <1>1, <1>2, <1>3 DEF Next

\* Type correctness of both sides and their synchronizers.
THEOREM CdcSyncTypes == Spec => []TypeOK
<1>1. CInv => TypeOK
  BY DEF CInv
<1> QED BY InitWave, StepKeepsWave, <1>1, PTL DEF Spec

\* What a step of the handshake is to the channel
ChannelStep == Promised!Next \/ UNCHANGED Promised!vars

\* Once a handshake was broken, the channel rests until both sides are reset.
LEMMA BrokenRests ==
  ASSUME ~clean, ~clean'
  PROVE  ChannelStep
BY DEF ChannelStep, Promised!vars, Transit

\* A step of the source alone accepts a word, or is not seen.
LEMMA SourceStep ==
  ASSUME CInv, clean, SrcEdge, UNCHANGED clean
  PROVE  ChannelStep
<1> USE DEF SrcEdge, destination, ChannelStep
<1>1. CASE \E w \in Words : Accept(w)
  <2> PICK w \in Words : Accept(w)
    BY <1>1
  <2>1. dst_state = "D_IDLE"
    BY DEF Accept, CInv, Wave, Settled, Falling, TypeOK
  <2>2. Promised!Accept(w)
    BY <2>1 DEF Accept, Promised!Accept, Transit
  <2> QED BY <2>2 DEF Promised!Next
<1>2. CASE Withdraw
  BY <1>2 DEF Withdraw, CInv, Wave, Settled, Rising, TypeOK, Promised!vars, Transit
<1>3. CASE Complete \/ SrcWait
  BY <1>3 DEF Complete, SrcWait, source, Promised!vars, Transit
<1> QED BY <1>1, <1>2, <1>3 DEF Source

\* The destination's edges, with the source's or without
LEMMA DestinationStep ==
  ASSUME CInv, clean, DstEdge \/ BothEdges, UNCHANGED clean
  PROVE  ChannelStep
<1> USE DEF ChannelStep
<1>0. Destination /\ (Source \/ UNCHANGED source)
  BY DEF DstEdge, BothEdges
<1>1. CASE Deliver
  <2>1. req /\ ~ack_sync /\ src_state = "S_ASSERT_REQ"
    BY <1>1 DEF Deliver, Requested, CInv, Wave, Settled, Rising, Falling, TypeOK
  <2>2. UNCHANGED source
    BY <1>0, <2>1 DEF Source, Accept, Withdraw, Complete, SrcWait, source
  <2>3. dst_data' = data_reg
    BY <1>1, <2>2 DEF Deliver, source
  <2>4. Transit = data_reg /\ data_reg # Nothing /\ Transit' = Nothing
    BY <1>1, <2>1, WordsAssumption DEF Deliver, Transit, CInv, TypeOK
  <2>5. Promised!Deliver
    BY <1>1, <2>3, <2>4 DEF Promised!Deliver, Deliver
  <2> QED BY <2>5 DEF Promised!Next
<1>2. CASE Release \/ DstWait
  <2>1. ~dst_valid' /\ dst_data' = dst_data
    BY <1>2 DEF Release, DstWait
  <2>2. CASE \E w \in Words : Accept(w)
    <3> PICK w \in Words : Accept(w)
      BY <2>2
    <3>1. dst_state = "D_IDLE" /\ ~req_sync
      BY DEF Accept, CInv, Wave, Settled, Falling, TypeOK
    <3>2. dst_state' = "D_IDLE"
      BY <1>2, <3>1 DEF Release, DstWait
    <3>3. Promised!Accept(w)
      BY <2>1, <3>2 DEF Accept, Promised!Accept, Transit
    <3> QED BY <3>3 DEF Promised!Next
  <2>3. CASE Withdraw \/ Complete \/ SrcWait \/ UNCHANGED source
    <3>1. Transit' = Transit
      BY <1>2, <2>3 DEF Withdraw, Complete, SrcWait, source, Release, DstWait, Requested,
                        Transit, CInv, Wave, Settled, Rising, Falling, TypeOK
    <3> QED BY <2>1, <3>1 DEF Promised!Next, Promised!Rest
  <2> QED BY <1>0, <2>2, <2>3 DEF Source
<1> QED BY <1>0, <1>1, <1>2 DEF Destination

\* A reset of both sides clears the channel, one of a busy side breaks it.
LEMMA ResetStep ==
  ASSUME CInv, Reset
  PROVE  ChannelStep
<1> USE DEF ChannelStep
<1>1. CASE ResetSrc /\ ResetDst /\ clean' = TRUE
  BY <1>1 DEF ResetSrc, ResetDst, Transit, Promised!Next, Promised!Clear
<1>2. CASE ~clean'
  BY <1>2 DEF Transit, Promised!Next, Promised!Break
<1>3. CASE ResetSrc /\ UNCHANGED dst /\ clean' = (clean /\ AtRest) /\ clean'
  BY <1>3 DEF ResetSrc, AtRest, CInv, Settled, TypeOK, Transit, Promised!vars,
              dst, destination, req_synchronizer
<1>4. CASE ResetDst /\ UNCHANGED src /\ clean' = (clean /\ AtRest) /\ clean'
  BY <1>4 DEF ResetDst, AtRest, CInv, Settled, TypeOK, Transit, Promised!Next,
              Promised!Clear, src, source, ack_synchronizer
<1> QED BY <1>1, <1>2, <1>3, <1>4 DEF Reset

\* Every step of the handshake is one of the channel, or is not seen.
LEMMA EveryStepIsTheChannels == CInv /\ [Next]_vars => [Promised!Next]_Promised!vars
<1> SUFFICES ASSUME CInv, [Next]_vars PROVE ChannelStep
  BY DEF ChannelStep
<1>1. CASE SrcClock \/ DstClock
  <2>1. clean \in BOOLEAN
    BY DEF CInv, TypeOK
  <2> QED BY <1>1, <2>1, BrokenRests, SourceStep, DestinationStep DEF SrcClock, DstClock
<1>2. CASE Reset BY <1>2, ResetStep
<1>3. CASE UNCHANGED vars
  BY <1>3 DEF vars, src, dst, source, destination, ChannelStep, Promised!vars, Transit
<1> QED BY <1>1, <1>2, <1>3 DEF Next

\* Whatever the two clocks and the resets, each word is delivered once and
\* unchanged before the next is accepted, or is lost to a reset that breaks the
\* channel (cdc_sync.v:8-13).
THEOREM HandshakeRefines == Spec => ImplementsChannel
<1>1. Init => Promised!Init
  BY DEF Init, Promised!Init, Transit
<1> QED BY <1>1, InitWave, StepKeepsWave, EveryStepIsTheChannels, PTL
        DEF Spec, ImplementsChannel, Promised!Spec
----------------------------------------------------------------------------
\* A step of the fixture is one of the crossing, or leaves it alone.
LEMMA FixtureStep == [FixtureNext]_top => [Next]_vars
<1> SUFFICES ASSUME FixtureNext \/ UNCHANGED top PROVE Next \/ UNCHANGED vars
  OBVIOUS
<1>1. ASSUME NEW S, Edge(S) PROVE Next \/ UNCHANGED vars
  BY <1>1 DEF Edge, Next, SrcClock, DstClock
<1>2. CASE SetPins \/ UNCHANGED top
  BY <1>2 DEF SetPins, top
<1>3. CASE ResetDomains
  BY <1>3 DEF ResetDomains, Reset, Next
<1> QED BY <1>1, <1>2, <1>3 DEF FixtureNext

\* The fixture drives the crossing as CdcSync says an environment may, so it
\* has the channel's promise on divided clocks too (nebula_top.v:72-82).
THEOREM FixtureDrivesTheCrossing == FixtureSpec => ImplementsChannel
<1>1. FixtureInit => Init
  BY DEF FixtureInit
<1>2. FixtureSpec => Spec
  BY <1>1, FixtureStep, PTL DEF FixtureSpec, Spec
<1> QED BY <1>2, HandshakeRefines

\* OffersAreTaken is inductive once src_ready is known to tell the state.
Waits ==
    /\ src_ready <=> src_state = "S_IDLE"
    /\ OffersAreTaken

LEMMA EdgesKeepWaits ==
  ASSUME Patient, CInv, Waits, NEW S, Edge(S)
  PROVE  Waits'
<1> USE DEF Waits, OffersAreTaken
<1>1. CASE "a" \notin Risen
  <2>1. UNCHANGED source /\ UNCHANGED acc
    BY <1>1 DEF Edge, DstEdge, vars, src, Domains
  <2> QED BY <2>1 DEF source
<1>2. CASE "a" \in Risen
  <2>1. Source /\ Shown /\ Datapath
    BY <1>2 DEF Edge, SrcEdge, BothEdges
  <2>2. src_ready' <=> src_state' = "S_IDLE"
    BY <2>1 DEF Source, Accept, Withdraw, Complete, SrcWait, source, CInv, TypeOK
  <2>3. ASSUME acc' # Nothing PROVE src_state' = "S_IDLE"
    <3>1. src_state = "S_IDLE" /\ acc = Nothing
      BY <2>1, <2>3 DEF Datapath, MayOffer
    <3>2. ~req'
      BY <2>1, <3>1 DEF Shown
    <3> QED BY <2>1, <3>1, <3>2 DEF Source, Accept, Withdraw, Complete, SrcWait, source
  <2> QED BY <2>2, <2>3
<1> QED BY <1>1, <1>2

LEMMA StepKeepsWaits == Patient /\ CInv /\ Waits /\ [FixtureNext]_top => Waits'
<1> SUFFICES ASSUME Patient, CInv, Waits, FixtureNext \/ UNCHANGED top PROVE Waits'
  OBVIOUS
<1>1. CASE SetPins \/ UNCHANGED top
  BY <1>1 DEF SetPins, top, vars, src, source, Waits, OffersAreTaken
<1>2. CASE ResetDomains
  BY <1>2 DEF ResetDomains, ResetSrc, ResetDst, src, source, Waits, OffersAreTaken
<1> QED BY <1>1, <1>2, EdgesKeepWaits DEF FixtureNext

\* One who drives in_valid only while src_ready is high, and never twice in a
\* row, offers no word the crossing does not take (nebula_top.v:72-75).
THEOREM PatientOffersAreTaken == Patient /\ FixtureSpec => []OffersAreTaken
<1>1. FixtureInit => Waits
  BY DEF FixtureInit, Init, Waits, OffersAreTaken
<1>2. FixtureSpec => []CInv
  BY InitWave, StepKeepsWave, FixtureStep, PTL DEF FixtureSpec, FixtureInit
<1>3. Waits => OffersAreTaken
  BY DEF Waits
<1>4. CASE Patient
  BY <1>1, <1>2, <1>3, <1>4, StepKeepsWaits, PTL DEF FixtureSpec
<1> QED BY <1>4
============================================================================
