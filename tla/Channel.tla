------------------------------ MODULE Channel ------------------------------
(***************************************************************************)
(* What a clock domain crossing promises: a channel of one place.  A word  *)
(* that was accepted is delivered once and unchanged, before the next one  *)
(* is accepted.  A reset of one side with a word or an acknowledgement on  *)
(* its way breaks the channel until both sides are reset.                  *)
(***************************************************************************)
CONSTANTS
  Words,
  Zero,       \* the word the output has after a reset
  Nothing     \* no word, and not in Words

VARIABLES
  broken,
  place,      \* the word in transit, or Nothing
  delivered,  \* the word delivered last
  valid       \* it has just been delivered

vars == <<broken, place, delivered, valid>>

Init == ~broken /\ place = Nothing /\ delivered = Zero /\ ~valid

Accept(w) ==
    /\ ~broken /\ place = Nothing
    /\ place' = w /\ valid' \in {valid, FALSE}
    /\ UNCHANGED <<broken, delivered>>

Deliver ==
    /\ place # Nothing
    /\ delivered' = place /\ valid' /\ place' = Nothing
    /\ UNCHANGED broken

Rest == ~valid' /\ UNCHANGED <<broken, place, delivered>>

Clear ==
    /\ broken' \in {broken, FALSE}
    /\ place' = Nothing /\ delivered' = Zero /\ ~valid'

Break == broken' /\ place' = Nothing /\ delivered' = Zero /\ ~valid'

Next == (\E w \in Words : Accept(w)) \/ Deliver \/ Rest \/ Clear \/ Break

Spec == Init /\ [][Next]_vars

============================================================================
