------------------------------ MODULE AsmWalk ------------------------------
(***************************************************************************)
(* What the state machine promises the rest of the program, as a           *)
(* specification of its own: an iteration is a walk along the edges of the *)
(* table, and nothing enters the physical stage on an equivalence result   *)
(* other than "pass" (statemachine.assert_no_unproven_acceptance).         *)
(* Pipeline implements this specification, although it also assigns        *)
(* machine.state directly.                                                 *)
(***************************************************************************)
EXTENDS Asm

VARIABLES
  state,   \* the box the machine occupies
  proven   \* the candidate of the current iteration has an EQY result of PASS

walkVars == <<state, proven>>

\* The loop starts its machine at BUILD_REQUEST.
Init == state = "BUILD_REQUEST" /\ proven = FALSE

\* One edge.  Leaving EQY settles the proof; a new request forgets it.
Take(e) ==
    /\ state = e.source
    /\ state' = e.target
    /\ proven' = CASE e.source = "EQY" -> (e.outcome = "pass")
                   [] e.target = "BUILD_REQUEST" -> FALSE
                   [] OTHER -> proven

Next == \E e \in Transitions : Take(e)

Spec == Init /\ [][Next]_walkVars

(***************************************************************************)
(* The physical run and the comparison behind it are reached only with a   *)
(* proof of equivalence in hand (assert_no_unproven_acceptance, and the    *)
(* remark there that ORFS is the only route to COMPARE).                   *)
(***************************************************************************)
PhysicalIsProven == state \in {"ORFS", "COMPARE"} => proven

============================================================================
