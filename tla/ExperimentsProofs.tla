-------------------------- MODULE ExperimentsProofs --------------------------
(***************************************************************************)
(* Theorems about Experiments, for any number of commands that do not      *)
(* overlap, killed wherever they are killed.                               *)
(***************************************************************************)
EXTENDS Experiments, TLAPS

\* At most one process runs.
Alone == \A p, q \in Processes : Running(p) /\ Running(q) => p = q

Truncated == \A p \in Processes : pc[p] = "write" => history = Empty

WorksOnACandidate ==
    \A p \in Processes : pc[p] \in {"build", "test"} => candidate[p] \in Candidates

BuiltIt == \A p \in Processes : pc[p] = "test" => trees[candidate[p]] = p

\* The part of TypeOK the rest needs
Typed ==
    /\ pc \in [Processes -> Places]
    /\ attempts \in [Processes -> Nat]
    /\ DOMAIN candidate = Processes /\ DOMAIN tested = Processes
    /\ DOMAIN trees = Candidates /\ DOMAIN stopped = Processes

IInv ==
    /\ Typed /\ Alone /\ Truncated /\ WorksOnACandidate /\ BuiltIt
    /\ FileIsTheHistory /\ TestsItsOwnTrees

\* Nothing runs at the beginning.
LEMMA InitIInv == Init => IInv
  BY DEF Init, IInv, Typed, Alone, Truncated, WorksOnACandidate, BuiltIt,
         FileIsTheHistory, TestsItsOwnTrees, Running, Places

(***************************************************************************)
(* Each step keeps the invariant: the process that takes it is the only    *)
(* one that runs, or becomes so, and nobody else relies on the file or on  *)
(* the trees.                                                              *)
(***************************************************************************)
LEMMA NextIInv == ASSUME ~Overlap, IInv, [Next]_vars PROVE IInv'
<1> USE DEF IInv, Typed, Places, Running, Go
<1>1. ASSUME NEW p \in Processes, Begin(p) PROVE IInv'
  BY <1>1 DEF Begin, Alone, Truncated, WorksOnACandidate, BuiltIt, FileIsTheHistory,
              TestsItsOwnTrees
<1>2. ASSUME NEW p \in Processes, Truncate(p) PROVE IInv'
  BY <1>2 DEF Truncate, Opened, Alone, Truncated, WorksOnACandidate, BuiltIt,
              FileIsTheHistory, TestsItsOwnTrees
<1>3. ASSUME NEW p \in Processes, Write(p) PROVE IInv'
  BY <1>3 DEF Write, Alone, Truncated, WorksOnACandidate, BuiltIt, FileIsTheHistory,
              TestsItsOwnTrees
<1>4. ASSUME NEW p \in Processes, Decline(p) PROVE IInv'
  BY <1>4 DEF Decline, Alone, Truncated, WorksOnACandidate, BuiltIt, FileIsTheHistory,
              TestsItsOwnTrees
<1>5. ASSUME NEW p \in Processes, Propose(p) PROVE IInv'
  BY <1>5, BoundsAssumption DEF Propose, Candidates, Alone, Truncated, WorksOnACandidate,
              BuiltIt, FileIsTheHistory, TestsItsOwnTrees
<1>6. ASSUME NEW p \in Processes, Build(p) PROVE IInv'
  BY <1>6 DEF Build, Rebuilt, Alone, Truncated, WorksOnACandidate, BuiltIt,
              FileIsTheHistory, TestsItsOwnTrees
<1>7. ASSUME NEW p \in Processes, Test(p) PROVE IInv'
  BY <1>7 DEF Test, Alone, Truncated, WorksOnACandidate, BuiltIt, FileIsTheHistory,
              TestsItsOwnTrees
<1>8. ASSUME NEW p \in Processes, Finish(p) PROVE IInv'
  BY <1>8 DEF Finish, Alone, Truncated, WorksOnACandidate, BuiltIt, FileIsTheHistory,
              TestsItsOwnTrees
<1>9. ASSUME NEW p \in Processes, Kill(p) PROVE IInv'
  BY <1>9 DEF Kill, Alone, Truncated, WorksOnACandidate, BuiltIt, FileIsTheHistory,
              TestsItsOwnTrees
<1>10. CASE Tick \/ UNCHANGED vars
  BY <1>10 DEF Tick, vars, Alone, Truncated, WorksOnACandidate, BuiltIt,
               FileIsTheHistory, TestsItsOwnTrees
<1> QED
  BY <1>1, <1>2, <1>3, <1>4, <1>5, <1>6, <1>7, <1>8, <1>9, <1>10 DEF Next

(***************************************************************************)
(* Experiments run one after the other leave a whole history.json between  *)
(* two flushes, whichever were killed while writing it.                    *)
(***************************************************************************)
THEOREM TheFileIsTheHistory == ASSUME ~Overlap PROVE Spec => []FileIsTheHistory
<1>1. Init => IInv
  BY InitIInv
<1>2. IInv /\ [Next]_vars => IInv'
  BY NextIInv
<1>3. IInv => FileIsTheHistory
  BY DEF IInv
<1> QED
  BY <1>1, <1>2, <1>3, PTL DEF Spec

(***************************************************************************)
(* Nor do their tools read a tree another experiment left in candidates/.  *)
(***************************************************************************)
THEOREM TreesAreTheirOwn == ASSUME ~Overlap PROVE Spec => []TestsItsOwnTrees
<1>1. Init => IInv
  BY InitIInv
<1>2. IInv /\ [Next]_vars => IInv'
  BY NextIInv
<1>3. IInv => TestsItsOwnTrees
  BY DEF IInv
<1> QED
  BY <1>1, <1>2, <1>3, PTL DEF Spec

=============================================================================
