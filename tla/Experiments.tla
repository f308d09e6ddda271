---------------------------- MODULE Experiments ----------------------------
(***************************************************************************)
(* The files experiments share: one project root has one                   *)
(* experiments/history.json (src/orchestrator/history.py), one candidates/ *)
(* tree for all runs, and a runs/ tree with a directory per second and     *)
(* command (src/orchestrator/workspace.py).  A process is one `optimize`   *)
(* command; it may be killed at any point.                                 *)
(*                                                                         *)
(* What is written matters only by who wrote it, and how many attempts     *)
(* there were.                                                             *)
(***************************************************************************)
EXTENDS Naturals, FiniteSets

CONSTANTS
  Processes,      \* the commands that are started
  Patches,        \* normalised hashes of their patches
  MaxIterations,  \* attempts of each
  Seconds,        \* bound on the clock
  Overlap,        \* TRUE when a command may start while another runs
  Kills           \* TRUE when a process may be killed

ASSUME BoundsAssumption == MaxIterations \in Nat \ {0} /\ Seconds \in Nat \ {0}

VARIABLES
  clock,      \* what run_stamp() returns
  pc,         \* control of each process
  run,        \* the second its run directory is named after
  attempts,   \* attempts its in-memory history has
  stopped,    \* its history has a stop_reason
  candidate,  \* the candidate it works on
  history,    \* history.json: who wrote it, with how many attempts, if whole
  trees,      \* who wrote each candidate's RTL last
  tested,     \* per process, whose trees its tools have read
  recorded    \* history variable: attempts that once were on the disk

vars ==
  <<clock, pc, run, attempts, stopped, candidate, history, trees, tested, recorded>>

Nobody == "nobody"
Places == {"idle", "truncate", "write", "next", "build", "test", "over", "killed"}

\* next_candidate_id: the index of the attempt and the hash of its patch
Candidates == (1 .. MaxIterations) \X Patches

\* A file that was opened for writing, or that does not exist
Empty == [by |-> Nobody, attempts |-> 0, whole |-> FALSE]

Init ==
    /\ clock = 1
    /\ pc = [p \in Processes |-> "idle"]
    /\ run = [p \in Processes |-> 0]
    /\ attempts = [p \in Processes |-> 0]
    /\ stopped = [p \in Processes |-> FALSE]
    /\ candidate = [p \in Processes |-> Nobody]
    /\ history = Empty
    /\ trees = [c \in Candidates |-> Nobody]
    /\ tested = [p \in Processes |-> {}]
    /\ recorded = {}

Running(p) == pc[p] \notin {"idle", "over", "killed"}
Go(p, place) == pc' = [pc EXCEPT ![p] = place]
----------------------------------------------------------------------------
\* Workspace.create: an existing directory of this second is taken over.
Begin(p) ==
    /\ pc[p] = "idle"
    /\ Overlap \/ \A q \in Processes : ~Running(q)
    /\ run' = [run EXCEPT ![p] = clock]
    /\ Go(p, "truncate")
    /\ UNCHANGED <<clock, attempts, stopped, candidate, history, trees, tested, recorded>>

\* Mutant of Opened: the file is opened for appending
OpenedToAppend(file) == file

\* open(path, "w")
Opened(file) == Empty

\* flush begins, from create, append or stop
Truncate(p) ==
    /\ pc[p] = "truncate"
    /\ history' = Opened(history)
    /\ Go(p, "write")
    /\ UNCHANGED <<clock, run, attempts, stopped, candidate, trees, tested, recorded>>

\* The whole history is written, from the beginning of the file.  If another
\* process has written since, what it wrote may show beyond the end.
Write(p) ==
    /\ pc[p] = "write"
    /\ \E whole \in {TRUE, history = Empty} :
         history' = [by |-> p, attempts |-> attempts[p], whole |-> whole]
    /\ recorded' = recorded \cup {<<p, i>> : i \in 1 .. attempts[p]}
    /\ Go(p, IF stopped[p] THEN "over" ELSE "next")
    /\ UNCHANGED <<clock, run, attempts, stopped, candidate, trees, tested>>

\* An attempt that ends before there is a candidate is appended as well.
Decline(p) ==
    /\ pc[p] = "next" /\ attempts[p] < MaxIterations
    /\ attempts' = [attempts EXCEPT ![p] = @ + 1]
    /\ Go(p, "truncate")
    /\ UNCHANGED <<clock, run, stopped, candidate, history, trees, tested, recorded>>

Propose(p) ==
    /\ pc[p] = "next" /\ attempts[p] < MaxIterations
    /\ \E h \in Patches :
         candidate' = [candidate EXCEPT ![p] = <<attempts[p] + 1, h>>]
    /\ Go(p, "build")
    /\ UNCHANGED <<clock, run, attempts, stopped, history, trees, tested, recorded>>

\* Mutant of Rebuilt: a tree that is there is taken as it is
RebuiltIfMissing(owner, p) == IF owner = Nobody THEN p ELSE owner

\* apply_patch copies and overwrites, whatever the directory has.
Rebuilt(owner, p) == p

Build(p) ==
    /\ pc[p] = "build"
    /\ trees' = [trees EXCEPT ![candidate[p]] = Rebuilt(@, p)]
    /\ Go(p, "test")
    /\ UNCHANGED <<clock, run, attempts, stopped, candidate, history, tested, recorded>>

\* The tools read the candidate's files, then the attempt is appended.
Test(p) ==
    /\ pc[p] = "test"
    /\ tested' = [tested EXCEPT ![p] = @ \cup {trees[candidate[p]]}]
    /\ attempts' = [attempts EXCEPT ![p] = @ + 1]
    /\ Go(p, "truncate")
    /\ UNCHANGED <<clock, run, stopped, candidate, history, trees, recorded>>

\* The budget is used up: stop_reason is recorded.
Finish(p) ==
    /\ pc[p] = "next" /\ attempts[p] = MaxIterations
    /\ stopped' = [stopped EXCEPT ![p] = TRUE]
    /\ Go(p, "truncate")
    /\ UNCHANGED <<clock, run, attempts, candidate, history, trees, tested, recorded>>

Kill(p) ==
    /\ Kills /\ Running(p)
    /\ Go(p, "killed")
    /\ UNCHANGED <<clock, run, attempts, stopped, candidate, history, trees, tested, recorded>>

Tick ==
    /\ clock < Seconds
    /\ clock' = clock + 1
    /\ UNCHANGED <<pc, run, attempts, stopped, candidate, history, trees, tested, recorded>>

Next ==
    \/ \E p \in Processes :
         Begin(p) \/ Truncate(p) \/ Write(p) \/ Decline(p) \/ Propose(p) \/ Build(p)
           \/ Test(p) \/ Finish(p) \/ Kill(p)
    \/ Tick

Spec == Init /\ [][Next]_vars
----------------------------------------------------------------------------
TypeOK ==
    /\ clock \in 1 .. Seconds
    /\ pc \in [Processes -> Places]
    /\ run \in [Processes -> 0 .. Seconds]
    /\ attempts \in [Processes -> 0 .. MaxIterations]
    /\ stopped \in [Processes -> BOOLEAN]
    /\ candidate \in [Processes -> Candidates \cup {Nobody}]
    /\ history \in [by : Processes \cup {Nobody}, attempts : 0 .. MaxIterations,
                    whole : BOOLEAN]
    /\ trees \in [Candidates -> Processes \cup {Nobody}]
    /\ tested \in [Processes -> SUBSET (Processes \cup {Nobody})]
    /\ recorded \subseteq Processes \X (1 .. MaxIterations)

(***************************************************************************)
(* Between two flushes the file is whole and is the running experiment's   *)
(* history, even if earlier experiments were killed while writing it       *)
(* (history.py:49-62, 74-96).                                              *)
(***************************************************************************)
FileIsTheHistory ==
    \A p \in Processes :
       pc[p] \in {"next", "build", "test"} =>
         history = [by |-> p, attempts |-> attempts[p], whole |-> TRUE]

(***************************************************************************)
(* workspace.py:87: "Isolated source tree for a candidate": the tools of a *)
(* process read the trees this process has built, not what an earlier or a *)
(* concurrent one left in candidates/.                                     *)
(***************************************************************************)
TestsItsOwnTrees == \A p \in Processes : tested[p] \subseteq {p}

(***************************************************************************)
(* workspace.py:3: "One Workspace owns one runs/<run_id>/ tree".           *)
(***************************************************************************)
RunDirectoriesAreOwned ==
    \A p, q \in Processes : p # q /\ run[p] # 0 => run[p] # run[q]

(***************************************************************************)
(* README.md:97: "append-only ledger; keeps every attempt": while nobody   *)
(* is writing it, history.json has every attempt it ever had.              *)
(***************************************************************************)
LedgerKeepsEveryAttempt ==
    (\A p \in Processes : pc[p] # "write") =>
      \A r \in recorded :
         history.whole /\ history.by = r[1] /\ r[2] <= history.attempts

============================================================================
