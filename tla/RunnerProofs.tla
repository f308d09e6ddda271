---------------------------- MODULE RunnerProofs ----------------------------
(***************************************************************************)
(* What run_command leaves behind, for any number of children.             *)
(*                                                                         *)
(* The argument: the tool is gone once communicate() has returned, by the  *)
(* definition of communicate(); so its exit code is final.  If a tool      *)
(* waits for its children, then at every moment either the tool is alive,  *)
(* and a signal to its group reaches all, or nobody is.  So the read that  *)
(* has no timeout finds the pipes closed.                                  *)
(***************************************************************************)
EXTENDS Runner, Integers, TLAPS

Over == pc \in {"logs", "outputs", "returned"}

\* After communicate() the tool has exited; a PASS has its reasons.
Reaped ==
    /\ Over => Tool \notin alive
    /\ pc = "which" => started = {}
    /\ pc \in {"communicate", "poll", "killpg", "drain", "logs"} => Tool \in started
    /\ status = "PASS" => Over /\ pc # "logs" /\ code = "zero" /\ ~timed_out
    /\ pc = "returned" /\ status = "PASS" => produced

\* If no child outlives the tool, then nobody does.
Orphanless ==
    /\ alive # {} => Tool \in alive
    /\ pc = "drain" => alive = {}

RInv == TypeOK /\ Reaped

\* Every step of Next, by name, for the case splits below
LEMMA Steps ==
  ASSUME Next
  PROVE  \/ NotFound \/ Popen \/ Communicated \/ Expire \/ Poll \/ KillPg \/ Drained
         \/ WriteLogs \/ CheckOutputs
         \/ \E c \in Children : Fork(c) \/ ChildExits(c)
         \/ \E p \in Procs : ClosePipe(p) \/ Produce(p)
         \/ \E exit \in {"zero", "nonzero", "signal"} : ToolExits(exit)
BY DEF Next, Python, World

\* The types and the exit code hold on every step, with or without orphans.
LEMMA RunnerInvariance == Spec => []RInv
<1>1. Init => RInv
  BY DEF Init, RInv, TypeOK, Reaped, Over, Places
<1>2. RInv /\ [Next]_vars => RInv'
  <2> SUFFICES ASSUME RInv, [Next]_vars PROVE RInv'
    OBVIOUS
  <2> USE DEF processes, Over
  <2>0. TypeOK /\ Reaped
    BY DEF RInv
  <2>1. CASE NotFound
    BY <2>0, <2>1 DEF NotFound, RInv, TypeOK, Reaped, Places
  <2>2. CASE Popen
    BY <2>0, <2>2 DEF Popen, RInv, TypeOK, Reaped, Places, Procs
  <2>3. CASE Communicated \/ Drained
    BY <2>0, <2>3 DEF Communicated, Drained, AllRead, RInv, TypeOK, Reaped, Places
  <2>4. CASE Expire \/ Poll
    BY <2>0, <2>4 DEF Expire, Poll, RInv, TypeOK, Reaped, Places
  <2>5. CASE KillPg
    BY <2>0, <2>5 DEF KillPg, Killed, RInv, TypeOK, Reaped, Places
  <2>6. CASE WriteLogs
    BY <2>0, <2>6 DEF WriteLogs, StatusOf, RInv, TypeOK, Reaped, Places
  <2>7. CASE CheckOutputs
    BY <2>0, <2>7 DEF CheckOutputs, RInv, TypeOK, Reaped, Places
  <2>8. ASSUME NEW c \in Children, Fork(c) PROVE RInv'
    BY <2>0, <2>8, ToolAssumption DEF Fork, RInv, TypeOK, Reaped, Procs
  <2>9. ASSUME NEW c \in Children, ChildExits(c) PROVE RInv'
    BY <2>0, <2>9, ToolAssumption DEF ChildExits, RInv, TypeOK, Reaped
  <2>10. ASSUME NEW p \in Procs, ClosePipe(p) \/ Produce(p) PROVE RInv'
    <3>1. CASE ClosePipe(p)
      BY <2>0, <3>1 DEF ClosePipe, RInv, TypeOK, Reaped
    <3>2. CASE Produce(p)
      BY <2>0, <3>2 DEF Produce, RInv, TypeOK, Reaped
    <3> QED
      BY <2>10, <3>1, <3>2
  <2>11. ASSUME NEW exit \in {"zero", "nonzero", "signal"}, ToolExits(exit) PROVE RInv'
    BY <2>0, <2>11 DEF ToolExits, RInv, TypeOK, Reaped
  <2>12. CASE UNCHANGED vars
    BY <2>0, <2>12 DEF vars, RInv, TypeOK, Reaped
  <2> QED
    BY <2>1, <2>2, <2>3, <2>4, <2>5, <2>6, <2>7, <2>8, <2>9, <2>10, <2>11, <2>12, Steps
<1> QED
  BY <1>1, <1>2, PTL DEF Spec

\* Type correctness of an invocation.
THEOREM RunnerTypes == Spec => []TypeOK
<1>1. RInv => TypeOK
  BY DEF RInv
<1> QED
  BY <1>1, RunnerInvariance, PTL

\* A PASS is the tool's own, even if children outlive it (runner.py:160-165).
THEOREM PassesAreEarned == Spec => []PassIsEarned
<1>1. RInv => PassIsEarned
  BY DEF RInv, Reaped, PassIsEarned
<1> QED
  BY <1>1, RunnerInvariance, PTL

\* If every tool waits for its children, Orphanless holds throughout.
LEMMA OrphanlessHolds == ASSUME ~Outlive PROVE Spec => []Orphanless
<1>1. Init => Orphanless
  BY DEF Init, Orphanless
<1>2. RInv /\ Orphanless /\ [Next]_vars => Orphanless'
  <2> SUFFICES ASSUME RInv, Orphanless, [Next]_vars PROVE Orphanless'
    OBVIOUS
  <2> USE DEF processes, Over, Orphanless, RInv, Reaped, TypeOK
  <2>1. CASE NotFound \/ Popen \/ Communicated \/ Expire \/ Drained \/ WriteLogs
              \/ CheckOutputs
    BY <2>1 DEF NotFound, Popen, Communicated, Expire, Drained, WriteLogs, CheckOutputs
  <2>2. CASE Poll
    BY <2>2 DEF Poll
  <2>3. CASE KillPg
    BY <2>3 DEF KillPg, Killed
  <2>4. ASSUME NEW c \in Children, Fork(c) \/ ChildExits(c) PROVE Orphanless'
    BY <2>4, ToolAssumption DEF Fork, ChildExits
  <2>5. ASSUME NEW p \in Procs, ClosePipe(p) \/ Produce(p) PROVE Orphanless'
    BY <2>5 DEF ClosePipe, Produce
  <2>6. ASSUME NEW exit \in {"zero", "nonzero", "signal"}, ToolExits(exit)
        PROVE  Orphanless'
    BY <2>6 DEF ToolExits
  <2>7. CASE UNCHANGED vars
    BY <2>7 DEF vars
  <2> QED
    BY <2>1, <2>2, <2>3, <2>4, <2>5, <2>6, <2>7, Steps
<1> QED
  BY <1>1, <1>2, RunnerInvariance, PTL DEF Spec

\* If every tool waits for its children, the invocation leaves no process
\* behind, timed out or not (runner.py:50-71).
THEOREM NoProcessIsLeft == ASSUME ~Outlive PROVE Spec => []NobodyLeft
<1>1. RInv /\ Orphanless => NobodyLeft
  BY DEF RInv, Reaped, Orphanless, Over, NobodyLeft
<1> QED
  BY <1>1, OrphanlessHolds, RunnerInvariance, PTL
----------------------------------------------------------------------------
(***************************************************************************)
(* What EveryRunIsBounded, which is liveness and stays with TLC, rests on: *)
(* control only goes forward, and the one wait without a timeout is over   *)
(* when it begins.                                                         *)
(***************************************************************************)

\* The steps of run_command, the longest way
StepsLeft ==
    CASE pc = "which" -> 7
      [] pc = "communicate" -> 6
      [] pc = "poll" -> 5
      [] pc = "killpg" -> 4
      [] pc = "drain" -> 3
      [] pc = "logs" -> 2
      [] pc = "outputs" -> 1
      [] OTHER -> 0

\* A step of run_command lowers their number; the processes do not change it.
ComesCloser ==
    [][/\ Python => StepsLeft' < StepsLeft
       /\ World => StepsLeft' = StepsLeft]_vars

\* Nothing is left to read, or to wait for, after the kill.
DrainIsOver == pc = "drain" => AllRead

\* An invocation comes back with its logs.
LogsAreWritten == pc \in {"outputs", "returned"} => logs

\* run_command takes at most seven steps, whatever its processes do.
LEMMA RunnerComesCloser == Spec => ComesCloser
<1>1. [Next]_vars => [/\ Python => StepsLeft' < StepsLeft
                      /\ World => StepsLeft' = StepsLeft]_vars
  <2>1. Python => StepsLeft' < StepsLeft
    BY DEF Python, NotFound, Popen, Communicated, Expire, Poll, KillPg, Drained,
           WriteLogs, CheckOutputs, StepsLeft
  <2>2. World => StepsLeft' = StepsLeft
    BY DEF World, Fork, ChildExits, ClosePipe, Produce, ToolExits, StepsLeft
  <2> QED
    BY <2>1, <2>2
<1> QED
  BY <1>1, PTL DEF Spec, ComesCloser

\* If every tool waits for its children, an invocation never hangs: only the
\* second communicate() has no timeout, it finds the pipes closed and the tool
\* gone, and each step brings the return closer, the logs written before it
\* (runner.py:9-15, 145-165).
THEOREM InvocationsNeverHang ==
  ASSUME ~Outlive PROVE Spec => [](DrainIsOver /\ LogsAreWritten) /\ ComesCloser
<1>1. RInv /\ Orphanless => DrainIsOver
  BY DEF RInv, TypeOK, Orphanless, DrainIsOver, AllRead
<1>2. Init => LogsAreWritten
  BY DEF Init, LogsAreWritten
<1>3. LogsAreWritten /\ [Next]_vars => LogsAreWritten'
  BY DEF LogsAreWritten, Next, Python, World, NotFound, Popen, Communicated, Expire,
         Poll, KillPg, Drained, WriteLogs, CheckOutputs, Fork, ChildExits, ClosePipe,
         Produce, ToolExits, vars
<1> QED
  BY <1>1, <1>2, <1>3, OrphanlessHolds, RunnerInvariance, RunnerComesCloser, PTL
     DEF Spec

============================================================================
