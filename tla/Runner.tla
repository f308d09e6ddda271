------------------------------- MODULE Runner -------------------------------
(***************************************************************************)
(* One tool invocation (src/orchestrator/runner.py, run_command and        *)
(* _kill_tree; src/orchestrator/adapters/base.py, RealBackend.execute).    *)
(*                                                                         *)
(* The tool starts children (Yosys, ABC, OpenROAD); tool and children are  *)
(* one POSIX session and inherit the pipes communicate() reads until all   *)
(* their write ends are closed.  A process may hang, exit, be killed from  *)
(* outside, or close its pipes and go on.                                  *)
(***************************************************************************)
CONSTANTS
  Tool,       \* the process Popen starts
  Children,   \* the processes it may start
  Outlive     \* TRUE when a child may be alive after the tool has exited

ASSUME ToolAssumption == Tool \notin Children

VARIABLES
  pc,         \* control of execute
  started,    \* processes that were started
  alive,      \* those that have not exited
  pipe,       \* those that hold the write ends of stdout and stderr
  code,       \* exit code of the tool
  produced,   \* the expected outputs are there and not empty
  timed_out,
  status,     \* ProcessResult.status
  logs        \* both logs are on disk

processes == <<started, alive, pipe, code, produced>>
vars == <<pc, processes, timed_out, status, logs>>

Procs == {Tool} \cup Children

Places == {"which", "communicate", "poll", "killpg", "drain", "logs", "outputs",
           "returned"}

Init ==
    /\ pc = "which"
    /\ started = {} /\ alive = {} /\ pipe = {} /\ code = "none" /\ produced = FALSE
    /\ timed_out = FALSE /\ status = "none" /\ logs = FALSE
----------------------------------------------------------------------------
\* run_command

\* shutil.which finds nothing: logs are written all the same.
NotFound ==
    /\ pc = "which"
    /\ logs' = TRUE /\ status' = "ERROR" /\ pc' = "outputs"
    /\ UNCHANGED <<processes, timed_out>>

Popen ==
    /\ pc = "which"
    /\ started' = {Tool} /\ alive' = {Tool} /\ pipe' = {Tool}
    /\ pc' = "communicate"
    /\ UNCHANGED <<code, produced, timed_out, status, logs>>

\* communicate() returns: end of file on both pipes, and the tool reaped
AllRead == pipe = {} /\ Tool \notin alive

Communicated ==
    /\ pc = "communicate" /\ AllRead
    /\ pc' = "logs"
    /\ UNCHANGED <<processes, timed_out, status, logs>>

\* TimeoutExpired
Expire ==
    /\ pc = "communicate"
    /\ timed_out' = TRUE /\ pc' = "poll"
    /\ UNCHANGED <<processes, status, logs>>

\* _kill_tree does nothing if the tool itself has exited.
Poll ==
    /\ pc = "poll"
    /\ pc' = IF Tool \in alive THEN "killpg" ELSE "drain"
    /\ UNCHANGED <<processes, timed_out, status, logs>>

\* Mutant of Killed: kill() instead of killpg()
KilledTool(procs) == {Tool}

\* The processes a signal to the tool's group reaches
Killed(procs) == procs

\* The tool may have exited since; its group is still there, as is its number,
\* because nobody has reaped it.
KillPg ==
    /\ pc = "killpg"
    /\ alive' = alive \ Killed(alive) /\ pipe' = pipe \ Killed(alive)
    /\ code' = IF Tool \in alive THEN "signal" ELSE code
    /\ pc' = "drain"
    /\ UNCHANGED <<started, produced, timed_out, status, logs>>

\* The second communicate() has no timeout.
Drained ==
    /\ pc = "drain" /\ AllRead
    /\ pc' = "logs"
    /\ UNCHANGED <<processes, timed_out, status, logs>>

\* Mutant of StatusOf: the exit code alone decides
StatusOfCode(late, exit) == IF exit = "zero" THEN "PASS" ELSE "FAIL"

\* TIMEOUT whatever the exit code, which may still be zero
StatusOf(late, exit) ==
    IF late THEN "TIMEOUT" ELSE IF exit = "zero" THEN "PASS" ELSE "FAIL"

WriteLogs ==
    /\ pc = "logs"
    /\ logs' = TRUE /\ status' = StatusOf(timed_out, code) /\ pc' = "outputs"
    /\ UNCHANGED <<processes, timed_out>>

\* RealBackend.execute: a PASS without the expected outputs is a FAIL.
CheckOutputs ==
    /\ pc = "outputs"
    /\ status' = IF status = "PASS" /\ ~produced THEN "FAIL" ELSE status
    /\ pc' = "returned"
    /\ UNCHANGED <<processes, timed_out, logs>>
----------------------------------------------------------------------------
\* The processes

\* The tool starts a child.
Fork(c) ==
    /\ Tool \in alive /\ c \notin started
    /\ started' = started \cup {c} /\ alive' = alive \cup {c}
    /\ pipe' = IF Tool \in pipe THEN pipe \cup {c} ELSE pipe
    /\ UNCHANGED <<pc, code, produced, timed_out, status, logs>>

\* It goes on without its pipes.
ClosePipe(p) ==
    /\ p \in pipe
    /\ pipe' = pipe \ {p}
    /\ UNCHANGED <<pc, started, alive, code, produced, timed_out, status, logs>>

Produce(p) ==
    /\ p \in alive /\ ~produced
    /\ produced' = TRUE
    /\ UNCHANGED <<pc, started, alive, pipe, code, timed_out, status, logs>>

ChildExits(c) ==
    /\ c \in alive
    /\ alive' = alive \ {c} /\ pipe' = pipe \ {c}
    /\ UNCHANGED <<pc, started, code, produced, timed_out, status, logs>>

\* By itself, or killed from outside
ToolExits(exit) ==
    /\ Tool \in alive /\ (Outlive \/ alive = {Tool})
    /\ alive' = alive \ {Tool} /\ pipe' = pipe \ {Tool}
    /\ code' = exit
    /\ UNCHANGED <<pc, started, produced, timed_out, status, logs>>

Python ==
    NotFound \/ Popen \/ Communicated \/ Expire \/ Poll \/ KillPg \/ Drained
      \/ WriteLogs \/ CheckOutputs

World ==
    \/ \E c \in Children : Fork(c) \/ ChildExits(c)
    \/ \E p \in Procs : ClosePipe(p) \/ Produce(p)
    \/ \E exit \in {"zero", "nonzero", "signal"} : ToolExits(exit)

Next == Python \/ World

Spec == Init /\ [][Next]_vars

\* Only this thread is scheduled fairly; a tool may hang for ever.
FairSpec == Spec /\ WF_vars(Python)
----------------------------------------------------------------------------
TypeOK ==
    /\ pc \in Places
    /\ alive \subseteq started /\ pipe \subseteq alive /\ started \subseteq Procs
    /\ code \in {"none", "zero", "nonzero", "signal"}
    /\ produced \in BOOLEAN /\ timed_out \in BOOLEAN /\ logs \in BOOLEAN
    /\ status \in {"none", "PASS", "FAIL", "TIMEOUT", "ERROR"}

(***************************************************************************)
(* When a tool has been run, for whatever outcome, none of its processes   *)
(* is alive: nobody writes any more to the artifacts that are parsed next  *)
(* (runner.py:9-11, 145-153).                                              *)
(***************************************************************************)
NobodyLeft == pc \in {"logs", "outputs", "returned"} => alive = {}

(***************************************************************************)
(* A PASS is the tool's own: it exited with zero before anybody decided to *)
(* kill it, and the outputs were there when it was returned                *)
(* (runner.py:160-165, adapters/base.py:72-79).                            *)
(***************************************************************************)
PassIsEarned ==
    pc = "returned" /\ status = "PASS" => code = "zero" /\ ~timed_out /\ produced

(***************************************************************************)
(* runner.py:9-15: "Every run is bounded" and "Output is always            *)
(* preserved": run_command returns with its logs written, even if the tool *)
(* and its children hang.                                                  *)
(***************************************************************************)
EveryRunIsBounded == <>(pc = "returned" /\ logs)

============================================================================
