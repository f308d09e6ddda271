---------------------------- MODULE Equivalence ----------------------------
(***************************************************************************)
(* From an EQY run to its verdict (src/orchestrator/parsers/eqy_status.py, *)
(* parse_equivalence).  EQY is external: it tries to prove the partitions  *)
(* of the design, then lists each in its log with the outcome, adds a line *)
(* for the whole, leaves a marker file and exits.  It may be killed by the *)
(* timeout at any point, and by anything else at those of CrashPlaces.     *)
(*                                                                         *)
(* A log is the set of the token classes the parser looks for in it, and   *)
(* "text" for all the rest; an empty or missing log is {}.                 *)
(***************************************************************************)
CONSTANTS
  Partitions,   \* what EQY cuts the design into
  CrashPlaces   \* where EQY may die

ASSUME PartitionsAssumption == Partitions # {}

Statuses == {"PASS", "FAIL", "UNKNOWN", "TIMEOUT", "ERROR"}
Tokens == {"text", "proved", "disproved", "unknown"}
Markers == {"PASS", "FAIL", "UNKNOWN"}

VARIABLES
  truth,     \* of each partition: equal, differs, or too hard to decide
  eqy,       \* what EQY is about to do
  listed,    \* partitions its log has
  log,       \* logfile.txt
  markers,   \* marker files in the work directory
  process,   \* ProcessResult.status of the run
  verdict    \* VerificationResult.status

work == <<truth, listed, log, markers>>
vars == <<work, eqy, process, verdict>>

Truths == {"equal", "differs", "hard"}

Init ==
    /\ truth \in [Partitions -> Truths]
    /\ eqy = "start" /\ listed = {} /\ log = {} /\ markers = {}
    /\ process = "none" /\ verdict = "none"
----------------------------------------------------------------------------
\* EQY

Running == process = "none"

\* -f leaves an empty work directory; the log begins.  While it proves, EQY
\* logs nothing the parser looks for.
Start ==
    /\ Running /\ eqy = "start"
    /\ log' = {"text"} /\ eqy' = "prove"
    /\ UNCHANGED <<truth, listed, markers, process, verdict>>

Proved ==
    /\ Running /\ eqy = "prove"
    /\ eqy' = "list"
    /\ UNCHANGED <<work, process, verdict>>

LineFor(t) ==
    CASE t = "equal" -> "proved" [] t = "differs" -> "disproved" [] t = "hard" -> "unknown"

\* "Successfully proved equivalence of partition", or that it did not
List(p) ==
    /\ Running /\ eqy = "list" /\ p \notin listed
    /\ listed' = listed \cup {p} /\ log' = log \cup {LineFor(truth[p])}
    /\ UNCHANGED <<truth, eqy, markers, process, verdict>>

Found(t) == \E p \in Partitions : truth[p] = t

\* "Successfully proved designs equivalent", if so
Summarise ==
    /\ Running /\ eqy = "list" /\ listed = Partitions
    /\ log' = IF Found("differs") \/ Found("hard") THEN log ELSE log \cup {"proved"}
    /\ eqy' = "mark"
    /\ UNCHANGED <<truth, listed, markers, process, verdict>>

MarkDone ==
    /\ Running /\ eqy = "mark"
    /\ markers' = {IF Found("differs") THEN "FAIL"
                   ELSE IF Found("hard") THEN "UNKNOWN" ELSE "PASS"}
    /\ eqy' = "exit"
    /\ UNCHANGED <<truth, listed, log, process, verdict>>

Exit ==
    /\ Running /\ eqy = "exit"
    /\ process' = IF markers = {"PASS"} THEN "PASS" ELSE "FAIL"
    /\ UNCHANGED <<work, eqy, verdict>>

\* Killed, a full disk, an internal error
Crash ==
    /\ Running /\ eqy \in CrashPlaces
    /\ process' = "FAIL"
    /\ UNCHANGED <<work, eqy, verdict>>

\* Not on the PATH
Missing ==
    /\ Running /\ eqy = "start"
    /\ process' = "ERROR"
    /\ UNCHANGED <<work, eqy, verdict>>

Timeout ==
    /\ Running
    /\ process' = "TIMEOUT"
    /\ UNCHANGED <<work, eqy, verdict>>
----------------------------------------------------------------------------
\* The parser

\* Mutant of StatusFromLog: an undecided partition is looked for first
StatusFromLogUnknownFirst(tokens) ==
    IF "unknown" \in tokens THEN "UNKNOWN"
    ELSE IF "disproved" \in tokens THEN "FAIL"
    ELSE IF "proved" \in tokens THEN "PASS" ELSE "UNKNOWN"

\* _status_from_log
StatusFromLog(tokens) ==
    IF "disproved" \in tokens THEN "FAIL"
    ELSE IF "unknown" \in tokens THEN "UNKNOWN"
    ELSE IF "proved" \in tokens THEN "PASS" ELSE "UNKNOWN"

\* _status_from_markers
StatusFromMarkers(files) ==
    IF "FAIL" \in files THEN "FAIL"
    ELSE IF "UNKNOWN" \in files THEN "UNKNOWN"
    ELSE IF "PASS" \in files THEN "PASS" ELSE "none"

\* Mutant of Discarded: what a timeout left is parsed like the rest
DiscardedNever(result) == FALSE

\* No marker and no log of a run that timed out is trusted.
Discarded(result) == result = "TIMEOUT"

\* An empty log counts as none.  A FAIL of the process is not looked at.
Classify(result, files, text) ==
    LET marker == StatusFromMarkers(files)
        read == IF text = {} THEN "none" ELSE StatusFromLog(text)
    IN  IF Discarded(result) THEN "TIMEOUT"
        ELSE IF {marker, read} = {"none"} THEN "ERROR"
        ELSE IF marker = "none" THEN read
        ELSE IF read \in {"none", marker} THEN marker ELSE "UNKNOWN"

ParseEquivalence ==
    /\ ~Running /\ verdict = "none"
    /\ verdict' = Classify(process, markers, log)
    /\ UNCHANGED <<work, eqy, process>>

Next ==
    \/ Start \/ Proved \/ (\E p \in Partitions : List(p)) \/ Summarise \/ MarkDone \/ Exit
    \/ Crash \/ Missing \/ Timeout \/ ParseEquivalence

Spec == Init /\ [][Next]_vars
----------------------------------------------------------------------------
TypeOK ==
    /\ truth \in [Partitions -> Truths]
    /\ eqy \in {"start", "prove", "list", "mark", "exit"}
    /\ listed \subseteq Partitions
    /\ log \subseteq Tokens
    /\ markers \subseteq Markers
    /\ process \in (Statuses \ {"UNKNOWN"}) \cup {"none"} /\ verdict \in Statuses \cup {"none"}

(***************************************************************************)
(* A PASS, which opens the way to the physical run and to acceptance, is a *)
(* proof of the whole design: every partition is equal, wherever the run   *)
(* was cut off (eqy_status.py:1-8).                                        *)
(***************************************************************************)
PassProvesAll == verdict = "PASS" => \A p \in Partitions : truth[p] = "equal"

(***************************************************************************)
(* A design EQY found to differ is recorded as NOT_EQUIVALENT, not as      *)
(* merely unproven, even if it could not decide other partitions           *)
(* (eqy_status.py:24-31, pipeline.py:487-488).                             *)
(***************************************************************************)
DisproofIsReported ==
    verdict # "none" /\ process # "TIMEOUT" /\ listed = Partitions /\ Found("differs")
      => verdict = "FAIL"

============================================================================
