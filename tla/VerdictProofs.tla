---------------------------- MODULE VerdictProofs ----------------------------
(***************************************************************************)
(* What an acceptance rests on: EQY's verdict, for any number of           *)
(* partitions, and the policy's, for all figures and limits.               *)
(*                                                                         *)
(* Equivalence: a PASS proves the whole design, as long as EQY is not cut  *)
(* off while it lists its results, or is so only by the timeout.  What     *)
(* speaks for a PASS is a marker, which EQY leaves when all partitions are *)
(* equal, or a log without bad news.  Unless EQY died between two lines, a *)
(* log with a token lists all partitions, so bad news would be in it.      *)
(*                                                                         *)
(* Policy: a linear inequality of the exact figures tells which changes    *)
(* are rounded to at most the limit and which to more (PercentAtMost).     *)
(* All else follows from that, whichever way a tie goes.                   *)
(***************************************************************************)
EXTENDS Equivalence, MCPolicy, TLAPS

\* A log tells of each partition it lists; a marker comes after them all.
LogsAll ==
    /\ \A p \in listed : LineFor(truth[p]) \in log
    /\ eqy \in {"start", "prove"} => log \subseteq {"text"}
    /\ eqy \in {"mark", "exit"} => listed = Partitions
    /\ "PASS" \in markers => \A p \in Partitions : truth[p] = "equal"
    /\ process \in {"PASS", "FAIL", "ERROR"} => eqy # "list"

EInv == TypeOK /\ LogsAll /\ PassProvesAll

\* A log that lists all partitions and reads as a PASS has no bad news.
LEMMA CleanLog ==
  ASSUME TypeOK, LogsAll, listed = Partitions, StatusFromLog(log) = "PASS"
  PROVE  \A p \in Partitions : truth[p] = "equal"
<1> SUFFICES ASSUME NEW p \in Partitions, truth[p] # "equal" PROVE FALSE
  OBVIOUS
<1>1. truth[p] \in {"differs", "hard"}
  BY DEF TypeOK, Truths
<1>2. LineFor(truth[p]) \in {"disproved", "unknown"}
  BY <1>1 DEF LineFor
<1> QED
  BY <1>2 DEF LogsAll, StatusFromLog

\* Without a crash in the listing, EInv holds in every reachable state.
LEMMA EquivalenceInvariance == ASSUME "list" \notin CrashPlaces PROVE Spec => []EInv
<1>1. Init => EInv
  BY DEF Init, EInv, TypeOK, LogsAll, PassProvesAll, Statuses, Markers, Tokens
<1>2. EInv /\ [Next]_vars => EInv'
  <2> SUFFICES ASSUME EInv, [Next]_vars PROVE EInv'
    OBVIOUS
  <2> USE DEF work, Running
  <2>0. TypeOK /\ LogsAll /\ PassProvesAll
    BY DEF EInv
  <2>1. CASE Start
    BY <2>0, <2>1 DEF Start, EInv, TypeOK, LogsAll, PassProvesAll, Tokens
  <2>2. CASE Proved
    BY <2>0, <2>2 DEF Proved, EInv, TypeOK, LogsAll, PassProvesAll
  <2>3. ASSUME NEW p \in Partitions, List(p) PROVE EInv'
    <3>1. LineFor(truth[p]) \in Tokens
      BY <2>0 DEF TypeOK, Truths, LineFor, Tokens
    <3> QED
      BY <2>0, <2>3, <3>1 DEF List, EInv, TypeOK, LogsAll, PassProvesAll
  <2>4. CASE Summarise
    BY <2>0, <2>4 DEF Summarise, EInv, TypeOK, LogsAll, PassProvesAll, Tokens
  <2>5. CASE MarkDone
    <3>1. "PASS" \in markers' => \A p \in Partitions : truth[p] = "equal"
      BY <2>0, <2>5 DEF MarkDone, Found, TypeOK, Truths
    <3> QED
      BY <2>0, <2>5, <3>1 DEF MarkDone, EInv, TypeOK, LogsAll, PassProvesAll, Markers
  <2>6. CASE Exit \/ Crash \/ Missing \/ Timeout
    BY <2>0, <2>6
       DEF Exit, Crash, Missing, Timeout, EInv, TypeOK, LogsAll, PassProvesAll, Statuses
  <2>7. CASE ParseEquivalence
    <3>1. verdict' = Classify(process, markers, log) /\ UNCHANGED <<work, eqy, process>>
      BY <2>7 DEF ParseEquivalence
    <3>2. verdict' \in Statuses
      BY <3>1 DEF Classify, StatusFromLog, StatusFromMarkers, Statuses
    <3>3. PassProvesAll'
      <4> SUFFICES ASSUME Classify(process, markers, log) = "PASS"
                   PROVE  \A p \in Partitions : truth[p] = "equal"
        BY <3>1 DEF PassProvesAll
      <4>1. CASE "PASS" \in markers
        BY <2>0, <4>1 DEF LogsAll
      <4>2. CASE "PASS" \notin markers
        <5>1. StatusFromMarkers(markers) # "PASS"
          BY <4>2 DEF StatusFromMarkers
        <5>2. process # "TIMEOUT" /\ log # {} /\ StatusFromLog(log) = "PASS"
          <6> DEFINE marker == StatusFromMarkers(markers)
                     read == IF log = {} THEN "none" ELSE StatusFromLog(log)
          <6>1. Classify(process, markers, log) =
                  IF process = "TIMEOUT" THEN "TIMEOUT"
                  ELSE IF {marker, read} = {"none"} THEN "ERROR"
                  ELSE IF marker = "none" THEN read
                  ELSE IF read \in {"none", marker} THEN marker ELSE "UNKNOWN"
            BY DEF Classify, Discarded
          <6>2. marker # "PASS"
            BY <5>1
          <6> HIDE DEF marker
          <6>3. process # "TIMEOUT" /\ read = "PASS"
            BY <6>1, <6>2
          <6> QED
            BY <6>3
        <5>3. eqy # "list" /\ "proved" \in log
          BY <2>0, <2>7, <5>2 DEF ParseEquivalence, LogsAll, TypeOK, Statuses, StatusFromLog
        <5>4. listed = Partitions
          BY <2>0, <5>3 DEF LogsAll, TypeOK
        <5> QED
          BY <2>0, <5>2, <5>4, CleanLog
      <4> QED
        BY <4>1, <4>2
    <3> QED
      BY <2>0, <3>1, <3>2, <3>3 DEF EInv, TypeOK, LogsAll
  <2>8. CASE UNCHANGED vars
    BY <2>0, <2>8 DEF vars, EInv, TypeOK, LogsAll, PassProvesAll
  <2> QED
    BY <2>1, <2>2, <2>3, <2>4, <2>5, <2>6, <2>7, <2>8 DEF Next
<1> QED
  BY <1>1, <1>2, PTL DEF Spec

\* PASS means that every partition is equal, although a timeout may cut the run
\* off anywhere and the marker or the log may be missing (eqy_status.py:59-82).
THEOREM PassesProveAll ==
  ASSUME "list" \notin CrashPlaces PROVE Spec => []PassProvesAll
<1>1. EInv => PassProvesAll
  BY DEF EInv
<1> QED
  BY <1>1, EquivalenceInvariance, PTL
----------------------------------------------------------------------------
(***************************************************************************)
(* A disproof that EQY has listed is in its log, and its marker, if there  *)
(* is one, does not contradict it.  This needs no assumption on where EQY  *)
(* may die.                                                                *)
(***************************************************************************)
DInv ==
    /\ TypeOK
    /\ \A p \in listed : LineFor(truth[p]) \in log
    /\ eqy = "start" => listed = {}
    /\ Found("differs") => markers \subseteq {"FAIL"}
    /\ Running => verdict = "none"
    /\ DisproofIsReported

\* A log of all partitions shows the one that differs.
LEMMA DisproofIsLogged ==
  ASSUME DInv, listed = Partitions, Found("differs")
  PROVE  "disproved" \in log /\ StatusFromMarkers(markers) \in {"FAIL", "none"}
<1>1. PICK p \in Partitions : truth[p] = "differs"
  BY DEF Found
<1>2. LineFor(truth[p]) = "disproved"
  BY <1>1 DEF LineFor
<1> QED
  BY <1>2 DEF DInv, StatusFromMarkers

\* The parser reads it as a FAIL.
LEMMA DisproofIsParsed ==
  ASSUME DInv, listed = Partitions, Found("differs"), process # "TIMEOUT"
  PROVE  Classify(process, markers, log) = "FAIL"
<1>1. "disproved" \in log /\ StatusFromMarkers(markers) \in {"FAIL", "none"}
  BY DisproofIsLogged
<1>2. log # {} /\ StatusFromLog(log) = "FAIL"
  BY <1>1 DEF StatusFromLog
<1> DEFINE marker == StatusFromMarkers(markers)
           read == IF log = {} THEN "none" ELSE StatusFromLog(log)
<1>3. Classify(process, markers, log) =
        IF process = "TIMEOUT" THEN "TIMEOUT"
        ELSE IF {marker, read} = {"none"} THEN "ERROR"
        ELSE IF marker = "none" THEN read
        ELSE IF read \in {"none", marker} THEN marker ELSE "UNKNOWN"
  BY DEF Classify, Discarded
<1>4. read = "FAIL" /\ marker \in {"FAIL", "none"}
  BY <1>1, <1>2
<1> HIDE DEF marker, read
<1> QED
  BY <1>3, <1>4

\* A design EQY found to differ is recorded as NOT_EQUIVALENT, wherever it dies
\* after that (eqy_status.py:24-31, pipeline.py:487-488).
THEOREM DisproofsAreReported == Spec => []DisproofIsReported
<1>1. Init => DInv
  BY DEF Init, DInv, TypeOK, DisproofIsReported, Running, Statuses, Markers, Tokens
<1>2. DInv /\ [Next]_vars => DInv'
  <2> SUFFICES ASSUME DInv, [Next]_vars PROVE DInv'
    OBVIOUS
  <2> USE DEF work, Running
  <2>0. TypeOK /\ DisproofIsReported
    BY DEF DInv
  <2>1. CASE Start
    BY <2>0, <2>1 DEF Start, DInv, TypeOK, Found, DisproofIsReported, Tokens, LineFor
  <2>2. CASE Proved
    BY <2>0, <2>2 DEF Proved, DInv, TypeOK, Found, DisproofIsReported
  <2>3. ASSUME NEW p \in Partitions, List(p) PROVE DInv'
    <3>1. LineFor(truth[p]) \in Tokens
      BY <2>0 DEF TypeOK, Truths, LineFor, Tokens
    <3> QED
      BY <2>0, <2>3, <3>1 DEF List, DInv, TypeOK, Found, DisproofIsReported
  <2>4. CASE Summarise
    BY <2>0, <2>4 DEF Summarise, DInv, TypeOK, Found, DisproofIsReported, Tokens
  <2>5. CASE MarkDone
    BY <2>0, <2>5 DEF MarkDone, DInv, TypeOK, Found, DisproofIsReported, Markers
  <2>6. CASE Exit \/ Crash \/ Missing \/ Timeout
    BY <2>0, <2>6
       DEF Exit, Crash, Missing, Timeout, DInv, TypeOK, Found, DisproofIsReported, Statuses
  <2>7. CASE ParseEquivalence
    <3>1. verdict' = Classify(process, markers, log) /\ UNCHANGED <<work, eqy, process>>
      BY <2>7 DEF ParseEquivalence
    <3>2. verdict' \in Statuses
      BY <3>1 DEF Classify, StatusFromLog, StatusFromMarkers, Statuses
    <3>3. DisproofIsReported'
      BY <3>1, DisproofIsParsed DEF DisproofIsReported, Found
    <3> QED
      BY <2>0, <2>7, <3>1, <3>2, <3>3 DEF ParseEquivalence, DInv, TypeOK, Found
  <2>8. CASE UNCHANGED vars
    BY <2>0, <2>8 DEF vars, DInv, TypeOK, Found, DisproofIsReported
  <2> QED
    BY <2>1, <2>2, <2>3, <2>4, <2>5, <2>6, <2>7, <2>8 DEF Next
<1>3. DInv => DisproofIsReported
  BY DEF DInv
<1> QED
  BY <1>1, <1>2, <1>3, PTL DEF Spec
----------------------------------------------------------------------------
(***************************************************************************)
(* The policy                                                              *)
(***************************************************************************)

\* n \div d and n % d are quotient and remainder.
LEMMA QuotientAndRemainder ==
  ASSUME NEW n \in Int, NEW d \in Nat \ {0}
  PROVE  /\ n \div d \in Int /\ n % d \in Int
         /\ n = d * (n \div d) + (n % d)
         /\ 0 <= n % d /\ n % d < d
OBVIOUS

\* A factor keeps the order.
LEMMA ProductsKeepOrder ==
  ASSUME NEW x \in Int, NEW y \in Int, NEW d \in Nat, x <= y
  PROVE  x * d <= y * d
OBVIOUS

\* A quotient less than k and a half is rounded to at most k, a larger one to more.
LEMMA RoundedAtMost ==
  ASSUME NEW n \in Int, NEW d \in Nat \ {0}, NEW k \in Int, NEW up \in BOOLEAN
  PROVE  /\ Rounded(n, d, up) \in Int
         /\ 2 * n < (2 * k + 1) * d => Rounded(n, d, up) <= k
         /\ 2 * n > (2 * k + 1) * d => ~(Rounded(n, d, up) <= k)
<1> DEFINE q == n \div d
           r == n % d
<1>1. q \in Int /\ r \in Int /\ n = d * q + r /\ 0 <= r /\ r < d
  BY QuotientAndRemainder
<1>2. Rounded(n, d, up) = IF 2 * r > d \/ (2 * r = d /\ up) THEN q + 1 ELSE q
  BY DEF Rounded
<1> HIDE DEF q, r
<1>3. CASE q + 1 <= k
  <2>1. (q + 1) * d <= k * d
    BY <1>1, <1>3, ProductsKeepOrder
  <2>2. 2 * n < (2 * k + 1) * d
    BY <1>1, <2>1
  <2> QED
    BY <1>1, <1>2, <1>3, <2>2
<1>4. CASE k + 1 <= q
  <2>1. (k + 1) * d <= q * d
    BY <1>1, <1>4, ProductsKeepOrder
  <2>2. 2 * n > (2 * k + 1) * d
    BY <1>1, <2>1
  <2> QED
    BY <1>1, <1>2, <1>4, <2>2
<1>5. CASE k = q
  <2>1. (2 * k + 1) * d = 2 * (d * q) + d
    BY <1>1, <1>5
  <2> QED
    BY <1>1, <1>2, <1>5, <2>1
<1> QED
  BY <1>1, <1>3, <1>4, <1>5

\* The unit of percentages is positive.
LEMMA WholeIsPositive == Whole \in Nat \ {0}
BY SMT DEF Whole

\* What the exact figures say of the percentage by which c exceeds b.
LEMMA PercentAtMost ==
  ASSUME NEW b \in Int, NEW c \in Int, NEW k \in Int, b # 0, Unmeasured \notin Int
  PROVE  /\ RelativePct(b, c) \in Int
         /\ SurelyWithin(b, c, k) => RelativePct(b, c) <= k
         /\ SurelyAbove(b, c, k) => ~(RelativePct(b, c) <= k)
<1> DEFINE n == Whole * (c - b)
           d == Magnitude(b)
           up == <<b, c>> \in TiesUp
<1>1. d \in Nat \ {0} /\ up \in BOOLEAN
  BY DEF Magnitude
<1>2. n \in Int /\ 2 * n = 2 * Whole * (c - b)
  BY WholeIsPositive
<1>3. RelativePct(b, c) = Rounded(n, d, up)
  BY DEF RelativePct, Measured
<1>4. /\ SurelyWithin(b, c, k) <=> 2 * n < (2 * k + 1) * d
      /\ SurelyAbove(b, c, k) <=> 2 * n > (2 * k + 1) * d
  BY <1>2 DEF SurelyWithin, SurelyAbove
<1> HIDE DEF n, d, up
<1>5. /\ Rounded(n, d, up) \in Int
      /\ 2 * n < (2 * k + 1) * d => Rounded(n, d, up) <= k
      /\ 2 * n > (2 * k + 1) * d => ~(Rounded(n, d, up) <= k)
  BY <1>1, <1>2, RoundedAtMost
<1> QED
  BY <1>3, <1>4, <1>5

\* All figures, runs and limits there could be
Figures == Int \cup {Unmeasured}
Runs == [wns : Figures, area : Figures, cells : Figures, clocks : SUBSET Clocks]
Limits == [preserve : BOOLEAN, area : Int, cells : Int]

\* What is within a limit stays there when it shrinks, rounding included.
LEMMA SmallerStaysWithin ==
  ASSUME NEW b \in Figures, NEW c \in Int, NEW better \in Int, NEW limit \in Int,
         better <= c, WithinGuardrail(RelativePct(b, c), limit), Unmeasured \notin Int
  PROVE  WithinGuardrail(RelativePct(b, better), limit)
<1>1. CASE b \in Int /\ b # 0
  <2>1. RelativePct(b, c) \in Int /\ RelativePct(b, better) \in Int
    BY <1>1, PercentAtMost
  <2>2. RelativePct(b, c) <= limit
    BY <2>1 DEF WithinGuardrail, Measured
  <2>3. better = c \/ SurelyWithin(b, better, limit)
    <3>1. ~SurelyAbove(b, c, limit)
      BY <1>1, <2>2, PercentAtMost
    <3>2. CASE better < c
      <4>1. 2 * Whole * (better - b) < 2 * Whole * (c - b)
        <5>1. (better - b + 1) * (2 * Whole) <= (c - b) * (2 * Whole)
          BY <1>1, <3>2, WholeIsPositive, ProductsKeepOrder
        <5> QED
          BY <5>1, <1>1, WholeIsPositive
      <4>2. (2 * limit + 1) * Magnitude(b) \in Int
        BY <1>1 DEF Magnitude
      <4>3. 2 * Whole * (better - b) \in Int /\ 2 * Whole * (c - b) \in Int
        BY <1>1, WholeIsPositive
      <4> QED
        BY <3>1, <4>1, <4>2, <4>3 DEF SurelyWithin, SurelyAbove
    <3> QED
      BY <3>2
  <2>4. RelativePct(b, better) <= limit
    BY <1>1, <2>2, <2>3, PercentAtMost
  <2> QED
    BY <2>1, <2>4 DEF WithinGuardrail, Measured
<1>2. CASE ~(b \in Int /\ b # 0)
  BY <1>2 DEF Figures, RelativePct, Measured, WithinGuardrail
<1> QED
  BY <1>1, <1>2

\* Every gate of evaluate lets candidate r pass, and the message can be written.
PassesAll(c, e, b, r, g) ==
    /\ c /\ e = "PASS"
    /\ g.preserve => b.clocks \subseteq r.clocks
    /\ WnsImproves(b.wns, r.wns) \/ TargetClosed(r.wns)
    /\ GuardrailsHold(b, r, g) /\ AcceptMessageFormats(b, r)

LEMMA WhatIsAccepted ==
  ASSUME NEW c, NEW e, NEW b, NEW r, NEW g
  PROVE  Evaluate(c, e, b, r, g).verdict = "ACCEPTED" <=> PassesAll(c, e, b, r, g)
BY DEF Evaluate, Decision, RaisedWhileAccepting, PassesAll

\* What evaluate does with a candidate it does for a better one.
LEMMA ImprovementsAreAccepted ==
  ASSUME NEW c \in BOOLEAN, NEW e, NEW b \in Runs, NEW r \in Runs, NEW better \in Runs,
         NEW g \in Limits, Unmeasured \notin Int,
         Dominates(better, r), Evaluate(c, e, b, r, g).verdict = "ACCEPTED"
  PROVE  Evaluate(c, e, b, better, g).verdict = "ACCEPTED"
<1>1. /\ c /\ e = "PASS"
      /\ g.preserve => b.clocks \subseteq r.clocks
      /\ WnsImproves(b.wns, r.wns) \/ TargetClosed(r.wns)
      /\ GuardrailsHold(b, r, g) /\ AcceptMessageFormats(b, r)
  BY WhatIsAccepted DEF PassesAll
<1>2. /\ r.wns \in Int /\ better.wns \in Int /\ better.wns >= r.wns
      /\ r.area \in Int /\ better.area \in Int /\ better.area <= r.area
      /\ r.cells \in Int /\ better.cells \in Int /\ better.cells <= r.cells
      /\ r.clocks \subseteq better.clocks
  BY DEF Dominates, Measured, Runs, Figures
<1>3. b.wns \in Int /\ b.area \in Int /\ b.area # 0
  BY <1>1 DEF AcceptMessageFormats, RelativePct, Measured, Runs, Figures
<1>4. WnsImproves(b.wns, better.wns) \/ TargetClosed(better.wns)
  BY <1>1, <1>2, <1>3 DEF WnsImproves, TargetClosed, Measured
<1>5. GuardrailsHold(b, better, g)
  <2>1. b.area \in Figures /\ b.cells \in Figures /\ g.area \in Int /\ g.cells \in Int
    BY DEF Runs, Limits
  <2> QED
    BY <1>1, <1>2, <2>1, SmallerStaysWithin DEF GuardrailsHold
<1>6. AcceptMessageFormats(b, better)
  BY <1>2, <1>3, PercentAtMost DEF AcceptMessageFormats, Measured
<1>7. g.preserve => b.clocks \subseteq better.clocks
  BY <1>1, <1>2
<1>8. PassesAll(c, e, b, better, g)
  BY <1>1, <1>4, <1>5, <1>6, <1>7 DEF PassesAll
<1> QED
  BY <1>8, WhatIsAccepted

\* What has been put before the policy, and that what it decided is what evaluate says.
JInv ==
    /\ comparable \in BOOLEAN /\ proof \in EqyStatuses
    /\ base \in Runs /\ cand \in Runs /\ guard \in Limits
    /\ decision = Pending \/ decision = Evaluate(comparable, proof, base, cand, guard)

\* The instance's runs are of that kind.
LEMMA RunsAreMeasured ==
  Baselines \subseteq Runs /\ Candidates \subseteq Runs /\ Guards \subseteq Limits
BY FiguresAssumption DEF Baselines, Candidates, Guards, Runs, Limits, Figures

\* JInv holds in every reachable state.
LEMMA PolicyInvariance == PolicySpec => []JInv
<1>1. PolicyInit => JInv
  BY RunsAreMeasured DEF PolicyInit, JInv
<1>2. JInv /\ [Judge]_policyVars => JInv'
  BY DEF JInv, Judge, policyVars
<1> QED
  BY <1>1, <1>2, PTL DEF PolicySpec

\* An accepted candidate has passed every gate.
LEMMA AcceptedPassedAll ==
  ASSUME JInv, Accepted
  PROVE  /\ Evaluate(comparable, proof, base, cand, guard).verdict = "ACCEPTED"
         /\ PassesAll(comparable, proof, base, cand, guard)
<1>1. decision # Pending
  BY DEF Accepted, Pending, Decision
<1>2. Evaluate(comparable, proof, base, cand, guard).verdict = "ACCEPTED"
  BY <1>1 DEF JInv, Accepted
<1> QED
  BY <1>2, WhatIsAccepted

\* Whoever is at least as good as an accepted candidate is accepted (policy.py:81-192).
THEOREM NoImprovementIsPunished == PolicySpec => []AcceptanceIsMonotone
<1>1. JInv => AcceptanceIsMonotone
  <2> SUFFICES ASSUME JInv, Accepted, NEW better \in Candidates, Dominates(better, cand)
               PROVE  Evaluate(comparable, proof, base, better, guard).verdict = "ACCEPTED"
    BY DEF AcceptanceIsMonotone
  <2>1. better \in Runs /\ Unmeasured \notin Int
    BY RunsAreMeasured, FiguresAssumption
  <2>2. /\ comparable \in BOOLEAN /\ base \in Runs /\ cand \in Runs /\ guard \in Limits
        /\ Evaluate(comparable, proof, base, cand, guard).verdict = "ACCEPTED"
    BY AcceptedPassedAll DEF JInv
  <2> QED
    BY <2>1, <2>2, ImprovementsAreAccepted
<1> QED
  BY <1>1, PolicyInvariance, PTL

\* An accepted area has been measured, and is within its limit (policy.py:159-174).
THEOREM GrowthIsBounded == PolicySpec => []AcceptedAreaIsBounded
<1>1. JInv => AcceptedAreaIsBounded
  <2> SUFFICES ASSUME JInv, Accepted
               PROVE  2 * Whole * (cand.area - base.area)
                        <= (2 * guard.area + 1) * Magnitude(base.area)
    BY DEF AcceptedAreaIsBounded
  <2>1. /\ WithinGuardrail(RelativePct(base.area, cand.area), guard.area)
        /\ Measured(RelativePct(base.area, cand.area))
    BY AcceptedPassedAll DEF PassesAll, GuardrailsHold, AcceptMessageFormats
  <2>2. /\ base.area \in Int /\ cand.area \in Int /\ base.area # 0 /\ guard.area \in Int
        /\ Unmeasured \notin Int
    BY <2>1, FiguresAssumption DEF RelativePct, Measured, JInv, Runs, Figures, Limits
  <2>3. RelativePct(base.area, cand.area) <= guard.area
    BY <2>1 DEF WithinGuardrail
  <2>4. ~SurelyAbove(base.area, cand.area, guard.area)
    BY <2>2, <2>3, PercentAtMost
  <2>5. /\ 2 * Whole * (cand.area - base.area) \in Int
        /\ (2 * guard.area + 1) * Magnitude(base.area) \in Int
    BY <2>2, WholeIsPositive DEF Magnitude
  <2> QED
    BY <2>4, <2>5 DEF SurelyAbove
<1> QED
  BY <1>1, PolicyInvariance, PTL

\* With all figures there, evaluate looks at what the documented gates say; only a tie of
\* the rounding is open.
LEMMA GatesAreTheChecks ==
  ASSUME JInv, FullyMeasured, base.area > 0, base.cells > 0
  PROVE  /\ cand.wns > base.wns \/ cand.wns >= 0
              <=> WnsImproves(base.wns, cand.wns) \/ TargetClosed(cand.wns)
         /\ Met(5) => GuardrailsHold(base, cand, guard)
         /\ Failed(5) => ~GuardrailsHold(base, cand, guard)
         /\ AcceptMessageFormats(base, cand)
<1>1. /\ base.wns \in Int /\ base.area \in Int /\ base.cells \in Int
      /\ cand.wns \in Int /\ cand.area \in Int /\ cand.cells \in Int
      /\ guard.area \in Int /\ guard.cells \in Int
      /\ Unmeasured \notin Int
  BY FiguresAssumption DEF FullyMeasured, Measured, JInv, Runs, Figures, Limits
<1>2. cand.wns > base.wns \/ cand.wns >= 0
        <=> WnsImproves(base.wns, cand.wns) \/ TargetClosed(cand.wns)
  BY <1>1 DEF WnsImproves, TargetClosed, Measured
<1>3. ASSUME NEW b \in Int, NEW c \in Int, NEW k \in Int, b > 0
      PROVE  /\ RelativePct(b, c) \in Int
             /\ SurelyWithin(b, c, k) => RelativePct(b, c) <= k
             /\ SurelyAbove(b, c, k) => ~(RelativePct(b, c) <= k)
  BY <1>1, <1>3, PercentAtMost
<1>4. /\ RelativePct(base.area, cand.area) \in Int
      /\ SurelyWithin(base.area, cand.area, guard.area)
           => RelativePct(base.area, cand.area) <= guard.area
      /\ SurelyAbove(base.area, cand.area, guard.area)
           => ~(RelativePct(base.area, cand.area) <= guard.area)
  BY <1>1, <1>3
<1>5. /\ RelativePct(base.cells, cand.cells) \in Int
      /\ SurelyWithin(base.cells, cand.cells, guard.cells)
           => RelativePct(base.cells, cand.cells) <= guard.cells
      /\ SurelyAbove(base.cells, cand.cells, guard.cells)
           => ~(RelativePct(base.cells, cand.cells) <= guard.cells)
  BY <1>1, <1>3
<1>6. GuardrailsHold(base, cand, guard) <=>
        /\ RelativePct(base.area, cand.area) <= guard.area
        /\ RelativePct(base.cells, cand.cells) <= guard.cells
  BY <1>1, <1>4, <1>5 DEF GuardrailsHold, WithinGuardrail, Measured
<1>7. /\ Met(5) => /\ SurelyWithin(base.area, cand.area, guard.area)
                                   /\ SurelyWithin(base.cells, cand.cells, guard.cells)
      /\ Failed(5) => \/ SurelyAbove(base.area, cand.area, guard.area)
                                      \/ SurelyAbove(base.cells, cand.cells, guard.cells)
  BY DEF Met, Failed
<1>8. AcceptMessageFormats(base, cand)
  BY <1>1, <1>4 DEF AcceptMessageFormats, Measured
<1> QED
  BY <1>2, <1>4, <1>5, <1>6, <1>7, <1>8

\* A rejection names a documented check that is not met and that no failed one precedes;
\* an acceptance passes them all (policy.py:1-17).
THEOREM FailuresNameTheFirstCheck == PolicySpec => []FailureNamesFirstCheck
<1>1. JInv => FailureNamesFirstCheck
  <2> SUFFICES ASSUME JInv, decision # Pending, FullyMeasured, base.area > 0, base.cells > 0
               PROVE  IF Accepted
                      THEN \A g \in 1 .. 5 : ~Failed(g)
                      ELSE \E g \in 1 .. 5 :
                             /\ ~Met(g)
                             /\ decision.failure \in RecordedAs[g]
                             /\ \A h \in 1 .. g - 1 : ~Failed(h)
    BY DEF FailureNamesFirstCheck
  <2> DEFINE clocks == guard.preserve => base.clocks \subseteq cand.clocks
             timing == WnsImproves(base.wns, cand.wns) \/ TargetClosed(cand.wns)
             within == GuardrailsHold(base, cand, guard)
  <2>1. decision = Evaluate(comparable, proof, base, cand, guard)
    BY DEF JInv
  <2>2. /\ cand.wns > base.wns \/ cand.wns >= 0 <=> timing
        /\ Met(5) => within
        /\ Failed(5) => ~within
        /\ AcceptMessageFormats(base, cand)
    BY GatesAreTheChecks
  <2>3. /\ (Met(1) <=> comparable) /\ (Failed(1) <=> ~comparable)
        /\ RecordedAs[1] = {"NON_COMPARABLE"}
    BY DEF Met, Failed, RecordedAs
  <2>4. /\ (Met(2) <=> proof = "PASS") /\ (Failed(2) <=> proof # "PASS")
        /\ RecordedAs[2] = {"UNPROVEN", "NOT_EQUIVALENT"}
    BY DEF Met, Failed, RecordedAs
  <2>5. /\ (Met(3) <=> clocks) /\ (Failed(3) <=> ~clocks)
        /\ RecordedAs[3] = {"GUARDRAIL_BREACH"}
    BY DEF Met, Failed, RecordedAs
  <2>6. /\ (Met(4) <=> timing) /\ (Failed(4) <=> ~timing)
        /\ RecordedAs[4] = {"QOR_REGRESSION"}
    BY <2>2 DEF Met, Failed, RecordedAs
  <2>7. RecordedAs[5] = {"GUARDRAIL_BREACH"}
    BY DEF RecordedAs
  <2>8. Evaluate(comparable, proof, base, cand, guard).verdict = "ACCEPTED"
          <=> comparable /\ proof = "PASS" /\ clocks /\ timing /\ within
    BY <2>2, WhatIsAccepted DEF PassesAll
  <2>9. /\ ~comparable => decision.failure = "NON_COMPARABLE"
        /\ comparable /\ proof # "PASS" =>
             decision.failure \in {"UNPROVEN", "NOT_EQUIVALENT"}
        /\ comparable /\ proof = "PASS" /\ ~clocks => decision.failure = "GUARDRAIL_BREACH"
        /\ comparable /\ proof = "PASS" /\ clocks /\ ~timing =>
             decision.failure = "QOR_REGRESSION"
        /\ comparable /\ proof = "PASS" /\ clocks /\ timing /\ ~within =>
             decision.failure = "GUARDRAIL_BREACH"
    BY <2>1 DEF Evaluate, Decision
  <2>10. Accepted <=> comparable /\ proof = "PASS" /\ clocks /\ timing /\ within
    BY <2>1, <2>8 DEF Accepted
  <2> HIDE DEF clocks, timing, within
  <2>11. CASE Accepted
    <3>1. \A h \in 1 .. 4 : ~Failed(h)
      BY <2>3, <2>4, <2>5, <2>6, <2>10, <2>11
    <3> QED
      BY <2>2, <2>10, <2>11, <3>1
  <2>12. CASE ~comparable
    <3>1. ~Met(1) /\ decision.failure \in RecordedAs[1]
      BY <2>3, <2>9, <2>12
    <3> QED
      BY <2>10, <2>12, <3>1
  <2>13. CASE comparable /\ proof # "PASS"
    <3>1. ~Met(2) /\ decision.failure \in RecordedAs[2]
      BY <2>4, <2>9, <2>13
    <3> QED
      BY <2>3, <2>10, <2>13, <3>1
  <2>14. CASE comparable /\ proof = "PASS" /\ ~clocks
    <3>1. ~Met(3) /\ decision.failure \in RecordedAs[3]
      BY <2>5, <2>9, <2>14
    <3> QED
      BY <2>3, <2>4, <2>10, <2>14, <3>1
  <2>15. CASE comparable /\ proof = "PASS" /\ clocks /\ ~timing
    <3>1. ~Met(4) /\ decision.failure \in RecordedAs[4]
      BY <2>6, <2>9, <2>15
    <3> QED
      BY <2>3, <2>4, <2>5, <2>10, <2>15, <3>1
  <2>16. CASE comparable /\ proof = "PASS" /\ clocks /\ timing /\ ~within
    <3>1. ~Met(5) /\ decision.failure \in RecordedAs[5]
      BY <2>2, <2>7, <2>9, <2>16
    <3>2. \A h \in 1 .. 4 : ~Failed(h)
      BY <2>3, <2>4, <2>5, <2>6, <2>16
    <3> QED
      BY <2>10, <2>16, <3>1, <3>2
  <2> QED
    BY <2>10, <2>11, <2>12, <2>13, <2>14, <2>15, <2>16
<1> QED
  BY <1>1, PolicyInvariance, PTL
============================================================================
