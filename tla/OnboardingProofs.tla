-------------------------- MODULE OnboardingProofs --------------------------
(***************************************************************************)
(* The order of the files, what becomes of reviewed drafts, and the length *)
(* of a run, for any tree and any hierarchy.                               *)
(*                                                                         *)
(* The argument for the order: a file is left when each file it depends on *)
(* was visited, or is being visited.  In the first case that file stands   *)
(* in the order already.  In the second the call of it led here, so it     *)
(* needs the file that is left.                                            *)
(***************************************************************************)
EXTENDS Onboarding, SequenceTheorems, FiniteSetTheorems, TLAPS

\* A file is visited once, and left once.
Once ==
    /\ IsInjective(stack) /\ IsInjective(ordered)
    /\ Range(stack) \cap Range(ordered) = {}

\* Who is being visited needs all that are visited on its behalf.
Chained == \A k, l \in DOMAIN stack : k <= l => Needs(stack[k], stack[l])

\* What a file depends on stands before it, or needs it.
Sorted ==
    \A i \in DOMAIN ordered : \A g \in Dependencies(ordered[i]) :
       Needs(g, ordered[i]) \/ \E j \in 1 .. i - 1 : ordered[j] = g

OInv ==
    /\ stack \in Seq(Files) /\ ordered \in Seq(Files)
    /\ pc # "order" => stack = <<>>
    /\ pc \in {"idle", "existing", "scan"} => ordered = <<>>
    /\ pc = "reach" => Range(ordered) = Files
    /\ Once /\ Chained /\ Sorted
----------------------------------------------------------------------------
(***************************************************************************)
(* Sequences                                                               *)
(***************************************************************************)

\* Range, for an element more
LEMMA RangeAppend ==
  ASSUME NEW S, NEW s \in Seq(S), NEW e \in S
  PROVE  Range(Append(s, e)) = Range(s) \cup {e}
<1>1. /\ Append(s, e) \in Seq(S) /\ Len(Append(s, e)) = Len(s) + 1
      /\ \A i \in 1 .. Len(s) : Append(s, e)[i] = s[i]
      /\ Append(s, e)[Len(s) + 1] = e
  BY AppendProperties
<1>2. DOMAIN Append(s, e) = 1 .. Len(s) + 1 /\ DOMAIN s = 1 .. Len(s) /\ Len(s) \in Nat
  BY <1>1
<1>3. Range(Append(s, e)) \subseteq Range(s) \cup {e}
  BY <1>1, <1>2 DEF Range
<1>4. \A i \in DOMAIN s : s[i] \in Range(Append(s, e))
  BY <1>1, <1>2 DEF Range
<1>5. e \in Range(Append(s, e))
  <2>1. Len(s) + 1 \in DOMAIN Append(s, e)
    BY <1>2
  <2> QED
    BY <1>1, <2>1 DEF Range
<1> QED
  BY <1>3, <1>4, <1>5 DEF Range

\* A new element keeps a sequence free of repetitions.
LEMMA InjectiveAppend ==
  ASSUME NEW S, NEW s \in Seq(S), NEW e \in S, IsInjective(s), e \notin Range(s)
  PROVE  IsInjective(Append(s, e))
<1>1. /\ Append(s, e) \in Seq(S) /\ Len(Append(s, e)) = Len(s) + 1
      /\ \A i \in 1 .. Len(s) : Append(s, e)[i] = s[i]
      /\ Append(s, e)[Len(s) + 1] = e
  BY AppendProperties
<1>2. DOMAIN Append(s, e) = 1 .. Len(s) + 1 /\ DOMAIN s = 1 .. Len(s) /\ Len(s) \in Nat
  BY <1>1
<1>3. \A i \in 1 .. Len(s) : s[i] # e
  BY <1>2 DEF Range
<1> QED
  BY <1>1, <1>2, <1>3 DEF IsInjective

\* The last element, and what is before it
LEMMA FrontAndLast ==
  ASSUME NEW S, NEW s \in Seq(S), s # <<>>
  PROVE  /\ Front(s) \in Seq(S) /\ Last(s) \in S
         /\ DOMAIN Front(s) = 1 .. Len(s) - 1 /\ DOMAIN s = 1 .. Len(s)
         /\ Len(s) \in Nat \ {0} /\ Last(s) = s[Len(s)]
         /\ \A i \in 1 .. Len(s) - 1 : Front(s)[i] = s[i]
<1>1. Len(s) \in Nat \ {0} /\ DOMAIN s = 1 .. Len(s)
  BY EmptySeq
<1>2. Front(s) = SubSeq(s, 1, Len(s) - 1)
  BY DEF Front
<1> QED
  BY <1>1, <1>2 DEF Last
----------------------------------------------------------------------------
(***************************************************************************)
(* The order                                                               *)
(***************************************************************************)

\* Needs is reflexive,
LEMMA NeedsItself == ASSUME NEW f \in Files PROVE Needs(f, f)
BY DEF Needs

\* and who needs a file needs what that depends on.
LEMMA NeedsDependencies ==
  ASSUME NEW f, NEW g, NEW h \in Dependencies(g), Needs(f, g)
  PROVE  Needs(f, h)
BY DEF Needs

\* Dependencies are between the files of the tree.
LEMMA DependenciesAreFiles ==
  ASSUME connections \subseteq Modules \X Modules, NEW f
  PROVE  Dependencies(f) \subseteq Files
BY FileOfAssumption DEF Dependencies, Files, Range

\* The order stands, and nothing is being visited.
LEMMA OrderStays ==
  ASSUME OInv, UNCHANGED <<connections, stack, ordered>>,
         pc' # "order" => stack = <<>>,
         pc' \in {"idle", "existing", "scan"} => ordered = <<>>,
         pc' = "reach" => Range(ordered) = Files
  PROVE  OInv'
<1>1. \A f : Dependencies(f)' = Dependencies(f)
  BY DEF Dependencies
<1>2. \A f, g : Needs(f, g)' <=> Needs(f, g)
  BY <1>1 DEF Needs
<1> QED
  BY <1>1, <1>2 DEF OInv, Once, Chained, Sorted

\* A file is called, by the loop or on behalf of the last one called.
LEMMA CallPreserves ==
  ASSUME OInv, NEW f \in Files, Visit(f) \/ Descend(f)
  PROVE  OInv'
<1>1. /\ f \in Unvisited /\ stack' = Append(stack, f) /\ pc = "order"
      /\ UNCHANGED <<pc, connections, ordered>>
      /\ stack # <<>> => f \in Dependencies(Last(stack))
  BY DEF Visit, Descend, Calls, inputs
<1>2. stack \in Seq(Files) /\ ordered \in Seq(Files)
  BY DEF OInv
<1>3. f \notin Range(stack) /\ f \notin Range(ordered)
  BY <1>1 DEF Unvisited
<1>4. Once'
  BY <1>1, <1>2, <1>3, RangeAppend, InjectiveAppend DEF OInv, Once
<1>5. /\ DOMAIN stack' = 1 .. Len(stack) + 1 /\ DOMAIN stack = 1 .. Len(stack)
      /\ \A k \in 1 .. Len(stack) : stack'[k] = stack[k]
      /\ stack'[Len(stack) + 1] = f /\ stack' \in Seq(Files) /\ Len(stack) \in Nat
  BY <1>1, <1>2, AppendProperties
<1>6. \A k \in DOMAIN stack : Needs(stack[k], f)
  <2> SUFFICES ASSUME NEW k \in DOMAIN stack PROVE Needs(stack[k], f)
    OBVIOUS
  <2>1. stack # <<>> /\ Len(stack) \in DOMAIN stack /\ k <= Len(stack)
    BY <1>2, <1>5
  <2>2. Needs(stack[k], Last(stack))
    BY <2>1 DEF OInv, Chained, Last
  <2> QED
    BY <1>1, <2>1, <2>2, NeedsDependencies
<1>7. \A k, l \in DOMAIN stack' : k <= l => Needs(stack'[k], stack'[l])
  <2> SUFFICES ASSUME NEW k \in DOMAIN stack', NEW l \in DOMAIN stack', k <= l
               PROVE  Needs(stack'[k], stack'[l])
    OBVIOUS
  <2>1. CASE l \in DOMAIN stack
    BY <1>5, <2>1 DEF OInv, Chained
  <2>2. CASE l = Len(stack) + 1 /\ k \in DOMAIN stack
    BY <1>5, <1>6, <2>2
  <2>3. CASE k = Len(stack) + 1 /\ l = Len(stack) + 1
    BY <1>5, <2>3, NeedsItself
  <2> QED
    BY <1>5, <2>1, <2>2, <2>3
<1>8. \A g, h : (Needs(g, h)' <=> Needs(g, h)) /\ Dependencies(g)' = Dependencies(g)
  BY <1>1 DEF Needs, Dependencies
<1>9. Chained' /\ Sorted'
  BY <1>1, <1>7, <1>8 DEF OInv, Chained, Sorted
<1> QED
  BY <1>1, <1>2, <1>4, <1>5, <1>9 DEF OInv

\* The last file called is left.
LEMMA LeavePreserves ==
  ASSUME OInv, Leave, connections \subseteq Modules \X Modules
  PROVE  OInv'
<1> DEFINE f == Last(stack)
           n == Len(stack)
           m == Len(ordered)
<1>1. /\ stack # <<>> /\ Finished(f) /\ pc = "order"
      /\ stack' = Front(stack) /\ ordered' = Append(ordered, f)
      /\ UNCHANGED <<pc, connections>>
  BY DEF Leave, inputs
<1>2. stack \in Seq(Files) /\ ordered \in Seq(Files)
  BY DEF OInv
<1>3. /\ stack' \in Seq(Files) /\ f \in Files /\ n \in Nat \ {0} /\ f = stack[n]
      /\ DOMAIN stack' = 1 .. n - 1 /\ DOMAIN stack = 1 .. n
      /\ \A k \in 1 .. n - 1 : stack'[k] = stack[k]
  BY <1>1, <1>2, FrontAndLast
<1>4. /\ ordered' \in Seq(Files) /\ m \in Nat
      /\ DOMAIN ordered' = 1 .. m + 1 /\ DOMAIN ordered = 1 .. m
      /\ \A i \in 1 .. m : ordered'[i] = ordered[i]
      /\ ordered'[m + 1] = f
  BY <1>1, <1>2, <1>3, AppendProperties
<1> HIDE DEF f, n, m
<1>5. f \in Range(stack) /\ f \notin Range(ordered)
  <2>1. n \in DOMAIN stack /\ stack[n] \in Range(stack)
    BY <1>3 DEF Range
  <2> QED
    BY <1>3, <2>1 DEF OInv, Once
<1>6. Range(ordered') = Range(ordered) \cup {f} /\ IsInjective(ordered')
  BY <1>1, <1>2, <1>3, <1>5, RangeAppend, InjectiveAppend DEF OInv, Once
<1>7. /\ IsInjective(stack') /\ Range(stack') \subseteq Range(stack) \ {f}
  BY <1>3 DEF OInv, Once, IsInjective, Range
<1>8. Once'
  BY <1>6, <1>7 DEF OInv, Once
<1>9. \A k, l \in DOMAIN stack' : k <= l => Needs(stack'[k], stack'[l])
  BY <1>3 DEF OInv, Chained
<1>10. \A i \in DOMAIN ordered' : \A g \in Dependencies(ordered'[i]) :
          Needs(g, ordered'[i]) \/ \E j \in 1 .. i - 1 : ordered'[j] = g
  <2> SUFFICES ASSUME NEW i \in DOMAIN ordered', NEW g \in Dependencies(ordered'[i])
               PROVE  Needs(g, ordered'[i]) \/ \E j \in 1 .. i - 1 : ordered'[j] = g
    OBVIOUS
  <2>1. CASE i \in DOMAIN ordered
    <3>1. ordered'[i] = ordered[i] /\ \A j \in 1 .. i - 1 : ordered'[j] = ordered[j]
      BY <1>4, <2>1
    <3> QED
      BY <2>1, <3>1 DEF OInv, Sorted
  <2>2. CASE i = m + 1
    <3>1. ordered'[i] = f /\ g \in Dependencies(f)
      BY <1>4, <2>2
    <3>2. g \in Files
      BY <3>1, DependenciesAreFiles
    <3>3. g \in Range(ordered) \/ g \in Range(stack)
      BY <1>1, <3>1, <3>2 DEF Finished, Unvisited
    <3>4. CASE g \in Range(ordered)
      <4>1. PICK j \in 1 .. m : ordered[j] = g
        BY <1>4, <3>4 DEF Range
      <4> QED
        BY <1>4, <2>2, <4>1
    <3>5. CASE g \in Range(stack)
      <4>1. PICK k \in 1 .. n : stack[k] = g
        BY <1>3, <3>5 DEF Range
      <4> QED
        BY <1>3, <3>1, <4>1 DEF OInv, Chained
    <3> QED
      BY <3>3, <3>4, <3>5
  <2> QED
    BY <1>4, <2>1, <2>2
<1>11. \A g, h : (Needs(g, h)' <=> Needs(g, h)) /\ Dependencies(g)' = Dependencies(g)
  BY <1>1 DEF Needs, Dependencies
<1>12. Chained' /\ Sorted'
  BY <1>9, <1>10, <1>11 DEF Chained, Sorted
<1> QED
  BY <1>1, <1>3, <1>4, <1>8, <1>12 DEF OInv

\* Connections are between modules of the tree.
Connected == connections \subseteq Modules \X Modules

LEMMA ConnectionsAreTyped == Spec => []Connected
<1>1. Init => Connected
  BY DEF Init, Connected
<1>2. Connected /\ [Next]_vars => Connected'
  <2>1. Begin => connections' \subseteq Modules \X Modules
    BY DEF Begin
  <2>2. End => connections' = {}
    BY DEF End
  <2> QED
    BY <2>1, <2>2
       DEF Next, Python, Refuse, Proceed, ScanFails, InferTop, AcceptTop, NoTop, Visit, Descend,
           Calls, Leave, AllOrdered, Reach, AllReached, WriteManifest, WriteSdc, Elaborate,
           WriteReport, Interrupt, Review, inputs, vars, Connected
<1> QED
  BY <1>1, <1>2, PTL DEF Spec

\* The other steps start over, or leave the order alone.
LEMMA RestPreserves ==
  ASSUME OInv, [Next]_vars, ~Leave, \A f \in Files : ~Visit(f) /\ ~Descend(f)
  PROVE  OInv'
<1>0. (stack = <<>> /\ ordered = <<>>)' /\ pc' \notin {"order", "reach"} => OInv'
  <2> SUFFICES ASSUME (stack = <<>> /\ ordered = <<>>)', pc' \notin {"order", "reach"}
               PROVE  OInv'
    OBVIOUS
  <2>1. DOMAIN stack' = {} /\ DOMAIN ordered' = {}
    OBVIOUS
  <2> QED
    BY <2>1 DEF OInv, Once, Chained, Sorted, IsInjective, Range
<1>1. CASE Refuse \/ ScanFails \/ NoTop \/ WriteReport \/ Interrupt
  <2>1. (stack = <<>> /\ ordered = <<>>)' /\ pc' = "idle"
    BY <1>1 DEF Refuse, ScanFails, NoTop, WriteReport, Interrupt, End, Go
  <2> QED
    BY <1>0, <2>1
<1>2. CASE Begin \/ Proceed
  <2>1. (stack = <<>> /\ ordered = <<>>)' /\ pc' \in {"existing", "scan"}
    BY <1>2 DEF Begin, Proceed, Go, OInv
  <2> QED
    BY <1>0, <2>1
<1>3. CASE InferTop \/ AcceptTop \/ AllReached \/ WriteManifest \/ WriteSdc \/ Elaborate
             \/ Reach
  BY <1>3, OrderStays
     DEF InferTop, AcceptTop, AllReached, WriteManifest, WriteSdc, Elaborate, Reach, Write, Go,
         inputs, OInv
<1>4. CASE AllOrdered
  <2>1. Range(ordered) = Files
    <3>1. Range(ordered) \subseteq Files /\ Range(stack) = {}
      BY <1>4 DEF AllOrdered, OInv, Range
    <3> QED
      BY <1>4, <3>1 DEF AllOrdered, Unvisited
  <2> QED
    BY <1>4, <2>1, OrderStays DEF AllOrdered, Go, inputs
<1>5. CASE (\E o \in Outputs : Review(o)) \/ UNCHANGED vars
  BY <1>5, OrderStays DEF Review, vars, inputs, OInv
<1> QED
  BY <1>1, <1>2, <1>3, <1>4, <1>5 DEF Next, Python

\* OInv holds in every reachable state.
LEMMA OrderHolds == Spec => []OInv
<1>1. Init => OInv
  <2>1. Init => DOMAIN stack = {} /\ DOMAIN ordered = {}
    BY DEF Init
  <2> QED
    BY <2>1 DEF Init, OInv, Once, Chained, Sorted, IsInjective, Range
<1>2. OInv /\ Connected /\ [Next]_vars => OInv'
  BY CallPreserves, LeavePreserves, RestPreserves DEF Connected
<1> QED
  BY <1>1, <1>2, ConnectionsAreTyped, PTL DEF Spec

\* A file comes after those it depends on, for any hierarchy, recursive or not,
\* and any order the directory lists files in (onboarding.py:94-129).
THEOREM FilesComeInOrder == Spec => []InstantiatedFilesComeFirst
<1>1. OInv => InstantiatedFilesComeFirst
  <2> SUFFICES ASSUME OInv, pc = "reach" PROVE InstantiatedFilesComeFirst
    BY DEF InstantiatedFilesComeFirst
  <2>1. IsInjective(ordered) /\ Range(ordered) = Files
    BY DEF OInv, Once
  <2>2. ASSUME NEW i \in DOMAIN ordered, NEW j \in DOMAIN ordered,
               ordered[j] \in Dependencies(ordered[i]), ~Needs(ordered[j], ordered[i])
        PROVE  j < i
    <3>1. PICK k \in 1 .. i - 1 : ordered[k] = ordered[j]
      BY <2>2 DEF OInv, Sorted
    <3>2. DOMAIN ordered = 1 .. Len(ordered) /\ Len(ordered) \in Nat
      BY DEF OInv
    <3>3. k = j
      BY <2>1, <3>1, <3>2 DEF IsInjective
    <3> QED
      BY <3>1, <3>2, <3>3
  <2> QED
    BY <2>1, <2>2 DEF InstantiatedFilesComeFirst
<1> QED
  BY <1>1, OrderHolds, PTL
----------------------------------------------------------------------------
(***************************************************************************)
(* Reviewed drafts.  Without --force a run goes past its first check only  *)
(* if there are no outputs, so there is nothing that was reviewed.         *)
(***************************************************************************)
ReviewInv ==
    /\ reviewed \subseteq Existing(outputs) /\ DOMAIN outputs = Outputs
    /\ pc \notin {"idle", "existing"} /\ ~force => reviewed = {}

\* An output is written anew, and has not been reviewed since.
LEMMA WriteForgets ==
  ASSUME ReviewInv, NEW o \in Outputs, Write(o)
  PROVE  /\ DOMAIN outputs' = Outputs /\ reviewed' = reviewed \ {o}
         /\ reviewed' \subseteq Existing(outputs')
         /\ \A x \in reviewed : outputs'[x] # outputs[x] => force
<1>1. pc \notin {"idle", "existing"}
  BY DEF Write, Outputs
<1>2. /\ DOMAIN outputs' = Outputs
      /\ \A x \in Outputs \ {o} : outputs'[x] = outputs[x]
  BY DEF Write, ReviewInv
<1> QED
  BY <1>1, <1>2 DEF Write, ReviewInv, Existing

\* A step that writes nothing
LEMMA NothingWritten ==
  ASSUME ReviewInv, UNCHANGED project,
         pc' \notin {"idle", "existing"} /\ ~force' => reviewed = {}
  PROVE  ReviewInv'
BY DEF ReviewInv, project, Existing

LEMMA ReviewPreserved == ReviewInv /\ [Next]_vars => ReviewInv'
<1> SUFFICES ASSUME ReviewInv, [Next]_vars PROVE ReviewInv'
  OBVIOUS
<1>1. CASE Refuse \/ ScanFails \/ NoTop \/ Interrupt
  BY <1>1, NothingWritten DEF Refuse, ScanFails, NoTop, Interrupt, End, Go
<1>2. CASE Begin
  BY <1>2, NothingWritten DEF Begin, Go
<1>3. CASE Proceed
  BY <1>3, NothingWritten DEF Proceed, Go, inputs, ReviewInv
<1>4. CASE InferTop \/ AcceptTop \/ Leave \/ AllOrdered \/ Reach \/ AllReached \/ Elaborate
  BY <1>4, NothingWritten
     DEF InferTop, AcceptTop, Leave, AllOrdered, Reach, AllReached, Elaborate, Go, inputs,
         ReviewInv
<1>5. CASE \E f \in Files : Visit(f) \/ Descend(f)
  BY <1>5, NothingWritten DEF Visit, Descend, Calls, inputs, ReviewInv
<1>6. CASE WriteManifest \/ WriteSdc
  <2>1. UNCHANGED force /\ pc \notin {"idle", "existing"}
    BY <1>6 DEF WriteManifest, WriteSdc, Write, inputs
  <2> QED
    BY <1>6, <2>1, WriteForgets DEF WriteManifest, WriteSdc, ReviewInv, Outputs
<1>7. CASE WriteReport
  BY <1>7, WriteForgets DEF WriteReport, End, Go, ReviewInv, Outputs
<1>8. CASE \E o \in Outputs : Review(o)
  BY <1>8 DEF Review, inputs, ReviewInv, Existing
<1>9. CASE UNCHANGED vars
  BY <1>9, NothingWritten DEF vars, inputs, project, ReviewInv
<1> QED
  BY <1>1, <1>2, <1>3, <1>4, <1>5, <1>6, <1>7, <1>8, <1>9 DEF Next, Python

\* Only a run with --force overwrites what a human has reviewed, wherever runs
\* are interrupted (onboarding.py:459-465).
THEOREM ReviewsAreKept == Spec => ReviewedWorkIsKept
<1>1. Init => ReviewInv
  BY DEF Init, ReviewInv
<1>2. ReviewInv /\ [Next]_vars
        => [\A o \in reviewed : outputs'[o] # outputs[o] => force]_vars
  <2> SUFFICES ASSUME ReviewInv, Next, NEW o \in reviewed, outputs'[o] # outputs[o]
               PROVE  force
    OBVIOUS
  <2>1. CASE \E x \in Outputs : Write(x)
    BY <2>1, WriteForgets
  <2>2. CASE UNCHANGED outputs
    BY <2>2
  <2>3. (\E x \in Outputs : Write(x)) \/ UNCHANGED outputs
    BY DEF Next, Python, Begin, Refuse, Proceed, ScanFails, InferTop, AcceptTop, NoTop, Visit,
           Descend, Calls, Leave, AllOrdered, Reach, AllReached, WriteManifest, WriteSdc,
           Elaborate, WriteReport, Interrupt, Review, project, Outputs
  <2> QED
    BY <2>1, <2>2, <2>3
<1> QED
  BY <1>1, <1>2, ReviewPreserved, PTL DEF Spec, ReviewedWorkIsKept
----------------------------------------------------------------------------
(***************************************************************************)
(* The length of a run.  OnboardingEnds is liveness and stays with TLC;    *)
(* what it rests on is safety.  A file is called once and left once, a     *)
(* pass over the connections that changes something finds a module, and    *)
(* all else happens once: there is a number of steps the run has left.     *)
(***************************************************************************)

\* Where control may be, and with what
Placed ==
    /\ pc \in {"idle", "existing", "scan", "order", "reach", "elaboration"} \cup Outputs
    /\ reachable \subseteq Modules
    /\ pc = "order" => top \in Modules

EInv == OInv /\ Connected /\ Placed

\* The steps left, each file counting twice and each module once
StepsLeft ==
    CASE pc = "existing" -> 8 + Cardinality(Modules) + 2 * Cardinality(Files)
      [] pc = "scan" -> 7 + Cardinality(Modules) + 2 * Cardinality(Files)
      [] pc = "order" ->
           6 + Cardinality(Modules) + 2 * Cardinality(Unvisited) + Len(stack)
      [] pc = "reach" -> 5 + Cardinality(Modules \ reachable)
      [] pc = "manifest" -> 4
      [] pc = "sdc" -> 3
      [] pc = "elaboration" -> 2
      [] pc = "report" -> 1
      [] OTHER -> 0

\* Between two runs there is nothing left, in one there is.
LeftIsCounted == StepsLeft \in Nat /\ (StepsLeft = 0 <=> pc = "idle")

\* Every step of a run lowers the number of those that are left.
ComesCloser == [][Python \/ Interrupt => StepsLeft' < StepsLeft]_vars

\* How many steps a run has when it begins
BeginsBounded ==
    [][Begin => StepsLeft' = 8 + Cardinality(Modules) + 2 * Cardinality(Files)]_vars

\* A tree is finite, and so are its files.
LEMMA FinitelyManyFiles ==
  ASSUME IsFiniteSet(Modules)
  PROVE  IsFiniteSet(Files) /\ Cardinality(Files) \in Nat
<1> DEFINE file == [m \in Modules |-> FileOf[m]]
<1>1. file \in Surjection(Modules, Files)
  <2>1. \A m \in Modules : FileOf[m] \in Files
    BY FileOfAssumption DEF Files, Range
  <2>2. \A f \in Files : \E m \in Modules : FileOf[m] = f
    BY FileOfAssumption DEF Files, Range
  <2> QED
    BY <2>1, <2>2 DEF Surjection
<1>2. IsFiniteSet(Files)
  BY <1>1, FS_Surjection
<1> QED
  BY <1>2, FS_CardinalityType

\* The counts of StepsLeft
LEMMA Counts ==
  ASSUME IsFiniteSet(Modules), stack \in Seq(Files)
  PROVE  /\ Cardinality(Modules) \in Nat /\ Cardinality(Files) \in Nat
         /\ IsFiniteSet(Unvisited) /\ Cardinality(Unvisited) \in Nat
         /\ IsFiniteSet(Modules \ reachable)
         /\ Cardinality(Modules \ reachable) \in 0 .. Cardinality(Modules)
         /\ Len(stack) \in Nat
<1>1. IsFiniteSet(Files) /\ Cardinality(Files) \in Nat /\ Cardinality(Modules) \in Nat
  BY FinitelyManyFiles, FS_CardinalityType
<1>2. Unvisited \subseteq Files /\ Modules \ reachable \subseteq Modules
  BY DEF Unvisited
<1>3. IsFiniteSet(Unvisited) /\ IsFiniteSet(Modules \ reachable)
      /\ Cardinality(Modules \ reachable) <= Cardinality(Modules)
  BY <1>1, <1>2, FS_Subset
<1>4. Cardinality(Unvisited) \in Nat /\ Cardinality(Modules \ reachable) \in Nat
  BY <1>3, FS_CardinalityType
<1> QED
  BY <1>1, <1>3, <1>4

\* Control goes from place to place, and onwards with a module of the tree.
LEMMA PlacedStays == Connected /\ Placed /\ [Next]_vars => Placed'
<1> SUFFICES ASSUME Connected, Placed, [Next]_vars PROVE Placed'
  OBVIOUS
<1> USE DEF Placed, Outputs
<1>1. CASE Refuse \/ ScanFails \/ NoTop \/ WriteReport \/ Interrupt
  BY <1>1 DEF Refuse, ScanFails, NoTop, WriteReport, Interrupt, End, Go
<1>2. CASE Begin \/ Proceed
  BY <1>2 DEF Begin, Proceed, Go
<1>3. CASE InferTop \/ AcceptTop
  BY <1>3 DEF InferTop, AcceptTop, Go
<1>4. CASE Leave \/ AllReached \/ WriteManifest \/ WriteSdc \/ Elaborate
  BY <1>4 DEF Leave, AllReached, WriteManifest, WriteSdc, Elaborate, Go
<1>5. CASE AllOrdered
  BY <1>5 DEF AllOrdered, Go
<1>6. CASE Reach
  <2>1. Found(reachable) \subseteq Modules
    BY DEF Found, Connected
  <2> QED
    BY <1>6, <2>1 DEF Reach
<1>7. CASE \E f \in Files : Visit(f) \/ Descend(f)
  BY <1>7 DEF Visit, Descend, Calls
<1>8. CASE (\E o \in Outputs : Review(o)) \/ UNCHANGED vars
  BY <1>8 DEF Review, vars
<1> QED
  BY <1>1, <1>2, <1>3, <1>4, <1>5, <1>6, <1>7, <1>8 DEF Next, Python

\* A file that is called is no longer unvisited: two steps less, and one more
\* for the return.
LEMMA CallComesCloser ==
  ASSUME IsFiniteSet(Modules), EInv, NEW f \in Files, Visit(f) \/ Descend(f)
  PROVE  StepsLeft' < StepsLeft
<1>1. /\ f \in Unvisited /\ stack' = Append(stack, f) /\ pc = "order" /\ pc' = "order"
      /\ ordered' = ordered /\ stack \in Seq(Files)
  BY DEF Visit, Descend, Calls, EInv, OInv
<1>2. Unvisited' = Unvisited \ {f}
  BY <1>1, RangeAppend DEF Unvisited
<1>3. Len(stack') = Len(stack) + 1
  BY <1>1
<1>4. Cardinality(Unvisited') = Cardinality(Unvisited) - 1
  BY <1>1, <1>2, Counts, FS_RemoveElement
<1>5. StepsLeft = 6 + Cardinality(Modules) + 2 * Cardinality(Unvisited) + Len(stack)
  BY <1>1 DEF StepsLeft
<1>6. StepsLeft' = 6 + Cardinality(Modules) + 2 * Cardinality(Unvisited') + Len(stack')
  BY <1>1 DEF StepsLeft
<1> QED
  BY <1>1, <1>3, <1>4, <1>5, <1>6, Counts

\* A file that is left has been visited, as it was being visited.
LEMMA LeaveComesCloser ==
  ASSUME IsFiniteSet(Modules), EInv, Leave
  PROVE  StepsLeft' < StepsLeft
<1> DEFINE f == Last(stack)
           n == Len(stack)
<1>1. /\ stack # <<>> /\ stack' = Front(stack) /\ ordered' = Append(ordered, f)
      /\ pc = "order" /\ pc' = "order"
      /\ stack \in Seq(Files) /\ ordered \in Seq(Files)
  BY DEF Leave, EInv, OInv
<1>2. /\ stack' \in Seq(Files) /\ f \in Files /\ n \in Nat \ {0} /\ f = stack[n]
      /\ DOMAIN stack' = 1 .. n - 1 /\ DOMAIN stack = 1 .. n
      /\ \A k \in 1 .. n - 1 : stack'[k] = stack[k]
  BY <1>1, FrontAndLast
<1>3. Len(stack') = n - 1
  <2> HIDE DEF n
  <2>1. stack' \in Seq(Files)
    BY <1>2
  <2>2. Len(stack') \in Nat /\ DOMAIN stack' = 1 .. Len(stack')
    BY <2>1, LenProperties
  <2>3. n - 1 \in Nat
    BY <1>2
  <2>4. 1 .. Len(stack') = 1 .. n - 1
    BY <1>2, <2>2
  <2> QED
    BY <2>2, <2>3, <2>4
<1>4. Range(stack') \cup {f} = Range(stack)
  <2> HIDE DEF f, n
  <2>1. DOMAIN stack = DOMAIN stack' \cup {n}
    BY <1>2
  <2>2. Range(stack) \subseteq Range(stack') \cup {f}
    BY <1>2, <2>1 DEF Range
  <2>3. Range(stack') \subseteq Range(stack) /\ f \in Range(stack)
    BY <1>2, <2>1 DEF Range
  <2> QED
    BY <2>2, <2>3
<1>5. Range(ordered') = Range(ordered) \cup {f}
  BY <1>1, <1>2, RangeAppend
<1>6. Unvisited' = Unvisited
  BY <1>4, <1>5 DEF Unvisited
<1>7. StepsLeft = 6 + Cardinality(Modules) + 2 * Cardinality(Unvisited) + Len(stack)
  BY <1>1 DEF StepsLeft
<1>8. StepsLeft' = 6 + Cardinality(Modules) + 2 * Cardinality(Unvisited) + Len(stack')
  BY <1>1, <1>6 DEF StepsLeft
<1> QED
  BY <1>1, <1>3, <1>7, <1>8, Counts

\* A pass that finds something adds a module of the tree to those found.
LEMMA ReachComesCloser ==
  ASSUME IsFiniteSet(Modules), EInv, Reach
  PROVE  StepsLeft' < StepsLeft
<1>1. PICK m \in Found(reachable) : reachable' = reachable \cup {m}
  BY DEF Reach
<1>2. m \in Modules \ reachable
  BY DEF Found, EInv, Connected
<1>3. Modules \ reachable' = (Modules \ reachable) \ {m}
  BY <1>1
<1>4. stack \in Seq(Files)
  BY DEF EInv, OInv
<1>5. Cardinality(Modules \ reachable') = Cardinality(Modules \ reachable) - 1
  BY <1>2, <1>3, <1>4, Counts, FS_RemoveElement
<1>6. /\ StepsLeft = 5 + Cardinality(Modules \ reachable)
      /\ StepsLeft' = 5 + Cardinality(Modules \ reachable')
  BY DEF Reach, StepsLeft
<1> QED
  BY <1>4, <1>5, <1>6, Counts

\* The number of steps left is a number, 0 only between two runs.
LEMMA LeftCounts == ASSUME IsFiniteSet(Modules), EInv PROVE LeftIsCounted
<1> DEFINE mods == Cardinality(Modules)
           files == Cardinality(Files)
           unvisited == Cardinality(Unvisited)
           unreached == Cardinality(Modules \ reachable)
<1>1. /\ mods \in Nat /\ files \in Nat /\ unvisited \in Nat /\ unreached \in Nat
      /\ Len(stack) \in Nat
  BY Counts DEF EInv, OInv
<1>2. StepsLeft \in { 8 + mods + 2 * files, 7 + mods + 2 * files,
                      6 + mods + 2 * unvisited + Len(stack), 5 + unreached,
                      4, 3, 2, 1 }
      \/ (StepsLeft = 0 /\ pc = "idle")
  BY DEF EInv, Placed, Outputs, StepsLeft
<1>3. pc = "idle" => StepsLeft = 0
  BY DEF StepsLeft
<1> HIDE DEF mods, files, unvisited, unreached
<1> QED
  BY <1>1, <1>2, <1>3 DEF LeftIsCounted

\* The other steps go on to a later place, or end the run.
LEMMA RestComesCloser ==
  ASSUME IsFiniteSet(Modules), EInv, Python \/ Interrupt, ~Leave, ~Reach,
         \A f \in Files : ~Visit(f) /\ ~Descend(f)
  PROVE  StepsLeft' < StepsLeft
<1>0. /\ stack \in Seq(Files) /\ LeftIsCounted
      /\ pc # "order" => stack = <<>>
      /\ pc \in {"existing", "scan"} => ordered = <<>>
  BY LeftCounts DEF EInv, OInv
<1>1. CASE Refuse \/ ScanFails \/ NoTop \/ WriteReport \/ Interrupt
  <2>1. pc # "idle" /\ pc' = "idle"
    BY <1>1 DEF Refuse, ScanFails, NoTop, WriteReport, Write, Interrupt, End, Go
  <2>2. StepsLeft' = 0
    BY <2>1 DEF StepsLeft, Outputs
  <2>3. StepsLeft \in Nat /\ StepsLeft # 0
    BY <1>0, <2>1 DEF LeftIsCounted
  <2> HIDE DEF StepsLeft
  <2> QED
    BY <2>2, <2>3
<1>2. CASE Proceed
  BY <1>0, <1>2, Counts DEF Proceed, Go, StepsLeft
<1>3. CASE InferTop \/ AcceptTop
  <2>1. /\ pc = "scan" /\ pc' = "order" /\ stack' = <<>> /\ ordered' = <<>>
        /\ ordered = <<>>
    BY <1>0, <1>3 DEF InferTop, AcceptTop, Go
  <2>2. Unvisited' = Files /\ Len(stack') = 0
    BY <2>1 DEF Unvisited, Range
  <2> QED
    BY <1>0, <2>1, <2>2, Counts DEF StepsLeft
<1>4. CASE AllOrdered
  <2>1. pc = "order" /\ pc' = "reach" /\ stack = <<>> /\ Unvisited = {}
    BY <1>4 DEF AllOrdered, Go
  <2>2. /\ IsFiniteSet(Modules \ reachable')
        /\ Cardinality(Modules \ reachable') <= Cardinality(Modules)
    BY FS_Subset
  <2>3. Cardinality(Modules \ reachable') \in Nat
    BY <2>2, FS_CardinalityType
  <2>4. StepsLeft' = 5 + Cardinality(Modules \ reachable')
    BY <2>1 DEF StepsLeft
  <2>5. StepsLeft >= 6 + Cardinality(Modules)
    BY <1>0, <2>1, Counts DEF StepsLeft
  <2>6. StepsLeft \in Nat
    BY <1>0 DEF LeftIsCounted
  <2> HIDE DEF StepsLeft
  <2> QED
    BY <1>0, <2>2, <2>3, <2>4, <2>5, <2>6, Counts
<1>5. CASE AllReached
  <2>1. StepsLeft' = 4 /\ StepsLeft = 5 + Cardinality(Modules \ reachable)
    BY <1>5 DEF AllReached, Go, StepsLeft
  <2> QED
    BY <1>0, <2>1, Counts
<1>6. CASE WriteManifest \/ WriteSdc \/ Elaborate
  BY <1>6 DEF WriteManifest, WriteSdc, Elaborate, Write, Go, StepsLeft
<1> QED
  BY <1>1, <1>2, <1>3, <1>4, <1>5, <1>6 DEF Python

\* EInv holds in every reachable state.
LEMMA PlacesHold == Spec => []EInv
<1>1. Init => Placed
  BY DEF Init, Placed
<1> QED
  BY <1>1, PlacedStays, OrderHolds, ConnectionsAreTyped, PTL DEF Spec, EInv

\* Every run of onboarding makes at most 8 steps, one per module and two per
\* file, whatever instantiates what and wherever it is interrupted: the visits
\* are cut by `visited` and the search below the top by `changed`, although the
\* hierarchy may be recursive (onboarding.py:111-122, 499-506).
THEOREM OnboardsInBoundedSteps ==
  ASSUME IsFiniteSet(Modules)
  PROVE  Spec => []LeftIsCounted /\ ComesCloser /\ BeginsBounded
<1>1. EInv => LeftIsCounted
  BY LeftCounts
<1>2. EInv /\ [Next]_vars => [Python \/ Interrupt => StepsLeft' < StepsLeft]_vars
  BY CallComesCloser, LeaveComesCloser, ReachComesCloser, RestComesCloser
<1>3. [Next]_vars =>
        [Begin => StepsLeft' = 8 + Cardinality(Modules) + 2 * Cardinality(Files)]_vars
  BY DEF Begin, Go, StepsLeft
<1> QED
  BY <1>1, <1>2, <1>3, PlacesHold, PTL DEF Spec, ComesCloser, BeginsBounded

============================================================================
