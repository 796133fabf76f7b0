--------------------------- MODULE ToolCalls_proofs ---------------------------
(***************************************************************************)
(* Theorems about ToolCalls, for every number of calls and every size of   *)
(* the pool.                                                               *)
(***************************************************************************)
EXTENDS ToolCalls, TLAPS, SequenceTheorems, FiniteSetTheorems

----------------------------------------------------------------------------
(* The inductive invariant.                                                *)

Points == {"pick", "fill", "preparing", "commit", "race", "skip", "skipped", "drain", "done",
           "failed"}

StateType ==
    /\ signal \in BOOLEAN /\ concluded \in BOOLEAN
    /\ next \in 0..N /\ groupEnd \in 0..N /\ started \in 0..N /\ committed \in 0..N
    /\ mode \in Modes
    /\ aborted \in BOOLEAN /\ failure \in BOOLEAN
    /\ inFlight \subseteq Call /\ slots \subseteq Call /\ settled \subseteq Call
    /\ pc \in Points
    /\ lastEvent \in TL!EventTypes
    /\ startedAs \in [Call -> {"none"} \cup Modes]

\* The results of a group are those that were committed; skipping goes beyond.
ResultsWritten ==
    CASE pc = "skipped" -> started - 1
      [] pc \in {"skip", "done"} -> started
      [] OTHER -> committed

\* Both lists are the model's order, as far as the scheduler's counters go.
LogInv ==
    /\ called \in Seq(Call) /\ called = [i \in 1..started |-> i]
    /\ results \in Seq(Call) /\ results = [i \in 1..ResultsWritten |-> i]

\* How the counters follow each other, and where they meet.
CounterInv ==
    /\ next <= committed /\ committed <= started
    /\ pc = "pick" => started = next
    /\ pc = "skipped" => started > 0
    /\ pc = "preparing" => committed < started
    /\ pc = "done" => started = N

\* The calls that have been handed to a body, or answered without one.
Handed == IF pc = "preparing" THEN 1..(started - 1) ELSE 1..started

\* Where each call of the group is: in flight, or with its outcome in a slot.
\* At the head of the unanswered calls the pool waits for a body.
FlightInv ==
    /\ inFlight \cup slots \cup settled \subseteq Handed
    /\ inFlight \cap slots \subseteq settled
    /\ ~failure => settled \subseteq slots
    /\ 1..committed \subseteq slots
    /\ pc \in {"preparing", "commit", "fill", "race"} => Handed \subseteq inFlight \cup slots
    /\ pc \in {"fill", "race"} /\ committed < started => committed + 1 \in inFlight
    /\ pc \in {"pick", "skip", "skipped", "done"} => inFlight = {}
    /\ pc = "failed" => Running = {}

PoolInv ==
    /\ Cardinality(inFlight) <= MaxParallel
    /\ pc = "preparing" => Cardinality(inFlight) < MaxParallel

\* What the started calls of the open group were classified as.
GroupInv ==
    pc \in {"fill", "preparing", "commit", "race", "drain", "failed"} =>
        /\ mode = "exclusive" => groupEnd = next + 1 /\ started <= next + 1
        /\ mode = "parallel" => \A c \in Call : next < c /\ c <= started => startedAs[c] = "parallel"

\* When the pool is refilled the scheduler has read the signal.
AbortInv == pc = "fill" /\ signal => aborted

Inv == StateType /\ CounterInv /\ LogInv /\ FlightInv /\ PoolInv /\ GroupInv /\ AbortInv

----------------------------------------------------------------------------
(* The facts about sequences and sets that the steps need.                 *)

\* The numbers up to n, and one more.
LEMMA AppendNext ==
  ASSUME NEW n \in Nat
  PROVE  /\ Append([i \in 1..n |-> i], n + 1) = [i \in 1..(n + 1) |-> i]
         /\ Len([i \in 1..n |-> i]) = n
<1> DEFINE q == [i \in 1..n |-> i]
<1>1. q \in Seq(Nat) /\ Len(q) = n
  OBVIOUS
<1>2. /\ Append(q, n + 1) \in Seq(Nat) /\ Len(Append(q, n + 1)) = n + 1
      /\ \A i \in 1..n : Append(q, n + 1)[i] = q[i]
      /\ Append(q, n + 1)[n + 1] = n + 1
  BY <1>1, AppendProperties
<1>3. \A i \in 1..(n + 1) : Append(q, n + 1)[i] = i
  <2> SUFFICES ASSUME NEW i \in 1..(n + 1) PROVE Append(q, n + 1)[i] = i
    OBVIOUS
  <2>1. CASE i \in 1..n
    BY <1>2, <2>1
  <2>2. CASE i = n + 1
    BY <1>2, <2>2
  <2> QED
    BY <2>1, <2>2
<1>4. Append(q, n + 1) = [i \in 1..(n + 1) |-> Append(q, n + 1)[i]]
  BY <1>2
<1> QED
  BY <1>1, <1>3, <1>4

\* The counters of both lists are the calls that were started and answered.
LEMMA Lists ==
  ASSUME StateType, CounterInv, LogInv
  PROVE  /\ ResultsWritten \in 0..started
         /\ Len(called) = started /\ Len(results) = ResultsWritten
         /\ Ran = 1..started /\ Answered = 1..ResultsWritten
<1>1. N \in Nat /\ started \in Nat /\ committed \in Nat
  BY NAssumption DEF StateType
<1>2. ResultsWritten \in 0..started
  BY <1>1 DEF ResultsWritten, CounterInv
<1>3. Len(called) = started /\ Len(results) = ResultsWritten
  BY <1>1, <1>2, AppendNext DEF LogInv
<1>4. Ran = 1..started
  BY <1>1 DEF Ran, LogInv, Call, StateType
<1>5. Answered = 1..ResultsWritten
  BY <1>1, <1>2 DEF Answered, LogInv, Call, StateType
<1> QED
  BY <1>2, <1>3, <1>4, <1>5

\* Every set of calls is finite.
LEMMA FiniteCalls ==
  ASSUME NEW S, S \subseteq Call
  PROVE  IsFiniteSet(S) /\ Cardinality(S) \in Nat
<1>1. IsFiniteSet(Call)
  BY FS_Interval, NAssumption DEF Call
<1> QED
  BY <1>1, FS_Subset, FS_CardinalityType

----------------------------------------------------------------------------
(* The invariant is inductive.                                             *)

\* The scheduler starts with no call taken from the message.
LEMMA InvInit == Init => Inv
<1> SUFFICES ASSUME Init PROVE Inv
  OBVIOUS
<1> USE NAssumption, MaxParallelAssumption
<1>1. StateType /\ CounterInv
  <2>1. startedAs \in [Call -> {"none"} \cup Modes]
    BY Zenon DEF Init
  <2>2. lastEvent \in TL!EventTypes
    BY DEF Init, TL!EventTypes, TL!StepScoped
  <2>3. mode \in Modes
    BY DEF Init, Modes
  <2>4. signal \in BOOLEAN /\ concluded \in BOOLEAN /\ aborted \in BOOLEAN /\ failure \in BOOLEAN
    BY Zenon DEF Init
  <2> QED
    BY <2>1, <2>2, <2>3, <2>4 DEF Init, StateType, CounterInv, Points
<1>2. LogInv
  <2>1. <<>> = [i \in 1..0 |-> i]
    OBVIOUS
  <2>2. ResultsWritten = 0
    BY DEF Init, ResultsWritten
  <2> QED
    BY <2>1, <2>2 DEF Init, LogInv
<1>3. FlightInv /\ GroupInv /\ AbortInv
  BY DEF Init, FlightInv, Handed, GroupInv, AbortInv
<1>4. PoolInv
  BY FS_EmptySet DEF Init, PoolInv
<1> QED
  BY <1>1, <1>2, <1>3, <1>4 DEF Inv

\* Every step keeps the types and the order of the counters.
LEMMA CounterStep == Inv /\ [Next]_vars => StateType' /\ CounterInv'
<1> SUFFICES ASSUME Inv, [Next]_vars PROVE StateType' /\ CounterInv'
  OBVIOUS
<1> USE NAssumption DEF Inv, StateType, CounterInv, groupVars, logVars, Points, Modes, Call,
    TL!EventTypes, TL!StepScoped
<1>1. CASE Abort
  BY <1>1 DEF Abort
<1>2. CASE Body
  BY <1>2 DEF Body, BodyReturns, BodyRejects, Running
<1>3. CASE PickGroup
  BY <1>3 DEF PickGroup, GroupLimit
<1>4. CASE AllPicked \/ StopFilling
  BY <1>4 DEF AllPicked, StopFilling
<1>5. CASE StartCall
  BY <1>5 DEF StartCall, PoolHasRoom
<1>6. CASE Prepared
  <2>1. started \in 1..N
    BY <1>6 DEF Prepared
  <2> QED
    BY <1>6, <2>1 DEF Prepared
<1>7. CASE CommitReady
  <2>1. NextResult \in 1..started
    BY <1>7 DEF CommitReady, FlightInv, Handed
  <2>2. committed' = committed + 1 /\ committed' \in 0..N /\ committed' <= started
    BY <1>7, <2>1 DEF CommitReady, NextResult
  <2>3. concluded' \in BOOLEAN
    BY <1>7, Zenon DEF CommitReady
  <2>4. lastEvent' \in TL!EventTypes
    BY <1>7 DEF CommitReady
  <2> QED
    BY <1>7, <2>2, <2>3, <2>4 DEF CommitReady
<1>8. CASE Committed
  BY <1>8 DEF Committed, SeesAbort
<1>9. CASE \E c \in Call : Race(c)
  BY <1>9 DEF Race
<1>10. CASE GroupEnds
  BY <1>10 DEF GroupEnds, FlightInv
<1>11. CASE SkipCall
  BY <1>11 DEF SkipCall
<1>12. CASE SkipResult \/ AllSkipped
  BY <1>12 DEF SkipResult, AllSkipped
<1>13. CASE Fails \/ Drained
  BY <1>13 DEF Fails, Drained
<1>14. CASE UNCHANGED vars
  BY <1>14 DEF vars
<1> QED
  BY <1>1, <1>2, <1>3, <1>4, <1>5, <1>6, <1>7, <1>8, <1>9, <1>10, <1>11, <1>12, <1>13, <1>14
  DEF Next, Scheduler, Settled

\* GroupEnds finds every started call committed.
LEMMA GroupIsCommitted ==
  ASSUME Inv, pc = "race", inFlight = {}
  PROVE  committed = started
  BY NAssumption DEF Inv, StateType, CounterInv, FlightInv

\* Every step writes the next call, or the result of the next one, or nothing.
LEMMA LogStep == Inv /\ [Next]_vars => LogInv'
<1> SUFFICES ASSUME Inv, [Next]_vars PROVE LogInv'
  OBVIOUS
<1> USE DEF groupVars, logVars
<1>1. /\ StateType /\ CounterInv /\ LogInv
      /\ N \in Nat /\ started \in Nat /\ committed \in Nat
      /\ called \in Seq(Call) /\ called = [i \in 1..started |-> i]
      /\ results \in Seq(Call) /\ results = [i \in 1..ResultsWritten |-> i]
  BY NAssumption DEF Inv, StateType, LogInv
<1>2. ASSUME called' = Append(called, started + 1), started' = started + 1, started < N,
             results' = results, ResultsWritten' = ResultsWritten
      PROVE  LogInv'
  <2>1. started + 1 \in Call
    BY <1>1, <1>2 DEF Call
  <2>2. called' \in Seq(Call)
    BY <1>1, <1>2, <2>1, AppendProperties
  <2>3. called' = [i \in 1..(started + 1) |-> i]
    BY <1>1, <1>2, AppendNext
  <2> QED
    BY <1>1, <1>2, <2>2, <2>3 DEF LogInv
<1>3. ASSUME NEW c \in 1..started, results' = Append(results, c), c = ResultsWritten + 1,
             called' = called, started' = started, ResultsWritten' = ResultsWritten + 1
      PROVE  LogInv'
  <2>1. c \in Call /\ ResultsWritten \in Nat
    BY <1>1, <1>3, Lists DEF Call, StateType
  <2>2. results' \in Seq(Call)
    BY <1>1, <1>3, <2>1, AppendProperties
  <2>3. results' = [i \in 1..(ResultsWritten + 1) |-> i]
    BY <1>1, <1>3, <2>1, AppendNext
  <2> QED
    BY <1>1, <1>3, <2>2, <2>3 DEF LogInv
<1>4. ASSUME called' = called, results' = results, started' = started,
             ResultsWritten' = ResultsWritten
      PROVE  LogInv'
  BY <1>1, <1>4 DEF LogInv
<1>5. CASE Abort \/ Body
  <2>1. ResultsWritten' = ResultsWritten
    BY <1>5 DEF Abort, Body, BodyReturns, BodyRejects, ResultsWritten
  <2> QED
    BY <1>4, <1>5, <2>1 DEF Abort, Body, BodyReturns, BodyRejects
<1>6. CASE PickGroup \/ AllPicked
  <2>1. started' = started /\ ResultsWritten' = ResultsWritten
    BY <1>1, <1>6 DEF PickGroup, AllPicked, ResultsWritten, CounterInv, StateType
  <2> QED
    BY <1>4, <1>6, <2>1 DEF PickGroup, AllPicked
<1>7. CASE StartCall
  <2>1. ResultsWritten' = ResultsWritten /\ started < N
    BY <1>1, <1>7 DEF StartCall, PoolHasRoom, ResultsWritten, StateType
  <2> QED
    BY <1>2, <1>7, <2>1 DEF StartCall
<1>8. CASE StopFilling \/ Prepared \/ Committed \/ Fails \/ Drained
  <2>1. ResultsWritten' = ResultsWritten
    BY <1>8 DEF StopFilling, Prepared, Committed, Fails, Drained, ResultsWritten
  <2> QED
    BY <1>4, <1>8, <2>1 DEF StopFilling, Prepared, Committed, Fails, Drained
<1>9. CASE CommitReady
  <2>1. ResultsWritten = committed /\ ResultsWritten' = ResultsWritten + 1
    BY <1>9 DEF CommitReady, ResultsWritten
  <2>2. NextResult = committed + 1 /\ NextResult \in 1..started
    BY <1>9 DEF CommitReady, NextResult, Inv, FlightInv, Handed
  <2> QED
    BY <1>3, <1>9, <2>1, <2>2 DEF CommitReady
<1>10. CASE \E c \in Call : Race(c)
  <2>1. ResultsWritten' = ResultsWritten
    BY <1>10 DEF Race, ResultsWritten
  <2> QED
    BY <1>4, <1>10, <2>1 DEF Race
<1>11. CASE GroupEnds
  <2>1. ResultsWritten' = ResultsWritten
    BY <1>11, GroupIsCommitted DEF GroupEnds, ResultsWritten
  <2> QED
    BY <1>4, <1>11, <2>1 DEF GroupEnds
<1>12. CASE SkipCall
  <2>1. ResultsWritten = started /\ ResultsWritten' = ResultsWritten
    BY <1>1, <1>12, GroupIsCommitted DEF SkipCall, ResultsWritten
  <2> QED
    BY <1>2, <1>12, <2>1 DEF SkipCall
<1>13. CASE SkipResult
  <2>1. ResultsWritten = started - 1 /\ ResultsWritten' = started /\ started > 0
    BY <1>1, <1>13 DEF SkipResult, ResultsWritten, CounterInv
  <2> QED
    BY <1>1, <1>3, <1>13, <2>1 DEF SkipResult
<1>14. CASE AllSkipped
  <2>1. ResultsWritten' = ResultsWritten
    BY <1>14, GroupIsCommitted DEF AllSkipped, ResultsWritten
  <2> QED
    BY <1>4, <1>14, <2>1 DEF AllSkipped
<1>15. CASE UNCHANGED vars
  BY <1>4, <1>15 DEF vars, ResultsWritten
<1> QED
  BY <1>5, <1>6, <1>7, <1>8, <1>9, <1>10, <1>11, <1>12, <1>13, <1>14, <1>15
  DEF Next, Scheduler, Settled

\* Every step leaves each call of the group where the scheduler looks for it.
LEMMA FlightStep == Inv /\ [Next]_vars => FlightInv'
<1> SUFFICES ASSUME Inv, [Next]_vars PROVE FlightInv'
  OBVIOUS
<1> USE NAssumption DEF groupVars, logVars
<1>1. /\ StateType /\ CounterInv /\ FlightInv
      /\ N \in Nat /\ started \in Nat /\ committed \in Nat /\ next \in Nat
      /\ pc \in Points
  BY DEF Inv, StateType
<1>2. CASE Abort
  BY <1>1, <1>2 DEF Abort, FlightInv, Handed, Running
<1>3. ASSUME NEW c \in Call, BodyReturns(c)
      PROVE  FlightInv'
  BY <1>1, <1>3 DEF BodyReturns, Awaiting, FlightInv, Handed, Running, Points
<1>4. ASSUME NEW c \in Call, BodyRejects(c)
      PROVE  FlightInv'
  BY <1>1, <1>4 DEF BodyRejects, Awaiting, FlightInv, Handed, Running, Points
<1>5. CASE PickGroup
  BY <1>1, <1>5 DEF PickGroup, FlightInv, Handed, CounterInv, StateType
<1>6. CASE AllPicked
  BY <1>1, <1>6 DEF AllPicked, FlightInv, Handed
<1>7. CASE StartCall
  <2>1. started' - 1 = started
    BY <1>1, <1>7 DEF StartCall
  <2> QED
    BY <1>1, <1>7, <2>1 DEF StartCall, FlightInv, Handed
<1>8. CASE StopFilling
  BY <1>1, <1>8 DEF StopFilling, FlightInv, Handed
<1>9. CASE Prepared
  <2>1. /\ pc = "preparing" /\ pc' = "commit" /\ started \in Nat \ {0} /\ committed < started
        /\ UNCHANGED <<started, committed, failure, settled>>
        /\ \/ inFlight' = inFlight \cup {started} /\ slots' = slots
           \/ slots' = slots \cup {started} /\ inFlight' = inFlight
    BY <1>1, <1>9 DEF Prepared, CounterInv
  <2>2. 1..started = 1..(started - 1) \cup {started} /\ started \notin 1..(started - 1)
    BY <2>1
  <2>3. Handed = 1..(started - 1) /\ Handed' = 1..started
    BY <2>1 DEF Handed
  <2> QED
    BY <1>1, <2>1, <2>2, <2>3 DEF FlightInv
<1>10. CASE CommitReady
  <2>1. committed + 1 \in slots /\ committed' = committed + 1
    BY <1>10 DEF CommitReady, NextResult
  <2>2. 1..committed' = 1..committed \cup {committed'}
    BY <1>1, <2>1
  <2> QED
    BY <1>1, <1>10, <2>1, <2>2 DEF CommitReady, FlightInv, Handed
<1>11. CASE Committed
  <2>1. committed < started => committed + 1 \in inFlight
    BY <1>1, <1>11 DEF Committed, NextResult, FlightInv, Handed
  <2> QED
    BY <1>1, <1>11, <2>1 DEF Committed, FlightInv, Handed
<1>12. ASSUME NEW c \in Call, Race(c)
       PROVE  FlightInv'
  <2>1. ~failure => c \in slots
    BY <1>1, <1>12 DEF Race, FlightInv
  <2> QED
    BY <1>1, <1>12, <2>1 DEF Race, FlightInv, Handed
<1>13. CASE GroupEnds
  BY <1>1, <1>13 DEF GroupEnds, FlightInv, Handed
<1>14. CASE SkipCall
  BY <1>1, <1>14 DEF SkipCall, FlightInv, Handed
<1>15. CASE SkipResult \/ AllSkipped
  BY <1>1, <1>15 DEF SkipResult, AllSkipped, FlightInv, Handed
<1>16. CASE Fails \/ Drained
  <2>1. Handed \subseteq Handed'
    BY <1>1, <1>16 DEF Fails, Drained, Handed
  <2> QED
    BY <1>1, <1>16, <2>1 DEF Fails, Drained, FlightInv, Running
<1>17. CASE UNCHANGED vars
  BY <1>1, <1>17 DEF vars, FlightInv, Handed, Running
<1> QED
  BY <1>2, <1>3, <1>4, <1>5, <1>6, <1>7, <1>8, <1>9, <1>10, <1>11, <1>12, <1>13, <1>14, <1>15,
     <1>16, <1>17
  DEF Next, Body, Scheduler, Settled

\* StartCall takes a place of the pool only when there is one.
LEMMA PoolStep == Inv /\ [Next]_vars => PoolInv'
<1> SUFFICES ASSUME Inv, [Next]_vars PROVE PoolInv'
  OBVIOUS
<1> USE DEF groupVars, logVars
<1>1. /\ PoolInv /\ inFlight \subseteq Call
      /\ IsFiniteSet(inFlight) /\ Cardinality(inFlight) \in Nat
      /\ MaxParallel \in Nat \ {0} /\ started \in Nat
  BY FiniteCalls, NAssumption, MaxParallelAssumption DEF Inv, StateType
<1>2. CASE StartCall
  BY <1>1, <1>2 DEF StartCall, PoolHasRoom, PoolInv
<1>3. CASE Prepared
  <2>1. CASE inFlight' = inFlight
    BY <1>1, <1>3, <2>1 DEF Prepared, PoolInv
  <2>2. CASE inFlight' = inFlight \cup {started}
    <3>1. Cardinality(inFlight') <= Cardinality(inFlight) + 1
      BY <1>1, <2>2, FS_AddElement
    <3>2. Cardinality(inFlight') \in Nat
      BY <1>1, <2>2, FS_AddElement, FS_CardinalityType
    <3> QED
      BY <1>1, <1>3, <3>1, <3>2 DEF Prepared, PoolInv
  <2> QED
    BY <1>3, <2>1, <2>2 DEF Prepared
<1>4. ASSUME NEW c \in Call, Race(c)
      PROVE  PoolInv'
  <2>1. Cardinality(inFlight') <= Cardinality(inFlight) /\ Cardinality(inFlight') \in Nat
    BY <1>1, <1>4, FS_Subset, FS_CardinalityType DEF Race
  <2> QED
    BY <1>1, <1>4, <2>1 DEF Race, PoolInv
<1>5. CASE \/ Abort \/ Body \/ PickGroup \/ AllPicked \/ StopFilling \/ CommitReady \/ Committed
           \/ GroupEnds \/ SkipCall \/ SkipResult \/ AllSkipped \/ Fails \/ Drained \/ UNCHANGED vars
  <2>1. inFlight' = inFlight /\ (pc' = "preparing" => pc = "preparing")
    BY <1>5 DEF Abort, Body, BodyReturns, BodyRejects, PickGroup, AllPicked, StopFilling, CommitReady,
        Committed, GroupEnds, SkipCall, SkipResult, AllSkipped, Fails, Drained, vars
  <2> QED
    BY <1>1, <2>1 DEF PoolInv
<1> QED
  BY <1>2, <1>3, <1>4, <1>5 DEF Next, Scheduler, Settled

\* A group is of one mode: its one exclusive call, or parallel calls only.
LEMMA GroupStep == Inv /\ [Next]_vars => GroupInv' /\ AbortInv'
<1> SUFFICES ASSUME Inv, [Next]_vars PROVE GroupInv' /\ AbortInv'
  OBVIOUS
<1> USE NAssumption DEF groupVars, logVars
<1>1. /\ GroupInv /\ AbortInv /\ CounterInv
      /\ next \in 0..N /\ started \in 0..N /\ committed \in 0..N
      /\ startedAs \in [Call -> {"none"} \cup Modes]
  BY DEF Inv, StateType
<1>2. CASE PickGroup
  <2>1. AbortInv'
    BY <1>2, Zenon DEF PickGroup, AbortInv
  <2>2. started' = next /\ next' = next
    BY <1>1, <1>2 DEF PickGroup, CounterInv
  <2>3. mode' = "exclusive" => groupEnd' = next + 1
    BY <1>2 DEF PickGroup, GroupLimit
  <2> QED
    BY <1>1, <2>1, <2>2, <2>3 DEF GroupInv, Call
<1>3. CASE StartCall
  <2>1. AbortInv'
    BY <1>3 DEF StartCall, AbortInv
  <2>2. started + 1 \in Call /\ startedAs'[started + 1] = mode
    BY <1>1, <1>3 DEF StartCall, PoolHasRoom, Call, Inv, StateType
  <2>3. \A c \in Call : c <= started => startedAs'[c] = startedAs[c]
    BY <1>1, <1>3 DEF StartCall, Call
  <2>4. started < groupEnd /\ groupEnd \in 0..N
    BY <1>3 DEF StartCall, PoolHasRoom, Inv, StateType
  <2>5. \A c \in Call : c <= started + 1 => c <= started \/ c = started + 1
    BY <1>1 DEF Call
  <2> QED
    BY <1>1, <1>3, <2>1, <2>2, <2>3, <2>4, <2>5 DEF StartCall, GroupInv
<1>4. CASE Committed
  BY <1>1, <1>4 DEF Committed, SeesAbort, GroupInv, AbortInv
<1>5. CASE Abort
  BY <1>1, <1>5 DEF Abort, Awaiting, GroupInv, AbortInv
<1>6. CASE \/ Body \/ AllPicked \/ StopFilling \/ Prepared \/ CommitReady \/ (\E c \in Call : Race(c))
           \/ GroupEnds \/ SkipCall \/ SkipResult \/ AllSkipped \/ Fails \/ Drained \/ UNCHANGED vars
  <2>1. /\ UNCHANGED <<mode, groupEnd, startedAs, signal, aborted>>
        /\ pc' = "fill" => pc = "fill"
        /\ \/ pc' \in {"pick", "skip", "skipped", "done"}
           \/ /\ UNCHANGED <<next, started>>
              /\ \/ pc' = pc
                 \/ pc \in {"fill", "preparing", "commit", "race", "drain"}
    BY <1>6 DEF Body, BodyReturns, BodyRejects, AllPicked, StopFilling, Prepared, CommitReady, Race,
        GroupEnds, SkipCall, SkipResult, AllSkipped, Fails, Drained, vars
  <2> QED
    BY <1>1, <2>1 DEF GroupInv, AbortInv
<1> QED
  BY <1>2, <1>3, <1>4, <1>5, <1>6 DEF Next, Scheduler, Settled

\* The invariant holds in every reachable state.
LEMMA InvHolds == Spec => []Inv
<1>1. Inv /\ [Next]_vars => Inv'
  BY CounterStep, LogStep, FlightStep, PoolStep, GroupStep DEF Inv
<1> QED
  BY InvInit, <1>1, PTL DEF Spec

----------------------------------------------------------------------------
(* What follows.                                                           *)

\* Every variable has its type, and runGroup never has more bodies running than
\* maxParallelToolCalls.
THEOREM PoolStaysBounded == Spec => []TypeOK
<1>1. Inv => TypeOK
  <2> SUFFICES ASSUME Inv PROVE TypeOK
    OBVIOUS
  <2>1. Cardinality(Running) <= MaxParallel
    <3>1. IsFiniteSet(inFlight) /\ Running \subseteq inFlight
      BY FiniteCalls DEF Inv, StateType, Running
    <3>2. /\ Cardinality(Running) <= Cardinality(inFlight)
          /\ Cardinality(Running) \in Nat /\ Cardinality(inFlight) \in Nat
      BY <3>1, FS_Subset, FS_CardinalityType
    <3> QED
      BY <3>2, MaxParallelAssumption DEF Inv, PoolInv
  <2> QED
    BY <2>1 DEF Inv, StateType, LogInv, Points, TypeOK
<1> QED
  BY InvHolds, <1>1, PTL

\* executeToolCalls writes calls and results in model order, each result after
\* its call, in whatever order the bodies settle.
THEOREM OrderIsTheModels == Spec => []ModelOrder
<1>1. Inv => ModelOrder
  <2> SUFFICES ASSUME Inv PROVE ModelOrder
    OBVIOUS
  <2>1. /\ Len(called) = started /\ Len(results) = ResultsWritten
        /\ ResultsWritten \in 0..started /\ started \in Nat
    BY Lists, NAssumption DEF Inv, StateType
  <2> QED
    BY <2>1 DEF Inv, LogInv, ModelOrder
<1> QED
  BY InvHolds, <1>1, PTL

\* An exclusive call is alone: while it is unanswered, runGroup has no other
\* unanswered call.
THEOREM ExclusiveRunsAlone == Spec => []ExclusiveIsBarrier
<1>1. Inv => ExclusiveIsBarrier
  <2> SUFFICES ASSUME Inv,
                      NEW c \in Ran \ Answered, NEW d \in Ran \ Answered,
                      startedAs[c] = "exclusive"
               PROVE  d = c
    BY DEF ExclusiveIsBarrier
  <2>1. /\ c \in 1..started /\ c \notin 1..ResultsWritten
        /\ d \in 1..started /\ d \notin 1..ResultsWritten
        /\ started \in 0..N /\ committed \in 0..N /\ next \in 0..N /\ N \in Nat
        /\ c \in Call /\ mode \in Modes
        /\ next <= committed /\ pc \in Points
    BY Lists, NAssumption DEF Inv, StateType, CounterInv, Call
  <2>2. CASE pc \in {"skip", "done"}
    BY <2>1, <2>2 DEF ResultsWritten
  <2>3. CASE pc = "skipped"
    BY <2>1, <2>3 DEF ResultsWritten
  <2>4. CASE pc \notin {"skip", "done", "skipped"}
    <3>1. ResultsWritten = committed
      BY <2>4 DEF ResultsWritten
    <3>2. pc # "pick"
      BY <2>1, <3>1 DEF Inv, CounterInv
    <3>3. mode = "exclusive" /\ started <= next + 1
      BY <2>1, <2>4, <3>1, <3>2 DEF Inv, GroupInv, Points, Modes
    <3> QED
      BY <2>1, <3>1, <3>3
  <2> QED
    BY <2>2, <2>3, <2>4
<1> QED
  BY InvHolds, <1>1, PTL

\* When executeToolCalls returns, every call has one result; when it throws, no
\* body runs any more and no result was made up.
THEOREM OutcomeIsAlwaysComplete == Spec => []OutcomeIsComplete
<1>1. Inv => OutcomeIsComplete
  <2> SUFFICES ASSUME Inv PROVE OutcomeIsComplete
    OBVIOUS
  <2>1. /\ Len(called) = started /\ Len(results) = ResultsWritten
        /\ Answered = 1..ResultsWritten
    BY Lists DEF Inv
  <2>2. pc = "done" => started = N /\ ResultsWritten = N
    BY DEF Inv, CounterInv, ResultsWritten
  <2>3. pc = "failed" => Running = {} /\ 1..ResultsWritten \subseteq slots
    BY DEF Inv, FlightInv, ResultsWritten
  <2> QED
    BY <2>1, <2>2, <2>3 DEF OutcomeIsComplete
<1> QED
  BY InvHolds, <1>1, PTL

\* No call is started once the signal has fired: fillPool reads it before each.
THEOREM AbortStartsNothing == Spec => NoStartUnderAbort
<1>1. Inv /\ [Next]_vars => [signal => startedAs' = startedAs]_vars
  <2> SUFFICES ASSUME Inv, Next, signal
               PROVE  startedAs' = startedAs
    BY DEF vars
  <2>1. ~StartCall
    BY DEF Inv, AbortInv, StartCall, PoolHasRoom
  <2> QED
    BY <2>1 DEF Next, Scheduler, Settled, Abort, Body, BodyReturns, BodyRejects, PickGroup, AllPicked,
        StopFilling, Prepared, CommitReady, Committed, Race, GroupEnds, SkipCall, SkipResult, AllSkipped,
        Fails, Drained, vars
<1> QED
  BY InvHolds, <1>1, PTL DEF Spec, NoStartUnderAbort

\* The tool phase writes only events that the session companion accepts.
THEOREM ToolPhaseIsGrammatical == Spec => LogFollowsGrammar
<1>1. Inv => Ran \ Answered = (ResultsWritten + 1)..started
  <2> SUFFICES ASSUME Inv PROVE Ran \ Answered = (ResultsWritten + 1)..started
    OBVIOUS
  <2>1. /\ Ran = 1..started /\ Answered = 1..ResultsWritten
        /\ started \in Nat /\ ResultsWritten \in 0..started
    BY Lists, NAssumption DEF Inv, StateType
  <2> QED
    BY <2>1
<1>2. Inv /\ [Next]_vars => (Ran \ Answered = (ResultsWritten + 1)..started)'
  <2>1. Inv /\ [Next]_vars => Inv'
    BY CounterStep, LogStep, FlightStep, PoolStep, GroupStep DEF Inv
  <2> QED
    BY <1>1, <2>1, PTL
<1>3. Inv /\ [Next]_vars => [TL!Next]_logVars
  <2> SUFFICES ASSUME Inv, [Next]_vars, logVars' # logVars
               PROVE  TL!Next
    OBVIOUS
  <2> USE DEF groupVars, logVars
  <2>1. /\ Ran \ Answered = (ResultsWritten + 1)..started
        /\ (Ran \ Answered)' = (ResultsWritten' + 1)..started'
        /\ started \in 0..N /\ committed \in 0..started /\ N \in Nat
    BY <1>1, <1>2, NAssumption DEF Inv, StateType, CounterInv
  <2>2. ASSUME lastEvent' = "tool/call", started < N, started' = started + 1,
               ResultsWritten \in 0..started, ResultsWritten' = ResultsWritten
        PROVE  TL!Next
    <3>1. (Ran \ Answered)' = (Ran \ Answered) \cup {started + 1} /\ started + 1 \in Call
      BY <2>1, <2>2 DEF Call
    <3>2. TL!ToolCall(started + 1)
      BY <2>2, <3>1 DEF TL!ToolCall
    <3> QED
      BY <3>1, <3>2 DEF TL!Next
  <2>3. ASSUME NEW c \in 1..started, c = ResultsWritten + 1, lastEvent' = "tool/result",
               started' = started, ResultsWritten' = ResultsWritten + 1
        PROVE  TL!Next
    <3>1. c \in Ran \ Answered /\ c \in Call
      BY <2>1, <2>3 DEF Call
    <3>2. ResultsWritten \in Int
      BY Lists DEF Inv
    <3>3. (Ran \ Answered)' = (Ran \ Answered) \ {c}
      BY <2>1, <2>3, <3>2
    <3>4. TL!ToolResult(c)
      BY <2>3, <3>1, <3>3 DEF TL!ToolResult
    <3> QED
      BY <3>1, <3>4 DEF TL!Next
  <2>4. CASE StartCall
    BY <2>1, <2>2, <2>4 DEF StartCall, PoolHasRoom, ResultsWritten, Inv, StateType
  <2>5. CASE SkipCall
    BY <2>1, <2>2, <2>5, GroupIsCommitted DEF SkipCall, ResultsWritten
  <2>6. CASE CommitReady
    <3>1. NextResult = committed + 1 /\ NextResult \in 1..started
      BY <2>6 DEF CommitReady, NextResult, Inv, FlightInv, Handed
    <3>2. ResultsWritten = committed /\ ResultsWritten' = committed + 1
      BY <2>6 DEF CommitReady, ResultsWritten
    <3> QED
      BY <2>3, <2>6, <3>1, <3>2 DEF CommitReady
  <2>7. CASE SkipResult
    <3>1. started > 0
      BY <2>7 DEF SkipResult, Inv, CounterInv
    <3> QED
      BY <2>1, <2>3, <2>7, <3>1 DEF SkipResult, ResultsWritten
  <2> QED
    BY <2>4, <2>5, <2>6, <2>7 DEF Next, Scheduler, Settled, Abort, Body, BodyReturns, BodyRejects,
        PickGroup, AllPicked, StopFilling, Prepared, Committed, Race, GroupEnds, AllSkipped, Fails,
        Drained, vars
<1> QED
  BY InvHolds, <1>3, PTL DEF Spec, LogFollowsGrammar
=============================================================================
