------------------------- MODULE CrashRecovery_proofs -------------------------
(***************************************************************************)
(* Theorems about CrashRecovery, for every number of calls, turns, steps   *)
(* and crashes: the log stays grammatical, a call is answered once, and a  *)
(* repair may die at any of its events.                                    *)
(*                                                                         *)
(* Three readers follow the log: the companion, the scan of a repair, and  *)
(* the count of answers.  They agree after every event that the grammar    *)
(* takes (Sound).  What the write buffer holds leads from the stored log   *)
(* to the driver's (Leads), so each of its prefixes can be the end.  The   *)
(* closers of a log, less their head, are the closers of the log with the  *)
(* head stored (ClosersRest).                                              *)
(***************************************************************************)
EXTENDS CrashRecovery, TLAPS, SequenceTheorems, FiniteSetTheorems

----------------------------------------------------------------------------
(* The pending calls in the order of the message.                          *)

\* A set of natural numbers that is not empty has a least element.
LEMMA Smallest ==
  ASSUME NEW S, S \subseteq Nat, S # {}
  PROVE  \E m \in S : \A k \in S : m <= k
<1>1. PICK n \in S : TRUE
  OBVIOUS
<1> DEFINE F == {T \in SUBSET (0..n) : \E k \in S : T = 0..k}
<1>2. IsWellFoundedOn(StrictSubsetOrdering(0..n), FiniteSubsetsOf(0..n))
  BY FS_StrictSubsetOrderingWellFounded
<1>3. IsFiniteSet(0..n)
  BY FS_Interval
<1>4. F \subseteq FiniteSubsetsOf(0..n) /\ F # {}
  BY <1>3, FS_FiniteSubsetsOfFinite
<1>5. PICK T \in F : \A U \in F : ~(<<U, T>> \in StrictSubsetOrdering(0..n))
  <2> HIDE DEF F
  <2> QED
    BY <1>2, <1>4, WFMin
<1>6. PICK m \in S : T = 0..m /\ m <= n
  <2>1. PICK k \in S : T = 0..k /\ T \subseteq 0..n
    OBVIOUS
  <2> QED
    BY <2>1
<1>7. ASSUME NEW k \in S, k < m PROVE FALSE
  <2>1. 0..k \in F /\ 0..k \subseteq T /\ 0..k # T
    BY <1>6, <1>7
  <2>2. <<0..k, T>> \in StrictSubsetOrdering(0..n)
    BY <2>1 DEF StrictSubsetOrdering
  <2> QED
    BY <1>5, <2>1, <2>2
<1> QED
  BY <1>7

\* Every set of calls is finite.
LEMMA FiniteCalls ==
  ASSUME NEW S, S \subseteq Call
  PROVE  IsFiniteSet(S) /\ Cardinality(S) \in Nat /\ S \subseteq Nat
<1>1. IsFiniteSet(Call) /\ Call \subseteq Nat
  BY FS_Interval, BoundsAssumption DEF Call
<1> QED
  BY <1>1, FS_Subset, FS_CardinalityType

Ordered(q, S) ==
    /\ q \in [1..Cardinality(S) -> S]
    /\ \A i, j \in 1..Cardinality(S) : i < j => q[i] < q[j]

\* What is in order goes through the whole set.
LEMMA OrderedCovers ==
  ASSUME NEW S, S \subseteq Call, NEW q, Ordered(q, S)
  PROVE  \A x \in S : \E i \in 1..Cardinality(S) : q[i] = x
<1> DEFINE n == Cardinality(S)
<1>1. IsFiniteSet(S) /\ n \in Nat /\ S \subseteq Nat
  BY FiniteCalls
<1>2. IsFiniteSet(1..n) /\ Cardinality(1..n) = n
  BY <1>1, FS_Interval
<1>3. q \in Injection(1..n, S)
  <2>1. ASSUME NEW i \in 1..n, NEW j \in 1..n, q[i] = q[j] PROVE i = j
    <3>1. q[i] \in Nat /\ q[j] \in Nat
      BY <1>1 DEF Ordered
    <3>2. ~(i < j) /\ ~(j < i)
      BY <2>1, <3>1 DEF Ordered
    <3> QED
      BY <3>2
  <2> QED
    BY <2>1 DEF Injection, IsInjective, Ordered
<1>4. q \in Surjection(1..n, S)
  BY <1>1, <1>2, <1>3, FS_Injection
<1> QED
  BY <1>4 DEF Surjection

\* There is only one order.
LEMMA OrderedUnique ==
  ASSUME NEW S, S \subseteq Call, NEW q, NEW r, Ordered(q, S), Ordered(r, S)
  PROVE  q = r
<1> DEFINE n == Cardinality(S)
           D == {i \in 1..n : q[i] # r[i]}
<1>1. n \in Nat /\ S \subseteq Nat
  BY FiniteCalls
<1>2. ASSUME NEW a, NEW b, Ordered(a, S), Ordered(b, S), NEW i \in 1..n,
             \A k \in 1..n : k < i => a[k] = b[k]
      PROVE  ~(a[i] < b[i])
  <2> SUFFICES ASSUME a[i] < b[i] PROVE FALSE
    OBVIOUS
  <2>1. a[i] \in S /\ \A k \in 1..n : a[k] \in Nat /\ b[k] \in Nat
    BY <1>1, <1>2 DEF Ordered
  <2>2. PICK j \in 1..n : b[j] = a[i]
    BY <1>2, <2>1, OrderedCovers
  <2>3. CASE j < i
    BY <1>2, <2>1, <2>2, <2>3 DEF Ordered
  <2>4. CASE j = i
    BY <2>1, <2>2, <2>4
  <2>5. CASE j > i
    <3>1. b[i] < b[j]
      BY <1>2, <2>5 DEF Ordered
    <3> QED
      BY <2>1, <2>2, <3>1
  <2> QED
    BY <2>3, <2>4, <2>5
<1>3. ASSUME D # {} PROVE FALSE
  <2>0. D \subseteq Nat
    BY <1>1
  <2>1. PICK i \in D : \A k \in D : i <= k
    <3> HIDE DEF D
    <3> QED
      BY <1>3, <2>0, Smallest
  <2>2. \A k \in 1..n : k < i => q[k] = r[k]
    <3> SUFFICES ASSUME NEW k \in 1..n, k < i, q[k] # r[k] PROVE FALSE
      OBVIOUS
    <3>1. k \in D /\ i \in Nat /\ k \in Nat
      BY <1>1
    <3> QED
      BY <2>1, <3>1
  <2>3. ~(q[i] < r[i]) /\ ~(r[i] < q[i])
    BY <1>2, <2>2
  <2>4. q[i] \in Nat /\ r[i] \in Nat
    BY <1>1 DEF Ordered
  <2> QED
    BY <2>3, <2>4
<1>4. \A i \in 1..n : q[i] = r[i]
  BY <1>3
<1>5. q = [i \in 1..n |-> q[i]] /\ r = [i \in 1..n |-> r[i]]
  BY DEF Ordered
<1>6. [i \in 1..n |-> q[i]] = [i \in 1..n |-> r[i]]
  BY <1>4
<1> QED
  BY <1>5, <1>6

\* The rest of an order is the order of the rest.
LEMMA OrderedRest ==
  ASSUME NEW S, S \subseteq Call, NEW m \in S, \A k \in S : m <= k,
         NEW r, Ordered(r, S \ {m})
  PROVE  /\ Cardinality(S) = Cardinality(S \ {m}) + 1
         /\ Ordered([i \in 1..Cardinality(S) |-> IF i = 1 THEN m ELSE r[i - 1]], S)
<1> DEFINE n == Cardinality(S \ {m})
           q == [i \in 1..Cardinality(S) |-> IF i = 1 THEN m ELSE r[i - 1]]
<1>1. IsFiniteSet(S) /\ S \subseteq Nat /\ Cardinality(S) \in Nat
  BY FiniteCalls
<1>0. n \in Nat
  <2>1. S \ {m} \subseteq Call
    OBVIOUS
  <2> QED
    BY <2>1, FiniteCalls
<1>2. Cardinality(S) = n + 1
  <2>1. n = Cardinality(S) - 1
    BY <1>1, FS_RemoveElement
  <2> QED
    BY <1>0, <1>1, <2>1
<1>3. \A i \in 1..n : r[i] \in S /\ m < r[i]
  <2> SUFFICES ASSUME NEW i \in 1..n PROVE r[i] \in S /\ m < r[i]
    OBVIOUS
  <2>1. r[i] \in S /\ r[i] # m
    BY DEF Ordered
  <2>2. m <= r[i] /\ m \in Nat /\ r[i] \in Nat
    BY <1>1, <2>1
  <2> QED
    BY <2>1, <2>2
<1>4. \A i \in 1..(n + 1) : i # 1 => i - 1 \in 1..n
  BY <1>0
<1>5. q \in [1..(n + 1) -> S]
  BY <1>2, <1>3, <1>4
<1>6. ASSUME NEW i \in 1..(n + 1), NEW j \in 1..(n + 1), i < j PROVE q[i] < q[j]
  <2>1. j # 1 /\ j - 1 \in 1..n /\ q[j] = r[j - 1]
    BY <1>2, <1>4, <1>6
  <2>2. CASE i = 1
    BY <1>2, <1>3, <2>1, <2>2
  <2>3. CASE i # 1
    <3>1. i - 1 \in 1..n /\ q[i] = r[i - 1] /\ i - 1 < j - 1
      BY <1>2, <1>4, <1>6, <2>3
    <3> QED
      BY <2>1, <3>1 DEF Ordered
  <2> QED
    BY <2>2, <2>3
<1> QED
  BY <1>2, <1>5, <1>6 DEF Ordered

\* Every set of calls can be put in order.
LEMMA OrderedExists ==
  ASSUME NEW S, S \subseteq Call
  PROVE  \E q : Ordered(q, S)
<1> DEFINE Bad == {T \in SUBSET Call : ~ \E q : Ordered(q, T)}
<1> SUFFICES ASSUME Bad # {} PROVE FALSE
  OBVIOUS
<1>1. IsFiniteSet(Call)
  BY FiniteCalls
<1>2. Bad \subseteq FiniteSubsetsOf(Call)
  BY <1>1, FS_FiniteSubsetsOfFinite
<1>3. PICK T \in Bad : \A U \in Bad : ~(<<U, T>> \in StrictSubsetOrdering(Call))
  <2> HIDE DEF Bad
  <2> QED
    BY <1>2, FS_StrictSubsetOrderingWellFounded, WFMin
<1>4. T \subseteq Call /\ T \subseteq Nat
  BY FiniteCalls
<1>5. CASE T = {}
  <2>1. Cardinality(T) = 0
    BY <1>5, FS_EmptySet
  <2>2. Ordered([i \in 1..0 |-> 0], T)
    BY <2>1 DEF Ordered
  <2> QED
    BY <2>2
<1>6. CASE T # {}
  <2>1. PICK m \in T : \A k \in T : m <= k
    BY <1>4, <1>6, Smallest
  <2>2. <<T \ {m}, T>> \in StrictSubsetOrdering(Call)
    BY <1>4 DEF StrictSubsetOrdering
  <2>3. PICK r : Ordered(r, T \ {m})
    BY <1>3, <1>4, <2>2
  <2> QED
    BY <1>4, <2>1, <2>3, OrderedRest
<1> QED
  BY <1>5, <1>6

\* InOrder is that order.
LEMMA InOrderIs == \A S \in SUBSET Call : Ordered(InOrder(S), S)
<1> SUFFICES ASSUME NEW S \in SUBSET Call PROVE Ordered(InOrder(S), S)
  OBVIOUS
<1>1. PICK q : Ordered(q, S)
  BY OrderedExists
<1> QED
  BY <1>1 DEF Ordered, InOrder

\* It begins with the first of the calls and goes on with the others.
LEMMA InOrderRest ==
  ASSUME NEW S \in SUBSET Call, NEW m \in S, \A k \in S : m <= k
  PROVE  /\ Cardinality(S) = Cardinality(S \ {m}) + 1
         /\ Cardinality(S \ {m}) \in Nat
         /\ InOrder(S) = [i \in 1..Cardinality(S) |-> IF i = 1 THEN m ELSE InOrder(S \ {m})[i - 1]]
<1> DEFINE r == InOrder(S \ {m})
           q == [i \in 1..Cardinality(S) |-> IF i = 1 THEN m ELSE r[i - 1]]
<1>1. S \subseteq Call /\ S \ {m} \subseteq Call
  OBVIOUS
<1>2. Ordered(r, S \ {m}) /\ Ordered(InOrder(S), S)
  BY <1>1, InOrderIs
<1>3. Cardinality(S) = Cardinality(S \ {m}) + 1 /\ Ordered(q, S)
  <2> HIDE DEF r
  <2> QED
    BY <1>1, <1>2, OrderedRest
<1>4. Cardinality(S \ {m}) \in Nat
  BY <1>1, FiniteCalls
<1>5. InOrder(S) = q
  <2> HIDE DEF q
  <2> QED
    BY <1>1, <1>2, <1>3, OrderedUnique
<1> QED
  BY <1>3, <1>4, <1>5

----------------------------------------------------------------------------
(* The log as its readers see it, and what one event makes of it.          *)

View == [trace |-> trace, scan |-> scan, lastTurn |-> lastTurn, answers |-> answers]

Counts(a, e) ==
    IF e.type = "assistant/message" THEN [c \in 1..e.arg |-> 0]
    ELSE IF IsResult(e) /\ e.arg \in DOMAIN a THEN [a EXCEPT ![e.arg] = @ + 1]
    ELSE a

After(v, e, a) ==
    [trace    |-> Traced(v.trace, e),
     scan     |-> Scanned(v.scan, e),
     lastTurn |-> IF e.type = "turn/start" THEN e.turn ELSE v.lastTurn,
     answers  |-> a]

\* What Drain makes of the log; a repair keeps the answers of the step it ends.
Drained(v, e) == After(v, e, IF e.type = "step/end" THEN <<>> ELSE Counts(v.answers, e))
Repaired(v, e) == After(v, e, Counts(v.answers, e))

InTurn(v, e) == v.trace.openTurn # 0 /\ e.turn = v.trace.openTurn
InStep(v, e) == InTurn(v, e) /\ v.trace.openStep # 0 /\ e.step = v.trace.openStep

\* The events that the driver and a repair may append to a log.
Follows(v, e) ==
    \/ e.type = "turn/start" /\ v.trace.openTurn = 0 /\ e.turn = v.trace.nextTurn
    \/ e.type = "turn/end" /\ InTurn(v, e) /\ v.trace.openStep = 0
    \/ e.type = "step/start" /\ InTurn(v, e) /\ v.trace.openStep = 0 /\ e.step = v.trace.nextStep
    \/ e.type = "step/end" /\ InStep(v, e)
    \/ e.type = "assistant/message" /\ InStep(v, e) /\ v.scan.pending = NothingPending
    \/ e.type = "tool/call" /\ InStep(v, e) /\ e.arg \in Call /\ v.scan.pending[e.arg] = "requested"
    \/ /\ e.type = "tool/result" /\ InStep(v, e)
       /\ e.arg \in Call /\ v.scan.pending[e.arg] = "recorded"
    \/ /\ e.type = "tool/not-started" /\ InStep(v, e)
       /\ e.arg \in Call /\ v.scan.pending[e.arg] = "requested"

TraceType ==
    [openTurn : Nat, openStep : Nat, nextTurn : Nat \ {0}, nextStep : Nat \ {0},
     pendingCalls : SUBSET Call, last : TL!EventTypes]

ScanType == [turn : Nat, step : Nat, pending : [Call -> {"no", "requested", "recorded"}]]

\* The three readers agree on what is open, and the results are counted.
Sound(v) ==
    /\ v.trace \in TraceType /\ v.scan \in ScanType /\ v.lastTurn \in Nat
    /\ v.trace.openTurn \in {0, v.trace.nextTurn}
    /\ v.trace.openStep \in {0, v.trace.nextStep}
    /\ v.trace.openTurn = 0 => v.trace.openStep = 0
    /\ v.trace.openStep = 0 => v.scan.pending = NothingPending
    /\ v.scan.turn = v.trace.openTurn
    /\ v.scan.step = v.trace.openStep
    /\ v.trace.pendingCalls = {c \in Call : v.scan.pending[c] = "recorded"}
    /\ v.trace.nextTurn = IF v.trace.openTurn = 0 THEN v.lastTurn + 1 ELSE v.lastTurn
    /\ DOMAIN v.answers \subseteq Call
    /\ \A c \in DOMAIN v.answers : v.answers[c] = IF v.scan.pending[c] = "no" THEN 1 ELSE 0
    /\ \A c \in Call : v.scan.pending[c] # "no" => c \in DOMAIN v.answers

LEMMA EventTypeNames ==
  {"turn/start", "turn/end", "step/start", "step/end", "assistant/message",
   "tool/call", "tool/result", "tool/not-started"} \subseteq TL!EventTypes
  BY DEF TL!EventTypes, TL!StepScoped

\* Whatever follows in a sound log leaves it sound.
LEMMA SoundAfter ==
  ASSUME NEW v, Sound(v), NEW e \in EventType, Follows(v, e),
         NEW a, \/ a = Counts(v.answers, e) /\ (e.type = "step/end" => v.scan.pending = NothingPending)
                \/ a = <<>> /\ e.type = "step/end"
  PROVE  Sound(After(v, e, a))
<1> DEFINE t == Traced(v.trace, e)
           s == Scanned(v.scan, e)
           w == After(v, e, a)
           l == IF e.type = "turn/start" THEN e.turn ELSE v.lastTurn
<1>1. w.trace = t /\ w.scan = s /\ w.lastTurn = l /\ w.answers = a
  BY DEF After
<1>2. /\ e.turn \in Nat /\ e.step \in Nat /\ e.arg \in 0..N
      /\ v.trace \in TraceType /\ v.scan \in ScanType /\ v.lastTurn \in Nat
  BY DEF EventType, Sound
<1>3. SUFFICES
        /\ t \in TraceType /\ s \in ScanType /\ l \in Nat
        /\ t.openTurn \in {0, t.nextTurn}
        /\ t.openStep \in {0, t.nextStep}
        /\ t.openTurn = 0 => t.openStep = 0
        /\ t.openStep = 0 => s.pending = NothingPending
        /\ s.turn = t.openTurn
        /\ s.step = t.openStep
        /\ t.pendingCalls = {c \in Call : s.pending[c] = "recorded"}
        /\ t.nextTurn = IF t.openTurn = 0 THEN l + 1 ELSE l
        /\ DOMAIN a \subseteq Call
        /\ \A c \in DOMAIN a : a[c] = IF s.pending[c] = "no" THEN 1 ELSE 0
        /\ \A c \in Call : s.pending[c] # "no" => c \in DOMAIN a
  BY <1>1 DEF Sound
<1>4. CASE e.type = "turn/start"
  <2>0. "turn/start" \in TL!EventTypes
    BY EventTypeNames
  <2>1. t = [v.trace EXCEPT !.last = "turn/start", !.openTurn = e.turn, !.nextStep = 1]
    BY <1>4 DEF Traced, Stamped, IsResult
  <2>2. s = [turn |-> e.turn, step |-> 0, pending |-> NothingPending]
    BY <1>4 DEF Scanned, IsResult, ResultTaken
  <2>3. a = v.answers /\ v.scan.pending = NothingPending
    BY <1>4 DEF Counts, IsResult, Sound, Follows
  <2>4a. t \in TraceType
    <3>1. 1 \in Nat \ {0}
      BY <1>2 DEF TraceType
    <3> QED
      BY <1>2, <2>1, <2>0, <3>1 DEF TraceType
  <2>4. /\ t \in TraceType /\ t.openTurn = e.turn /\ t.openStep = v.trace.openStep
        /\ t.nextTurn = v.trace.nextTurn /\ t.nextStep = 1 /\ t.pendingCalls = v.trace.pendingCalls
    BY <1>2, <2>1, <2>0, <2>4a DEF TraceType
  <2>5. s \in ScanType
    BY <1>2, <2>2 DEF ScanType, NothingPending
  <2>6. v.trace.openStep = 0 /\ v.trace.openTurn = 0 /\ e.turn = v.trace.nextTurn /\ e.turn # 0
    BY <1>2, <1>4 DEF Follows, Sound, TraceType
  <2> QED
    BY <1>2, <1>4, <2>2, <2>3, <2>4, <2>5, <2>6 DEF Sound
<1>5. CASE e.type = "turn/end"
  <2>0. "turn/end" \in TL!EventTypes
    BY EventTypeNames
  <2>1. t = [v.trace EXCEPT !.last = "turn/end", !.openTurn = 0, !.nextTurn = @ + 1]
    BY <1>2, <1>5 DEF Traced, Stamped, IsResult, Follows, InTurn, TraceType
  <2>2. s = [turn |-> 0, step |-> 0, pending |-> NothingPending]
    BY <1>5 DEF Scanned, IsResult, ResultTaken
  <2>3. a = v.answers /\ v.scan.pending = NothingPending
    BY <1>5 DEF Counts, IsResult, Sound, Follows
  <2>4a. t \in TraceType
    <3>1. v.trace.nextTurn + 1 \in Nat \ {0} /\ 0 \in Nat
      BY <1>2 DEF TraceType
    <3> QED
      BY <1>2, <2>1, <2>0, <3>1 DEF TraceType
  <2>4. /\ t \in TraceType /\ t.openTurn = 0 /\ t.openStep = v.trace.openStep
        /\ t.nextTurn = v.trace.nextTurn + 1 /\ t.nextStep = v.trace.nextStep
        /\ t.pendingCalls = v.trace.pendingCalls
    BY <1>2, <2>1, <2>0, <2>4a DEF TraceType
  <2>5. s \in ScanType
    BY <1>2, <2>2 DEF ScanType, NothingPending
  <2>6. v.trace.openStep = 0 /\ v.trace.openTurn # 0 /\ v.trace.nextTurn = v.lastTurn
    BY <1>2, <1>5 DEF Follows, InTurn, Sound, TraceType
  <2> QED
    BY <1>2, <1>5, <2>2, <2>3, <2>4, <2>5, <2>6 DEF Sound
<1>6. CASE e.type = "step/start"
  <2>0. "step/start" \in TL!EventTypes
    BY EventTypeNames
  <2>1. t = [v.trace EXCEPT !.last = "step/start", !.openStep = e.step]
    BY <1>2, <1>6 DEF Traced, Stamped, IsResult, Follows, InTurn, TraceType
  <2>2. s = [v.scan EXCEPT !.step = e.step]
    BY <1>6 DEF Scanned, IsResult, ResultTaken
  <2>3. a = v.answers
    BY <1>6 DEF Counts, IsResult
  <2>4a. t \in TraceType
    BY <1>2, <2>1, <2>0 DEF TraceType
  <2>4. /\ t \in TraceType /\ t.openTurn = v.trace.openTurn /\ t.openStep = e.step
        /\ t.nextTurn = v.trace.nextTurn /\ t.nextStep = v.trace.nextStep
        /\ t.pendingCalls = v.trace.pendingCalls
    BY <1>2, <2>1, <2>0, <2>4a DEF TraceType
  <2>5. s \in ScanType /\ s.turn = v.scan.turn /\ s.step = e.step /\ s.pending = v.scan.pending
    BY <1>2, <2>2 DEF ScanType
  <2>6. v.trace.openTurn # 0 /\ e.step = v.trace.nextStep /\ e.step # 0
    BY <1>2, <1>6 DEF Follows, InTurn, TraceType
  <2> QED
    BY <1>2, <1>6, <2>3, <2>4, <2>5, <2>6 DEF Sound
<1>7. CASE e.type = "step/end"
  <2>0. "step/end" \in TL!EventTypes
    BY EventTypeNames
  <2>1. t = [v.trace EXCEPT !.last = "step/end", !.openStep = 0, !.nextStep = @ + 1, !.pendingCalls = {}]
    BY <1>2, <1>7 DEF Traced, Stamped, IsResult, Follows, InStep, InTurn, TraceType
  <2>2. s = [v.scan EXCEPT !.step = 0, !.pending = NothingPending]
    BY <1>7 DEF Scanned, IsResult, ResultTaken
  <2>3. \/ a = v.answers /\ v.scan.pending = NothingPending
        \/ a = <<>>
    BY <1>7 DEF Counts, IsResult
  <2>4. DOMAIN a \subseteq Call /\ \A c \in DOMAIN a : a[c] = 1
    BY <2>3 DEF Sound, NothingPending
  <2>5a. t \in TraceType
    <3>1. v.trace.nextStep + 1 \in Nat \ {0} /\ 0 \in Nat
      BY <1>2 DEF TraceType
    <3> QED
      BY <1>2, <2>1, <2>0, <3>1 DEF TraceType
  <2>5. /\ t \in TraceType /\ t.openTurn = v.trace.openTurn /\ t.openStep = 0
        /\ t.nextTurn = v.trace.nextTurn /\ t.pendingCalls = {}
    BY <1>2, <2>1, <2>0, <2>5a DEF TraceType
  <2>6. s \in ScanType /\ s.turn = v.scan.turn /\ s.step = 0 /\ s.pending = NothingPending
    <3>1. NothingPending \in [Call -> {"no", "requested", "recorded"}]
      BY DEF NothingPending
    <3>2. s = [turn |-> v.scan.turn, step |-> 0, pending |-> NothingPending]
      BY <1>2, <2>2 DEF ScanType
    <3> QED
      BY <1>2, <3>1, <3>2 DEF ScanType
  <2>7. \A c \in Call : NothingPending[c] = "no"
    BY DEF NothingPending
  <2> QED
    BY <1>2, <1>7, <2>4, <2>5, <2>6, <2>7 DEF Sound
<1>8. CASE e.type = "assistant/message"
  <2>0. "assistant/message" \in TL!EventTypes
    BY EventTypeNames
  <2>1. t = [v.trace EXCEPT !.last = "assistant/message"]
    BY <1>2, <1>8 DEF Traced, Stamped, IsResult, Follows, InStep, InTurn, TraceType
  <2>2. s = [v.scan EXCEPT !.pending = [c \in Call |-> IF c <= e.arg THEN "requested" ELSE "no"]]
    BY <1>2, <1>8 DEF Scanned, IsResult, ResultTaken, ScanType, Follows, NothingPending
  <2>3. a = [c \in 1..e.arg |-> 0]
    BY <1>8 DEF Counts
  <2>4. 1..e.arg \subseteq Call /\ \A c \in Call : c <= e.arg <=> c \in 1..e.arg
    BY <1>2, BoundsAssumption DEF Call
  <2>5. s.pending = [c \in Call |-> IF c <= e.arg THEN "requested" ELSE "no"]
    BY <1>2, <2>2 DEF ScanType
  <2>6. t.pendingCalls = {}
    BY <1>2, <1>8, <2>1 DEF Follows, Sound, NothingPending, TraceType
  <2>7a. t \in TraceType
    BY <1>2, <1>8, <2>1, <2>0 DEF TraceType
  <2>7. /\ t \in TraceType /\ t.openTurn = v.trace.openTurn /\ t.openStep = v.trace.openStep
        /\ t.nextTurn = v.trace.nextTurn /\ t.nextStep = v.trace.nextStep /\ t.openStep # 0
    BY <1>2, <1>8, <2>1, <2>0, <2>7a DEF TraceType, Follows, InStep
  <2>8. s \in ScanType /\ s.turn = v.scan.turn /\ s.step = v.scan.step
    BY <1>2, <2>2 DEF ScanType
  <2>9. \A c \in Call : s.pending[c] # "recorded"
    BY <2>5
  <2>10. DOMAIN a = 1..e.arg /\ \A c \in DOMAIN a : a[c] = 0 /\ s.pending[c] # "no"
    BY <2>3, <2>4, <2>5
  <2>11. \A c \in Call : s.pending[c] # "no" => c \in 1..e.arg
    BY <2>4, <2>5
  <2> QED
    BY <1>2, <1>8, <2>4, <2>6, <2>7, <2>8, <2>9, <2>10, <2>11 DEF Sound
<1>9. CASE e.type = "tool/call"
  <2>0. "tool/call" \in TL!EventTypes
    BY EventTypeNames
  <2>1. t = [v.trace EXCEPT !.last = "tool/call", !.pendingCalls = @ \cup {e.arg}]
    BY <1>2, <1>9 DEF Traced, Stamped, IsResult, Follows, InStep, InTurn, TraceType
  <2>2. s = [v.scan EXCEPT !.pending[e.arg] = "recorded"]
    BY <1>9 DEF Scanned, IsResult, ResultTaken, Follows
  <2>3. a = v.answers
    BY <1>9 DEF Counts, IsResult
  <2>4. e.arg \in Call /\ v.scan.pending[e.arg] = "requested"
    BY <1>9 DEF Follows
  <2>5. s.pending = [v.scan.pending EXCEPT ![e.arg] = "recorded"]
    BY <1>2, <2>2 DEF ScanType
  <2>6. t.pendingCalls = {c \in Call : s.pending[c] = "recorded"}
    BY <1>2, <2>1, <2>4, <2>5 DEF Sound, TraceType, ScanType
  <2>7a. t \in TraceType
    <3>1. v.trace.pendingCalls \cup {e.arg} \in SUBSET Call
      BY <1>2, <2>4 DEF TraceType
    <3> QED
      BY <1>2, <2>0, <2>1, <3>1 DEF TraceType
  <2>7. /\ t \in TraceType /\ t.openTurn = v.trace.openTurn /\ t.openStep = v.trace.openStep
        /\ t.nextTurn = v.trace.nextTurn /\ t.nextStep = v.trace.nextStep /\ t.openStep # 0
    BY <1>2, <1>9, <2>1, <2>4, <2>0, <2>7a DEF TraceType, Follows, InStep
  <2>8. s \in ScanType /\ s.turn = v.scan.turn /\ s.step = v.scan.step
    BY <1>2, <2>2 DEF ScanType
  <2>9. \A c \in Call : s.pending[c] = "no" <=> v.scan.pending[c] = "no"
    BY <1>2, <2>4, <2>5 DEF ScanType
  <2> QED
    BY <1>2, <1>9, <2>3, <2>6, <2>7, <2>8, <2>9 DEF Sound
<1>10. CASE IsResult(e)
  <2>0. e.type \in {"tool/result", "tool/not-started"} /\ e.type \in TL!EventTypes
    BY <1>10, EventTypeNames DEF IsResult
  <2>1. t = [v.trace EXCEPT !.last = e.type, !.pendingCalls = @ \ {e.arg}]
    BY <1>2, <1>10, <2>0 DEF Traced, Stamped, Follows, InStep, InTurn, TraceType
  <2>2. s = [v.scan EXCEPT !.pending[e.arg] = "no"]
    BY <1>10, <2>0 DEF Scanned, IsResult, ResultTaken
  <2>4. e.arg \in Call /\ v.scan.pending[e.arg] # "no"
    BY <2>0 DEF Follows
  <2>3. a = [v.answers EXCEPT ![e.arg] = @ + 1] /\ e.arg \in DOMAIN v.answers
    BY <1>10, <2>0, <2>4 DEF Counts, Sound
  <2>5. s.pending = [v.scan.pending EXCEPT ![e.arg] = "no"]
    BY <1>2, <2>2 DEF ScanType
  <2>6. t.pendingCalls = {c \in Call : s.pending[c] = "recorded"}
    BY <1>2, <2>1, <2>4, <2>5 DEF Sound, TraceType, ScanType
  <2>7. DOMAIN a = DOMAIN v.answers /\ \A c \in DOMAIN a : a[c] = IF s.pending[c] = "no" THEN 1 ELSE 0
    <3>1. v.answers[e.arg] = 0
      BY <2>3, <2>4 DEF Sound
    <3> QED
      BY <1>2, <2>3, <2>4, <2>5, <3>1 DEF Sound, ScanType
  <2>8. /\ t.openTurn = v.trace.openTurn /\ t.openStep = v.trace.openStep
        /\ t.nextTurn = v.trace.nextTurn
        /\ t.nextStep = v.trace.nextStep /\ t \in TraceType /\ t.openStep # 0
    BY <1>2, <2>0, <2>1 DEF TraceType, Follows, InStep
  <2>9. s.turn = v.scan.turn /\ s.step = v.scan.step /\ s \in ScanType
    BY <1>2, <2>2 DEF ScanType
  <2> QED
    BY <1>2, <2>0, <2>4, <2>5, <2>6, <2>7, <2>8, <2>9 DEF Sound, ScanType
<1> QED
  BY <1>4, <1>5, <1>6, <1>7, <1>8, <1>9, <1>10 DEF Follows, IsResult

\* What follows in a sound log is a step of the grammar.
LEMMA GrammarAfter ==
  ASSUME Sound(View), NEW e \in EventType, Follows(View, e), trace' = Traced(trace, e)
  PROVE  TL!Next
<1>0. View.trace = trace /\ View.scan = scan
  BY DEF View
<1>1. trace \in TraceType /\ e.turn \in Nat /\ e.step \in Nat
  BY <1>0 DEF Sound, EventType
<1>2. CASE e.type = "turn/start"
  <2>1. trace' = [trace EXCEPT !.last = "turn/start", !.openTurn = e.turn, !.nextStep = 1]
    BY <1>2 DEF Traced, Stamped, IsResult
  <2> QED
    BY <1>0, <1>1, <1>2, <2>1 DEF Follows, TraceType, TL!Next, TL!TurnStart
<1>3. CASE e.type = "turn/end"
  <2>1. trace' = [trace EXCEPT !.last = "turn/end", !.openTurn = 0, !.nextTurn = @ + 1]
    BY <1>0, <1>1, <1>3 DEF Traced, Stamped, IsResult, Follows, InTurn, TraceType
  <2> QED
    BY <1>0, <1>1, <1>3, <2>1 DEF Follows, InTurn, TraceType, TL!Next, TL!TurnEnd
<1>4. CASE e.type = "step/start"
  <2>1. trace' = [trace EXCEPT !.last = "step/start", !.openStep = e.step]
    BY <1>0, <1>1, <1>4 DEF Traced, Stamped, IsResult, Follows, InTurn, TraceType
  <2> QED
    BY <1>0, <1>1, <1>4, <2>1 DEF Follows, InTurn, TraceType, TL!Next, TL!StepStart
<1>5. CASE e.type = "step/end"
  <2>1. trace' = [trace EXCEPT !.last = "step/end", !.openStep = 0, !.nextStep = @ + 1, !.pendingCalls = {}]
    BY <1>0, <1>1, <1>5 DEF Traced, Stamped, IsResult, Follows, InStep, InTurn, TraceType
  <2> QED
    BY <1>0, <1>1, <1>5, <2>1 DEF Follows, InStep, InTurn, TraceType, TL!Next, TL!StepEnd
<1>6. CASE e.type = "assistant/message"
  <2>1. trace' = [trace EXCEPT !.last = "assistant/message"]
    BY <1>0, <1>1, <1>6 DEF Traced, Stamped, IsResult, Follows, InStep, InTurn, TraceType
  <2>2. TL!Event("assistant/message")
    BY <1>0, <1>1, <1>6, <2>1 DEF Follows, InStep, InTurn, TraceType, TL!Event, TL!StepScoped
  <2> QED
    BY <2>2 DEF TL!Next, TL!StepScoped
<1>7. CASE e.type = "tool/call"
  <2>1. trace' = [trace EXCEPT !.last = "tool/call", !.pendingCalls = @ \cup {e.arg}]
    BY <1>0, <1>1, <1>7 DEF Traced, Stamped, IsResult, Follows, InStep, InTurn, TraceType
  <2>2. TL!ToolCall(e.arg) /\ e.arg \in Call
    BY <1>0, <1>1, <1>7, <2>1 DEF Follows, InStep, InTurn, TraceType, TL!ToolCall
  <2> QED
    BY <2>2 DEF TL!Next
<1>8. CASE IsResult(e)
  <2>0. e.type \in {"tool/result", "tool/not-started"}
    BY <1>8 DEF IsResult
  <2>1. trace' = [trace EXCEPT !.last = e.type, !.pendingCalls = @ \ {e.arg}]
    BY <1>0, <1>1, <1>8, <2>0 DEF Traced, Stamped, Follows, InStep, InTurn, TraceType
  <2>2. e.type = "tool/result" => e.arg \in trace.pendingCalls
    BY <1>0, <2>0 DEF Follows, Sound
  <2>3. TL!ToolResult(e.arg) /\ e.arg \in Call
    BY <1>0, <1>1, <2>0, <2>1, <2>2 DEF Follows, InStep, InTurn, TraceType, TL!ToolResult
  <2> QED
    BY <2>3 DEF TL!Next
<1> QED
  BY <1>2, <1>3, <1>4, <1>5, <1>6, <1>7, <1>8 DEF Follows, IsResult

----------------------------------------------------------------------------
(* The write buffer: the events lead from the stored log to the live one.  *)

Leads(v, q, w) ==
    \E L : /\ L[0] = v /\ L[Len(q)] = w
           /\ \A i \in 0..Len(q) : Sound(L[i])
           /\ \A i \in 1..Len(q) : Follows(L[i - 1], q[i]) /\ L[i] = Drained(L[i - 1], q[i])

\* With an empty buffer the two are one.
LEMMA LeadsNowhere ==
  ASSUME NEW v, NEW w
  PROVE  Leads(v, <<>>, w) <=> v = w /\ Sound(v)
<1>1. ASSUME v = w, Sound(v) PROVE Leads(v, <<>>, w)
  <2> DEFINE L == [i \in 0..0 |-> v]
  <2>1. L[0] = v /\ L[Len(<<>>)] = w /\ \A i \in 0..Len(<<>>) : Sound(L[i])
    BY <1>1
  <2>2. \A i \in 1..Len(<<>>) : FALSE
    OBVIOUS
  <2> HIDE DEF L
  <2> QED
    BY <2>1, <2>2 DEF Leads
<1>2. ASSUME Leads(v, <<>>, w) PROVE v = w /\ Sound(v)
  <2>1. PICK L : L[0] = v /\ L[Len(<<>>)] = w /\ \A i \in 0..Len(<<>>) : Sound(L[i])
    BY <1>2 DEF Leads
  <2> QED
    BY <2>1
<1> QED
  BY <1>1, <1>2

\* Both ends are sound.
LEMMA LeadsSound ==
  ASSUME NEW v, NEW w, NEW q \in Seq(EventType), Leads(v, q, w)
  PROVE  Sound(v) /\ Sound(w)
<1>1. PICK L : L[0] = v /\ L[Len(q)] = w /\ \A i \in 0..Len(q) : Sound(L[i])
  BY DEF Leads
<1>2. 0 \in 0..Len(q) /\ Len(q) \in 0..Len(q)
  OBVIOUS
<1> QED
  BY <1>1, <1>2

\* The driver appends.
LEMMA LeadsOn ==
  ASSUME NEW v, NEW w, NEW q \in Seq(EventType), Leads(v, q, w),
         NEW e \in EventType, Follows(w, e)
  PROVE  Leads(v, Append(q, e), Drained(w, e))
<1>1. PICK L : /\ L[0] = v /\ L[Len(q)] = w
               /\ \A i \in 0..Len(q) : Sound(L[i])
               /\ \A i \in 1..Len(q) : Follows(L[i - 1], q[i]) /\ L[i] = Drained(L[i - 1], q[i])
  BY DEF Leads
<1> DEFINE n == Len(q)
           p == Append(q, e)
           u == Drained(w, e)
           M == [i \in 0..(n + 1) |-> IF i = n + 1 THEN u ELSE L[i]]
<1>2. n \in Nat /\ Len(p) = n + 1 /\ p[n + 1] = e /\ \A i \in 1..n : p[i] = q[i]
  OBVIOUS
<1>3. Sound(u)
  <2>1. Sound(w)
    BY LeadsSound
  <2> QED
    BY <2>1, SoundAfter DEF Drained
<1>4. M[0] = v /\ M[n + 1] = u /\ \A i \in 0..n : M[i] = L[i]
  BY <1>1, <1>2
<1> HIDE DEF M, p, u
<1>5. \A i \in 0..(n + 1) : Sound(M[i])
  <2> SUFFICES ASSUME NEW i \in 0..(n + 1) PROVE Sound(M[i])
    OBVIOUS
  <2>1. CASE i = n + 1
    BY <1>3, <1>4, <2>1
  <2>2. CASE i \in 0..n
    BY <1>1, <1>4, <2>2
  <2> QED
    BY <1>2, <2>1, <2>2
<1>6. ASSUME NEW i \in 1..(n + 1) PROVE Follows(M[i - 1], p[i]) /\ M[i] = Drained(M[i - 1], p[i])
  <2>1. CASE i = n + 1
    <3>1. i - 1 = n /\ n \in 0..n /\ M[i - 1] = w /\ M[i] = u /\ p[i] = e
      BY <1>1, <1>2, <1>4, <2>1
    <3> QED
      BY <3>1 DEF u
  <2>2. CASE i \in 1..n
    <3>1. i - 1 \in 0..n /\ i \in 0..n /\ M[i - 1] = L[i - 1] /\ M[i] = L[i] /\ p[i] = q[i]
      BY <1>2, <1>4, <2>2
    <3> QED
      BY <1>1, <2>2, <3>1
  <2> QED
    BY <1>2, <2>1, <2>2
<1>7. Leads(v, p, u)
  BY <1>2, <1>4, <1>5, <1>6 DEF Leads
<1> QED
  BY <1>7 DEF p, u

\* Storage takes the first.
LEMMA LeadsHead ==
  ASSUME NEW v, NEW w, NEW q \in Seq(EventType), Leads(v, q, w), q # <<>>
  PROVE  /\ Sound(v) /\ Head(q) \in EventType /\ Follows(v, Head(q))
         /\ Leads(Drained(v, Head(q)), Tail(q), w)
<1>1. PICK L : /\ L[0] = v /\ L[Len(q)] = w
               /\ \A i \in 0..Len(q) : Sound(L[i])
               /\ \A i \in 1..Len(q) : Follows(L[i - 1], q[i]) /\ L[i] = Drained(L[i - 1], q[i])
  BY DEF Leads
<1> DEFINE n == Len(q) - 1
           M == [i \in 0..n |-> L[i + 1]]
<1>2. /\ n \in Nat /\ Len(Tail(q)) = n /\ Len(q) = n + 1
      /\ Head(q) = q[1] /\ Head(q) \in EventType
      /\ \A i \in 1..n : Tail(q)[i] = q[i + 1]
  <2>1. Len(q) \in Nat /\ Len(q) # 0
    OBVIOUS
  <2> QED
    BY <2>1, HeadTailProperties
<1>3. \A i \in 0..n : M[i] = L[i + 1] /\ i + 1 \in 0..Len(q) /\ i + 1 \in 1..Len(q) /\ i + 1 - 1 = i
  BY <1>2
<1>4. 1 \in 1..Len(q) /\ 0 \in 0..Len(q) /\ 1 - 1 = 0 /\ 0 \in 0..n /\ n \in 0..n
  BY <1>2
<1>5. Sound(v) /\ Follows(v, Head(q)) /\ L[1] = Drained(v, Head(q))
  BY <1>1, <1>2, <1>4
<1> HIDE DEF M
<1>6. M[0] = Drained(v, Head(q)) /\ M[n] = w
  <2>1. M[0] = L[0 + 1] /\ M[n] = L[n + 1]
    BY <1>3, <1>4
  <2> QED
    BY <1>1, <1>2, <1>5, <2>1
<1>7. \A i \in 0..n : Sound(M[i])
  BY <1>1, <1>3
<1>8. ASSUME NEW i \in 1..n
      PROVE  Follows(M[i - 1], Tail(q)[i]) /\ M[i] = Drained(M[i - 1], Tail(q)[i])
  <2>1. i - 1 \in 0..n /\ i \in 0..n /\ i + 1 \in 1..Len(q) /\ (i - 1) + 1 = i /\ (i + 1) - 1 = i
    BY <1>2
  <2>2. M[i - 1] = L[i] /\ M[i] = L[i + 1] /\ Tail(q)[i] = q[i + 1]
    BY <1>2, <1>3, <2>1
  <2>3. Follows(L[(i + 1) - 1], q[i + 1]) /\ L[i + 1] = Drained(L[(i + 1) - 1], q[i + 1])
    BY <1>1, <2>1
  <2> QED
    BY <2>1, <2>2, <2>3
<1>9. Leads(Drained(v, Head(q)), Tail(q), w)
  BY <1>2, <1>6, <1>7, <1>8 DEF Leads
<1> QED
  BY <1>2, <1>5, <1>9

----------------------------------------------------------------------------
(* What a repair appends.                                                  *)

Ends(s) == StepCloser(s) \o TurnCloser(s)

LEMMA ResultClosersType ==
  ASSUME NEW s \in ScanType
  PROVE  /\ ResultClosers(s) \in Seq(EventType)
         /\ Len(ResultClosers(s)) = Cardinality(OpenCalls(s))
         /\ \A i \in 1..Len(ResultClosers(s)) :
                /\ InOrder(OpenCalls(s))[i] \in OpenCalls(s)
                /\ ResultClosers(s)[i] = ResultCloser(s, InOrder(OpenCalls(s))[i])
<1> DEFINE O == OpenCalls(s)
           n == Cardinality(O)
<1>1. O \subseteq Call /\ n \in Nat
  <2>1. O \subseteq Call
    BY DEF OpenCalls
  <2> QED
    BY <2>1, FiniteCalls
<1>2. InOrder(O) \in [1..n -> O]
  BY <1>1, InOrderIs DEF Ordered
<1>3. \A c \in Call : ResultCloser(s, c) \in EventType
  BY EventTypeNames, BoundsAssumption DEF ResultCloser, Event, EventType, ScanType, Call
<1>4. \A i \in 1..n : InOrder(O)[i] \in O /\ ResultCloser(s, InOrder(O)[i]) \in EventType
  BY <1>1, <1>2, <1>3
<1>5. ResultClosers(s) = [i \in 1..n |-> ResultCloser(s, InOrder(O)[i])]
  BY DEF ResultClosers
<1> HIDE DEF O
<1>6. ResultClosers(s) \in [1..n -> EventType]
  BY <1>4, <1>5
<1>7. ResultClosers(s) \in Seq(EventType) /\ Len(ResultClosers(s)) = n
  BY <1>1, <1>6
<1> QED
  BY <1>4, <1>5, <1>7 DEF O

LEMMA EndsType ==
  ASSUME NEW s \in ScanType
  PROVE  /\ StepCloser(s) \in Seq(EventType) /\ TurnCloser(s) \in Seq(EventType)
         /\ Ends(s) \in Seq(EventType)
         /\ s.step = 0 => Ends(s) = <<Event("turn/end", s.turn, 0, 0)>>
         /\ s.step # 0 => Ends(s) = <<Event("step/end", s.turn, s.step, 0), Event("turn/end", s.turn, 0, 0)>>
<1>1. /\ Event("step/end", s.turn, s.step, 0) \in EventType
      /\ Event("turn/end", s.turn, 0, 0) \in EventType
  BY EventTypeNames, BoundsAssumption DEF Event, EventType, ScanType
<1> QED
  <2> DEFINE a == Event("step/end", s.turn, s.step, 0)
             b == Event("turn/end", s.turn, 0, 0)
  <2>1. StepCloser(s) = (IF s.step = 0 THEN <<>> ELSE <<a>>) /\ TurnCloser(s) = <<b>>
    BY DEF StepCloser, TurnCloser
  <2>2. a \in EventType /\ b \in EventType
    BY <1>1
  <2> HIDE DEF a, b
  <2>3. <<>> \o <<b>> = <<b>> /\ <<a>> \o <<b>> = <<a, b>>
    <3>1. /\ <<a>> \in Seq(EventType) /\ <<b>> \in Seq(EventType) /\ <<a, b>> \in Seq(EventType)
          /\ Len(<<a>>) = 1 /\ Len(<<b>>) = 1 /\ Len(<<a, b>>) = 2
      BY <2>2
    <3>2. <<>> \o <<b>> = <<b>>
      BY <3>1, ConcatEmptySeq
    <3>3. /\ <<a>> \o <<b>> \in Seq(EventType) /\ Len(<<a>> \o <<b>>) = 2
          /\ (<<a>> \o <<b>>)[1] = a /\ (<<a>> \o <<b>>)[2] = b
      BY <3>1, ConcatProperties
    <3>4. \A i \in 1..2 : (<<a>> \o <<b>>)[i] = <<a, b>>[i]
      BY <3>3
    <3>5. <<a>> \o <<b>> = <<a, b>>
      BY <3>1, <3>3, <3>4, SeqEqual
    <3> QED
      BY <3>2, <3>5
  <2>4. <<b>> \in Seq(EventType) /\ <<a>> \in Seq(EventType) /\ <<a, b>> \in Seq(EventType)
    BY <2>2
  <2>5. CASE s.step = 0
    <3>1. StepCloser(s) = <<>> /\ Ends(s) = <<b>>
      BY <2>1, <2>3, <2>5 DEF Ends
    <3> QED
      BY <2>1, <2>4, <2>5, <3>1 DEF b
  <2>6. CASE s.step # 0
    <3>1. StepCloser(s) = <<a>> /\ Ends(s) = <<a, b>>
      BY <2>1, <2>3, <2>6 DEF Ends
    <3> QED
      BY <2>1, <2>4, <2>6, <3>1 DEF a, b
  <2> QED
    BY <2>5, <2>6

LEMMA ClosersType ==
  ASSUME NEW s \in ScanType
  PROVE  /\ Closers(s) \in Seq(EventType)
         /\ s.turn = 0 => Closers(s) = <<>>
         /\ s.turn # 0 => Closers(s) = ResultClosers(s) \o Ends(s)
         /\ \A i \in 1..Len(Closers(s)) : Closers(s)[i].type = "tool/not-started" =>
                Closers(s)[i].arg \in Call /\ s.pending[Closers(s)[i].arg] = "requested"
<1> DEFINE r == ResultClosers(s)
           q == Ends(s)
<1>1. r \in Seq(EventType) /\ q \in Seq(EventType)
  BY ResultClosersType, EndsType
<1>2. CASE s.turn = 0
  BY <1>2 DEF Closers
<1>3. CASE s.turn # 0
  <2>1. Closers(s) = r \o q
    BY <1>3, ResultClosersType, EndsType, ConcatAssociative DEF Closers, Ends
  <2>2. r \o q \in Seq(EventType) /\ Len(r \o q) = Len(r) + Len(q)
    BY <1>1, ConcatProperties
  <2>3. ASSUME NEW i \in 1..Len(r \o q), (r \o q)[i].type = "tool/not-started"
        PROVE  (r \o q)[i].arg \in Call /\ s.pending[(r \o q)[i].arg] = "requested"
    <3>1. CASE i \in 1..Len(r)
      <4>1. PICK c \in OpenCalls(s) : (r \o q)[i] = ResultCloser(s, c)
        BY <1>1, <3>1, ResultClosersType
      <4> QED
        BY <2>3, <4>1 DEF ResultCloser, Event, OpenCalls, ScanType
    <3>2. CASE ~(i \in 1..Len(r))
      <4>1. (r \o q)[i] = q[i - Len(r)] /\ i - Len(r) \in 1..Len(q)
        BY <1>1, <2>2, <3>2
      <4>2. \A j \in 1..Len(q) : q[j].type \in {"step/end", "turn/end"}
        BY EndsType DEF Event
      <4> QED
        BY <2>3, <4>1, <4>2
    <3> QED
      BY <3>1, <3>2
  <2> QED
    BY <1>3, <2>1, <2>2, <2>3
<1> QED
  BY <1>2, <1>3

\* The first event of a repair follows in the log, and with it stored, what is
\* left is the repair of the new log.
LEMMA ClosersRest ==
  ASSUME NEW v, Sound(v), v.scan.turn # 0
  PROVE  /\ Closers(v.scan) # <<>>
         /\ Head(Closers(v.scan)) \in EventType
         /\ Follows(v, Head(Closers(v.scan)))
         /\ Head(Closers(v.scan)).type \notin {"turn/start", "assistant/message"}
         /\ Head(Closers(v.scan)).type = "step/end" => v.scan.pending = NothingPending
         /\ Closers(Scanned(v.scan, Head(Closers(v.scan)))) = Tail(Closers(v.scan))
<1> DEFINE s == v.scan
           O == OpenCalls(s)
           n == Cardinality(O)
<1>0. s \in ScanType /\ s.pending \in [Call -> {"no", "requested", "recorded"}]
  BY DEF Sound, ScanType
<1>1. O \subseteq Call /\ n \in Nat /\ IsFiniteSet(O) /\ O \subseteq Nat
  <2>1. O \subseteq Call
    BY DEF OpenCalls
  <2> QED
    BY <2>1, FiniteCalls
<1>2. Closers(s) = ResultClosers(s) \o Ends(s) /\ Closers(s) \in Seq(EventType)
  BY <1>0, ClosersType
<1>3. ResultClosers(s) \in Seq(EventType) /\ Len(ResultClosers(s)) = n /\ Ends(s) \in Seq(EventType)
  BY <1>0, ResultClosersType, EndsType
<1>4. CASE O # {}
  <2>1. PICK m \in O : \A k \in O : m <= k
    BY <1>1, <1>4, Smallest
  <2> DEFINE h == ResultCloser(s, m)
             z == Scanned(s, h)
  <2>2. m \in Call /\ s.pending[m] # "no" /\ s.step # 0
    BY <1>0, <2>1 DEF OpenCalls, Sound, NothingPending
  <2>3. /\ h.type = IF s.pending[m] = "recorded" THEN "tool/result" ELSE "tool/not-started"
        /\ h.turn = s.turn /\ h.step = s.step /\ h.arg = m /\ IsResult(h)
    BY DEF ResultCloser, Event, IsResult
  <2>4. z = [s EXCEPT !.pending[m] = "no"]
    BY <2>3 DEF Scanned, ResultTaken, IsResult
  <2>5. /\ z \in ScanType /\ z.turn = s.turn /\ z.step = s.step
        /\ z.pending = [s.pending EXCEPT ![m] = "no"]
    BY <1>0, <2>2, <2>4 DEF ScanType
  <2> HIDE DEF z
  <2>6. OpenCalls(z) = O \ {m}
    BY <1>0, <2>2, <2>5 DEF OpenCalls
  <2> DEFINE k == Cardinality(O \ {m})
             r == InOrder(O \ {m})
  <2>7. /\ n = k + 1 /\ k \in Nat
        /\ InOrder(O) = [i \in 1..n |-> IF i = 1 THEN m ELSE r[i - 1]]
    BY <1>1, <2>1, InOrderRest
  <2>8. ResultClosers(z) \in Seq(EventType) /\ Len(ResultClosers(z)) = k
    BY <2>5, <2>6, ResultClosersType
  <2>9. h \in EventType
    <3>1. 1 \in 1..n /\ InOrder(O)[1] = m
      BY <2>7
    <3>2. ResultClosers(s)[1] = h /\ ResultClosers(s)[1] \in EventType
      BY <1>0, <1>3, <3>1, ResultClosersType
    <3> QED
      BY <3>2
  <2>10. ASSUME NEW i \in 1..k PROVE ResultClosers(s)[i + 1] = ResultClosers(z)[i]
    <3>1. i + 1 \in 1..n /\ InOrder(O)[i + 1] = r[i]
      BY <2>7
    <3>2. ResultClosers(s)[i + 1] = ResultCloser(s, r[i])
      BY <1>0, <1>3, <3>1, ResultClosersType
    <3>3. ResultClosers(z)[i] = ResultCloser(z, r[i]) /\ r[i] \in O \ {m}
      BY <2>5, <2>6, <2>8, ResultClosersType
    <3>4. z.pending[r[i]] = s.pending[r[i]]
      BY <1>0, <1>1, <2>5, <3>3
    <3> QED
      BY <2>5, <3>2, <3>3, <3>4 DEF ResultCloser, Event
  <2>11. ResultClosers(s)[1] = h
    <3>1. 1 \in 1..n /\ InOrder(O)[1] = m
      BY <2>7
    <3> QED
      BY <1>0, <1>3, <3>1, ResultClosersType
  <2>12. /\ ResultClosers(s) # <<>> /\ Head(ResultClosers(s)) = h
         /\ Tail(ResultClosers(s)) = ResultClosers(z)
    <3>1. Len(ResultClosers(s)) = k + 1 /\ ResultClosers(s) # <<>> /\ Head(ResultClosers(s)) = h
      BY <1>3, <2>7, <2>11
    <3>2. /\ Tail(ResultClosers(s)) \in Seq(EventType) /\ Len(Tail(ResultClosers(s))) = k
          /\ \A i \in 1..k : Tail(ResultClosers(s))[i] = ResultClosers(z)[i]
      <4> DEFINE a == ResultClosers(s)
      <4>1. a \in Seq(EventType) /\ a # <<>> /\ Len(a) = k + 1
        BY <1>3, <3>1
      <4>2. Tail(a) \in Seq(EventType) /\ Len(Tail(a)) = Len(a) - 1 /\ \A i \in 1..Len(Tail(a)) : Tail(a)[i] = a[i + 1]
        <5> HIDE DEF a
        <5> QED
          BY <4>1, HeadTailProperties
      <4>3. Len(Tail(a)) = k
        BY <2>7, <4>1, <4>2
      <4> QED
        BY <2>10, <4>2, <4>3
    <3> QED
      BY <2>8, <3>1, <3>2, SeqEqual
  <2>13. Ends(z) = Ends(s)
    BY <2>5 DEF Ends, StepCloser, TurnCloser
  <2>14. Closers(z) = ResultClosers(z) \o Ends(s)
    BY <2>5, <2>13, ClosersType
  <2>15. Closers(s) # <<>> /\ Head(Closers(s)) = h /\ Tail(Closers(s)) = Closers(z)
    <3> DEFINE a == ResultClosers(s)
               b == Ends(s)
    <3>1. a \in Seq(EventType) /\ b \in Seq(EventType) /\ a # <<>>
      BY <1>3, <2>12
    <3>2. a \o b # <<>> /\ Head(a \o b) = Head(a) /\ Tail(a \o b) = Tail(a) \o b
      <4> HIDE DEF a, b
      <4>1. /\ a \o b \in Seq(EventType) /\ Len(a \o b) = Len(a) + Len(b)
            /\ Len(a) \in Nat \ {0} /\ Len(b) \in Nat
        BY <3>1, ConcatProperties
      <4>2. a \o b # <<>> /\ Head(a \o b) = Head(a)
        BY <3>1, <4>1
      <4>3. Tail(a) \in Seq(EventType) /\ Len(Tail(a)) = Len(a) - 1 /\ \A i \in 1..(Len(a) - 1) : Tail(a)[i] = a[i + 1]
        BY <3>1, HeadTailProperties
      <4>4. /\ Tail(a \o b) \in Seq(EventType) /\ Len(Tail(a \o b)) = Len(a) + Len(b) - 1
            /\ \A i \in 1..(Len(a) + Len(b) - 1) : Tail(a \o b)[i] = (a \o b)[i + 1]
        BY <4>1, <4>2, HeadTailProperties
      <4>5. Tail(a) \o b \in Seq(EventType) /\ Len(Tail(a) \o b) = Len(a) + Len(b) - 1
        BY <3>1, <4>1, <4>3, ConcatProperties
      <4>6. ASSUME NEW i \in 1..(Len(a) + Len(b) - 1) PROVE Tail(a \o b)[i] = (Tail(a) \o b)[i]
        <5>1. (a \o b)[i + 1] = IF i + 1 <= Len(a) THEN a[i + 1] ELSE b[i + 1 - Len(a)]
          BY <3>1, <4>1
        <5>2. (Tail(a) \o b)[i] = IF i <= Len(a) - 1 THEN Tail(a)[i] ELSE b[i - (Len(a) - 1)]
          BY <3>1, <4>1, <4>3, ConcatProperties
        <5> QED
          BY <4>1, <4>3, <4>4, <5>1, <5>2
      <4>7. Tail(a \o b) = Tail(a) \o b
        BY <4>4, <4>5, <4>6, SeqEqual
      <4> QED
        BY <4>2, <4>7
    <3> QED
      BY <1>2, <2>12, <2>14, <3>2
  <2>16. Follows(v, h)
    BY <1>0, <2>2, <2>3 DEF Follows, InStep, InTurn, Sound, IsResult
  <2> QED
    BY <2>3, <2>9, <2>15, <2>16 DEF z, IsResult
<1>5. CASE O = {}
  <2>1. n = 0 /\ ResultClosers(s) = <<>>
    BY <1>3, <1>5, FS_EmptySet
  <2>2. Closers(s) = Ends(s)
    BY <1>2, <1>3, <2>1
  <2>3. s.pending = NothingPending
    <3>1. \A c \in Call : s.pending[c] = "no"
      BY <1>5 DEF OpenCalls
    <3> QED
      BY <1>0, <3>1 DEF NothingPending
  <2>4. CASE s.step # 0
    <3> DEFINE h == Event("step/end", s.turn, s.step, 0)
               z == Scanned(s, h)
    <3>1. Ends(s) = <<h, Event("turn/end", s.turn, 0, 0)>> /\ Ends(s) \in Seq(EventType)
      BY <1>0, <2>4, EndsType
    <3>2. h.type = "step/end" /\ h.turn = s.turn /\ h.step = s.step
      BY DEF Event
    <3>3. z = [s EXCEPT !.step = 0, !.pending = NothingPending]
      BY <3>2 DEF Scanned, IsResult, ResultTaken
    <3>4. z = [turn |-> s.turn, step |-> 0, pending |-> NothingPending]
      BY <1>0, <3>3 DEF ScanType
    <3>5. z \in ScanType /\ z.turn = s.turn /\ z.step = 0 /\ OpenCalls(z) = {}
      BY <1>0, <3>4 DEF ScanType, OpenCalls, NothingPending
    <3> HIDE DEF z
    <3>6. ResultClosers(z) = <<>> /\ Ends(z) = <<Event("turn/end", s.turn, 0, 0)>>
      BY <3>5, ResultClosersType, EndsType, FS_EmptySet
    <3>7. Closers(z) = <<Event("turn/end", s.turn, 0, 0)>>
      BY <3>5, <3>6, ClosersType
    <3>8. Head(Closers(s)) = h /\ Tail(Closers(s)) = Closers(z) /\ Closers(s) # <<>>
      BY <2>2, <3>1, <3>7
    <3>9. Follows(v, h)
      BY <1>0, <2>4, <3>2 DEF Follows, InStep, InTurn, Sound
    <3>10. h \in EventType
      BY <3>1
    <3> QED
      BY <2>3, <3>2, <3>8, <3>9, <3>10 DEF z
  <2>5. CASE s.step = 0
    <3> DEFINE h == Event("turn/end", s.turn, 0, 0)
               z == Scanned(s, h)
    <3>1. Ends(s) = <<h>> /\ Ends(s) \in Seq(EventType)
      BY <1>0, <2>5, EndsType
    <3>2. h.type = "turn/end" /\ h.turn = s.turn
      BY DEF Event
    <3>3. z = [turn |-> 0, step |-> 0, pending |-> NothingPending]
      BY <3>2 DEF Scanned, IsResult
    <3>4. Closers(z) = <<>>
      BY <3>3 DEF Closers
    <3> HIDE DEF z
    <3>5. /\ Head(Closers(s)) = h /\ Tail(Closers(s)) = Closers(z) /\ Closers(s) # <<>>
          /\ h \in EventType
      BY <2>2, <3>1, <3>4
    <3>6. Follows(v, h)
      BY <1>0, <2>5, <3>2 DEF Follows, InTurn, Sound
    <3> QED
      BY <3>2, <3>5, <3>6 DEF z
  <2> QED
    BY <2>4, <2>5
<1> QED
  BY <1>4, <1>5

----------------------------------------------------------------------------
(* The inductive invariant.                                                *)

TypeInv ==
    /\ mode \in {"live", "down", "repairing"}
    /\ buffered \in Seq(EventType) /\ closers \in Seq(EventType)
    /\ pc \in {"idle", "boundary", "request", "tools"}
    /\ turn \in Nat /\ step \in Nat
    /\ calls \in [Call -> {"no", "requested", "recorded", "dispatched", "answered"}]
    /\ ran \in SUBSET Call

\* A process that is down holds nothing back, and only a repair has closers.
Resting ==
    /\ mode # "live" => buffered = <<>> /\ pc = "idle"
    /\ mode # "repairing" => closers = <<>>

\* How the log shows a call of the driver once all is stored.
PendingAs(call) ==
    IF call = "requested" THEN "requested"
    ELSE IF call \in {"recorded", "dispatched"} THEN "recorded"
    ELSE "no"

\* The driver's own state is the one its whole log shows.
Matches(w) ==
    /\ pc = "idle" => w.trace.openTurn = 0 /\ w.lastTurn = turn
    /\ pc # "idle" => turn # 0 /\ w.trace.openTurn = turn
    /\ pc = "boundary" => w.trace.openStep = 0 /\ w.trace.nextStep = step + 1
    /\ pc \in {"request", "tools"} => step # 0 /\ w.trace.openStep = step
    /\ pc = "request" => w.scan.pending = NothingPending
    /\ pc = "tools" => \A c \in Call : w.scan.pending[c] = PendingAs(calls[c])

LiveInv == mode = "live" => \E w : Leads(View, buffered, w) /\ Matches(w)

NoMessage == \A i \in DOMAIN buffered : buffered[i].type # "assistant/message"

\* A message is written into an empty buffer.
MessageFirst == \A i \in DOMAIN buffered : buffered[i].type = "assistant/message" => i = 1

\* A call that was recorded is stored as recorded, or its event is buffered.
RecordInv ==
    mode = "live" /\ pc = "tools" =>
        \A c \in Call : calls[c] = "recorded" /\ FlushedCall(c) =>
            scan.pending[c] # "requested" /\ NoMessage

\* A call that ran is not one that the stored log only requests.
RanInv == \A c \in ran : scan.pending[c] # "requested" /\ NoMessage

Inv ==
    /\ TypeInv /\ Resting /\ Sound(View)
    /\ LiveInv /\ RepairResumes
    /\ MessageFirst /\ RecordInv /\ RanInv

\* What one event does to the numbers and the calls that the driver relies on.
LEMMA DrainedFields ==
  ASSUME NEW v, Sound(v), NEW e \in EventType, Follows(v, e)
  PROVE  LET u == Drained(v, e) IN
         /\ e.type = "turn/start" =>
                /\ u.trace.openTurn = e.turn /\ u.trace.openStep = 0
                /\ u.trace.nextStep = 1 /\ u.lastTurn = e.turn
         /\ e.type = "turn/end" => u.trace.openTurn = 0 /\ u.lastTurn = v.lastTurn
         /\ e.type = "step/start" =>
                /\ u.trace.openTurn = v.trace.openTurn /\ u.trace.openStep = e.step
                /\ u.scan.pending = NothingPending
         /\ e.type = "step/end" =>
                /\ u.trace.openTurn = v.trace.openTurn /\ u.trace.openStep = 0
                /\ u.trace.nextStep = v.trace.nextStep + 1
         /\ e.type \in {"assistant/message", "tool/call", "tool/result"} =>
                u.trace.openTurn = v.trace.openTurn /\ u.trace.openStep = v.trace.openStep
         /\ e.type = "assistant/message" =>
                \A c \in Call : u.scan.pending[c] = IF c <= e.arg THEN "requested" ELSE "no"
         /\ e.type = "tool/call" =>
                \A c \in Call : u.scan.pending[c] = IF c = e.arg THEN "recorded" ELSE v.scan.pending[c]
         /\ e.type = "tool/result" =>
                \A c \in Call : u.scan.pending[c] = IF c = e.arg THEN "no" ELSE v.scan.pending[c]
<1> DEFINE u == Drained(v, e)
           t == Traced(v.trace, e)
           s == Scanned(v.scan, e)
<1>1. u.trace = t /\ u.scan = s /\ u.lastTurn = IF e.type = "turn/start" THEN e.turn ELSE v.lastTurn
  BY DEF Drained, After
<1>2. /\ v.trace \in TraceType /\ v.scan \in ScanType
      /\ v.scan.pending \in [Call -> {"no", "requested", "recorded"}]
  BY DEF Sound, ScanType
<1>3. ASSUME e.type = "turn/start"
      PROVE  t.openTurn = e.turn /\ t.openStep = 0 /\ t.nextStep = 1
  <2>1. t = [v.trace EXCEPT !.last = "turn/start", !.openTurn = e.turn, !.nextStep = 1]
    BY <1>3 DEF Traced, Stamped, IsResult
  <2>2. v.trace.openStep = 0
    BY <1>3 DEF Follows, Sound
  <2> QED
    BY <1>2, <2>1, <2>2 DEF TraceType
<1>4. ASSUME e.type = "turn/end" PROVE t.openTurn = 0
  <2>1. t = [v.trace EXCEPT !.last = "turn/end", !.openTurn = 0, !.nextTurn = @ + 1]
    BY <1>2, <1>4 DEF Traced, Stamped, IsResult, Follows, InTurn, TraceType
  <2> QED
    BY <1>2, <2>1 DEF TraceType
<1>5. ASSUME e.type = "step/start"
      PROVE  t.openTurn = v.trace.openTurn /\ t.openStep = e.step /\ s.pending = NothingPending
  <2>1. t = [v.trace EXCEPT !.last = "step/start", !.openStep = e.step]
    BY <1>2, <1>5 DEF Traced, Stamped, IsResult, Follows, InTurn, TraceType
  <2>2. s = [v.scan EXCEPT !.step = e.step]
    BY <1>5 DEF Scanned, IsResult
  <2>3. v.scan.pending = NothingPending
    BY <1>5 DEF Follows, Sound
  <2> QED
    BY <1>2, <2>1, <2>2, <2>3 DEF TraceType, ScanType
<1>6. ASSUME e.type = "step/end"
      PROVE  t.openTurn = v.trace.openTurn /\ t.openStep = 0 /\ t.nextStep = v.trace.nextStep + 1
  <2>1. t = [v.trace EXCEPT !.last = "step/end", !.openStep = 0, !.nextStep = @ + 1, !.pendingCalls = {}]
    BY <1>2, <1>6 DEF Traced, Stamped, IsResult, Follows, InStep, InTurn, TraceType
  <2> QED
    BY <1>2, <2>1 DEF TraceType
<1>7. ASSUME e.type = "assistant/message"
      PROVE  /\ t.openTurn = v.trace.openTurn /\ t.openStep = v.trace.openStep
             /\ \A c \in Call : s.pending[c] = IF c <= e.arg THEN "requested" ELSE "no"
  <2>1. t = [v.trace EXCEPT !.last = "assistant/message"]
    BY <1>2, <1>7 DEF Traced, Stamped, IsResult, Follows, InStep, InTurn, TraceType
  <2>2. s = [v.scan EXCEPT !.pending = [c \in Call |-> IF c <= e.arg THEN "requested" ELSE "no"]]
    BY <1>2, <1>7 DEF Scanned, ScanType, Follows, NothingPending, IsResult
  <2>3. s.pending = [c \in Call |-> IF c <= e.arg THEN "requested" ELSE "no"]
    BY <1>2, <2>2 DEF ScanType
  <2> QED
    BY <1>2, <2>1, <2>3 DEF TraceType
<1>8. ASSUME e.type = "tool/call"
      PROVE  /\ t.openTurn = v.trace.openTurn /\ t.openStep = v.trace.openStep
             /\ \A c \in Call : s.pending[c] = IF c = e.arg THEN "recorded" ELSE v.scan.pending[c]
  <2>1. t = [v.trace EXCEPT !.last = "tool/call", !.pendingCalls = @ \cup {e.arg}]
    BY <1>2, <1>8 DEF Traced, Stamped, IsResult, Follows, InStep, InTurn, TraceType
  <2>2. s = [v.scan EXCEPT !.pending[e.arg] = "recorded"]
    BY <1>8 DEF Scanned, Follows, IsResult
  <2>3. s.pending = [v.scan.pending EXCEPT ![e.arg] = "recorded"]
    BY <1>2, <2>2 DEF ScanType
  <2> QED
    BY <1>2, <2>1, <2>3 DEF TraceType
<1>9. ASSUME e.type = "tool/result"
      PROVE  /\ t.openTurn = v.trace.openTurn /\ t.openStep = v.trace.openStep
             /\ \A c \in Call : s.pending[c] = IF c = e.arg THEN "no" ELSE v.scan.pending[c]
  <2>1. t = [v.trace EXCEPT !.last = "tool/result", !.pendingCalls = @ \ {e.arg}]
    BY <1>2, <1>9 DEF Traced, Stamped, IsResult, Follows, InStep, InTurn, TraceType
  <2>2. s = [v.scan EXCEPT !.pending[e.arg] = "no"]
    BY <1>9 DEF Scanned, ResultTaken, IsResult
  <2>3. s.pending = [v.scan.pending EXCEPT ![e.arg] = "no"]
    BY <1>2, <2>2 DEF ScanType
  <2> QED
    BY <1>2, <2>1, <2>3 DEF TraceType
<1> HIDE DEF t, s, u
<1> QED
  BY <1>1, <1>3, <1>4, <1>5, <1>6, <1>7, <1>8, <1>9 DEF u

\* Only a message makes the stored log request a call.
LEMMA OnlyMessagesRequest ==
  ASSUME NEW s \in ScanType, NEW e, NEW c \in Call, e.type # "assistant/message",
         Scanned(s, e).pending[c] = "requested"
  PROVE  s.pending[c] = "requested" /\ ~(e.type = "tool/call" /\ e.arg = c)
<1>1. s.pending \in [Call -> {"no", "requested", "recorded"}]
  BY DEF ScanType
<1>2. CASE e.type \in {"turn/start", "turn/end", "step/end"}
  <2>1. Scanned(s, e).pending = NothingPending
    BY <1>2 DEF Scanned, ScanType, IsResult
  <2> QED
    BY <2>1 DEF NothingPending
<1>3. CASE e.type = "step/start"
  <2>1. Scanned(s, e).pending = s.pending
    BY <1>3 DEF Scanned, ScanType, IsResult
  <2> QED
    BY <1>3, <2>1
<1>4. CASE e.type = "tool/call" /\ s.pending[e.arg] # "no"
  <2>1. Scanned(s, e) = [s EXCEPT !.pending[e.arg] = "recorded"]
    BY <1>4 DEF Scanned, IsResult
  <2>2. Scanned(s, e).pending = [s.pending EXCEPT ![e.arg] = "recorded"]
    BY <2>1 DEF ScanType
  <2> QED
    BY <1>1, <2>2
<1>5. CASE IsResult(e)
  <2>1. Scanned(s, e) = [s EXCEPT !.pending[e.arg] = "no"]
    BY <1>5 DEF Scanned, IsResult, ResultTaken
  <2>2. Scanned(s, e).pending = [s.pending EXCEPT ![e.arg] = "no"]
    BY <2>1 DEF ScanType
  <2> QED
    BY <1>1, <1>5, <2>2 DEF IsResult
<1>6. CASE /\ e.type \notin {"turn/start", "turn/end", "step/start", "step/end"}
           /\ ~(e.type = "tool/call" /\ s.pending[e.arg] # "no") /\ ~IsResult(e)
  <2>1. Scanned(s, e) = s
    BY <1>6 DEF Scanned
  <2> QED
    BY <1>6, <2>1
<1> QED
  BY <1>2, <1>3, <1>4, <1>5, <1>6

\* What the driver appends stands at the end of the buffer.
LEMMA AppendsLast ==
  ASSUME buffered \in Seq(EventType), NEW e \in EventType, Appends(e)
  PROVE  /\ buffered' \in Seq(EventType)
         /\ \A i \in DOMAIN buffered :
                i \in DOMAIN buffered' /\ buffered'[i] = buffered[i]
         /\ \E i \in DOMAIN buffered' : buffered'[i] = e
         /\ \A i \in DOMAIN buffered' :
                \/ i \in DOMAIN buffered /\ buffered'[i] = buffered[i]
                \/ i = Len(buffered) + 1 /\ buffered'[i] = e
<1> DEFINE n == Len(buffered)
<1>1. buffered' = Append(buffered, e) /\ buffered' \in Seq(EventType)
  BY DEF Appends
<1>2. n \in Nat /\ DOMAIN buffered = 1..n /\ DOMAIN buffered' = 1..(n + 1)
  BY <1>1
<1>3. buffered'[n + 1] = e /\ \A i \in 1..n : buffered'[i] = buffered[i]
  BY <1>1
<1>4. n + 1 \in 1..(n + 1) /\ \A i \in 1..(n + 1) : i = n + 1 \/ i \in 1..n
  BY <1>2
<1>5. \A i \in 1..n : i \in 1..(n + 1)
  BY <1>2
<1>6. \E i \in DOMAIN buffered' : buffered'[i] = e
  <2>1. n + 1 \in DOMAIN buffered'
    BY <1>2
  <2> QED
    BY <1>3, <2>1
<1>7. \A i \in DOMAIN buffered : i \in DOMAIN buffered' /\ buffered'[i] = buffered[i]
  BY <1>2, <1>3, <1>5
<1>8. \A i \in DOMAIN buffered' :
          \/ i \in DOMAIN buffered /\ buffered'[i] = buffered[i]
          \/ i = Len(buffered) + 1 /\ buffered'[i] = e
  <2> SUFFICES ASSUME NEW i \in DOMAIN buffered'
               PROVE  \/ i \in DOMAIN buffered /\ buffered'[i] = buffered[i]
                      \/ i = Len(buffered) + 1 /\ buffered'[i] = e
    OBVIOUS
  <2>1. i = n + 1 \/ i \in 1..n
    BY <1>2, <1>4
  <2>2. CASE i = n + 1
    BY <1>3, <2>2
  <2>3. CASE i \in 1..n
    BY <1>2, <1>3, <2>3
  <2> QED
    BY <2>1, <2>2, <2>3
<1> QED
  BY <1>1, <1>6, <1>7, <1>8

\* It leads to a log in which it has been stored.
LEMMA AppendsLeads ==
  ASSUME buffered \in Seq(EventType), NEW e \in EventType, Appends(e),
         NEW w, Leads(View, buffered, w), Follows(w, e), Matches(Drained(w, e))'
  PROVE  LiveInv'
<1>1. View' = View /\ buffered' = Append(buffered, e)
  BY DEF Appends, View, storedVars
<1>2. Leads(View, Append(buffered, e), Drained(w, e))
  BY LeadsOn
<1>3. Leads(View', buffered', Drained(w, e))
  BY <1>1, <1>2
<1> QED
  BY <1>3 DEF LiveInv

\* The history is not disturbed by an event that is not a message.
LEMMA AppendsHistory ==
  ASSUME Inv, NEW e \in EventType, Appends(e), e.type # "assistant/message", UNCHANGED ran
  PROVE  MessageFirst' /\ RanInv' /\ (NoMessage => NoMessage')
<1>1. /\ \A i \in DOMAIN buffered' : buffered'[i].type = "assistant/message" =>
             i \in DOMAIN buffered /\ buffered'[i] = buffered[i]
      /\ UNCHANGED scan
  BY AppendsLast DEF Inv, TypeInv, Appends, storedVars
<1>2. MessageFirst' /\ (NoMessage => NoMessage')
  BY <1>1 DEF Inv, MessageFirst, NoMessage
<1>3. RanInv'
  BY <1>1, <1>2 DEF Inv, RanInv
<1> QED
  BY <1>2, <1>3

----------------------------------------------------------------------------
(* The driver keeps the invariant.                                         *)

\* What an append and the rest of its step leave to show.
LEMMA AppendsInv ==
  ASSUME Inv, mode = "live", NEW e \in EventType, Appends(e), TypeInv',
         NEW w, Leads(View, buffered, w), Follows(w, e), Matches(Drained(w, e))',
         MessageFirst', RecordInv', RanInv'
  PROVE  Inv'
<1>1. LiveInv'
  BY AppendsLeads DEF Inv, TypeInv
<1>2. Resting' /\ RepairResumes' /\ View' = View
  BY DEF Appends, storedVars, Inv, Resting, RepairResumes, View
<1>3. Sound(View)'
  BY <1>2 DEF Inv
<1> QED
  BY <1>1, <1>2, <1>3 DEF Inv

LEMMA EventIs ==
  ASSUME NEW type, NEW t, NEW s, NEW arg
  PROVE  LET e == Event(type, t, s, arg) IN
         e.type = type /\ e.turn = t /\ e.step = s /\ e.arg = arg
  BY DEF Event

LEMMA EventIn ==
  ASSUME NEW t \in Nat, NEW s \in Nat, NEW arg \in 0..N,
         NEW type \in {"turn/start", "turn/end", "step/start", "step/end", "assistant/message",
                       "tool/call", "tool/result"}
  PROVE  Event(type, t, s, arg) \in EventType
<1>1. type \in TL!EventTypes
  BY EventTypeNames
<1> QED
  BY <1>1 DEF Event, EventType

LEMMA CallIsArg == 0 \in 0..N /\ Call \subseteq 0..N
  BY BoundsAssumption DEF Call

LEMMA TurnStartInv == ASSUME Inv, TurnStart PROVE Inv'
<1>1. /\ mode = "live" /\ pc = "idle" /\ Appends(Event("turn/start", turn + 1, 0, 0))
      /\ pc' = "boundary" /\ turn' = turn + 1
      /\ step' = 0 /\ UNCHANGED <<calls, ran>>
  BY DEF TurnStart, At
<1>2. turn \in Nat
  BY DEF Inv, TypeInv
<1>3. PICK e \in EventType : Appends(e) /\ e.type = "turn/start" /\ e.turn = turn + 1
  BY <1>1, <1>2, EventIn, EventIs, CallIsArg
<1>4. PICK w : Leads(View, buffered, w) /\ Matches(w)
  BY <1>1 DEF Inv, LiveInv
<1>5. Sound(w)
  BY <1>4, LeadsSound DEF Inv, TypeInv
<1>6. Follows(w, e)
  BY <1>1, <1>3, <1>4, <1>5 DEF Matches, Follows, Sound
<1>7. Matches(Drained(w, e))'
  <2>1. /\ Drained(w, e).trace.openTurn = e.turn /\ Drained(w, e).trace.openStep = 0
        /\ Drained(w, e).trace.nextStep = 1
    BY <1>3, <1>5, <1>6, DrainedFields
  <2> QED
    BY <1>1, <1>2, <1>3, <2>1 DEF Matches
<1>8. TypeInv'
  BY <1>1, <1>2, <1>3, AppendsLast DEF Inv, TypeInv, Appends
<1>9. MessageFirst' /\ RanInv' /\ RecordInv'
  BY <1>1, <1>3, AppendsHistory DEF RecordInv
<1> QED
  BY <1>1, <1>3, <1>4, <1>6, <1>7, <1>8, <1>9, AppendsInv

LEMMA StepStartInv == ASSUME Inv, StepStart PROVE Inv'
<1>1. /\ mode = "live" /\ pc = "boundary" /\ Appends(Event("step/start", turn, step + 1, 0))
      /\ pc' = "request" /\ step' = step + 1
      /\ UNCHANGED <<turn, calls, ran>>
  BY DEF StepStart, At
<1>2. turn \in Nat /\ step \in Nat
  BY DEF Inv, TypeInv
<1>3. PICK e \in EventType : /\ Appends(e) /\ e.type = "step/start" /\ e.turn = turn
                             /\ e.step = step + 1
  BY <1>1, <1>2, EventIn, EventIs, CallIsArg
<1>4. PICK w : Leads(View, buffered, w) /\ Matches(w)
  BY <1>1 DEF Inv, LiveInv
<1>5. Sound(w)
  BY <1>4, LeadsSound DEF Inv, TypeInv
<1>6. Follows(w, e)
  BY <1>1, <1>3, <1>4, <1>5 DEF Matches, Follows, InTurn, Sound
<1>7. Matches(Drained(w, e))'
  <2>1. /\ Drained(w, e).trace.openTurn = w.trace.openTurn
        /\ Drained(w, e).trace.openStep = e.step
        /\ Drained(w, e).scan.pending = NothingPending
    BY <1>3, <1>5, <1>6, DrainedFields
  <2>2. w.trace.openTurn = turn /\ turn # 0 /\ step + 1 # 0
    BY <1>1, <1>2, <1>4 DEF Matches
  <2>3. NothingPending' = NothingPending
    BY DEF NothingPending
  <2> QED
    BY <1>1, <1>3, <2>1, <2>2, <2>3 DEF Matches
<1>8. TypeInv'
  BY <1>1, <1>2, <1>3, AppendsLast DEF Inv, TypeInv, Appends
<1>9. MessageFirst' /\ RanInv' /\ RecordInv'
  BY <1>1, <1>3, AppendsHistory DEF RecordInv
<1> QED
  BY <1>1, <1>3, <1>4, <1>6, <1>7, <1>8, <1>9, AppendsInv

LEMMA AssistantMessageInv ==
  ASSUME Inv, NEW n \in 0..N, AssistantMessage(n) PROVE Inv'
<1>1. /\ mode = "live" /\ pc = "request" /\ Appends(Event("assistant/message", turn, step, n))
      /\ pc' = "tools" /\ buffered = <<>>
      /\ calls' = [c \in Call |-> IF c <= n THEN "requested" ELSE "no"]
      /\ ran' = {} /\ UNCHANGED <<turn, step>>
  BY DEF AssistantMessage, At, Flushed
<1>2. turn \in Nat /\ step \in Nat
  BY DEF Inv, TypeInv
<1>3. PICK e \in EventType : /\ Appends(e) /\ e.type = "assistant/message" /\ e.turn = turn
                             /\ e.step = step /\ e.arg = n
  BY <1>1, <1>2, EventIn, EventIs
<1>4. PICK w : Leads(View, buffered, w) /\ Matches(w)
  BY <1>1 DEF Inv, LiveInv
<1>5. Sound(w)
  BY <1>4, LeadsSound DEF Inv, TypeInv
<1>6. Follows(w, e)
  BY <1>1, <1>3, <1>4 DEF Matches, Follows, InStep, InTurn
<1>7. Matches(Drained(w, e))'
  <2>1. /\ Drained(w, e).trace.openTurn = w.trace.openTurn
        /\ Drained(w, e).trace.openStep = w.trace.openStep
        /\ \A c \in Call : Drained(w, e).scan.pending[c] = IF c <= n THEN "requested" ELSE "no"
    BY <1>3, <1>5, <1>6, DrainedFields
  <2>2. w.trace.openTurn = turn /\ turn # 0 /\ w.trace.openStep = step /\ step # 0
    BY <1>1, <1>4 DEF Matches
  <2>3. \A c \in Call : Drained(w, e).scan.pending[c] = PendingAs(calls'[c])
    BY <1>1, <2>1 DEF PendingAs
  <2> QED
    BY <1>1, <2>1, <2>2, <2>3 DEF Matches, PendingAs
<1>8. TypeInv'
  BY <1>1, <1>2, <1>3, AppendsLast DEF Inv, TypeInv, Appends
<1>9. MessageFirst'
  BY <1>1, <1>3, AppendsLast DEF MessageFirst, Inv, TypeInv
<1>10. RecordInv' /\ RanInv'
  BY <1>1 DEF RecordInv, RanInv
<1> QED
  BY <1>1, <1>3, <1>4, <1>6, <1>7, <1>8, <1>9, <1>10, AppendsInv

LEMMA RecordCallInv ==
  ASSUME Inv, NEW c \in Call, RecordCall(c) PROVE Inv'
<1>1. /\ mode = "live" /\ pc = "tools" /\ Appends(Event("tool/call", turn, step, c))
      /\ calls[c] = "requested"
      /\ calls' = [calls EXCEPT ![c] = "recorded"]
      /\ UNCHANGED <<pc, turn, step, ran>>
  BY DEF RecordCall, At
<1>2. turn \in Nat /\ step \in Nat
      /\ calls \in [Call -> {"no", "requested", "recorded", "dispatched", "answered"}]
  BY DEF Inv, TypeInv
<1>3. PICK e \in EventType : /\ Appends(e) /\ e.type = "tool/call" /\ e.turn = turn
                             /\ e.step = step /\ e.arg = c
  BY <1>1, <1>2, EventIn, EventIs, CallIsArg
<1>4. PICK w : Leads(View, buffered, w) /\ Matches(w)
  BY <1>1 DEF Inv, LiveInv
<1>5. Sound(w)
  BY <1>4, LeadsSound DEF Inv, TypeInv
<1>6. Follows(w, e)
  BY <1>1, <1>3, <1>4 DEF Matches, PendingAs, Follows, InStep, InTurn
<1>7. Matches(Drained(w, e))'
  <2>1. /\ Drained(w, e).trace.openTurn = w.trace.openTurn
        /\ Drained(w, e).trace.openStep = w.trace.openStep
        /\ \A d \in Call : Drained(w, e).scan.pending[d] = IF d = c THEN "recorded" ELSE w.scan.pending[d]
    BY <1>3, <1>5, <1>6, DrainedFields
  <2>2. w.trace.openTurn = turn /\ turn # 0 /\ w.trace.openStep = step /\ step # 0
        /\ \A d \in Call : w.scan.pending[d] = PendingAs(calls[d])
    BY <1>1, <1>4 DEF Matches
  <2>3. \A d \in Call : Drained(w, e).scan.pending[d] = PendingAs(calls'[d])
    BY <1>1, <1>2, <2>1, <2>2 DEF PendingAs
  <2> QED
    BY <1>1, <2>1, <2>2, <2>3 DEF Matches, PendingAs
<1>8. TypeInv'
  BY <1>1, <1>2, <1>3, AppendsLast DEF Inv, TypeInv, Appends
<1>9. MessageFirst' /\ RanInv' /\ (NoMessage => NoMessage')
  BY <1>1, <1>3, AppendsHistory
<1>10. RecordInv'
  <2> SUFFICES ASSUME NEW d \in Call, calls'[d] = "recorded", FlushedCall(d)'
               PROVE  scan.pending'[d] # "requested" /\ NoMessage'
    BY DEF RecordInv
  <2>1. d # c
    BY <1>1, <1>3, AppendsLast DEF FlushedCall, Inv, TypeInv
  <2>2. calls[d] = "recorded" /\ FlushedCall(d)
    BY <1>1, <1>2, <1>3, <2>1, AppendsLast DEF FlushedCall, Inv, TypeInv
  <2> QED
    BY <1>1, <1>9, <2>2 DEF Inv, RecordInv, Appends, storedVars
<1> QED
  BY <1>1, <1>3, <1>4, <1>6, <1>7, <1>8, <1>9, <1>10, AppendsInv

LEMMA DispatchInv ==
  ASSUME Inv, NEW c \in Call, Dispatch(c) PROVE Inv'
<1>1. /\ mode = "live" /\ pc = "tools" /\ calls[c] = "recorded" /\ FlushedCall(c)
      /\ calls' = [calls EXCEPT ![c] = "dispatched"] /\ ran' = ran \cup {c}
      /\ UNCHANGED <<trace, scan, lastTurn, mode, closers, buffered, pc, turn, step, answers>>
  BY DEF Dispatch, At, storedVars
<1>2. TypeInv' /\ calls \in [Call -> {"no", "requested", "recorded", "dispatched", "answered"}]
  BY <1>1 DEF Inv, TypeInv
<1>3. View' = View
  BY <1>1 DEF View
<1>4. LiveInv'
  <2>1. PICK w : Leads(View, buffered, w) /\ Matches(w)
    BY <1>1 DEF Inv, LiveInv
  <2>2. \A d \in Call : PendingAs(calls'[d]) = PendingAs(calls[d])
    BY <1>1, <1>2 DEF PendingAs
  <2>3. Matches(w)'
    BY <1>1, <2>1, <2>2 DEF Matches, PendingAs
  <2>4. Leads(View', buffered', w)
    BY <1>1, <1>3, <2>1
  <2> QED
    BY <2>3, <2>4 DEF LiveInv
<1>5. scan.pending[c] # "requested" /\ NoMessage
  BY <1>1 DEF Inv, RecordInv
<1>6. NoMessage' /\ MessageFirst'
  BY <1>1, <1>5 DEF NoMessage, MessageFirst
<1>7. RanInv'
  BY <1>1, <1>5, <1>6 DEF Inv, RanInv
<1>8. RecordInv'
  <2> SUFFICES ASSUME NEW d \in Call, calls'[d] = "recorded", FlushedCall(d)'
               PROVE  scan.pending'[d] # "requested" /\ NoMessage'
    BY DEF RecordInv
  <2>1. calls[d] = "recorded" /\ FlushedCall(d)
    BY <1>1, <1>2 DEF FlushedCall
  <2> QED
    BY <1>1, <1>6, <2>1 DEF Inv, RecordInv
<1>9. Resting' /\ RepairResumes' /\ Sound(View)'
  BY <1>1, <1>3 DEF Inv, Resting, RepairResumes
<1> QED
  BY <1>2, <1>4, <1>6, <1>7, <1>8, <1>9 DEF Inv

LEMMA AnswerInv ==
  ASSUME Inv, NEW c \in Call, Answer(c) PROVE Inv'
<1>1. /\ mode = "live" /\ pc = "tools" /\ Appends(Event("tool/result", turn, step, c))
      /\ calls[c] \in {"recorded", "dispatched"}
      /\ calls' = [calls EXCEPT ![c] = "answered"]
      /\ UNCHANGED <<pc, turn, step, ran>>
  BY DEF Answer, At
<1>2. turn \in Nat /\ step \in Nat
      /\ calls \in [Call -> {"no", "requested", "recorded", "dispatched", "answered"}]
  BY DEF Inv, TypeInv
<1>3. PICK e \in EventType : /\ Appends(e) /\ e.type = "tool/result" /\ e.turn = turn
                             /\ e.step = step /\ e.arg = c
  BY <1>1, <1>2, EventIn, EventIs, CallIsArg
<1>4. PICK w : Leads(View, buffered, w) /\ Matches(w)
  BY <1>1 DEF Inv, LiveInv
<1>5. Sound(w)
  BY <1>4, LeadsSound DEF Inv, TypeInv
<1>6. Follows(w, e)
  BY <1>1, <1>3, <1>4 DEF Matches, PendingAs, Follows, InStep, InTurn
<1>7. Matches(Drained(w, e))'
  <2>1. /\ Drained(w, e).trace.openTurn = w.trace.openTurn
        /\ Drained(w, e).trace.openStep = w.trace.openStep
        /\ \A d \in Call : Drained(w, e).scan.pending[d] = IF d = c THEN "no" ELSE w.scan.pending[d]
    BY <1>3, <1>5, <1>6, DrainedFields
  <2>2. w.trace.openTurn = turn /\ turn # 0 /\ w.trace.openStep = step /\ step # 0
        /\ \A d \in Call : w.scan.pending[d] = PendingAs(calls[d])
    BY <1>1, <1>4 DEF Matches
  <2>3. \A d \in Call : Drained(w, e).scan.pending[d] = PendingAs(calls'[d])
    BY <1>1, <1>2, <2>1, <2>2 DEF PendingAs
  <2> QED
    BY <1>1, <2>1, <2>2, <2>3 DEF Matches, PendingAs
<1>8. TypeInv'
  BY <1>1, <1>2, <1>3, AppendsLast DEF Inv, TypeInv, Appends
<1>9. MessageFirst' /\ RanInv' /\ (NoMessage => NoMessage')
  BY <1>1, <1>3, AppendsHistory
<1>10. RecordInv'
  <2> SUFFICES ASSUME NEW d \in Call, calls'[d] = "recorded", FlushedCall(d)'
               PROVE  scan.pending'[d] # "requested" /\ NoMessage'
    BY DEF RecordInv
  <2>1. calls[d] = "recorded" /\ FlushedCall(d)
    BY <1>1, <1>2, <1>3, AppendsLast DEF FlushedCall, Inv, TypeInv
  <2> QED
    BY <1>1, <1>9, <2>1 DEF Inv, RecordInv, Appends, storedVars
<1> QED
  BY <1>1, <1>3, <1>4, <1>6, <1>7, <1>8, <1>9, <1>10, AppendsInv

LEMMA StepEndInv == ASSUME Inv, StepEnd PROVE Inv'
<1>1. /\ mode = "live" /\ pc \in {"request", "tools"}
      /\ Appends(Event("step/end", turn, step, 0)) /\ pc' = "boundary"
      /\ UNCHANGED <<turn, step, calls, ran>>
  BY DEF StepEnd, At
<1>2. turn \in Nat /\ step \in Nat
  BY DEF Inv, TypeInv
<1>3. PICK e \in EventType : Appends(e) /\ e.type = "step/end" /\ e.turn = turn /\ e.step = step
  BY <1>1, <1>2, EventIn, EventIs, CallIsArg
<1>4. PICK w : Leads(View, buffered, w) /\ Matches(w)
  BY <1>1 DEF Inv, LiveInv
<1>5. Sound(w)
  BY <1>4, LeadsSound DEF Inv, TypeInv
<1>6. Follows(w, e)
  BY <1>1, <1>3, <1>4 DEF Matches, Follows, InStep, InTurn
<1>7. Matches(Drained(w, e))'
  <2>1. /\ Drained(w, e).trace.openTurn = w.trace.openTurn /\ Drained(w, e).trace.openStep = 0
        /\ Drained(w, e).trace.nextStep = w.trace.nextStep + 1
    BY <1>3, <1>5, <1>6, DrainedFields
  <2>2. w.trace.openTurn = turn /\ turn # 0 /\ w.trace.nextStep = step
    BY <1>1, <1>4, <1>5 DEF Matches, Sound
  <2> QED
    BY <1>1, <2>1, <2>2 DEF Matches
<1>8. TypeInv'
  BY <1>1, <1>2, <1>3, AppendsLast DEF Inv, TypeInv, Appends
<1>9. MessageFirst' /\ RanInv' /\ RecordInv'
  BY <1>1, <1>3, AppendsHistory DEF RecordInv
<1> QED
  BY <1>1, <1>3, <1>4, <1>6, <1>7, <1>8, <1>9, AppendsInv

LEMMA TurnEndInv == ASSUME Inv, TurnEnd PROVE Inv'
<1>1. /\ mode = "live" /\ pc = "boundary" /\ Appends(Event("turn/end", turn, 0, 0)) /\ pc' = "idle"
      /\ UNCHANGED <<turn, step, calls, ran>>
  BY DEF TurnEnd, At
<1>2. turn \in Nat /\ step \in Nat
  BY DEF Inv, TypeInv
<1>3. PICK e \in EventType : Appends(e) /\ e.type = "turn/end" /\ e.turn = turn
  BY <1>1, <1>2, EventIn, EventIs, CallIsArg
<1>4. PICK w : Leads(View, buffered, w) /\ Matches(w)
  BY <1>1 DEF Inv, LiveInv
<1>5. Sound(w)
  BY <1>4, LeadsSound DEF Inv, TypeInv
<1>6. Follows(w, e)
  BY <1>1, <1>3, <1>4 DEF Matches, Follows, InTurn
<1>7. Matches(Drained(w, e))'
  <2>1. Drained(w, e).trace.openTurn = 0 /\ Drained(w, e).lastTurn = w.lastTurn
    BY <1>3, <1>5, <1>6, DrainedFields
  <2>2. w.lastTurn = turn
    BY <1>1, <1>4, <1>5 DEF Matches, Sound
  <2> QED
    BY <1>1, <2>1, <2>2 DEF Matches
<1>8. TypeInv'
  BY <1>1, <1>2, <1>3, AppendsLast DEF Inv, TypeInv, Appends
<1>9. MessageFirst' /\ RanInv' /\ RecordInv'
  BY <1>1, <1>3, AppendsHistory DEF RecordInv
<1> QED
  BY <1>1, <1>3, <1>4, <1>6, <1>7, <1>8, <1>9, AppendsInv

----------------------------------------------------------------------------
(* So do storage, the crash and the resume.                                *)

\* Counted is Counts of the answers so far.
LEMMA StoreView ==
  ASSUME NEW e, Store(e)
  PROVE  /\ answers' = Counted(e) => View' = Repaired(View, e)
         /\ answers' = (IF e.type = "step/end" THEN <<>> ELSE Counted(e)) => View' = Drained(View, e)
<1>1. Counted(e) = Counts(answers, e)
  BY DEF Counted, Counts
<1> QED
  BY <1>1 DEF Store, View, Repaired, Drained, After

LEMMA DrainInv == ASSUME Inv, Drain PROVE Inv'
<1>1. /\ mode = "live" /\ buffered # <<>> /\ buffered' = Tail(buffered)
      /\ Store(Head(buffered))
      /\ answers' = IF Head(buffered).type = "step/end" THEN <<>> ELSE Counted(Head(buffered))
      /\ UNCHANGED <<mode, closers, pc, turn, step, calls, ran>>
  BY DEF Drain, driverVars
<1>2. PICK w : Leads(View, buffered, w) /\ Matches(w)
  BY <1>1 DEF Inv, LiveInv
<1>3. buffered \in Seq(EventType)
  BY DEF Inv, TypeInv
<1>4. PICK e \in EventType : /\ e = Head(buffered) /\ Follows(View, e)
                             /\ Leads(Drained(View, e), Tail(buffered), w)
  BY <1>1, <1>2, <1>3, LeadsHead
<1>5. View' = Drained(View, e) /\ scan' = Scanned(scan, e)
  BY <1>1, <1>4, StoreView DEF Store
<1>6. Leads(View', buffered', w)
  BY <1>1, <1>4, <1>5
<1>7. LiveInv'
  <2>1. Matches(w)'
    BY <1>1, <1>2 DEF Matches, PendingAs
  <2> QED
    BY <1>6, <2>1 DEF LiveInv
<1>8. buffered' \in Seq(EventType) /\ TypeInv'
  BY <1>1, <1>3, HeadTailProperties DEF Inv, TypeInv
<1>9. Sound(View')
  BY <1>6, <1>8, LeadsSound
<1>10. /\ \A i \in DOMAIN buffered' : i + 1 \in DOMAIN buffered /\ buffered'[i] = buffered[i + 1] /\ i + 1 # 1
       /\ \A i \in DOMAIN buffered : (i = 1 /\ buffered[i] = e) \/ \E j \in DOMAIN buffered' : buffered'[j] = buffered[i]
       /\ 1 \in DOMAIN buffered /\ buffered[1] = e
  <2> DEFINE n == Len(buffered) - 1
  <2>1. /\ n \in Nat /\ DOMAIN buffered = 1..(n + 1) /\ DOMAIN buffered' = 1..n
        /\ \A i \in 1..n : buffered'[i] = buffered[i + 1]
    <3>1. Len(buffered) \in Nat /\ Len(buffered) # 0 /\ DOMAIN buffered = 1..Len(buffered)
      BY <1>1, <1>3
    <3>2. /\ Len(buffered') = Len(buffered) - 1 /\ DOMAIN buffered' = 1..Len(buffered')
          /\ \A i \in 1..Len(buffered') : buffered'[i] = buffered[i + 1]
      BY <1>1, <1>3, <1>8, HeadTailProperties
    <3> QED
      BY <3>1, <3>2
  <2>2. buffered[1] = e
    BY <1>1, <1>3, <1>4
  <2>3. ASSUME NEW i \in DOMAIN buffered, i # 1
        PROVE  \E j \in DOMAIN buffered' : buffered'[j] = buffered[i]
    <3>1. i - 1 \in 1..n /\ (i - 1) + 1 = i
      BY <2>1, <2>3
    <3>2. i - 1 \in DOMAIN buffered' /\ buffered'[i - 1] = buffered[i]
      BY <2>1, <3>1
    <3> QED
      BY <3>2
  <2>4. \A i \in DOMAIN buffered' : i + 1 \in DOMAIN buffered /\ buffered'[i] = buffered[i + 1] /\ i + 1 # 1
    BY <2>1
  <2>5. 1 \in DOMAIN buffered
    BY <2>1
  <2> QED
    BY <2>2, <2>3, <2>4, <2>5
<1>11. NoMessage' /\ MessageFirst'
  <2>1. NoMessage'
    BY <1>10 DEF Inv, MessageFirst, NoMessage
  <2> QED
    BY <2>1 DEF NoMessage, MessageFirst
<1>12. scan \in ScanType
  BY DEF Inv, Sound, View
<1>13. ASSUME NEW c \in Call, scan.pending[c] # "requested", NoMessage
       PROVE  scan'.pending[c] # "requested"
  <2>1. e.type # "assistant/message"
    BY <1>10, <1>13 DEF NoMessage
  <2> QED
    BY <1>5, <1>12, <1>13, <2>1, OnlyMessagesRequest
<1>14. RanInv'
  BY <1>1, <1>11, <1>13 DEF Inv, TypeInv, RanInv
<1>15. RecordInv'
  <2> SUFFICES ASSUME pc = "tools", NEW c \in Call, calls[c] = "recorded", FlushedCall(c)'
               PROVE  scan'.pending[c] # "requested"
    BY <1>1, <1>11 DEF RecordInv
  <2>1. CASE FlushedCall(c)
    BY <1>1, <1>13, <2>1 DEF Inv, RecordInv
  <2>2. CASE ~FlushedCall(c)
    <3>1. e.type = "tool/call" /\ e.arg = c
      BY <1>10, <2>2 DEF FlushedCall
    <3> QED
      BY <1>5, <1>12, <3>1, OnlyMessagesRequest
  <2> QED
    BY <2>1, <2>2
<1>16. Resting' /\ RepairResumes'
  BY <1>1 DEF Inv, Resting, RepairResumes
<1> QED
  BY <1>7, <1>8, <1>9, <1>11, <1>14, <1>15, <1>16 DEF Inv

\* Away from the live process only the stored log and the closers matter.
LEMMA StoredInv ==
  ASSUME TypeInv', Resting', Sound(View'), RepairResumes', mode' # "live",
         \A c \in ran' : scan'.pending[c] # "requested"
  PROVE  Inv'
<1>1. buffered' = <<>>
  BY DEF Resting
<1>2. NoMessage' /\ MessageFirst' /\ RecordInv' /\ LiveInv'
  BY <1>1 DEF NoMessage, MessageFirst, RecordInv, LiveInv
<1> QED
  BY <1>2 DEF Inv, RanInv

LEMMA CrashInv == ASSUME Inv, Crash PROVE Inv'
<1>1. /\ mode' = "down" /\ buffered' = <<>> /\ closers' = <<>> /\ pc' = "idle"
      /\ turn' = 0 /\ step' = 0 /\ calls' = NothingPending
      /\ UNCHANGED <<trace, scan, lastTurn, ran, answers>>
  BY DEF Crash, storedVars
<1>2. TypeInv' /\ Resting' /\ RepairResumes' /\ View' = View
  BY <1>1 DEF Inv, TypeInv, Resting, RepairResumes, View, NothingPending
<1>3. \A c \in ran' : scan'.pending[c] # "requested"
  BY <1>1 DEF Inv, RanInv
<1> QED
  BY <1>1, <1>2, <1>3, StoredInv DEF Inv

LEMMA OpenStoredInv == ASSUME Inv, OpenStored PROVE Inv'
<1>1. /\ mode = "down" /\ mode' = "repairing" /\ closers' = Closers(scan)
      /\ UNCHANGED <<trace, scan, lastTurn, buffered, pc, turn, step, calls, ran, answers>>
  BY DEF OpenStored, storedVars, driverVars
<1>2. closers' \in Seq(EventType)
  BY <1>1, ClosersType DEF Inv, Sound, View
<1>3. TypeInv' /\ Resting' /\ RepairResumes' /\ View' = View
  BY <1>1, <1>2 DEF Inv, TypeInv, Resting, RepairResumes, View
<1>4. \A c \in ran' : scan'.pending[c] # "requested"
  BY <1>1 DEF Inv, RanInv
<1> QED
  BY <1>1, <1>3, <1>4, StoredInv DEF Inv

\* There is something to store only when a turn is open.
LEMMA ClosersOpen ==
  ASSUME Inv, mode = "repairing"
  PROVE  closers # <<>> <=> scan.turn # 0
<1>1. closers = Closers(scan) /\ Sound(View) /\ View.scan = scan
  BY DEF Inv, RepairResumes, View
<1>2. scan \in ScanType
  BY <1>1 DEF Sound
<1>3. scan.turn = 0 => Closers(scan) = <<>>
  BY <1>2, ClosersType
<1>4. scan.turn # 0 => Closers(scan) # <<>>
  BY <1>1, ClosersRest
<1> QED
  BY <1>1, <1>3, <1>4

LEMMA StoreCloserInv == ASSUME Inv, StoreCloser PROVE Inv'
<1>1. /\ mode = "repairing" /\ closers # <<>> /\ Store(Head(closers))
      /\ closers' = Tail(closers) /\ answers' = Counted(Head(closers))
      /\ UNCHANGED <<mode, buffered, pc, turn, step, calls, ran>>
  BY DEF StoreCloser, driverVars
<1>2. closers = Closers(scan) /\ Sound(View) /\ View.scan = scan /\ scan.turn # 0
  BY <1>1, ClosersOpen DEF Inv, RepairResumes, View
<1>3. PICK e \in EventType : e = Head(closers)
  BY <1>2, ClosersRest
<1>4. /\ Follows(View, e) /\ e.type \notin {"turn/start", "assistant/message"}
      /\ e.type = "step/end" => View.scan.pending = NothingPending
      /\ Closers(Scanned(scan, e)) = Tail(closers)
  BY <1>2, <1>3, ClosersRest
<1>5. View' = Repaired(View, e) /\ scan' = Scanned(scan, e)
  BY <1>1, <1>3, StoreView DEF Store
<1>6. Sound(View')
  <2>1. Sound(After(View, e, Counts(View.answers, e)))
    BY <1>2, <1>4, SoundAfter
  <2> QED
    BY <1>5, <2>1 DEF Repaired
<1>7. closers' \in Seq(EventType)
  BY <1>1, HeadTailProperties DEF Inv, TypeInv
<1>8. TypeInv' /\ Resting'
  BY <1>1, <1>7 DEF Inv, TypeInv, Resting
<1>9. RepairResumes'
  BY <1>1, <1>4, <1>5 DEF RepairResumes
<1>10. \A c \in ran' : scan'.pending[c] # "requested"
  <2>1. scan \in ScanType
    BY <1>2 DEF Sound
  <2> QED
    BY <1>1, <1>4, <1>5, <2>1, OnlyMessagesRequest DEF Inv, RanInv, TypeInv
<1> QED
  BY <1>1, <1>6, <1>8, <1>9, <1>10, StoredInv

LEMMA ResumeInv == ASSUME Inv, Resume PROVE Inv'
<1>1. /\ mode = "repairing" /\ closers = <<>> /\ mode' = "live" /\ turn' = lastTurn
      /\ UNCHANGED <<trace, scan, lastTurn, closers, buffered, pc, step, calls, ran, answers>>
  BY DEF Resume, ResumeTurn, storedVars
<1>2. /\ Sound(View) /\ View.trace = trace /\ View.scan = scan /\ View.lastTurn = lastTurn
      /\ View' = View
  BY <1>1 DEF Inv, View
<1>3. buffered = <<>> /\ pc = "idle" /\ trace.openTurn = 0 /\ lastTurn \in Nat
  BY <1>1, <1>2, ClosersOpen DEF Inv, Resting, Sound
<1>4. LiveInv'
  <2>1. Leads(View', buffered', View')
    BY <1>1, <1>2, <1>3, LeadsNowhere
  <2>2. PICK w : w = View'
    OBVIOUS
  <2>3. Matches(w)'
    BY <1>1, <1>2, <1>3, <2>2 DEF Matches
  <2> QED
    BY <2>1, <2>2, <2>3 DEF LiveInv
<1>5. TypeInv' /\ Resting' /\ RepairResumes'
  BY <1>1, <1>3 DEF Inv, TypeInv, Resting, RepairResumes
<1>6. MessageFirst' /\ RecordInv' /\ RanInv'
  BY <1>1, <1>3 DEF Inv, MessageFirst, RecordInv, RanInv, NoMessage
<1> QED
  BY <1>2, <1>4, <1>5, <1>6 DEF Inv

LEMMA InitInv == Init => Inv
<1> SUFFICES ASSUME Init PROVE Inv
  OBVIOUS
<1>1. /\ View.trace = trace /\ View.scan = scan /\ View.lastTurn = 0 /\ View.answers = <<>>
      /\ trace = [openTurn |-> 0, openStep |-> 0, nextTurn |-> 1, nextStep |-> 1,
                  pendingCalls |-> {}, last |-> "none"]
      /\ scan = [turn |-> 0, step |-> 0, pending |-> NothingPending]
      /\ mode = "live" /\ closers = <<>> /\ buffered = <<>> /\ ran = {}
      /\ pc = "idle" /\ turn = 0 /\ step = 0 /\ calls = NothingPending
  BY DEF Init, View
<1>2. NothingPending \in [Call -> {"no", "requested", "recorded"}] /\ \A c \in Call : NothingPending[c] = "no"
  BY DEF NothingPending
<1>3. Sound(View)
  <2>1. trace \in TraceType /\ scan \in ScanType
    BY <1>1, <1>2 DEF TraceType, ScanType, TL!EventTypes
  <2>2. DOMAIN View.answers = {}
    BY <1>1
  <2> QED
    BY <1>1, <1>2, <2>1, <2>2 DEF Sound
<1>4. LiveInv
  <2>1. Leads(View, buffered, View)
    BY <1>1, <1>3, LeadsNowhere
  <2>2. Matches(View)
    BY <1>1 DEF Matches
  <2> QED
    BY <2>1, <2>2 DEF LiveInv
<1>5. TypeInv /\ Resting /\ RepairResumes
  BY <1>1 DEF TypeInv, Resting, RepairResumes, NothingPending
<1>6. MessageFirst /\ RecordInv /\ RanInv
  BY <1>1 DEF MessageFirst, RecordInv, RanInv
<1> QED
  BY <1>3, <1>4, <1>5, <1>6 DEF Inv

LEMMA NextInv == Inv /\ [Next]_vars => Inv'
<1> SUFFICES ASSUME Inv, [Next]_vars PROVE Inv'
  OBVIOUS
<1>1. ASSUME UNCHANGED vars PROVE Inv'
  <2>1. /\ UNCHANGED <<trace, scan, lastTurn, mode, closers, buffered, pc, turn, step, calls, ran, answers>>
        /\ View' = View
    BY <1>1 DEF vars, storedVars, driverVars, View
  <2>2. TypeInv' /\ Resting' /\ Sound(View)' /\ RepairResumes'
    BY <2>1 DEF Inv, TypeInv, Resting, RepairResumes
  <2>3. LiveInv'
    BY <2>1 DEF Inv, LiveInv, Matches
  <2>4. MessageFirst' /\ RecordInv' /\ RanInv'
    BY <2>1 DEF Inv, MessageFirst, RecordInv, RanInv, NoMessage, FlushedCall
  <2> QED
    BY <2>2, <2>3, <2>4 DEF Inv
<1>2. CASE Driver
  BY <1>2, TurnStartInv, StepStartInv, StepEndInv, TurnEndInv, AssistantMessageInv,
     RecordCallInv, DispatchInv, AnswerInv DEF Driver
<1>3. CASE Recovery
  BY <1>3, OpenStoredInv, StoreCloserInv, ResumeInv DEF Recovery
<1> QED
  BY <1>1, <1>2, <1>3, DrainInv, CrashInv DEF Next, Rest

LEMMA InvHolds == Spec => []Inv
  BY InitInv, NextInv, PTL DEF Spec

----------------------------------------------------------------------------
(* The results.                                                            *)

\* What is left of a repair is what a fresh scan of the log would give, at
\* every point where the process may die again.
THEOREM RepairCanResume == Spec => []RepairResumes
<1>1. Inv => RepairResumes
  BY DEF Inv
<1> QED
  BY <1>1, InvHolds, PTL

\* A repair never calls a body not started that was invoked.
THEOREM NotStartedTrue == Spec => []NotStartedIsTrue
<1>1. Inv => NotStartedIsTrue
  <2> SUFFICES ASSUME Inv, NEW e \in ToSet(Closers(scan)), e.type = "tool/not-started"
               PROVE  e.arg \notin ran
    BY DEF NotStartedIsTrue
  <2>1. scan \in ScanType
    BY DEF Inv, Sound, View
  <2>2. PICK i \in 1..Len(Closers(scan)) : e = Closers(scan)[i]
    BY <2>1, ClosersType DEF ToSet
  <2>3. e.arg \in Call /\ scan.pending[e.arg] = "requested"
    BY <2>1, <2>2, ClosersType
  <2> QED
    BY <2>3 DEF Inv, RanInv
<1> QED
  BY <1>1, InvHolds, PTL

\* No call is answered twice, and a finished repair has answered them all.
THEOREM AnsweredOnce == Spec => []AnsweredExactlyOnce
<1>1. Inv => AnsweredExactlyOnce
  <2> SUFFICES ASSUME Inv, NEW c \in DOMAIN answers
               PROVE  answers[c] <= 1 /\ (mode = "repairing" /\ closers = <<>> => answers[c] = 1)
    BY DEF AnsweredExactlyOnce
  <2>1. c \in Call /\ answers[c] = IF scan.pending[c] = "no" THEN 1 ELSE 0
    BY DEF Inv, Sound, View
  <2>2. ASSUME mode = "repairing", closers = <<>> PROVE scan.pending[c] = "no"
    <3>1. scan.turn = 0
      BY <2>2, ClosersOpen
    <3>2. scan.pending = NothingPending
      BY <3>1 DEF Inv, Sound, View
    <3> QED
      BY <2>1, <3>2 DEF NothingPending
  <2> QED
    BY <2>1, <2>2
<1> QED
  BY <1>1, InvHolds, PTL

\* The log obeys the session grammar through crashes, repairs and resumes.
THEOREM LogIsGrammatical == Spec => LogFollowsGrammar
<1>1. Init => TL!Init
  BY DEF Init, TL!Init
<1>2. Inv /\ [Next]_vars => [TL!Next]_(TL!trace)
  <2> SUFFICES ASSUME Inv, [Next]_vars, trace' # trace PROVE TL!Next
    BY DEF TL!trace
  <2>1. CASE Drain
    <3>1. PICK w : Leads(View, buffered, w)
      BY <2>1 DEF Drain, Inv, LiveInv
    <3>2. Follows(View, Head(buffered)) /\ Head(buffered) \in EventType
      BY <2>1, <3>1, LeadsHead DEF Drain, Inv, TypeInv
    <3> QED
      BY <2>1, <3>2, GrammarAfter DEF Drain, Store, Inv
  <2>2. CASE StoreCloser
    <3>1. Sound(View) /\ View.scan = scan /\ scan.turn # 0 /\ closers = Closers(scan)
      BY <2>2, ClosersOpen DEF StoreCloser, Inv, View, RepairResumes
    <3>2. Follows(View, Head(closers)) /\ Head(closers) \in EventType
      BY <3>1, ClosersRest
    <3> QED
      BY <2>2, <3>1, <3>2, GrammarAfter DEF StoreCloser, Store
  <2>3. Drain \/ StoreCloser
    BY DEF Next, Driver, Recovery, Rest, vars, storedVars, TurnStart, StepStart, StepEnd, TurnEnd,
           AssistantMessage, RecordCall, Dispatch, Answer, Appends, Crash, OpenStored, Resume
  <2> QED
    BY <2>1, <2>2, <2>3
<1> QED
  BY <1>1, <1>2, InvHolds, PTL DEF Spec, LogFollowsGrammar, TL!Spec

=============================================================================
