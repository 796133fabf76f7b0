---------------------------- MODULE CrashRecovery ----------------------------
(***************************************************************************)
(* A session whose process crashes: the events of its turns reach storage  *)
(* behind the program's back and in order, the checkpoint policy waits for *)
(* them before a request, a tool body and a step                           *)
(* (packages/session/session-checkpoint-policy/src/index.ts), and a resume *)
(* closes what the crash left open (packages/core/session/src/repair.ts,   *)
(* resumeWith in packages/core/agent-loop/src/index.ts).                   *)
(*                                                                         *)
(* The stored log is kept as what its three readers make of it: the session*)
(* companion (module TurnLog), the scan of repair.ts, and the turnBoundary *)
(* projection.  Its driver is AgentLoop and ToolCalls with all their       *)
(* decisions left open.  An event is stored when it survives the next      *)
(* crash: a batch that is being written leaves any prefix.                 *)
(***************************************************************************)
EXTENDS Naturals, Sequences, FiniteSets, SequencesExt

CONSTANTS
    N,                  \* how many calls an assistant message carries at most
    MaxTurns, MaxSteps, \* bounds: turns ever opened, steps of a turn
    MaxCrashes          \* bound: how often the process dies

ASSUME BoundsAssumption ==
    N \in Nat /\ MaxTurns \in Nat /\ MaxSteps \in Nat /\ MaxCrashes \in Nat

Call == 1..N

VARIABLES
    \* the stored log
    trace,              \* what the companion makes of it
    scan,               \* what interruptedTurnClosers makes of it
    lastTurn,           \* turnBoundary.lastTurn
    \* the process
    mode,               \* "live", "down", or "repairing" in resumeWith
    closers,            \* repair events that are still to be stored
    buffered,           \* live events that are not stored yet
    pc, turn, step,     \* the driver
    calls,              \* the calls of the open step, and how far each is
    \* history
    crashes,
    ran,                \* calls of the last step whose body was invoked
    answers             \* results stored for each call of the open or interrupted step

storedVars  == <<trace, scan, lastTurn>>
driverVars  == <<pc, turn, step, calls>>
vars == <<storedVars, mode, closers, buffered, driverVars, crashes, ran, answers>>

TL == INSTANCE TurnLog WITH
    Calls <- Call, pendingCalls <- trace.pendingCalls,
    openTurn <- trace.openTurn, openStep <- trace.openStep,
    nextTurn <- trace.nextTurn, nextStep <- trace.nextStep, last <- trace.last

\* An event; arg is the call it is about, or how many calls a message carries.
Event(type, t, s, arg) == [type |-> type, turn |-> t, step |-> s, arg |-> arg]

IsResult(e) == e.type \in {"tool/result", "tool/not-started"}

----------------------------------------------------------------------------
(* The readers of the log, one event at a time.                            *)

\* The companion's trace; an event with a wrong turn or step is misnumbered.
Stamped(t, e) ==
    CASE e.type = "turn/start" -> e.type
      [] e.type \in {"turn/end", "step/start"} ->
             IF e.turn = t.openTurn THEN e.type ELSE "misnumbered"
      [] OTHER ->
             IF e.turn = t.openTurn /\ e.step = t.openStep THEN e.type ELSE "misnumbered"

Traced(t, e) ==
    LET u == [t EXCEPT !.last = Stamped(t, e)]
    IN  CASE e.type = "turn/start" -> [u EXCEPT !.openTurn = e.turn, !.nextStep = 1]
          [] e.type = "turn/end"   -> [u EXCEPT !.openTurn = 0, !.nextTurn = @ + 1]
          [] e.type = "step/start" -> [u EXCEPT !.openStep = e.step]
          [] e.type = "step/end"   ->
                 [u EXCEPT !.openStep = 0, !.nextStep = @ + 1, !.pendingCalls = {}]
          [] e.type = "tool/call"  -> [u EXCEPT !.pendingCalls = @ \cup {e.arg}]
          [] IsResult(e)           -> [u EXCEPT !.pendingCalls = @ \ {e.arg}]
          [] OTHER                 -> u

NothingPending == [c \in Call |-> "no"]

ResultKept(s, c) == s                   \* mutant: an answered call stays on the map

ResultTaken(s, c) == [s EXCEPT !.pending[c] = "no"]

Scanned(s, e) ==
    CASE e.type = "turn/start" -> [turn |-> e.turn, step |-> 0, pending |-> NothingPending]
      [] e.type = "turn/end"   -> [turn |-> 0, step |-> 0, pending |-> NothingPending]
      [] e.type = "step/start" -> [s EXCEPT !.step = e.step]
      [] e.type = "step/end"   -> [s EXCEPT !.step = 0, !.pending = NothingPending]
      [] e.type = "assistant/message" ->
             [s EXCEPT !.pending = [c \in Call |-> IF c <= e.arg THEN "requested" ELSE @[c]]]
      [] e.type = "tool/call" /\ s.pending[e.arg] # "no" -> [s EXCEPT !.pending[e.arg] = "recorded"]
      [] IsResult(e)           -> ResultTaken(s, e.arg)
      [] OTHER                 -> s

\* interruptedTurnClosers: results for the calls in the order of the message,
\* then the step's end, then the turn's.
ResultCloser(s, c) ==
    Event(IF s.pending[c] = "recorded" THEN "tool/result" ELSE "tool/not-started",
          s.turn, s.step, c)

\* The calls of S in the order of the message.
InOrder(S) ==
    CHOOSE q \in [1..Cardinality(S) -> S] :
        \A i, j \in 1..Cardinality(S) : i < j => q[i] < q[j]

OpenCalls(s) == {c \in Call : s.pending[c] # "no"}

ResultClosers(s) ==
    LET open == InOrder(OpenCalls(s))
    IN  [i \in 1..Cardinality(OpenCalls(s)) |-> ResultCloser(s, open[i])]

NoStepCloser(s) == <<>>                 \* mutant: the turn is closed around an open step

StepCloser(s) == IF s.step = 0 THEN <<>> ELSE <<Event("step/end", s.turn, s.step, 0)>>

TurnCloser(s) == <<Event("turn/end", s.turn, 0, 0)>>

ClosersStepFirst(s) ==                  \* mutant: the step is closed before its calls
    IF s.turn = 0 THEN <<>> ELSE StepCloser(s) \o ResultClosers(s) \o TurnCloser(s)

Closers(s) ==
    IF s.turn = 0 THEN <<>> ELSE ResultClosers(s) \o StepCloser(s) \o TurnCloser(s)

Store(e) ==
    /\ trace' = Traced(trace, e)
    /\ scan' = Scanned(scan, e)
    /\ lastTurn' = IF e.type = "turn/start" THEN e.turn ELSE lastTurn

Init ==
    /\ trace = [openTurn |-> 0, openStep |-> 0, nextTurn |-> 1, nextStep |-> 1,
                pendingCalls |-> {}, last |-> "none"]
    /\ scan = [turn |-> 0, step |-> 0, pending |-> NothingPending]
    /\ lastTurn = 0
    /\ mode = "live" /\ closers = <<>> /\ buffered = <<>>
    /\ pc = "idle" /\ turn = 0 /\ step = 0 /\ calls = NothingPending
    /\ crashes = 0 /\ ran = {} /\ answers = <<>>

----------------------------------------------------------------------------
(* The driver.  Each append goes to the live log and the write buffer.     *)

Appends(e) ==
    /\ buffered' = Append(buffered, e)
    /\ UNCHANGED <<storedVars, mode, closers, crashes, answers>>

At(l) == mode = "live" /\ pc = l

\* sessions.flush has returned: what was logged when it was called is stored.
Flushed == buffered = <<>>

FlushedCallAlways(c) == TRUE            \* mutant: bodies do not wait for the flush

FlushedCall(c) == \A i \in DOMAIN buffered : ~(buffered[i].type = "tool/call" /\ buffered[i].arg = c)

TurnStart ==
    /\ At("idle")
    /\ turn < MaxTurns
    /\ Appends(Event("turn/start", turn + 1, 0, 0))
    /\ turn' = turn + 1 /\ step' = 0
    /\ pc' = "boundary"
    /\ UNCHANGED <<calls, ran>>

\* agent/pre-step flushes before a step is entered.
StepStart ==
    /\ At("boundary")
    /\ step < MaxSteps
    /\ Flushed
    /\ Appends(Event("step/start", turn, step + 1, 0))
    /\ step' = step + 1
    /\ pc' = "request"
    /\ UNCHANGED <<turn, calls, ran>>

\* llm/stream flushes before the adapter is asked for the answer.
AssistantMessage(n) ==
    /\ At("request")
    /\ Flushed
    /\ Appends(Event("assistant/message", turn, step, n))
    /\ calls' = [c \in Call |-> IF c <= n THEN "requested" ELSE "no"]
    /\ ran' = {}
    /\ pc' = "tools"
    /\ UNCHANGED <<turn, step>>

RecordCall(c) ==
    /\ At("tools")
    /\ calls[c] = "requested"
    /\ \A d \in 1..(c - 1) : calls[d] # "requested"
    /\ Appends(Event("tool/call", turn, step, c))
    /\ calls' = [calls EXCEPT ![c] = "recorded"]
    /\ UNCHANGED <<pc, turn, step, ran>>

\* tools/execute flushes before the body; the body may have effects at once.
Dispatch(c) ==
    /\ At("tools")
    /\ calls[c] = "recorded"
    /\ FlushedCall(c)
    /\ calls' = [calls EXCEPT ![c] = "dispatched"]
    /\ ran' = ran \cup {c}
    /\ UNCHANGED <<storedVars, mode, closers, buffered, pc, turn, step, crashes, answers>>

\* A call that was not dispatched is answered by a hook, a failed flush or an
\* abort.
Answer(c) ==
    /\ At("tools")
    /\ calls[c] \in {"recorded", "dispatched"}
    /\ \A d \in 1..(c - 1) : calls[d] = "answered"
    /\ Appends(Event("tool/result", turn, step, c))
    /\ calls' = [calls EXCEPT ![c] = "answered"]
    /\ UNCHANGED <<pc, turn, step, ran>>

\* A step ends when its calls are answered, or by an error at any time.
StepEnd ==
    /\ At("request") \/ At("tools")
    /\ Appends(Event("step/end", turn, step, 0))
    /\ pc' = "boundary"
    /\ UNCHANGED <<turn, step, calls, ran>>

TurnEnd ==
    /\ At("boundary")
    /\ Appends(Event("turn/end", turn, 0, 0))
    /\ pc' = "idle"
    /\ UNCHANGED <<turn, step, calls, ran>>

----------------------------------------------------------------------------
(* Storage, the crash, and the resume.                                     *)

\* How the results of a step are counted (history).
Counted(e) ==
    IF e.type = "assistant/message" THEN [c \in 1..e.arg |-> 0]
    ELSE IF IsResult(e) /\ e.arg \in DOMAIN answers THEN [answers EXCEPT ![e.arg] = @ + 1]
    ELSE answers

\* A step that its own driver ends owes nothing any more.
Drain ==
    /\ mode = "live" /\ buffered # <<>>
    /\ Store(Head(buffered))
    /\ buffered' = Tail(buffered)
    /\ answers' = IF Head(buffered).type = "step/end" THEN <<>> ELSE Counted(Head(buffered))
    /\ UNCHANGED <<mode, closers, driverVars, crashes, ran>>

Crash ==
    /\ mode # "down"
    /\ crashes < MaxCrashes
    /\ crashes' = crashes + 1
    /\ mode' = "down"
    /\ buffered' = <<>> /\ closers' = <<>>
    /\ pc' = "idle" /\ turn' = 0 /\ step' = 0 /\ calls' = NothingPending
    /\ UNCHANGED <<storedVars, ran, answers>>

\* resumeWith: read the log, and append what closes its interrupted turn.
OpenStored ==
    /\ mode = "down"
    /\ mode' = "repairing"
    /\ closers' = Closers(scan)
    /\ UNCHANGED <<storedVars, buffered, driverVars, crashes, ran, answers>>

StoreCloser ==
    /\ mode = "repairing" /\ closers # <<>>
    /\ Store(Head(closers))
    /\ closers' = Tail(closers)
    /\ answers' = Counted(Head(closers))
    /\ UNCHANGED <<mode, buffered, driverVars, crashes, ran>>

\* The new driver counts on from the turnBoundary projection.
ResumeTurn == lastTurn

Resume ==
    /\ mode = "repairing" /\ closers = <<>>
    /\ mode' = "live"
    /\ turn' = ResumeTurn
    /\ UNCHANGED <<storedVars, closers, buffered, pc, step, calls, crashes, ran, answers>>

----------------------------------------------------------------------------

Driver ==
    \/ TurnStart \/ StepStart \/ StepEnd \/ TurnEnd
    \/ \E n \in 0..N : AssistantMessage(n)
    \/ \E c \in Call : RecordCall(c) \/ Dispatch(c) \/ Answer(c)

Recovery == OpenStored \/ StoreCloser \/ Resume

\* Nobody sends anything any more.
Rest == At("idle") /\ buffered = <<>> /\ UNCHANGED vars

Next == Driver \/ Drain \/ Crash \/ Recovery \/ Rest

Spec == Init /\ [][Next]_vars

----------------------------------------------------------------------------

EventType ==
    [type : TL!EventTypes, turn : Nat, step : Nat, arg : 0..N]

\* The stored log obeys the session grammar through any number of crashes:
\* the repair's events and the turns after a resume are ones the companion
\* accepts, although repair.ts and invariant.ts scan the log by other rules.
LogFollowsGrammar == TL!Spec

\* Whenever the process dies, repair never reports a call as not started
\* ("retry it if it is still needed") whose body was invoked.
NotStartedIsTrue ==
    \A e \in ToSet(Closers(scan)) : e.type = "tool/not-started" => e.arg \notin ran

\* A call is never answered twice, also when the process dies again in the
\* middle of a repair; and once a repair is complete, every call of the step
\* that the crash interrupted is answered.
AnsweredExactlyOnce ==
    \A c \in DOMAIN answers :
        /\ answers[c] <= 1
        /\ mode = "repairing" /\ closers = <<>> => answers[c] = 1

\* What is left of a repair is what a reader of the log would compute afresh:
\* a repair that is interrupted anywhere is continued by the next one.
RepairResumes == mode = "repairing" => closers = Closers(scan)

=============================================================================
