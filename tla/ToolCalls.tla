------------------------------ MODULE ToolCalls ------------------------------
(***************************************************************************)
(* The scheduler of one assistant step's tool calls:                       *)
(* packages/core/agent-loop/src/tool-calls.ts.                             *)
(*                                                                         *)
(* Calls 1..N, in model order, are cut into groups: an exclusive call      *)
(* alone, or every remaining call under the bounded pool.  A call is       *)
(* started (its tool/call event), prepared, dispatched, and when its body  *)
(* settles its slot waits for its turn to be committed (tool/result).      *)
(* Policy hooks, bodies, and finalize hooks are external: each may take    *)
(* any time, and may throw.  The step's signal may abort at every await.   *)
(***************************************************************************)
EXTENDS Naturals, Sequences, FiniteSets

CONSTANTS
    N,                  \* how many calls the assistant message carries
    MaxParallel         \* maxParallelToolCalls

ASSUME NAssumption == N \in Nat
ASSUME MaxParallelAssumption == MaxParallel \in Nat \ {0}

Call  == 1..N
Modes == {"parallel", "exclusive"}

VARIABLES
    signal,             \* the step's AbortSignal has fired
    \* executeToolCalls
    next,               \* calls consumed by finished groups
    concluded,          \* some committed result concludes the turn
    \* runGroup
    mode,               \* the group's mode
    groupEnd,           \* the group is next + 1 .. groupEnd
    started,            \* calls up to here have been started
    committed,          \* calls up to here have been committed
    aborted,            \* the scheduler has seen the signal
    failure,            \* schedulerFailure is set
    inFlight,           \* keys of the map of dispatch promises
    slots,              \* settled calls that await their commit
    settled,            \* dispatched calls whose promise has resolved
    pc,
    \* what has been written, and how each call was classified at its start
    called, results,    \* the tool/call and tool/result events, in order
    lastEvent,
    startedAs

groupVars == <<mode, groupEnd, started, committed, aborted, failure, inFlight,
               slots, settled>>
logVars == <<called, results, lastEvent>>
vars == <<signal, next, concluded, groupVars, pc, logVars, startedAs>>

Ran == {c \in Call : \E i \in DOMAIN called : called[i] = c}
Answered == {c \in Call : \E i \in DOMAIN results : results[i] = c}

\* The step is open for as long as the scheduler runs (module AgentLoop).
TL == INSTANCE TurnLog WITH
    Calls <- Call, openTurn <- 1, openStep <- 1, nextTurn <- 1, nextStep <- 1,
    pendingCalls <- Ran \ Answered, last <- lastEvent

Init ==
    /\ signal \in BOOLEAN
    /\ next = 0 /\ concluded = FALSE
    /\ mode = "exclusive" /\ groupEnd = 0 /\ started = 0 /\ committed = 0
    /\ aborted = FALSE /\ failure = FALSE
    /\ inFlight = {} /\ slots = {} /\ settled = {}
    /\ pc = "pick"
    /\ called = <<>> /\ results = <<>> /\ lastEvent = "assistant/message"
    /\ startedAs = [c \in Call |-> "none"]

----------------------------------------------------------------------------
(* The world outside.                                                      *)

\* "fill" is reached and left without an await.
Awaiting == pc \notin {"fill", "done", "failed"}

Abort ==
    /\ Awaiting /\ ~signal
    /\ signal' = TRUE
    /\ UNCHANGED <<next, concluded, groupVars, pc, logVars, startedAs>>

Running == inFlight \ settled

\* A dispatched body returns a result, or its promise rejects.
BodyReturns(c) ==
    /\ Awaiting
    /\ c \in Running
    /\ settled' = settled \cup {c}
    /\ slots' = slots \cup {c}
    /\ UNCHANGED <<signal, next, concluded, mode, groupEnd, started, committed, aborted,
                   failure, inFlight, pc, logVars, startedAs>>

BodyRejects(c) ==
    /\ Awaiting
    /\ c \in Running
    /\ settled' = settled \cup {c}
    /\ failure' = TRUE
    /\ UNCHANGED <<signal, next, concluded, mode, groupEnd, started, committed, aborted,
                   inFlight, slots, pc, logVars, startedAs>>

----------------------------------------------------------------------------
(* executeToolCalls and runGroup.                                          *)

GroupLimitShared(m) == N                \* mutant: an exclusive call shares the pool

GroupLimit(m) == IF m = "parallel" THEN N ELSE next + 1

\* Classify the next call under the live registry and open its group.
PickGroup ==
    /\ pc = "pick"
    /\ next < N
    /\ mode' \in Modes
    /\ groupEnd' = GroupLimit(mode')
    /\ started' = next /\ committed' = next
    /\ aborted' = signal
    /\ pc' = "fill"
    /\ UNCHANGED <<signal, next, concluded, failure, inFlight, slots, settled, logVars,
                   startedAs>>

AllPicked ==
    /\ pc = "pick"
    /\ next = N
    /\ pc' = "done"
    /\ UNCHANGED <<signal, next, concluded, groupVars, logVars, startedAs>>

PoolHasRoomForOneMore ==                \* mutant: <= for <
    ~aborted /\ started < groupEnd /\ Cardinality(inFlight) <= MaxParallel

PoolHasRoom ==
    ~aborted /\ started < groupEnd /\ Cardinality(inFlight) < MaxParallel

\* A later call of the pool is started only if it is still parallel.
StartCall ==
    /\ pc = "fill"
    /\ PoolHasRoom
    /\ called' = Append(called, started + 1) /\ lastEvent' = "tool/call"
    /\ startedAs' = [startedAs EXCEPT ![started + 1] = mode]
    /\ started' = started + 1
    /\ pc' = "preparing"
    /\ UNCHANGED <<signal, next, concluded, mode, groupEnd, committed, aborted, failure,
                   inFlight, slots, settled, results>>

\* The pool is full, or at a call that has become exclusive, or must stop.
StopFilling ==
    /\ pc = "fill"
    /\ ~PoolHasRoom \/ (mode = "parallel" /\ started > next)
    /\ pc' = "race"
    /\ UNCHANGED <<signal, next, concluded, groupVars, logVars, startedAs>>

\* Preparation hands the call to its body, or answers it without one.
Prepared ==
    /\ pc = "preparing"
    /\ ~failure
    /\ \/ inFlight' = inFlight \cup {started} /\ UNCHANGED slots
       \/ slots' = slots \cup {started} /\ UNCHANGED inFlight
    /\ pc' = "commit"
    /\ UNCHANGED <<signal, next, concluded, mode, groupEnd, started, committed, aborted,
                   failure, settled, logVars, startedAs>>

NextResultSettled ==                    \* mutant: results in the order of settlement
    IF slots \ Answered = {} THEN committed + 1
    ELSE CHOOSE c \in slots \ Answered : \A d \in slots \ Answered : d <= c
NextResultStuck == next + 1             \* mutant: the committed slot is kept

NextResult == committed + 1

SeesAbortStale == aborted               \* mutant: the signal is not read again

SeesAbort == aborted \/ signal

\* commitReady: results are finalized and written in model order.
CommitReady ==
    /\ pc = "commit"
    /\ NextResult \in slots
    /\ results' = Append(results, NextResult) /\ lastEvent' = "tool/result"
    /\ committed' = committed + 1
    /\ concluded' \in {concluded, TRUE}
    /\ UNCHANGED <<signal, next, mode, groupEnd, started, aborted, failure, inFlight,
                   slots, settled, pc, called, startedAs>>

\* Nothing more to commit: look at the signal and refill the pool.
Committed ==
    /\ pc = "commit"
    /\ NextResult \notin slots
    /\ ~failure
    /\ aborted' = SeesAbort
    /\ pc' = "fill"
    /\ UNCHANGED <<signal, next, concluded, mode, groupEnd, started, committed, failure,
                   inFlight, slots, settled, logVars, startedAs>>

\* Promise.race over the pool.
Race(c) ==
    /\ pc = "race"
    /\ c \in inFlight \cap settled
    /\ inFlight' = inFlight \ {c}
    /\ pc' = IF failure THEN "drain" ELSE "commit"
    /\ UNCHANGED <<signal, next, concluded, mode, groupEnd, started, committed, aborted,
                   failure, slots, settled, logVars, startedAs>>

GroupEnds ==
    /\ pc = "race"
    /\ inFlight = {}
    /\ ~aborted
    /\ next' = started
    /\ pc' = "pick"
    /\ UNCHANGED <<signal, concluded, groupVars, logVars, startedAs>>

\* A seen abort: every call that was not started gets a synthetic pair, first
\* in the group and then in the rest of the plan.
SkipCall ==
    /\ pc = "race" \/ pc = "skip"
    /\ inFlight = {} /\ aborted
    /\ started < N
    /\ called' = Append(called, started + 1) /\ lastEvent' = "tool/call"
    /\ started' = started + 1
    /\ pc' = "skipped"
    /\ UNCHANGED <<signal, next, concluded, mode, groupEnd, committed, aborted, failure,
                   inFlight, slots, settled, results, startedAs>>

SkipResult ==
    /\ pc = "skipped"
    /\ results' = Append(results, started) /\ lastEvent' = "tool/result"
    /\ pc' = "skip"
    /\ UNCHANGED <<signal, next, concluded, groupVars, called, startedAs>>

AllSkipped ==
    /\ pc = "race" \/ pc = "skip"
    /\ inFlight = {} /\ aborted
    /\ started = N
    /\ pc' = "done"
    /\ UNCHANGED <<signal, next, concluded, groupVars, logVars, startedAs>>

\* A failure of the scheduler itself: a throwing hook, or a rejected dispatch
\* seen after an await.  Started bodies are drained and nothing is written.
Fails ==
    /\ \/ pc = "preparing"
       \/ pc = "commit" /\ (NextResult \in slots \/ failure)
    /\ failure' = TRUE
    /\ pc' = "drain"
    /\ UNCHANGED <<signal, next, concluded, mode, groupEnd, started, committed, aborted,
                   inFlight, slots, settled, logVars, startedAs>>

DrainedAtOnce ==                        \* mutant: running bodies are left behind
    /\ pc = "drain"
    /\ pc' = "failed"
    /\ UNCHANGED <<signal, next, concluded, groupVars, logVars, startedAs>>

DrainedByMap ==                         \* mutant: waits for a map nobody empties
    /\ pc = "drain"
    /\ inFlight = {}
    /\ pc' = "failed"
    /\ UNCHANGED <<signal, next, concluded, groupVars, logVars, startedAs>>

Drained ==
    /\ pc = "drain"
    /\ Running = {}
    /\ pc' = "failed"
    /\ UNCHANGED <<signal, next, concluded, groupVars, logVars, startedAs>>

----------------------------------------------------------------------------

Body == \E c \in Call : BodyReturns(c) \/ BodyRejects(c)

Scheduler ==
    \/ PickGroup \/ AllPicked \/ StartCall \/ StopFilling \/ Prepared
    \/ CommitReady \/ Committed \/ (\E c \in Call : Race(c)) \/ GroupEnds
    \/ SkipCall \/ SkipResult \/ AllSkipped \/ Fails \/ Drained

\* The promise of executeToolCalls has settled.
Settled == pc \in {"done", "failed"} /\ UNCHANGED vars

Next == Abort \/ Body \/ Scheduler \/ Settled

Spec == Init /\ [][Next]_vars

\* Hooks and bodies settle; a body that was dispatched settles on its own.
FairSpec == Spec /\ WF_vars(Scheduler) /\ \A c \in Call : WF_vars(BodyReturns(c) \/ BodyRejects(c))

----------------------------------------------------------------------------

\* The types, and that at most MaxParallel bodies run at once.
TypeOK ==
    /\ Cardinality(Running) <= MaxParallel
    /\ signal \in BOOLEAN /\ concluded \in BOOLEAN
    /\ next \in 0..N /\ groupEnd \in 0..N /\ started \in 0..N /\ committed \in 0..N
    /\ mode \in Modes
    /\ aborted \in BOOLEAN /\ failure \in BOOLEAN
    /\ inFlight \subseteq Call /\ slots \subseteq Call /\ settled \subseteq Call
    /\ pc \in {"pick", "fill", "preparing", "commit", "race", "skip", "skipped", "drain",
               "done", "failed"}
    /\ called \in Seq(Call) /\ results \in Seq(Call)
    /\ lastEvent \in TL!EventTypes
    /\ startedAs \in [Call -> {"none"} \cup Modes]

\* Calls and results are written in model order, each result after its call,
\* whatever the order in which bodies settle.
ModelOrder ==
    /\ called = [i \in 1..Len(called) |-> i]
    /\ results = [i \in 1..Len(results) |-> i]
    /\ Len(results) <= Len(called)

\* While an exclusive call is unanswered no other call is: it is a barrier on
\* both sides, also when a call of a running pool is reclassified.
ExclusiveIsBarrier ==
    \A c, d \in Ran \ Answered : startedAs[c] = "exclusive" => d = c

\* The scheduler reports success only with one call and one result for every
\* call of the message; after a failure no body still runs, and every result
\* that was written is one a body or a hook produced.
OutcomeIsComplete ==
    /\ pc = "done" => Len(called) = N /\ Len(results) = N
    /\ pc = "failed" => Running = {} /\ Answered \subseteq slots

\* Once the signal has fired no call is started any more: what is written
\* from then on are results of started calls and synthetic pairs.
NoStartUnderAbort == [][signal => startedAs' = startedAs]_vars

\* The events obey the session grammar: a result answers a pending call.
LogFollowsGrammar == [][TL!Next]_logVars

\* The tool phase of a step always ends.
SchedulerSettles == <>(pc \in {"done", "failed"})

=============================================================================
