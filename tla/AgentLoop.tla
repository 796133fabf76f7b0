------------------------------ MODULE AgentLoop ------------------------------
(***************************************************************************)
(* The turn/step machine of packages/core/agent-loop/src/agent.ts with the *)
(* inbox it drains (inbox.ts): one agent, its driver, and everybody who    *)
(* may call send, cancel, inbox.remove or runMaintenance while it runs.    *)
(*                                                                         *)
(* JavaScript runs one piece of code at a time, so an action is the code   *)
(* between two places where other code may run.  There are two kinds of    *)
(* them.  At an await (and while an agent/status, agent/error or inbox     *)
(* notification is being emitted) any call may be made.  Right after a     *)
(* Session.append only the synchronous session/event observers run, and    *)
(* there a call that would itself append throws before changing anything:  *)
(* what is left is a cancel that clears nothing.                           *)
(*                                                                         *)
(* A call that emits notifications half way, send before it wakes and      *)
(* cancel after each list it clears, is a frame of the stack calls while   *)
(* their listeners run.  The listeners make calls of their own, and only   *)
(* the innermost call goes on.  A driver that a listener starts runs, on   *)
(* that stack, to its first await.                                         *)
(*                                                                         *)
(* Messages are 1..MaxSent, numbered in the order they are sent.           *)
(***************************************************************************)
EXTENDS Naturals, Sequences, Functions

CONSTANTS
    MaxSent,            \* bound: how many messages are ever sent
    MaxSteps,           \* bound: the model asks for no tools in a later step
    MaxNesting,         \* bound: how many calls of listeners are inside each other
    CallerCauses,       \* the causes callers cancel with, beside "disposed"
    Rejectable          \* the events a dispatch listener or companion may veto

ASSUME BoundsAssumption == MaxSent \in Nat /\ MaxSteps \in Nat /\ MaxNesting \in Nat
ASSUME CausesAssumption == CallerCauses \subseteq {"user", "parent", "hook"}
ASSUME RejectableAssumption ==
    Rejectable \subseteq {"turn/start", "turn/end", "step/start", "step/end", "agent/inbox/spliced"}

Message == 1..MaxSent
Causes  == CallerCauses \cup {"disposed"}         \* AgentCancelCause

VARIABLES
    \* Phase: the lifecycle state and the controller of the current activity
    phase,              \* "idle", "maintenance", "running"
    turn, step,         \* last opened turn, last opened step of that turn
    abort,              \* "none", or the cause the controller was aborted with
    wakeRequested,      \* the latch replayed when the activity converges
    \* the inbox
    nextTurnQ,          \* prompts, one per turn
    nextStepQ,          \* input for the next step boundary
    \* locals of kick, turn, preStep and step
    pc, target, decision, batch, firstAttempt, stepResult, turnEnds, exitBy,
    replay,             \* kick's finally still has to replay the latch
    calls,              \* the calls whose listeners are running, innermost first
    \* what has been written
    log,                \* the trace of the session log, as TurnLog keeps it
    userLog,            \* the user/message events, in order
    \* history
    sent,               \* how many messages have been sent
    parked,             \* pending messages that no wake promises to deliver
    refused             \* a step/end or turn/end was vetoed

phaseVars  == <<phase, turn, step, abort, wakeRequested>>
inboxVars  == <<nextTurnQ, nextStepQ>>
localVars  == <<target, decision, batch, firstAttempt, stepResult, turnEnds, exitBy>>
logVars    == <<log, userLog>>
historyVars == <<sent, parked, refused>>
callVars   == <<replay, calls>>
vars == <<phaseVars, inboxVars, pc, localVars, callVars, logVars, historyVars>>

TL == INSTANCE TurnLog WITH
    Calls <- {}, pendingCalls <- {},
    openTurn <- log.openTurn, openStep <- log.openStep,
    nextTurn <- log.nextTurn, nextStep <- log.nextStep, last <- log.last

----------------------------------------------------------------------------
(* Writing the log.  The driver stamps events with its own counters and    *)
(* checks nothing; an event whose stamp is not the open turn and step makes *)
(* the companion fail, which "misnumbered" stands for.  That the result    *)
(* obeys TurnLog, and is never misnumbered, until a closing event is       *)
(* refused is a theorem.                                                   *)

Stamped(type, matches) == IF matches THEN type ELSE "misnumbered"

InOpenTurn == log.openTurn = turn
InOpenStep == log.openTurn = turn /\ log.openStep = step

AppendTurnStart(t) ==
    log' = [log EXCEPT !.openTurn = t, !.nextStep = 1, !.last = "turn/start"]
AppendTurnEnd ==
    log' = [log EXCEPT !.openTurn = 0, !.nextTurn = @ + 1,
                       !.last = Stamped("turn/end", InOpenTurn)]
AppendStepStart(s) ==
    log' = [log EXCEPT !.openStep = s, !.last = Stamped("step/start", InOpenTurn)]
AppendStepEnd ==
    log' = [log EXCEPT !.openStep = 0, !.nextStep = @ + 1,
                       !.last = Stamped("step/end", InOpenStep)]
AppendInStep(type) ==
    log' = [log EXCEPT !.last = Stamped(type, InOpenStep)]
AppendOther(type) ==
    log' = [log EXCEPT !.last = type]

----------------------------------------------------------------------------
(* Where other code may run.                                               *)

Pending == Range(nextTurnQ) \cup Range(nextStepQ)
HasPending == nextTurnQ # <<>> \/ nextStepQ # <<>>

\* The driver stands right after an append, with no await in between.
AtAppend ==
    \/ pc \in {"loop", "claiming", "admit", "request", "afterStep", "failing", "ended"}
    \/ pc = "turnEnd" /\ turnEnds # "error"

\* A listener's call that other listeners may interrupt is a frame of its own.
CanCall == ~AtAppend
CanNest == CanCall /\ Len(calls) < MaxNesting

FrameKinds == {"waking", "afterAbort", "clearing", "cleared", "driver"}
Frames == [kind : FrameKinds, cause : {"none"} \cup Causes]
Frame(kind, cause) == [kind |-> kind, cause |-> cause]
Innermost(kind) == calls # <<>> /\ Head(calls).kind = kind
Push(kind, cause) == calls' = <<Frame(kind, cause)>> \o calls
Return == calls' = Tail(calls)

\* The driver runs when no call is in the way, or as the innermost itself,
\* which it stops being at its first await.
At(l) == pc = l /\ (Innermost("driver") \/ (calls = <<>> /\ ~replay))
Await == IF Innermost("driver") THEN Return ELSE UNCHANGED calls

\* A live driver claims what is queued; it has made its last check at "exit".
DriverWillClaim == phase = "running" /\ abort = "none" /\ pc # "exit"

\* The driver goes on at l, or its step() returns r, and nothing else happens.
Goto(l) ==
    /\ pc' = l
    /\ UNCHANGED <<phaseVars, inboxVars, localVars, callVars, logVars, historyVars>>

StepReturnsWithoutEnd(r) ==    \* mutant: a throw skips the finally of step/end
    /\ stepResult' = r
    /\ pc' = IF r = "throw" THEN "failing" ELSE "stepEnd"
    /\ UNCHANGED <<phaseVars, inboxVars, target, decision, batch, firstAttempt, turnEnds,
                   exitBy, callVars, userLog, historyVars>>

StepReturns(r) ==
    /\ stepResult' = r
    /\ pc' = "stepEnd"
    /\ UNCHANGED <<phaseVars, inboxVars, target, decision, batch, firstAttempt, turnEnds,
                   exitBy, callVars, userLog, historyVars>>

Init ==
    /\ phase = "idle" /\ turn = 0 /\ step = 0
    /\ abort = "none" /\ wakeRequested = FALSE
    /\ nextTurnQ = <<>> /\ nextStepQ = <<>>
    /\ pc = "off" /\ target = "next-turn" /\ decision = "none" /\ batch = <<>>
    /\ firstAttempt = TRUE /\ stepResult = "null" /\ turnEnds = "null"
    /\ exitBy = "continue" /\ replay = FALSE /\ calls = <<>>
    /\ log = [openTurn |-> 0, openStep |-> 0, nextTurn |-> 1, nextStep |-> 1,
              last |-> "none"]
    /\ userLog = <<>>
    /\ sent = 0 /\ parked = {} /\ refused = FALSE

----------------------------------------------------------------------------
(* Callers.                                                                *)

StartDriver ==
    /\ phase = "idle"
    /\ phase' = "running" /\ step' = 0 /\ abort' = "none" /\ wakeRequested' = FALSE
    /\ pc' = "enter"
    /\ parked' = {}
    /\ UNCHANGED turn

\* What a wake that starts no driver promises (history): unless the activity
\* is being disposed of, input after an abort or during maintenance is served
\* when the activity is over.
Promise(wakeAfterAbort) ==
    parked' = IF abort # "disposed" /\ (phase = "maintenance" \/ wakeAfterAbort)
              THEN {} ELSE parked

LatchesForMaintenance(wakeAfterAbort) ==    \* mutant: an aborted driver latches nothing
    abort # "disposed" /\ phase = "maintenance"

LatchesAfterAbort(wakeAfterAbort) ==        \* mutant: maintenance latches nothing
    abort # "disposed" /\ wakeAfterAbort

Latches(wakeAfterAbort) ==
    abort # "disposed" /\ (phase = "maintenance" \/ wakeAfterAbort)

LatchWake(wakeAfterAbort) ==
    /\ phase # "idle"
    /\ wakeRequested' = (wakeRequested \/ Latches(wakeAfterAbort))
    /\ Promise(wakeAfterAbort)
    /\ UNCHANGED <<phase, turn, step, abort, pc>>

wakeDriver(wakeAfterAbort) == StartDriver \/ LatchWake(wakeAfterAbort)

Insert(to) ==
    IF to = "next-turn"
    THEN nextTurnQ' = Append(nextTurnQ, sent + 1) /\ UNCHANGED nextStepQ
    ELSE nextStepQ' = Append(nextStepQ, sent + 1) /\ UNCHANGED nextTurnQ

\* followup is (next-turn, waking), steer (next-step, waking), inject
\* (next-step, not waking).  The class of a waking send is fixed before the
\* insertion, whose listeners may make any call before wakeDriver runs.
Send(to, wakeup) ==
    LET wakingAfterAbort == wakeup /\ phase # "idle" /\ abort # "none"
    IN  /\ IF wakeup THEN CanNest ELSE CanCall
        /\ sent < MaxSent
        /\ Insert(IF wakingAfterAbort THEN "next-turn" ELSE to)
        /\ sent' = sent + 1
        /\ IF wakeup
           THEN Push(IF wakingAfterAbort THEN "afterAbort" ELSE "waking", "none")
           ELSE UNCHANGED calls
        /\ parked' = IF DriverWillClaim THEN parked ELSE parked \cup {sent + 1}
        /\ UNCHANGED <<phaseVars, pc, localVars, replay, logVars, refused>>

\* A driver that is started under another call, or while kick's finally has
\* yet to replay, takes the place of the send on the stack.
SendWakes ==
    /\ Innermost("waking") \/ Innermost("afterAbort")
    /\ wakeDriver(Innermost("afterAbort"))
    /\ calls' = IF phase = "idle" /\ (Tail(calls) # <<>> \/ replay)
                THEN <<Frame("driver", "none")>> \o Tail(calls)
                ELSE Tail(calls)
    /\ UNCHANGED <<inboxVars, localVars, replay, logVars, sent, refused>>

\* The end of cancel: unless the inbox is kept, the latch goes, and with it
\* the promise of every wake since; then the abort.  Aborting a live driver
\* parks what is pending, and so does any disposal of an activity; the first
\* cause stands.
CancelEnds(cause, keepInbox) ==
    /\ wakeRequested' = (wakeRequested /\ keepInbox)
    /\ abort' = IF phase # "idle" /\ abort = "none" THEN cause ELSE abort
    /\ parked' = IF \/ wakeRequested /\ ~keepInbox
                    \/ abort = "none" /\ (phase = "running" \/ (phase # "idle" /\ cause = "disposed"))
                 THEN parked \cup Pending ELSE parked
    /\ UNCHANGED <<phase, turn, step, inboxVars>>

\* inbox.clear empties next-step, then next-turn; the listeners of what an
\* append discards may make any call before cancel goes on.
ClearNextStep(cause) ==
    /\ CanNest
    /\ nextStepQ # <<>>
    /\ nextStepQ' = <<>>
    /\ Push("clearing", cause)
    /\ UNCHANGED <<nextTurnQ, phaseVars, parked>>

ClearNextTurn(cause) ==
    /\ CanNest
    /\ nextStepQ = <<>> /\ nextTurnQ # <<>>
    /\ nextTurnQ' = <<>>
    /\ Push("cleared", cause)
    /\ UNCHANGED <<nextStepQ, phaseVars, parked>>

cancel(cause, keepInbox) ==
    /\ IF keepInbox \/ ~HasPending
       THEN CancelEnds(cause, keepInbox) /\ UNCHANGED calls
       ELSE ClearNextStep(cause) \/ ClearNextTurn(cause)
    /\ UNCHANGED <<pc, localVars, replay, logVars, sent, refused>>

\* clear goes on with what is in next-turn now, and cancel to its end; a
\* refused splice throws out of both.
CancelGoesOn ==
    /\ \/ /\ Innermost("clearing") /\ nextTurnQ # <<>>
          /\ nextTurnQ' = <<>>
          /\ calls' = <<Frame("cleared", Head(calls).cause)>> \o Tail(calls)
          /\ UNCHANGED <<nextStepQ, phaseVars, parked>>
       \/ /\ Innermost("clearing") /\ nextTurnQ # <<>>
          /\ "agent/inbox/spliced" \in Rejectable
          /\ Return
          /\ UNCHANGED <<inboxVars, phaseVars, parked>>
       \/ /\ Innermost("cleared") \/ (Innermost("clearing") /\ nextTurnQ = <<>>)
          /\ CancelEnds(Head(calls).cause, FALSE)
          /\ Return
    /\ UNCHANGED <<pc, localVars, replay, logVars, sent, refused>>

\* inbox.remove: one pending message, wherever it is found.
WithoutAt(q, i) == SubSeq(q, 1, i - 1) \o SubSeq(q, i + 1, Len(q))

Remove ==
    /\ CanCall
    /\ \/ \E i \in DOMAIN nextTurnQ : nextTurnQ' = WithoutAt(nextTurnQ, i) /\ UNCHANGED nextStepQ
       \/ \E i \in DOMAIN nextStepQ : nextStepQ' = WithoutAt(nextStepQ, i) /\ UNCHANGED nextTurnQ
    /\ UNCHANGED <<phaseVars, pc, localVars, callVars, logVars, historyVars>>

runMaintenance ==
    /\ CanCall
    /\ phase = "idle"
    /\ phase' = "maintenance" /\ abort' = "none" /\ wakeRequested' = FALSE
    /\ UNCHANGED <<turn, step, inboxVars, pc, localVars, callVars, logVars, historyVars>>

MaintenanceEnds ==
    /\ phase = "maintenance" /\ calls = <<>> /\ ~replay
    /\ IF wakeRequested /\ HasPending
       THEN /\ phase' = "running" /\ step' = 0 /\ pc' = "enter"
            /\ parked' = {}
       ELSE phase' = "idle" /\ UNCHANGED <<step, pc, parked>>
    /\ abort' = "none" /\ wakeRequested' = FALSE
    /\ UNCHANGED <<turn, inboxVars, localVars, callVars, logVars, sent, refused>>

----------------------------------------------------------------------------
(* The driver: kick and turn.                                              *)

\* turn() before its turn/start: an aborted signal or a veto opens no turn.
TurnStart ==
    /\ At("enter")
    /\ abort = "none"
    /\ AppendTurnStart(turn + 1)
    /\ turn' = turn + 1
    /\ turnEnds' = "null" /\ target' = "next-turn" /\ exitBy' = "continue"
    /\ pc' = "loop"
    /\ UNCHANGED <<phase, step, abort, wakeRequested, inboxVars, decision, batch,
                   firstAttempt, stepResult, callVars, userLog, historyVars>>

TurnNotStarted ==
    /\ At("enter")
    /\ abort # "none" \/ "turn/start" \in Rejectable
    /\ exitBy' = "throw"
    /\ pc' = "exit" /\ Await
    /\ parked' = IF abort = "none" THEN parked \cup Pending ELSE parked
    /\ UNCHANGED <<phaseVars, inboxVars, target, decision, batch, firstAttempt,
                   stepResult, turnEnds, replay, logVars, sent, refused>>

\* preStep claims the whole next-step list, and one prompt at a turn boundary:
\* one append for each list, the second under whatever the observers of the
\* first did to the signal.
TakesPrompt == target = "next-turn" /\ nextTurnQ # <<>>

ClaimPrompt(claimed) ==
    /\ IF TakesPrompt
       THEN batch' = Append(claimed, Head(nextTurnQ)) /\ nextTurnQ' = Tail(nextTurnQ)
       ELSE batch' = claimed /\ UNCHANGED nextTurnQ
    /\ pc' = "preStep" /\ Await

claim ==
    /\ \/ /\ At("loop") /\ abort = "none"
          /\ nextStepQ # <<>> /\ TakesPrompt
          /\ batch' = nextStepQ /\ nextStepQ' = <<>>
          /\ pc' = "claiming"
          /\ UNCHANGED <<nextTurnQ, calls>>
       \/ /\ At("loop") /\ abort = "none"
          /\ nextStepQ = <<>> \/ ~TakesPrompt
          /\ ClaimPrompt(nextStepQ) /\ nextStepQ' = <<>>
       \/ /\ At("claiming")
          /\ ClaimPrompt(batch) /\ UNCHANGED nextStepQ
    /\ UNCHANGED <<phaseVars, target, decision, firstAttempt, stepResult, turnEnds,
                   exitBy, replay, logVars, historyVars>>

\* A refused splice rejects preStep; what the first one claimed is gone.
ClaimFails ==
    /\ "agent/inbox/spliced" \in Rejectable
    /\ \/ At("loop") /\ abort = "none" /\ (nextStepQ # <<>> \/ TakesPrompt)
       \/ At("claiming")
    /\ pc' = "rejected" /\ Await
    /\ UNCHANGED <<phaseVars, inboxVars, localVars, replay, logVars, historyVars>>

\* Assembly and agent/pre-step: reject the step, empty its batch, or enter it
\* with the claimed messages (a rendered runtime context makes any batch enter).
PreStepDecides ==
    /\ At("preStep")
    /\ abort = "none"
    /\ decision' \in {"reject", "empty", "enter"}
    /\ batch' = IF decision' = "enter" THEN batch ELSE <<>>
    /\ pc' = "decided"
    /\ UNCHANGED <<phaseVars, inboxVars, target, firstAttempt, stepResult, turnEnds,
                   exitBy, callVars, logVars, historyVars>>

\* No step: the turn is blocked, is over, or owned only its boundary.
StepNotEntered ==
    /\ At("decided")
    /\ \/ /\ decision = "reject"
          /\ turnEnds' = "blocked" /\ exitBy' = "return"
       \/ /\ decision = "empty" /\ turnEnds # "null"
          /\ UNCHANGED <<turnEnds, exitBy>>
       \/ /\ decision = "empty" /\ turnEnds = "null" /\ step = 0
          /\ turnEnds' = "completed" /\ exitBy' = "return"
    /\ pc' = "turnEnd"
    /\ UNCHANGED <<phaseVars, inboxVars, target, decision, batch, firstAttempt,
                   stepResult, callVars, logVars, historyVars>>

\* An empty batch still continues a turn that is under way and not over.
EntersStep == decision = "enter" \/ (decision = "empty" /\ turnEnds = "null" /\ step # 0)

StepEntered ==
    /\ At("decided")
    /\ abort = "none"
    /\ EntersStep
    /\ AppendStepStart(step + 1)
    /\ step' = step + 1
    /\ firstAttempt' = TRUE
    /\ pc' = "prepare"
    /\ UNCHANGED <<phase, turn, abort, wakeRequested, inboxVars, target, decision, batch,
                   stepResult, turnEnds, exitBy, callVars, userLog, historyVars>>

StepEnd ==
    /\ At("stepEnd")
    /\ AppendStepEnd
    /\ IF stepResult = "throw"
       THEN pc' = "failing" /\ UNCHANGED turnEnds
       ELSE /\ pc' = "afterStep"
            /\ turnEnds' = IF turnEnds = "max-tokens" THEN turnEnds ELSE stepResult
    /\ UNCHANGED <<phaseVars, inboxVars, target, decision, batch, firstAttempt,
                   stepResult, exitBy, callVars, userLog, historyVars>>

\* The append of step/end throws out of the finally: the step stays open.
StepEndFails ==
    /\ At("stepEnd")
    /\ "step/end" \in Rejectable
    /\ pc' = "failing"
    /\ refused' = TRUE
    /\ UNCHANGED <<phaseVars, inboxVars, localVars, callVars, logVars, sent, parked>>

\* After step/end: another step, or the agent/turn-stopping listeners, which
\* may steer the turn into another step.
AfterStep ==
    /\ At("afterStep")
    /\ abort = "none"
    /\ IF turnEnds # "null" /\ nextStepQ = <<>>
       THEN pc' = "stopping" /\ UNCHANGED target
       ELSE pc' = "loop" /\ target' = "next-step"
    /\ UNCHANGED <<phaseVars, inboxVars, decision, batch, firstAttempt, stepResult,
                   turnEnds, exitBy, callVars, logVars, historyVars>>

TurnStopping ==
    /\ At("stopping")
    /\ abort = "none"
    /\ IF nextStepQ = <<>>
       THEN pc' = "turnEnd" /\ UNCHANGED target
       ELSE pc' = "loop" /\ target' = "next-step"
    /\ UNCHANGED <<phaseVars, inboxVars, decision, batch, firstAttempt, stepResult,
                   turnEnds, exitBy, callVars, logVars, historyVars>>

\* A failed throwIfAborted, or an error out of a listener, assembly or append.
TurnThrows ==
    /\ \/ At("preStep") \/ At("rejected") \/ At("stopping")
       \/ (At("loop") \/ At("afterStep")) /\ abort # "none"
       \/ At("decided") /\ EntersStep /\ (abort # "none" \/ "step/start" \in Rejectable)
    /\ Goto("failing")

\* turn()'s catch; an error under an aborted signal is the abort's.
Catch ==
    /\ At("failing")
    /\ turnEnds' = IF abort # "none" THEN "aborted" ELSE "error"
    /\ exitBy' = "throw"
    /\ pc' = "turnEnd"
    /\ UNCHANGED <<phaseVars, inboxVars, target, decision, batch, firstAttempt,
                   stepResult, callVars, logVars, historyVars>>

TurnEnd ==
    /\ At("turnEnd")
    /\ AppendTurnEnd
    /\ pc' = "ended"
    /\ UNCHANGED <<phaseVars, inboxVars, localVars, callVars, userLog, historyVars>>

\* The append of turn/end throws: the turn stays open and kick is left.
TurnEndFails ==
    /\ At("turnEnd")
    /\ "turn/end" \in Rejectable
    /\ pc' = "exit" /\ Await
    /\ refused' = TRUE
    /\ parked' = IF abort = "none" THEN parked \cup Pending ELSE parked
    /\ UNCHANGED <<phaseVars, inboxVars, localVars, replay, logVars, sent>>

\* With work left the same driver opens the next turn under a fresh controller.
NextTurn ==
    /\ At("ended")
    /\ exitBy = "continue" /\ HasPending
    /\ abort' = "none" /\ wakeRequested' = FALSE /\ step' = 0
    /\ parked' = {}
    /\ pc' = "enter"
    /\ UNCHANGED <<phase, turn, inboxVars, localVars, callVars, logVars, sent, refused>>

DriverStops ==
    /\ At("ended")
    /\ exitBy # "continue" \/ ~HasPending
    /\ pc' = "exit" /\ Await
    /\ parked' = IF abort = "none" THEN parked \cup Pending ELSE parked
    /\ UNCHANGED <<phaseVars, inboxVars, localVars, replay, logVars, sent, refused>>

\* kick's finally: publish "idle", whose listeners may call, then replay.
Exit ==
    /\ pc = "exit" /\ calls = <<>> /\ ~replay
    /\ phase' = "idle" /\ abort' = "none" /\ wakeRequested' = FALSE /\ step' = 0
    /\ replay' = wakeRequested
    /\ pc' = "off"
    /\ UNCHANGED <<turn, inboxVars, localVars, calls, logVars, historyVars>>

ReplayLatch ==
    /\ replay /\ calls = <<>>
    /\ replay' = FALSE
    /\ IF HasPending
       THEN wakeDriver(FALSE)
       ELSE UNCHANGED <<phaseVars, pc, parked>>
    /\ UNCHANGED <<inboxVars, localVars, calls, logVars, sent, refused>>

----------------------------------------------------------------------------
(* The driver: step().                                                     *)

\* agent/request and prepareCall, both under the signal.
prepareRequest ==
    /\ At("prepare")
    /\ abort = "none"
    /\ Goto("commit")

AdmitsAlways == batch                       \* mutant: a retry admits the batch again

Admits == IF firstAttempt THEN batch ELSE <<>>

\* The system prompt's commits, if it changed.
CommitSystem ==
    /\ At("commit")
    /\ AppendInStep("system/message") \/ UNCHANGED log
    /\ pc' = "admit"
    /\ UNCHANGED <<phaseVars, inboxVars, localVars, callVars, userLog, historyVars>>

\* The accepted messages enter the log on the first attempt only.
CommitMessages ==
    /\ At("admit")
    /\ IF Admits = <<>> THEN UNCHANGED log ELSE AppendOther("user/message")
    /\ userLog' = userLog \o Admits
    /\ firstAttempt' = FALSE
    /\ pc' = "request"
    /\ UNCHANGED <<phaseVars, inboxVars, target, decision, batch, stepResult, turnEnds,
                   exitBy, callVars, historyVars>>

\* request/header and request/context go out before the signal is checked.
LogRequest ==
    AppendOther("request/header") \/ AppendOther("request/context") \/ UNCHANGED log

StreamStartsUnchecked ==                    \* mutant: no throwIfAborted after the appends
    /\ pc' = "stream"
    /\ UNCHANGED <<phaseVars, inboxVars, localVars, callVars, userLog, historyVars>>

StreamStarts ==
    /\ abort = "none"
    /\ pc' = "stream"
    /\ UNCHANGED <<phaseVars, inboxVars, localVars, callVars, userLog, historyVars>>

buildRequest ==
    /\ At("request")
    /\ LogRequest
    /\ \/ StreamStarts
       \/ abort # "none" /\ StepReturns("throw")

\* The stream ends well: a truncated answer, a last answer, or tool calls.
StreamCompletes ==
    /\ At("stream")
    /\ abort = "none"
    /\ AppendInStep("assistant/message")
    /\ \/ \E r \in {"max-tokens", "completed"} : StepReturns(r)
       \/ /\ step < MaxSteps
          /\ pc' = "tools"
          /\ UNCHANGED <<phaseVars, inboxVars, localVars, callVars, userLog,
                         historyVars>>

\* The adapter reports a failure in band; agent/request-error decides.
StreamFails ==
    /\ At("stream")
    /\ abort = "none"
    /\ AppendInStep("assistant/attempt")
    /\ pc' = "requestError"
    /\ UNCHANGED <<phaseVars, inboxVars, localVars, callVars, userLog, historyVars>>

StreamThrowsUnaborted ==                    \* mutant: an abort does not end the stream
    /\ At("stream")
    /\ abort = "none"
    /\ AppendInStep("assistant/attempt") \/ UNCHANGED log
    /\ StepReturns("throw")

\* The stream throws, or is aborted: its visible prefix, if any, is settled
\* (or its settlement is rejected).
StreamThrows ==
    /\ At("stream")
    /\ \/ AppendInStep("assistant/attempt")
       \/ abort # "none" /\ AppendInStep("assistant/message")
       \/ UNCHANGED log
    /\ StepReturns("throw")

Retry ==
    /\ At("requestError")
    /\ abort = "none"
    /\ Goto("prepare")

\* executeToolCalls (module ToolCalls); an abort makes it return early.
ToolsFinish ==
    /\ At("tools")
    /\ \E r \in {"null", "completed"} : StepReturns(r)
    /\ UNCHANGED log

\* An error or a failed throwIfAborted anywhere in step() outside the stream.
StepThrows ==
    /\ \/ At("prepare") \/ At("commit") \/ At("admit") \/ At("request")
       \/ At("requestError") \/ At("tools")
    /\ StepReturns("throw")
    /\ UNCHANGED log

----------------------------------------------------------------------------

Caller ==
    \/ \E to \in {"next-turn", "next-step"}, wakeup \in BOOLEAN : Send(to, wakeup)
    \/ \E cause \in Causes, keepInbox \in BOOLEAN : cancel(cause, keepInbox)
    \/ Remove
    \/ runMaintenance

TurnMachine ==
    \/ TurnStart \/ TurnNotStarted \/ claim \/ ClaimFails \/ PreStepDecides \/ StepNotEntered
    \/ StepEntered \/ StepEnd \/ StepEndFails \/ AfterStep \/ TurnStopping \/ TurnThrows \/ Catch
    \/ TurnEnd \/ TurnEndFails \/ NextTurn \/ DriverStops \/ Exit

StepMachine ==
    \/ prepareRequest \/ CommitSystem \/ CommitMessages \/ buildRequest \/ StreamCompletes \/ StreamFails
    \/ StreamThrows \/ Retry \/ ToolsFinish \/ StepThrows

Driver == SendWakes \/ CancelGoesOn \/ TurnMachine \/ StepMachine \/ ReplayLatch \/ MaintenanceEnds

Next == Caller \/ Driver

Spec == Init /\ [][Next]_vars

\* Every await of the driver settles (listeners, adapters, tools and
\* maintenance jobs return), and recovery does not retry one request for ever.
FairSpec == Spec /\ WF_vars(Driver) /\ SF_vars(StreamCompletes)

----------------------------------------------------------------------------
(* Types.                                                                  *)

ProgramPoints ==
    {"off", "enter", "loop", "claiming", "rejected", "preStep", "decided", "prepare", "commit", "admit",
     "request", "stream", "requestError", "tools", "stepEnd", "afterStep", "stopping",
     "failing", "turnEnd", "ended", "exit"}

LogType ==
    log \in [openTurn : Nat, openStep : Nat, nextTurn : Nat \ {0}, nextStep : Nat \ {0},
             last : TL!EventTypes]

PhaseType ==
    /\ phase \in {"idle", "maintenance", "running"}
    /\ turn \in Nat /\ step \in Nat
    /\ abort \in {"none"} \cup Causes
    /\ wakeRequested \in BOOLEAN

InboxType ==
    /\ nextTurnQ \in Seq(Message) /\ nextStepQ \in Seq(Message)
    /\ batch \in Seq(Message) /\ userLog \in Seq(Message)
    /\ sent \in 0..MaxSent
    /\ parked \subseteq Message

DriverType ==
    /\ pc \in ProgramPoints
    /\ target \in {"next-turn", "next-step"}
    /\ decision \in {"none", "reject", "empty", "enter"}
    /\ firstAttempt \in BOOLEAN
    /\ stepResult \in {"null", "completed", "max-tokens", "throw"}
    /\ turnEnds \in {"null", "completed", "max-tokens", "blocked", "aborted", "error"}
    /\ exitBy \in {"continue", "return", "throw"}
    /\ replay \in BOOLEAN
    /\ calls \in Seq(Frames)
    /\ refused \in BOOLEAN

TypeOK == PhaseType /\ InboxType /\ DriverType /\ LogType

(* Properties.                                                             *)

\* Whatever the interleaving of callers and the driver, the events that the
\* driver appends form a log that the session companion accepts, up to the
\* first step/end or turn/end that was refused: that boundary stays open.
LogFollowsGrammar == TL!Init /\ [][TL!Next \/ refused]_(TL!trace)

\* When the agent is idle, a message is left in the inbox only if nothing
\* promised to deliver it: it was sent without a wake, it was pending when a
\* live driver was cancelled or stopped on a reject, an empty claim or an
\* error, it was sent after a disposed cancel or in the gap at "exit", or its
\* wake was latched and a cancel that was under way took the latch back.
NoWakeIsLost ==
    phase = "idle" /\ ~replay /\ calls = <<>> => Pending \subseteq parked

\* No message is written to the log twice, retries and replays included, and
\* none that was written is still pending or in an uncommitted batch.
AdmittedOnce ==
    /\ IsInjective(userLog)
    /\ Range(userLog) \cap Pending = {}
    /\ firstAttempt /\ pc \in {"claiming", "preStep", "decided", "prepare", "commit", "admit"} =>
           Range(userLog) \cap Range(batch) = {}

\* Under an aborted signal the driver opens no turn and no step, begins no
\* claim and starts no model request.  A claim that has begun takes its prompt.
NoWorkUnderAbort ==
    [][abort # "none" =>
         /\ log'.openTurn \in {0, log.openTurn}
         /\ log'.openStep \in {0, log.openStep}
         /\ pc' \in {"claiming", "preStep"} => pc \in {"claiming", "preStep"}
         /\ pc' = "stream" => pc = "stream"]_vars

\* A cancelled activity converges: the driver or the maintenance job lets go
\* of the aborted controller.
CancelConverges == abort # "none" ~> abort = "none"

\* The comment on send (packages/core/agent/src/runtime-types.ts) and the one
\* on wakeDriver: a wake sent while idle always opens its turn boundary.
WakeOpensTurn ==
    \A t \in 0..MaxSent :
        (phase = "idle" /\ Innermost("waking") /\ turn = t) ~> turn > t

\* The comment on send again: waking input submitted after active cancellation
\* runs when the aborted activity converges, so a cancel that comes to its end
\* does not take back the latch while input is pending.
LaterWakesSurviveCancel ==
    [][(/\ phase = "running" /\ abort \notin {"none", "disposed"} /\ abort' = abort
        /\ wakeRequested /\ ~wakeRequested')
            => ~HasPending]_vars

\* A pending message that some wake promised to deliver leaves the inbox or
\* loses the promise to a later cancel or failure: it is never just forgotten.
WakeIsServed == \A m \in Message : m \in Pending \ parked ~> m \notin Pending \ parked

=============================================================================
