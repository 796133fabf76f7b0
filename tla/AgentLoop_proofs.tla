--------------------------- MODULE AgentLoop_proofs ---------------------------
(***************************************************************************)
(* Theorems about the two modules of packages/core/agent-loop that follow  *)
(* an agent: AgentLoop, its driver, for every number of messages and of    *)
(* steps, and AgentLifecycle, for every number of agents and of            *)
(* aborts, unloads and failing teardowns.                                  *)
(***************************************************************************)
EXTENDS AgentLoop, AgentLifecycle, TLAPS, SequenceTheorems

----------------------------------------------------------------------------
(* Types of what the actions are built from.                               *)

\* What is pending are messages.
LEMMA PendingType == InboxType => Pending \subseteq Message
  BY DEF InboxType, Pending, Range

\* inbox.remove deletes an entry and leaves a sequence of the same kind.
LEMMA WithoutAtType ==
  ASSUME NEW S, NEW q \in Seq(S), NEW i \in DOMAIN q
  PROVE  WithoutAt(q, i) \in Seq(S)
  BY DEF WithoutAt

\* send appends the message it sends to one of the two lists.
LEMMA InsertType ==
  ASSUME NEW to, Insert(to), InboxType, sent + 1 \in Message
  PROVE  nextTurnQ' \in Seq(Message) /\ nextStepQ' \in Seq(Message)
<1>1. Append(nextTurnQ, sent + 1) \in Seq(Message) /\ Append(nextStepQ, sent + 1) \in Seq(Message)
  BY DEF InboxType
<1> QED
  BY <1>1 DEF Insert, InboxType

\* Latching a wake leaves the latch a Boolean.
LEMMA LatchWakeType ==
  ASSUME NEW w \in BOOLEAN, LatchWake(w), wakeRequested \in BOOLEAN
  PROVE  wakeRequested' \in BOOLEAN
  BY Zenon DEF LatchWake, Latches

\* wakeDriver, whether it starts a driver or latches, preserves types.
LEMMA WakeDriverType ==
  ASSUME NEW w \in BOOLEAN, wakeDriver(w), PhaseType, pc \in ProgramPoints, parked \subseteq Message
  PROVE  PhaseType' /\ pc' \in ProgramPoints /\ parked' \subseteq Message
<1>1. CASE StartDriver
  BY <1>1 DEF PhaseType, StartDriver, ProgramPoints
<1>2. CASE LatchWake(w)
  BY LatchWakeType, <1>2 DEF PhaseType, LatchWake, Promise
<1> QED
  BY <1>1, <1>2 DEF wakeDriver

\* A call becomes the innermost, and one that returns leaves the rest.
LEMMA PushType ==
  ASSUME calls \in Seq(Frames), NEW k \in FrameKinds, NEW c \in {"none"} \cup Causes
  PROVE  /\ Push(k, c) => calls' \in Seq(Frames)
         /\ <<Frame(k, c)>> \o Tail(calls) \in Seq(Frames) \/ calls = <<>>
<1>1. Frame(k, c) \in Frames
  BY DEF Frame, Frames
<1>2. <<Frame(k, c)>> \in Seq(Frames)
  BY <1>1
<1>3. <<Frame(k, c)>> \o calls \in Seq(Frames)
  BY <1>2, ConcatProperties
<1>4. ASSUME calls # <<>> PROVE <<Frame(k, c)>> \o Tail(calls) \in Seq(Frames)
  <2>1. Tail(calls) \in Seq(Frames)
    BY <1>4
  <2> QED
    BY <1>2, <2>1, ConcatProperties
<1> QED
  BY <1>3, <1>4 DEF Push

\* What is left when the innermost call returns.
LEMMA ReturnType ==
  ASSUME calls \in Seq(Frames)
  PROVE  /\ calls # <<>> => Tail(calls) \in Seq(Frames) /\ Head(calls).cause \in {"none"} \cup Causes
         /\ Await => calls' \in Seq(Frames)
<1>1. calls # <<>> => Tail(calls) \in Seq(Frames) /\ Head(calls) \in Frames
  OBVIOUS
<1>2. calls # <<>> => Head(calls).cause \in {"none"} \cup Causes
  BY <1>1 DEF Frames
<1> QED
  BY <1>1, <1>2 DEF Await, Return, Innermost

\* The end of a cancel keeps the phase and the inbox in their types.
LEMMA CancelEndsType ==
  ASSUME PhaseType, InboxType, NEW c \in {"none"} \cup Causes, NEW k \in BOOLEAN, CancelEnds(c, k),
         UNCHANGED <<batch, userLog, sent>>
  PROVE  PhaseType' /\ InboxType'
<1>1. PhaseType'
  BY DEF PhaseType, CancelEnds
<1>2. parked' \subseteq Message
  BY PendingType DEF InboxType, CancelEnds
<1> QED
  BY <1>1, <1>2 DEF InboxType, CancelEnds, inboxVars

----------------------------------------------------------------------------
(* Type correctness.                                                       *)

\* Every step keeps the variables other than the log in their types.
LEMMA StateTypeStep == PhaseType /\ InboxType /\ DriverType /\ [Next]_vars => PhaseType' /\ InboxType' /\ DriverType'
<1> SUFFICES ASSUME PhaseType, InboxType, DriverType, [Next]_vars
               PROVE  PhaseType' /\ InboxType' /\ DriverType'
  OBVIOUS
<1> USE DEF phaseVars, inboxVars, localVars, logVars, historyVars, callVars
<1>1. CASE Caller
  <2>1. ASSUME NEW to \in {"next-turn", "next-step"}, NEW wakeup \in BOOLEAN, Send(to, wakeup)
        PROVE  PhaseType' /\ InboxType' /\ DriverType'
    <3>1. PhaseType'
      BY <2>1 DEF PhaseType, Send
    <3>2. InboxType'
      <4>1. sent + 1 \in Message /\ sent + 1 \in 0..MaxSent
        BY <2>1, BoundsAssumption DEF InboxType, Send, Message
      <4>2. nextTurnQ' \in Seq(Message) /\ nextStepQ' \in Seq(Message)
        BY <2>1, <4>1, InsertType DEF Send
      <4> QED
        BY <2>1, <4>1, <4>2 DEF InboxType, Send
    <3>3. calls' \in Seq(Frames)
      BY <2>1, PushType DEF DriverType, FrameKinds, Send
    <3>4. DriverType'
      BY <2>1, <3>3 DEF DriverType, Send
    <3> QED
      BY <3>1, <3>2, <3>4
  <2>2. ASSUME NEW cause \in Causes, NEW keepInbox \in BOOLEAN, cancel(cause, keepInbox)
        PROVE  PhaseType' /\ InboxType' /\ DriverType'
    <3>1. CASE CancelEnds(cause, keepInbox) /\ UNCHANGED <<calls, pc, localVars, replay, logVars, sent, refused>>
      <4>1. PhaseType' /\ InboxType'
        BY <3>1, CancelEndsType
      <4> QED
        BY <3>1, <4>1 DEF DriverType
    <3>2. CASE ClearNextStep(cause) /\ UNCHANGED <<pc, localVars, replay, logVars, sent, refused>>
      <4>1. calls' \in Seq(Frames)
        BY <3>2, PushType DEF ClearNextStep, DriverType, FrameKinds
      <4> QED
        BY <3>2, <4>1, EmptySeq DEF ClearNextStep, PhaseType, InboxType, DriverType
    <3>3. CASE ClearNextTurn(cause) /\ UNCHANGED <<pc, localVars, replay, logVars, sent, refused>>
      <4>1. calls' \in Seq(Frames)
        BY <3>3, PushType DEF ClearNextTurn, DriverType, FrameKinds
      <4> QED
        BY <3>3, <4>1, EmptySeq DEF ClearNextTurn, PhaseType, InboxType, DriverType
    <3> QED
      BY <2>2, <3>1, <3>2, <3>3 DEF cancel
  <2>3. CASE Remove
    <3>1. PhaseType'
      BY <2>3 DEF PhaseType, Remove
    <3>2. InboxType'
      BY <2>3, WithoutAtType DEF InboxType, Remove
    <3>3. DriverType'
      BY <2>3 DEF DriverType, ProgramPoints, Remove
    <3> QED
      BY <3>1, <3>2, <3>3
  <2>4. CASE runMaintenance
    <3>1. PhaseType'
      BY <2>4 DEF PhaseType, runMaintenance
    <3>2. InboxType'
      BY <2>4 DEF InboxType, runMaintenance
    <3>3. DriverType'
      BY <2>4 DEF DriverType, ProgramPoints, runMaintenance
    <3> QED
      BY <3>1, <3>2, <3>3
  <2> QED
    BY <1>1, <2>1, <2>2, <2>3, <2>4 DEF Caller
<1>2. CASE TurnMachine
  <2>1. CASE TurnStart
    BY <2>1 DEF PhaseType, InboxType, DriverType, ProgramPoints, TurnStart
  <2>2. CASE TurnNotStarted
    <3>1. PhaseType'
      BY <2>2 DEF PhaseType, TurnNotStarted
    <3>2. InboxType'
      BY <2>2, PendingType DEF InboxType, TurnNotStarted
    <3>3. DriverType'
      BY <2>2, ReturnType DEF DriverType, ProgramPoints, TurnNotStarted
    <3> QED
      BY <3>1, <3>2, <3>3
  <2>3. CASE claim
    <3>1. PhaseType' /\ UNCHANGED <<userLog, sent, parked>>
      BY <2>3 DEF PhaseType, claim
    <3>2. ASSUME NEW claimed \in Seq(Message), ClaimPrompt(claimed)
          PROVE  /\ batch' \in Seq(Message) /\ nextTurnQ' \in Seq(Message)
                 /\ calls' \in Seq(Frames) /\ pc' = "preStep"
      <4>1. nextTurnQ # <<>> => Head(nextTurnQ) \in Message /\ Tail(nextTurnQ) \in Seq(Message)
        BY DEF InboxType
      <4>2. nextTurnQ # <<>> => Append(claimed, Head(nextTurnQ)) \in Seq(Message)
        BY <3>2, <4>1
      <4> QED
        BY <3>2, <4>1, <4>2, ReturnType DEF ClaimPrompt, TakesPrompt, InboxType, DriverType
    <3>3. /\ batch' \in Seq(Message) /\ nextTurnQ' \in Seq(Message) /\ nextStepQ' \in Seq(Message)
          /\ calls' \in Seq(Frames) /\ pc' \in {"claiming", "preStep"}
      BY <2>3, <3>2, EmptySeq DEF claim, InboxType, DriverType
    <3>4. InboxType'
      BY <3>1, <3>3 DEF InboxType
    <3>5. DriverType'
      BY <2>3, <3>3 DEF DriverType, ProgramPoints, claim
    <3> QED
      BY <3>1, <3>4, <3>5
  <2>4. CASE PreStepDecides
    BY <2>4 DEF PhaseType, InboxType, DriverType, ProgramPoints, PreStepDecides
  <2>5. CASE StepNotEntered
    BY <2>5 DEF PhaseType, InboxType, DriverType, ProgramPoints, StepNotEntered
  <2>6. CASE StepEntered
    BY <2>6 DEF PhaseType, InboxType, DriverType, ProgramPoints, StepEntered
  <2>7. CASE StepEnd
    BY <2>7 DEF PhaseType, InboxType, DriverType, ProgramPoints, StepEnd
  <2>8. CASE AfterStep
    BY <2>8 DEF PhaseType, InboxType, DriverType, ProgramPoints, AfterStep
  <2>9. CASE TurnStopping
    BY <2>9 DEF PhaseType, InboxType, DriverType, ProgramPoints, TurnStopping
  <2>10. CASE TurnThrows
    BY <2>10 DEF PhaseType, InboxType, DriverType, ProgramPoints, TurnThrows, Goto
  <2>11. CASE Catch
    BY <2>11 DEF PhaseType, InboxType, DriverType, ProgramPoints, Catch
  <2>12. CASE TurnEnd
    BY <2>12 DEF PhaseType, InboxType, DriverType, ProgramPoints, TurnEnd
  <2>13. CASE NextTurn
    <3>1. PhaseType'
      BY <2>13 DEF PhaseType, NextTurn
    <3>2. InboxType'
      BY <2>13, PendingType DEF InboxType, NextTurn
    <3>3. DriverType'
      BY <2>13 DEF DriverType, ProgramPoints, NextTurn
    <3> QED
      BY <3>1, <3>2, <3>3
  <2>14. CASE DriverStops
    <3>1. PhaseType'
      BY <2>14 DEF PhaseType, DriverStops
    <3>2. InboxType'
      BY <2>14, PendingType DEF InboxType, DriverStops
    <3>3. DriverType'
      BY <2>14, ReturnType DEF DriverType, ProgramPoints, DriverStops
    <3> QED
      BY <3>1, <3>2, <3>3
  <2>15. CASE Exit
    <3>1. PhaseType'
      BY <2>15 DEF PhaseType, Exit
    <3>2. InboxType'
      BY <2>15 DEF InboxType, Exit
    <3>3. DriverType'
      <4>1. replay' \in BOOLEAN
        BY <2>15 DEF PhaseType, Exit
      <4> QED
        BY <2>15, <4>1 DEF DriverType, ProgramPoints, Exit
    <3> QED
      BY <3>1, <3>2, <3>3
  <2>16. CASE ClaimFails
    BY <2>16, ReturnType DEF PhaseType, InboxType, DriverType, ProgramPoints, ClaimFails
  <2>17. CASE StepEndFails
    BY <2>17 DEF PhaseType, InboxType, DriverType, ProgramPoints, StepEndFails
  <2>18. CASE TurnEndFails
    <3>1. PhaseType'
      BY <2>18 DEF PhaseType, TurnEndFails
    <3>2. InboxType'
      BY <2>18, PendingType DEF InboxType, TurnEndFails
    <3>3. DriverType'
      BY <2>18, ReturnType DEF DriverType, ProgramPoints, TurnEndFails
    <3> QED
      BY <3>1, <3>2, <3>3
  <2> QED
    BY <1>2, <2>1, <2>2, <2>3, <2>4, <2>5, <2>6, <2>7, <2>8, <2>9, <2>10, <2>11, <2>12, <2>13, <2>14, <2>15,
       <2>16, <2>17, <2>18 DEF TurnMachine
<1>3. CASE StepMachine
  <2>1. CASE prepareRequest
    BY <2>1 DEF PhaseType, InboxType, DriverType, ProgramPoints, prepareRequest, Goto
  <2>2. CASE CommitMessages
    <3>1. PhaseType'
      BY <2>2 DEF PhaseType, CommitMessages
    <3>2. InboxType'
      <4>1. Admits \in Seq(Message)
        BY EmptySeq DEF InboxType, Admits
      <4>2. userLog \o Admits \in Seq(Message)
        BY <4>1, ConcatProperties DEF InboxType
      <4> QED
        BY <2>2, <4>2 DEF InboxType, CommitMessages
    <3>3. DriverType'
      BY <2>2 DEF DriverType, ProgramPoints, CommitMessages
    <3> QED
      BY <3>1, <3>2, <3>3
  <2>3. CASE buildRequest
    BY <2>3 DEF PhaseType, InboxType, DriverType, ProgramPoints, buildRequest, StreamStarts, LogRequest, StepReturns
  <2>4. CASE StreamCompletes
    BY <2>4 DEF PhaseType, InboxType, DriverType, ProgramPoints, StreamCompletes, StepReturns
  <2>5. CASE StreamFails
    BY <2>5 DEF PhaseType, InboxType, DriverType, ProgramPoints, StreamFails
  <2>6. CASE StreamThrows
    BY <2>6 DEF PhaseType, InboxType, DriverType, ProgramPoints, StreamThrows, StepReturns
  <2>7. CASE Retry
    BY <2>7 DEF PhaseType, InboxType, DriverType, ProgramPoints, Retry, Goto
  <2>8. CASE ToolsFinish
    BY <2>8 DEF PhaseType, InboxType, DriverType, ProgramPoints, ToolsFinish, StepReturns
  <2>9. CASE StepThrows
    BY <2>9 DEF PhaseType, InboxType, DriverType, ProgramPoints, StepThrows, StepReturns
  <2>10. CASE CommitSystem
    BY <2>10 DEF PhaseType, InboxType, DriverType, ProgramPoints, CommitSystem
  <2> QED
    BY <1>3, <2>1, <2>2, <2>3, <2>4, <2>5, <2>6, <2>7, <2>8, <2>9, <2>10 DEF StepMachine
<1>4. CASE SendWakes \/ CancelGoesOn \/ ReplayLatch \/ MaintenanceEnds
  <2>1. CASE SendWakes
    <3>1. PhaseType' /\ pc' \in ProgramPoints /\ parked' \subseteq Message
      <4>1. PICK w \in BOOLEAN : w = Innermost("afterAbort")
        BY Zenon DEF Innermost
      <4>2. wakeDriver(w)
        BY <2>1, <4>1 DEF SendWakes
      <4> QED
        BY <4>2, WakeDriverType DEF DriverType, InboxType
    <3>2. InboxType'
      BY <2>1, <3>1 DEF InboxType, SendWakes
    <3>3. DriverType'
      <4>1. calls' \in Seq(Frames)
        BY <2>1, PushType, ReturnType DEF SendWakes, DriverType, FrameKinds, Innermost
      <4> QED
        BY <2>1, <3>1, <4>1 DEF DriverType, SendWakes
    <3> QED
      BY <3>1, <3>2, <3>3
  <2>2. CASE ReplayLatch
    <3>1. PhaseType' /\ pc' \in ProgramPoints /\ parked' \subseteq Message
      BY <2>2, WakeDriverType DEF ReplayLatch, PhaseType, DriverType, InboxType
    <3>2. InboxType'
      BY <2>2, <3>1 DEF InboxType, ReplayLatch
    <3>3. DriverType'
      BY <2>2, <3>1 DEF DriverType, ReplayLatch
    <3> QED
      BY <3>1, <3>2, <3>3
  <2>3. CASE MaintenanceEnds
    <3>1. PhaseType'
      <4>1. phase' \in {"running", "idle"} /\ step' \in Nat
        BY <2>3 DEF MaintenanceEnds, PhaseType
      <4>2. turn' = turn /\ abort' = "none" /\ wakeRequested' = FALSE
        BY <2>3 DEF MaintenanceEnds
      <4> QED
        BY <4>1, <4>2 DEF PhaseType
    <3>2. InboxType'
      BY <2>3 DEF InboxType, MaintenanceEnds
    <3>3. DriverType'
      BY <2>3 DEF DriverType, ProgramPoints, MaintenanceEnds
    <3> QED
      BY <3>1, <3>2, <3>3
  <2>4. CASE CancelGoesOn
    <3>1. /\ UNCHANGED <<pc, localVars, replay, logVars, sent, refused>>
          /\ calls # <<>>
      BY <2>4 DEF CancelGoesOn, Innermost
    <3>2. CASE CancelEnds(Head(calls).cause, FALSE) /\ Return
      <4>1. Head(calls).cause \in {"none"} \cup Causes /\ calls' \in Seq(Frames)
        BY <3>1, <3>2, ReturnType DEF Return, DriverType
      <4>2. PhaseType' /\ InboxType'
        BY <3>1, <3>2, <4>1, CancelEndsType
      <4> QED
        BY <3>1, <4>1, <4>2 DEF DriverType
    <3>3. CASE UNCHANGED <<inboxVars, phaseVars, parked>> /\ Return
      BY <3>1, <3>3, ReturnType DEF Return, DriverType, PhaseType, InboxType
    <3>4. CASE /\ nextTurnQ' = <<>>
               /\ calls' = <<Frame("cleared", Head(calls).cause)>> \o Tail(calls)
               /\ UNCHANGED <<nextStepQ, phaseVars, parked>>
      <4>1. calls' \in Seq(Frames)
        BY <3>1, <3>4, PushType, ReturnType DEF DriverType, FrameKinds
      <4> QED
        BY <3>1, <3>4, <4>1, EmptySeq DEF DriverType, PhaseType, InboxType
    <3> QED
      BY <2>4, <3>2, <3>3, <3>4 DEF CancelGoesOn
  <2> QED
    BY <1>4, <2>1, <2>2, <2>3, <2>4
<1>5. CASE UNCHANGED vars
  BY <1>5 DEF vars, PhaseType, InboxType, DriverType
<1> QED
  BY <1>1, <1>2, <1>3, <1>4, <1>5 DEF Next, Driver


----------------------------------------------------------------------------
(* The driver's counters and its place in the code say where the log is.   *)

InStep == pc \in {"prepare", "commit", "admit", "request", "stream", "requestError", "tools", "stepEnd"}
InTurn == InStep \/ pc \in {"loop", "claiming", "rejected", "preStep", "decided", "afterStep", "stopping",
                           "failing", "turnEnd"}

\* Until a closing event is refused nothing is open that the driver is not in.
Boundaries ==
    /\ ~InTurn => log.openTurn = 0
    /\ ~InStep => log.openStep = 0
    /\ log.nextTurn = (IF InTurn THEN turn ELSE turn + 1)
    /\ InTurn => log.nextStep = (IF InStep THEN step ELSE step + 1)

GrammarInv ==
    /\ InTurn => log.openTurn = turn /\ turn # 0
    /\ InStep => log.openStep = step /\ step # 0
    /\ pc = "enter" => step = 0
    /\ ~refused => Boundaries

LiveInv ==
    /\ pc = "off" <=> phase # "running"
    /\ phase = "idle" => abort = "none" /\ ~wakeRequested

WakeInv ==
    \/ Pending \subseteq parked
    \/ wakeRequested
    \/ DriverWillClaim
    \/ replay /\ phase = "idle"
    \/ replay /\ phase = "maintenance" /\ abort # "disposed"

\* turn/start opens the turn it carries and resets the step number.
LEMMA AppendTurnStartFields ==
  ASSUME LogType, NEW t \in Nat, AppendTurnStart(t)
  PROVE  /\ LogType'
         /\ log'.openTurn = t /\ log'.openStep = log.openStep
         /\ log'.nextTurn = log.nextTurn /\ log'.nextStep = 1
         /\ log'.last = "turn/start"
<1>1. "turn/start" \in TL!EventTypes /\ 1 \in Nat \ {0}
  BY DEF TL!EventTypes, LogType
<1>2. LogType'
  BY <1>1 DEF LogType, AppendTurnStart
<1> QED
  BY <1>2 DEF LogType, AppendTurnStart

\* turn/end closes the turn and moves on to the next number.
LEMMA AppendTurnEndFields ==
  ASSUME LogType, AppendTurnEnd, InOpenTurn
  PROVE  /\ LogType'
         /\ log'.openTurn = 0 /\ log'.openStep = log.openStep
         /\ log'.nextTurn = log.nextTurn + 1 /\ log'.nextStep = log.nextStep
         /\ log'.last = "turn/end"
<1>1. "turn/end" \in TL!EventTypes /\ log.nextTurn + 1 \in Nat \ {0}
  BY DEF TL!EventTypes, LogType
<1>2. LogType'
  BY <1>1 DEF LogType, AppendTurnEnd, Stamped
<1> QED
  BY <1>2 DEF LogType, AppendTurnEnd, Stamped

\* step/start opens the step it carries.
LEMMA AppendStepStartFields ==
  ASSUME LogType, NEW s \in Nat, AppendStepStart(s), InOpenTurn
  PROVE  /\ LogType'
         /\ log'.openTurn = log.openTurn /\ log'.openStep = s
         /\ log'.nextTurn = log.nextTurn /\ log'.nextStep = log.nextStep
         /\ log'.last = "step/start"
<1>1. "step/start" \in TL!EventTypes
  BY DEF TL!EventTypes, LogType
<1>2. LogType'
  BY <1>1 DEF LogType, AppendStepStart, Stamped
<1> QED
  BY <1>2 DEF LogType, AppendStepStart, Stamped

\* step/end closes the step and moves on to the next number.
LEMMA AppendStepEndFields ==
  ASSUME LogType, AppendStepEnd, InOpenStep
  PROVE  /\ LogType'
         /\ log'.openTurn = log.openTurn /\ log'.openStep = 0
         /\ log'.nextTurn = log.nextTurn /\ log'.nextStep = log.nextStep + 1
         /\ log'.last = "step/end"
<1>1. "step/end" \in TL!EventTypes /\ log.nextStep + 1 \in Nat \ {0}
  BY DEF TL!EventTypes, LogType
<1>2. LogType'
  BY <1>1 DEF LogType, AppendStepEnd, Stamped
<1> QED
  BY <1>2 DEF LogType, AppendStepEnd, Stamped

\* An event stamped with the open turn and step is never misnumbered.
LEMMA AppendInStepMatches ==
  ASSUME NEW y, AppendInStep(y), InOpenStep
  PROVE  AppendOther(y)
  BY DEF AppendInStep, AppendOther, Stamped

\* An event that is not a boundary leaves the open turn and step alone.
LEMMA AppendOtherFields ==
  ASSUME LogType, NEW y \in TL!EventTypes, AppendOther(y)
  PROVE  /\ LogType'
         /\ log'.openTurn = log.openTurn /\ log'.openStep = log.openStep
         /\ log'.nextTurn = log.nextTurn /\ log'.nextStep = log.nextStep
         /\ log'.last = y
<1>2. LogType'
  BY DEF LogType, AppendOther
<1> QED
  BY <1>2 DEF LogType, AppendOther

\* Every step of the program is a step of the grammar, or appends nothing,
\* until a closing event is refused.
LEMMA GrammarStep ==
  ASSUME TypeOK, GrammarInv, LiveInv, [Next]_vars
  PROVE  GrammarInv' /\ LogType' /\ [TL!Next \/ refused]_(TL!trace)
<1> USE DEF phaseVars, inboxVars, localVars, logVars, historyVars, callVars
<1>q. ASSUME UNCHANGED log PROVE LogType' /\ UNCHANGED TL!trace
  BY <1>q DEF TypeOK, LogType, TL!trace
<1>o. ASSUME NEW y \in TL!StepScoped \cup TL!TurnScoped \cup TL!Unscoped, AppendOther(y), InTurn,
             y \in TL!StepScoped => InStep
      PROVE  LogType' /\ TL!Next /\ log'.openTurn = log.openTurn /\ log'.openStep = log.openStep
             /\ log'.nextTurn = log.nextTurn /\ log'.nextStep = log.nextStep
  <2>1. y \in TL!EventTypes
    BY <1>o DEF TL!EventTypes
  <2>2. /\ LogType'
        /\ log'.openTurn = log.openTurn /\ log'.openStep = log.openStep
        /\ log'.nextTurn = log.nextTurn /\ log'.nextStep = log.nextStep
        /\ log'.last = y
    BY <1>o, <2>1, AppendOtherFields DEF TypeOK
  <2>3. log.openTurn # 0 /\ (y \in TL!StepScoped => log.openStep # 0)
    BY <1>o DEF GrammarInv, Boundaries, TypeOK, PhaseType
  <2>4. TL!Event(y)
    BY <2>2, <2>3 DEF TL!Event
  <2> QED
    BY <2>2, <2>4, <1>o DEF TL!Next
<1>s. ASSUME InStep PROVE InOpenStep
  BY <1>s DEF GrammarInv, Boundaries, InTurn, InOpenStep
<1>1. CASE Caller
  <2>1. UNCHANGED <<log, pc, turn, step, refused>>
    BY <1>1 DEF Caller, Send, cancel, CancelEnds, ClearNextStep, ClearNextTurn, Remove, runMaintenance
  <2> QED
    BY <2>1, <1>q DEF GrammarInv, Boundaries, InTurn, InStep
<1>2. CASE TurnMachine
  <2>1. CASE TurnStart
    <3>1. turn + 1 \in Nat /\ turn + 1 # 0 /\ AppendTurnStart(turn + 1)
      BY <2>1 DEF TypeOK, PhaseType, TurnStart
    <3>2. /\ LogType' /\ log'.openTurn = turn + 1 /\ log'.openStep = log.openStep
          /\ log'.nextTurn = log.nextTurn /\ log'.nextStep = 1 /\ log'.last = "turn/start"
      BY <3>1, AppendTurnStartFields DEF TypeOK
    <3>3. step = 0 /\ (~refused => log.openTurn = 0 /\ log.nextTurn = turn + 1 /\ log.openStep = 0)
      BY <2>1 DEF TurnStart, At, GrammarInv, Boundaries, InTurn, InStep
    <3>4. ~refused => TL!Next
      BY <3>2, <3>3 DEF TL!Next, TL!TurnStart
    <3>5. turn' = turn + 1 /\ step' = step /\ pc' = "loop" /\ refused' = refused
      BY <2>1 DEF TurnStart
    <3>6. GrammarInv'
      BY <3>1, <3>2, <3>3, <3>5 DEF GrammarInv, Boundaries, InTurn, InStep
    <3> QED
      BY <3>2, <3>4, <3>6
  <2>2. CASE TurnNotStarted
    BY <2>2, <1>q DEF TurnNotStarted, At, GrammarInv, Boundaries, InTurn, InStep
  <2>3. CASE claim
    BY <2>3, <1>q DEF claim, ClaimPrompt, At, GrammarInv, Boundaries, InTurn, InStep
  <2>4. CASE PreStepDecides
    BY <2>4, <1>q DEF PreStepDecides, At, GrammarInv, Boundaries, InTurn, InStep
  <2>5. CASE StepNotEntered
    BY <2>5, <1>q DEF StepNotEntered, At, GrammarInv, Boundaries, InTurn, InStep
  <2>6. CASE StepEntered
    <3>1. step + 1 \in Nat /\ step + 1 # 0 /\ AppendStepStart(step + 1) /\ InOpenTurn
      BY <2>6 DEF TypeOK, PhaseType, StepEntered, At, GrammarInv, Boundaries, InTurn, InOpenTurn
    <3>2. /\ LogType' /\ log'.openTurn = log.openTurn /\ log'.openStep = step + 1
          /\ log'.nextTurn = log.nextTurn /\ log'.nextStep = log.nextStep /\ log'.last = "step/start"
      BY <3>1, AppendStepStartFields DEF TypeOK
    <3>3. /\ log.openTurn = turn /\ turn # 0
          /\ ~refused => log.nextTurn = turn /\ log.openStep = 0 /\ log.nextStep = step + 1
      BY <2>6 DEF StepEntered, At, GrammarInv, Boundaries, InTurn, InStep
    <3>4. ~refused => TL!Next
      BY <3>2, <3>3 DEF TL!Next, TL!StepStart
    <3>5. turn' = turn /\ step' = step + 1 /\ pc' = "prepare" /\ refused' = refused
      BY <2>6 DEF StepEntered
    <3>6. GrammarInv'
      BY <3>1, <3>2, <3>3, <3>5 DEF GrammarInv, Boundaries, InTurn, InStep
    <3> QED
      BY <3>2, <3>4, <3>6
  <2>7. CASE StepEnd
    <3>1. AppendStepEnd /\ InOpenStep
      BY <2>7 DEF StepEnd, At, GrammarInv, Boundaries, InTurn, InStep, InOpenStep
    <3>2. /\ LogType' /\ log'.openTurn = log.openTurn /\ log'.openStep = 0
          /\ log'.nextTurn = log.nextTurn /\ log'.nextStep = log.nextStep + 1 /\ log'.last = "step/end"
      BY <3>1, AppendStepEndFields DEF TypeOK
    <3>3. /\ log.openTurn = turn /\ turn # 0 /\ log.openStep = step /\ step # 0
          /\ ~refused => log.nextTurn = turn /\ log.nextStep = step
      BY <2>7 DEF StepEnd, At, GrammarInv, Boundaries, InTurn, InStep
    <3>4. ~refused => TL!Next
      BY <3>2, <3>3 DEF TL!Next, TL!StepEnd
    <3>5. turn' = turn /\ step' = step /\ pc' \in {"failing", "afterStep"} /\ refused' = refused
      BY <2>7 DEF StepEnd
    <3>6. GrammarInv'
      BY <3>2, <3>3, <3>5 DEF GrammarInv, Boundaries, InTurn, InStep
    <3> QED
      BY <3>2, <3>4, <3>6
  <2>8. CASE AfterStep
    BY <2>8, <1>q DEF AfterStep, At, GrammarInv, Boundaries, InTurn, InStep
  <2>9. CASE TurnStopping
    BY <2>9, <1>q DEF TurnStopping, At, GrammarInv, Boundaries, InTurn, InStep
  <2>10. CASE TurnThrows
    BY <2>10, <1>q DEF TurnThrows, Goto, At, GrammarInv, Boundaries, InTurn, InStep
  <2>11. CASE Catch
    BY <2>11, <1>q DEF Catch, At, GrammarInv, Boundaries, InTurn, InStep
  <2>12. CASE TurnEnd
    <3>1. AppendTurnEnd /\ InOpenTurn
      BY <2>12 DEF TurnEnd, At, GrammarInv, Boundaries, InTurn, InOpenTurn
    <3>2. /\ LogType' /\ log'.openTurn = 0 /\ log'.openStep = log.openStep
          /\ log'.nextTurn = log.nextTurn + 1 /\ log'.nextStep = log.nextStep /\ log'.last = "turn/end"
      BY <3>1, AppendTurnEndFields DEF TypeOK
    <3>3. log.openTurn = turn /\ turn # 0 /\ (~refused => log.nextTurn = turn /\ log.openStep = 0)
      BY <2>12 DEF TurnEnd, At, GrammarInv, Boundaries, InTurn, InStep
    <3>4. ~refused => TL!Next
      BY <3>2, <3>3 DEF TL!Next, TL!TurnEnd
    <3>5. turn' = turn /\ step' = step /\ pc' = "ended" /\ refused' = refused
      BY <2>12 DEF TurnEnd
    <3>6. GrammarInv'
      BY <3>2, <3>3, <3>5 DEF GrammarInv, Boundaries, InTurn, InStep
    <3> QED
      BY <3>2, <3>4, <3>6
  <2>13. CASE NextTurn
    BY <2>13, <1>q DEF NextTurn, At, GrammarInv, Boundaries, InTurn, InStep
  <2>14. CASE DriverStops
    BY <2>14, <1>q DEF DriverStops, At, GrammarInv, Boundaries, InTurn, InStep
  <2>15. CASE Exit
    BY <2>15, <1>q DEF Exit, GrammarInv, Boundaries, InTurn, InStep
  <2>16. CASE ClaimFails
    BY <2>16, <1>q DEF ClaimFails, At, GrammarInv, Boundaries, InTurn, InStep
  <2>17. CASE StepEndFails
    BY <2>17, <1>q DEF StepEndFails, At, GrammarInv, InTurn, InStep
  <2>18. CASE TurnEndFails
    BY <2>18, <1>q DEF TurnEndFails, At, GrammarInv, InTurn, InStep
  <2> QED
    BY <1>2, <2>1, <2>2, <2>3, <2>4, <2>5, <2>6, <2>7, <2>8, <2>9, <2>10, <2>11, <2>12, <2>13, <2>14, <2>15,
       <2>16, <2>17, <2>18 DEF TurnMachine
<1>3. CASE StepMachine
  <2>1. CASE prepareRequest
    BY <2>1, <1>q DEF prepareRequest, Goto, At, GrammarInv, Boundaries, InTurn, InStep
  <2>2. CASE CommitMessages
    <3>1. /\ InTurn /\ InStep /\ InTurn' /\ InStep'
          /\ turn' = turn /\ step' = step /\ pc' # "enter" /\ refused' = refused
      BY <2>2 DEF CommitMessages, At, InTurn, InStep
    <3>2. UNCHANGED log \/ AppendOther("user/message")
      BY <2>2 DEF CommitMessages
    <3>3. CASE UNCHANGED log
      BY <3>1, <3>3, <1>q DEF GrammarInv, Boundaries
    <3>4. CASE AppendOther("user/message")
      BY <3>1, <3>4, <1>o DEF GrammarInv, Boundaries, TL!StepScoped, TL!TurnScoped, TL!Unscoped
    <3> QED
      BY <3>2, <3>3, <3>4
  <2>3. CASE buildRequest
    <3>1. /\ InTurn /\ InStep /\ InTurn' /\ InStep'
          /\ turn' = turn /\ step' = step /\ pc' # "enter" /\ refused' = refused
      BY <2>3 DEF buildRequest, StreamStarts, LogRequest, StepReturns, At, InTurn, InStep
    <3>2. UNCHANGED log \/ \E y \in {"request/header", "request/context"} : AppendOther(y)
      BY <2>3, <3>1, <1>s, AppendInStepMatches DEF buildRequest, StreamStarts, LogRequest
    <3>3. CASE UNCHANGED log
      BY <3>1, <3>3, <1>q DEF GrammarInv, Boundaries
    <3>4. CASE \E y \in {"request/header", "request/context"} : AppendOther(y)
      BY <3>1, <3>4, <1>o DEF GrammarInv, Boundaries, TL!StepScoped, TL!TurnScoped, TL!Unscoped
    <3> QED
      BY <3>2, <3>3, <3>4
  <2>4. CASE StreamCompletes
    <3>1. /\ InTurn /\ InStep /\ InTurn' /\ InStep'
          /\ turn' = turn /\ step' = step /\ pc' # "enter" /\ refused' = refused
      BY <2>4 DEF StreamCompletes, StepReturns, At, InTurn, InStep
    <3>2. UNCHANGED log \/ \E y \in {"assistant/message"} : AppendOther(y)
      BY <2>4, <3>1, <1>s, AppendInStepMatches DEF StreamCompletes
    <3>3. CASE UNCHANGED log
      BY <3>1, <3>3, <1>q DEF GrammarInv, Boundaries
    <3>4. CASE \E y \in {"assistant/message"} : AppendOther(y)
      BY <3>1, <3>4, <1>o DEF GrammarInv, Boundaries, TL!StepScoped, TL!TurnScoped, TL!Unscoped
    <3> QED
      BY <3>2, <3>3, <3>4
  <2>5. CASE StreamFails
    <3>1. /\ InTurn /\ InStep /\ InTurn' /\ InStep'
          /\ turn' = turn /\ step' = step /\ pc' # "enter" /\ refused' = refused
      BY <2>5 DEF StreamFails, At, InTurn, InStep
    <3>2. UNCHANGED log \/ \E y \in {"assistant/attempt"} : AppendOther(y)
      BY <2>5, <3>1, <1>s, AppendInStepMatches DEF StreamFails
    <3>3. CASE UNCHANGED log
      BY <3>1, <3>3, <1>q DEF GrammarInv, Boundaries
    <3>4. CASE \E y \in {"assistant/attempt"} : AppendOther(y)
      BY <3>1, <3>4, <1>o DEF GrammarInv, Boundaries, TL!StepScoped, TL!TurnScoped, TL!Unscoped
    <3> QED
      BY <3>2, <3>3, <3>4
  <2>6. CASE StreamThrows
    <3>1. /\ InTurn /\ InStep /\ InTurn' /\ InStep'
          /\ turn' = turn /\ step' = step /\ pc' # "enter" /\ refused' = refused
      BY <2>6 DEF StreamThrows, StepReturns, At, InTurn, InStep
    <3>2. UNCHANGED log \/ \E y \in {"assistant/attempt", "assistant/message"} : AppendOther(y)
      BY <2>6, <3>1, <1>s, AppendInStepMatches DEF StreamThrows
    <3>3. CASE UNCHANGED log
      BY <3>1, <3>3, <1>q DEF GrammarInv, Boundaries
    <3>4. CASE \E y \in {"assistant/attempt", "assistant/message"} : AppendOther(y)
      BY <3>1, <3>4, <1>o DEF GrammarInv, Boundaries, TL!StepScoped, TL!TurnScoped, TL!Unscoped
    <3> QED
      BY <3>2, <3>3, <3>4
  <2>7. CASE Retry
    BY <2>7, <1>q DEF Retry, Goto, At, GrammarInv, Boundaries, InTurn, InStep
  <2>8. CASE ToolsFinish
    BY <2>8, <1>q DEF ToolsFinish, StepReturns, At, GrammarInv, Boundaries, InTurn, InStep
  <2>9. CASE StepThrows
    BY <2>9, <1>q DEF StepThrows, StepReturns, At, GrammarInv, Boundaries, InTurn, InStep
  <2>10. CASE CommitSystem
    <3>1. /\ InTurn /\ InStep /\ InTurn' /\ InStep'
          /\ turn' = turn /\ step' = step /\ pc' # "enter" /\ refused' = refused
      BY <2>10 DEF CommitSystem, At, InTurn, InStep
    <3>2. UNCHANGED log \/ AppendOther("system/message")
      BY <2>10, <3>1, <1>s, AppendInStepMatches DEF CommitSystem
    <3>3. CASE UNCHANGED log
      BY <3>1, <3>3, <1>q DEF GrammarInv, Boundaries
    <3>4. CASE AppendOther("system/message")
      BY <3>1, <3>4, <1>o DEF GrammarInv, Boundaries, TL!StepScoped, TL!TurnScoped, TL!Unscoped
    <3> QED
      BY <3>2, <3>3, <3>4
  <2> QED
    BY <1>3, <2>1, <2>2, <2>3, <2>4, <2>5, <2>6, <2>7, <2>8, <2>9, <2>10 DEF StepMachine
<1>4. CASE SendWakes \/ CancelGoesOn \/ ReplayLatch \/ MaintenanceEnds
  <2>1. UNCHANGED <<log, turn, refused>>
    BY <1>4 DEF SendWakes, CancelGoesOn, CancelEnds, ReplayLatch, MaintenanceEnds, wakeDriver, StartDriver, LatchWake
  <2>2. UNCHANGED <<pc, step>> \/ (phase # "running" /\ pc' = "enter" /\ step' = 0)
    BY <1>4 DEF SendWakes, CancelGoesOn, CancelEnds, ReplayLatch, MaintenanceEnds, wakeDriver, StartDriver, LatchWake
  <2> QED
    BY <2>1, <2>2, <1>q DEF GrammarInv, Boundaries, LiveInv, InTurn, InStep
<1>5. CASE UNCHANGED vars
  BY <1>5, <1>q DEF vars, GrammarInv, Boundaries, InTurn, InStep
<1> QED
  BY <1>1, <1>2, <1>3, <1>4, <1>5 DEF Next, Driver

----------------------------------------------------------------------------
(* The driver is in its code exactly while the phase is running.           *)

\* Every step keeps the driver in its code exactly while the phase is running.
LEMMA LiveStep ==
  ASSUME TypeOK, LiveInv, [Next]_vars
  PROVE  LiveInv'
<1> USE DEF phaseVars, inboxVars, localVars, logVars, historyVars, callVars, LiveInv
<1>1. CASE Caller
  <2>1. UNCHANGED pc /\ (phase # "idle" => UNCHANGED phase)
    BY <1>1 DEF Caller, Send, cancel, CancelEnds, ClearNextStep, ClearNextTurn, Remove, runMaintenance
  <2>2. ASSUME NEW cause \in Causes, NEW keepInbox \in BOOLEAN, cancel(cause, keepInbox)
        PROVE  LiveInv'
    BY <2>2 DEF cancel, CancelEnds, ClearNextStep, ClearNextTurn
  <2> QED
    BY <1>1, <2>1, <2>2 DEF Caller, Send, Remove, runMaintenance
<1>2. CASE TurnMachine
  <2>1. CASE TurnStart
    BY <2>1 DEF TurnStart, At
  <2>2. CASE TurnNotStarted
    BY <2>2 DEF TurnNotStarted, At
  <2>3. CASE claim
    BY <2>3 DEF claim, ClaimPrompt, At
  <2>4. CASE PreStepDecides
    BY <2>4 DEF PreStepDecides, At
  <2>5. CASE StepNotEntered
    BY <2>5 DEF StepNotEntered, At
  <2>6. CASE StepEntered
    BY <2>6 DEF StepEntered, At
  <2>7. CASE StepEnd
    BY <2>7 DEF StepEnd, At
  <2>8. CASE AfterStep
    BY <2>8 DEF AfterStep, At
  <2>9. CASE TurnStopping
    BY <2>9 DEF TurnStopping, At
  <2>10. CASE TurnThrows
    BY <2>10 DEF TurnThrows, Goto, At
  <2>11. CASE Catch
    BY <2>11 DEF Catch, At
  <2>12. CASE TurnEnd
    BY <2>12 DEF TurnEnd, At
  <2>13. CASE NextTurn
    BY <2>13 DEF NextTurn, At
  <2>14. CASE DriverStops
    BY <2>14 DEF DriverStops, At
  <2>15. CASE Exit
    BY <2>15 DEF Exit
  <2>16. CASE ClaimFails \/ StepEndFails \/ TurnEndFails
    BY <2>16 DEF ClaimFails, StepEndFails, TurnEndFails, At
  <2> QED
    BY <1>2, <2>1, <2>2, <2>3, <2>4, <2>5, <2>6, <2>7, <2>8, <2>9, <2>10, <2>11, <2>12, <2>13, <2>14, <2>15, <2>16 DEF TurnMachine
<1>3. CASE StepMachine
  <2>1. UNCHANGED phaseVars /\ pc # "off" /\ pc' # "off"
    BY <1>3 DEF StepMachine, At, StepReturns, Goto, prepareRequest, CommitSystem, CommitMessages, buildRequest, StreamStarts,
                StreamCompletes, StreamFails, StreamThrows, Retry, ToolsFinish, StepThrows
  <2> QED
    BY <2>1
<1>4. CASE SendWakes \/ CancelGoesOn \/ ReplayLatch
  <2>1. \/ UNCHANGED <<phaseVars, pc>> \/ StartDriver \/ \E w \in BOOLEAN : LatchWake(w)
        \/ UNCHANGED pc /\ \E c : CancelEnds(c, FALSE)
    <3>1. PICK w \in BOOLEAN : w = Innermost("afterAbort")
      BY Zenon DEF Innermost
    <3>2. SendWakes => wakeDriver(w)
      BY <3>1 DEF SendWakes
    <3>3. ReplayLatch => UNCHANGED <<phaseVars, pc>> \/ wakeDriver(FALSE)
      BY DEF ReplayLatch
    <3>4. CancelGoesOn => UNCHANGED pc /\ (UNCHANGED phaseVars \/ \E c : CancelEnds(c, FALSE))
      BY DEF CancelGoesOn
    <3> QED
      BY <1>4, <3>2, <3>3, <3>4 DEF wakeDriver
  <2>2. CASE StartDriver
    BY <2>2 DEF StartDriver
  <2>3. ASSUME NEW w \in BOOLEAN, LatchWake(w)
        PROVE  LiveInv'
    BY <2>3 DEF LatchWake
  <2>4. ASSUME UNCHANGED pc, NEW c, CancelEnds(c, FALSE)
        PROVE  LiveInv'
    BY <2>4 DEF CancelEnds
  <2>5. CASE UNCHANGED pc /\ \E c : CancelEnds(c, FALSE)
    BY <2>4, <2>5, Zenon
  <2>6. CASE UNCHANGED <<phaseVars, pc>>
    BY <2>6
  <2>7. CASE \E w \in BOOLEAN : LatchWake(w)
    BY <2>3, <2>7, Zenon
  <2> QED
    BY <2>1, <2>2, <2>5, <2>6, <2>7, Zenon
<1>5. CASE MaintenanceEnds
  BY <1>5 DEF MaintenanceEnds
<1>6. CASE UNCHANGED vars
  BY <1>6 DEF vars
<1> QED
  BY <1>1, <1>2, <1>3, <1>4, <1>5, <1>6 DEF Next, Driver

----------------------------------------------------------------------------
(* What is pending was parked, or the driver or a latch will see to it.    *)

\* A part of a sequence has no elements of its own.
LEMMA SubSeqRange ==
  ASSUME NEW S, NEW q \in Seq(S), NEW m \in Nat \ {0}, NEW n \in Nat, n <= Len(q)
  PROVE  SubSeq(q, m, n) \in Seq(Range(q))
<1>1. \A i \in m..n : q[i] \in Range(q)
  BY LenProperties DEF Range
<1> QED
  BY <1>1, SubSeqProperties

\* inbox.remove puts nothing new in the inbox.
LEMMA WithoutAtRange ==
  ASSUME NEW S, NEW q \in Seq(S), NEW i \in DOMAIN q
  PROVE  Range(WithoutAt(q, i)) \subseteq Range(q)
<1>1. i \in 1..Len(q) /\ Len(q) \in Nat
  BY LenProperties
<1>2. SubSeq(q, 1, i - 1) \in Seq(Range(q)) /\ SubSeq(q, i + 1, Len(q)) \in Seq(Range(q))
  BY <1>1, SubSeqRange
<1>3. WithoutAt(q, i) \in Seq(Range(q))
  BY <1>2, ConcatProperties DEF WithoutAt
<1> QED
  BY <1>3, LenProperties, ElementOfSeq DEF Range

\* send puts only the message it sends in a list.
LEMMA AppendRange ==
  ASSUME NEW S, NEW q \in Seq(S), NEW e \in S
  PROVE  Range(Append(q, e)) = Range(q) \cup {e}
<1>1. /\ DOMAIN q = 1..Len(q) /\ Len(q) \in Nat
      /\ DOMAIN Append(q, e) = 1..(Len(q) + 1)
      /\ \A i \in 1..Len(q) : Append(q, e)[i] = q[i]
      /\ Append(q, e)[Len(q) + 1] = e
  BY AppendProperties, LenProperties
<1>2. ASSUME NEW x \in Range(q) \cup {e}
      PROVE  x \in Range(Append(q, e))
  BY <1>1 DEF Range
<1>3. ASSUME NEW x \in Range(Append(q, e))
      PROVE  x \in Range(q) \cup {e}
  BY <1>1 DEF Range
<1> QED
  BY <1>2, <1>3

\* claiming the head of a list puts nothing new in it.
LEMMA TailRange ==
  ASSUME NEW S, NEW q \in Seq(S), q # <<>>
  PROVE  Range(Tail(q)) \subseteq Range(q) /\ Head(q) \in Range(q)
<1>1. /\ DOMAIN q = 1..Len(q) /\ Len(q) \in Nat \ {0}
      /\ Tail(q) \in Seq(S) /\ Len(Tail(q)) = Len(q) - 1
      /\ \A i \in 1..Len(Tail(q)) : Tail(q)[i] = q[i + 1]
      /\ Head(q) = q[1]
  BY HeadTailProperties, EmptySeq
<1>2. DOMAIN Tail(q) = 1..Len(Tail(q))
  BY <1>1
<1> QED
  BY <1>1, <1>2 DEF Range

\* A cleared list holds no message.
LEMMA EmptyRange == Range(<<>>) = {}
  BY DEF Range

\* send makes at most the message it sends pending.
LEMMA InsertPending ==
  ASSUME NEW to, Insert(to), InboxType, sent + 1 \in Message
  PROVE  Pending' = Pending \cup {sent + 1}
<1>1. /\ Range(Append(nextTurnQ, sent + 1)) = Range(nextTurnQ) \cup {sent + 1}
      /\ Range(Append(nextStepQ, sent + 1)) = Range(nextStepQ) \cup {sent + 1}
  BY AppendRange DEF InboxType
<1> QED
  BY <1>1 DEF Insert, Pending

\* Every step keeps each unpromised pending message accounted for (WakeInv).
LEMMA WakeStep ==
  ASSUME TypeOK, LiveInv, WakeInv, [Next]_vars
  PROVE  WakeInv'
<1> USE DEF phaseVars, inboxVars, localVars, logVars, historyVars, callVars
<1>t. /\ nextTurnQ \in Seq(Message) /\ nextStepQ \in Seq(Message) /\ Pending \subseteq Message
  BY PendingType DEF TypeOK, InboxType
<1>p. UNCHANGED inboxVars => Pending' = Pending
  BY DEF Pending
<1>e. ~HasPending => Pending = {}
  BY EmptyRange DEF HasPending, Pending
<1>l. phase = "idle" => abort = "none" /\ ~wakeRequested
  BY DEF LiveInv
<1>i. pc = "off" <=> phase # "running"
  BY DEF LiveInv
<1>1. ASSUME NEW to \in {"next-turn", "next-step"}, NEW wakeup \in BOOLEAN, Send(to, wakeup)
      PROVE  WakeInv'
  <2>1. sent + 1 \in Message
    BY <1>1, BoundsAssumption DEF Send, TypeOK, InboxType, Message
  <2>2. Pending' \subseteq Pending \cup {sent + 1}
    BY <1>1, <2>1, InsertPending DEF Send, TypeOK
  <2>3. DriverWillClaim' <=> DriverWillClaim
    BY <1>1 DEF Send, DriverWillClaim
  <2> QED
    BY <1>1, <2>2, <2>3 DEF Send, WakeInv
<1>c. ASSUME NEW c, NEW k \in BOOLEAN, CancelEnds(c, k), UNCHANGED <<pc, replay>>
      PROVE  WakeInv'
  <2>1. Pending' = Pending /\ UNCHANGED <<phase, pc, replay>>
    BY <1>c, <1>p DEF CancelEnds
  <2>2. CASE \/ wakeRequested /\ ~k
             \/ abort = "none" /\ (phase = "running" \/ (phase # "idle" /\ c = "disposed"))
    BY <1>c, <2>1, <2>2 DEF CancelEnds, WakeInv
  <2>3. CASE ~(\/ wakeRequested /\ ~k
               \/ abort = "none" /\ (phase = "running" \/ (phase # "idle" /\ c = "disposed")))
    <3>1. /\ parked' = parked /\ (phase = "idle" => abort' = abort)
          /\ (abort # "none" => abort' = abort)
          /\ (phase = "maintenance" /\ abort # "disposed" => abort' # "disposed")
      BY <1>c, <2>3 DEF CancelEnds
    <3>2. wakeRequested => wakeRequested'
      <4>1. wakeRequested => k
        BY <2>3
      <4>2. wakeRequested' = (wakeRequested /\ k)
        BY <1>c DEF CancelEnds
      <4> QED
        BY <4>1, <4>2
    <3>3. abort = "none" => phase # "running"
      BY <2>3
    <3> QED
      BY <2>1, <3>1, <3>2, <3>3 DEF WakeInv, DriverWillClaim
  <2> QED
    BY <2>2, <2>3
<1>d. ASSUME UNCHANGED <<phaseVars, parked, pc, replay>>, Pending' \subseteq Pending
      PROVE  WakeInv'
  BY <1>d DEF WakeInv, DriverWillClaim
<1>f. Range(nextTurnQ) \subseteq Pending /\ Range(nextStepQ) \subseteq Pending
  BY DEF Pending
<1>2. ASSUME NEW cause \in Causes, NEW keepInbox \in BOOLEAN, cancel(cause, keepInbox)
      PROVE  WakeInv'
  <2>1. UNCHANGED <<pc, replay>>
    BY <1>2 DEF cancel
  <2>2. CASE CancelEnds(cause, keepInbox)
    BY <2>1, <2>2, <1>c
  <2>3. CASE ClearNextStep(cause) \/ ClearNextTurn(cause)
    <3>1. Pending' \subseteq Pending /\ UNCHANGED <<phaseVars, parked>>
      BY <2>3, EmptyRange DEF ClearNextStep, ClearNextTurn, Pending
    <3> QED
      BY <2>1, <3>1, <1>d
  <2> QED
    BY <1>2, <2>2, <2>3 DEF cancel
<1>3. CASE Remove
  <2>1. Pending' \subseteq Pending
    BY <1>3, <1>t, WithoutAtRange DEF Remove, Pending
  <2> QED
    BY <1>3, <2>1 DEF Remove, WakeInv, DriverWillClaim
<1>4. CASE runMaintenance
  BY <1>4, <1>p, <1>l DEF runMaintenance, WakeInv, DriverWillClaim
<1>5. CASE TurnMachine
  <2>0. CASE claim
    <3>1. \/ nextTurnQ' = nextTurnQ
          \/ nextTurnQ # <<>> /\ nextTurnQ' = Tail(nextTurnQ)
      BY <2>0 DEF claim, ClaimPrompt, TakesPrompt
    <3>2. nextStepQ' = nextStepQ \/ nextStepQ' = <<>>
      BY <2>0 DEF claim
    <3>3. Pending' \subseteq Pending
      BY <3>1, <3>2, <1>t, TailRange, EmptyRange DEF Pending
    <3>4. UNCHANGED <<phaseVars, parked, replay>> /\ pc # "exit" /\ pc' # "exit"
      BY <2>0 DEF claim, ClaimPrompt, At
    <3> QED
      BY <3>3, <3>4 DEF WakeInv, DriverWillClaim
  <2>1. CASE TurnStart
    BY <2>1, <1>p, <1>e, <1>i DEF TurnStart, At, WakeInv, DriverWillClaim
  <2>2. CASE TurnNotStarted
    BY <2>2, <1>p, <1>e, <1>i DEF TurnNotStarted, At, WakeInv, DriverWillClaim
  <2>3. CASE PreStepDecides
    BY <2>3, <1>p, <1>e, <1>i DEF PreStepDecides, At, WakeInv, DriverWillClaim
  <2>4. CASE StepNotEntered
    BY <2>4, <1>p, <1>e, <1>i DEF StepNotEntered, At, WakeInv, DriverWillClaim
  <2>5. CASE StepEntered
    BY <2>5, <1>p, <1>e, <1>i DEF StepEntered, At, WakeInv, DriverWillClaim
  <2>6. CASE StepEnd
    BY <2>6, <1>p, <1>e, <1>i DEF StepEnd, At, WakeInv, DriverWillClaim
  <2>7. CASE AfterStep
    BY <2>7, <1>p, <1>e, <1>i DEF AfterStep, At, WakeInv, DriverWillClaim
  <2>8. CASE TurnStopping
    BY <2>8, <1>p, <1>e, <1>i DEF TurnStopping, At, WakeInv, DriverWillClaim
  <2>9. CASE TurnThrows
    BY <2>9, <1>p, <1>e, <1>i DEF TurnThrows, Goto, At, WakeInv, DriverWillClaim
  <2>10. CASE Catch
    BY <2>10, <1>p, <1>e, <1>i DEF Catch, At, WakeInv, DriverWillClaim
  <2>11. CASE TurnEnd
    BY <2>11, <1>p, <1>e, <1>i DEF TurnEnd, At, WakeInv, DriverWillClaim
  <2>12. CASE NextTurn
    BY <2>12, <1>p, <1>e, <1>i DEF NextTurn, At, WakeInv, DriverWillClaim
  <2>13. CASE DriverStops
    BY <2>13, <1>p, <1>e, <1>i DEF DriverStops, At, WakeInv, DriverWillClaim
  <2>14. CASE Exit
    BY <2>14, <1>p, <1>e, <1>i DEF Exit, WakeInv, DriverWillClaim
  <2>15. CASE ClaimFails
    BY <2>15, <1>p, <1>e, <1>i DEF ClaimFails, At, WakeInv, DriverWillClaim
  <2>16. CASE StepEndFails
    BY <2>16, <1>p, <1>e, <1>i DEF StepEndFails, At, WakeInv, DriverWillClaim
  <2>17. CASE TurnEndFails
    BY <2>17, <1>p, <1>e, <1>i DEF TurnEndFails, At, WakeInv, DriverWillClaim
  <2> QED
    BY <1>5, <2>0, <2>1, <2>2, <2>3, <2>4, <2>5, <2>6, <2>7, <2>8, <2>9, <2>10, <2>11, <2>12, <2>13, <2>14, <2>15, <2>16, <2>17 DEF TurnMachine
<1>6. CASE StepMachine
  <2>1. UNCHANGED <<phaseVars, inboxVars, replay, parked>> /\ pc # "exit" /\ pc' # "exit"
    BY <1>6 DEF StepMachine, At, StepReturns, Goto, prepareRequest, CommitSystem, CommitMessages, buildRequest, StreamStarts,
                StreamCompletes, StreamFails, StreamThrows, Retry, ToolsFinish, StepThrows
  <2> QED
    BY <2>1, <1>p DEF WakeInv, DriverWillClaim
<1>7. ASSUME NEW w \in BOOLEAN, wakeDriver(w), UNCHANGED inboxVars,
             replay' = replay \/ (replay' = FALSE /\ w = FALSE)
      PROVE  WakeInv'
  <2>1. CASE StartDriver
    BY <2>1 DEF StartDriver, WakeInv, DriverWillClaim
  <2>2. CASE LatchWake(w)
    <3>1. UNCHANGED <<phase, abort, pc>> /\ Pending' = Pending
      BY <1>7, <2>2, <1>p DEF LatchWake
    <3>2. CASE Latches(w)
      <4>1. wakeRequested'
        BY <2>2, <3>2 DEF LatchWake
      <4> QED
        BY <4>1 DEF WakeInv
    <3>3. CASE ~Latches(w)
      <4>1. parked' = parked /\ (wakeRequested => wakeRequested')
        BY <2>2, <3>3, Zenon DEF LatchWake, Promise, Latches
      <4>2. ~w => (phase = "maintenance" => abort = "disposed")
        BY <3>3 DEF Latches
      <4>3. phase # "idle"
        BY <2>2 DEF LatchWake
      <4> QED
        BY <1>7, <3>1, <4>1, <4>2, <4>3 DEF WakeInv, DriverWillClaim
    <3> QED
      BY <3>2, <3>3
  <2> QED
    BY <1>7, <2>1, <2>2 DEF wakeDriver
<1>8. CASE SendWakes
  <2>1. PICK w \in BOOLEAN : w = Innermost("afterAbort")
    BY Zenon DEF Innermost
  <2>2. wakeDriver(w) /\ UNCHANGED <<inboxVars, replay>>
    BY <1>8, <2>1 DEF SendWakes
  <2> QED
    BY <2>2, <1>7
<1>12. CASE CancelGoesOn
  <2>1. UNCHANGED <<pc, replay>>
    BY <1>12 DEF CancelGoesOn
  <2>2. \/ CancelEnds(Head(calls).cause, FALSE)
        \/ UNCHANGED <<phaseVars, parked>> /\ (nextTurnQ' = <<>> \/ UNCHANGED nextTurnQ) /\ UNCHANGED nextStepQ
    BY <1>12 DEF CancelGoesOn
  <2>3. CASE UNCHANGED <<phaseVars, parked>> /\ (nextTurnQ' = <<>> \/ UNCHANGED nextTurnQ) /\ UNCHANGED nextStepQ
    <3>1. Pending' \subseteq Pending
      BY <2>3, EmptyRange DEF Pending
    <3> QED
      BY <2>1, <2>3, <3>1, <1>d
  <2> QED
    BY <2>1, <2>2, <2>3, <1>c
<1>9. CASE ReplayLatch
  <2>1. CASE HasPending
    BY <1>9, <2>1, <1>7 DEF ReplayLatch
  <2>2. CASE ~HasPending
    BY <1>9, <2>2, <1>p, <1>e DEF ReplayLatch, WakeInv
  <2> QED
    BY <2>1, <2>2
<1>10. CASE MaintenanceEnds
  BY <1>10, <1>p, <1>e DEF MaintenanceEnds, WakeInv, DriverWillClaim
<1>11. CASE UNCHANGED vars
  BY <1>11, <1>p DEF vars, WakeInv, DriverWillClaim
<1> QED
  BY <1>1, <1>2, <1>3, <1>4, <1>5, <1>6, <1>8, <1>9, <1>10, <1>11, <1>12 DEF Next, Caller, Driver

----------------------------------------------------------------------------
(* A message is in one place: logged, claimed, or pending.                 *)

\* The batch still has to be committed.
Holds ==
    pc \in {"claiming", "preStep", "decided"} \/ (firstAttempt /\ pc \in {"prepare", "commit", "admit"})

Held == IF Holds THEN batch ELSE <<>>

\* Four lists of messages out of 1..n have no message twice.
Apart(logged, claimed, turns, steps, n) ==
    /\ IsInjective(logged) /\ IsInjective(claimed) /\ IsInjective(turns) /\ IsInjective(steps)
    /\ Range(logged) \cap Range(claimed) = {}
    /\ Range(turns) \cap Range(steps) = {}
    /\ (Range(logged) \cup Range(claimed)) \cap (Range(turns) \cup Range(steps)) = {}
    /\ Range(logged) \cup Range(claimed) \cup Range(turns) \cup Range(steps) \subseteq 1..n

\* No message is twice among what is logged, claimed and pending, and what was
\* committed is not committed again by a retry.
OnceInv ==
    /\ Apart(userLog, Held, nextTurnQ, nextStepQ, sent)
    /\ pc \in {"request", "stream", "requestError"} => ~firstAttempt

\* A new element keeps a list free of repetitions.
LEMMA AppendOnce ==
  ASSUME NEW S, NEW q \in Seq(S), NEW e \in S, IsInjective(q), e \notin Range(q)
  PROVE  IsInjective(Append(q, e))
<1>1. /\ DOMAIN q = 1..Len(q) /\ Len(q) \in Nat
      /\ DOMAIN Append(q, e) = 1..(Len(q) + 1)
      /\ \A i \in 1..Len(q) : Append(q, e)[i] = q[i]
      /\ Append(q, e)[Len(q) + 1] = e
  BY AppendProperties, LenProperties
<1>2. \A i \in 1..Len(q) : q[i] # e
  BY <1>1 DEF Range
<1> QED
  BY <1>1, <1>2 DEF IsInjective

\* Neither does losing its head bring one in.
LEMMA TailOnce ==
  ASSUME NEW S, NEW q \in Seq(S), q # <<>>, IsInjective(q)
  PROVE  IsInjective(Tail(q)) /\ Head(q) \notin Range(Tail(q))
<1>1. /\ DOMAIN q = 1..Len(q) /\ Len(q) \in Nat \ {0}
      /\ Tail(q) \in Seq(S) /\ Len(Tail(q)) = Len(q) - 1
      /\ \A i \in 1..Len(Tail(q)) : Tail(q)[i] = q[i + 1]
      /\ Head(q) = q[1]
  BY HeadTailProperties, EmptySeq
<1>2. DOMAIN Tail(q) = 1..Len(Tail(q))
  BY <1>1
<1>3. \A i \in 1..Len(Tail(q)) : i + 1 \in 1..Len(q) /\ i + 1 # 1
  BY <1>1
<1>4. IsInjective(Tail(q))
  BY <1>1, <1>2, <1>3 DEF IsInjective
<1>5. Head(q) \notin Range(Tail(q))
  BY <1>1, <1>2, <1>3 DEF IsInjective, Range
<1> QED
  BY <1>4, <1>5

\* Two lists without a common element, one behind the other.
LEMMA ConcatOnce ==
  ASSUME NEW S, NEW q \in Seq(S), NEW r \in Seq(S)
  PROVE  /\ Range(q \o r) = Range(q) \cup Range(r)
         /\ IsInjective(q) /\ IsInjective(r) /\ Range(q) \cap Range(r) = {} => IsInjective(q \o r)
<1>1. /\ DOMAIN q = 1..Len(q) /\ Len(q) \in Nat /\ DOMAIN r = 1..Len(r) /\ Len(r) \in Nat
      /\ q \o r \in Seq(S) /\ Len(q \o r) = Len(q) + Len(r)
      /\ \A i \in 1..Len(q) : (q \o r)[i] = q[i]
      /\ \A i \in 1..Len(r) : (q \o r)[Len(q) + i] = r[i]
  BY ConcatProperties, LenProperties
<1>2. DOMAIN (q \o r) = 1..(Len(q) + Len(r))
  BY <1>1, LenProperties
<1>3. ASSUME NEW i \in 1..(Len(q) + Len(r))
      PROVE  \/ i \in 1..Len(q) /\ (q \o r)[i] = q[i]
             \/ i - Len(q) \in 1..Len(r) /\ (q \o r)[i] = r[i - Len(q)]
  <2>1. CASE i <= Len(q)
    BY <1>1, <2>1
  <2>2. CASE i > Len(q)
    <3>1. i - Len(q) \in 1..Len(r) /\ Len(q) + (i - Len(q)) = i
      BY <1>1, <2>2
    <3> QED
      BY <1>1, <3>1
  <2> QED
    BY <1>1, <2>1, <2>2
<1>4. Range(q \o r) \subseteq Range(q) \cup Range(r)
  BY <1>1, <1>2, <1>3 DEF Range
<1>5. Range(q) \subseteq Range(q \o r)
  <2>1. \A i \in 1..Len(q) : i \in 1..(Len(q) + Len(r))
    BY <1>1
  <2> QED
    BY <1>1, <1>2, <2>1 DEF Range
<1>6. Range(r) \subseteq Range(q \o r)
  <2>1. \A i \in 1..Len(r) : Len(q) + i \in 1..(Len(q) + Len(r))
    BY <1>1
  <2> QED
    BY <1>1, <1>2, <2>1 DEF Range
<1>7. ASSUME IsInjective(q), IsInjective(r), Range(q) \cap Range(r) = {}
      PROVE  IsInjective(q \o r)
  <2> SUFFICES ASSUME NEW i \in 1..(Len(q) + Len(r)), NEW j \in 1..(Len(q) + Len(r)),
                      (q \o r)[i] = (q \o r)[j]
               PROVE  i = j
    BY <1>2 DEF IsInjective
  <2>1. \A k \in 1..Len(q), l \in 1..Len(r) : q[k] # r[l]
    BY <1>1, <1>7 DEF Range
  <2>2. CASE i \in 1..Len(q) /\ j \in 1..Len(q)
    BY <1>1, <1>7, <2>2 DEF IsInjective
  <2>3. CASE i - Len(q) \in 1..Len(r) /\ j - Len(q) \in 1..Len(r)
    <3>1. r[i - Len(q)] = r[j - Len(q)]
      BY <1>1, <1>3, <2>3
    <3>2. i - Len(q) = j - Len(q)
      BY <1>1, <1>7, <2>3, <3>1 DEF IsInjective
    <3> QED
      BY <1>1, <3>2
  <2> QED
    BY <1>1, <1>3, <2>1, <2>2, <2>3
<1> QED
  BY <1>4, <1>5, <1>6, <1>7

\* A part of a list without repetitions has none.
LEMMA WithoutAtOnce ==
  ASSUME NEW S, NEW q \in Seq(S), NEW i \in DOMAIN q, IsInjective(q)
  PROVE  IsInjective(WithoutAt(q, i))
<1> DEFINE a == SubSeq(q, 1, i - 1)
           b == SubSeq(q, i + 1, Len(q))
<1>1. /\ i \in 1..Len(q) /\ Len(q) \in Nat /\ DOMAIN q = 1..Len(q)
      /\ \A k \in 1..Len(q) : q[k] \in S
  BY LenProperties, ElementOfSeq
<1>2. /\ a \in Seq(S) /\ DOMAIN a = 1..(i - 1)
      /\ \A k \in 1..(i - 1) : a[k] = q[k]
  <2>1. /\ a \in Seq(S) /\ Len(a) = i - 1
        /\ \A k \in 1..(i - 1) : a[k] = q[1 + k - 1]
    BY <1>1, SubSeqProperties
  <2> QED
    BY <1>1, <2>1, LenProperties
<1>3. /\ b \in Seq(S) /\ DOMAIN b = 1..(Len(q) - i)
      /\ \A k \in 1..(Len(q) - i) : b[k] = q[i + k]
  <2>1. /\ b \in Seq(S) /\ Len(b) = Len(q) - i
        /\ \A k \in 1..(Len(q) - i) : b[k] = q[(i + 1) + k - 1]
    BY <1>1, SubSeqProperties
  <2>2. \A k \in 1..(Len(q) - i) : (i + 1) + k - 1 = i + k
    BY <1>1
  <2> QED
    BY <1>1, <2>1, <2>2, LenProperties
<1> HIDE DEF a, b
<1>4. IsInjective(a)
  BY <1>1, <1>2 DEF IsInjective
<1>5. IsInjective(b)
  <2>1. \A k \in 1..(Len(q) - i) : i + k \in 1..Len(q)
    BY <1>1
  <2>2. \A k, l \in 1..(Len(q) - i) : i + k = i + l => k = l
    BY <1>1
  <2> QED
    BY <1>1, <1>3, <2>1, <2>2 DEF IsInjective
<1>6. Range(a) \cap Range(b) = {}
  <2>1. \A k \in 1..(i - 1), l \in 1..(Len(q) - i) : k \in 1..Len(q) /\ i + l \in 1..Len(q) /\ k # i + l
    BY <1>1
  <2>2. ASSUME NEW k \in 1..(i - 1), NEW l \in 1..(Len(q) - i)
        PROVE  a[k] # b[l]
    <3>1. a[k] = q[k] /\ b[l] = q[i + l]
      BY <1>2, <1>3
    <3>2. k \in DOMAIN q /\ i + l \in DOMAIN q /\ k # i + l
      BY <1>1, <2>1
    <3> QED
      BY <3>1, <3>2 DEF IsInjective
  <2> QED
    BY <1>2, <1>3, <2>2 DEF Range
<1>7. IsInjective(a \o b)
  BY <1>2, <1>3, <1>4, <1>5, <1>6, ConcatOnce
<1> QED
  BY <1>7 DEF WithoutAt, a, b

\* Removing a message from a list.
LEMMA RemoveApart ==
  ASSUME NEW q \in Seq(Message), NEW r, NEW i \in DOMAIN q, NEW logged, NEW claimed, NEW n
  PROVE  /\ Apart(logged, claimed, q, r, n) => Apart(logged, claimed, WithoutAt(q, i), r, n)
         /\ Apart(logged, claimed, r, q, n) => Apart(logged, claimed, r, WithoutAt(q, i), n)
<1>1. IsInjective(q) => IsInjective(WithoutAt(q, i))
  BY WithoutAtOnce
<1>2. Range(WithoutAt(q, i)) \subseteq Range(q)
  BY WithoutAtRange
<1> QED
  BY <1>1, <1>2 DEF Apart

\* Sending a message that has not been sent.
LEMMA InsertApart ==
  ASSUME NEW q \in Seq(Message), NEW r, NEW n \in Nat, n + 1 \in Message, NEW logged, NEW claimed
  PROVE  /\ Apart(logged, claimed, q, r, n) => Apart(logged, claimed, Append(q, n + 1), r, n + 1)
         /\ Apart(logged, claimed, r, q, n) => Apart(logged, claimed, r, Append(q, n + 1), n + 1)
<1>1. Range(Append(q, n + 1)) = Range(q) \cup {n + 1}
  BY AppendRange
<1>2. IsInjective(q) /\ n + 1 \notin Range(q) => IsInjective(Append(q, n + 1))
  BY AppendOnce
<1>3. n + 1 \notin 1..n /\ 1..n \subseteq 1..(n + 1) /\ n + 1 \in 1..(n + 1)
  OBVIOUS
<1> QED
  BY <1>1, <1>2, <1>3 DEF Apart

\* A cleared list.
LEMMA EmptyOnce == IsInjective(<<>>) /\ Range(<<>>) = {}
  BY EmptyRange DEF IsInjective

\* The batch that is claimed comes out of the lists.
LEMMA ClaimApart ==
  ASSUME NEW turns \in Seq(Message), NEW claimed \in Seq(Message), NEW steps, NEW logged, NEW n
  PROVE  /\ Apart(logged, <<>>, turns, claimed, n) => Apart(logged, claimed, turns, <<>>, n)
         /\ turns # <<>> /\ Apart(logged, claimed, turns, steps, n)
              => Apart(logged, Append(claimed, Head(turns)), Tail(turns), steps, n)
<1>1. Apart(logged, <<>>, turns, claimed, n) => Apart(logged, claimed, turns, <<>>, n)
  BY EmptyOnce DEF Apart
<1>2. ASSUME turns # <<>>, Apart(logged, claimed, turns, steps, n)
      PROVE  Apart(logged, Append(claimed, Head(turns)), Tail(turns), steps, n)
  <2>1. /\ Range(Tail(turns)) \subseteq Range(turns) /\ Head(turns) \in Range(turns)
        /\ Head(turns) \in Message
    BY <1>2, TailRange, HeadTailProperties
  <2>2. IsInjective(Tail(turns)) /\ Head(turns) \notin Range(Tail(turns))
    BY <1>2, TailOnce DEF Apart
  <2>3. IsInjective(Append(claimed, Head(turns)))
    BY <1>2, <2>1, AppendOnce DEF Apart
  <2>4. Range(Append(claimed, Head(turns))) = Range(claimed) \cup {Head(turns)}
    BY <2>1, AppendRange
  <2> QED
    BY <1>2, <2>1, <2>2, <2>3, <2>4 DEF Apart
<1> QED
  BY <1>1, <1>2

\* The claimed batch is committed or dropped.
LEMMA CommitApart ==
  ASSUME NEW logged \in Seq(Message), NEW claimed \in Seq(Message), NEW turns, NEW steps, NEW n,
         Apart(logged, claimed, turns, steps, n)
  PROVE  /\ Apart(logged \o claimed, <<>>, turns, steps, n)
         /\ Apart(logged, <<>>, turns, steps, n)
  BY ConcatOnce, EmptyOnce DEF Apart

\* Every other step leaves the lists alone, and keeps the batch or drops it.
OnceKept ==
    /\ UNCHANGED <<userLog, nextTurnQ, nextStepQ, sent>>
    /\ Held' = Held \/ Held' = <<>>
    /\ pc' \in {"request", "stream", "requestError"} => ~firstAttempt'

LEMMA KeptOnce ==
  ASSUME TypeOK, OnceInv, OnceKept
  PROVE  OnceInv'
<1>1. Held \in Seq(Message) /\ userLog \in Seq(Message)
  BY EmptySeq DEF TypeOK, InboxType, Held
<1>2. Apart(userLog, <<>>, nextTurnQ, nextStepQ, sent)
  BY <1>1, CommitApart DEF OnceInv
<1> QED
  BY <1>2 DEF OnceInv, OnceKept

\* The callers' calls that insert nothing, and the wake of a send.
LEMMA CallsKeep ==
  ASSUME TypeOK, OnceInv, runMaintenance \/ SendWakes \/ ReplayLatch \/ MaintenanceEnds
  PROVE  OnceKept
<1> USE DEF phaseVars, inboxVars, localVars, logVars, historyVars, callVars
<1>1. UNCHANGED <<userLog, nextTurnQ, nextStepQ, sent, batch, firstAttempt>>
  BY DEF runMaintenance, SendWakes, ReplayLatch, MaintenanceEnds
<1>2. pc' = pc \/ pc' = "enter"
  BY DEF runMaintenance, SendWakes, ReplayLatch, MaintenanceEnds, wakeDriver, StartDriver, LatchWake
<1> QED
  BY <1>1, <1>2 DEF OnceKept, OnceInv, Held, Holds

\* The driver between its claim and its commit.
LEMMA DriverKeeps ==
  ASSUME TypeOK, OnceInv, TurnMachine \/ StepMachine, ~claim, ~CommitMessages
  PROVE  OnceKept
<1> USE DEF phaseVars, inboxVars, localVars, logVars, historyVars, callVars, At
<1>1. CASE PreStepDecides \/ StepNotEntered \/ StepEntered \/ prepareRequest \/ CommitSystem \/ Retry
  BY <1>1 DEF PreStepDecides, StepNotEntered, StepEntered, prepareRequest, CommitSystem, Retry, Goto,
      OnceKept, OnceInv, Held, Holds
<1>2. CASE TurnStart \/ TurnNotStarted \/ ClaimFails \/ StepEnd \/ StepEndFails \/ TurnEndFails \/ AfterStep \/ TurnStopping \/ TurnThrows \/ Catch
           \/ TurnEnd \/ NextTurn \/ DriverStops \/ Exit
  BY <1>2 DEF TurnStart, TurnNotStarted, ClaimFails, StepEnd, StepEndFails, TurnEndFails, AfterStep, TurnStopping, TurnThrows, Goto, Catch,
      TurnEnd, NextTurn, DriverStops, Exit, OnceKept, Held, Holds
<1>3. CASE buildRequest \/ StreamCompletes \/ StreamFails \/ StreamThrows \/ ToolsFinish \/ StepThrows
  <2>1. UNCHANGED <<userLog, nextTurnQ, nextStepQ, sent, batch, firstAttempt>>
    BY <1>3 DEF buildRequest, StreamStarts, StreamCompletes, StreamFails, StreamThrows, ToolsFinish,
        StepThrows, StepReturns
  <2>2. pc' \in {"stepEnd", "tools"} \/ (pc \in {"request", "stream"} /\ pc' \in {"stream", "requestError"})
    BY <1>3 DEF buildRequest, StreamStarts, StreamCompletes, StreamFails, StreamThrows, ToolsFinish,
        StepThrows, StepReturns
  <2> QED
    BY <2>1, <2>2 DEF OnceKept, OnceInv, Held, Holds
<1> QED
  BY <1>1, <1>2, <1>3 DEF TurnMachine, StepMachine

\* Every step keeps each message in one place.
LEMMA OnceStep == TypeOK /\ OnceInv /\ [Next]_vars => OnceInv'
<1> SUFFICES ASSUME TypeOK, OnceInv, [Next]_vars PROVE OnceInv'
  OBVIOUS
<1> USE DEF phaseVars, inboxVars, localVars, logVars, historyVars, callVars
<1>0. /\ nextTurnQ \in Seq(Message) /\ nextStepQ \in Seq(Message) /\ sent \in Nat
      /\ batch \in Seq(Message) /\ userLog \in Seq(Message) /\ Held \in Seq(Message)
  BY EmptySeq, BoundsAssumption DEF TypeOK, InboxType, Held
<1>1. ASSUME NEW to \in {"next-turn", "next-step"}, NEW wakeup \in BOOLEAN, Send(to, wakeup)
      PROVE  OnceInv'
  <2>1. sent + 1 \in Message
    BY <1>1, <1>0, BoundsAssumption DEF Send, Message
  <2>2. UNCHANGED <<pc, batch, firstAttempt, userLog>> /\ sent' = sent + 1
    BY <1>1 DEF Send
  <2>3. Held' = Held
    BY <2>2 DEF Held, Holds
  <2>4. \/ nextTurnQ' = Append(nextTurnQ, sent + 1) /\ nextStepQ' = nextStepQ
        \/ nextStepQ' = Append(nextStepQ, sent + 1) /\ nextTurnQ' = nextTurnQ
    BY <1>1 DEF Send, Insert
  <2>5. Apart(userLog, Held, nextTurnQ', nextStepQ', sent + 1)
    BY <1>0, <2>1, <2>4, InsertApart DEF OnceInv
  <2> QED
    BY <2>2, <2>3, <2>5 DEF OnceInv
<1>c. ASSUME UNCHANGED <<pc, batch, firstAttempt, userLog, sent>>,
             nextTurnQ' \in {nextTurnQ, <<>>}, nextStepQ' \in {nextStepQ, <<>>}
      PROVE  OnceInv'
  <2>1. Held' = Held
    BY <1>c DEF Held, Holds
  <2>2. Apart(userLog, Held, nextTurnQ', nextStepQ', sent)
    BY <1>c, EmptyOnce DEF OnceInv, Apart
  <2> QED
    BY <1>c, <2>1, <2>2 DEF OnceInv
<1>2. ASSUME NEW cause \in Causes, NEW keepInbox \in BOOLEAN, cancel(cause, keepInbox)
      PROVE  OnceInv'
  <2>1. UNCHANGED <<pc, batch, firstAttempt, userLog, sent>>
    BY <1>2 DEF cancel
  <2>2. nextTurnQ' \in {nextTurnQ, <<>>} /\ nextStepQ' \in {nextStepQ, <<>>}
    BY <1>2 DEF cancel, CancelEnds, ClearNextStep, ClearNextTurn
  <2> QED
    BY <2>1, <2>2, <1>c
<1>3. CASE Remove
  <2>1. UNCHANGED <<pc, batch, firstAttempt, userLog, sent>>
    BY <1>3 DEF Remove
  <2>2. Held' = Held
    BY <2>1 DEF Held, Holds
  <2>3. Apart(userLog, Held, nextTurnQ', nextStepQ', sent)
    BY <1>3, <1>0, RemoveApart DEF Remove, OnceInv
  <2> QED
    BY <2>1, <2>2, <2>3 DEF OnceInv
<1>4. CASE claim
  <2>1. UNCHANGED <<userLog, sent>> /\ pc' \in {"claiming", "preStep"}
    BY <1>4 DEF claim, ClaimPrompt
  <2>2. Held' = batch'
    BY <2>1 DEF Held, Holds
  <2>3. ASSUME NEW claimed \in Seq(Message), NEW steps, ClaimPrompt(claimed),
               Apart(userLog, claimed, nextTurnQ, steps, sent)
        PROVE  Apart(userLog, batch', nextTurnQ', steps, sent)
    BY <1>0, <2>3, ClaimApart DEF ClaimPrompt, TakesPrompt
  <2>4. CASE pc = "loop"
    <3>1. Held = <<>>
      BY <2>4 DEF Held, Holds
    <3>2. Apart(userLog, nextStepQ, nextTurnQ, <<>>, sent)
      BY <1>0, <3>1, ClaimApart DEF OnceInv
    <3>3. nextStepQ' = <<>> /\ (ClaimPrompt(nextStepQ) \/ (batch' = nextStepQ /\ nextTurnQ' = nextTurnQ))
      BY <1>4, <2>4 DEF claim, At
    <3>4. Apart(userLog, batch', nextTurnQ', nextStepQ', sent)
      BY <1>0, <2>3, <3>2, <3>3
    <3> QED
      BY <2>1, <2>2, <3>4 DEF OnceInv
  <2>5. CASE pc # "loop"
    <3>1. pc = "claiming" /\ ClaimPrompt(batch) /\ nextStepQ' = nextStepQ
      BY <1>4, <2>5 DEF claim, At
    <3>2. Apart(userLog, batch, nextTurnQ, nextStepQ, sent)
      BY <3>1 DEF OnceInv, Held, Holds
    <3>3. Apart(userLog, batch', nextTurnQ', nextStepQ', sent)
      BY <1>0, <2>3, <3>1, <3>2
    <3> QED
      BY <2>1, <2>2, <3>3 DEF OnceInv
  <2> QED
    BY <2>4, <2>5
<1>5. CASE CommitMessages
  <2>1. /\ UNCHANGED <<nextTurnQ, nextStepQ, sent>> /\ pc = "admit" /\ pc' = "request"
        /\ userLog' = userLog \o Admits /\ firstAttempt' = FALSE
    BY <1>5 DEF CommitMessages, At
  <2>2. Admits = Held /\ Held' = <<>>
    BY <2>1 DEF Admits, Held, Holds
  <2>3. Apart(userLog \o Held, <<>>, nextTurnQ, nextStepQ, sent)
    BY <1>0, CommitApart DEF OnceInv
  <2> QED
    BY <2>1, <2>2, <2>3 DEF OnceInv
<1>6. CASE UNCHANGED vars
  BY <1>6, KeptOnce DEF OnceKept, OnceInv, vars, Held, Holds
<1>7. CASE CancelGoesOn
  <2>1. UNCHANGED <<pc, batch, firstAttempt, userLog, sent>>
    BY <1>7 DEF CancelGoesOn
  <2>2. nextTurnQ' \in {nextTurnQ, <<>>} /\ nextStepQ' \in {nextStepQ, <<>>}
    BY <1>7 DEF CancelGoesOn, CancelEnds
  <2> QED
    BY <2>1, <2>2, <1>c
<1> QED
  BY <1>1, <1>2, <1>3, <1>4, <1>5, <1>6, <1>7, CallsKeep, DriverKeeps, KeptOnce DEF Next, Caller, Driver

\* It is what AdmittedOnce needs.
LEMMA OnceAdmitted == OnceInv => AdmittedOnce
<1> SUFFICES ASSUME OnceInv PROVE AdmittedOnce
  OBVIOUS
<1>1. IsInjective(userLog) /\ Range(userLog) \cap Pending = {}
  BY DEF OnceInv, Apart, Pending
<1>2. ASSUME firstAttempt, pc \in {"claiming", "preStep", "decided", "prepare", "commit", "admit"}
      PROVE  Range(userLog) \cap Range(batch) = {}
  BY <1>2 DEF OnceInv, Apart, Held, Holds
<1> QED
  BY <1>1, <1>2 DEF AdmittedOnce

----------------------------------------------------------------------------
(* The theorems.                                                           *)

Inv == TypeOK /\ GrammarInv /\ LiveInv /\ WakeInv /\ OnceInv

\* A fresh agent satisfies the inductive invariant.
LEMMA InvInit == Init => Inv
<1> SUFFICES ASSUME Init PROVE Inv
  OBVIOUS
<1>1. PhaseType /\ DriverType
  BY EmptySeq DEF Init, PhaseType, DriverType, ProgramPoints
<1>2. InboxType
  BY EmptySeq, BoundsAssumption DEF Init, InboxType
<1>3. LogType
  BY DEF Init, LogType, TL!EventTypes
<1>4. GrammarInv
  BY DEF Init, GrammarInv, Boundaries, InTurn, InStep
<1>5. LiveInv
  BY DEF Init, LiveInv
<1>6. WakeInv
  BY EmptyRange DEF Init, WakeInv, Pending
<1>7. OnceInv
  <2>1. /\ userLog = <<>> /\ nextTurnQ = <<>> /\ nextStepQ = <<>> /\ batch = <<>>
        /\ pc = "off"
    BY DEF Init
  <2> QED
    BY <2>1, EmptyOnce DEF OnceInv, Apart, Held, Holds
<1> QED
  BY <1>1, <1>2, <1>3, <1>4, <1>5, <1>6, <1>7 DEF Inv, TypeOK

\* Every step of a caller or of the driver preserves the inductive invariant.
LEMMA InvStep == Inv /\ [Next]_vars => Inv'
  BY StateTypeStep, GrammarStep, LiveStep, WakeStep, OnceStep DEF Inv, TypeOK

\* The inductive invariant holds in every reachable state.
LEMMA InvHolds == Spec => []Inv
<1> QED
  BY InvInit, InvStep, PTL DEF Spec

\* Every variable keeps its type, whatever the bounds.
THEOREM TypeCorrect == Spec => []TypeOK
<1>1. Inv => TypeOK
  BY DEF Inv
<1> QED
  BY <1>1, InvHolds, PTL

\* Until an append of step/end or turn/end is refused, the driver (kick, turn,
\* step) writes only logs that the session companion accepts, however callers,
\* aborts and failures, those of other appends too, interleave with it.
THEOREM LogIsGrammatical == Spec => LogFollowsGrammar
<1>1. Init => TL!Init
  BY DEF Init, TL!Init
<1>2. Inv /\ [Next]_vars => [TL!Next \/ refused]_(TL!trace)
  BY GrammarStep DEF Inv
<1> QED
  BY <1>1, <1>2, InvHolds, PTL DEF Spec, LogFollowsGrammar

\* send's wakes: an idle agent has in its inbox only what nobody promised to
\* deliver (wakeDriver, kick's and runMaintenance's replay).
THEOREM WakesAreKept == Spec => []NoWakeIsLost
<1>1. Inv => NoWakeIsLost
  BY DEF Inv, LiveInv, WakeInv, DriverWillClaim, NoWakeIsLost
<1> QED
  BY <1>1, InvHolds, PTL

\* No message enters the log twice: what was committed is neither pending nor
\* in a batch that a first attempt would still commit, retries included.
THEOREM MessagesAreAdmittedOnce == Spec => []AdmittedOnce
<1>1. Inv => AdmittedOnce
  BY OnceAdmitted DEF Inv
<1> QED
  BY <1>1, InvHolds, PTL

\* Under an aborted signal the driver opens no turn or step, begins no claim
\* and starts no request: every throwIfAborted of agent.ts is in its place.
THEOREM AbortStopsWork == Spec => NoWorkUnderAbort
<1> DEFINE Quiet ==
             /\ log'.openTurn \in {0, log.openTurn}
             /\ log'.openStep \in {0, log.openStep}
             /\ pc' \in {"claiming", "preStep"} => pc \in {"claiming", "preStep"}
             /\ pc' = "stream" => pc = "stream"
<1>1. ASSUME Inv, [Next]_vars, abort # "none"
      PROVE  Quiet
  <2> USE DEF phaseVars, inboxVars, localVars, logVars, historyVars, callVars
  <2>o. ASSUME NEW y \in TL!EventTypes, AppendOther(y)
        PROVE  log'.openTurn = log.openTurn /\ log'.openStep = log.openStep
    BY <1>1, <2>o, AppendOtherFields DEF Inv, TypeOK
  <2>1. CASE Caller
    <3>1. UNCHANGED <<log, pc>>
      BY <2>1 DEF Caller, Send, cancel, CancelEnds, ClearNextStep, ClearNextTurn, Remove, runMaintenance
    <3> QED
      BY <3>1
  <2>2. CASE TurnMachine
    <3>1. CASE TurnEnd
      <4>1. InOpenTurn
        BY <1>1, <3>1 DEF TurnEnd, At, Inv, GrammarInv, InTurn, InOpenTurn
      <4> QED
        BY <1>1, <3>1, <4>1, AppendTurnEndFields DEF TurnEnd, Inv, TypeOK
    <3>2. CASE StepEnd
      <4>1. InOpenStep
        BY <1>1, <3>2 DEF StepEnd, At, Inv, GrammarInv, InTurn, InStep, InOpenStep
      <4> QED
        BY <1>1, <3>2, <4>1, AppendStepEndFields DEF StepEnd, Inv, TypeOK
    <3>3. ~TurnStart /\ ~StepEntered
      BY <1>1 DEF TurnStart, StepEntered
    <3>6. CASE claim
      <4>1. UNCHANGED log /\ pc = "claiming" /\ pc' = "preStep"
        BY <1>1, <3>6 DEF claim, ClaimPrompt, At
      <4> QED
        BY <4>1
    <3>4. CASE TurnNotStarted \/ PreStepDecides \/ StepNotEntered \/ AfterStep \/ TurnStopping
      <4>1. UNCHANGED log /\ pc' \notin {"claiming", "preStep", "stream"}
        BY <3>4 DEF TurnNotStarted, PreStepDecides, StepNotEntered, AfterStep, TurnStopping
      <4> QED
        BY <4>1
    <3>5. CASE TurnThrows \/ Catch \/ NextTurn \/ DriverStops \/ Exit \/ ClaimFails \/ StepEndFails \/ TurnEndFails
      <4>1. UNCHANGED log /\ pc' \notin {"claiming", "preStep", "stream"}
        BY <3>5 DEF TurnThrows, Goto, Catch, NextTurn, DriverStops, Exit, ClaimFails, StepEndFails, TurnEndFails
      <4> QED
        BY <4>1
    <3> QED
      BY <2>2, <3>1, <3>2, <3>3, <3>4, <3>5, <3>6 DEF TurnMachine
  <2>3. CASE StepMachine
    <3>1. pc' \notin {"claiming", "preStep"} /\ (pc' = "stream" => pc = "stream")
      BY <1>1, <2>3 DEF StepMachine, StepReturns, Goto, prepareRequest, CommitSystem, CommitMessages, buildRequest, StreamStarts,
                StreamCompletes, StreamFails, StreamThrows, Retry, ToolsFinish, StepThrows
    <3>2. InOpenStep
      BY <1>1, <2>3 DEF StepMachine, At, prepareRequest, CommitSystem, CommitMessages, buildRequest, StreamCompletes,
                StreamFails, StreamThrows, Retry, ToolsFinish, StepThrows,
                Inv, GrammarInv, InTurn, InStep, InOpenStep
    <3>3. UNCHANGED log \/ \E y \in TL!EventTypes : AppendOther(y)
      BY <2>3, <3>2, AppendInStepMatches DEF StepMachine, StepReturns, Goto, prepareRequest,
                CommitSystem, CommitMessages, buildRequest, StreamStarts,
                LogRequest, StreamCompletes, StreamFails, StreamThrows, Retry, ToolsFinish,
                StepThrows, TL!EventTypes, TL!StepScoped, TL!TurnScoped, TL!Unscoped
    <3> QED
      BY <3>1, <3>3, <2>o
  <2>4. CASE SendWakes \/ CancelGoesOn \/ ReplayLatch \/ MaintenanceEnds
    <3>1. UNCHANGED log /\ (pc' = pc \/ pc' = "enter")
      BY <2>4 DEF SendWakes, CancelGoesOn, ReplayLatch, MaintenanceEnds, wakeDriver, StartDriver, LatchWake
    <3> QED
      BY <3>1
  <2>5. CASE UNCHANGED vars
    BY <2>5 DEF vars
  <2> QED
    BY <1>1, <2>1, <2>2, <2>3, <2>4, <2>5 DEF Next, Driver
<1>2. Inv /\ [Next]_vars => [abort # "none" => Quiet]_vars
  BY <1>1
<1> QED
  BY <1>2, InvHolds, PTL DEF Spec, NoWorkUnderAbort

----------------------------------------------------------------------------
(* How agents come and go: AgentLifecycle.                                 *)

Making == {"idle", "acquiring", "closing"}

Made == {"setup", "storing", "publishing", "failing", "undoing", "live"}

\* Where a creation is says what it has made.
Making_Inv(t) ==
    /\ creation[t] \in Making => machine[t] = "none"
    /\ creation[t] \in Made => machine[t] # "none"
    /\ creation[t] = "idle" => store[t] = "none"
    /\ creation[t] = "acquiring" => store[t] \in {"none", "opening", "open"}
    /\ creation[t] = "closing" => store[t] = "closing"
    /\ machine[t] # "none" => store[t] \in {"none", "open", "closed"}
    /\ creation[t] = "rejected" =>
        IF machine[t] = "none" THEN store[t] \in {"none", "closed", "abandoned", "discarding"}
                               ELSE kind[t] = "create" \/ tear[t] = "done"

\* How far a teardown is says what it has undone.  Only a holder that disposes
\* from inside an append closes an agent whose driver still runs.
Teardown_Inv(t) ==
    /\ tear[t] \in {"closing", "detaching", "unfollowing", "done"} =>
        (machine[t] = "idle" /\ scope[t] = "down") \/ "cancel" \in faults[t]
    /\ "cancel" \in faults[t] => creation[t] = "live"
    /\ tear[t] \in {"detaching", "unfollowing", "done"} => store[t] \in {"none", "closed"}
    /\ tear[t] \in {"unfollowing", "done"} => ~Registered(t)

TxnInv(t) == Making_Inv(t) /\ Teardown_Inv(t)

\* The factory has nothing to wait for.
Out(t) ==
    /\ kind[t] # "create" => Settled(t)
    /\ machine[t] = "none" \/ tear[t] \in {"unfollowing", "done"}

FactoryInv ==
    /\ factory # "up" => \A t \in Txns \ awaits : Out(t)
    /\ (factory = "down" /\ \A t \in Txns : faults[t] = {}) => \A t \in Txns : Out(t)

LifeInv == LifeTypeOK /\ (\A t \in Txns : TxnInv(t)) /\ FactoryInv

\* One transaction is as it was.
Same(t) ==
    /\ kind'[t] = kind[t] /\ creation'[t] = creation[t] /\ store'[t] = store[t] /\ machine'[t] = machine[t]
    /\ scope'[t] = scope[t] /\ session'[t] = session[t] /\ agent'[t] = agent[t]
    /\ tear'[t] = tear[t] /\ faults'[t] = faults[t]

\* The steps of transaction t.
Steps(t) ==
    \/ Begin(t) \/ Creates(t) \/ TearsDown(t) \/ Works(t) \/ CallerAborts(t)
    \/ HolderDisposes(t) \/ DisposeInAppend(t) \/ OwnerUnloads(t)

----------------------------------------------------------------------------
(* Types.                                                                  *)

LEMMA TypeInit == LifeInit => LifeTypeOK
  BY DEF LifeInit, LifeTypeOK, Registered, Entry

LEMMA TypeCreates ==
  ASSUME LifeTypeOK, \A t \in Txns : TxnInv(t), NEW t \in Txns, Begin(t) \/ Creates(t)
  PROVE  LifeTypeOK'
<1> USE DEF LifeTypeOK, Set, Registered, Entry, makingVars, thingVars, tearVars
<1>1. CASE Begin(t)
  BY <1>1 DEF Begin
<1>2. CASE StoreOpens(t) \/ StoreRefuses(t) \/ Discarded(t) \/ AcquireAborts(t)
  BY <1>2 DEF StoreOpens, StoreRefuses, Discarded, AcquireAborts
<1>3. CASE LoadFails(t) \/ GaveUp(t)
  BY <1>3 DEF LoadFails, GaveUp, GivesUp
<1>4. CASE Prepare(t)
  BY <1>4 DEF Prepare, GivesUp
<1>5. CASE SetupEnds(t) \/ SuffixStored(t) \/ RolledBack(t)
  BY <1>5 DEF SetupEnds, SuffixStored, RolledBack
<1>6. CASE Publish(t)
  BY <1>6 DEF Publish, TxnInv, Making_Inv, Made
<1>7. CASE RollBack(t)
  <2>1. byOwner' \in [Txns -> BOOLEAN]
    BY <1>7 DEF RollBack, Disposes
  <2>2. creation' \in [Txns -> {"idle", "acquiring", "closing", "setup", "storing", "publishing",
                         "failing", "undoing", "live", "rejected"}]
    BY <1>7 DEF RollBack
  <2>3. machine[t] # "none"
    BY <1>7 DEF RollBack, TxnInv, Making_Inv, Made
  <2>4. tear' \in [Txns -> {"no", "idling", "closing", "detaching", "unfollowing", "done"}]
        /\ \A u \in Txns : machine[u] = "none" => tear'[u] = "no"
    BY <1>7, <2>3 DEF RollBack, Disposes
  <2> QED
    BY <1>7, <2>1, <2>2, <2>4 DEF RollBack
<1> QED
  BY <1>1, <1>2, <1>3, <1>4, <1>5, <1>6, <1>7 DEF Creates

LEMMA TypeOthers ==
  ASSUME LifeTypeOK, \A t \in Txns : TxnInv(t), NEW t \in Txns,
         \/ TearsDown(t) \/ Works(t) \/ CallerAborts(t)
         \/ HolderDisposes(t) \/ DisposeInAppend(t) \/ OwnerUnloads(t)
  PROVE  LifeTypeOK'
<1> USE DEF LifeTypeOK, Set, Registered, Entry, makingVars, thingVars, tearVars
<1>1. CASE Idled(t)
  BY <1>1 DEF Idled
<1>2. CASE HandleCloses(t)
  BY <1>2 DEF HandleCloses
<1>3. CASE Detach(t)
  BY <1>3 DEF Detach, Gone
<1>4. CASE Unfollowed(t) \/ OwnerUnloaded(t)
  BY <1>4 DEF Unfollowed, OwnerUnloaded
<1>5. CASE Works(t)
  BY <1>5 DEF Works
<1>8. CASE CallerAborts(t)
  <2>1. caller' \in [Txns -> BOOLEAN]
    BY <1>8 DEF CallerAborts
  <2> QED
    BY <1>8, <2>1 DEF CallerAborts
<1>6. CASE HolderDisposes(t)
  <2>1. byOwner' \in [Txns -> BOOLEAN]
    BY <1>6 DEF HolderDisposes, Disposes
  <2>2. machine[t] # "none"
    BY <1>6 DEF HolderDisposes, TxnInv, Making_Inv, Made
  <2>3. /\ tear' \in [Txns -> {"no", "idling", "closing", "detaching", "unfollowing", "done"}]
        /\ \A u \in Txns : machine[u] = "none" => tear'[u] = "no"
    BY <1>6, <2>2 DEF HolderDisposes, Disposes
  <2> QED
    BY <1>6, <2>1, <2>3 DEF HolderDisposes
<1>9. CASE DisposeInAppend(t)
  BY <1>9 DEF DisposeInAppend
<1>7. CASE OwnerUnloads(t)
  <2>1. byOwner' \in [Txns -> BOOLEAN]
    BY <1>7 DEF OwnerUnloads, Disposes
  <2>2. /\ tear' \in [Txns -> {"no", "idling", "closing", "detaching", "unfollowing", "done"}]
        /\ \A u \in Txns : machine[u] = "none" => tear'[u] = "no"
    BY <1>7 DEF OwnerUnloads, Disposes, Lives
  <2>3. owner' \in [Txns -> {"up", "unloading", "down"}]
    <3>1. owner' = [owner EXCEPT ![t] = "unloading"] \/ owner' = [owner EXCEPT ![t] = "down"]
      BY <1>7, Zenon DEF OwnerUnloads
    <3> QED
      BY <3>1
  <2>4. scope' = scope \/ (machine[t] # "none" /\ scope' = [scope EXCEPT ![t] = "down"])
    <3>1. UNCHANGED scope \/ IF Lives(t) THEN Set(scope, t, "down") ELSE UNCHANGED scope
      BY <1>7, Zenon DEF OwnerUnloads
    <3> QED
      BY <3>1 DEF Lives
  <2>5. scope' \in [Txns -> {"none", "up", "down"}]
    BY <2>4
  <2>6. \A u \in Txns : machine[u] = "none" => scope'[u] = "none"
    BY <2>4
  <2>7. UNCHANGED <<kind, creation, caller, store, machine, session, agent, faults, factory, awaits>>
    BY <1>7 DEF OwnerUnloads
  <2> QED
    BY <2>1, <2>2, <2>3, <2>5, <2>6, <2>7
<1> QED
  BY <1>1, <1>2, <1>3, <1>4, <1>5, <1>6, <1>7, <1>8, <1>9 DEF TearsDown

LEMMA TypeFactory ==
  ASSUME LifeTypeOK, FactoryUnloads \/ FactoryUnloaded \/ UNCHANGED lifeVars
  PROVE  LifeTypeOK'
<1> USE DEF LifeTypeOK, Registered, makingVars, thingVars, tearVars
<1>1. CASE FactoryUnloads
  BY <1>1 DEF FactoryUnloads, Owned, Tracked
<1>2. CASE FactoryUnloaded \/ UNCHANGED lifeVars
  BY <1>2 DEF FactoryUnloaded, lifeVars
<1> QED
  BY <1>1, <1>2

----------------------------------------------------------------------------
(* One transaction.                                                        *)

LEMMA InitTxn == LifeInit => \A t \in Txns : TxnInv(t)
  BY DEF LifeInit, TxnInv, Making_Inv, Teardown_Inv, Making, Made

LEMMA SameTxn ==
  ASSUME NEW t \in Txns, TxnInv(t), Same(t)
  PROVE  TxnInv(t)'
  BY DEF Same, TxnInv, Making_Inv, Teardown_Inv, Registered

\* A step of a transaction leaves the others as they are.
LEMMA Others ==
  ASSUME LifeTypeOK, NEW t \in Txns, NEW u \in Txns, t # u, Steps(t)
  PROVE  Same(u)
<1> USE DEF Same, Set, makingVars, thingVars, tearVars
<1>1. CASE Begin(t) \/ StoreOpens(t) \/ StoreRefuses(t) \/ Discarded(t) \/ AcquireAborts(t)
  BY <1>1 DEF Begin, StoreOpens, StoreRefuses, Discarded, AcquireAborts, LifeTypeOK
<1>2. CASE LoadFails(t) \/ GaveUp(t) \/ Prepare(t)
  BY <1>2 DEF LoadFails, GaveUp, Prepare, GivesUp, LifeTypeOK
<1>3. CASE SetupEnds(t) \/ SuffixStored(t) \/ RolledBack(t) \/ RollBack(t)
  BY <1>3 DEF SetupEnds, SuffixStored, RolledBack, RollBack, Disposes, LifeTypeOK
<1>4. CASE Publish(t)
  BY <1>4 DEF Publish, LifeTypeOK
<1>5. CASE TearsDown(t)
  BY <1>5 DEF TearsDown, Idled, HandleCloses, Detach, Unfollowed, OwnerUnloaded, LifeTypeOK
<1>6. CASE Works(t) \/ CallerAborts(t) \/ HolderDisposes(t) \/ DisposeInAppend(t) \/ OwnerUnloads(t)
  BY <1>6 DEF Works, CallerAborts, HolderDisposes, DisposeInAppend, OwnerUnloads, Disposes, LifeTypeOK
<1> QED
  BY <1>1, <1>2, <1>3, <1>4, <1>5, <1>6 DEF Steps, Creates

LEMMA Acquires ==
  ASSUME LifeTypeOK, NEW t \in Txns, TxnInv(t),
         \/ Begin(t) \/ StoreOpens(t) \/ StoreRefuses(t) \/ Discarded(t)
         \/ AcquireAborts(t) \/ LoadFails(t) \/ GaveUp(t) \/ Prepare(t)
  PROVE  TxnInv(t)'
<1> USE DEF LifeTypeOK, TxnInv, Making_Inv, Teardown_Inv, Making, Made, Registered, Set,
            makingVars, thingVars, tearVars
<1>1. CASE Begin(t)
  BY <1>1 DEF Begin
<1>2. CASE StoreOpens(t)
  BY <1>2 DEF StoreOpens
<1>3. CASE StoreRefuses(t)
  BY <1>3 DEF StoreRefuses
<1>4. CASE Discarded(t)
  BY <1>4 DEF Discarded
<1>5. CASE AcquireAborts(t)
  BY <1>5 DEF AcquireAborts
<1>6. CASE LoadFails(t)
  BY <1>6 DEF LoadFails, GivesUp
<1>7. CASE GaveUp(t)
  BY <1>7 DEF GaveUp
<1>8. CASE Prepare(t)
  BY <1>8 DEF Prepare, GivesUp
<1> QED
  BY <1>1, <1>2, <1>3, <1>4, <1>5, <1>6, <1>7, <1>8

LEMMA Publishes ==
  ASSUME LifeTypeOK, NEW t \in Txns, TxnInv(t),
         SetupEnds(t) \/ SuffixStored(t) \/ Publish(t) \/ RolledBack(t) \/ RollBack(t)
  PROVE  TxnInv(t)'
<1> USE DEF LifeTypeOK, TxnInv, Making_Inv, Teardown_Inv, Making, Made, Registered, Set,
            makingVars, thingVars, tearVars
<1>1. CASE SetupEnds(t)
  BY <1>1 DEF SetupEnds
<1>2. CASE SuffixStored(t)
  BY <1>2 DEF SuffixStored
<1>3. CASE Publish(t)
  BY <1>3 DEF Publish, Vetoed
<1>4. CASE RolledBack(t)
  BY <1>4 DEF RolledBack
<1>5. CASE RollBack(t)
  BY <1>5 DEF RollBack, Disposes
<1> QED
  BY <1>1, <1>2, <1>3, <1>4, <1>5

LEMMA Ends ==
  ASSUME LifeTypeOK, NEW t \in Txns, TxnInv(t), TearsDown(t)
  PROVE  TxnInv(t)'
<1> USE DEF LifeTypeOK, TxnInv, Making_Inv, Teardown_Inv, Making, Made, Registered, Set,
            makingVars, thingVars, tearVars
<1>1. CASE Idled(t)
  BY <1>1 DEF Idled, IsIdle
<1>2. CASE HandleCloses(t)
  BY <1>2 DEF HandleCloses
<1>3. CASE Detach(t)
  BY <1>3 DEF Detach, Gone, Entry
<1>4. CASE Unfollowed(t)
  BY <1>4 DEF Unfollowed
<1>5. CASE OwnerUnloaded(t)
  BY <1>5 DEF OwnerUnloaded
<1> QED
  BY <1>1, <1>2, <1>3, <1>4, <1>5 DEF TearsDown

\* The outcomes of the owner's unload that an invariant can see.
LEMMA OwnerUnloadsIs ==
  ASSUME NEW t \in Txns, OwnerUnloads(t)
  PROVE  /\ UNCHANGED <<kind, creation, store, machine, session, agent, faults, factory, awaits>>
         /\ \/ tear[t] = "no" /\ tear' = [tear EXCEPT ![t] = "idling"] /\ UNCHANGED scope
            \/ /\ UNCHANGED tear
               /\ UNCHANGED scope \/ scope' = [scope EXCEPT ![t] = "down"]
<1>1. UNCHANGED <<kind, creation, store, machine, session, agent, faults, factory, awaits>>
  BY DEF OwnerUnloads
<1>2. \/ tear[t] = "no" /\ tear' = [tear EXCEPT ![t] = "idling"] /\ UNCHANGED scope
      \/ /\ UNCHANGED tear
         /\ UNCHANGED scope \/ scope' = [scope EXCEPT ![t] = "down"]
  BY Zenon DEF OwnerUnloads, Disposes, Set
<1> QED
  BY <1>1, <1>2

LEMMA OthersAct ==
  ASSUME LifeTypeOK, NEW t \in Txns, TxnInv(t),
         \/ Works(t) \/ CallerAborts(t) \/ HolderDisposes(t) \/ DisposeInAppend(t)
         \/ OwnerUnloads(t)
  PROVE  TxnInv(t)'
<1> USE DEF LifeTypeOK, TxnInv, Making_Inv, Teardown_Inv, Making, Made, Registered, Set,
            makingVars, thingVars, tearVars
<1>1. CASE Works(t)
  BY <1>1 DEF Works
<1>2. CASE CallerAborts(t)
  <2>1. UNCHANGED <<kind, creation, store, machine, scope, session, agent, tear, faults>>
    BY <1>2 DEF CallerAborts
  <2> QED
    BY <2>1
<1>3. CASE HolderDisposes(t)
  BY <1>3 DEF HolderDisposes, Disposes
<1>4. CASE DisposeInAppend(t)
  BY <1>4 DEF DisposeInAppend
<1>5. CASE OwnerUnloads(t)
  BY <1>5, OwnerUnloadsIs
<1> QED
  BY <1>1, <1>2, <1>3, <1>4, <1>5

LEMMA FactoryTxn ==
  ASSUME LifeTypeOK, NEW t \in Txns, TxnInv(t),
         FactoryUnloads \/ FactoryUnloaded \/ UNCHANGED lifeVars
  PROVE  TxnInv(t)'
<1>1. CASE FactoryUnloads
  BY <1>1 DEF FactoryUnloads, LifeTypeOK, TxnInv, Making_Inv, Teardown_Inv, Registered,
              makingVars, thingVars
<1>2. CASE FactoryUnloaded \/ UNCHANGED lifeVars
  BY <1>2, SameTxn DEF FactoryUnloaded, Same, lifeVars, makingVars, thingVars, tearVars
<1> QED
  BY <1>1, <1>2

LEMMA TxnStep ==
  ASSUME LifeTypeOK, \A t \in Txns : TxnInv(t), LifeNext \/ UNCHANGED lifeVars
  PROVE  \A t \in Txns : TxnInv(t)'
<1> SUFFICES ASSUME NEW u \in Txns PROVE TxnInv(u)'
  OBVIOUS
<1>1. CASE FactoryUnloads \/ FactoryUnloaded \/ UNCHANGED lifeVars
  BY <1>1, FactoryTxn
<1>2. CASE \E t \in Txns : Steps(t)
  <2>1. PICK t \in Txns : Steps(t)
    BY <1>2
  <2>2. CASE t = u
    <3>1. TxnInv(t)
      OBVIOUS
    <3> QED
      BY <2>1, <2>2, <3>1, Acquires, Publishes, Ends, OthersAct DEF Steps, Creates
  <2>3. CASE t # u
    BY <2>1, <2>3, Others, SameTxn
  <2> QED
    BY <2>2, <2>3
<1> QED
  BY <1>1, <1>2 DEF LifeNext, Steps

----------------------------------------------------------------------------
(* The factory.                                                            *)

\* A transaction the factory does not wait for gives it nothing to wait for
\* later: nothing begins and nothing is prepared once the factory unloads.
LEMMA StaysOut ==
  ASSUME LifeTypeOK, NEW t \in Txns, TxnInv(t), factory # "up", Out(t), Steps(t)
  PROVE  Out(t)'
<1> USE DEF LifeTypeOK, TxnInv, Making_Inv, Making, Made, Out, Settled, Set,
            makingVars, thingVars, tearVars
<1>1. CASE Begin(t) \/ StoreOpens(t) \/ StoreRefuses(t) \/ Discarded(t) \/ AcquireAborts(t)
  BY <1>1 DEF Begin, StoreOpens, StoreRefuses, Discarded, AcquireAborts
<1>2. CASE LoadFails(t) \/ GaveUp(t) \/ Prepare(t)
  BY <1>2 DEF LoadFails, GaveUp, Prepare, GivesUp, Active
<1>3. CASE SetupEnds(t) \/ SuffixStored(t) \/ Publish(t) \/ RolledBack(t)
  BY <1>3 DEF SetupEnds, SuffixStored, Publish, RolledBack
<1>4. CASE RollBack(t)
  BY <1>4 DEF RollBack, Disposes
<1>5. CASE TearsDown(t)
  BY <1>5 DEF TearsDown, Idled, HandleCloses, Detach, Unfollowed, OwnerUnloaded
<1>6. CASE Works(t)
  BY <1>6 DEF Works
<1>7. CASE CallerAborts(t) \/ HolderDisposes(t) \/ DisposeInAppend(t)
  BY <1>7 DEF CallerAborts, HolderDisposes, DisposeInAppend, Disposes
<1>8. CASE OwnerUnloads(t)
  BY <1>8, OwnerUnloadsIs
<1> QED
  BY <1>1, <1>2, <1>3, <1>4, <1>5, <1>6, <1>7, <1>8 DEF Steps, Creates

\* What went wrong in a teardown stays, and the factory stays out of it.
LEMMA FaultsStay ==
  ASSUME LifeTypeOK, NEW t \in Txns, Steps(t)
  PROVE  /\ \A u \in Txns : faults[u] \subseteq faults'[u]
         /\ UNCHANGED <<factory, awaits>>
<1> USE DEF LifeTypeOK, Set, makingVars, thingVars, tearVars
<1>1. CASE Begin(t) \/ StoreOpens(t) \/ StoreRefuses(t) \/ Discarded(t) \/ AcquireAborts(t)
  BY <1>1 DEF Begin, StoreOpens, StoreRefuses, Discarded, AcquireAborts
<1>2. CASE LoadFails(t) \/ GaveUp(t) \/ Prepare(t)
  BY <1>2 DEF LoadFails, GaveUp, Prepare
<1>3. CASE SetupEnds(t) \/ SuffixStored(t) \/ Publish(t) \/ RolledBack(t) \/ RollBack(t)
  BY <1>3 DEF SetupEnds, SuffixStored, Publish, RolledBack, RollBack
<1>4. CASE TearsDown(t)
  BY <1>4 DEF TearsDown, Idled, HandleCloses, Detach, Unfollowed, OwnerUnloaded
<1>5. CASE Works(t) \/ CallerAborts(t) \/ HolderDisposes(t)
  <2>1. UNCHANGED <<faults, factory, awaits>>
    BY <1>5 DEF Works, CallerAborts, HolderDisposes
  <2> QED
    BY <2>1
<1>6. CASE DisposeInAppend(t)
  BY <1>6 DEF DisposeInAppend
<1>7. CASE OwnerUnloads(t)
  BY <1>7, OwnerUnloadsIs
<1> QED
  BY <1>1, <1>2, <1>3, <1>4, <1>5, <1>6, <1>7 DEF Steps, Creates

LEMMA SameOut ==
  ASSUME NEW t \in Txns, Same(t), Out(t)
  PROVE  Out(t)'
  BY DEF Same, Out, Settled

LEMMA OutStep ==
  ASSUME LifeTypeOK, \A t \in Txns : TxnInv(t), NEW t \in Txns, Steps(t), factory # "up",
         NEW u \in Txns, Out(u)
  PROVE  Out(u)'
<1>1. CASE t = u
  BY <1>1, StaysOut
<1>2. CASE t # u
  BY <1>2, Others, SameOut
<1> QED
  BY <1>1, <1>2

LEMMA FactoryStep ==
  ASSUME LifeInv, LifeNext \/ UNCHANGED lifeVars
  PROVE  FactoryInv'
<1> USE DEF LifeInv
<1>1. CASE FactoryUnloads
  <2>1. factory' = "waiting" /\ awaits' = Owned /\ UNCHANGED <<kind, creation, machine>>
    BY <1>1 DEF FactoryUnloads, makingVars, thingVars
  <2>2. ASSUME NEW t \in Txns \ Owned PROVE Out(t)'
    <3>1. ~Tracked(t) /\ ~Wrapped(t)
      BY DEF Owned
    <3>2. tear'[t] = tear[t]
      BY <1>1, <3>1 DEF FactoryUnloads
    <3> QED
      BY <2>1, <3>1, <3>2 DEF Out, Tracked, Wrapped, Settled
  <2> QED
    BY <2>1, <2>2 DEF FactoryInv
<1>2. CASE FactoryUnloaded
  <2>1. \A t \in Txns : Same(t)
    BY <1>2 DEF FactoryUnloaded, Same, makingVars, thingVars, tearVars
  <2>2. \A t \in Txns : Out(t) => Out(t)'
    BY <2>1, SameOut
  <2>3. factory = "waiting" /\ awaits' = awaits /\ \A t \in Txns : faults'[t] = faults[t]
    BY <1>2 DEF FactoryUnloaded, tearVars
  <2>4. \A t \in Txns \ awaits : Out(t)
    BY <2>3 DEF FactoryInv
  <2>5. ASSUME \A t \in Txns : faults[t] = {} PROVE \A t \in Txns : Out(t)
    <3>1. \A t \in awaits : (tear[t] = "done" \/ machine[t] = "none") /\ Settled(t)
      BY <1>2, <2>5 DEF FactoryUnloaded, LifeTypeOK
    <3> QED
      BY <2>4, <3>1 DEF Out
  <2> QED
    BY <2>2, <2>3, <2>4, <2>5 DEF FactoryInv
<1>3. CASE UNCHANGED lifeVars
  <2>1. \A t \in Txns : Same(t)
    BY <1>3 DEF lifeVars, Same, makingVars, thingVars, tearVars
  <2>2. \A t \in Txns : Out(t) => Out(t)'
    BY <2>1, SameOut
  <2>3. UNCHANGED <<factory, awaits, faults>>
    BY <1>3 DEF lifeVars, tearVars
  <2> QED
    BY <2>2, <2>3 DEF FactoryInv
<1>4. CASE \E t \in Txns : Steps(t)
  <2>1. PICK t \in Txns : Steps(t)
    BY <1>4
  <2>2. /\ \A u \in Txns : faults[u] \subseteq faults'[u]
        /\ UNCHANGED <<factory, awaits>>
    BY <2>1, FaultsStay
  <2>3. ASSUME factory # "up" PROVE \A u \in Txns : Out(u) => Out(u)'
    BY <2>1, <2>3, OutStep
  <2>4. (\A u \in Txns : faults'[u] = {}) => (\A u \in Txns : faults[u] = {})
    BY <2>2
  <2> QED
    BY <2>2, <2>3, <2>4 DEF FactoryInv
<1> QED
  BY <1>1, <1>2, <1>3, <1>4 DEF LifeNext, Steps

----------------------------------------------------------------------------
(* The theorems.                                                           *)

LEMMA LifeInvInit == LifeInit => LifeInv
  BY TypeInit, InitTxn DEF LifeInv, FactoryInv, LifeInit

LEMMA LifeInvStep == LifeInv /\ [LifeNext]_lifeVars => LifeInv'
<1> SUFFICES ASSUME LifeInv, LifeNext \/ UNCHANGED lifeVars PROVE LifeInv'
  OBVIOUS
<1>1. LifeTypeOK'
  <2>1. CASE FactoryUnloads \/ FactoryUnloaded \/ UNCHANGED lifeVars
    BY <2>1, TypeFactory DEF LifeInv
  <2>2. CASE \E t \in Txns : Steps(t)
    BY <2>2, TypeCreates, TypeOthers DEF LifeInv, Steps
  <2> QED
    BY <2>1, <2>2 DEF LifeNext, Steps
<1>2. (\A t \in Txns : TxnInv(t))'
  BY TxnStep DEF LifeInv
<1>3. FactoryInv'
  BY FactoryStep
<1> QED
  BY <1>1, <1>2, <1>3 DEF LifeInv

\* The bookkeeping of every creation and of the factory's disposal holds in
\* every state, types included.
THEOREM LifeInvAlways == LifeSpec => []LifeInv
  BY LifeInvInit, LifeInvStep, PTL DEF LifeSpec

\* A transaction whose teardown has left the registries, or that rejects,
\* has nothing left.
LEMMA TornDownIsClean ==
  ASSUME LifeTypeOK, NEW t \in Txns, TxnInv(t), machine[t] # "none",
         tear[t] \in {"unfollowing", "done"}, faults[t] = {} \/ creation[t] # "live"
  PROVE  Clean(t)
  BY DEF LifeTypeOK, TxnInv, Making_Inv, Teardown_Inv, Clean, Tracked

LEMMA RejectedClean ==
  ASSUME LifeTypeOK, NEW t \in Txns, TxnInv(t), creation[t] = "rejected", kind[t] # "create"
  PROVE  Clean(t)
<1>1. CASE machine[t] = "none"
  BY <1>1 DEF LifeTypeOK, TxnInv, Making_Inv, Clean, Tracked
<1>2. CASE machine[t] # "none"
  BY <1>2, TornDownIsClean DEF TxnInv, Making_Inv
<1> QED
  BY <1>1, <1>2

\* A createAgent or a resume that rejects has undone everything: no driver,
\* no registration, no scope and no open handle is left, whichever of the
\* abort, the unloads and the failures came first.
THEOREM RejectedAlwaysClean == LifeSpec => []RejectedIsClean
<1>1. LifeInv => RejectedIsClean
  BY RejectedClean DEF LifeInv, RejectedIsClean
<1> QED
  BY <1>1, LifeInvAlways, PTL

\* The factory's disposal ends with every agent it made gone and none to
\* come, unless a teardown failed.
THEOREM FactoryAlwaysDrains == LifeSpec => []FactoryDrains
<1>1. LifeInv => FactoryDrains
  <2> SUFFICES ASSUME LifeInv, factory = "down", \A t \in Txns : faults[t] = {}, NEW t \in Txns
               PROVE  /\ (kind[t] # "create") => (Settled(t) /\ (creation[t] = "idle" \/ Clean(t)))
                      /\ (machine[t] # "none") => Clean(t)
    BY DEF FactoryDrains
  <2>1. Out(t)
    BY DEF LifeInv, FactoryInv
  <2>2. LifeTypeOK /\ TxnInv(t)
    BY DEF LifeInv
  <2>3. machine[t] # "none" => Clean(t)
    BY <2>1, <2>2, TornDownIsClean DEF Out
  <2>4. ASSUME kind[t] # "create" PROVE Settled(t) /\ (creation[t] = "idle" \/ Clean(t))
    <3>1. Settled(t)
      BY <2>1, <2>4 DEF Out
    <3>2. CASE creation[t] = "live"
      BY <2>2, <2>3, <3>1, <3>2 DEF TxnInv, Making_Inv, Made
    <3>3. CASE creation[t] = "rejected"
      BY <2>2, <2>4, <3>1, <3>3, RejectedClean
    <3> QED
      BY <3>1, <3>2, <3>3 DEF Settled
  <2> QED
    BY <2>3, <2>4
<1> QED
  BY <1>1, LifeInvAlways, PTL

=============================================================================
