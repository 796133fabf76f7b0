------------------------------- MODULE TurnLog -------------------------------
(***************************************************************************)
(* The grammar of a session log: what packages/core/session/src/invariant  *)
(* .ts accepts, event by event.  A log is abstracted to the trace that the *)
(* companion keeps (open turn and step, the next numbers, the calls that   *)
(* still wait for a result) and the type of its last event.  The other     *)
(* modules show that the code which writes the log obeys this grammar.     *)
(***************************************************************************)
EXTENDS Naturals

CONSTANT Calls          \* the identities of tool calls

VARIABLES
    openTurn,           \* the open turn, 0 when there is none (null)
    openStep,           \* the open step, 0 when there is none
    nextTurn,           \* the only number turn/start may carry
    nextStep,           \* the only number step/start may carry
    pendingCalls,       \* calls of the open step that wait for a result
    last                \* the type of the last event

trace == <<openTurn, openStep, nextTurn, nextStep, pendingCalls, last>>

\* "tool/rewrite" is a tool/result that replaces the content of an earlier one.
StepScoped == {"assistant/attempt", "assistant/message", "system/message"}
TurnScoped == {"request/header", "request/context", "tool/rewrite"}
Unscoped   == {"user/message", "session/end-seed", "other"}
EventTypes ==
    {"none", "turn/start", "turn/end", "step/start", "step/end",
     "tool/call", "tool/result", "tool/not-started"} \cup StepScoped \cup TurnScoped \cup Unscoped

TypeOK ==
    /\ openTurn \in Nat /\ openStep \in Nat
    /\ nextTurn \in Nat \ {0} /\ nextStep \in Nat \ {0}
    /\ pendingCalls \subseteq Calls
    /\ last \in EventTypes

Init ==
    /\ openTurn = 0 /\ openStep = 0
    /\ nextTurn = 1 /\ nextStep = 1
    /\ pendingCalls = {}
    /\ last = "none"

TurnStart ==
    /\ openTurn = 0
    /\ openTurn' = nextTurn
    /\ nextStep' = 1
    /\ last' = "turn/start"
    /\ UNCHANGED <<openStep, nextTurn, pendingCalls>>

TurnEnd ==
    /\ openTurn # 0 /\ openStep = 0
    /\ openTurn' = 0
    /\ nextTurn' = nextTurn + 1
    /\ last' = "turn/end"
    /\ UNCHANGED <<openStep, nextStep, pendingCalls>>

StepStart ==
    /\ openTurn # 0 /\ openStep = 0
    /\ openStep' = nextStep
    /\ last' = "step/start"
    /\ UNCHANGED <<openTurn, nextTurn, nextStep, pendingCalls>>

StepEnd ==
    /\ openTurn # 0 /\ openStep # 0
    /\ openStep' = 0
    /\ nextStep' = nextStep + 1
    /\ pendingCalls' = {}
    /\ last' = "step/end"
    /\ UNCHANGED <<openTurn, nextTurn>>

ToolCall(c) ==
    /\ openTurn # 0 /\ openStep # 0
    /\ pendingCalls' = pendingCalls \cup {c}
    /\ last' = "tool/call"
    /\ UNCHANGED <<openTurn, openStep, nextTurn, nextStep>>

\* A result answers a recorded call, unless it carries the code that crash
\* repair gives to a call that was never recorded as started.
ToolResult(c) ==
    /\ openTurn # 0 /\ openStep # 0
    /\ \/ c \in pendingCalls /\ last' = "tool/result"
       \/ last' = "tool/not-started"
    /\ pendingCalls' = pendingCalls \ {c}
    /\ UNCHANGED <<openTurn, openStep, nextTurn, nextStep>>

Event(type) ==
    /\ type \in StepScoped => openTurn # 0 /\ openStep # 0
    /\ type \in TurnScoped => openTurn # 0
    /\ last' = type
    /\ UNCHANGED <<openTurn, openStep, nextTurn, nextStep, pendingCalls>>

Next ==
    \/ TurnStart \/ TurnEnd \/ StepStart \/ StepEnd
    \/ \E c \in Calls : ToolCall(c) \/ ToolResult(c)
    \/ \E type \in StepScoped \cup TurnScoped \cup Unscoped : Event(type)

Spec == Init /\ [][Next]_trace
=============================================================================
