--------------------------- MODULE InboxRecovery ---------------------------
(***************************************************************************)
(* The inbox of an agent whose process crashes: callers splice it, the     *)
(* driver claims from it and admits what it claimed                        *)
(* (packages/core/agent-loop/src/agent.ts), the events reach storage       *)
(* behind both and in order, and a resume reads them back, closes the turn *)
(* a crash left open, and goes on.                                         *)
(*                                                                         *)
(* CrashRecovery has the same turns with their tool calls, which do not    *)
(* touch the inbox; here the steps are empty.  The stored log is kept as   *)
(* what its readers make of it: the inbox projection, the account of       *)
(* consumed work, the scan of repair.ts and the last turn.                 *)
(***************************************************************************)
EXTENDS Inbox, ConsumedWork

CONSTANTS
    MaxMessages,        \* bound: messages ever sent
    MaxTurns, MaxSteps, \* bounds: turns ever opened, steps of a turn
    MaxCrashes          \* bound: how often the process dies

ASSUME BoundsAssumption ==
    MaxMessages \in Nat /\ MaxTurns \in Nat /\ MaxSteps \in Nat /\ MaxCrashes \in Nat

Message == 1..MaxMessages

VARIABLES
    \* the stored log
    inbox,              \* the inbox projection
    work,               \* foldConsumedWork
    scan,               \* the open turn and step, as repair.ts finds them
    lastTurn,           \* turnBoundary.lastTurn
    \* the process
    mode,               \* "live", "down", or "repairing" in resumeWith
    closers,            \* repair events that are still to be stored
    buffered,           \* live events that are not stored yet
    live,               \* the inbox projection of the live log
    pc, turn, step,     \* the driver
    batch,              \* what it has claimed and not admitted
    \* history
    crashes,
    sent,               \* how many messages were sent
    waived,             \* messages that a hook has rewritten away
    admitted,           \* how often each message is stored as a user message
    taken,              \* stored claims whose turn has not accounted for them
    unreadable          \* whether the inbox projection has refused an event

storedVars  == <<inbox, work, scan, lastTurn, admitted, taken, unreadable>>
driverVars  == <<pc, turn, step, batch>>
historyVars == <<crashes, sent, waived>>
vars == <<storedVars, mode, closers, buffered, live, driverVars, historyVars>>

\* arg is a message, the splice of an inbox event, or how a turn ended.
Event(type, t, arg) == [type |-> type, turn |-> t, arg |-> arg]

Completed == 0
CutShort  == 1          \* blocked, aborted, failed or interrupted

InboxEvent(s) == Event("agent/inbox/spliced", 0, s)

IsSplice(e) == e.type = "agent/inbox/spliced"
IsClaim(e)  == IsSplice(e) /\ e.arg.removed > 0 /\ ~e.arg.canceled

----------------------------------------------------------------------------
(* The readers of the log, one event at a time.                            *)

Scanned(s, e) ==
    CASE e.type = "turn/start" -> [turn |-> e.turn, step |-> FALSE]
      [] e.type = "turn/end"   -> [turn |-> 0, step |-> FALSE]
      [] e.type = "step/start" -> [s EXCEPT !.step = TRUE]
      [] e.type = "step/end"   -> [s EXCEPT !.step = FALSE]
      [] OTHER -> s

ClosersCompleted(s) ==          \* mutant: the closed turn looks completed
    IF s.turn = 0 THEN <<>>
    ELSE (IF s.step THEN <<Event("step/end", s.turn, 0)>> ELSE <<>>)
             \o <<Event("turn/end", s.turn, Completed)>>

Closers(s) ==
    IF s.turn = 0 THEN <<>>
    ELSE (IF s.step THEN <<Event("step/end", s.turn, 0)>> ELSE <<>>)
             \o <<Event("turn/end", s.turn, CutShort)>>

Worked(w, e) ==
    CASE e.type = "turn/start" -> [w EXCEPT !.open = e.turn]
      [] e.type = "step/start" -> [w EXCEPT !.stepped = @ \cup {e.turn}]
      [] e.type = "turn/end"   -> WithTurnEnd(w, e.turn, e.arg = Completed)
      [] IsSplice(e)           -> WithSplice(w, e.arg)
      [] OTHER -> w

\* History: a claim owes an account until foldConsumedWork takes the end of
\* its turn for one.
Taken(e) ==
    IF IsClaim(e)
    THEN taken \cup {<<m, work.open>> : m \in Waiting(inbox) \ Waiting(Applied(inbox, e.arg))}
    ELSE {t \in taken : work'.end = work.end \/ t[2] # work'.end}

Store(e) ==
    /\ inbox' = IF IsSplice(e) THEN Applied(inbox, e.arg) ELSE inbox
    /\ unreadable' = (unreadable \/ (IsSplice(e) /\ ~Accepts(inbox, e.arg)))
    /\ work' = Worked(work, e)
    /\ scan' = Scanned(scan, e)
    /\ lastTurn' = IF e.type = "turn/start" THEN e.turn ELSE lastTurn
    /\ taken' = Taken(e)
    /\ admitted' = IF e.type = "user/message" THEN [admitted EXCEPT ![e.arg] = @ + 1] ELSE admitted

Init ==
    /\ inbox = EmptyInbox /\ work = NothingConsumed
    /\ scan = [turn |-> 0, step |-> FALSE] /\ lastTurn = 0
    /\ mode = "live" /\ closers = <<>> /\ buffered = <<>> /\ live = EmptyInbox
    /\ pc = "idle" /\ turn = 0 /\ step = 0 /\ batch = <<>>
    /\ crashes = 0 /\ sent = 0 /\ waived = {}
    /\ admitted = [m \in Message |-> 0] /\ taken = {} /\ unreadable = FALSE

----------------------------------------------------------------------------
(* Each append goes to the live log and the write buffer.                  *)

At(l) == mode = "live" /\ pc = l

AppendsAll(events) ==
    /\ buffered' = buffered \o events
    /\ UNCHANGED <<storedVars, mode, closers, crashes>>

Appends(e) == AppendsAll(<<e>>) /\ UNCHANGED live

Mutates(splices) ==
    /\ AppendsAll([i \in DOMAIN splices |-> InboxEvent(splices[i])])
    /\ live' = FoldLeft(Applied, live, splices)

\* sessions.flush has returned: what the driver had logged when it called is
\* stored.  Callers may have spliced the inbox since.
Flushed == \A i \in DOMAIN buffered : IsSplice(buffered[i]) /\ ~IsClaim(buffered[i])

----------------------------------------------------------------------------
(* The callers.  A message that is pending is refused when it is sent      *)
(* again; once it has left, nobody sends it again.                         *)

Inserts(m) == IF m = 0 THEN <<>> ELSE <<m>>

\* send, append, prepend, replace and remove are splices.
Requests ==
    {Spliced(live, target, start, count, Inserts(m)) :
        target \in Targets, start \in -1..MaxMessages, count \in 0..MaxMessages,
        m \in {k \in 0..MaxMessages : k <= sent + 1}}

SentOnce(s) ==
    \A m \in ToSet(s.inserted) :
        m <= sent => m \in Waiting(Applied(live, [s EXCEPT !.inserted = <<>>]))

RefusedNever(s) == FALSE        \* mutant: a message may be pending twice

Refused(s) == ~IsUnique(Applied(live, s))

Splices ==
    /\ mode = "live"
    /\ \E s \in Requests :
           /\ ~ChangesNothing(s) /\ SentOnce(s) /\ ~Refused(s)
           /\ Mutates(<<s>>)
           /\ sent' = IF \E m \in ToSet(s.inserted) : m > sent THEN sent + 1 ELSE sent
    /\ UNCHANGED <<driverVars, waived>>

Clears ==
    /\ mode = "live" /\ Cleared(live) # <<>>
    /\ Mutates(Cleared(live))
    /\ UNCHANGED <<driverVars, sent, waived>>

----------------------------------------------------------------------------
(* The driver, with its decisions left open.                               *)

TurnStart ==
    /\ At("idle") /\ turn < MaxTurns
    /\ Appends(Event("turn/start", turn + 1, 0))
    /\ turn' = turn + 1 /\ step' = 0
    /\ pc' = "boundary"
    /\ UNCHANGED <<batch, sent, waived>>

Target == IF step = 0 THEN "next-turn" ELSE "next-step"

\* preStep claims, and then asks the hooks.
Claim ==
    /\ At("boundary")
    /\ Mutates(Claims(live, Target))
    /\ batch' = Claimed(live, Target)
    /\ pc' = "claimed"
    /\ UNCHANGED <<turn, step, sent, waived>>

\* agent/pre-step flushes before a step is entered.
StepStart ==
    /\ At("claimed") /\ step < MaxSteps
    /\ Flushed
    /\ Appends(Event("step/start", turn, 0))
    /\ step' = step + 1
    /\ pc' = "request"
    /\ UNCHANGED <<turn, batch, sent, waived>>

\* The first attempt admits what was claimed, once its request is prepared.
Admit ==
    /\ At("request")
    /\ AppendsAll([i \in DOMAIN batch |-> Event("user/message", 0, batch[i])])
    /\ batch' = <<>>
    /\ pc' = "streaming"
    /\ UNCHANGED <<live, turn, step, sent, waived>>

StepEnd ==
    /\ At("request") \/ At("streaming")
    /\ Appends(Event("step/end", turn, 0))
    /\ batch' = <<>>
    /\ pc' = "boundary"
    /\ UNCHANGED <<turn, step, sent, waived>>

Ends(reason) ==
    /\ Appends(Event("turn/end", turn, reason))
    /\ batch' = <<>>
    /\ pc' = "idle"
    /\ UNCHANGED <<turn, step, sent>>

\* A turn is rejected, aborted or failed, or has nothing more to do.
TurnEnd ==
    /\ At("boundary") \/ At("claimed")
    /\ Ends(CutShort) \/ (step > 0 /\ Ends(Completed))
    /\ UNCHANGED waived

\* Nothing was claimed for the first step, or a hook has made nothing of it.
NoOpTurnEnd ==
    /\ At("claimed") /\ step = 0
    /\ Ends(Completed)
    /\ waived' = waived \cup ToSet(batch)

----------------------------------------------------------------------------
(* Storage, the crash, and the resume.                                     *)

Drain ==
    /\ mode = "live" /\ buffered # <<>>
    /\ Store(Head(buffered))
    /\ buffered' = Tail(buffered)
    /\ UNCHANGED <<mode, closers, live, driverVars, historyVars>>

Crash ==
    /\ mode # "down" /\ crashes < MaxCrashes
    /\ crashes' = crashes + 1
    /\ mode' = "down"
    /\ buffered' = <<>> /\ closers' = <<>> /\ live' = EmptyInbox
    /\ pc' = "idle" /\ turn' = 0 /\ step' = 0 /\ batch' = <<>>
    /\ UNCHANGED <<storedVars, sent, waived>>

OpenStored ==
    /\ mode = "down"
    /\ mode' = "repairing"
    /\ closers' = Closers(scan)
    /\ UNCHANGED <<storedVars, buffered, live, driverVars, historyVars>>

StoreCloser ==
    /\ mode = "repairing" /\ closers # <<>>
    /\ Store(Head(closers))
    /\ closers' = Tail(closers)
    /\ UNCHANGED <<mode, buffered, live, driverVars, historyVars>>

Resume ==
    /\ mode = "repairing" /\ closers = <<>>
    /\ mode' = "live"
    /\ turn' = lastTurn /\ live' = inbox
    /\ UNCHANGED <<storedVars, closers, buffered, pc, step, batch, historyVars>>

----------------------------------------------------------------------------
Driver == TurnStart \/ Claim \/ StepStart \/ Admit \/ StepEnd \/ TurnEnd \/ NoOpTurnEnd

Next ==
    \/ Splices \/ Clears \/ Driver
    \/ Drain \/ Crash \/ OpenStored \/ StoreCloser \/ Resume

Spec == Init /\ [][Next]_vars

----------------------------------------------------------------------------
\* Whatever positions callers ask for and wherever a crash cuts the log, the
\* strict inbox projection accepts every stored splice (a refusal would leave
\* a session that cannot be opened), and what a crash leaves is at most one of
\* pending and admitted, once: no message is delivered twice.
InboxIsReadable ==
    /\ ~unreadable
    /\ \A m \in Message : admitted[m] + (IF m \in Waiting(inbox) THEN 1 ELSE 0) <= 1

\* A claim is stored before its messages are admitted: a crash in between
\* takes them out of the inbox for good.  No turn is closed, by its driver or
\* by the repair, without an account of what it took, unless a hook gave it up.
ClaimIsAccounted ==
    scan.turn = 0 => \A t \in taken : t[1] \in waived

=============================================================================
