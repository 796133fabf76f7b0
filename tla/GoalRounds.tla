----------------------------- MODULE GoalRounds -----------------------------
(***************************************************************************)
(* The driver that continues an active goal, one round at a time           *)
(* (packages/goal/goal-round-driver/src/index.ts), with the goal service   *)
(* it mutates and the agent whose inbox it fills.                          *)
(*                                                                         *)
(* The driver is a set of listeners around a serialized pass.  It reserves *)
(* the next round at idle, sends its prompt to the inbox, and fences the   *)
(* step that claims it.  People, the model and other plugins act between   *)
(* any two awaits.  A listener runs inside the step that emits its event,  *)
(* so a handler is a function from the system's state s to the next:       *)
(* s.g is the goal, s.d the driver, s.a the agent.                         *)
(*                                                                         *)
(* The pass is a step of its own: the code enters it at once when none is  *)
(* under way and after the one under way otherwise.                        *)
(*                                                                         *)
(* The driver asks for the agent's status, which is idle in maintenance    *)
(* too: what it sends then waits behind the maintenance, whose end         *)
(* publishes no status.                                                    *)
(***************************************************************************)
EXTENDS Goal, Sequences

CONSTANT MaxEvents      \* bound on what people, the model and the host do

ASSUME EventAssumption == MaxEvents \in Nat

VARIABLES
    goal,               \* the goal of the session
    driver,             \* the driver's state for the agent
    agent,              \* the agent's inbox and turn
    unsaved,            \* whether a checkpoint has covered the revision and the rounds
    events              \* how much has been done from outside

vars == <<goal, driver, agent, unsaved, events>>

None == [kind |-> "none"]
Prompt == [kind |-> "prompt"]
Round(ref, n, id) == [kind |-> "round", ref |-> ref, round |-> n, id |-> id]

NoAttempt == [message |-> None, phase |-> "none", cancelled |-> FALSE, stale |-> FALSE]

FreshDriver == [attempt |-> NoAttempt, competing |-> FALSE, needs |-> FALSE,
                requested |-> FALSE, flushing |-> FALSE, mode |-> "on"]

Init ==
    /\ goal = NoGoal
    /\ driver = FreshDriver
    /\ agent = [inbox |-> <<>>, at |-> "idle", claimed |-> None, aborted |-> FALSE, latched |-> FALSE,
                emptied |-> FALSE]      \* a cancel emptied the inbox under maintenance (history)
    /\ unsaved = [f \in {"ref", "rounds"} |-> "no"]
    /\ events = 0

State == [g |-> goal, d |-> driver, a |-> agent]

Become(s) == goal' = s.g /\ driver' = s.d /\ agent' = s.a

Listens(s) == s.d.mode # "off"

Running(s) == s.a.at \notin {"idle", "maintenance"}

\* The message is a prompt for the round that the driver has reserved: the
\* same goal, revision, round and content, but not always the same message.
Reserved(s, m) ==
    LET n == s.d.attempt.message
    IN  Listens(s) /\ m.kind = "round" /\ n.kind = "round" /\ m.ref = n.ref /\ m.round = n.round

----------------------------------------------------------------------------
(* What the driver does about events.                                      *)

Disarm(s) == IF s.g.broken THEN s ELSE [s EXCEPT !.g.armed = FALSE]

Request(s) == IF s.d.mode = "on" THEN [s EXCEPT !.d.requested = TRUE] ELSE s

Drop(s) == [s EXCEPT !.d.attempt = NoAttempt]

\* agent.cancel: the inbox is discarded unless it is to be kept.
Cancel(s, keep) ==
    LET discards == \E i \in DOMAIN s.a.inbox : Reserved(s, s.a.inbox[i])
        empties == s.a.at = "maintenance" /\ s.a.inbox # <<>>
        cleared == IF keep THEN s
                   ELSE [s EXCEPT !.a.inbox = <<>>, !.a.latched = FALSE, !.a.emptied = @ \/ empties,
                                  !.d.attempt.cancelled = @ \/ discards]
    IN  [cleared EXCEPT !.a.aborted = @ \/ s.a.at # "idle"]

IgnorePause(s) == s                     \* mutant: a pause does not stop the turn

StopTurn(s) == IF Running(s) THEN Cancel(s, TRUE) ELSE s

\* goal/changed, after the goal has changed; a pause from outside the turn
\* also stops the turn.
Changed(s, g, hostPause) ==
    LET new == [s EXCEPT !.g = g, !.d.needs = @ \/ Listens(s)]
    IN  Request(IF Listens(s) /\ hostPause THEN StopTurn(new) ELSE new)

\* A message is appended to the inbox for a turn of its own.
Inserted(s, m) ==
    LET new == [s EXCEPT !.a.inbox = Append(@, m)]
    IN  IF ~Listens(s) \/ Reserved(s, m) THEN new
        ELSE [new EXCEPT !.d.competing = TRUE,
                         !.d.attempt.stale = @ \/ s.d.attempt.phase = "queued"]

\* A turn opens and claims the first message.
Turn(s) ==
    LET m == IF s.a.inbox = <<>> THEN None ELSE Head(s.a.inbox)
        new == [s EXCEPT !.a = [inbox |-> IF m = None THEN <<>> ELSE Tail(s.a.inbox),
                                at |-> "assembling", claimed |-> m,
                                aborted |-> FALSE, latched |-> FALSE, emptied |-> s.a.emptied]]
    IN  IF Reserved(s, m) THEN [new EXCEPT !.d.attempt.phase = "claimed"] ELSE new

\* send with a wakeup: an idle agent starts, maintenance or an aborted turn
\* latches the wake.
Send(s, m) ==
    LET new == Inserted(s, m)
        latches == s.a.at = "maintenance" \/ s.a.aborted
    IN  IF s.a.at = "idle" THEN Turn(new) ELSE [new EXCEPT !.a.latched = @ \/ latches]

\* The status listener pauses the goal whose round was cut off.
CutOff(s) ==
    LET t == s.d.attempt IN
    /\ t # NoAttempt /\ (t.phase \in {"queued", "claimed"} \/ t.cancelled)
    /\ Continues(s.g) /\ t.message.ref = s.g.ref

StillCompeting(s) == s                  \* mutant: the competing prompt is never forgotten

Calm(s) == [s EXCEPT !.d.competing = FALSE]

OnIdle(s) ==
    LET calm == Calm(s)
        paused == Changed(Drop(calm), CHOOSE g \in Pause(s.g) : TRUE, FALSE)
    IN  IF ~Listens(s) THEN s
        ELSE IF s.g.broken THEN calm    \* reading the goal throws
        ELSE Request(IF CutOff(s) THEN paused ELSE calm)

\* The status becomes idle.  Its listeners run before a latched wake is
\* replayed.
GoIdle(s) == OnIdle([s EXCEPT !.a.at = "idle", !.a.claimed = None, !.a.aborted = FALSE,
                              !.a.emptied = FALSE])

\* The latched wake is replayed if the inbox still holds something.
Woken(s) ==
    LET idle == [s EXCEPT !.a.at = "idle", !.a.aborted = FALSE, !.a.latched = FALSE]
    IN  IF s.a.latched /\ s.a.inbox # <<>> THEN Turn(idle) ELSE idle

\* The turn ends.  Only a completed one goes on to the next message.
EndTurn(s, how) ==
    LET stops == IF ~Listens(s) THEN s
                 ELSE CASE how \in {"error", "max-tokens"} -> Disarm(s)
                        [] how = "aborted" ->
                             IF s.d.attempt.phase \in {"claimed", "admitted"}
                             THEN [s EXCEPT !.d.attempt.cancelled = TRUE] ELSE Disarm(s)
                        [] OTHER -> s
    IN  IF how \in {"completed", "max-tokens"} /\ s.a.inbox # <<>> THEN Turn(stops) ELSE GoIdle(stops)

----------------------------------------------------------------------------
(* The pass of the driver.                                                 *)

ReadyToDrive(s) == s.d.mode = "on" /\ ~Running(s) /\ ~s.d.competing

Unchecked(s) == ReadyToDrive(s)         \* mutant: changes during the flush are not looked at

ReadyAfterCheckpoint(s) == ReadyToDrive(s) /\ ~s.d.needs

\* A message of its own, even when one for the same round is still queued.
FreshId(s) ==
    CHOOSE n \in 0 .. Len(s.a.inbox) :
        \A i \in DOMAIN s.a.inbox : s.a.inbox[i].kind = "round" => s.a.inbox[i].id # n

Reserve(s) ==
    LET m == Round(s.g.ref, s.g.rounds + 1, FreshId(s))
    IN  Send([s EXCEPT !.d.attempt = [NoAttempt EXCEPT !.message = m, !.phase = "queued"]], m)

\* What remains of drive() after the checkpoint.
Proceed(s) ==
    IF s.d.attempt # NoAttempt THEN Request([Drop(s) EXCEPT !.d.needs = TRUE])
    ELSE IF ~Continues(s.g) THEN s
    ELSE IF Exhausted(s.g) THEN Changed(s, CHOOSE g \in Block(s.g) : TRUE, FALSE)
    ELSE Reserve(s)

\* A change of the goal, or an admitted round, is not covered by a flush
\* that has begun.
Saves == unsaved' = [f \in {"ref", "rounds"} |-> IF goal'[f] # goal[f] THEN "yes" ELSE unsaved[f]]

Drive ==
    /\ driver.requested /\ driver.mode = "on" /\ ~driver.flushing
    /\ LET s == [State EXCEPT !.d.requested = FALSE] IN
       IF ReadyToDrive(s) /\ s.d.needs
       THEN /\ Become([s EXCEPT !.d.needs = FALSE, !.d.flushing = TRUE])
            /\ unsaved' = [f \in {"ref", "rounds"} |->
                              IF unsaved[f] = "yes" THEN "flushing" ELSE unsaved[f]]
       ELSE /\ Become(IF ReadyToDrive(s) THEN Proceed(s) ELSE s)
            /\ Saves
    /\ UNCHANGED events

Flushed ==
    /\ driver.flushing
    /\ LET s == [State EXCEPT !.d.flushing = FALSE] IN
       \/ /\ Become(IF ReadyAfterCheckpoint(s) THEN Proceed(s) ELSE s)
          /\ unsaved' = [f \in {"ref", "rounds"} |->
                            IF goal'[f] # goal[f] \/ unsaved[f] = "yes" THEN "yes" ELSE "no"]
       \/ /\ Become(Disarm(s))
          /\ unsaved' = [f \in {"ref", "rounds"} |-> IF unsaved[f] = "no" THEN "no" ELSE "yes"]
    /\ UNCHANGED events

----------------------------------------------------------------------------
(* The turn of the agent.                                                  *)

AnyRound(s, m) ==                       \* mutant: the fence does not compare the round
    LET t == s.d.attempt IN
    /\ s.d.mode = "on" /\ Reserved(s, m) /\ t.phase = "claimed" /\ ~t.stale
    /\ Continues(s.g) /\ m.ref = s.g.ref

\* The reservation still owns the exact live revision.
ValidReservation(s, m) ==
    LET t == s.d.attempt IN
    /\ s.d.mode = "on" /\ Reserved(s, m) /\ t.phase = "claimed" /\ ~t.stale
    /\ Continues(s.g) /\ m.ref = s.g.ref /\ m.round = s.g.rounds + 1

\* Reading a broken goal throws: the driver disarms, which throws again.
Refuse(s) == EndTurn(Request(Drop(s)), "blocked")

\* The pre-step listener up to next(), when the claimed message is a round.
Fence(s) ==
    LET m == s.a.claimed IN
    IF ValidReservation(s, m) THEN [s EXCEPT !.a.at = "hooked"]
    ELSE IF Reserved(s, m) THEN Refuse(s)
    ELSE EndTurn(Request(s), "blocked")

Assembled ==
    /\ agent.at = "assembling"
    /\ Become(IF agent.aborted THEN EndTurn(State, "aborted")
              ELSE CASE agent.claimed = None -> EndTurn(State, "empty")
                     [] agent.claimed.kind = "round" /\ Listens(State) -> Fence(State)
                     [] OTHER -> [State EXCEPT !.a.at = "hooked"])
    /\ Saves /\ UNCHANGED events

Fenced == agent.claimed.kind = "round" /\ Listens(State)

\* The other listeners of pre-step let the step in, refuse it, or throw.
Enters ==
    /\ agent.at = "hooked"
    /\ Become(IF agent.aborted THEN EndTurn(State, "aborted")
              ELSE IF ~Fenced \/ ValidReservation(State, agent.claimed)
              THEN [State EXCEPT !.a.at = "entering"] ELSE Refuse(State))
    /\ Saves /\ UNCHANGED events

Vetoed ==
    /\ agent.at = "hooked"
    /\ LET block == Changed(Drop(State), CHOOSE g \in Block(goal) : TRUE, FALSE)
           dropped == IF Continues(goal) /\ agent.claimed.ref = goal.ref THEN block ELSE Drop(State)
       IN  Become(IF agent.aborted THEN EndTurn(State, "aborted")
                  ELSE EndTurn(IF Fenced THEN dropped ELSE State, "blocked"))
    /\ Saves /\ UNCHANGED events

Throws ==
    /\ agent.at = "hooked"
    /\ Become(IF agent.aborted THEN EndTurn(State, "aborted")
              ELSE EndTurn(IF Fenced THEN Request(Drop(State)) ELSE State, "error"))
    /\ Saves /\ UNCHANGED events

\* The request is prepared.  This is the last look at the signal before the
\* message is appended, after one more await.
Prepared ==
    /\ agent.at = "entering" /\ ~agent.aborted
    /\ Become([State EXCEPT !.a.at = "prepared"])
    /\ UNCHANGED <<unsaved, events>>

\* The message reaches the log.  The driver looks for its own by identity.
Admits ==
    /\ agent.at = "prepared"
    /\ LET m == agent.claimed
           s == [State EXCEPT !.a.at = "stepping", !.g = IF m.kind = "round" THEN Entered(@, m) ELSE @]
           own == Listens(s) /\ m.kind = "round" /\ m = s.d.attempt.message
       IN  Become(IF own THEN [s EXCEPT !.d.attempt.phase = "admitted"] ELSE s)
    /\ Saves /\ UNCHANGED events

\* The request, an append or the model fails, or the turn was cancelled.
Fails ==
    /\ agent.at \in {"entering", "prepared", "stepping"}
    /\ Become(EndTurn(State, IF agent.aborted THEN "aborted" ELSE "error"))
    /\ Saves /\ UNCHANGED events

Completes ==
    /\ agent.at = "stepping" /\ ~agent.aborted
    /\ \E how \in {"completed", "max-tokens"} : Become(EndTurn(State, how))
    /\ Saves /\ UNCHANGED events

\* A wake that was latched behind an aborted turn, and the end of
\* maintenance, whose status was idle all along.
Wakes ==
    /\ \/ agent.at = "idle" /\ agent.latched
       \/ agent.at = "maintenance"
    /\ Become(Woken(State))
    /\ UNCHANGED <<unsaved, events>>

----------------------------------------------------------------------------
(* People, the model and the host.                                         *)

Outside == events < MaxEvents /\ events' = events + 1

PersonPrompts ==
    /\ Outside
    /\ Become(Send(State, Prompt))
    /\ Saves

PersonCancels ==
    /\ Outside
    /\ \E keep \in BOOLEAN : Become(Cancel(State, keep))
    /\ Saves

runMaintenance ==
    /\ Outside
    /\ agent.at = "idle"
    /\ agent' = [agent EXCEPT !.at = "maintenance"]
    /\ UNCHANGED <<goal, driver, unsaved>>

\* A person pauses the goal, or changes it in another way.
PersonPauses ==
    /\ Outside
    /\ \E g \in Pause(goal) : Become(Changed(State, g, TRUE))
    /\ Saves

PersonChanges ==
    /\ Outside
    /\ \E g \in Create(goal) \cup Edit(goal) \cup Resume(goal) \cup Complete(goal) \cup Clear(goal) :
        Become(Changed(State, g, FALSE))
    /\ Saves

\* The goal tools: a turn with a person's message may do anything but resume
\* a paused goal, a round of the goal may end it.
ModelMay ==
    CASE agent.claimed.kind = "prompt" ->
            Create(goal) \cup Edit(goal) \cup Pause(goal) \cup Complete(goal) \cup Block(goal)
                \cup (IF goal.phase = "paused" THEN {} ELSE Resume(goal))
      [] agent.claimed.kind = "round" /\ agent.claimed.ref = goal.ref
            /\ agent.claimed.round = goal.rounds -> Complete(goal) \cup Block(goal)
      [] OTHER -> {}

ModelChanges ==
    /\ Outside
    /\ agent.at = "stepping" /\ ~agent.aborted
    /\ \E g \in ModelMay : Become(Changed(State, g, FALSE))
    /\ Saves

\* The driver's plugin unloads, and later loads over the live agent.
Unload ==
    /\ Outside
    /\ driver.mode = "on"
    /\ LET s == [Disarm(State) EXCEPT !.d.mode = "stopping"]
           attempted == driver.attempt # NoAttempt
           stale == [s EXCEPT !.d.attempt.stale = attempted]
       IN  Become(IF attempted /\ Running(s) THEN [Cancel(stale, FALSE) EXCEPT !.d.mode = "draining"]
                  ELSE stale)
    /\ Saves

Unloaded ==
    /\ driver.mode \in {"stopping", "draining"} /\ ~driver.flushing
    /\ driver.mode = "draining" => ~Running(State)
    /\ driver' = [FreshDriver EXCEPT !.mode = "off"]
    /\ UNCHANGED <<goal, agent, unsaved, events>>

Load ==
    /\ Outside
    /\ driver.mode = "off"
    /\ Become(Disarm([State EXCEPT !.d = FreshDriver]))
    /\ Saves

----------------------------------------------------------------------------

AgentSteps ==
    \/ Assembled \/ Enters \/ Vetoed \/ Throws \/ Prepared \/ Admits \/ Fails \/ Completes
    \/ Wakes

Next ==
    \/ Drive \/ Flushed \/ AgentSteps
    \/ PersonPrompts \/ PersonCancels \/ PersonPauses \/ PersonChanges
    \/ ModelChanges \/ runMaintenance
    \/ Unload \/ Unloaded \/ Load

\* Promises settle: the driver's passes, its flushes, the turns and the
\* maintenance jobs go on.
Spec ==
    /\ Init /\ [][Next]_vars
    /\ WF_vars(Drive) /\ WF_vars(Flushed) /\ WF_vars(AgentSteps) /\ WF_vars(Unloaded)

----------------------------------------------------------------------------

TypeOK ==
    /\ goal \in Goals
    /\ driver.attempt.phase \in {"none", "queued", "claimed", "admitted"}
    /\ (driver.attempt.phase = "none") = (driver.attempt.message = None)
    /\ driver.mode \in {"on", "stopping", "draining", "off"}
    /\ agent.at \in {"idle", "maintenance", "assembling", "hooked", "entering", "prepared", "stepping"}
    /\ agent.at \in {"idle", "maintenance"} => agent.claimed = None
    /\ agent.at = "idle" => ~agent.aborted
    /\ goal.armed => goal.phase = "active"

\* A round that the driver has reserved enters history as the next one of its
\* revision or as none: maintenance may leave two prompts for one round in the
\* inbox, and only one of them gets past the fence.
RoundOnce ==
    [][(Admits /\ Reserved(State, agent.claimed) /\ agent.claimed.ref = goal.ref)
            => agent.claimed.round = goal.rounds + 1]_vars

\* The turn of a paused or blocked goal does not get as far as its request,
\* wherever its round stood when the goal was paused.
PauseStops ==
    [][(Prepared /\ Reserved(State, agent.claimed)) => goal.phase \notin {"paused", "blocked"}]_vars

Reserves == driver.attempt = NoAttempt /\ driver'.attempt # NoAttempt

\* A round is reserved only when every change of the goal is stored.
StoredFirst == [][Reserves => unsaved'["ref"] = "no"]_vars

\* What the service commits, whoever asks for it, the strict replay accepts: a
\* change that it refused would end the goal for good at the next restart.
CommitsReplay == [][goal'.ref # goal.ref => Replays(goal, goal')]_vars

\* An armed goal gets on: its rounds run until it completes, is stopped, or
\* reaches its limit, unless a cancel takes what waits behind maintenance.
GoalEnds == []<>(~(Continues(goal) /\ driver.mode = "on") \/ agent.emptied)

\* What the driver's README says of its fences: a stale prompt is rejected
\* before its step enters.  A stale round would fail the replay for good.
RoundsReplay == ~goal.broken

\* What the driver's README says of an idle agent with an armed goal: it is
\* given a round, without exception.
GoalGoesOn == []<>~(Continues(goal) /\ driver.mode = "on")

\* What a test of the driver says: the next round is reserved only when the
\* one before it is stored.
RoundStoredFirst == [][Reserves => unsaved'["rounds"] = "no"]_vars

\* What the driver's README says of unloading it: no later round starts.
UnloadStops == [][(Admits /\ agent.claimed.kind = "round") => driver.mode # "off"]_vars

=============================================================================
