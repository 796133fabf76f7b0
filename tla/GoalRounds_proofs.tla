-------------------------- MODULE GoalRounds_proofs --------------------------
(***************************************************************************)
(* Theorems about the goal and the driver of its rounds, for every cap on  *)
(* rounds and every number of prompts, cancellations, changes, maintenance *)
(* jobs, unloads and loads: what is committed replays, a pause stops the   *)
(* round, a round enters history once, and it is reserved only when every  *)
(* change of the goal is stored.                                           *)
(*                                                                         *)
(* A handler is a function from a state record to the next, so there is a  *)
(* lemma per handler on what it does to the goal and where it leaves the   *)
(* agent, and one per action on top of them (Inv).  The last part does the *)
(* same for what the driver relies on when it reserves (Calmer).           *)
(***************************************************************************)
EXTENDS GoalRounds, TLAPS

GoalOK(g) == g \in Goals /\ (g.armed => g.phase = "active")

\* h is g, or g disarmed.
SameButArmed(g, h) ==
    /\ h.phase = g.phase /\ h.ref = g.ref /\ h.rounds = g.rounds /\ h.limit = g.limit
    /\ h.op = g.op /\ h.broken = g.broken /\ (h.armed => g.armed)

Leads(g, h) == GoalOK(h) /\ (SameButArmed(g, h) \/ Replays(g, h))

Places == {"idle", "maintenance", "assembling", "hooked", "entering", "prepared", "stepping"}

\* An attempt is none, or for a round of a revision up to ref.
AttemptOK(t, ref) ==
    /\ DOMAIN t = {"message", "phase", "cancelled", "stale"}
    /\ t.phase \in {"none", "queued", "claimed", "admitted"}
    /\ \/ t.message = None /\ t.phase = "none"
       \/ /\ t.message.kind = "round" /\ t.phase # "none"
          /\ t.message.ref \in Nat /\ t.message.ref <= ref

AgentOK(a) ==
    /\ DOMAIN a = {"inbox", "at", "claimed", "aborted", "latched", "emptied"}
    /\ a.at \in Places
    /\ a.at \in {"idle", "maintenance"} => a.claimed = None
    /\ a.at = "idle" => ~a.aborted

IsState(s) ==
    /\ DOMAIN s = {"g", "d", "a"}
    /\ DOMAIN s.d = {"attempt", "competing", "needs", "requested", "flushing", "mode"}
    /\ s.d.mode \in {"on", "stopping", "draining", "off"}
    /\ AttemptOK(s.d.attempt, s.g.ref)
    /\ AgentOK(s.a)

\* A reserved round that is past the fence, and may still be admitted, belongs
\* to a goal that is not stopped, and is the next of its revision.
PastFence(s) ==
    Reserved(s, s.a.claimed) =>
        /\ s.a.at = "entering" /\ ~s.a.aborted => s.g.phase \notin {"paused", "blocked"}
        /\ s.a.at \in {"entering", "prepared"} /\ s.a.claimed.ref = s.g.ref
               => s.a.claimed.round = s.g.rounds + 1

Outcome(g, t) == IsState(t) /\ Leads(g, t.g) /\ PastFence(t)

Inv == GoalOK(goal) /\ IsState(State) /\ PastFence(State)

----------------------------------------------------------------------------
(* The mutations.                                                          *)

LEMMA Names ==
    /\ "create" \in Operations /\ "edit" \in Operations /\ "pause" \in Operations
    /\ "resume" \in Operations /\ "complete" \in Operations /\ "block" \in Operations
    /\ "clear" \in Operations
    /\ "none" \in Phases /\ "active" \in Phases /\ "paused" \in Phases /\ "blocked" \in Phases
    /\ "complete" \in Phases
  BY DEF Operations, Phases

\* A revision replaces four fields.
LEMMA RevisedArmed ==
  ASSUME NEW g \in Goals, NEW op \in Operations, NEW phase \in Phases
  PROVE  LET h == Revised(g, op, phase, TRUE) IN
         /\ h \in Goals /\ h.ref = g.ref + 1 /\ h.op = op /\ h.phase = phase /\ h.armed
         /\ h.rounds = g.rounds /\ h.limit = g.limit
<1> DEFINE r1 == [g EXCEPT !.ref = g.ref + 1]
           ro == [r1 EXCEPT !.op = op]
           r2 == [ro EXCEPT !.phase = phase]
           r3 == [r2 EXCEPT !.armed = TRUE]
<1>1. r1 \in Goals
  BY DEF Goals
<1> HIDE DEF r1
<1>6. ro \in Goals
  BY <1>1 DEF Goals
<1> HIDE DEF ro
<1>2. r2 \in Goals
  BY <1>6 DEF Goals
<1> HIDE DEF r2
<1>3. r3 \in Goals
  BY <1>2 DEF Goals
<1>4. Revised(g, op, phase, TRUE) = r3
  BY DEF Revised, r1, ro, r2
<1>5. LET h == Revised(g, op, phase, TRUE) IN
      /\ h.ref = g.ref + 1 /\ h.op = op /\ h.phase = phase /\ h.armed
      /\ h.rounds = g.rounds /\ h.limit = g.limit
  BY DEF Revised, Goals
<1> QED
  BY <1>3, <1>4, <1>5

LEMMA RevisedDisarmed ==
  ASSUME NEW g \in Goals, NEW op \in Operations, NEW phase \in Phases
  PROVE  LET h == Revised(g, op, phase, FALSE) IN
         /\ h \in Goals /\ h.ref = g.ref + 1 /\ h.op = op /\ h.phase = phase /\ ~h.armed
         /\ h.rounds = g.rounds /\ h.limit = g.limit
<1> DEFINE r1 == [g EXCEPT !.ref = g.ref + 1]
           ro == [r1 EXCEPT !.op = op]
           r2 == [ro EXCEPT !.phase = phase]
           r3 == [r2 EXCEPT !.armed = FALSE]
<1>1. r1 \in Goals
  BY DEF Goals
<1> HIDE DEF r1
<1>6. ro \in Goals
  BY <1>1 DEF Goals
<1> HIDE DEF ro
<1>2. r2 \in Goals
  BY <1>6 DEF Goals
<1> HIDE DEF r2
<1>3. r3 \in Goals
  BY <1>2 DEF Goals
<1>4. Revised(g, op, phase, FALSE) = r3
  BY DEF Revised, r1, ro, r2
<1>5. LET h == Revised(g, op, phase, FALSE) IN
      /\ h.ref = g.ref + 1 /\ h.op = op /\ h.phase = phase /\ ~h.armed
      /\ h.rounds = g.rounds /\ h.limit = g.limit
  BY DEF Revised, Goals
<1> QED
  BY <1>3, <1>4, <1>5

LEMMA RevisedKept ==
  ASSUME NEW g \in Goals, NEW op \in Operations, NEW phase \in Phases, NEW armed \in BOOLEAN
  PROVE  LET h == Revised(g, op, phase, armed) IN
         /\ h \in Goals /\ h.ref = g.ref + 1 /\ h.op = op /\ h.phase = phase /\ h.armed = armed
         /\ h.rounds = g.rounds /\ h.limit = g.limit
<1> DEFINE r1 == [g EXCEPT !.ref = g.ref + 1]
           ro == [r1 EXCEPT !.op = op]
           r2 == [ro EXCEPT !.phase = phase]
           r3 == [r2 EXCEPT !.armed = armed]
<1>1. r1 \in Goals
  BY DEF Goals
<1> HIDE DEF r1
<1>6. ro \in Goals
  BY <1>1 DEF Goals
<1> HIDE DEF ro
<1>2. r2 \in Goals
  BY <1>6 DEF Goals
<1> HIDE DEF r2
<1>3. r3 \in Goals
  BY <1>2 DEF Goals
<1>4. Revised(g, op, phase, armed) = r3
  BY DEF Revised, r1, ro, r2
<1>5. LET h == Revised(g, op, phase, armed) IN
      /\ h.ref = g.ref + 1 /\ h.op = op /\ h.phase = phase /\ h.armed = armed
      /\ h.rounds = g.rounds /\ h.limit = g.limit
  BY DEF Revised, Goals
<1> QED
  BY <1>3, <1>4, <1>5

\* create, edit and clear replace another one.
LEMMA CreateIs ==
  ASSUME NEW g \in Goals, NEW h \in Create(g)
  PROVE  /\ h \in Goals /\ h.ref = g.ref + 1 /\ h.op = "create" /\ h.phase = "active" /\ h.rounds = 0
         /\ g.phase \in {"none", "complete"}
<1> DEFINE r == Revised(g, "create", "active", TRUE)
<1>0. "create" \in Operations /\ "active" \in Phases
  BY Names
<1>1. r \in Goals /\ r.ref = g.ref + 1 /\ r.op = "create" /\ r.phase = "active"
  BY ONLY <1>0, g \in Goals, RevisedArmed
<1>2. PICK n \in 1..MaxLimit : h = [r EXCEPT !.rounds = 0, !.limit = n] /\ Accepts(g, {"none", "complete"})
  BY DEF Create
<1> HIDE DEF r
<1>3. [r EXCEPT !.rounds = 0] \in Goals
  BY <1>1, LimitAssumption DEF Goals
<1>4. h \in Goals
  BY <1>2, <1>3 DEF Goals
<1> QED
  BY <1>1, <1>2, <1>4, LimitAssumption DEF Goals, Accepts

LEMMA EditIs ==
  ASSUME NEW g \in Goals, NEW h \in Edit(g)
  PROVE  /\ h \in Goals /\ h.ref = g.ref + 1 /\ h.op = "edit" /\ h.phase = g.phase /\ h.armed = g.armed
         /\ h.rounds = g.rounds /\ g.phase # "none"
<1> DEFINE r == Revised(g, "edit", g.phase, g.armed)
<1>0. "edit" \in Operations /\ g.phase \in Phases /\ g.armed \in BOOLEAN
  BY Names DEF Goals
<1>1. /\ r \in Goals /\ r.ref = g.ref + 1 /\ r.op = "edit" /\ r.phase = g.phase /\ r.armed = g.armed
      /\ r.rounds = g.rounds
  BY ONLY <1>0, g \in Goals, RevisedKept
<1>2. PICK n \in 1..MaxLimit : h = [r EXCEPT !.limit = n] /\ Accepts(g, Phases \ {"none"})
  BY DEF Edit
<1> HIDE DEF r
<1>3. /\ h \in Goals /\ h.ref = r.ref /\ h.op = r.op /\ h.phase = r.phase
      /\ h.armed = r.armed /\ h.rounds = r.rounds
  BY <1>1, <1>2 DEF Goals
<1> QED
  BY <1>1, <1>2, <1>3 DEF Accepts

LEMMA ClearIs ==
  ASSUME NEW g \in Goals, NEW h \in Clear(g)
  PROVE  /\ h \in Goals /\ h.ref = g.ref + 1 /\ h.op = "clear" /\ h.phase = "none" /\ ~h.armed
         /\ g.phase # "none"
<1> DEFINE r == Revised(g, "clear", "none", FALSE)
<1>0. "clear" \in Operations /\ "none" \in Phases
  BY Names
<1>1. r \in Goals /\ r.ref = g.ref + 1 /\ r.op = "clear" /\ r.phase = "none" /\ ~r.armed
  BY ONLY <1>0, g \in Goals, RevisedDisarmed
<1>2. h = [r EXCEPT !.rounds = 0] /\ Accepts(g, Phases \ {"none"})
  BY DEF Clear
<1> HIDE DEF r
<1>3. h \in Goals /\ h.ref = r.ref /\ h.op = r.op /\ h.phase = r.phase /\ h.armed = r.armed
  BY <1>1, <1>2, LimitAssumption DEF Goals
<1> QED
  BY <1>1, <1>2, <1>3 DEF Accepts

\* Whatever the service commits is a well-formed goal, and the replay takes it.
LEMMA Mutations ==
  ASSUME NEW g, GoalOK(g),
         NEW h \in Create(g) \cup Edit(g) \cup Pause(g) \cup Resume(g) \cup Complete(g)
                      \cup Block(g) \cup Clear(g)
  PROVE  GoalOK(h) /\ Replays(g, h)
<1>0. g \in Goals /\ (g.armed => g.phase = "active")
  BY DEF GoalOK
<1> USE <1>0, Names DEF GoalOK, Replays, Preserves
<1>1. CASE h \in Create(g)
  BY <1>1, CreateIs
<1>2. CASE h \in Edit(g)
  BY <1>2, EditIs
<1>3. CASE h \in Pause(g)
  <2>1. h = Revised(g, "pause", "paused", FALSE) /\ Accepts(g, {"active"})
    BY <1>3 DEF Pause
  <2>3. "pause" \in Operations /\ "paused" \in Phases
    BY Names
  <2>2. /\ h \in Goals /\ h.ref = g.ref + 1 /\ h.op = "pause" /\ h.phase = "paused" /\ ~h.armed
        /\ h.rounds = g.rounds /\ h.limit = g.limit
    BY ONLY <1>0, <2>1, <2>3, RevisedDisarmed
  <2> QED
    BY <2>1, <2>2 DEF Accepts
<1>4. CASE h \in Resume(g)
  <2>1. h = Revised(g, "resume", "active", TRUE) /\ Accepts(g, {"active", "paused", "blocked"}) /\ ~Exhausted(g)
    BY <1>4 DEF Resume
  <2>3. "resume" \in Operations /\ "active" \in Phases
    BY Names
  <2>4. g \in Goals /\ h = Revised(g, "resume", "active", TRUE)
    BY <2>1
  <2> DEFINE r == Revised(g, "resume", "active", TRUE)
  <2>5. /\ r \in Goals /\ r.ref = g.ref + 1 /\ r.op = "resume" /\ r.phase = "active"
        /\ r.rounds = g.rounds /\ r.limit = g.limit
    BY ONLY <2>3, g \in Goals, RevisedArmed
  <2> HIDE DEF r
  <2>2. /\ h \in Goals /\ h.ref = g.ref + 1 /\ h.op = "resume" /\ h.phase = "active"
        /\ h.rounds = g.rounds /\ h.limit = g.limit
    BY <2>4, <2>5 DEF r
  <2> QED
    BY <2>1, <2>2 DEF Accepts
<1>5. CASE h \in Complete(g)
  <2>1. h = Revised(g, "complete", "complete", FALSE) /\ Accepts(g, {"active", "paused", "blocked"})
    BY <1>5 DEF Complete
  <2>3. "complete" \in Operations /\ "complete" \in Phases
    BY Names
  <2>2. /\ h \in Goals /\ h.ref = g.ref + 1 /\ h.op = "complete" /\ h.phase = "complete" /\ ~h.armed
        /\ h.rounds = g.rounds /\ h.limit = g.limit
    BY ONLY <1>0, <2>1, <2>3, RevisedDisarmed
  <2> QED
    BY <2>1, <2>2 DEF Accepts
<1>6. CASE h \in Block(g)
  <2>1. h = Revised(g, "block", "blocked", FALSE) /\ Accepts(g, {"active"})
    BY <1>6 DEF Block
  <2>3. "block" \in Operations /\ "blocked" \in Phases
    BY Names
  <2>2. /\ h \in Goals /\ h.ref = g.ref + 1 /\ h.op = "block" /\ h.phase = "blocked" /\ ~h.armed
        /\ h.rounds = g.rounds /\ h.limit = g.limit
    BY ONLY <1>0, <2>1, <2>3, RevisedDisarmed
  <2> QED
    BY <2>1, <2>2 DEF Accepts
<1>7. CASE h \in Clear(g)
  BY <1>7, ClearIs
<1> QED
  BY <1>1, <1>2, <1>3, <1>4, <1>5, <1>6, <1>7

\* What the replay takes after a goal it takes after the same goal disarmed.
LEMMA ReplaysSame ==
  ASSUME NEW g, NEW k, SameButArmed(g, k), NEW h
  PROVE  Replays(g, h) <=> Replays(k, h)
<1>1. k.phase = g.phase /\ k.ref = g.ref /\ k.rounds = g.rounds /\ k.limit = g.limit
  BY DEF SameButArmed
<1>2. Preserves(g, h) <=> Preserves(k, h)
  BY <1>1 DEF Preserves
<1>3. Exhausted(g) <=> Exhausted(k)
  BY <1>1 DEF Exhausted
<1> QED
  BY ONLY <1>1, <1>2, <1>3 DEF Replays

\* A disarmed copy of what the replay takes is taken as well.
LEMMA ReplaysDisarmed ==
  ASSUME NEW g, NEW h, NEW k, SameButArmed(h, k)
  PROVE  Replays(g, h) <=> Replays(g, k)
<1>1. k.phase = h.phase /\ k.ref = h.ref /\ k.rounds = h.rounds /\ k.limit = h.limit
      /\ k.op = h.op
  BY DEF SameButArmed
<1>2. Preserves(g, h) <=> Preserves(g, k)
  BY <1>1 DEF Preserves
<1> QED
  BY ONLY <1>1, <1>2 DEF Replays

\* Only a pause or a block stops a goal that was not stopped.
LEMMA NotStopped ==
  ASSUME NEW g, GoalOK(g),
         NEW h \in Create(g) \cup Edit(g) \cup Resume(g) \cup Complete(g) \cup Clear(g),
         h.phase \in {"paused", "blocked"}
  PROVE  g.phase \in {"paused", "blocked"}
<1> USE DEF GoalOK, Goals, Phases, Accepts, Revised
<1>1. CASE h \in Edit(g)
  BY <1>1 DEF Edit
<1> QED
  BY <1>1 DEF Create, Resume, Complete, Clear

LEMMA Stops ==
  ASSUME NEW g, GoalOK(g), Continues(g)
  PROVE  /\ (CHOOSE h \in Pause(g) : TRUE) \in Pause(g)
         /\ (CHOOSE h \in Block(g) : TRUE) \in Block(g)
<1>1. Pause(g) = {Revised(g, "pause", "paused", FALSE)}
      /\ Block(g) = {Revised(g, "block", "blocked", FALSE)}
  BY DEF Pause, Block, Accepts, Continues
<1> QED
  BY <1>1

\* A goal that is blocked or paused does not continue, nor one that is disarmed.
LEMMA Stopped ==
  ASSUME NEW g, GoalOK(g), NEW h \in Pause(g) \cup Block(g)
  PROVE  ~Continues(h) /\ ~h.armed
  BY DEF Pause, Block, Revised, Continues, GoalOK, Goals

LEMMA Refl == \A g : GoalOK(g) => Leads(g, g)
  BY DEF Leads, SameButArmed

----------------------------------------------------------------------------
(* The handlers.                                                           *)

LEMMA DisarmStep ==
  ASSUME NEW s, IsState(s), GoalOK(s.g)
  PROVE  /\ IsState(Disarm(s)) /\ GoalOK(Disarm(s).g) /\ SameButArmed(s.g, Disarm(s).g)
         /\ Disarm(s).d = s.d /\ Disarm(s).a = s.a
         /\ s.g.broken \/ ~Disarm(s).g.armed
  BY DEF IsState, Disarm, GoalOK, SameButArmed, Goals

LEMMA RequestStep ==
  ASSUME NEW s, IsState(s)
  PROVE  /\ IsState(Request(s)) /\ Request(s).g = s.g /\ Request(s).a = s.a
         /\ Request(s).d.attempt = s.d.attempt /\ Request(s).d.mode = s.d.mode
  BY DEF IsState, Request

LEMMA DropStep ==
  ASSUME NEW s, IsState(s)
  PROVE  /\ IsState(Drop(s)) /\ Drop(s).g = s.g /\ Drop(s).a = s.a
         /\ Drop(s).d.attempt = NoAttempt /\ Drop(s).d.mode = s.d.mode
  BY DEF IsState, AttemptOK, Drop, NoAttempt

\* What happens to an attempt that goes on.
LEMMA SameAttempt ==
  ASSUME NEW t, NEW ref, AttemptOK(t, ref), NEW x
  PROVE  /\ AttemptOK([t EXCEPT !.cancelled = x], ref)
         /\ AttemptOK([t EXCEPT !.stale = x], ref)
         /\ \A p \in {"queued", "claimed", "admitted"} :
                t.message.kind = "round" => AttemptOK([t EXCEPT !.phase = p], ref)
         /\ \A later \in Nat : ref \in Nat /\ ref <= later => AttemptOK(t, later)
  BY DEF AttemptOK, None

LEMMA CancelStep ==
  ASSUME NEW s, IsState(s), NEW keep \in BOOLEAN
  PROVE  /\ IsState(Cancel(s, keep)) /\ Cancel(s, keep).g = s.g
         /\ Cancel(s, keep).a.at = s.a.at /\ Cancel(s, keep).a.claimed = s.a.claimed
         /\ s.a.aborted => Cancel(s, keep).a.aborted
         /\ Running(s) => Cancel(s, keep).a.aborted
         /\ Cancel(s, keep).d.attempt.message = s.d.attempt.message
         /\ Cancel(s, keep).d.mode = s.d.mode
         /\ keep => Cancel(s, keep).d = s.d
<1> DEFINE discards == \E i \in DOMAIN s.a.inbox : Reserved(s, s.a.inbox[i])
           empties == s.a.at = "maintenance" /\ s.a.inbox # <<>>
           marked == [s.d.attempt EXCEPT !.cancelled = @ \/ discards]
           emptied == [s EXCEPT !.a.inbox = <<>>, !.a.latched = FALSE, !.a.emptied = @ \/ empties,
                                !.d.attempt.cancelled = @ \/ discards]
           cleared == IF keep THEN s ELSE emptied
           done == [cleared EXCEPT !.a.aborted = @ \/ s.a.at # "idle"]
<1>1. AttemptOK(marked, s.g.ref) /\ marked.message = s.d.attempt.message
  BY SameAttempt DEF IsState, AttemptOK
<1>2. /\ DOMAIN emptied = DOMAIN s /\ emptied.g = s.g
      /\ emptied.d = [s.d EXCEPT !.attempt = marked]
      /\ DOMAIN emptied.a = DOMAIN s.a /\ emptied.a.at = s.a.at
      /\ emptied.a.claimed = s.a.claimed /\ emptied.a.aborted = s.a.aborted
  BY DEF IsState, AgentOK, AttemptOK
<1>3. /\ IsState(emptied) /\ emptied.d.attempt.message = s.d.attempt.message
      /\ emptied.d.mode = s.d.mode
  BY <1>1, <1>2 DEF IsState, AgentOK
<1> HIDE DEF marked, emptied, discards
<1>4. /\ IsState(cleared) /\ cleared.g = s.g /\ cleared.d.mode = s.d.mode
      /\ cleared.d.attempt.message = s.d.attempt.message /\ (keep => cleared.d = s.d)
      /\ cleared.a.at = s.a.at /\ cleared.a.claimed = s.a.claimed
      /\ cleared.a.aborted = s.a.aborted
  BY <1>2, <1>3
<1>5. Cancel(s, keep) = done
  BY DEF Cancel, emptied, discards
<1> HIDE DEF cleared
<1>6. /\ DOMAIN done = DOMAIN cleared /\ done.g = cleared.g /\ done.d = cleared.d
      /\ DOMAIN done.a = DOMAIN cleared.a /\ done.a.at = cleared.a.at
      /\ done.a.claimed = cleared.a.claimed
      /\ done.a.aborted = (cleared.a.aborted \/ s.a.at # "idle")
  BY <1>4 DEF IsState, AgentOK
<1> HIDE DEF done
<1>7. IsState(done)
  BY <1>4, <1>6 DEF IsState, AgentOK
<1> QED
  BY <1>4, <1>5, <1>6, <1>7 DEF Running

LEMMA TurnStep ==
  ASSUME NEW s, IsState(s)
  PROVE  IsState(Turn(s)) /\ Turn(s).g = s.g /\ Turn(s).a.at = "assembling"
<1> DEFINE m == IF s.a.inbox = <<>> THEN None ELSE Head(s.a.inbox)
           turn == [inbox |-> IF m = None THEN <<>> ELSE Tail(s.a.inbox),
                    at |-> "assembling", claimed |-> m,
                    aborted |-> FALSE, latched |-> FALSE, emptied |-> s.a.emptied]
           new == [s EXCEPT !.a = turn]
           claimed == [s.d.attempt EXCEPT !.phase = "claimed"]
           owns == [new EXCEPT !.d.attempt.phase = "claimed"]
<1>1. AgentOK(turn) /\ turn.at = "assembling"
  BY DEF AgentOK, Places
<1>2. Turn(s) = IF Reserved(s, m) THEN owns ELSE new
  BY DEF Turn
<1> HIDE DEF turn, m
<1>3. /\ DOMAIN new = DOMAIN s /\ new.g = s.g /\ new.d = s.d /\ new.a = turn
      /\ DOMAIN owns = DOMAIN s /\ owns.g = s.g /\ owns.a = turn
      /\ owns.d = [s.d EXCEPT !.attempt = claimed]
  BY DEF IsState
<1> HIDE DEF new, owns
<1>4. Reserved(s, m) => AttemptOK(claimed, s.g.ref)
  BY SameAttempt DEF Reserved, IsState
<1> HIDE DEF claimed
<1> QED
  BY <1>1, <1>2, <1>3, <1>4 DEF IsState

\* A person's pause also stops the turn.
LEMMA PausedStep ==
  ASSUME NEW s, IsState(s), GoalOK(s.g), NEW g, GoalOK(g), s.g.ref <= g.ref
  PROVE  /\ IsState(Changed(s, g, TRUE)) /\ Changed(s, g, TRUE).g = g
         /\ Changed(s, g, TRUE).a.at = s.a.at /\ Changed(s, g, TRUE).a.claimed = s.a.claimed
         /\ (Listens(s) /\ Running(s)) => Changed(s, g, TRUE).a.aborted
         /\ Changed(s, g, TRUE).d.attempt.message = s.d.attempt.message
         /\ Changed(s, g, TRUE).d.mode = s.d.mode
<1> DEFINE new == [s EXCEPT !.g = g, !.d.needs = @ \/ Listens(s)]
           stopped == IF Listens(s) THEN StopTurn(new) ELSE new
<1>0. AttemptOK(s.d.attempt, g.ref)
  BY SameAttempt DEF IsState, GoalOK, Goals
<1>1. /\ IsState(new) /\ new.g = g /\ new.a = s.a
      /\ new.d.attempt = s.d.attempt /\ new.d.mode = s.d.mode
  BY <1>0 DEF IsState
<1>2. Running(new) = Running(s)
  BY <1>1 DEF Running
<1> HIDE DEF new
<1>3. /\ IsState(stopped) /\ stopped.g = g
      /\ stopped.a.at = s.a.at /\ stopped.a.claimed = s.a.claimed
      /\ (Listens(s) /\ Running(s)) => stopped.a.aborted
      /\ stopped.d.attempt.message = s.d.attempt.message /\ stopped.d.mode = s.d.mode
  BY <1>1, <1>2, CancelStep DEF StopTurn
<1>4. Changed(s, g, TRUE) = Request(stopped)
  BY DEF Changed, new
<1> HIDE DEF stopped
<1> QED
  BY <1>3, <1>4, RequestStep

\* The same for a change that is not a person's pause.
LEMMA ChangedQuietly ==
  ASSUME NEW s, IsState(s), GoalOK(s.g), NEW g, GoalOK(g), s.g.ref <= g.ref
  PROVE  /\ IsState(Changed(s, g, FALSE)) /\ Changed(s, g, FALSE).g = g
         /\ Changed(s, g, FALSE).a = s.a
         /\ Changed(s, g, FALSE).d.attempt = s.d.attempt /\ Changed(s, g, FALSE).d.mode = s.d.mode
<1> DEFINE new == [s EXCEPT !.g = g, !.d.needs = @ \/ Listens(s)]
<1>0. AttemptOK(s.d.attempt, g.ref)
  BY SameAttempt DEF IsState, GoalOK, Goals
<1>1. /\ IsState(new) /\ new.g = g /\ new.a = s.a
      /\ new.d.attempt = s.d.attempt /\ new.d.mode = s.d.mode
  BY <1>0 DEF IsState
<1>2. Changed(s, g, FALSE) = Request(new)
  BY DEF Changed
<1> HIDE DEF new
<1> QED
  BY <1>1, <1>2, RequestStep

LEMMA InsertedStep ==
  ASSUME NEW s, IsState(s), NEW m
  PROVE  /\ IsState(Inserted(s, m)) /\ Inserted(s, m).g = s.g
         /\ Inserted(s, m).a.at = s.a.at /\ Inserted(s, m).a.claimed = s.a.claimed
         /\ Inserted(s, m).a.aborted = s.a.aborted
         /\ Inserted(s, m).d.attempt.message = s.d.attempt.message
         /\ Inserted(s, m).d.mode = s.d.mode
<1> DEFINE new == [s EXCEPT !.a.inbox = Append(@, m)]
           x == s.d.attempt.stale \/ s.d.attempt.phase = "queued"
           stale == [s.d.attempt EXCEPT !.stale = x]
           other == [new EXCEPT !.d.competing = TRUE,
                                !.d.attempt.stale = @ \/ s.d.attempt.phase = "queued"]
<1>1. AttemptOK(stale, s.g.ref) /\ stale.message = s.d.attempt.message
  BY SameAttempt DEF IsState, AttemptOK
<1>2. Inserted(s, m) \in {new, other}
  BY DEF Inserted
<1>3. /\ DOMAIN new = DOMAIN s /\ new.g = s.g /\ new.d = s.d
      /\ DOMAIN new.a = DOMAIN s.a /\ new.a.at = s.a.at
      /\ new.a.claimed = s.a.claimed /\ new.a.aborted = s.a.aborted
  BY DEF IsState, AgentOK
<1> HIDE DEF new
<1>4. /\ DOMAIN other = DOMAIN s /\ other.g = s.g /\ other.a = new.a
      /\ DOMAIN other.d = DOMAIN s.d /\ other.d.mode = s.d.mode /\ other.d.attempt = stale
  BY <1>3 DEF IsState, AttemptOK
<1> HIDE DEF other, stale
<1>5. IsState(new) /\ IsState(other)
  BY <1>1, <1>3, <1>4 DEF IsState, AgentOK
<1> QED
  BY <1>1, <1>2, <1>3, <1>4, <1>5

LEMMA SendStep ==
  ASSUME NEW s, IsState(s), NEW m
  PROVE  /\ IsState(Send(s, m)) /\ Send(s, m).g = s.g
         /\ PastFence(s) => PastFence(Send(s, m))
<1> DEFINE new == Inserted(s, m)
<1> USE InsertedStep
<1>1. CASE s.a.at = "idle"
  <2>1. Send(s, m) = Turn(new)
    BY <1>1 DEF Send
  <2> QED
    BY <2>1, TurnStep DEF PastFence
<1>2. CASE s.a.at # "idle"
  <2>1. Send(s, m) = [new EXCEPT !.a.latched = @ \/ s.a.at = "maintenance" \/ s.a.aborted]
    BY <1>2 DEF Send
  <2>2. IsState(new) /\ new.g = s.g
    OBVIOUS
  <2>3. /\ DOMAIN Send(s, m) = DOMAIN new /\ Send(s, m).g = s.g /\ Send(s, m).d = new.d
        /\ DOMAIN Send(s, m).a = DOMAIN new.a
        /\ Send(s, m).a.at = new.a.at /\ Send(s, m).a.claimed = new.a.claimed
        /\ Send(s, m).a.aborted = new.a.aborted
    BY ONLY <2>1, <2>2 DEF IsState, AgentOK
  <2>4. IsState(Send(s, m))
    BY <2>2, <2>3 DEF IsState, AgentOK
  <2> QED
    BY <2>3, <2>4 DEF PastFence, Reserved, Listens
<1> QED
  BY <1>1, <1>2

\* The goal after an idle status: unchanged, or paused if it was continuing.
LEMMA OnIdleStep ==
  ASSUME NEW s, IsState(s), GoalOK(s.g)
  PROVE  /\ IsState(OnIdle(s)) /\ OnIdle(s).a.at = s.a.at
         /\ OnIdle(s).g = s.g \/ (Continues(s.g) /\ OnIdle(s).g \in Pause(s.g))
<1> DEFINE calm == Calm(s)
           dropped == Drop(calm)
           stopped == CHOOSE g \in Pause(s.g) : TRUE
           paused == Changed(dropped, stopped, FALSE)
<1>1. IsState(calm) /\ calm.g = s.g /\ calm.a = s.a
  BY DEF IsState, Calm
<1> HIDE DEF calm
<1>5. IsState(dropped) /\ dropped.a = s.a
  BY <1>1, DropStep
<1>6. dropped.g = s.g
  BY <1>1, DropStep
<1> HIDE DEF dropped
<1>7. Continues(s.g) => stopped \in Pause(s.g) /\ GoalOK(stopped) /\ stopped.ref = s.g.ref + 1
  BY Stops, Mutations DEF Replays
<1> HIDE DEF stopped
<1>8. Continues(s.g) => s.g.ref <= stopped.ref
  BY <1>7 DEF GoalOK, Goals
<1>2. Continues(s.g) => IsState(paused) /\ paused.a.at = s.a.at /\ paused.g = stopped
  <2> HAVE Continues(s.g)
  <2>1. GoalOK(dropped.g) /\ GoalOK(stopped) /\ dropped.g.ref <= stopped.ref
    BY <1>6, <1>7, <1>8
  <2>2. /\ IsState(Changed(dropped, stopped, FALSE)) /\ Changed(dropped, stopped, FALSE).g = stopped
        /\ Changed(dropped, stopped, FALSE).a = dropped.a
    BY ONLY <1>5, <2>1, ChangedQuietly
  <2> QED
    BY <1>5, <2>2
<1>3. OnIdle(s) = IF ~Listens(s) THEN s ELSE IF s.g.broken THEN calm
                  ELSE Request(IF CutOff(s) THEN paused ELSE calm)
  BY DEF OnIdle, calm, dropped, stopped
<1> HIDE DEF paused
<1>4. CutOff(s) => Continues(s.g)
  BY DEF CutOff
<1> QED
  BY <1>1, <1>2, <1>3, <1>4, <1>7, RequestStep

LEMMA GoIdleStep ==
  ASSUME NEW s, IsState(s), GoalOK(s.g)
  PROVE  /\ IsState(GoIdle(s)) /\ GoIdle(s).a.at = "idle"
         /\ GoIdle(s).g = s.g \/ (Continues(s.g) /\ GoIdle(s).g \in Pause(s.g))
<1> DEFINE rest == [s EXCEPT !.a.at = "idle", !.a.claimed = None, !.a.aborted = FALSE,
                             !.a.emptied = FALSE]
<1>1. /\ DOMAIN rest = DOMAIN s /\ rest.g = s.g /\ rest.d = s.d /\ DOMAIN rest.a = DOMAIN s.a
      /\ rest.a.at = "idle" /\ rest.a.claimed = None /\ rest.a.aborted = FALSE
  BY DEF IsState, AgentOK
<1>2. GoIdle(s) = OnIdle(rest)
  BY DEF GoIdle
<1> HIDE DEF rest
<1>3. IsState(rest)
  BY <1>1 DEF IsState, AgentOK, Places
<1> QED
  BY <1>1, <1>2, <1>3, OnIdleStep

\* A turn ends with the agent idle or in its next turn, and with the goal
\* unchanged, disarmed, or paused if it was continuing.
LEMMA EndTurnStep ==
  ASSUME NEW s, IsState(s), GoalOK(s.g), NEW how
  PROVE  /\ IsState(EndTurn(s, how)) /\ EndTurn(s, how).a.at \in {"idle", "assembling"}
         /\ GoalOK(EndTurn(s, how).g)
         /\ SameButArmed(s.g, EndTurn(s, how).g)
              \/ (Continues(s.g) /\ Replays(s.g, EndTurn(s, how).g))
<1> DEFINE marked == [s EXCEPT !.d.attempt.cancelled = TRUE]
           stops == IF ~Listens(s) THEN s
                    ELSE CASE how \in {"error", "max-tokens"} -> Disarm(s)
                           [] how = "aborted" ->
                                IF s.d.attempt.phase \in {"claimed", "admitted"} THEN marked
                                ELSE Disarm(s)
                           [] OTHER -> s
<1>0. AttemptOK([s.d.attempt EXCEPT !.cancelled = TRUE], s.g.ref)
  BY SameAttempt DEF IsState
<1>1. IsState(marked) /\ marked.g = s.g
  BY <1>0 DEF IsState
<1>2. EndTurn(s, how) \in {Turn(stops), GoIdle(stops)}
  BY DEF EndTurn
<1> HIDE DEF marked
<1>3. stops \in {s, marked, Disarm(s)}
  <2>1. CASE ~Listens(s)
    BY <2>1
  <2>2. CASE Listens(s) /\ how \in {"error", "max-tokens"}
    BY <2>2
  <2>3. CASE Listens(s) /\ how = "aborted"
    BY <2>3
  <2>4. CASE Listens(s) /\ how \notin {"error", "max-tokens", "aborted"}
    BY <2>4
  <2> QED
    BY <2>1, <2>2, <2>3, <2>4
<1>4. IsState(stops) /\ GoalOK(stops.g) /\ SameButArmed(s.g, stops.g)
  BY <1>1, <1>3, DisarmStep DEF SameButArmed
<1>5. Continues(stops.g) => Continues(s.g)
  BY <1>4 DEF Continues, SameButArmed
<1>6. \A h : Replays(stops.g, h) => Replays(s.g, h)
  BY <1>4, ReplaysSame
<1> HIDE DEF stops
<1>7. /\ IsState(EndTurn(s, how)) /\ EndTurn(s, how).a.at \in {"idle", "assembling"}
      /\ EndTurn(s, how).g = stops.g
           \/ (Continues(stops.g) /\ EndTurn(s, how).g \in Pause(stops.g))
  BY <1>2, <1>4, TurnStep, GoIdleStep
<1> QED
  BY <1>4, <1>5, <1>6, <1>7, Mutations

----------------------------------------------------------------------------
(* The actions.                                                            *)

\* The end of a turn after a handler that left the goal as it was, or ended it.
LEMMA EndOutcome ==
  ASSUME NEW g, GoalOK(g), NEW s, IsState(s), GoalOK(s.g), NEW how,
         SameButArmed(g, s.g) \/ (Replays(g, s.g) /\ ~Continues(s.g))
  PROVE  Outcome(g, EndTurn(s, how))
<1> DEFINE h == EndTurn(s, how).g
<1>1. /\ IsState(EndTurn(s, how)) /\ EndTurn(s, how).a.at \in {"idle", "assembling"} /\ GoalOK(h)
      /\ SameButArmed(s.g, h) \/ (Continues(s.g) /\ Replays(s.g, h))
  BY EndTurnStep
<1>2. SameButArmed(s.g, h) => Leads(g, h)
  <2>1. CASE SameButArmed(s.g, h) /\ SameButArmed(g, s.g)
    BY <1>1, <2>1 DEF Leads, SameButArmed
  <2>2. CASE SameButArmed(s.g, h) /\ Replays(g, s.g)
    BY <1>1, <2>2, ReplaysDisarmed DEF Leads
  <2> QED
    BY <2>1, <2>2
<1>3. (SameButArmed(g, s.g) /\ Replays(s.g, h)) => Leads(g, h)
  BY <1>1, ReplaysSame DEF Leads
<1> QED
  BY <1>1, <1>2, <1>3 DEF Outcome, PastFence

\* What a handler leads to is what the action does.
LEMMA Becomes ==
  ASSUME Inv, NEW t, Become(t), Outcome(goal, t)
  PROVE  Inv' /\ (goal'.ref # goal.ref => Replays(goal, goal'))
<1>1. goal' = t.g /\ driver' = t.d /\ agent' = t.a
  BY DEF Become
<1>2. IsState(State)'
  BY <1>1 DEF State, IsState, Outcome
<1>3. PastFence(State)'
  BY <1>1 DEF State, PastFence, Reserved, Listens, Outcome
<1> QED
  BY <1>1, <1>2, <1>3 DEF Inv, Outcome, Leads, SameButArmed

\* No round is past the fence of an agent that runs no turn.
LEMMA NoTurn ==
  ASSUME NEW s, IsState(s), s.a.at \in {"idle", "maintenance"}
  PROVE  PastFence(s)
  BY DEF PastFence

LEMMA Unbusy == ASSUME NEW s, ReadyToDrive(s) PROVE s.a.at \in {"idle", "maintenance"}
  BY DEF ReadyToDrive, Running

LEMMA ReserveStep ==
  ASSUME NEW s, IsState(s), GoalOK(s.g), s.a.at \in {"idle", "maintenance"}
  PROVE  IsState(Reserve(s)) /\ Reserve(s).g = s.g /\ PastFence(Reserve(s))
<1> DEFINE m == Round(s.g.ref, s.g.rounds + 1, FreshId(s))
           t == [NoAttempt EXCEPT !.message = m, !.phase = "queued"]
           new == [s EXCEPT !.d.attempt = t]
<1>1. s.g.ref \in Nat
  BY DEF GoalOK, Goals
<1>2. AttemptOK(t, s.g.ref)
  BY <1>1 DEF AttemptOK, NoAttempt, Round
<1>3. Reserve(s) = Send(new, m)
  BY DEF Reserve
<1> HIDE DEF t, m
<1>4. IsState(new) /\ new.g = s.g /\ new.a = s.a
  BY <1>2 DEF IsState
<1> HIDE DEF new
<1> QED
  BY <1>3, <1>4, SendStep, NoTurn

LEMMA ProceedStep ==
  ASSUME NEW s, IsState(s), GoalOK(s.g), s.a.at \in {"idle", "maintenance"}
  PROVE  Outcome(s.g, Proceed(s))
<1> USE Refl DEF Outcome
<1>1. CASE s.d.attempt # NoAttempt
  <2> DEFINE new == [Drop(s) EXCEPT !.d.needs = TRUE]
  <2>1. IsState(new) /\ new.g = s.g /\ new.a = s.a
    BY DropStep DEF IsState
  <2>2. Proceed(s) = Request(new)
    BY <1>1 DEF Proceed
  <2> HIDE DEF new
  <2> QED
    BY <2>1, <2>2, RequestStep, NoTurn
<1>2. CASE s.d.attempt = NoAttempt /\ ~Continues(s.g)
  BY <1>2, NoTurn DEF Proceed
<1>3. CASE s.d.attempt = NoAttempt /\ Continues(s.g) /\ Exhausted(s.g)
  <2> DEFINE blocked == CHOOSE g \in Block(s.g) : TRUE
  <2>1. blocked \in Block(s.g)
    BY <1>3, Stops
  <2>2. Proceed(s) = Changed(s, blocked, FALSE)
    BY <1>3 DEF Proceed
  <2>3. GoalOK(blocked) /\ Replays(s.g, blocked)
    BY <2>1, Mutations
  <2> HIDE DEF blocked
  <2> DEFINE t == Changed(s, blocked, FALSE)
  <2>6. s.g.ref <= blocked.ref
    BY <2>3 DEF Replays, GoalOK, Goals
  <2>5. IsState(t) /\ t.g = blocked /\ t.a = s.a
    BY ONLY IsState(s), GoalOK(s.g), <2>3, <2>6, ChangedQuietly
  <2>4. IsState(Proceed(s)) /\ Proceed(s).g = blocked /\ Proceed(s).a = s.a
    BY ONLY <2>2, <2>5
  <2> QED
    BY <2>3, <2>4, NoTurn DEF Leads
<1>4. CASE s.d.attempt = NoAttempt /\ Continues(s.g) /\ ~Exhausted(s.g)
  BY <1>4, ReserveStep DEF Proceed
<1> QED
  BY <1>1, <1>2, <1>3, <1>4

\* Whatever leaves the phase of the goal, the agent and the attempt alone.
LEMMA Quiet ==
  ASSUME Inv, NEW t, IsState(t), t.a = agent, GoalOK(t.g), SameButArmed(goal, t.g),
         t.d.attempt = driver.attempt, t.d.mode = driver.mode
  PROVE  Outcome(goal, t)
  BY DEF Inv, Outcome, Leads, PastFence, State, Reserved, Listens, SameButArmed

LEMMA Ended ==
  ASSUME Inv, NEW s, IsState(s), s.g = goal, NEW how
  PROVE  Outcome(goal, EndTurn(s, how))
<1>1. GoalOK(goal) /\ SameButArmed(goal, s.g)
  BY DEF Inv, SameButArmed
<1> QED
  BY <1>1, EndOutcome

\* A pass decides at once or flushes.
LEMMA DriveStep ==
  ASSUME Inv, Drive
  PROVE  \E t : Become(t) /\ Outcome(goal, t)
<1> DEFINE s == [State EXCEPT !.d.requested = FALSE]
           f == [s EXCEPT !.d.needs = FALSE, !.d.flushing = TRUE]
<1>1. /\ IsState(s) /\ s.g = goal /\ s.a = agent
      /\ s.d.attempt = driver.attempt /\ s.d.mode = driver.mode
  BY DEF Inv, IsState, State
<1>2. Become(f) \/ (ReadyToDrive(s) /\ Become(Proceed(s))) \/ Become(s)
  BY DEF Drive
<1> HIDE DEF s
<1>3. /\ IsState(f) /\ f.g = goal /\ f.a = agent
      /\ f.d.attempt = driver.attempt /\ f.d.mode = driver.mode
  BY <1>1 DEF IsState
<1> HIDE DEF f
<1>4. GoalOK(goal) /\ SameButArmed(goal, goal)
  BY DEF Inv, SameButArmed
<1>5. Outcome(goal, s) /\ Outcome(goal, f)
  BY <1>1, <1>3, <1>4, Quiet
<1>6. ReadyToDrive(s) => Outcome(goal, Proceed(s))
  BY <1>1, <1>4, ProceedStep, Unbusy
<1> QED
  BY <1>2, <1>5, <1>6

\* At the end of the flush the pass decides, or disarms when it has failed.
LEMMA FlushedStep ==
  ASSUME Inv, Flushed
  PROVE  \E t : Become(t) /\ Outcome(goal, t)
<1> DEFINE s == [State EXCEPT !.d.flushing = FALSE]
<1>1. /\ IsState(s) /\ s.g = goal /\ s.a = agent
      /\ s.d.attempt = driver.attempt /\ s.d.mode = driver.mode
  BY DEF Inv, IsState, State
<1>2. Become(Disarm(s)) \/ (ReadyAfterCheckpoint(s) /\ Become(Proceed(s))) \/ Become(s)
  BY DEF Flushed
<1> HIDE DEF s
<1>4. GoalOK(goal) /\ SameButArmed(goal, goal)
  BY DEF Inv, SameButArmed
<1>5. Outcome(goal, s)
  BY <1>1, <1>4, Quiet
<1>6. Outcome(goal, Disarm(s))
  BY <1>1, <1>4, Quiet, DisarmStep
<1>7. ReadyAfterCheckpoint(s) => Outcome(goal, Proceed(s))
  BY <1>1, <1>4, ProceedStep, Unbusy DEF ReadyAfterCheckpoint
<1> QED
  BY <1>2, <1>5, <1>6, <1>7

----------------------------------------------------------------------------
(* The turn of the agent.                                                  *)

LEMMA RefuseStep ==
  ASSUME Inv
  PROVE  Outcome(goal, Refuse(State))
<1>1. IsState(State) /\ State.g = goal
  BY DEF Inv, State
<1>2. IsState(Request(Drop(State))) /\ Request(Drop(State)).g = goal
  BY <1>1, DropStep, RequestStep
<1> QED
  BY <1>2, Ended DEF Refuse

LEMMA AssembledStep ==
  ASSUME Inv, Assembled
  PROVE  \E t : Become(t) /\ Outcome(goal, t)
<1> DEFINE h == [State EXCEPT !.a.at = "hooked"]
<1>1. IsState(State) /\ State.g = goal
  BY DEF Inv, State
<1>2. IsState(h) /\ h.g = goal /\ h.a.at = "hooked"
  BY <1>1 DEF IsState, AgentOK, Places, State
<1>3. Outcome(goal, h)
  BY <1>2, Refl DEF Outcome, PastFence, Inv
<1>4. IsState(Request(State)) /\ Request(State).g = goal
  BY <1>1, RequestStep
<1>5. Outcome(goal, Fence(State))
  BY <1>3, <1>4, RefuseStep, Ended DEF Fence
<1>6. \/ Become(EndTurn(State, "aborted")) \/ Become(EndTurn(State, "empty"))
      \/ Become(Fence(State)) \/ Become(h)
  BY DEF Assembled
<1> HIDE DEF h
<1> QED
  BY <1>1, <1>3, <1>5, <1>6, Ended

\* Past the second check of the fence the goal is active and the round its next.
LEMMA EntersStep ==
  ASSUME Inv, Enters
  PROVE  \E t : Become(t) /\ Outcome(goal, t)
<1> DEFINE e == [State EXCEPT !.a.at = "entering"]
<1>1. IsState(State) /\ State.g = goal
  BY DEF Inv, State
<1>2. /\ IsState(e) /\ e.g = goal /\ e.a.claimed = agent.claimed
      /\ e.d = driver
  BY <1>1 DEF IsState, AgentOK, Places, State
<1>3. (~Fenced \/ ValidReservation(State, agent.claimed)) => Outcome(goal, e)
  <2>1. ASSUME ValidReservation(State, agent.claimed)
        PROVE  goal.phase = "active" /\ agent.claimed.round = goal.rounds + 1
    BY <2>1, <1>1 DEF ValidReservation, Continues
  <2>2. Reserved(e, e.a.claimed) => Fenced
    BY <1>2 DEF Reserved, Fenced, Listens, State
  <2> HIDE DEF e
  <2> QED
    BY <1>2, <2>1, <2>2, Refl DEF Outcome, PastFence, Inv
<1>4. \/ Become(EndTurn(State, "aborted")) \/ Become(Refuse(State))
      \/ ((~Fenced \/ ValidReservation(State, agent.claimed)) /\ Become(e))
  BY DEF Enters
<1> HIDE DEF e
<1> QED
  BY <1>1, <1>3, <1>4, RefuseStep, Ended

LEMMA Later ==
  ASSUME Inv, NEW g, Replays(goal, g)
  PROVE  goal.ref <= g.ref
  BY DEF Inv, GoalOK, Goals, Replays

LEMMA VetoedStep ==
  ASSUME Inv, Vetoed
  PROVE  \E t : Become(t) /\ Outcome(goal, t)
<1> DEFINE blocked == CHOOSE g \in Block(goal) : TRUE
           block == Changed(Drop(State), blocked, FALSE)
<1>1. IsState(State) /\ State.g = goal /\ GoalOK(goal)
  BY DEF Inv, State
<1>2. IsState(Drop(State)) /\ Drop(State).g = goal
  BY <1>1, DropStep
<1>3. Continues(goal) => blocked \in Block(goal)
  BY <1>1, Stops
<1>4. Continues(goal) => GoalOK(blocked) /\ Replays(goal, blocked) /\ ~Continues(blocked)
  BY <1>1, <1>3, Mutations, Stopped
<1>5. \/ Become(EndTurn(State, "aborted")) \/ Become(EndTurn(State, "blocked"))
      \/ Become(EndTurn(Drop(State), "blocked"))
      \/ (Continues(goal) /\ Become(EndTurn(block, "blocked")))
  BY DEF Vetoed
<1> HIDE DEF blocked
<1>8. Continues(goal) => goal.ref <= blocked.ref
  BY <1>4, Later
<1>6. Continues(goal) => IsState(block) /\ block.g = blocked
  <2> HAVE Continues(goal)
  <2> DEFINE d == Drop(State)
  <2>1. IsState(d) /\ GoalOK(d.g) /\ GoalOK(blocked) /\ d.g.ref <= blocked.ref
    BY <1>1, <1>2, <1>4, <1>8
  <2> HIDE DEF d
  <2>2. IsState(Changed(d, blocked, FALSE)) /\ Changed(d, blocked, FALSE).g = blocked
    BY ONLY <2>1, ChangedQuietly
  <2> QED
    BY <2>2 DEF d
<1> HIDE DEF block
<1>7. Continues(goal) => Outcome(goal, EndTurn(block, "blocked"))
  BY <1>1, <1>4, <1>6, EndOutcome
<1> QED
  BY <1>1, <1>2, <1>5, <1>7, Ended

LEMMA ThrowsStep ==
  ASSUME Inv, Throws
  PROVE  \E t : Become(t) /\ Outcome(goal, t)
<1>1. IsState(State) /\ State.g = goal
  BY DEF Inv, State
<1>2. IsState(Request(Drop(State))) /\ Request(Drop(State)).g = goal
  BY <1>1, DropStep, RequestStep
<1>3. \/ Become(EndTurn(State, "aborted")) \/ Become(EndTurn(State, "error"))
      \/ Become(EndTurn(Request(Drop(State)), "error"))
  BY DEF Throws
<1> QED
  BY <1>1, <1>2, <1>3, Ended

LEMMA EndsStep ==
  ASSUME Inv, Fails \/ Completes
  PROVE  \E t : Become(t) /\ Outcome(goal, t)
<1>1. IsState(State) /\ State.g = goal
  BY DEF Inv, State
<1>2. \E how : Become(EndTurn(State, how))
  BY DEF Fails, Completes
<1> QED
  BY <1>1, <1>2, Ended

LEMMA PreparedStep ==
  ASSUME Inv, Prepared
  PROVE  \E t : Become(t) /\ Outcome(goal, t)
<1> DEFINE p == [State EXCEPT !.a.at = "prepared"]
<1>1. IsState(State) /\ State.g = goal /\ PastFence(State) /\ agent.at = "entering"
  BY DEF Inv, State, Prepared
<1>2. /\ IsState(p) /\ p.g = goal /\ p.a.claimed = agent.claimed /\ p.a.at = "prepared"
      /\ p.d = driver
  BY <1>1 DEF IsState, AgentOK, Places, State
<1>3. Become(p)
  BY DEF Prepared
<1> HIDE DEF p
<1>4. Outcome(goal, p)
  BY <1>1, <1>2, Refl DEF Outcome, PastFence, Inv, Reserved, Listens, State
<1> QED
  BY <1>3, <1>4

\* A wake that was latched, and the end of maintenance, open a turn or not.
LEMMA WakesStep ==
  ASSUME Inv, Wakes
  PROVE  \E t : Become(t) /\ Outcome(goal, t)
<1> DEFINE idle == [State EXCEPT !.a.at = "idle", !.a.aborted = FALSE, !.a.latched = FALSE]
<1>1. IsState(State) /\ State.g = goal /\ State.a = agent /\ agent.at \in {"idle", "maintenance"}
  BY DEF Inv, State, Wakes
<1>2. /\ DOMAIN idle = DOMAIN State /\ idle.g = goal /\ idle.d = State.d
      /\ DOMAIN idle.a = DOMAIN agent /\ idle.a.at = "idle" /\ idle.a.claimed = agent.claimed
      /\ idle.a.aborted = FALSE
  BY <1>1 DEF IsState, AgentOK
<1>3. Become(Turn(idle)) \/ Become(idle)
  BY DEF Wakes, Woken
<1> HIDE DEF idle
<1>4. IsState(idle)
  BY <1>1, <1>2 DEF IsState, AgentOK, Places
<1>5. Outcome(goal, idle) /\ Outcome(goal, Turn(idle))
  BY <1>2, <1>4, TurnStep, Refl DEF Outcome, PastFence, Inv
<1> QED
  BY <1>3, <1>5

\* The admission counts the round, within the cap, or breaks the replay.
LEMMA AdmitsStep ==
  ASSUME Inv, Admits
  PROVE  Inv' /\ goal'.ref = goal.ref
<1> DEFINE m == agent.claimed
           s == [State EXCEPT !.a.at = "stepping", !.g = IF m.kind = "round" THEN Entered(@, m) ELSE @]
           t == [s EXCEPT !.d.attempt.phase = "admitted"]
           e == IF m.kind = "round" THEN Entered(goal, m) ELSE goal
           own == Listens(State) /\ m.kind = "round" /\ m = driver.attempt.message
<1>2. Become(s) \/ (own /\ Become(t))
  BY DEF Admits, Listens, State
<1>3. GoalOK(Entered(goal, m)) /\ Entered(goal, m).ref = goal.ref
  <2>1. CASE goal.broken
    BY <2>1 DEF Inv, Entered
  <2>2. CASE ~goal.broken /\ NextRound(goal, m)
    <3>1. m.round \in 0..MaxLimit
      BY <2>2, LimitAssumption DEF Inv, GoalOK, Goals, NextRound
    <3>2. Entered(goal, m) = [goal EXCEPT !.rounds = m.round]
      BY <2>2 DEF Entered
    <3> QED
      BY <3>1, <3>2 DEF Inv, GoalOK, Goals
  <2>3. CASE ~goal.broken /\ ~NextRound(goal, m)
    BY <2>3 DEF Inv, GoalOK, Goals, Entered
  <2> QED
    BY <2>1, <2>2, <2>3
<1>8. e.ref = goal.ref /\ e \in {goal, Entered(goal, m)}
  BY <1>3
<1>9. /\ DOMAIN s = {"g", "d", "a"} /\ s.g = e /\ s.d = driver
      /\ DOMAIN s.a = DOMAIN agent /\ s.a.at = "stepping" /\ s.a.claimed = agent.claimed
  BY DEF Inv, IsState, AgentOK, State
<1> HIDE DEF s, e
<1>10. IsState(State) /\ State.g = goal /\ State.d = driver /\ State.a = agent
  BY DEF Inv, State
<1>1. IsState(s)
  BY <1>8, <1>9, <1>10 DEF IsState, AgentOK, Places
<1>4. own => IsState(t) /\ t.g = e /\ t.a = s.a
  <2> HAVE own
  <2>1. driver.attempt.message.kind = "round"
    OBVIOUS
  <2>2. AttemptOK([driver.attempt EXCEPT !.phase = "admitted"], goal.ref)
    BY <1>10, <2>1, SameAttempt DEF IsState
  <2>3. /\ DOMAIN t = DOMAIN s /\ t.g = e /\ t.a = s.a /\ DOMAIN t.d = DOMAIN s.d
        /\ t.d.attempt = [driver.attempt EXCEPT !.phase = "admitted"] /\ t.d.mode = s.d.mode
    BY <1>1, <1>9 DEF IsState
  <2> HIDE DEF t
  <2> QED
    BY <1>1, <1>8, <1>9, <2>2, <2>3 DEF IsState
<1> HIDE DEF t
<1>5. PICK u : Become(u) /\ IsState(u) /\ u.g = e /\ u.a.at = "stepping"
  BY <1>1, <1>2, <1>4, <1>9
<1>6. goal' = u.g /\ driver' = u.d /\ agent' = u.a
  BY <1>5 DEF Become
<1>7. IsState(State)' /\ PastFence(State)' /\ goal' = e
  BY <1>5, <1>6 DEF IsState, PastFence, State
<1> QED
  BY <1>3, <1>7, <1>8 DEF Inv

----------------------------------------------------------------------------
(* People, the model and the host.                                         *)

\* What leaves the goal alone and does not take an abort back.
LEMMA Outsiders ==
  ASSUME Inv, NEW t, IsState(t), GoalOK(t.g), SameButArmed(goal, t.g),
         t.a.at = agent.at, t.a.claimed = agent.claimed, agent.aborted => t.a.aborted,
         t.d.attempt.message = driver.attempt.message, t.d.mode = driver.mode
  PROVE  Outcome(goal, t)
  BY DEF Inv, Outcome, Leads, PastFence, State, Reserved, Listens, SameButArmed

LEMMA PromptsStep ==
  ASSUME Inv, PersonPrompts
  PROVE  \E t : Become(t) /\ Outcome(goal, t)
<1>1. IsState(State) /\ State.g = goal /\ PastFence(State)
  BY DEF Inv, State
<1>2. Outcome(goal, Send(State, Prompt))
  BY <1>1, SendStep, Refl DEF Outcome, Inv
<1> QED
  BY <1>2 DEF PersonPrompts

LEMMA CancelsStep ==
  ASSUME Inv, PersonCancels
  PROVE  \E t : Become(t) /\ Outcome(goal, t)
<1>1. /\ IsState(State) /\ State.g = goal /\ State.a = agent /\ State.d = driver
      /\ GoalOK(goal) /\ SameButArmed(goal, goal)
  BY DEF Inv, State, SameButArmed
<1>2. PICK keep \in BOOLEAN : Become(Cancel(State, keep))
  BY DEF PersonCancels
<1> DEFINE t == Cancel(State, keep)
<1>3. /\ IsState(t) /\ t.g = goal /\ t.a.at = agent.at /\ t.a.claimed = agent.claimed
      /\ agent.aborted => t.a.aborted
      /\ t.d.attempt.message = driver.attempt.message /\ t.d.mode = driver.mode
  BY <1>1, CancelStep
<1> HIDE DEF t
<1>4. Outcome(goal, t)
  BY <1>1, <1>3, Outsiders
<1> QED
  BY <1>2, <1>4 DEF t

\* A round that was reserved before a change is not one of the revision after it.
LEMMA StaleRound ==
  ASSUME Inv, NEW g, Replays(goal, g), NEW t, t.d.attempt.message = driver.attempt.message,
         NEW m, Reserved(t, m)
  PROVE  m.ref # g.ref
<1>1. /\ driver.attempt.message.kind = "round" => driver.attempt.message.ref \in Nat
      /\ driver.attempt.message.kind = "round" => driver.attempt.message.ref <= goal.ref
  BY DEF Inv, IsState, AttemptOK, State, None
<1>2. goal.ref \in Nat /\ g.ref = goal.ref + 1
  BY DEF Inv, GoalOK, Goals, Replays
<1> QED
  BY <1>1, <1>2 DEF Reserved

\* The turn of a reserved round is aborted with the pause.
LEMMA PausesStep ==
  ASSUME Inv, PersonPauses
  PROVE  \E t : Become(t) /\ Outcome(goal, t)
<1>1. /\ IsState(State) /\ State.g = goal /\ State.a = agent /\ State.d = driver
      /\ GoalOK(goal)
  BY DEF Inv, State
<1>2. PICK g \in Pause(goal) : Become(Changed(State, g, TRUE))
  BY DEF PersonPauses
<1>6. GoalOK(g) /\ Replays(goal, g)
  BY <1>1, Mutations
<1>7. goal.ref <= g.ref
  BY <1>6, Later
<1> DEFINE t == Changed(State, g, TRUE)
<1>3. /\ IsState(t) /\ t.g = g /\ t.a.at = agent.at /\ t.a.claimed = agent.claimed
      /\ (Listens(State) /\ Running(State)) => t.a.aborted
      /\ t.d.attempt.message = driver.attempt.message /\ t.d.mode = driver.mode
  BY <1>1, <1>6, <1>7, PausedStep
<1> HIDE DEF t
<1>4. Leads(goal, t.g)
  BY <1>3, <1>6 DEF Leads
<1>5. PastFence(t)
  <2>1. ASSUME Reserved(t, t.a.claimed) PROVE t.a.claimed.ref # t.g.ref
    BY <1>3, <1>6, <2>1, StaleRound
  <2>2. ASSUME Reserved(t, t.a.claimed), t.a.at = "entering" PROVE t.a.aborted
    BY <1>1, <1>3, <2>2 DEF Reserved, Listens, Running
  <2> QED
    BY <2>1, <2>2 DEF PastFence
<1> QED
  BY <1>2, <1>3, <1>4, <1>5 DEF t, Outcome

LEMMA ChangesStep ==
  ASSUME Inv, PersonChanges
  PROVE  \E t : Become(t) /\ Outcome(goal, t)
<1>1. /\ IsState(State) /\ State.g = goal /\ State.a = agent /\ State.d = driver
      /\ GoalOK(goal) /\ PastFence(State)
  BY DEF Inv, State
<1>2. PICK g \in Create(goal) \cup Edit(goal) \cup Resume(goal) \cup Complete(goal) \cup Clear(goal) :
        Become(Changed(State, g, FALSE))
  BY DEF PersonChanges
<1>7. GoalOK(g) /\ Replays(goal, g)
  BY <1>1, Mutations
<1>8. goal.ref <= g.ref
  BY <1>7, Later
<1> DEFINE t == Changed(State, g, FALSE)
<1>3. /\ IsState(t) /\ t.g = g /\ t.a = agent
      /\ t.d.attempt = driver.attempt /\ t.d.mode = driver.mode
  BY <1>1, <1>7, <1>8, ChangedQuietly
<1> HIDE DEF t
<1>4. Leads(goal, t.g)
  BY <1>3, <1>7 DEF Leads
<1>5. t.g.phase \in {"paused", "blocked"} => goal.phase \in {"paused", "blocked"}
  BY <1>1, <1>3, NotStopped
<1>6. PastFence(t)
  <2>1. ASSUME Reserved(t, t.a.claimed) PROVE t.a.claimed.ref # t.g.ref
    BY <1>3, <1>7, <2>1, StaleRound
  <2>2. Reserved(t, t.a.claimed) => Reserved(State, agent.claimed)
    BY <1>1, <1>3 DEF Reserved, Listens
  <2> QED
    BY <1>1, <1>3, <1>5, <2>1, <2>2 DEF PastFence
<1> QED
  BY <1>2, <1>3, <1>4, <1>6 DEF t, Outcome

\* The model acts in a step, when nothing is past the fence.
LEMMA ModelStep ==
  ASSUME Inv, ModelChanges
  PROVE  \E t : Become(t) /\ Outcome(goal, t)
<1>1. /\ IsState(State) /\ State.g = goal /\ State.a = agent /\ GoalOK(goal)
  BY DEF Inv, State
<1>2. PICK g \in ModelMay : Become(Changed(State, g, FALSE)) /\ agent.at = "stepping"
  BY DEF ModelChanges
<1>3. g \in Create(goal) \cup Edit(goal) \cup Pause(goal) \cup Resume(goal) \cup Complete(goal)
              \cup Block(goal) \cup Clear(goal)
  BY <1>2 DEF ModelMay
<1>4. GoalOK(g) /\ Replays(goal, g)
  BY <1>1, <1>3, Mutations
<1> DEFINE t == Changed(State, g, FALSE)
<1>7. goal.ref <= g.ref
  BY <1>4, Later
<1>5. IsState(t) /\ t.g = g /\ t.a = agent
  BY <1>1, <1>4, <1>7, ChangedQuietly
<1> HIDE DEF t
<1>6. Outcome(goal, t)
  BY <1>2, <1>4, <1>5 DEF Outcome, Leads, PastFence
<1> QED
  BY <1>2, <1>6 DEF t

\* An unload disarms, and aborts the turn of the round under way.
LEMMA UnloadStep ==
  ASSUME Inv, Unload
  PROVE  \E t : Become(t) /\ Outcome(goal, t)
<1> DEFINE off == Disarm(State)
           s == [off EXCEPT !.d.mode = "stopping"]
           attempted == driver.attempt # NoAttempt
           stale == [s EXCEPT !.d.attempt.stale = attempted]
           cleared == Cancel(stale, FALSE)
           drains == [cleared EXCEPT !.d.mode = "draining"]
<1>1. /\ IsState(State) /\ State.g = goal /\ State.a = agent /\ State.d = driver
      /\ GoalOK(goal) /\ PastFence(State)
  BY DEF Inv, State
<1>2. /\ IsState(off) /\ GoalOK(off.g) /\ SameButArmed(goal, off.g)
      /\ off.d = driver /\ off.a = agent
  BY <1>1, DisarmStep
<1>3. /\ driver.mode = "on"
      /\ Become(drains) \/ ((~attempted \/ ~Running(s)) /\ Become(stale))
  BY DEF Unload
<1> HIDE DEF off
<1>4. /\ IsState(s) /\ s.g = off.g /\ s.a = agent /\ s.d.attempt = driver.attempt
  BY <1>2 DEF IsState
<1> HIDE DEF s
<1>11. AttemptOK([driver.attempt EXCEPT !.stale = attempted], off.g.ref)
  BY <1>4, SameAttempt DEF IsState
<1>12. [driver.attempt EXCEPT !.stale = attempted].message = driver.attempt.message
  BY <1>4 DEF IsState, AttemptOK
<1>13. /\ DOMAIN stale = DOMAIN s /\ stale.g = off.g /\ stale.a = agent
       /\ DOMAIN stale.d = DOMAIN s.d /\ stale.d.mode = s.d.mode
       /\ stale.d.attempt = [driver.attempt EXCEPT !.stale = attempted]
  BY <1>4 DEF IsState
<1> HIDE DEF stale
<1>5. /\ IsState(stale) /\ stale.g = off.g /\ stale.a = agent
      /\ stale.d.attempt.message = driver.attempt.message
  BY <1>4, <1>11, <1>12, <1>13 DEF IsState
<1>6. Running(s) = Running(State) /\ Running(stale) = Running(State)
  BY <1>1, <1>4, <1>5 DEF Running
<1>7. /\ IsState(cleared) /\ cleared.g = off.g /\ cleared.a.at = agent.at
      /\ Running(State) => cleared.a.aborted
      /\ cleared.a.claimed = agent.claimed
      /\ cleared.d.attempt.message = driver.attempt.message
  BY <1>5, <1>6, CancelStep
<1> HIDE DEF cleared
<1>8. /\ IsState(drains) /\ drains.g = off.g /\ drains.a = cleared.a
      /\ drains.d.attempt = cleared.d.attempt
  BY <1>7 DEF IsState
<1> HIDE DEF drains
<1>14. PastFence(drains)
  BY <1>1, <1>2, <1>3, <1>7, <1>8 DEF PastFence, Running, Reserved, Listens, SameButArmed
<1>9. Outcome(goal, drains)
  BY <1>2, <1>8, <1>14 DEF Outcome, Leads
<1>10. (~attempted \/ ~Running(s)) => Outcome(goal, stale)
  BY <1>1, <1>2, <1>3, <1>5, <1>6
     DEF Outcome, Leads, PastFence, Running, Reserved, Listens, SameButArmed
<1> QED
  BY <1>3, <1>9, <1>10

\* Maintenance takes an idle agent.
LEMMA MaintenanceStep ==
  ASSUME Inv, runMaintenance
  PROVE  \E t : Become(t) /\ Outcome(goal, t)
<1> DEFINE busy == [agent EXCEPT !.at = "maintenance"]
           t == [g |-> goal, d |-> driver, a |-> busy]
<1>1. IsState(State) /\ State.g = goal /\ State.a = agent /\ State.d = driver /\ agent.at = "idle"
  BY DEF Inv, State, runMaintenance
<1>2. /\ DOMAIN busy = DOMAIN agent /\ busy.at = "maintenance" /\ busy.claimed = agent.claimed
  BY <1>1 DEF IsState, AgentOK
<1>3. goal' = goal /\ driver' = driver /\ agent' = busy
  BY DEF runMaintenance
<1> HIDE DEF busy
<1>4. IsState(t) /\ t.g = goal
  BY <1>1, <1>2 DEF IsState, AgentOK, Places
<1>5. Outcome(goal, t)
  BY <1>2, <1>4, NoTurn, Refl DEF Outcome, Inv
<1> QED
  BY <1>3, <1>5 DEF Become

LEMMA Fresh ==
  /\ DOMAIN FreshDriver = {"attempt", "competing", "needs", "requested", "flushing", "mode"}
  /\ FreshDriver.attempt = NoAttempt /\ FreshDriver.mode = "on"
  /\ \A ref : AttemptOK(NoAttempt, ref)
  BY DEF FreshDriver, NoAttempt, AttemptOK

LEMMA LoadStep ==
  ASSUME Inv, Load
  PROVE  \E t : Become(t) /\ Outcome(goal, t)
<1> DEFINE fresh == [State EXCEPT !.d = FreshDriver]
<1>1. IsState(fresh) /\ fresh.g = goal /\ fresh.d = FreshDriver /\ GoalOK(goal)
  BY Fresh DEF Inv, IsState, State
<1>2. Become(Disarm(fresh))
  BY DEF Load
<1> HIDE DEF fresh
<1>3. \A m : ~(m.kind = "round" /\ FreshDriver.attempt.message = m)
  BY DEF FreshDriver, NoAttempt, None
<1>4. Outcome(goal, Disarm(fresh))
  BY <1>1, <1>3, DisarmStep DEF Outcome, Leads, PastFence, Reserved
<1> QED
  BY <1>2, <1>4

----------------------------------------------------------------------------
(* The theorems.                                                           *)

LEMMA InitInv == Init => Inv
<1> SUFFICES ASSUME Init PROVE Inv
  OBVIOUS
<1>1. GoalOK(goal)
  BY LimitAssumption DEF Init, GoalOK, NoGoal, Goals, Phases, Operations
<1>2. AgentOK(agent) /\ agent.at = "idle"
  BY DEF Init, AgentOK, Places
<1>3. IsState(State)
  BY <1>2, Fresh DEF Init, IsState, State
<1>4. PastFence(State)
  BY <1>2, <1>3, NoTurn DEF State
<1> QED
  BY <1>1, <1>3, <1>4 DEF Inv

LEMMA EveryStep ==
  ASSUME Inv, [Next]_vars
  PROVE  Inv' /\ (goal'.ref # goal.ref => Replays(goal, goal'))
<1>1. CASE Drive \/ Flushed
  BY <1>1, DriveStep, FlushedStep, Becomes
<1>2. CASE AgentSteps
  <2>1. CASE Admits
    BY <2>1, AdmitsStep
  <2>2. CASE Assembled \/ Enters \/ Vetoed \/ Throws \/ Fails \/ Completes
    BY <2>2, AssembledStep, EntersStep, VetoedStep, ThrowsStep, EndsStep, Becomes
  <2>3. CASE Prepared \/ Wakes
    BY <2>3, PreparedStep, WakesStep, Becomes
  <2> QED
    BY <1>2, <2>1, <2>2, <2>3 DEF AgentSteps
<1>3. CASE PersonPrompts \/ PersonCancels \/ PersonPauses \/ PersonChanges \/ ModelChanges
  BY <1>3, PromptsStep, CancelsStep, PausesStep, ChangesStep, ModelStep, Becomes
<1>4. CASE Unload \/ Load \/ runMaintenance
  BY <1>4, UnloadStep, LoadStep, MaintenanceStep, Becomes
<1>5. CASE Unloaded
  <2>1. goal' = goal /\ agent' = agent /\ driver' = [FreshDriver EXCEPT !.mode = "off"]
    BY <1>5 DEF Unloaded
  <2> DEFINE off == [FreshDriver EXCEPT !.mode = "off"]
  <2>3. /\ DOMAIN off = {"attempt", "competing", "needs", "requested", "flushing", "mode"}
        /\ off.attempt = NoAttempt /\ off.mode = "off"
    BY Fresh
  <2> HIDE DEF off
  <2>2. IsState(State)' /\ ~Listens(State)'
    BY <2>1, <2>3, Fresh DEF off, State, IsState, Inv, Listens
  <2> QED
    BY <2>1, <2>2 DEF Inv, PastFence, Reserved
<1>6. CASE UNCHANGED vars
  BY <1>6 DEF vars, Inv, State, IsState, PastFence, Reserved, Listens
<1> QED
  BY <1>1, <1>2, <1>3, <1>4, <1>5, <1>6 DEF Next

LEMMA InvHolds == Spec => []Inv
  BY InitInv, EveryStep, PTL DEF Spec

\* Whatever commits a change of the goal, the strict replay accepts it, for
\* every cap and every history of interventions: service and fold agree.
THEOREM CommitsAlwaysReplay == Spec => CommitsReplay
<1>1. Inv /\ [Next]_vars => [goal'.ref # goal.ref => Replays(goal, goal')]_vars
  BY EveryStep
<1> QED
  BY <1>1, InvHolds, PTL DEF Spec, CommitsReplay

\* The turn of a goal that is paused or blocked does not get past the last look
\* at the signal before the round is appended, wherever the pause found it.
THEOREM PauseAlwaysStops == Spec => PauseStops
<1>1. Inv => [(Prepared /\ Reserved(State, agent.claimed)) => goal.phase \notin {"paused", "blocked"}]_vars
  BY DEF Inv, PastFence, Prepared, State
<1> QED
  BY <1>1, InvHolds, PTL DEF Spec, PauseStops

\* A round that the driver has reserved is admitted as the next of its revision,
\* even when maintenance has left two prompts for it in the inbox.
THEOREM RoundEntersOnce == Spec => RoundOnce
<1>1. Inv => [(Admits /\ Reserved(State, agent.claimed) /\ agent.claimed.ref = goal.ref)
                  => agent.claimed.round = goal.rounds + 1]_vars
  BY DEF Inv, PastFence, Admits, State
<1> QED
  BY <1>1, InvHolds, PTL DEF Spec, RoundOnce

\* Every state is well formed; in particular only an active goal is armed.
THEOREM GoalTypes == Spec => []TypeOK
<1>1. Inv => TypeOK
  <2> SUFFICES ASSUME Inv PROVE TypeOK
    OBVIOUS
  <2>1. GoalOK(goal) /\ AttemptOK(driver.attempt, goal.ref) /\ AgentOK(agent)
        /\ driver.mode \in {"on", "stopping", "draining", "off"}
    BY DEF Inv, IsState, State
  <2>2. (driver.attempt.phase = "none") = (driver.attempt.message = None)
    BY <2>1 DEF AttemptOK, None
  <2> QED
    BY <2>1, <2>2 DEF TypeOK, GoalOK, AttemptOK, AgentOK, Places
<1> QED
  BY <1>1, InvHolds, PTL DEF Spec

----------------------------------------------------------------------------
(* What the driver relies on when it reserves.  It trusts that no change   *)
(* of the goal has been published since its last checkpoint; a handler may *)
(* take the trust away and never gives it.                                 *)

Trusts(s) == s.d.mode = "on" /\ Continues(s.g) /\ ~s.d.needs

Keeps(s, t) == (Trusts(t) => Trusts(s) /\ t.g.ref = s.g.ref) /\ t.d.flushing = s.d.flushing

Calmer(s, t) == Keeps(s, t) /\ (s.d.attempt = NoAttempt => t.d.attempt = NoAttempt)

\* The fields of a state, whatever they hold.
Shape(s) ==
    /\ DOMAIN s = {"g", "d", "a"}
    /\ DOMAIN s.d = {"attempt", "competing", "needs", "requested", "flushing", "mode"}
    /\ DOMAIN s.d.attempt = {"message", "phase", "cancelled", "stale"}
    /\ DOMAIN s.a = {"inbox", "at", "claimed", "aborted", "latched", "emptied"}

Tame(s, t) == Shape(t) /\ Calmer(s, t)

\* A revision that is trusted is stored, or the flush under way stores it.
Covered ==
    /\ unsaved["ref"] \in {"no", "yes", "flushing"}
    /\ Trusts(State) => \/ unsaved["ref"] = "no"
                        \/ driver.flushing /\ unsaved["ref"] = "flushing"

LEMMA Shapes == ASSUME NEW s, IsState(s) PROVE Shape(s)
  BY DEF IsState, AttemptOK, AgentOK, Shape

LEMMA TameTrans ==
  ASSUME NEW r, NEW s, NEW t, Tame(r, s), Tame(s, t)
  PROVE  Tame(r, t)
  BY DEF Tame, Calmer, Keeps

LEMMA TameSelf == ASSUME NEW s, Shape(s) PROVE Tame(s, s)
  BY DEF Tame, Calmer, Keeps

\* Whatever leaves the goal, the checkpoints and the attempt alone.
LEMMA TameQuiet ==
  ASSUME NEW s, NEW t, Shape(s), DOMAIN t = DOMAIN s, DOMAIN t.d = DOMAIN s.d, DOMAIN t.a = DOMAIN s.a,
         t.g = s.g, t.d.needs = s.d.needs, t.d.flushing = s.d.flushing, t.d.mode = s.d.mode,
         DOMAIN t.d.attempt = DOMAIN s.d.attempt, s.d.attempt = NoAttempt => t.d.attempt = NoAttempt
  PROVE  Tame(s, t)
  BY DEF Tame, Calmer, Keeps, Trusts, Shape

\* Without an attempt there is nothing reserved.
LEMMA NoneReserved == ASSUME NEW s, s.d.attempt = NoAttempt, NEW m PROVE ~Reserved(s, m)
  BY DEF Reserved, NoAttempt, None

LEMMA NoneMarked ==
  /\ [NoAttempt EXCEPT !.cancelled = NoAttempt.cancelled \/ FALSE] = NoAttempt
  /\ [NoAttempt EXCEPT !.stale = NoAttempt.stale \/ NoAttempt.phase = "queued"] = NoAttempt
  /\ [NoAttempt EXCEPT !.stale = FALSE] = NoAttempt
  /\ NoAttempt.phase = "none" /\ DOMAIN NoAttempt = {"message", "phase", "cancelled", "stale"}
<1>1. /\ NoAttempt.cancelled = FALSE /\ NoAttempt.stale = FALSE /\ NoAttempt.phase = "none"
      /\ DOMAIN NoAttempt = {"message", "phase", "cancelled", "stale"}
      /\ NoAttempt = [f \in DOMAIN NoAttempt |-> NoAttempt[f]]
  BY DEF NoAttempt
<1>2. (NoAttempt.cancelled \/ FALSE) = FALSE /\ (NoAttempt.stale \/ NoAttempt.phase = "queued") = FALSE
  BY <1>1
<1>3. [NoAttempt EXCEPT !.cancelled = FALSE] = NoAttempt /\ [NoAttempt EXCEPT !.stale = FALSE] = NoAttempt
  BY <1>1
<1> QED
  BY <1>1, <1>2, <1>3

LEMMA TameDisarm ==
  ASSUME NEW s, Shape(s), GoalOK(s.g)
  PROVE  Tame(s, Disarm(s)) /\ (~s.g.broken => ~Continues(Disarm(s).g))
<1> DEFINE t == [s EXCEPT !.g.armed = FALSE]
<1>5. DOMAIN s.g = {"phase", "ref", "op", "rounds", "limit", "armed", "broken"}
  BY DEF GoalOK, Goals
<1>1. /\ DOMAIN t = DOMAIN s /\ t.d = s.d /\ t.a = s.a
      /\ t.g.ref = s.g.ref /\ t.g.armed = FALSE
  BY <1>5 DEF Shape
<1>2. Disarm(s) = IF s.g.broken THEN s ELSE t
  BY DEF Disarm
<1> HIDE DEF t
<1>3. ~Continues(t.g)
  BY <1>1 DEF Continues
<1>4. Tame(s, t)
  BY <1>1, <1>3 DEF Tame, Calmer, Keeps, Trusts, Shape
<1> QED
  BY <1>2, <1>3, <1>4, TameSelf

LEMMA TameRequest ==
  ASSUME NEW s, Shape(s)
  PROVE  Tame(s, Request(s))
<1> DEFINE t == [s EXCEPT !.d.requested = TRUE]
<1>1. /\ DOMAIN t = DOMAIN s /\ DOMAIN t.d = DOMAIN s.d /\ t.a = s.a /\ t.g = s.g
      /\ t.d.needs = s.d.needs /\ t.d.flushing = s.d.flushing /\ t.d.mode = s.d.mode
      /\ t.d.attempt = s.d.attempt
  BY DEF Shape
<1>2. Request(s) = IF s.d.mode = "on" THEN t ELSE s
  BY DEF Request
<1> HIDE DEF t
<1> QED
  BY <1>1, <1>2, TameQuiet, TameSelf

LEMMA TameDrop ==
  ASSUME NEW s, Shape(s)
  PROVE  Tame(s, Drop(s))
<1> DEFINE t == [s EXCEPT !.d.attempt = NoAttempt]
<1>1. /\ DOMAIN t = DOMAIN s /\ DOMAIN t.d = DOMAIN s.d /\ t.a = s.a /\ t.g = s.g
      /\ t.d.needs = s.d.needs /\ t.d.flushing = s.d.flushing /\ t.d.mode = s.d.mode
      /\ t.d.attempt = NoAttempt
  BY DEF Shape
<1>2. Drop(s) = t
  BY DEF Drop
<1> HIDE DEF t
<1> QED
  BY <1>1, <1>2, TameQuiet, NoneMarked DEF Shape

LEMMA TameCalm ==
  ASSUME NEW s, Shape(s)
  PROVE  Tame(s, Calm(s))
<1> DEFINE t == [s EXCEPT !.d.competing = FALSE]
<1>1. /\ DOMAIN t = DOMAIN s /\ DOMAIN t.d = DOMAIN s.d /\ t.a = s.a /\ t.g = s.g
      /\ t.d.needs = s.d.needs /\ t.d.flushing = s.d.flushing /\ t.d.mode = s.d.mode
      /\ t.d.attempt = s.d.attempt
  BY DEF Shape
<1>2. Calm(s) = t
  BY DEF Calm
<1> HIDE DEF t
<1> QED
  BY <1>1, <1>2, TameQuiet

LEMMA TameCancel ==
  ASSUME NEW s, Shape(s), NEW keep \in BOOLEAN
  PROVE  Tame(s, Cancel(s, keep)) /\ (keep => Cancel(s, keep).d = s.d) /\ Cancel(s, keep).g = s.g
         /\ Cancel(s, keep).d.mode = s.d.mode
<1> DEFINE discards == \E i \in DOMAIN s.a.inbox : Reserved(s, s.a.inbox[i])
           empties == s.a.at = "maintenance" /\ s.a.inbox # <<>>
           marked == [s.d.attempt EXCEPT !.cancelled = @ \/ discards]
           emptied == [s EXCEPT !.a.inbox = <<>>, !.a.latched = FALSE, !.a.emptied = @ \/ empties,
                                !.d.attempt.cancelled = @ \/ discards]
           cleared == IF keep THEN s ELSE emptied
           done == [cleared EXCEPT !.a.aborted = @ \/ s.a.at # "idle"]
<1>1. s.d.attempt = NoAttempt => ~discards
  BY NoneReserved
<1>2. DOMAIN marked = DOMAIN s.d.attempt
  OBVIOUS
<1>3. s.d.attempt = NoAttempt => marked = NoAttempt
  BY <1>1, NoneMarked
<1>4. /\ DOMAIN emptied = DOMAIN s /\ emptied.g = s.g /\ DOMAIN emptied.a = DOMAIN s.a
      /\ emptied.d = [s.d EXCEPT !.attempt = marked]
  BY DEF Shape
<1> HIDE DEF marked, emptied, discards
<1>5. /\ DOMAIN emptied.d = DOMAIN s.d /\ emptied.d.needs = s.d.needs
      /\ emptied.d.flushing = s.d.flushing /\ emptied.d.mode = s.d.mode /\ emptied.d.attempt = marked
  BY <1>4 DEF Shape
<1>6. Tame(s, emptied)
  BY <1>2, <1>3, <1>4, <1>5, TameQuiet
<1>7. /\ Tame(s, cleared) /\ (keep => cleared.d = s.d) /\ cleared.g = s.g
      /\ cleared.d.mode = s.d.mode /\ Shape(cleared)
  BY <1>4, <1>5, <1>6, TameSelf DEF Tame
<1>8. Cancel(s, keep) = done
  BY DEF Cancel, emptied, discards
<1> HIDE DEF cleared
<1>9. /\ DOMAIN done = DOMAIN cleared /\ done.g = cleared.g /\ done.d = cleared.d
      /\ DOMAIN done.a = DOMAIN cleared.a
  BY <1>7 DEF Shape
<1> HIDE DEF done
<1>10. Tame(cleared, done)
  BY <1>7, <1>9, TameQuiet
<1> QED
  BY <1>7, <1>8, <1>9, <1>10, TameTrans

\* A change takes the trust away: the driver hears of it, or is not on.
LEMMA TameChanged ==
  ASSUME NEW s, Shape(s), NEW g, NEW hostPause \in BOOLEAN
  PROVE  Tame(s, Changed(s, g, hostPause)) /\ Changed(s, g, hostPause).g = g
<1> DEFINE new == [s EXCEPT !.g = g, !.d.needs = @ \/ Listens(s)]
           stopped == IF Listens(s) /\ hostPause THEN StopTurn(new) ELSE new
<1>1. /\ DOMAIN new = DOMAIN s /\ new.g = g /\ new.a = s.a /\ DOMAIN new.d = DOMAIN s.d
      /\ new.d.attempt = s.d.attempt /\ new.d.mode = s.d.mode /\ new.d.flushing = s.d.flushing
      /\ new.d.needs = (s.d.needs \/ Listens(s))
  BY DEF Shape
<1>2. Changed(s, g, hostPause) = Request(stopped)
  BY DEF Changed
<1> HIDE DEF new
<1>3. ~Trusts(new)
  BY <1>1 DEF Trusts, Listens
<1>4. Tame(s, new) /\ Shape(new)
  BY <1>1, <1>3 DEF Tame, Calmer, Keeps, Shape
<1>5. Tame(new, stopped) /\ stopped.g = g
  BY <1>1, <1>4, TameCancel, TameSelf DEF StopTurn
<1> HIDE DEF stopped
<1>6. Tame(stopped, Request(stopped)) /\ Request(stopped).g = stopped.g
  BY <1>5, TameRequest DEF Tame, Request, Shape
<1> QED
  BY <1>2, <1>4, <1>5, <1>6, TameTrans

LEMMA TameInserted ==
  ASSUME NEW s, Shape(s), NEW m
  PROVE  Tame(s, Inserted(s, m))
<1> DEFINE new == [s EXCEPT !.a.inbox = Append(@, m)]
           x == s.d.attempt.stale \/ s.d.attempt.phase = "queued"
           stale == [s.d.attempt EXCEPT !.stale = x]
           other == [new EXCEPT !.d.competing = TRUE,
                                !.d.attempt.stale = @ \/ s.d.attempt.phase = "queued"]
<1>1. s.d.attempt = NoAttempt => stale = NoAttempt
  BY NoneMarked
<1>2. Inserted(s, m) \in {new, other}
  BY DEF Inserted
<1>3. DOMAIN stale = DOMAIN s.d.attempt
  OBVIOUS
<1>4. DOMAIN new = DOMAIN s /\ new.g = s.g /\ new.d = s.d /\ DOMAIN new.a = DOMAIN s.a
  BY DEF Shape
<1> HIDE DEF new
<1>5. /\ DOMAIN other = DOMAIN s /\ other.g = s.g /\ other.a = new.a
      /\ DOMAIN other.d = DOMAIN s.d /\ other.d.mode = s.d.mode /\ other.d.attempt = stale
      /\ other.d.needs = s.d.needs /\ other.d.flushing = s.d.flushing
  BY <1>4 DEF Shape
<1> HIDE DEF other, stale
<1>6. Tame(s, new)
  BY <1>4, TameQuiet
<1>7. Tame(s, other)
  BY <1>1, <1>3, <1>4, <1>5, TameQuiet
<1> QED
  BY <1>2, <1>6, <1>7

LEMMA TameTurn ==
  ASSUME NEW s, Shape(s)
  PROVE  Tame(s, Turn(s))
<1> DEFINE m == IF s.a.inbox = <<>> THEN None ELSE Head(s.a.inbox)
           turn == [inbox |-> IF m = None THEN <<>> ELSE Tail(s.a.inbox),
                    at |-> "assembling", claimed |-> m,
                    aborted |-> FALSE, latched |-> FALSE, emptied |-> s.a.emptied]
           new == [s EXCEPT !.a = turn]
           claimed == [s.d.attempt EXCEPT !.phase = "claimed"]
           owns == [new EXCEPT !.d.attempt.phase = "claimed"]
<1>1. DOMAIN turn = DOMAIN s.a /\ DOMAIN claimed = DOMAIN s.d.attempt
  BY DEF Shape
<1>2. Turn(s) = IF Reserved(s, m) THEN owns ELSE new
  BY DEF Turn
<1> HIDE DEF turn, m
<1>3. /\ DOMAIN new = DOMAIN s /\ new.g = s.g /\ new.d = s.d /\ new.a = turn
      /\ DOMAIN owns = DOMAIN s /\ owns.g = s.g /\ owns.a = turn
      /\ owns.d = [s.d EXCEPT !.attempt = claimed]
  BY DEF Shape
<1> HIDE DEF new, owns, claimed
<1>4. Tame(s, new)
  BY <1>1, <1>3, TameQuiet
<1>5. /\ DOMAIN owns.d = DOMAIN s.d /\ owns.d.mode = s.d.mode /\ owns.d.attempt = claimed
      /\ owns.d.needs = s.d.needs /\ owns.d.flushing = s.d.flushing
  BY <1>3 DEF Shape
<1>6. s.d.attempt # NoAttempt => Tame(s, owns)
  BY <1>1, <1>3, <1>5, TameQuiet
<1> QED
  BY <1>2, <1>4, <1>6, NoneReserved

LEMMA TurnGoal ==
  ASSUME NEW s, DOMAIN s = {"g", "d", "a"}
  PROVE  Turn(s).g = s.g
  BY DEF Turn

LEMMA TameSend ==
  ASSUME NEW s, Shape(s), NEW m
  PROVE  Tame(s, Send(s, m))
<1> DEFINE new == Inserted(s, m)
           x == s.a.at = "maintenance" \/ s.a.aborted
           latched == [new EXCEPT !.a.latched = @ \/ x]
<1>1. Tame(s, new) /\ Shape(new)
  BY TameInserted DEF Tame
<1>2. Send(s, m) = IF s.a.at = "idle" THEN Turn(new) ELSE latched
  BY DEF Send
<1> HIDE DEF new
<1>3. /\ DOMAIN latched = DOMAIN new /\ latched.g = new.g /\ latched.d = new.d
      /\ DOMAIN latched.a = DOMAIN new.a
  BY <1>1 DEF Shape
<1> HIDE DEF latched
<1>4. Tame(new, latched) /\ Tame(new, Turn(new))
  BY <1>1, <1>3, TameQuiet, TameTurn
<1> QED
  BY <1>1, <1>2, <1>4, TameTrans

LEMMA TameOnIdle ==
  ASSUME NEW s, Shape(s)
  PROVE  Tame(s, OnIdle(s))
<1> DEFINE calm == Calm(s)
           dropped == Drop(calm)
           paused == Changed(dropped, CHOOSE g \in Pause(s.g) : TRUE, FALSE)
<1>1. Tame(s, calm) /\ Shape(calm)
  BY TameCalm DEF Tame
<1>2. OnIdle(s) = IF ~Listens(s) THEN s ELSE IF s.g.broken THEN calm
                  ELSE Request(IF CutOff(s) THEN paused ELSE calm)
  BY DEF OnIdle
<1> HIDE DEF calm
<1>3. Tame(calm, dropped) /\ Shape(dropped)
  BY <1>1, TameDrop DEF Tame
<1> HIDE DEF dropped
<1>4. Tame(dropped, paused) /\ Shape(paused)
  BY <1>3, TameChanged DEF Tame
<1> HIDE DEF paused
<1>5. Tame(paused, Request(paused)) /\ Tame(calm, Request(calm))
  BY <1>1, <1>4, TameRequest
<1>6. Tame(s, paused)
  BY <1>1, <1>3, <1>4, TameTrans
<1> QED
  BY <1>1, <1>2, <1>5, <1>6, TameTrans, TameSelf

LEMMA TameGoIdle ==
  ASSUME NEW s, Shape(s)
  PROVE  Tame(s, GoIdle(s))
<1> DEFINE rest == [s EXCEPT !.a.at = "idle", !.a.claimed = None, !.a.aborted = FALSE,
                             !.a.emptied = FALSE]
<1>1. DOMAIN rest = DOMAIN s /\ rest.g = s.g /\ rest.d = s.d /\ DOMAIN rest.a = DOMAIN s.a
  BY DEF Shape
<1>2. GoIdle(s) = OnIdle(rest)
  BY DEF GoIdle
<1> HIDE DEF rest
<1>3. Tame(s, rest) /\ Shape(rest)
  BY <1>1, TameQuiet DEF Tame
<1> QED
  BY <1>2, <1>3, TameOnIdle, TameTrans

LEMMA TameEndTurn ==
  ASSUME NEW s, Shape(s), GoalOK(s.g), NEW how
  PROVE  Tame(s, EndTurn(s, how))
<1> DEFINE mark == [s.d.attempt EXCEPT !.cancelled = TRUE]
           marked == [s EXCEPT !.d.attempt.cancelled = TRUE]
           stops == IF ~Listens(s) THEN s
                    ELSE CASE how \in {"error", "max-tokens"} -> Disarm(s)
                           [] how = "aborted" ->
                                IF s.d.attempt.phase \in {"claimed", "admitted"} THEN marked
                                ELSE Disarm(s)
                           [] OTHER -> s
<1>1. /\ DOMAIN marked = DOMAIN s /\ marked.g = s.g /\ marked.a = s.a /\ DOMAIN marked.d = DOMAIN s.d
      /\ marked.d.mode = s.d.mode /\ marked.d.needs = s.d.needs
      /\ marked.d.flushing = s.d.flushing /\ marked.d.attempt = mark
  BY DEF Shape
<1>2. EndTurn(s, how) \in {Turn(stops), GoIdle(stops)}
  BY DEF EndTurn
<1> HIDE DEF marked
<1>3. stops \in {s, Disarm(s)} \/ (s.d.attempt # NoAttempt /\ stops = marked)
  <2>1. CASE ~Listens(s)
    BY <2>1
  <2>2. CASE Listens(s) /\ how \in {"error", "max-tokens"}
    BY <2>2
  <2>3. CASE Listens(s) /\ how = "aborted" /\ s.d.attempt.phase \in {"claimed", "admitted"}
    <3>1. s.d.attempt # NoAttempt
      BY <2>3, NoneMarked
    <3> QED
      BY <2>3, <3>1
  <2>5. CASE Listens(s) /\ how = "aborted" /\ s.d.attempt.phase \notin {"claimed", "admitted"}
    BY <2>5
  <2>4. CASE Listens(s) /\ how \notin {"error", "max-tokens", "aborted"}
    BY <2>4
  <2> QED
    BY <2>1, <2>2, <2>3, <2>4, <2>5
<1> HIDE DEF stops
<1>6. DOMAIN mark = DOMAIN s.d.attempt
  OBVIOUS
<1>4. s.d.attempt # NoAttempt => Tame(s, marked)
  BY <1>1, <1>6, TameQuiet
<1>5. Tame(s, stops) /\ Shape(stops)
  BY <1>3, <1>4, TameSelf, TameDisarm DEF Tame
<1> QED
  BY <1>2, <1>5, TameTurn, TameGoIdle, TameTrans

----------------------------------------------------------------------------
(* The actions again.                                                      *)

LEMMA Initially ==
  ASSUME Inv
  PROVE  /\ Shape(State) /\ GoalOK(goal) /\ State.g = goal /\ State.d = driver /\ State.a = agent
  BY Shapes DEF Inv, State

LEMMA Moved ==
  ASSUME NEW at
  PROVE  Inv => Tame(State, [State EXCEPT !.a.at = at])
<1> SUFFICES ASSUME Inv PROVE Tame(State, [State EXCEPT !.a.at = at])
  OBVIOUS
<1> DEFINE t == [State EXCEPT !.a.at = at]
<1>1. DOMAIN t = DOMAIN State /\ t.g = State.g /\ t.d = State.d /\ DOMAIN t.a = DOMAIN State.a
  BY Initially DEF Shape
<1> HIDE DEF t
<1> QED
  BY <1>1, Initially, TameQuiet DEF t

LEMMA TameRefuse ==
  ASSUME Inv
  PROVE  Tame(State, Refuse(State)) /\ Tame(State, Drop(State)) /\ Drop(State).g = goal
         /\ \A how : /\ Tame(State, EndTurn(State, how))
                     /\ Tame(State, EndTurn(Drop(State), how))
                     /\ Tame(State, EndTurn(Request(State), how))
                     /\ Tame(State, EndTurn(Request(Drop(State)), how))
<1>1. Shape(State) /\ GoalOK(goal) /\ State.g = goal
  BY Initially
<1>2. Tame(State, Drop(State)) /\ Drop(State).g = goal /\ Shape(Drop(State))
  BY <1>1, TameDrop DEF Drop, Shape, Tame
<1>3. ASSUME NEW s, Shape(s) PROVE Tame(s, Request(s)) /\ Request(s).g = s.g /\ Shape(Request(s))
  BY <1>3, TameRequest DEF Request, Shape, Tame
<1>4. Tame(State, Request(Drop(State))) /\ Request(Drop(State)).g = goal
  BY <1>2, <1>3, TameTrans
<1>5. ASSUME NEW s, Tame(State, s), s.g = goal, NEW how PROVE Tame(State, EndTurn(s, how))
  BY <1>1, <1>5, TameEndTurn, TameTrans DEF Tame
<1>6. Tame(State, State)
  BY <1>1, TameSelf
<1> QED
  BY <1>1, <1>2, <1>3, <1>4, <1>5, <1>6 DEF Refuse

LEMMA TameTurnSteps ==
  ASSUME Inv, Assembled \/ Enters \/ Throws \/ Fails \/ Completes
  PROVE  \E t : Become(t) /\ Tame(State, t)
<1> DEFINE h == [State EXCEPT !.a.at = "hooked"]
           e == [State EXCEPT !.a.at = "entering"]
<1>1. Tame(State, h) /\ Tame(State, e)
  BY Moved
<1>2. CASE Assembled
  <2>1. \/ Become(EndTurn(State, "aborted")) \/ Become(EndTurn(State, "empty"))
        \/ Become(Fence(State)) \/ Become(h)
    BY <1>2 DEF Assembled
  <2>2. Fence(State) \in {h, Refuse(State), EndTurn(Request(State), "blocked")}
    BY DEF Fence
  <2> HIDE DEF h
  <2> QED
    BY <1>1, <2>1, <2>2, TameRefuse
<1>3. CASE Enters
  <2>1. Become(EndTurn(State, "aborted")) \/ Become(Refuse(State)) \/ Become(e)
    BY <1>3 DEF Enters
  <2> HIDE DEF e
  <2> QED
    BY <1>1, <2>1, TameRefuse
<1>4. CASE Throws
  <2>1. \/ Become(EndTurn(State, "aborted")) \/ Become(EndTurn(State, "error"))
        \/ Become(EndTurn(Request(Drop(State)), "error"))
    BY <1>4 DEF Throws
  <2> QED
    BY <2>1, TameRefuse
<1>5. CASE Fails \/ Completes
  <2>1. \E how : Become(EndTurn(State, how))
    BY <1>5 DEF Fails, Completes
  <2> QED
    BY <2>1, TameRefuse
<1> QED
  BY <1>2, <1>3, <1>4, <1>5

LEMMA TameVetoed ==
  ASSUME Inv, Vetoed
  PROVE  \E t : Become(t) /\ Tame(State, t)
<1> DEFINE blocked == CHOOSE g \in Block(goal) : TRUE
           block == Changed(Drop(State), blocked, FALSE)
<1>1. GoalOK(goal) /\ Tame(State, Drop(State)) /\ Shape(Drop(State))
  BY Initially, TameRefuse DEF Tame
<1>2. Continues(goal) => GoalOK(blocked)
  BY <1>1, Stops, Mutations
<1>3. \/ Become(EndTurn(State, "aborted")) \/ Become(EndTurn(State, "blocked"))
      \/ Become(EndTurn(Drop(State), "blocked"))
      \/ (Continues(goal) /\ Become(EndTurn(block, "blocked")))
  BY DEF Vetoed
<1> HIDE DEF blocked
<1>4. Tame(Drop(State), block) /\ block.g = blocked /\ Shape(block)
  BY <1>1, TameChanged DEF Tame
<1> HIDE DEF block
<1>5. Continues(goal) => Tame(State, EndTurn(block, "blocked"))
  BY <1>1, <1>2, <1>4, TameEndTurn, TameTrans
<1> QED
  BY <1>3, <1>5, TameRefuse

LEMMA TameAdmits ==
  ASSUME Inv, Admits
  PROVE  \E t : Become(t) /\ Tame(State, t)
<1> DEFINE m == agent.claimed
           s == [State EXCEPT !.a.at = "stepping", !.g = IF m.kind = "round" THEN Entered(@, m) ELSE @]
           t == [s EXCEPT !.d.attempt.phase = "admitted"]
           e == IF m.kind = "round" THEN Entered(goal, m) ELSE goal
           own == Listens(State) /\ m.kind = "round" /\ m = driver.attempt.message
<1>1. Become(s) \/ (own /\ Become(t))
  BY DEF Admits, Listens, State
<1>2. Shape(State) /\ GoalOK(goal) /\ State.d = driver
  BY Initially
<1>3. e.ref = goal.ref /\ (Continues(e) => Continues(goal))
  BY <1>2 DEF Entered, Continues, GoalOK, Goals
<1>4. DOMAIN s = DOMAIN State /\ s.g = e /\ s.d = driver /\ DOMAIN s.a = DOMAIN State.a
  BY <1>2 DEF Shape, State
<1> HIDE DEF s, e
<1>5. Tame(State, s) /\ Shape(s)
  BY <1>2, <1>3, <1>4 DEF Tame, Calmer, Keeps, Trusts, Shape, State
<1>6. own => driver.attempt # NoAttempt
  BY DEF NoAttempt, None
<1>7. /\ DOMAIN t = DOMAIN s /\ t.g = s.g /\ t.a = s.a /\ DOMAIN t.d = DOMAIN s.d
      /\ t.d.mode = s.d.mode /\ t.d.needs = s.d.needs /\ t.d.flushing = s.d.flushing
      /\ t.d.attempt = [s.d.attempt EXCEPT !.phase = "admitted"]
  BY <1>5 DEF Shape
<1>8. DOMAIN [s.d.attempt EXCEPT !.phase = "admitted"] = DOMAIN s.d.attempt
  OBVIOUS
<1> HIDE DEF t
<1>9. own => Tame(State, t)
  BY <1>4, <1>5, <1>6, <1>7, <1>8, TameQuiet, TameTrans
<1> QED
  BY <1>1, <1>5, <1>9

LEMMA TamePrepared ==
  ASSUME Inv, Prepared \/ Wakes \/ runMaintenance
  PROVE  \E t : Become(t) /\ Tame(State, t)
<1>1. CASE Prepared
  BY <1>1, Moved DEF Prepared
<1>2. CASE Wakes
  <2> DEFINE idle == [State EXCEPT !.a.at = "idle", !.a.aborted = FALSE, !.a.latched = FALSE]
  <2>1. DOMAIN idle = DOMAIN State /\ idle.g = State.g /\ idle.d = State.d
        /\ DOMAIN idle.a = DOMAIN State.a
    BY Initially DEF Shape
  <2>2. Become(Turn(idle)) \/ Become(idle)
    BY <1>2 DEF Wakes, Woken
  <2> HIDE DEF idle
  <2>3. Tame(State, idle) /\ Tame(State, Turn(idle))
    BY <2>1, Initially, TameQuiet, TameTurn, TameTrans DEF Tame
  <2> QED
    BY <2>2, <2>3
<1>3. CASE runMaintenance
  <2> DEFINE t == [State EXCEPT !.a.at = "maintenance"]
  <2>1. t.g = goal /\ t.d = driver /\ t.a = [agent EXCEPT !.at = "maintenance"]
    BY DEF State
  <2>2. Tame(State, t)
    BY Moved
  <2> HIDE DEF t
  <2> QED
    BY <1>3, <2>1, <2>2 DEF runMaintenance, Become
<1> QED
  BY <1>1, <1>2, <1>3

LEMMA TameOutside ==
  ASSUME Inv, PersonPrompts \/ PersonCancels \/ PersonPauses \/ PersonChanges \/ ModelChanges
  PROVE  \E t : Become(t) /\ Tame(State, t)
<1>1. CASE PersonPrompts
  BY <1>1, Initially, TameSend DEF PersonPrompts
<1>2. CASE PersonCancels
  BY <1>2, Initially, TameCancel DEF PersonCancels
<1>3. CASE PersonPauses \/ PersonChanges \/ ModelChanges
  <2>1. (\E g : Become(Changed(State, g, TRUE))) \/ (\E g : Become(Changed(State, g, FALSE)))
    BY <1>3 DEF PersonPauses, PersonChanges, ModelChanges
  <2>2. Shape(State) /\ TRUE \in BOOLEAN /\ FALSE \in BOOLEAN
    BY Initially
  <2>3. \A g : Tame(State, Changed(State, g, TRUE)) /\ Tame(State, Changed(State, g, FALSE))
    BY <2>2, TameChanged
  <2>4. CASE \E g : Become(Changed(State, g, TRUE))
    BY ONLY <2>3, <2>4, Zenon
  <2>5. CASE \E g : Become(Changed(State, g, FALSE))
    BY ONLY <2>3, <2>5, Zenon
  <2> QED
    BY <2>1, <2>4, <2>5, Zenon
<1> QED
  BY <1>1, <1>2, <1>3

LEMMA TameUnload ==
  ASSUME Inv, Unload
  PROVE  \E t : Become(t) /\ Tame(State, t)
<1> DEFINE off == Disarm(State)
           s == [off EXCEPT !.d.mode = "stopping"]
           attempted == driver.attempt # NoAttempt
           stale == [s EXCEPT !.d.attempt.stale = attempted]
           cleared == Cancel(stale, FALSE)
           drains == [cleared EXCEPT !.d.mode = "draining"]
<1>1. Become(drains) \/ Become(stale)
  BY DEF Unload
<1>2. Shape(State) /\ GoalOK(goal) /\ State.g = goal /\ State.d = driver
  BY Initially
<1>3. Tame(State, off) /\ Shape(off) /\ off.d = driver
  BY <1>2, TameDisarm DEF Tame, Disarm, Shape
<1> HIDE DEF off
<1>4. /\ DOMAIN s = DOMAIN off /\ s.g = off.g /\ s.a = off.a /\ DOMAIN s.d = DOMAIN off.d
      /\ s.d.mode = "stopping" /\ s.d.attempt = driver.attempt /\ s.d.flushing = off.d.flushing
  BY <1>3 DEF Shape
<1> HIDE DEF s
<1>5. Tame(off, s) /\ Shape(s)
  BY <1>3, <1>4 DEF Tame, Calmer, Keeps, Trusts, Shape
<1>6. /\ DOMAIN stale = DOMAIN s /\ stale.g = s.g /\ stale.a = s.a /\ DOMAIN stale.d = DOMAIN s.d
      /\ stale.d.mode = s.d.mode /\ stale.d.needs = s.d.needs /\ stale.d.flushing = s.d.flushing
      /\ stale.d.attempt = [s.d.attempt EXCEPT !.stale = attempted]
  BY <1>5 DEF Shape
<1>7. s.d.attempt = NoAttempt => [s.d.attempt EXCEPT !.stale = attempted] = NoAttempt
  <2> HAVE s.d.attempt = NoAttempt
  <2>1. attempted = FALSE
    BY <1>4
  <2> QED
    BY <2>1, NoneMarked
<1>8. DOMAIN [s.d.attempt EXCEPT !.stale = attempted] = DOMAIN s.d.attempt
  OBVIOUS
<1> HIDE DEF stale, attempted
<1>9. Tame(s, stale) /\ Shape(stale)
  BY <1>5, <1>6, <1>7, <1>8, TameQuiet DEF Tame
<1>10. Tame(stale, cleared) /\ Shape(cleared)
  BY <1>9, TameCancel DEF Tame
<1> HIDE DEF cleared
<1>11. /\ DOMAIN drains = DOMAIN cleared /\ drains.g = cleared.g /\ drains.a = cleared.a
       /\ DOMAIN drains.d = DOMAIN cleared.d /\ drains.d.mode = "draining"
       /\ drains.d.attempt = cleared.d.attempt /\ drains.d.flushing = cleared.d.flushing
  BY <1>10 DEF Shape
<1> HIDE DEF drains
<1>12. Tame(cleared, drains)
  BY <1>10, <1>11 DEF Tame, Calmer, Keeps, Trusts, Shape
<1>13. Tame(State, stale)
  BY <1>3, <1>5, <1>9, TameTrans
<1>14. Tame(State, drains)
  BY <1>10, <1>12, <1>13, TameTrans
<1> QED
  BY <1>1, <1>13, <1>14

----------------------------------------------------------------------------
(* The pass, which is not tame: it reserves.                               *)

\* A reservation is made only by a driver that trusts.
LEMMA ProceedTrusts ==
  ASSUME NEW s, IsState(s), GoalOK(s.g), ReadyToDrive(s)
  PROVE  /\ Shape(Proceed(s)) /\ Keeps(s, Proceed(s))
         /\ (s.d.attempt = NoAttempt /\ Proceed(s).d.attempt # NoAttempt)
                => Continues(s.g) /\ Proceed(s).g.ref = s.g.ref
<1>5. Shape(s) /\ s.a.at \in {"idle", "maintenance"}
  BY Shapes, Unbusy
<1>1. CASE s.d.attempt # NoAttempt
  <2> DEFINE t == [Drop(s) EXCEPT !.d.needs = TRUE]
  <2>1. Tame(s, Drop(s)) /\ Shape(Drop(s))
    BY <1>5, TameDrop DEF Tame
  <2>2. /\ Shape(t) /\ t.d.needs = TRUE /\ t.d.flushing = s.d.flushing
    BY <2>1 DEF Shape, Tame, Calmer, Keeps
  <2>3. Proceed(s) = Request(t)
    BY <1>1 DEF Proceed
  <2> HIDE DEF t
  <2>4. Keeps(s, t)
    BY <2>2 DEF Keeps, Trusts
  <2>5. Tame(t, Request(t))
    BY <2>2, TameRequest
  <2> QED
    BY <1>1, <2>3, <2>4, <2>5 DEF Tame, Calmer, Keeps
<1>2. CASE s.d.attempt = NoAttempt /\ ~Continues(s.g)
  BY <1>2, <1>5, TameSelf DEF Proceed, Tame, Calmer
<1>3. CASE s.d.attempt = NoAttempt /\ Continues(s.g) /\ Exhausted(s.g)
  BY <1>3, <1>5, TameChanged DEF Proceed, Tame, Calmer
<1>4. CASE s.d.attempt = NoAttempt /\ Continues(s.g) /\ ~Exhausted(s.g)
  <2> DEFINE m == Round(s.g.ref, s.g.rounds + 1, FreshId(s))
             a == [NoAttempt EXCEPT !.message = m, !.phase = "queued"]
             t == [s EXCEPT !.d.attempt = a]
  <2>1. Proceed(s) = Send(t, m)
    BY <1>4 DEF Proceed, Reserve
  <2>6. Proceed(s).g = s.g
    BY <1>4, <1>5, ReserveStep DEF Proceed
  <2>2. DOMAIN a = DOMAIN NoAttempt
    OBVIOUS
  <2> HIDE DEF m, a
  <2>3. /\ DOMAIN t = DOMAIN s /\ t.g = s.g /\ t.a = s.a /\ DOMAIN t.d = DOMAIN s.d
        /\ t.d.mode = s.d.mode /\ t.d.needs = s.d.needs /\ t.d.flushing = s.d.flushing
        /\ t.d.attempt = a
    BY <1>5 DEF Shape
  <2> HIDE DEF t
  <2>4. Shape(t) /\ Keeps(s, t)
    BY <1>5, <2>2, <2>3, NoneMarked DEF Shape, Keeps, Trusts
  <2>5. Tame(t, Send(t, m))
    BY <2>4, TameSend
  <2> QED
    BY <1>4, <2>1, <2>4, <2>5, <2>6 DEF Tame, Calmer, Keeps
<1> QED
  BY <1>1, <1>2, <1>3, <1>4

\* What has to be shown of a step.
Reserved1st == Covered' /\ (Reserves => unsaved'["ref"] = "no")

\* A pass, or the end of one, that does not publish a change unless it says so.
LEMMA PassCovers ==
  ASSUME Inv, Covered, NEW s, s.g = goal, s.d.mode = driver.mode, s.d.attempt = driver.attempt,
         NEW t, Become(t), Keeps(s, t), Trusts(s) => Trusts(State),
         (driver.attempt = NoAttempt /\ t.d.attempt # NoAttempt) => Trusts(s) /\ t.g.ref = s.g.ref,
         unsaved'["ref"] \in {"no", "yes", "flushing"},
         Trusts(State) /\ goal'.ref = goal.ref => unsaved'["ref"] = "no"
  PROVE  Reserved1st
<1>1. goal' = t.g /\ driver' = t.d /\ State' = [g |-> t.g, d |-> t.d, a |-> t.a]
  BY DEF Become, State
<1>2. Trusts(State)' => Trusts(t)
  BY <1>1 DEF Trusts
<1>3. Trusts(t) => Trusts(s) /\ goal'.ref = goal.ref
  BY <1>1 DEF Keeps
<1>4. Covered'
  BY <1>2, <1>3 DEF Covered
<1>5. Reserves => unsaved'["ref"] = "no"
  BY <1>1 DEF Reserves
<1> QED
  BY <1>4, <1>5 DEF Reserved1st

LEMMA DriveCovers ==
  ASSUME Inv, Covered, Drive
  PROVE  Reserved1st
<1> DEFINE s == [State EXCEPT !.d.requested = FALSE]
           f == [s EXCEPT !.d.needs = FALSE, !.d.flushing = TRUE]
<1>1. Shape(State) /\ State.g = goal /\ State.d = driver /\ State.a = agent
  BY Initially
<1>2. /\ IsState(s) /\ s.g = goal /\ s.a = agent /\ s.d.attempt = driver.attempt
      /\ s.d.mode = driver.mode /\ s.d.needs = driver.needs /\ s.d.flushing = driver.flushing
  BY DEF Inv, IsState, State
<1>3. \/ /\ Become(f)
         /\ unsaved' = [x \in {"ref", "rounds"} |-> IF unsaved[x] = "yes" THEN "flushing" ELSE unsaved[x]]
      \/ /\ Become(Proceed(s)) /\ ReadyToDrive(s) /\ ~s.d.needs /\ Saves
      \/ /\ Become(s) /\ Saves
  BY DEF Drive
<1>4. driver.mode = "on" /\ ~driver.flushing /\ GoalOK(goal)
  BY DEF Drive, Inv
<1> HIDE DEF s
<1>5. CASE Become(f) /\ unsaved' = [x \in {"ref", "rounds"} |->
                                      IF unsaved[x] = "yes" THEN "flushing" ELSE unsaved[x]]
  <2>1. f.g = goal /\ f.d.attempt = driver.attempt /\ f.d.flushing = TRUE
    BY <1>2 DEF IsState
  <2>2. driver'.attempt = driver.attempt /\ driver'.flushing = TRUE
    BY <1>5, <2>1 DEF Become
  <2>3. unsaved'["ref"] = IF unsaved["ref"] = "yes" THEN "flushing" ELSE unsaved["ref"]
    BY <1>5
  <2> QED
    BY <2>2, <2>3 DEF Reserved1st, Covered, Reserves
<1>6. Trusts(s) <=> Trusts(State)
  BY <1>1, <1>2 DEF Trusts
<1>7. ASSUME Saves
      PROVE  /\ unsaved'["ref"] \in {"no", "yes", "flushing"}
             /\ Trusts(State) /\ goal'.ref = goal.ref => unsaved'["ref"] = "no"
  BY <1>4, <1>7 DEF Saves, Covered
<1>8. CASE Become(Proceed(s)) /\ ReadyToDrive(s) /\ ~s.d.needs /\ Saves
  <2>1. /\ Keeps(s, Proceed(s))
        /\ (s.d.attempt = NoAttempt /\ Proceed(s).d.attempt # NoAttempt)
               => Continues(s.g) /\ Proceed(s).g.ref = s.g.ref
    BY <1>2, <1>4, <1>8, ProceedTrusts
  <2>2. Continues(s.g) => Trusts(s)
    BY <1>2, <1>4, <1>8 DEF Trusts
  <2> DEFINE t == Proceed(s)
  <2>3. Become(t) /\ Keeps(s, t)
        /\ ((driver.attempt = NoAttempt /\ t.d.attempt # NoAttempt) => Trusts(s) /\ t.g.ref = s.g.ref)
    BY <1>2, <1>8, <2>1, <2>2
  <2> HIDE DEF t
  <2> QED
    BY <1>2, <1>6, <1>7, <1>8, <2>3, PassCovers
<1>9. CASE Become(s) /\ Saves
  BY <1>2, <1>6, <1>7, <1>9, PassCovers DEF Keeps
<1> QED
  BY <1>3, <1>5, <1>8, <1>9

\* The flush that ends covers what was unsaved when it began.
LEMMA FlushedCovers ==
  ASSUME Inv, Covered, Flushed
  PROVE  Reserved1st
<1> DEFINE s == [State EXCEPT !.d.flushing = FALSE]
<1>1. Shape(State) /\ State.g = goal /\ State.d = driver /\ State.a = agent
  BY Initially
<1>2. /\ IsState(s) /\ s.g = goal /\ s.a = agent /\ s.d.attempt = driver.attempt
      /\ s.d.mode = driver.mode /\ s.d.needs = driver.needs
  BY DEF Inv, IsState, State
<1>3. \/ /\ Become(IF ReadyAfterCheckpoint(s) THEN Proceed(s) ELSE s)
         /\ unsaved' = [x \in {"ref", "rounds"} |->
                           IF goal'[x] # goal[x] \/ unsaved[x] = "yes" THEN "yes" ELSE "no"]
      \/ /\ Become(Disarm(s))
         /\ unsaved' = [x \in {"ref", "rounds"} |-> IF unsaved[x] = "no" THEN "no" ELSE "yes"]
  BY DEF Flushed
<1>4. GoalOK(goal) /\ Shape(s)
  BY <1>2, Shapes DEF Inv
<1> HIDE DEF s
<1>5. Trusts(s) <=> Trusts(State)
  BY <1>1, <1>2 DEF Trusts
<1>6. CASE /\ Become(IF ReadyAfterCheckpoint(s) THEN Proceed(s) ELSE s)
           /\ unsaved' = [x \in {"ref", "rounds"} |->
                             IF goal'[x] # goal[x] \/ unsaved[x] = "yes" THEN "yes" ELSE "no"]
  <2>1. unsaved'["ref"] = IF goal'.ref # goal.ref \/ unsaved["ref"] = "yes" THEN "yes" ELSE "no"
    BY <1>6
  <2>2. /\ unsaved'["ref"] \in {"no", "yes", "flushing"}
        /\ Trusts(State) /\ goal'.ref = goal.ref => unsaved'["ref"] = "no"
    BY <2>1 DEF Covered
  <2>3. CASE ReadyAfterCheckpoint(s)
    <3> DEFINE t == Proceed(s)
    <3>1. ReadyToDrive(s) /\ ~s.d.needs /\ s.d.mode = "on"
      BY <2>3 DEF ReadyAfterCheckpoint, ReadyToDrive
    <3>2. /\ Keeps(s, t)
          /\ (s.d.attempt = NoAttempt /\ t.d.attempt # NoAttempt) => Continues(s.g) /\ t.g.ref = s.g.ref
      BY <1>2, <1>4, <3>1, ProceedTrusts
    <3>3. Continues(s.g) => Trusts(s)
      BY <3>1 DEF Trusts
    <3>4. Become(t)
      BY <1>6, <2>3
    <3> HIDE DEF t
    <3> QED
      BY <1>2, <1>5, <2>2, <3>2, <3>3, <3>4, PassCovers
  <2>4. CASE ~ReadyAfterCheckpoint(s)
    <3>1. Become(s)
      BY <1>6, <2>4
    <3>2. Keeps(s, s)
      BY DEF Keeps
    <3> QED
      BY <1>2, <1>5, <2>2, <3>1, <3>2, PassCovers
  <2> QED
    BY <2>3, <2>4
<1>7. CASE /\ Become(Disarm(s))
           /\ unsaved' = [x \in {"ref", "rounds"} |-> IF unsaved[x] = "no" THEN "no" ELSE "yes"]
  <2> DEFINE t == Disarm(s)
  <2>1. Tame(s, t) /\ (~goal.broken => ~Continues(t.g))
    BY <1>2, <1>4, TameDisarm
  <2>2. goal.broken => t.g = goal
    BY <1>2 DEF Disarm
  <2>3. ~Continues(t.g)
    BY <2>1, <2>2 DEF Continues
  <2>4. goal' = t.g /\ driver' = t.d
    BY <1>7 DEF Become
  <2> HIDE DEF t
  <2>5. ~Trusts(State)' /\ ~Reserves
    BY <1>2, <2>1, <2>3, <2>4 DEF Trusts, State, Reserves, Tame, Calmer
  <2>6. unsaved'["ref"] \in {"no", "yes"}
    BY <1>7
  <2> QED
    BY <2>5, <2>6 DEF Reserved1st, Covered
<1> QED
  BY <1>3, <1>6, <1>7

\* A tame step reserves nothing and keeps what is covered.
LEMMA TameCovers ==
  ASSUME Inv, Covered, NEW t, Become(t), Tame(State, t),
         unsaved'["ref"] = IF goal'.ref # goal.ref THEN "yes" ELSE unsaved["ref"]
  PROVE  Reserved1st
<1>1. goal' = t.g /\ driver' = t.d /\ State' = [g |-> t.g, d |-> t.d, a |-> t.a]
  BY DEF Become, State
<1>2. Trusts(State)' => Trusts(State) /\ goal'.ref = goal.ref
  BY <1>1, Initially DEF Trusts, Tame, Calmer, Keeps
<1>3. driver'.flushing = driver.flushing /\ ~Reserves
  BY <1>1, Initially DEF Tame, Calmer, Keeps, Reserves
<1> QED
  BY <1>2, <1>3 DEF Reserved1st, Covered

LEMMA EveryCovers ==
  ASSUME Inv, Covered, [Next]_vars
  PROVE  Covered' /\ (Reserves => unsaved'["ref"] = "no")
<1>0. GoalOK(goal)
  BY DEF Inv
<1>1. CASE Drive \/ Flushed
  BY <1>1, DriveCovers, FlushedCovers DEF Reserved1st
<1>2. CASE \/ Assembled \/ Enters \/ Vetoed \/ Throws \/ Admits \/ Fails \/ Completes
           \/ PersonPrompts \/ PersonCancels \/ PersonPauses \/ PersonChanges \/ ModelChanges \/ Unload
  <2>1. \E t : Become(t) /\ Tame(State, t)
    BY <1>2, TameTurnSteps, TameVetoed, TameAdmits, TameOutside, TameUnload
  <2>2. Saves
    BY <1>2 DEF Assembled, Enters, Vetoed, Throws, Admits, Fails, Completes, PersonPrompts,
       PersonCancels, PersonPauses, PersonChanges, ModelChanges, Unload
  <2>3. unsaved'["ref"] = IF goal'.ref # goal.ref THEN "yes" ELSE unsaved["ref"]
    BY <2>2 DEF Saves
  <2> QED
    BY <2>1, <2>3, TameCovers DEF Reserved1st
<1>3. CASE Prepared \/ Wakes \/ runMaintenance
  <2>1. PICK t : Become(t) /\ Tame(State, t)
    BY <1>3, TamePrepared
  <2>2. unsaved' = unsaved /\ goal' = goal
    <3>1. CASE Prepared
      BY <3>1 DEF Prepared, Become, State
    <3>2. CASE Wakes
      <4> DEFINE idle == [State EXCEPT !.a.at = "idle", !.a.aborted = FALSE, !.a.latched = FALSE]
      <4>1. DOMAIN idle = {"g", "d", "a"} /\ idle.g = goal /\ (Become(Turn(idle)) \/ Become(idle)) /\ unsaved' = unsaved
        BY <3>2 DEF Wakes, Woken, State
      <4> HIDE DEF idle
      <4>2. Turn(idle).g = goal
        BY <4>1, TurnGoal
      <4> QED
        BY <4>1, <4>2 DEF Become
    <3>3. CASE runMaintenance
      BY <3>3 DEF runMaintenance
    <3> QED
      BY <1>3, <3>1, <3>2, <3>3
  <2> QED
    BY <2>1, <2>2, TameCovers DEF Reserved1st
<1>4. CASE Unloaded
  <2>1. driver'.mode = "off" /\ driver'.attempt = NoAttempt /\ unsaved' = unsaved
    BY <1>4, Fresh DEF Unloaded
  <2> QED
    BY <2>1 DEF Covered, Trusts, State, Reserves
<1>5. CASE Load
  <2> DEFINE fresh == [State EXCEPT !.d = FreshDriver]
  <2>1. Shape(fresh) /\ fresh.g = goal /\ fresh.d = FreshDriver
    BY Fresh, Initially, NoneMarked DEF Shape
  <2>2. Become(Disarm(fresh)) /\ Saves
    BY <1>5 DEF Load
  <2> HIDE DEF fresh
  <2>3. Tame(fresh, Disarm(fresh)) /\ (~goal.broken => ~Continues(Disarm(fresh).g))
    BY <1>0, <2>1, TameDisarm
  <2>4. goal.broken => Disarm(fresh).g = goal
    BY <2>1 DEF Disarm
  <2>5. ~Continues(goal') /\ driver'.attempt = NoAttempt
    BY <2>1, <2>2, <2>3, <2>4, Fresh DEF Continues, Become, Tame, Calmer
  <2>6. unsaved'["ref"] \in {"no", "yes", "flushing"}
    BY <2>2 DEF Saves, Covered
  <2> QED
    BY <2>5, <2>6 DEF Covered, Trusts, State, Reserves
<1>6. CASE UNCHANGED vars
  BY <1>6 DEF vars, Covered, Trusts, State, Reserves
<1> QED
  BY <1>1, <1>2, <1>3, <1>4, <1>5, <1>6 DEF Next, AgentSteps

\* A round is reserved only when every change of the goal is stored, whatever
\* is published, paused or unloaded during the checkpoint.
THEOREM ReservedWhenStored == Spec => StoredFirst
<1>1. Init => Covered
  BY DEF Init, Covered, Trusts, Continues, NoGoal, State
<1>2. Inv /\ Covered /\ [Next]_vars => Covered'
  BY EveryCovers
<1>3. Inv /\ Covered /\ [Next]_vars => [Reserves => unsaved'["ref"] = "no"]_vars
  BY EveryCovers
<1> QED
  BY <1>1, <1>2, <1>3, InvHolds, PTL DEF Spec, StoredFirst

=============================================================================
