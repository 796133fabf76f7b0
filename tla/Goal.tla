-------------------------------- MODULE Goal --------------------------------
(***************************************************************************)
(* The goal of a session: the compare-and-set mutations of the goal        *)
(* service (packages/goal/goal/src/index.ts) and the strict replay of the  *)
(* session log that both the service and a restart fold it from (fold.ts). *)
(*                                                                         *)
(* A goal is a record.  ref stands for the pair of id and revision: every  *)
(* mutation moves on to a pair that never occurred before.  op is the      *)
(* operation of its last goal/change.  armed is the permission to          *)
(* continue, which is never stored.  broken is the failure that the fold   *)
(* keeps for good once the log holds a round it refuses.                   *)
(***************************************************************************)
EXTENDS Naturals

CONSTANT MaxLimit       \* the largest cap on rounds that is asked for

ASSUME LimitAssumption == MaxLimit \in Nat \ {0}

Phases == {"none", "active", "paused", "blocked", "complete"}

Operations == {"create", "edit", "pause", "resume", "complete", "block", "clear"}

Goals == [phase: Phases, ref: Nat, op: Operations \cup {"none"}, rounds: 0 .. MaxLimit,
          limit: 1 .. MaxLimit, armed: BOOLEAN, broken: BOOLEAN]

NoGoal == [phase |-> "none", ref |-> 0, op |-> "none", rounds |-> 0, limit |-> 1,
           armed |-> FALSE, broken |-> FALSE]

Continues(g) == g.phase = "active" /\ g.armed /\ ~g.broken

Exhausted(g) == g.rounds >= g.limit

----------------------------------------------------------------------------
(* The mutations.  Each is the set of goals it may lead to, empty when the *)
(* service refuses; a caller with a stale ref is refused as well.          *)

Revised(g, op, phase, armed) ==
    [g EXCEPT !.ref = @ + 1, !.op = op, !.phase = phase, !.armed = armed]

Accepts(g, phases) == ~g.broken /\ g.phase \in phases

Create(g) ==
    {[Revised(g, "create", "active", TRUE) EXCEPT !.rounds = 0, !.limit = n] :
        n \in {l \in 1 .. MaxLimit : Accepts(g, {"none", "complete"})}}

Edit(g) ==
    {[Revised(g, "edit", g.phase, g.armed) EXCEPT !.limit = n] :
        n \in {l \in 1 .. MaxLimit : Accepts(g, Phases \ {"none"})}}

Pause(g) == {x \in {Revised(g, "pause", "paused", FALSE)} : Accepts(g, {"active"})}

AnyBudget(g) ==                         \* mutant: an exhausted goal is resumed
    {x \in {Revised(g, "resume", "active", TRUE)} :
        Accepts(g, {"active", "paused", "blocked"}) /\ ~Continues(g)}

Resume(g) ==
    {x \in {Revised(g, "resume", "active", TRUE)} :
        Accepts(g, {"active", "paused", "blocked"}) /\ ~Continues(g) /\ ~Exhausted(g)}

StaysArmed(g) ==                        \* mutant: a completed goal is not disarmed
    {x \in {Revised(g, "complete", "complete", g.armed)} : Accepts(g, {"active", "paused", "blocked"})}

Complete(g) ==
    {x \in {Revised(g, "complete", "complete", FALSE)} : Accepts(g, {"active", "paused", "blocked"})}

Block(g) == {x \in {Revised(g, "block", "blocked", FALSE)} : Accepts(g, {"active"})}

Clear(g) ==
    {x \in {[Revised(g, "clear", "none", FALSE) EXCEPT !.rounds = 0]} : Accepts(g, Phases \ {"none"})}

----------------------------------------------------------------------------
(* The replay.  It validates every change, by its operation, against the   *)
(* goal folded so far.                                                     *)

Preserves(g, new) == new.rounds = g.rounds /\ new.limit = g.limit

Replays(g, new) ==
    /\ new.ref = g.ref + 1
    /\ new.op \in Operations
    /\ CASE new.op = "create" ->
                g.phase \in {"none", "complete"} /\ new.phase = "active" /\ new.rounds = 0
         [] new.op = "clear" ->
                g.phase # "none" /\ new.phase = "none"
         [] new.op = "edit" ->
                g.phase # "none" /\ new.phase = g.phase /\ new.rounds = g.rounds
         [] new.op = "pause" ->
                Preserves(g, new) /\ g.phase = "active" /\ new.phase = "paused"
         [] new.op = "resume" ->
                /\ Preserves(g, new) /\ g.phase \in {"active", "paused", "blocked"}
                /\ new.phase = "active" /\ ~Exhausted(g)
         [] new.op = "complete" ->
                Preserves(g, new) /\ g.phase \notin {"none", "complete"} /\ new.phase = "complete"
         [] new.op = "block" ->
                Preserves(g, new) /\ g.phase = "active" /\ new.phase = "blocked"

\* The round that the fold accepts next.
NextRound(g, m) ==
    g.phase = "active" /\ m.ref = g.ref /\ m.round = g.rounds + 1 /\ m.round <= g.limit

\* A user message of a goal reaches the log.
Entered(g, m) ==
    IF g.broken THEN g
    ELSE IF NextRound(g, m) THEN [g EXCEPT !.rounds = m.round]
    ELSE [g EXCEPT !.broken = TRUE]

=============================================================================
