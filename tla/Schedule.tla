------------------------------ MODULE Schedule ------------------------------
(***************************************************************************)
(* The reminders of one root agent (packages/schedule/schedule/src): the   *)
(* runtime that queues what is due, the three tools that create, list and  *)
(* delete reminders, the FIFO of transactions both share, and the log they *)
(* write, through clock changes, failing storage and crashes.              *)
(*                                                                         *)
(* Every promise callback runs to its next await in one action.  A flush   *)
(* is what WriteBehind promises: it waits for the events appended before   *)
(* it, and what is stored is a prefix of what was appended.                *)
(***************************************************************************)
EXTENDS Naturals, Sequences, FiniteSets, SequencesExt

CONSTANTS
    MaxRecords,         \* bound: how many reminders are ever created
    Interval,           \* everySeconds of the repeating reminders
    LastInstant,        \* the clock's last instant, and the last representable one
    MaxInputs,          \* bound: turns, other maintenance and tool calls
    MaxTroubles         \* bound: failures, clock rollbacks and crashes

ASSUME BoundsAssumption ==
    /\ MaxRecords \in Nat /\ LastInstant \in Nat /\ Interval \in Nat \ {0}
    /\ MaxInputs \in Nat /\ MaxTroubles \in Nat

Id == 1..MaxRecords
Instant == 0..LastInstant
Occurrence == Id \X Instant
Kinds == {"once", "every"}
Tools == {"create", "list", "delete"}

VARIABLES
    now,                \* Date.now()
    log,                \* folds of the log: the stored prefix, then one per unsaved event
    phase,              \* the agent: "idle", "maintenance", "running"
    rt,                 \* ScheduleRuntime, and the queue of transaction.ts
    pc,                 \* where the transaction at the head of the queue stands
    owed,               \* how many of the unsaved events its flush waits for
    subject,            \* the reminder its create or delete is about
    inputs, troubles,
    sent,               \* history: the occurrences this process knows were queued
    told                \* history: what the tools reported of which reminder

boundVars == <<inputs, troubles>>
vars == <<now, log, phase, rt, pc, owed, subject, boundVars, sent, told>>

----------------------------------------------------------------------------
(* The fold of the log: the active reminders and how many ids were used.   *)
(* queued (the occurrences in inserted messages) and accepted (what the    *)
(* dispatches add up to) are read off the same log, for the properties.    *)

Empty == [active |-> <<>>, seen |-> 0, queued |-> {}, accepted |-> {}]

Without(f, id) == [i \in DOMAIN f \ {id} |-> f[i]]

Created(f, kind, at) ==
    [f EXCEPT !.seen = @ + 1,
              !.active = [i \in DOMAIN @ \cup {f.seen + 1} |->
                             IF i = f.seen + 1 THEN [kind |-> kind, at |-> at] ELSE @[i]]]

Deleted(f, id) == [f EXCEPT !.active = Without(@, id)]

\* The latest occurrence at or before t; a one-shot has just one.
OccurrenceAt(record, t) ==
    IF record.kind = "once" THEN record.at
    ELSE record.at + ((t - record.at) \div Interval) * Interval

Occurrences(f, ids, t) == {<<i, OccurrenceAt(f.active[i], t)>> : i \in ids}

NextTarget(record, t) == OccurrenceAt(record, t) + Interval

Finished(record, t) == record.kind = "once" \/ NextTarget(record, t) > LastInstant

\* The dispatches of ids, all accepted at t.
Dispatched(f, ids, t) ==
    [f EXCEPT
        !.accepted = @ \cup Occurrences(f, ids, t),
        !.active = [i \in {j \in DOMAIN @ : ~(j \in ids /\ Finished(@[j], t))} |->
                       IF i \in ids THEN [kind |-> "every", at |-> NextTarget(@[i], t)] ELSE @[i]]]

Queued(f, ids, t) == [f EXCEPT !.queued = @ \cup Occurrences(f, ids, t)]

\* The first n of ids in the order of their targets, then of their creation.
Before(f, i, j) ==
    \/ f.active[i].at < f.active[j].at
    \/ f.active[i].at = f.active[j].at /\ i < j

First(f, ids, n) == {i \in ids : Cardinality({j \in ids : Before(f, j, i)}) < n}

DeliveryDispatchFirst(f, ids, t, n) ==    \* mutant: dispatches, then queues
    [k \in 1..n + 1 |-> Dispatched(Queued(f, IF k = 1 THEN {} ELSE ids, t), ids, t)]

\* What followup and then the first n dispatches append.
Delivery(f, ids, t, n) ==
    [k \in 1..n + 1 |-> Dispatched(Queued(f, ids, t), First(f, ids, k - 1), t)]

----------------------------------------------------------------------------
Live   == Last(log)
Stored == Head(log)

DueOf(f, kind, t) == {i \in DOMAIN f.active : f.active[i].kind = kind /\ f.active[i].at <= t}

\* The first one-shot that is due, or every repeating reminder that is.
Due(f, t) ==
    IF DueOf(f, "once", t) # {} THEN First(f, DueOf(f, "once", t), 1)
    ELSE DueOf(f, "every", t)

HasTarget(f, t) == \E i \in DOMAIN f.active : f.active[i].at > t

----------------------------------------------------------------------------
(* The runtime.                                                            *)

Started == [run |-> "queued", requested |-> FALSE, timer |-> FALSE, idleWait |-> FALSE,
            faulted |-> FALSE, stopping |-> FALSE, gaveUp |-> FALSE, queue |-> <<"drive">>]

RequestDrive(r) ==
    IF r.stopping \/ r.faulted THEN r
    ELSE IF r.run # "none" THEN [r EXCEPT !.timer = FALSE, !.requested = TRUE]
    ELSE [r EXCEPT !.timer = FALSE, !.requested = FALSE, !.run = "queued",
                   !.queue = Append(@, "drive")]

\* The head transaction is over; a drive returns to runRequested's loop.
Done(r) ==
    [r EXCEPT !.queue = Tail(@), !.run = IF Head(r.queue) = "drive" THEN "looping" ELSE @]

\* The drive ends without having looked for what is due.
GivesUp(r) == [Done(r) EXCEPT !.gaveUp = @ \/ Head(r.queue) = "drive"]

At(label) == rt.queue # <<>> /\ pc = label
Driving == Head(rt.queue) = "drive"

Trouble == troubles < MaxTroubles /\ troubles' = troubles + 1

Flush(l) == owed' = Len(l) - 1
Returns(r) == rt' = Done(r) /\ pc' = "ready" /\ owed' = 0 /\ subject' = 0

----------------------------------------------------------------------------
(* One transaction: preflight, fold and decide, append, barrier.           *)

Begin ==
    /\ At("ready")
    /\ IF Driving /\ rt.stopping THEN Returns(rt)
       ELSE /\ rt' = IF Driving THEN [rt EXCEPT !.timer = FALSE, !.gaveUp = FALSE] ELSE rt
            /\ pc' = "preflight" /\ Flush(log) /\ UNCHANGED subject
    /\ UNCHANGED <<now, log, phase, boundVars, sent, told>>

\* The caller's signal is aborted before the transaction's turn, or before
\* the append; or the arguments are refused; or the append is.
CallEnds ==
    /\ \/ At("ready") /\ ~Driving /\ Returns(rt)
       \/ At("preflight") /\ ~Driving /\ owed = 0 /\ Head(rt.queue) # "list"
          /\ Returns(RequestDrive(rt))
    /\ UNCHANGED <<now, log, phase, boundVars, sent, told>>

FlushFails ==
    /\ At("preflight") \/ At("barrier")
    /\ Trouble
    /\ rt' = GivesUp(rt) /\ pc' = "ready" /\ owed' = 0 /\ subject' = 0
    /\ UNCHANGED <<now, log, phase, inputs, sent, told>>

\* Nothing is due: one timer for the next target.
Waits ==
    /\ At("preflight") /\ Driving /\ owed = 0
    /\ rt.stopping \/ Due(Live, now) = {}
    /\ Returns([rt EXCEPT !.timer = ~rt.stopping /\ HasTarget(Live, now)])
    /\ UNCHANGED <<now, log, phase, boundVars, sent, told>>

PreflightedStale == At("preflight") /\ Driving /\ owed = 0    \* mutant: not asked again

Preflighted == At("preflight") /\ Driving /\ owed = 0 /\ ~rt.stopping

\* runMaintenance throws: the agent is busy.
FindsBusy ==
    /\ Preflighted /\ Due(Live, now) # {} /\ phase # "idle"
    /\ Returns([rt EXCEPT !.idleWait = TRUE])
    /\ UNCHANGED <<now, log, phase, boundVars, sent, told>>

\* runMaintenance claims the agent and reads fold and clock again; that the
\* clock has gone on is the same as that it had before.
Claims(t) ==
    /\ Preflighted /\ Due(Live, now) # {} /\ phase = "idle"
    /\ phase' = "maintenance"
    /\ now' = t
    /\ UNCHANGED <<subject, inputs, told>>

\* The clock was set back between the two readings.
ClaimFindsNothing ==
    /\ now > 0 /\ Claims(now - 1)
    /\ Due(Live, now - 1) = {}
    /\ Trouble
    /\ rt' = [rt EXCEPT !.timer = HasTarget(Live, now - 1)]
    /\ pc' = "quiet"
    /\ UNCHANGED <<log, owed, sent>>

\* followup throws and has queued nothing.
FollowupFails ==
    /\ Claims(now)
    /\ Trouble
    /\ rt' = [rt EXCEPT !.gaveUp = TRUE]
    /\ pc' = "quiet"
    /\ UNCHANGED <<log, owed, sent>>

\* followup queues one message, then a dispatch is appended for each reminder
\* in it; when the n-th append throws, the runtime stops for good.
Delivers ==
    LET ids == Due(Live, now) IN
    /\ Claims(now)
    /\ sent' = sent \o SetToSeq(Occurrences(Live, ids, now))
    /\ \/ /\ log' = log \o Delivery(Live, ids, now, Cardinality(ids))
          /\ pc' = "sent"
          /\ UNCHANGED <<rt, troubles>>
       \/ \E n \in 0..Cardinality(ids) - 1 :
             /\ Trouble
             /\ log' = log \o Delivery(Live, ids, now, n)
             /\ rt' = [rt EXCEPT !.faulted = TRUE, !.timer = FALSE]
             /\ pc' = "broken"
    /\ UNCHANGED owed

\* The maintenance ends.  Input that woke the agent meanwhile, like the
\* reminder, starts a turn, unless a cancel has cleared it.
Releases ==
    /\ \/ At("sent") /\ pc' = "barrier" /\ Flush(log) /\ UNCHANGED <<rt, subject>>
       \/ (At("quiet") \/ At("broken")) /\ Returns(rt)
    /\ phase' \in {"idle", "running"}
    /\ UNCHANGED <<now, log, boundVars, sent, told>>

DriveConfirms ==
    /\ At("barrier") /\ Driving /\ owed = 0
    /\ Returns(RequestDrive(rt))
    /\ UNCHANGED <<now, log, phase, boundVars, sent, told>>

----------------------------------------------------------------------------
(* The tools (tools.ts).  Each tells the runtime after its preflight and    *)
(* after its barrier.                                                      *)

FoldsAtOnce(tool) == At("preflight") /\ Head(rt.queue) = tool    \* mutant: no preflight

Folds(tool) == At("preflight") /\ Head(rt.queue) = tool /\ owed = 0

Mutates(f, id) ==
    /\ log' = Append(log, f) /\ owed' = Len(log)
    /\ subject' = id
    /\ rt' = RequestDrive(rt)
    /\ pc' = "barrier"
    /\ UNCHANGED <<now, phase, boundVars, sent, told>>

Create ==
    /\ Folds("create")
    /\ Live.seen < MaxRecords
    /\ \E kind \in Kinds, at \in now + 1..LastInstant :
           /\ kind = "every" => at = now + Interval
           /\ Mutates(Created(Live, kind, at), Live.seen + 1)

Delete ==
    /\ Folds("delete")
    /\ \E id \in DOMAIN Live.active : Mutates(Deleted(Live, id), id)

List ==
    /\ Folds("list")
    /\ told' = told \cup {<<IF i \in DOMAIN Live.active THEN "known" ELSE "over", i>> : i \in 1..Live.seen}
    /\ Returns(RequestDrive(rt))
    /\ UNCHANGED <<now, log, phase, boundVars, sent>>

ToolConfirms ==
    /\ At("barrier") /\ ~Driving /\ owed = 0
    /\ told' = told \cup {<<IF Head(rt.queue) = "create" THEN "known" ELSE "over", subject>>}
    /\ Returns(RequestDrive(rt))
    /\ UNCHANGED <<now, log, phase, boundVars, sent>>

Transacts ==
    \/ Begin \/ CallEnds \/ Waits \/ FindsBusy \/ ClaimFindsNothing \/ Delivers
    \/ Releases \/ DriveConfirms \/ Create \/ Delete \/ List \/ ToolConfirms

----------------------------------------------------------------------------
(* What else happens to the runtime.                                       *)

SameButRt == UNCHANGED <<now, log, phase, pc, owed, subject, inputs, sent, told>>

\* runRequested goes round again, or returns.
Loops ==
    /\ rt.run = "looping"
    /\ rt' = IF rt.requested /\ ~rt.stopping /\ ~rt.faulted
             THEN [rt EXCEPT !.run = "queued", !.requested = FALSE, !.queue = Append(@, "drive")]
             ELSE [rt EXCEPT !.run = "ending"]
    /\ SameButRt /\ UNCHANGED troubles

RetiresDeaf ==    \* mutant: forgets what was requested while it returned
    /\ rt.run = "ending"
    /\ rt' = [rt EXCEPT !.run = "none"]
    /\ SameButRt /\ UNCHANGED troubles

Retires ==
    /\ rt.run = "ending"
    /\ rt' = IF rt.requested THEN RequestDrive([rt EXCEPT !.run = "none"])
             ELSE [rt EXCEPT !.run = "none"]
    /\ SameButRt /\ UNCHANGED troubles

\* setTimeout counts on its own clock, and in bounded segments: it may fire
\* before the target as well as after.
TimerFires ==
    /\ rt.timer
    /\ rt' = RequestDrive([rt EXCEPT !.timer = FALSE])
    /\ SameButRt /\ UNCHANGED troubles

IdleResolves ==
    /\ rt.idleWait /\ (phase = "idle" \/ rt.stopping)
    /\ rt' = RequestDrive([rt EXCEPT !.idleWait = FALSE])
    /\ SameButRt /\ UNCHANGED troubles

IdleFails ==
    /\ rt.idleWait
    /\ Trouble
    /\ rt' = [rt EXCEPT !.idleWait = FALSE, !.gaveUp = TRUE]
    /\ SameButRt

\* dispose: the agent or the plugin goes.
Stops ==
    /\ ~rt.stopping
    /\ rt' = [rt EXCEPT !.stopping = TRUE, !.requested = FALSE, !.timer = FALSE]
    /\ SameButRt /\ UNCHANGED troubles

----------------------------------------------------------------------------
(* The agent, the storage, the clock.                                      *)

Calling == \E i \in DOMAIN rt.queue : rt.queue[i] # "drive"
Claimed == pc \in {"quiet", "sent", "broken"}

AgentStarts ==
    /\ phase = "idle" /\ inputs < MaxInputs
    /\ inputs' = inputs + 1
    /\ phase' \in {"running", "maintenance"}
    /\ UNCHANGED <<now, log, rt, pc, owed, subject, troubles, sent, told>>

\* index.ts: the status listener wakes the runtime of a session with reminders.
TurnEnds ==
    /\ phase = "running" /\ ~Calling
    /\ phase' = "idle"
    /\ rt' = IF Live.seen > 0 THEN RequestDrive(rt) ELSE rt
    /\ UNCHANGED <<now, log, pc, owed, subject, boundVars, sent, told>>

\* No status changes when somebody else's maintenance ends.
MaintenanceEnds ==
    /\ phase = "maintenance" /\ ~Claimed
    /\ phase' = "idle"
    /\ UNCHANGED <<now, log, rt, pc, owed, subject, boundVars, sent, told>>

\* The tools are exclusive: one of them is called at a time.
Calls(tool) ==
    /\ phase = "running" /\ ~Calling /\ ~rt.stopping /\ inputs < MaxInputs
    /\ inputs' = inputs + 1
    /\ rt' = [rt EXCEPT !.queue = Append(@, tool)]
    /\ UNCHANGED <<now, log, phase, pc, owed, subject, troubles, sent, told>>

Stores ==
    /\ Len(log) > 1
    /\ log' = Tail(log)
    /\ owed' = IF owed > 0 THEN owed - 1 ELSE 0
    /\ UNCHANGED <<now, phase, rt, pc, subject, boundVars, sent, told>>

Ticks ==
    /\ now < LastInstant /\ now' = now + 1
    /\ UNCHANGED <<log, phase, rt, pc, owed, subject, boundVars, sent, told>>

ClockIsSetBack ==
    /\ now > 0 /\ now' = now - 1
    /\ Trouble
    /\ UNCHANGED <<log, phase, rt, pc, owed, subject, inputs, sent, told>>

\* The process dies, or is left after a dispose; the session is opened again.
Reopens ==
    /\ Trouble
    /\ log' = <<Stored>>
    /\ rt' = Started /\ pc' = "ready" /\ owed' = 0 /\ subject' = 0
    /\ phase' = "idle"
    /\ sent' = SetToSeq(Stored.accepted)
    /\ UNCHANGED <<now, inputs, told>>

----------------------------------------------------------------------------
Init ==
    /\ now = 0 /\ log = <<Empty>> /\ phase = "idle"
    /\ rt = Started /\ pc = "ready" /\ owed = 0 /\ subject = 0
    /\ inputs = 0 /\ troubles = 0
    /\ sent = <<>> /\ told = {}

Next ==
    \/ Transacts \/ FlushFails \/ FollowupFails
    \/ Loops \/ Retires \/ TimerFires \/ IdleResolves \/ IdleFails \/ Stops
    \/ AgentStarts \/ TurnEnds \/ MaintenanceEnds \/ (\E tool \in Tools : Calls(tool))
    \/ Stores \/ Ticks \/ ClockIsSetBack \/ Reopens

\* Continuations and timers run, storage answers, and what the agent does ends.
Fairness ==
    /\ WF_vars(Transacts) /\ WF_vars(Stores)
    /\ WF_vars(Loops) /\ WF_vars(Retires) /\ WF_vars(TimerFires) /\ WF_vars(IdleResolves)
    /\ WF_vars(TurnEnds) /\ WF_vars(MaintenanceEnds)

Spec == Init /\ [][Next]_vars
FairSpec == Spec /\ Fairness

----------------------------------------------------------------------------
\* Wherever a crash cuts the log: an occurrence that it counts as delivered
\* is one that a message in it carries.  The dispatch does not name the
\* occurrence, the fold finds it from acceptedAt.
AcceptedIsQueued ==
    \A i \in DOMAIN log : log[i].accepted \subseteq log[i].queued

\* A process queues no occurrence twice, none that the log it opened counts
\* as delivered, none of a reminder it reported as gone, and none after
\* its dispose.
NoStrayReminder ==
    [][\A i \in DOMAIN sent' \ DOMAIN sent :
          /\ ~rt.stopping
          /\ sent'[i] \notin ToSet(SubSeq(sent', 1, i - 1))
          /\ <<"over", sent'[i][1]>> \notin told]_vars

\* What a tool has reported of a reminder is stored, so that a crash does not
\* take it back.
ReportedIsStored ==
    \A report \in told :
        /\ report[2] <= Stored.seen
        /\ report[1] = "over" => report[2] \notin DOMAIN Stored.active

Overdue(id) == id \in DOMAIN Live.active /\ Live.active[id].at <= now

\* A reminder that is due is queued, unless the runtime has stopped or has
\* met a failure after which it waits for the next trigger.
OverdueIsServed ==
    \A id \in Id : Overdue(id) ~> (~Overdue(id) \/ rt.faulted \/ rt.stopping \/ rt.gaveUp)

=============================================================================
