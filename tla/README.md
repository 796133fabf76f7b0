# A verification project for Kotoba Studio's agent core

Kotoba Studio is a TypeScript monorepo: an agent harness (packages), the
applications built on it (apps), and their tests. This directory holds TLA+
modules that model the part of it that decides what an agent does and what
survives: the turn/step machine, its inbox and its tool scheduler, how agents
are made and disposed, the session log with its write path, its file and its
lock, the repair after a crash, and two drivers that give an agent work by
themselves, goal rounds and scheduled reminders. TLC checks the modules on small
instances; TLAPS proves safety properties of nine of them for every value of the
constants.

Paths below are relative to `src/`; `core/...` and `session/...` are short for
`packages/core/...` and `packages/session/...`.

## 1. Inventory

Everything runs on one JavaScript thread per process. Concurrency is the
interleaving of fibers at `await`s and of callbacks that are run synchronously
in the middle of another function; the only parallel parties are the disk, a
second process at the lock file, the clock, and whatever a tool starts.

| Component | State | Operations | What is hard | What makes it correct |
|---|---|---|---|---|
| Agent driver (`core/agent-loop/src/agent.ts`) | phase and abort controller, turn and step counters, the wake latch, locals of `kick`/`turn`/`step` | `send`, `cancel`, `runMaintenance`, the driver's loop | callers run at every await and in the listeners of notifications, also those that `send` and `cancel` emit half way; any append may be refused; abort is a flag checked now and then; nested `finally`s | log grammar, until a closing event is refused; no promised wake is lost; nothing is admitted twice; no work under abort; a cancel converges |
| Inbox and consumed work (`core/agent-loop/src/inbox.ts`, `core/agent/src/consumed-work.ts`) | two pending lists, which are a fold of the log; the account of what turns consumed, another one | `append`, `prepend`, `replace`, `remove`, `claim`, `clear` through one splice | index arithmetic, one identity over both lists, a strict fold after a crash anywhere | every stored prefix folds; a message is delivered at most once; a turn accounts for the input it took |
| Tool scheduler (`core/agent-loop/src/tool-calls.ts`) | group, pool, slots of settled bodies | group, start, race, commit, skip, drain | bodies settle in any order, mode is reclassified while a pool runs, abort and failure at any await | model order, exclusive is a barrier, each call answered once, no body left behind |
| Session companion (`core/session/src/invariant.ts`) | open turn/step, next numbers, pending calls | `validateEvent` | every writer must agree with it | it is the specification of the log |
| Session store (`core/session/src/index.ts`) | the event list, observers, flush listeners | `append`, `flush`, `publish`, `dispose` | an observer's append is refused, flush fans out | seq is dense; observers see a prefix |
| Write handle (`session/session-persistence-jsonl/src/storage.ts`) | buffer, batch timer, pause, drain promise, mutation chain, lock, closing | events in, `flush`, `close`, timer | joined drains, failures in between, events that arrive during close | no gap or duplicate; a flush waits for what it covers, unless it joins a drain that is over; close loses nothing |
| Log file and lease (`.../src/index.ts`, `format.ts`, `lease.ts`) | file pieces, torn end, recovered records, lock inode | append with rollback, publication, read with torn end, repair, acquire/release | partial writes, a crash at any system call, two processes, a replaced lock file | one writer; what was acknowledged survives; a reader sees whole records |
| Checkpoint policy, repair, resume (`session/session-checkpoint-policy`, `core/session/src/repair.ts`, `core/agent-loop/src/index.ts` resume) | none of their own: the stored log | flush before request, body, step; closers after a crash | a crash between any two events, also of the repair itself | the repaired log is grammatical; an executed call is never reported as not started |
| Agent lifecycle (`core/agent-loop/src/index.ts`) | a transaction per agent, its handle, scope, registry entries and one memoized teardown; the factory's ownership set | create, createAgent, resume, dispose, unloads of owner and factory | aborts, unloads and disposes at every await, by several parties | a rejected creation leaves nothing; the factory's disposal waits for everything; teardowns do not wait for each other |
| Projection and its cache (`session/session-projection*`) | folds and snapshots with a seq | fold, read, save | a stale snapshot against a newer log | snapshot + rest = full fold |
| Goal and goal rounds (`packages/goal`) | the goal with its revision; the driver's attempt, fences and pass | set, edit, pause, resume, complete, clear; listeners around a serialized pass | people, the model and unloads act between check and use; durable replay is strict | a round enters once; a pause stops; rounds wait for storage; commits replay; an armed goal gets on |
| Schedule (`packages/schedule`) | reminders folded from the log; run, timer and idle wait; a FIFO of transactions | create, list, delete; drive, timer, dispose | the clock jumps, storage fails, the process dies between message and dispatch | no reminder is lost or doubled; what a tool reports is stored; what is due is served |
| Jobs, approval, questions (`packages/jobs`, `interaction`) | small state machines with durable entries | start, settle, cancel, answer | timeout against late answer, restart between steps | one settlement per request |
| LLM adapters, stream assembly, retry; compaction; subagents; storage, workflow, gateway | see PROJECT.json | | | |
| Adapters (MCP, LSP, terminal, web, sandbox), UI, settings, workspace | I/O | | | |

How they interact: callers `send` to the **driver**, which claims from the
**inbox**, appends to the **session**, streams from the LLM and hands the calls
of an answer to the **tool scheduler**. Every append runs the companion and the
observers synchronously and routes the event to the **write handle**, which
stores it later. The **checkpoint policy** listens on `agent/pre-step`,
`llm/stream` and `tools/execute` and awaits `session/flush` there. After a crash
**resume** reads what the handle stored, appends the closers of the interrupted
turn, and starts a driver that counts on from the stored turn; the **lifecycle**
wraps both ways of making an agent. The **goal driver** watches the idle agent
and sends it the next round, which it fences in `agent/pre-step`; the
**schedule** claims the idle agent as maintenance and queues what is due.

The hazards of this code, line by line, are in `PROJECT.json` with the
properties that would catch each.

## 2. Modules

| Module | Models | Composes |
|---|---|---|
| `TurnLog` | the companion: which event may follow in a session log | abstract specification |
| `AgentLoop` | driver and inbox as the driver uses it | implements `TurnLog` |
| `Inbox`, `ConsumedWork` | the inbox operations, its strict fold, and the account of consumed work, as pure operators | |
| `InboxRecovery` | both folds under callers, driver, crash and resume | uses `Inbox`, `ConsumedWork` |
| `AgentLifecycle` | creation, publication, teardown and ownership of agents | |
| `ToolCalls` | one step's tool scheduler | implements `TurnLog` (with a step open) |
| `WriteBehind` | what flush and close promise | abstract specification |
| `SessionHandle` | `JsonlSessionHandle` | implements `WriteBehind` |
| `WriteLease` | the lock file protocol of `lease.ts` | |
| `LogFile` | the file under the handle, and the processes that write it in turn | extends `WriteLease` |
| `CrashRecovery` | live events, storage, crash, repair, resume | its stored log implements `TurnLog` |
| `Goal` | the goal service's mutations and the strict replay | |
| `GoalRounds` | the driver of goal rounds over an agent | extends `Goal` |
| `Schedule` | reminders: runtime, tools, transactions, log | |
| `AgentLoop_proofs`, `ToolCalls_proofs`, `SessionHandle_proofs`, `LogFile_proofs`, `CrashRecovery_proofs`, `InboxRecovery_proofs`, `GoalRounds_proofs`, `Schedule_proofs` | theorems about the module of that name; those about `AgentLifecycle` are in `AgentLoop_proofs` | |

`TurnLog` is the joint: the driver, the scheduler and the repair each write a
part of one log, and each is shown to write what the companion accepts. An event
whose stamp is wrong appears as the type `"misnumbered"`, which no action of
`TurnLog` allows, so the refinement is about numbers as well as order.

An `MC` module would hold nothing: the constants are numbers and sets of model
values, which the `.cfg` files give directly.

### AgentLoop

An action is the code from one place where other code may run to the next.
There are two kinds of places. At an `await`, and in the status, error and inbox
notifications that the code emits where its own state is consistent, any call may be
made (`CanCall`). Right after `Session.append` only synchronous observers run; there a
call that would append throws before it changes anything, and what remains is a cancel
that clears nothing (`AtAppend`).

Two calls notify in the middle of what they do: `send` after the insertion and
before it wakes (`inbox.ts:243`, `agent.ts:134`), and `cancel` after each of the two lists
that `clear` empties and before it resets the latch and aborts (`inbox.ts:240`,
`agent.ts:152`). Such a call is a frame on the stack `calls` while its listeners run;
the listeners make calls of their own, which may be frames again, up to
`MaxNesting`, and only the innermost goes on (`SendWakes`, `CancelGoesOn`). A
driver that is started on that stack, or while `kick`'s `finally` has yet to replay
the latch, runs to its first `await` before the call under it returns (`Await`).
What a listener throws stays in the dispatch of its event
(`core/agent/src/dispatch.ts:115`).

A claim is two appends (`inbox.ts:112`), and the observers of the first may cancel
(`pc = "claiming"`). Any append of the driver and of the inbox may be refused by a
companion or a dispatch listener (`Rejectable`): `TurnNotStarted`, `ClaimFails`,
`StepEndFails`, `TurnEndFails`. A refused step/end or turn/end leaves that boundary
open for good, which `refused` (history) records.

`pc` names the driver's places: `off`, `enter` (before turn/start), `loop`, `claiming`,
`rejected`, `preStep`, `decided`, `prepare`, `commit`, `admit`, `request`, `stream`,
`requestError`, `tools`, `stepEnd`, `afterStep`, `stopping`, `failing`, `turnEnd`, `ended`,
`exit`. `Caller` is `Send`, `cancel`, `Remove`, `runMaintenance`; `Driver` is
everything else. `log` is the companion's view of what was written, `parked`
(history) the pending messages that no wake promises to deliver: it grows when
the code's own comments release the promise (a send without wakeup, a cancel of
a live driver, a stop on reject or error, a disposed agent), in the documented gap at
`exit`, and where a cancel that was under way takes back the latch of a wake that came
in between.

The stream, hooks and tool phase are choices: they complete, fail, or throw.

### ToolCalls

`executeToolCalls` and `runGroup` with `pc` naming the awaits; bodies settle by
themselves at any await. The mode of a call is chosen when it is classified and
may be chosen differently when a running pool meets it again.

### WriteBehind and SessionHandle

`SessionHandle` follows `enqueueLive`, `drainLive`/`drainBuffered`, the
mutation chain, `flush`, `close`, and the tracker's routing. `chain` is the queue
of operations on the mutation chain, `running` what its head awaits, `batch` the
events its turn writes. `draining` is where the drain's promise is: `writing`; `testing`,
when a batch is written and the loop has not looked at the buffer again; `ended` or
`failed`, when the loop is over and `.finally` has not cleared the field; a drain of an
empty buffer is `ended` from the start (`storage.ts:289-291, 300`). Other fibers may
publish, flush and close between any two of these steps; promise jobs that only pass a
result on are not steps of their own. A flush that joins an `ended` drain is `late`
(history): it returns without having written anything. Timers and storage answer only when no continuation waits
(`NoJobs`): JavaScript drains its promise jobs before it takes the next event. The
order of promise jobs that matters is kept: a `close()` whose awaited operation
ended looks at the buffer before the next operation starts (`CloseIsNext`).

### CrashRecovery

The driver with all its decisions open writes to a buffer; `Drain` stores the
buffer's head; `Crash` forgets everything that is not stored. The stored log is
kept as its three readers see it: the companion's trace, the scan of
`interruptedTurnClosers`, and the last turn. "Stored" means *survives the next
crash*, so a batch that leaves a prefix behind is covered. The flushes of the
checkpoint policy are the guards `Flushed` and `FlushedCall`.

### Inbox, ConsumedWork and InboxRecovery

`Inbox` has each operation as the normalized splice it logs (`Spliced`,
`Cleared`, `Claims`) and the projection that reads them back (`Applied`,
`Accepts`); `ConsumedWork` is `foldConsumedWork`, event by event. In
`InboxRecovery` callers splice at any time, the driver claims and admits, the
events wait in the write buffer, and a crash cuts it anywhere. The stored log is
kept as what its readers make of it, as in `CrashRecovery`, whose tool calls are
left out because they do not touch the inbox.

### AgentLifecycle

A transaction `t` makes one agent; `creation[t]` is where `setupAndPublish` or
`resumeWith` awaits, `tear[t]` where the memoized `dispose()` is. `CallerAborts`,
`OwnerUnloads`, `FactoryUnloads`, `HolderDisposes` and `DisposeInAppend` (a
dispose from inside a `session/event` observer, whose cancel throws) come at any
await. `awaits` is the set that `FactoryOwnership.dispose` passed to
`Promise.all`.

### WriteLease and LogFile

The lock file is an inode at a path: `OpenLockFile`, `Lock`, `Verified` and
`Orphaned` are the steps of `acquire`; a holder may remove the file. A log file
is the sequence of the pieces that were appended; a piece is the complete records
of a batch that reached the disk and whether it is whole. `op` is how far
`persistContiguous`/`appendLines` is: repair, rewriting of the recovered tail,
append, sync, close, each of which may fail or be the last thing the process
does. `CutLast`, `DecodeRaw` and `DecodeZstd` say what a torn end loses in each
encoding.

### Goal and GoalRounds

`Goal` is the service: a goal is its phase, revision, last operation, arming, rounds and
limit; a mutation that the code refuses is not an action. `Replays` is the strict fold,
which validates each change by its operation. The
driver is a set of listeners, so a handler is a function from the system's
state to the next, and an action composes the handlers that its event runs
synchronously. `Drive` and `Flushed` are the pass and its checkpoint,
`Assembled`, `Enters`, `Vetoed`, `Throws` the fenced step. `Prepared` is the last look at the
signal in `prepareRequest`; `Admits`, one await later, looks at nothing.

The driver asks for `agent.status`, which is idle in maintenance as well
(`agent.ts:115`), so it may reserve a round behind maintenance. `runMaintenance` and
`Wakes` are its start and its end; the end publishes no status, so `OnIdle` does not run.

### Schedule

`log` is the sequence of the folds of the log, the stored prefix first and then
one per unsaved event, so a crash is a choice of prefix. The FIFO of
`transaction.ts` holds drives and tool calls; `pc` is where its head awaits.
`now` is the wall clock, which ticks, jumps (several ticks between two
readings) and is set back.

## 3. Runs

| Run | Question | Bounds | Distinct states |
|---|---|---|---|
| `agent_loop` | grammar, wakes, admission, abort; does a cancel converge, is a wake served | 2 messages, tool calls in 2 steps of a turn, calls nested 2 deep, cause user, every append but that of messages refusable | 218,533 |
| `tool_calls` | order, barrier, pool, outcome, abort, grammar, termination | 4 calls, pool of 2 | 85,480 |
| `crash_recovery` | repair and resume over repeated crashes | 3 calls, 3 turns, 2 steps, 3 crashes | 90,656 |
| `inbox_recovery` | does every stored prefix fold, is input accounted for | 2 messages, 2 turns of 1 step, 2 crashes | 619,766 |
| `agent_lifecycle` | rejected creations, the factory's disposal, ends of teardowns | 1 fresh and 1 stored agent, 1 trouble | 225,304 |
| `session_handle` | loss, order, promise of flush and close, settling | 3 events, 2 flushes, 1 close | 350,952 |
| `session_handle_flush` | does every flush drain what was published (as documented) | 1 event, 2 flushes | violation |
| `session_handle_lease` | is the lock held whenever something is written (as documented) | 3 events, no flush call | violation |
| `log_file` | one writer, durability, view of a handle | 2 processes, 3 handles, 3 events, batches of 2, 1 storage error, 2 lock files | 1,724,151 |
| `goal_rounds` | a round enters once, pause, checkpoint, replay, progress | 2 rounds, 5 interventions | 596,503 |
| `goal_replay` | is a stale round kept out of the log (as documented) | 2 rounds, 5 interventions | violation |
| `schedule` | loss and duplicates, reports, service of what is due | 2 reminders, interval 2, 5 instants, 3 inputs, 1 trouble | 344,432 |

Why the bounds are enough. *AgentLoop*: two messages give
one that is claimed and one in the other list, one that a cancel discards and one that
its listener sends, one that is processed and one that is sent or removed while the
first is cancelled; tool calls in two steps give a step after a step; two calls inside
each other give a cancel in a listener of a send and the reverse. The safety properties were
also checked with three messages and tool calls in one step (2,099,924 states), and the theorems cover
every number. The
causes `user`, `parent` and `hook` are treated alike by the code; `disposed`
differs only in what it promises. *ToolCalls*: four calls with a pool of two
give a full pool with a call waiting, and an exclusive call with neighbours on
both sides. *CrashRecovery*: three crashes give a crash in the repair of a crash
and one after the resume; three calls give one answered, one recorded and one
requested. *InboxRecovery*: two messages give one claimed and one pending, in
either list and at every position; two crashes give one in the repair. *SessionHandle*:
three events give one on disk, one in flight and one in the buffer at once; two
flushes give one that starts a drain and one that joins it, in time or late. *LogFile*: three
handles give a crash, a recovery by the other process and a third reader of
what it left; three events in batches of two give a torn batch behind a whole
one. *AgentLifecycle*: agents meet only in the factory's disposal, which two
exercise; the theorems cover any number, with any number of troubles.
*GoalRounds*: two rounds give a round after a round and the limit; five
interventions give a pause, a resume and an edit around a prompt, or a maintenance, a
prompt and a cancel around a round; the theorems cover any number. *Schedule*: two
reminders give a batch and a delete beside a due one; five instants give two
occurrences of a repeating one and the last representable instant; the safety
properties were also checked with four inputs (1,592,027 states).

In the runs of `AgentLoop`, `ToolCalls`, `CrashRecovery` and `SessionHandle`
deadlock is checked; where the system rests, a stuttering action (`Rest`,
`Settled`) says in which states it may. The other runs say `CHECK_DEADLOCK
FALSE`: when their bounded inputs (opens, interventions, messages, instants,
troubles) are used up and everything has ended, they stop.

### Fairness

- `AgentLoop`: `WF_vars(Driver) /\ SF_vars(StreamCompletes)`. Listeners, adapters,
  tools and maintenance jobs settle, and recovery (`agent/request-error`) does not
  retry one request for ever. `Driver` holds every step that is not a new call, those of
  pending calls included; the calls inside a call are finite because messages are, so one
  weak fairness is enough. The code has no watchdog of its own: where a
  listener hangs, so does the driver, and nothing is claimed about it. Callers are
  not fair: nobody has to send anything.
- `ToolCalls`: the scheduler's continuations run and each dispatched body settles.
- `SessionHandle`: weak fairness of the timer, of the operations on the chain, of
  `close()`, of the drain's own jobs and of each flush's continuation. Failing is as fair as succeeding:
  storage answers, possibly with an error, for ever.
- `AgentLifecycle`: storage and setup answer, continuations run, and a driver that
  runs comes to its end. Nobody has to dispose, abort or unload.
- `GoalRounds`: the pass, its flush, the steps of the agent, maintenance and an unload go on. People
  and the model are not fair; a step completes or fails.
- `Schedule`: transactions, storage, the timer and the idle wait go on, turns and
  other maintenance end. The clock need not move.
- `CrashRecovery`, `InboxRecovery` and `LogFile` have no liveness property, so no
  fairness.

### What the runs show

`NoWakeIsLost`: an idle agent has nothing pending that some wake still promised
to deliver; a cancel takes promises back, also those of wakes that its own listeners
send. `AdmittedOnce`: retries and replays never write a user message
twice. `NoWorkUnderAbort`: no turn, step or model request starts and no claim begins under an
aborted signal; a claim that has begun still takes its prompt. `LogFollowsGrammar` of the
driver: what it appends the companion accepts, until a step/end or turn/end is refused. `CancelConverges`, `WakeIsServed`: both promises are eventually
resolved. `ModelOrder`, `ExclusiveIsBarrier`,
`OutcomeIsComplete`, `NoStartUnderAbort`, `SchedulerSettles`: the tool phase.
`NotStartedIsTrue`: repair never tells the model "not started, retry it" about a
call whose body ran. `AnsweredExactlyOnce`, `RepairResumes`: a repair that is
itself interrupted is continued, not repeated. `LogIsIntact`: disk, batch and
buffer are together the published events. `SomeoneDrains`: no buffered event is
stranded while the handle is open. `CloseSeesEverything`: close decides that it is done only when no event
is in somebody else's batch either. `KeepsPromise`, `CallsSettle`: the handle implements `WriteBehind`,
safety and liveness, which promises nothing to a flush that came too late to a drain.

`InboxIsReadable`: the strict inbox fold accepts every stored prefix, and a message
is at most one of pending and admitted. `ClaimIsAccounted`: a claim is stored
before its messages are admitted, so a crash in between takes them for good; but
no turn is closed, by its driver or by the repair, without an account of what it
took. `RejectedIsClean`: a rejected createAgent or resume has undone everything.
`FactoryDrains`: when the factory has unloaded, everything it made is gone, unless
a teardown failed. `TeardownEnds`: teardowns and unloads do not wait for each
other. `OneWriter`: two processes never both hold the lease. `AckedSurvives`: at
every instant the file decodes to all resolved appends and perhaps some of the
one under way. `ViewIsStored`: what an open handle counts as stored is on disk,
or kept in memory to be written first. `RoundOnce`: a round that the
driver has reserved is admitted as the next of its revision or not at all, even when
maintenance has left two prompts for it. `PauseStops`: the turn with the reserved round
of a paused or blocked goal does not pass its last look at the signal. `StoredFirst`: a
round is reserved only when every change of the goal is stored. `CommitsReplay`: what the service
commits, the replay accepts for its operation. `GoalEnds`: an armed goal's rounds run
until it stops, unless a cancel empties the inbox under maintenance. `AcceptedIsQueued`: no prefix counts a reminder as delivered whose message
it lacks. `ReportedIsStored`: a crash takes back nothing a tool has reported.
`NoStrayReminder`: a process queues no occurrence twice, nor after its end.
`OverdueIsServed`: what is due is queued, or the runtime has stopped or met a
failure after which it waits, as documented, for the next activity.

### Where the code and its documentation disagree

Three are runs:

1. **A flush that comes too late to a drain.** `drainLive` keeps its promise in
   `draining` until `.finally` runs (`storage.ts:289`), also when its loop has looked at
   the buffer for the last time (300), or never had anything to do. A flush that is called
   after a publish in between joins that drain and returns with the event unstored; the
   persistence README (103) says that a flush "drains through quiescence". The event has
   its timer: it is late, not lost. Run `session_handle_flush`.
2. **A write without the lock.** `close()` finds the buffer empty, awaits
   `lease.release()` (`storage.ts:251`) and only then stops routing events. An
   event published in between is written by its timer after the lock is gone;
   `lease.ts:2` says the lock is held for the handle's whole life. If the timer does
   not fire before the process ends, the event is lost, although the
   persistence README (57) calls close lossless. Run `session_handle_lease`.
3. **A stale goal round can enter the log.** The fence of the goal driver looks at
   the reservation for the last time before `agent/pre-step` returns
   (`goal-round-driver/src/index.ts:413`), and the driver at the signal at the end of
   `prepareRequest` (`agent.ts:548`); the round's message is appended one await later
   (`agent.ts:375`). An edit, complete or clear after the fence does not stop the turn
   (only a pause does, 289), and a pause after the last look comes too late: the stale
   round is appended, and the strict fold refuses it (`goal/src/fold.ts:324`), after
   which the session's goal cannot be read or changed any more. The driver's
   README (72) says that a stale prompt is rejected before its step enters. Run
   `goal_replay`.

Five more are stated as properties of their modules, each with a configuration
that shows the violation; they are not in the list of runs:

4. **A wake sent while idle need not open its turn** (`WakeOpensTurn`,
   `AgentLoopWake.cfg`). `send`'s contract (`core/agent/src/runtime-types.ts:208`,
   `agent.ts:181`) says it does. The driver's status notification comes before the first
   abort check (`agent.ts:275`): a listener that cancels there aborts the new
   controller before `turn/start`, and no turn is opened.
5. **A cancel takes back a wake that came after an abort**
   (`LaterWakesSurviveCancel`, `AgentLoopLaterWake.cfg`). A listener of what a cancel
   discards cancels itself, and steers: the steer is a wake after the abort and is
   latched (`agent.ts:194`), then the outer cancel goes on and resets the latch (152). The
   same contract (206) says that such input runs when the activity converges.
6. **An armed goal may be stranded** (`GoalGoesOn`, `GoalStranded.cfg`). A prompt or a
   round waits behind maintenance and a cancel discards it. `competingQueued` or the attempt
   stays set, the end of maintenance publishes no status (`agent.ts:122`), and nothing
   moves the driver until somebody starts a turn; the driver's README (49, 53) says
   that an armed goal at idle is given its round or paused.
7. **A round may be reserved before the last one is stored** (`RoundStoredFirst`,
   `GoalUnsettled.cfg`). A pass takes a round that waits behind maintenance for
   settled, drops it and reserves the same round again
   (`goal-round-driver/src/index.ts:156-176`). The first prompt enters, but its id is not
   the attempt's (325); the second is refused at the fence, which does not ask for a
   checkpoint (378), so the next round is reserved without one. A test of the driver is
   called "reserves the next round only after the settled round checkpoint succeeds"
   (`goal-round-driver.spec.ts:567`).
8. **A round may run after the driver was unloaded** (`UnloadStops`, `GoalUnload.cfg`). The
   teardown cancels a running agent only (446); a round behind maintenance stays in the
   inbox and runs with no fence. The README (57) says that no later round starts.

Read but not recorded by a run: a failed drain sets `drainPaused`, which stops new
timers only; a timer armed during the failing write retries anyway
(`storage.ts:311` against the comment at 92), harmlessly for the data
(`LogIsIntact` covers it). The directory sync may reject after the link has
published a log (`session-persistence-jsonl/src/index.ts:1148`): the handle stays
unmaterialized and every retry is refused until the session is opened again. An owner's
unload that meets a dispose in flight returns without waiting, and its scope is
unwound while the driver still drains (`core/agent-loop/src/index.ts:630`, against
`agent.ts:77`). Events appended while the unstored suffix is being written, before
the agent is announced, are stored by nobody (827). `requestDrive` assigns
`state.run` after the pass has begun (`goal-round-driver/src/index.ts:231`), so a
pass whose followup throws at once may run beside another; a followup that throws is not
modelled. `edit` accepts a cap below the rounds
already started, a state that the projection's schema refuses
(`goal/src/index.ts:339` against 98).

## 4. Proofs

Proved by TLAPS for every value of the constants, from the named assumptions in
the modules (each bound is a natural number, names do not clash, the
transactions of `AgentLifecycle` are finitely many, an interval is positive):

| Theorem | Statement |
|---|---|
| `AgentLoop_proofs!TypeCorrect` | `Spec => []TypeOK` |
| `AgentLoop_proofs!LogIsGrammatical` | `Spec => LogFollowsGrammar`: the driver implements `TurnLog`, until a closing event is refused |
| `AgentLoop_proofs!WakesAreKept` | `Spec => []NoWakeIsLost` |
| `AgentLoop_proofs!MessagesAreAdmittedOnce` | `Spec => []AdmittedOnce` |
| `AgentLoop_proofs!AbortStopsWork` | `Spec => NoWorkUnderAbort` |
| `ToolCalls_proofs!PoolStaysBounded` | `Spec => []TypeOK`, the bound of the pool included |
| `ToolCalls_proofs!OrderIsTheModels` | `Spec => []ModelOrder` |
| `ToolCalls_proofs!ExclusiveRunsAlone` | `Spec => []ExclusiveIsBarrier` |
| `ToolCalls_proofs!OutcomeIsAlwaysComplete` | `Spec => []OutcomeIsComplete` |
| `ToolCalls_proofs!AbortStartsNothing` | `Spec => NoStartUnderAbort` |
| `ToolCalls_proofs!ToolPhaseIsGrammatical` | `Spec => LogFollowsGrammar`: the scheduler's steps are `TurnLog`'s |
| `SessionHandle_proofs!TypeCorrect` | `Safety => []TypeOK` |
| `SessionHandle_proofs!LogStaysIntact` | `Safety => []LogIsIntact` |
| `SessionHandle_proofs!BufferIsServed` | `Safety => []SomeoneDrains` |
| `SessionHandle_proofs!CloseLosesNothing` | `Safety => CloseSeesEverything` |
| `SessionHandle_proofs!PromiseKept` | `Safety => KeepsPromise`: the handle implements `WriteBehind`'s safety; late flushes are excepted there |
| `LogFile_proofs!LeaseIsExclusive` | `Spec => []OneWriter` |
| `LogFile_proofs!AckedAlwaysSurvives` | `Spec => []AckedSurvives` |
| `LogFile_proofs!ViewAlwaysStored` | `Spec => []ViewIsStored` |
| `CrashRecovery_proofs!LogIsGrammatical` | `Spec => LogFollowsGrammar`: driver, repair and resume together implement `TurnLog` |
| `CrashRecovery_proofs!RepairCanResume` | `Spec => []RepairResumes` |
| `CrashRecovery_proofs!NotStartedTrue` | `Spec => []NotStartedIsTrue` |
| `CrashRecovery_proofs!AnsweredOnce` | `Spec => []AnsweredExactlyOnce` |
| `InboxRecovery_proofs!InboxAlwaysReadable` | `Spec => []InboxIsReadable` |
| `InboxRecovery_proofs!ClaimsAlwaysAccounted` | `Spec => []ClaimIsAccounted` |
| `AgentLoop_proofs!RejectedAlwaysClean` | `LifeSpec => []RejectedIsClean` |
| `AgentLoop_proofs!FactoryAlwaysDrains` | `LifeSpec => []FactoryDrains` |
| `GoalRounds_proofs!GoalTypes` | `Spec => []TypeOK` |
| `GoalRounds_proofs!RoundEntersOnce` | `Spec => RoundOnce` |
| `GoalRounds_proofs!ReservedWhenStored` | `Spec => StoredFirst` |
| `GoalRounds_proofs!CommitsAlwaysReplay` | `Spec => CommitsReplay` |
| `GoalRounds_proofs!PauseAlwaysStops` | `Spec => PauseStops` |
| `Schedule_proofs!DispatchFollowsMessage` | `Spec => []AcceptedIsQueued` |
| `Schedule_proofs!ReportsAreStored` | `Spec => []ReportedIsStored` |
| `Schedule_proofs!NoReminderStrays` | `Spec => NoStrayReminder` |

*AgentLoop.* The inductive invariant is `TypeOK /\ GrammarInv /\ LiveInv /\
WakeInv /\ OnceInv`. `GrammarInv` ties the companion's view to the driver's counters by
program point (inside a turn the open turn is `turn`, outside the next one is
`turn + 1`, and so on for steps): without it, a stamp could be wrong and the
refinement step would not follow. What it says of the boundaries (`Boundaries`) holds until
a closing event is refused. `LiveInv` says that a driver runs exactly in
phase "running" and that an idle agent has neither an aborted controller nor a
latch. `WakeInv` lists who is responsible for what is pending: nobody
(`parked`), the latch, a live driver, or a `finally` that still replays the latch, while idle
or behind maintenance that its listeners started. The frames of pending calls need no
invariant of their own: what a frame does when it goes on is right whatever its
listeners did. `NoWakeIsLost` is `WakeInv` at idle, where the other cases are excluded. `OnceInv`
says that the log, the claimed batch and the two inbox lists hold each sent message at
most once between them, and that a batch still in hand after its commit is no first
attempt any more: that is what a retry would otherwise write again. There is one
lemma per append (what it does to the trace) and one per group of steps.

*ToolCalls.* What the runs check says nothing of where a started call is, so none of
it is inductive. `FlightInv` does: each started call is in flight or has its outcome
in a slot, what is committed has one, and when the pool is filled or raced the first
unanswered call is in flight. So a group whose pool is empty has committed all it
started (`GroupIsCommitted`), which is what `runGroup` relies on when it returns the new
position. `LogInv` ties the two lists to the counters, `GroupInv` says that an open group
is one exclusive call or parallel calls only, and `AbortInv` that whoever fills the pool
has read the signal.

*SessionHandle.* The inductive invariant is `TypeOK /\ ChainInv /\ LogIsIntact
/\ PromiseInv /\ DrainInv`. `LogIsIntact` alone is not inductive: a drain that starts would
overwrite a batch in flight. `ChainInv` says that the chain never holds an
operation twice, that a drain is on it only while the drain's promise says `writing`, that
a queued barrier belongs to a call that waits for it, and that a batch exists only while
the drain at the head runs. `PromiseInv` says that a call that was not late is covered by the
disk from the moment its drain's loop is over, and that `close()` is once it has seen
the empty buffer. `DrainInv` says that a drain that writes has something to write, that one
that has not failed has lifted the pause, and that nothing runs on the
chain while `close()` is about to look at the buffer. With them each action
maps to `Store`, `Call`, `Return`, `Fail`, `Publish` or a stuttering step.

*LogFile.* `LeaseInv` says that a process that has locked its inode owns it until
it lets go, and that a holder's inode is the one at the path: only a holder removes the
file, and `Verified` compares the inodes under the lock. Two holders would own
one inode. Everything else in `LogFile` leaves the lease alone (`LeaseOnly`), and
whoever has the log open holds the lease, so one process at a time changes the
file (`WriterStep`). `AckedSurvives` is not inductive: a write under way may be any
part of its piece. `LogInv` says that only the last piece is ever cut, that the rows are
numbered from 1 (`Good`), that what was acknowledged is in the pieces before a cut
(`FileInv`), and, for each place in `persistContiguous`, what a handle's cursor and
its recovered records make of the file (`Phase`): behind a torn piece the cursor counts
the rows that the repair will cut and the rewrite restores. A `Good` file decodes
to its rows in both encodings (`GoodDecodes`). What the decoder's flattening computes
is not needed for every input; that an appended piece adds its rows at the
end is (`FlattenAppend`), by a least counterexample. Once a rollback or a close
has failed (`spoiled`) nothing is claimed.

*CrashRecovery.* Three readers follow the log: the companion, the scan of a repair and
the count of answers. `Sound` says that they agree on what is open and pending, and
`DrainedFields` and the lemmas around it that every event the grammar takes keeps
them agreed. What the write buffer holds leads from the stored log to the driver's
(`LiveInv`), so a crash may cut it anywhere and what is left is sound. The closers
of a log, less their head, are the closers of the log with that head stored
(`ClosersRest`): this is `RepairResumes`, and it makes each step of a repair a
step of `TurnLog`. `MessageFirst`, `RecordInv` and `RanInv` say what the flush before a
tool body guarantees: a call whose body ran is stored as recorded, so
`NotStartedIsTrue` follows wherever the scan stands. The calls that a repair
closes come in the order of the message; that the sorted list holds each of
them once rests on least elements of finite sets, which the library's
well-founded orders give without induction over an operator.

*InboxRecovery.* Neither property is inductive: a crash may store any part of what is
buffered, and what the fold then refuses or loses depends on all of it. `Good` says
what a log must say to its readers: nothing is pending twice, a message is pending or
admitted once and was sent, and what was taken belongs to the open turn, which counts
as having claimed, or was given up. `Fits` says which event may come next, and
`FitsKeepsGood` that a good log stays good under it, one lemma per kind of event.
The buffered events `Leads` from the stored log to where the driver is
(`LiveInv`, `DriverAt`), each of them fitting the log before it; so every prefix that a
crash leaves is good, and the repair's closers fit it as well. What remains is one
lemma per action: that what it appends fits and leads to where the driver is next
(`LiveStep`). For callers this rests on the normalisation of a splice
(`NormalizedType`, for every position), for `clear` and `claim` on both lists
being cut at the front (`EmptiedIs`, `LeadsBoth`) and on what a claim hands out being what
left the inbox (`ClaimedFacts`). `IsUnique` counts; the proof uses the same
without counting (`UniqueIsDistinct`). `Inv` was checked with TLC first, on the instance
of the run `inbox_recovery`.

*AgentLifecycle.* The invariant has, for each transaction, what its creation holds
at each await (`Making_Inv`) and what its teardown has undone (`Teardown_Inv`), and
for the factory that whatever its disposal does not wait for is already out
(`FactoryInv`): no creation begins once it is inactive, and one that is already out
stays out. A teardown may leave a running driver only where a dispose came from
inside an append, which `faults` records.

*GoalRounds.* Two invariants. For replay, pauses and rounds `Inv` is `GoalOK(goal) /\
IsState(State) /\ PastFence(State)`. Each mutation
is shown once to lead from a good goal to a good goal that replays (`Mutations`),
each handler to keep an `Outcome`, and each action composes handlers. `PastFence`
is about a reserved round between the fence and its admission: while its signal is not
aborted its goal is not stopped, because a pause aborts the turn first, and
if its revision is still the goal's, it is the next round, because nothing else is admitted
meanwhile. For what is stored it is `Covered`: while the driver trusts the goal (`Trusts`:
it is on, the goal continues, and it owes no checkpoint), no change of the goal is
unsaved but what the flush under way covers. A handler may take the trust away and never gives
it (`Calmer`); only a flush does, and `StoredFirst` follows when it returns.

*Schedule.* `FlushInv` is the heart: while the transaction at the head of the
queue flushes, what it waits for is the whole unsaved log, because nobody but the
head appends. So what a tool at the barrier will report, true of the live fold
(`BarrierInv`), is true of every prefix once it returns (`ToldInv`): folds only
grow (`Later`).

`NoReminderStrays` needs two more invariants. `FreshInv`: every occurrence that was
queued, or that a prefix counts as delivered, lies before the target its reminder
has now (`Passed`), so that what is due is new; after a crash the same follows from
what the stored prefix delivered, which this process had queued. An
append that throws halfway breaks this for the rest of the batch, hence the
condition `~rt.faulted` and `QueueInv`: at most one drive is in the queue, a
faulted runtime is never asked for another, so the drive that met the fault
is the last. That a whole batch is dispatched is a counting argument
(`FirstOfAll`), and that it is queued without a repetition one about sets as
sequences (`SetAsSeq`). Both invariants were checked with TLC first, on
the instance of the run `schedule`.

*Only model-checked:* all liveness (`CancelConverges`, `WakeIsServed`,
`SchedulerSettles`, `CallsSettle`, `TeardownEnds`, `GoalEnds`,
`OverdueIsServed`: fairness and ENABLED are outside the proof system). Every
safety property that a run expects to hold is stated by a theorem. The type invariants of `AgentLoop`, `SessionHandle` and `AgentLifecycle`
are proved and not run again; those of `ToolCalls` and `GoalRounds` are also checked by their runs.

## 5. Limits of the model

- Between the last abort check of `prepareRequest` (`agent.ts:548`) and the commit of
  the user messages there is one await; messages may be committed under abort.
  `NoWorkUnderAbort` does not claim otherwise, and `PauseStops` ends at that check. The
  second append of a claim looks at no signal either (`inbox.ts:113`).
- The log of a driver is grammatical until an append of step/end or turn/end is refused:
  then that boundary stays open. From there the companion would refuse most of what the
  driver appends; in the model a later append may be refused or accepted, which is more
  than the code does, and nothing is claimed of the grammar.
- A cancel may take back the promise of a wake that its own listeners sent.
  `NoWakeIsLost` and `WakeIsServed` count such a message as parked.
- Calls of listeners inside each other are bounded by `MaxNesting` for TLC only.
- A `keepInbox` cancel made by an observer of turn/end is forgotten when
  `NextTurn` installs a fresh controller; the model does the same (`agent.ts:345`).
- A message that is sent in the gap between the driver's last look at the inbox and its exit
  is parked, as the code's comment documents.
- In `AgentLoop` disposal is the cancel with cause "disposed"; what surrounds it
  is `AgentLifecycle`.
- Request contents, prompt projection, stream frames, token counts and policies
  are abstracted to the outcomes the driver distinguishes.
- `SessionHandle`: a failed write leaves nothing behind; what it may leave is
  `LogFile`. Explicit `append` through the handle (resume uses it before
  publication) and reads are not modelled. Publishing may happen
  between any two steps of the model, which is more often than the runtime allows, but not
  inside the chains of promise jobs that only pass a result on. A flush that joins a drain
  that is over promises nothing; `CrashRecovery`, `GoalRounds` and `Schedule` assume that
  the flushes they wait for did not come too late.
- `CrashRecovery`: explicit appends are stored one by one; a resume whose append
  fails is a crash of the model.
- `InboxRecovery`: positions are integers (the code truncates fractions and NaN
  first); callers do not send a message again that has left the inbox; hooks that
  rewrite a claim away are `waived`; notifications are `AgentLoop`'s.
- `LogFile`: a power loss leaves a prefix of what was not synced, as dying in the
  write does. After a failed close or rollback (`spoiled`) nothing is claimed of
  the file. Migration of old generations, listing, read handles and the memo of
  parsed logs are not modelled.
- `AgentLifecycle`: the config-driven startup, the log suffix before publication and the
  projections the module registers are left out; TLC explores one trouble at a
  time, the theorems any number.
- `GoalRounds`: the reference stands for id and revision; wire decoding, the
  threshold of blocked reports, timestamps, next-step context, the removal or replacement
  of a queued prompt, `agent/session-start`, the calls that other listeners make in the
  middle of a cancel, and the slash command are left out, and a followup does not throw.
  `StoredFirst` is about changes of the goal; of rounds, the seventh disagreement says what
  holds. The
  pass is a step of its own, which allows more orders than the code. Rounds that
  were left unreserved while the driver's plugin is unloaded are not sent again.
- `Schedule`: dates and zones, wire decoding and a corrupt log, the framing text,
  the projection and a throwing decision are left out. The timer may fire at
  any time, which covers segmented waits; a clock that moves between two
  readings of one step is a tick before it.

Not modelled at all, with reasons: see the components in `PROJECT.json`. Adapters
around external processes, wire formats, user interface and settings hold
little state whose orders matter.

## 6. Plan

Modelled, most important behaviour first: `TurnLog`, `AgentLoop`, `ToolCalls`,
`CrashRecovery`, `WriteBehind`, `SessionHandle`, `WriteLease`, `LogFile`,
`AgentLifecycle`, `Goal`, `GoalRounds`, `Schedule`, `Inbox`, `ConsumedWork`,
`InboxRecovery`. Next:

1. Local jobs: foreground and background jobs, one settlement per job,
   cancellation against completion.
2. Session store and projection cache: observers, snapshots, stale reads.
3. Approvals and questions: one answer per request, abort and restart.
4. Compaction and subagents against the driver; `llm-retry`'s policy.

A new module shares a run with an old one where they compose (`Schedule` over
`AgentLoop`'s phases, `LogFile` under `SessionHandle`).
