---------------------------- MODULE SessionHandle ----------------------------
(***************************************************************************)
(* The write handle of a stored session, JsonlSessionHandle in             *)
(* packages/session/session-persistence-jsonl/src/storage.ts: published    *)
(* events are buffered behind a timer, one drain at a time writes them     *)
(* through the handle's mutation chain, a failed batch goes back to the    *)
(* buffer, session/flush waits for drain and barrier, and close drains     *)
(* again until nothing is left, then gives up the kernel lock.             *)
(*                                                                         *)
(* An action is one promise job; other fibers publish and call in jobs of  *)
(* their own between any two of them.  The events of a batch reach         *)
(* the disk together or, when the write fails, not at all (appendLines     *)
(* truncates the file); the failure of that truncation is not modelled.    *)
(***************************************************************************)
EXTENDS Naturals, Sequences

CONSTANTS
    Flushers,           \* the calls of session/flush
    MaxEvents           \* bound: events the session publishes

ASSUME FlushersAssumption == "drain" \notin Flushers /\ "close" \notin Flushers
ASSUME EventsAssumption == MaxEvents \in Nat

VARIABLES
    published,          \* events published so far; the n-th event is n
    buffered,           \* events that wait for a drain
    timer,              \* batchTimer is armed
    paused,             \* drainPaused
    draining,           \* where the drain is, "no" while the field is undefined
    batch,              \* the events its chained turn is writing
    chain,              \* the operations on the mutation chain: "drain" or a flusher
    running,            \* what the first of them awaits: "none", "lease", "write"
    disk,               \* the stored events
    materialized,       \* the session has a durable artifact
    lease,              \* the kernel lock: "none", "held", "released"
    caller,             \* where each call of session/flush is
    closing,            \* where close() is, "open" before it is called
    ahead,              \* chained operations that close() still awaits
    closeFailed,        \* close() will reject
    covers,             \* history: events published before each call
    late                \* history: flushes that joined a drain whose loop was over

bufferVars == <<published, buffered, timer, paused>>
chainVars  == <<draining, batch, chain, running>>
diskVars   == <<disk, materialized, lease>>
closeVars  == <<closing, ahead, closeFailed>>
history    == <<covers, late>>
vars == <<bufferVars, chainVars, diskVars, closeVars, caller, history>>

Init ==
    /\ published = 0 /\ buffered = <<>> /\ timer = FALSE /\ paused = FALSE
    /\ draining = "no" /\ batch = <<>> /\ chain = <<>> /\ running = "none"
    /\ disk = <<>>
    /\ \/ materialized = FALSE /\ lease = "none"       \* from create
       \/ materialized = TRUE /\ lease = "held"        \* from open
    /\ caller = [f \in Flushers |-> "idle"]
    /\ closing = "open" /\ ahead = 0 /\ closeFailed = FALSE
    /\ covers = [b \in Flushers \cup {"close"} |-> 0] /\ late = {}

----------------------------------------------------------------------------
(* Promise jobs.                                                           *)

CloseIsLate == FALSE                    \* mutant: the next operation starts before close() looks

\* close() reacts to the end of the operation it awaits before the next
\* operation starts.
CloseIsNext == closing \in {"settling", "last"} /\ ahead = 0

\* Timers and storage answer when no continuation is waiting to run.
NoJobs ==
    /\ ~CloseIsNext /\ closing \notin {"drained", "broken"}
    /\ draining \in {"no", "writing"}
    /\ \A f \in Flushers : caller[f] # "drained"
    /\ chain = <<>> \/ running # "none"

----------------------------------------------------------------------------
(* Events, the timer, and drainLive.                                       *)

\* The tracker routes the session's events here until releaseHandle.
Routed == closing # "closed"

Publish ==
    /\ Routed
    /\ published < MaxEvents
    /\ published' = published + 1
    /\ buffered' = Append(buffered, published + 1)
    /\ timer' = (timer \/ ~paused)
    /\ UNCHANGED <<paused, chainVars, diskVars, closeVars, caller, history>>

PauseStays == paused                    \* mutant: a retry does not lift the pause

PauseLifted == FALSE

\* drainLive joins the drain whose promise is still in the field, also one
\* that has nothing left to do.
JoinsDrain == draining # "no"

\* A drain that starts queues its first batch; over an empty buffer its loop
\* ends at once, and only a later job clears the field.
DrainLive ==
    \/ /\ JoinsDrain
       /\ UNCHANGED <<paused, draining, chain>>
    \/ /\ ~JoinsDrain
       /\ paused' = PauseLifted
       /\ \/ /\ buffered # <<>>
             /\ draining' = "writing" /\ chain' = Append(chain, "drain")
          \/ /\ buffered = <<>>
             /\ draining' = "ended" /\ UNCHANGED chain

\* A drain that starts clears the timer.
TimerAfterDrainLive == timer /\ JoinsDrain

TimerFires ==
    /\ timer /\ NoJobs
    /\ timer' = FALSE
    /\ DrainLive
    /\ UNCHANGED <<published, buffered, batch, running, diskVars, closeVars, caller, history>>

----------------------------------------------------------------------------
(* session/flush: drainLive, then a turn of its own on the chain.          *)

Flush(f) ==
    /\ Routed
    /\ caller[f] = "idle"
    /\ covers' = [covers EXCEPT ![f] = published]
    /\ late' = IF draining = "ended" THEN late \cup {f} ELSE late
    /\ caller' = [caller EXCEPT ![f] = "draining"]
    /\ timer' = TimerAfterDrainLive
    /\ DrainLive
    /\ UNCHANGED <<published, buffered, batch, running, diskVars, closeVars>>

\* handle.flush() refuses a closing handle.
FlushContinues(f) ==
    /\ caller[f] = "drained"
    /\ \/ /\ closing = "open"
          /\ caller' = [caller EXCEPT ![f] = "barrier"]
          /\ chain' = Append(chain, f)
       \/ /\ closing # "open"
          /\ caller' = [caller EXCEPT ![f] = "closed"]
          /\ UNCHANGED chain
    /\ UNCHANGED <<bufferVars, draining, batch, running, diskVars, closeVars, history>>

----------------------------------------------------------------------------
(* The mutation chain.                                                     *)

\* The drain looks at the buffer before the operation behind its batch starts.
Starts(op) ==
    /\ chain # <<>> /\ Head(chain) = op
    /\ running = "none"
    /\ ~CloseIsNext /\ draining # "testing"

\* ensureLease: the lock is taken once, before the first write.
Writes == IF lease = "none" THEN "lease" ELSE "write"

Runs(op) == chain # <<>> /\ Head(chain) = op /\ running = "write" /\ NoJobs

Breaks(op) == chain # <<>> /\ Head(chain) = op /\ running \in {"lease", "write"} /\ NoJobs

OneDone == IF ahead = 0 THEN 0 ELSE ahead - 1

StartDrain ==
    /\ Starts("drain")
    /\ batch' = buffered /\ buffered' = <<>>
    /\ running' = Writes
    /\ UNCHANGED <<published, timer, paused, draining, chain, diskVars, closeVars, caller, history>>

AcquireLease ==
    /\ running = "lease" /\ NoJobs
    /\ lease' = "held"
    /\ running' = "write"
    /\ UNCHANGED <<bufferVars, draining, batch, chain, disk, materialized, closeVars, caller, history>>

BatchWritten ==
    /\ Runs("drain")
    /\ disk' = disk \o batch /\ batch' = <<>>
    /\ materialized' = TRUE
    /\ chain' = Tail(chain) /\ running' = "none" /\ ahead' = OneDone
    /\ draining' = "testing"
    /\ UNCHANGED <<bufferVars, lease, caller, closing, closeFailed, history>>

RetainedLast == buffered \o batch       \* mutant: the failed batch is queued anew

Retained == batch \o buffered

\* The failed events go back, and the loop throws.
BatchFails ==
    /\ Breaks("drain")
    /\ buffered' = Retained /\ batch' = <<>>
    /\ paused' = TRUE
    /\ draining' = "failed"
    /\ chain' = Tail(chain) /\ running' = "none" /\ ahead' = OneDone
    /\ UNCHANGED <<published, timer, diskVars, caller, closing, closeFailed, history>>

DrainOnce == FALSE                      \* mutant: a drain writes a single batch

DrainForever == TRUE                    \* mutant: the loop does not look at the buffer

DrainGoesOn == buffered # <<>>

\* The loop's own job, after its batch was written.
LoopTests ==
    /\ draining = "testing"
    /\ \/ /\ DrainGoesOn
          /\ draining' = "writing" /\ chain' = Append(chain, "drain")
       \/ /\ ~DrainGoesOn
          /\ draining' = "ended" /\ UNCHANGED chain
    /\ UNCHANGED <<bufferVars, batch, running, diskVars, closeVars, caller, history>>

\* The job of .finally: the field is cleared, and everyone who joined goes on
\* in a job of their own, or rejects.
DrainSettles ==
    /\ draining \in {"ended", "failed"}
    /\ draining' = "no"
    /\ LET answer == IF draining = "ended" THEN "drained" ELSE "failed"
       IN  caller' = [f \in Flushers |-> IF caller[f] = "draining" THEN answer ELSE caller[f]]
    /\ closing' = IF closing # "draining" THEN closing
                  ELSE IF draining = "ended" THEN "drained" ELSE "broken"
    /\ UNCHANGED <<bufferVars, batch, chain, running, diskVars, ahead, closeFailed, history>>

\* The barrier's turn has nothing to do unless the session is not
\* materialized, and is refused when close() was called in the meantime.
StartFlush(f) ==
    /\ Starts(f)
    /\ \/ /\ closing = "open" /\ ~materialized
          /\ running' = Writes
          /\ UNCHANGED <<chain, caller, ahead>>
       \/ /\ closing # "open" \/ materialized
          /\ caller' = [caller EXCEPT ![f] = IF closing = "open" THEN "returned" ELSE "closed"]
          /\ chain' = Tail(chain) /\ ahead' = OneDone
          /\ UNCHANGED running
    /\ UNCHANGED <<bufferVars, draining, batch, diskVars, closing, closeFailed, history>>

HeaderWritten(f) ==
    /\ Runs(f)
    /\ materialized' = TRUE
    /\ caller' = [caller EXCEPT ![f] = "returned"]
    /\ chain' = Tail(chain) /\ running' = "none" /\ ahead' = OneDone
    /\ UNCHANGED <<bufferVars, draining, batch, disk, lease, closing, closeFailed, history>>

HeaderFails(f) ==
    /\ Breaks(f)
    /\ caller' = [caller EXCEPT ![f] = "failed"]
    /\ chain' = Tail(chain) /\ running' = "none" /\ ahead' = OneDone
    /\ UNCHANGED <<bufferVars, draining, batch, diskVars, closing, closeFailed, history>>

----------------------------------------------------------------------------
(* close().                                                                *)

Close ==
    /\ closing = "open"
    /\ covers' = [covers EXCEPT !["close"] = published]
    /\ closing' = "draining"
    /\ timer' = TimerAfterDrainLive
    /\ DrainLive
    /\ UNCHANGED <<published, buffered, batch, running, diskVars, ahead, closeFailed, caller, late>>

CloseDrained ==
    /\ closing = "drained"
    /\ closing' = "settling"
    /\ ahead' = Len(chain)
    /\ UNCHANGED <<bufferVars, chainVars, diskVars, closeFailed, caller, history>>

\* A failed drain is the last one; the chain may still hold other operations.
CloseGivesUp ==
    /\ closing = "broken"
    /\ closing' = "last" /\ closeFailed' = TRUE
    /\ ahead' = Len(chain)
    /\ UNCHANGED <<bufferVars, chainVars, diskVars, caller, history>>

\* Producers may have published in the meantime: drain again.
CloseDrainsAgain ==
    /\ closing = "settling" /\ ahead = 0
    /\ buffered # <<>>
    /\ closing' = "draining"
    /\ timer' = TimerAfterDrainLive
    /\ DrainLive
    /\ UNCHANGED <<published, buffered, batch, running, diskVars, ahead, closeFailed, caller, history>>

CloseIsDone ==
    /\ closing = "settling" /\ ahead = 0
    /\ buffered = <<>>
    /\ closing' = "last"
    /\ ahead' = Len(chain)
    /\ UNCHANGED <<bufferVars, chainVars, diskVars, closeFailed, caller, history>>

StartRelease ==
    /\ closing = "last" /\ ahead = 0
    /\ closing' = IF lease = "held" THEN "releasing" ELSE "released"
    /\ UNCHANGED <<bufferVars, chainVars, diskVars, ahead, closeFailed, caller, history>>

\* The kernel drops the lock before close() hears of it; the release itself
\* may report an error.
LeaseReleased ==
    /\ closing = "releasing" /\ NoJobs
    /\ lease' = "released"
    /\ closeFailed' \in {closeFailed, TRUE}
    /\ closing' = "released"
    /\ UNCHANGED <<bufferVars, chainVars, disk, materialized, ahead, caller, history>>

HandleReleased ==
    /\ closing = "released"
    /\ closing' = "closed"
    /\ UNCHANGED <<bufferVars, chainVars, diskVars, ahead, closeFailed, caller, history>>

----------------------------------------------------------------------------

Drain == StartDrain \/ BatchWritten \/ BatchFails

DrainJobs == LoopTests \/ DrainSettles

Barrier(f) == StartFlush(f) \/ HeaderWritten(f) \/ HeaderFails(f)

Chained == Drain \/ AcquireLease \/ \E f \in Flushers : Barrier(f)

Closes ==
    \/ CloseDrained \/ CloseGivesUp \/ CloseDrainsAgain \/ CloseIsDone
    \/ StartRelease \/ LeaseReleased \/ HandleReleased

\* Everybody has been answered.
Rest ==
    /\ chain = <<>> /\ ~timer /\ draining = "no"
    /\ \A f \in Flushers : caller[f] \in {"idle", "returned", "closed", "failed"}
    /\ closing \in {"open", "closed"}
    /\ UNCHANGED vars

Next ==
    \/ Publish \/ TimerFires \/ Close \/ Chained \/ DrainJobs \/ Closes \/ Rest
    \/ \E f \in Flushers : Flush(f) \/ FlushContinues(f)

\* Timers fire, storage answers, and the continuations of awaits run.
Fairness ==
    /\ WF_vars(TimerFires) /\ WF_vars(Chained) /\ WF_vars(DrainJobs) /\ WF_vars(Closes)
    /\ \A f \in Flushers : WF_vars(FlushContinues(f))

Safety == Init /\ [][Next]_vars

Spec == Safety /\ Fairness

----------------------------------------------------------------------------

Events == 1..MaxEvents

BufferType ==
    /\ published \in 0..MaxEvents
    /\ buffered \in Seq(Events) /\ batch \in Seq(Events) /\ disk \in Seq(Events)
    /\ timer \in BOOLEAN /\ paused \in BOOLEAN
    /\ materialized \in BOOLEAN /\ lease \in {"none", "held", "released"}

ChainType ==
    /\ draining \in {"no", "writing", "testing", "ended", "failed"}
    /\ chain \in Seq(Flushers \cup {"drain"})
    /\ running \in {"none", "lease", "write"}

CallType ==
    /\ caller \in [Flushers ->
           {"idle", "draining", "drained", "barrier", "returned", "closed", "failed"}]
    /\ closing \in {"open", "draining", "drained", "broken", "settling", "last",
                    "releasing", "released", "closed"}
    /\ closeFailed \in BOOLEAN /\ ahead \in Nat
    /\ covers \in [Flushers \cup {"close"} -> 0..MaxEvents] /\ late \subseteq Flushers

TypeOK == BufferType /\ ChainType /\ CallType

\* Through failed writes, retries, joined drains and a close, the disk, the
\* batch that is being written and the buffer are together the published
\* events, each once and in order: storage never has a gap or a duplicate.
LogIsIntact == disk \o batch \o buffered = [n \in 1..published |-> n]

\* While the handle is open a buffered event has somebody who will write it:
\* an armed timer, a drain that will look at the buffer again, or the pause
\* that the last failed batch has left.
SomeoneDrains ==
    /\ closing = "open" /\ buffered # <<>> =>
           timer \/ draining \in {"writing", "testing"} \/ paused
    /\ paused => buffered # <<>>

\* When close() stops draining because the buffer is empty, no event is in
\* somebody else's batch either: everything published so far is stored.
CloseSeesEverything ==
    [][closing = "settling" /\ closing' = "last" => Len(disk) = published]_vars

FlushState(c) ==
    CASE c = "idle"   -> "idle"
      [] c = "failed" -> "failed"
      [] c \in {"returned", "closed"} -> "returned"
      [] OTHER        -> "waiting"

CloseState(c, failed) ==
    CASE c = "open"   -> "idle"
      [] c = "closed" -> IF failed THEN "failed" ELSE "returned"
      [] OTHER        -> "waiting"

BarrierState ==
    [b \in Flushers \cup {"close"} |->
        IF b = "close" THEN CloseState(closing, closeFailed) ELSE FlushState(caller[b])]

WB == INSTANCE WriteBehind WITH
    Barriers <- Flushers \cup {"close"}, Joiners <- Flushers, stored <- Len(disk), barrier <- BarrierState

\* The handle implements the write-behind promise: the store only grows, and a
\* flush that returns (or that a closing handle refuses after its drain, which
\* flushAll counts as flushed) and a close that returns have stored what was
\* published before their call; a flush that joined a drain when its loop was
\* over promises nothing.
KeepsPromise == WB!Safety

\* What the persistence README says of session/flush, "drains through
\* quiescence": whatever was published before a flush is stored when it returns.
FlushDrainsAll ==
    [][\A f \in Flushers : caller[f] # "returned" /\ caller'[f] = "returned" =>
           covers[f] <= Len(disk)]_vars

\* Every flush and the close are answered, or fail, in the end, however the
\* drains they join are chained, fail and start again.
CallsSettle == WB!Fairness

\* What lease.ts says of the lock, "held for the whole life of a write
\* handle": nothing is written without it.
WritesUnderLease == [][disk' # disk => lease = "held"]_vars

=============================================================================
