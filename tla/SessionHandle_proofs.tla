------------------------- MODULE SessionHandle_proofs -------------------------
(***************************************************************************)
(* Theorems about SessionHandle, for every number of events and of flush   *)
(* calls.                                                                  *)
(***************************************************************************)
EXTENDS SessionHandle, TLAPS, SequenceTheorems

----------------------------------------------------------------------------
(* Type correctness.                                                       *)

\* A chain without its first operation, or with one more, is a chain.
LEMMA ChainSeq ==
  ASSUME ChainType
  PROVE  /\ \A op \in Flushers \cup {"drain"} : Append(chain, op) \in Seq(Flushers \cup {"drain"})
         /\ chain # <<>> => /\ Tail(chain) \in Seq(Flushers \cup {"drain"})
                            /\ Append(Tail(chain), "drain") \in Seq(Flushers \cup {"drain"})
                            /\ Len(chain) \in Nat \ {0}
         /\ Len(chain) \in Nat
  BY HeadTailProperties, EmptySeq DEF ChainType

\* Every step keeps the event sequences and the flags of storage in their types.
LEMMA BufferTypeStep == TypeOK /\ [Next]_vars => BufferType'
<1> SUFFICES ASSUME TypeOK, [Next]_vars PROVE BufferType'
  OBVIOUS
<1> USE EventsAssumption DEF TypeOK, BufferType, bufferVars, chainVars, diskVars, closeVars, history
<1>1. CASE Publish
  <2>1. published + 1 \in Events
    BY <1>1 DEF Publish, Events
  <2> QED
    BY <1>1, <2>1 DEF Publish
<1>2. CASE TimerFires
  BY <1>2 DEF TimerFires, DrainLive, PauseLifted
<1>3. CASE Close
  BY <1>3 DEF Close, DrainLive, PauseLifted, TimerAfterDrainLive, ChainType
<1>4. CASE Chained
  <2>1. CASE Drain
    <3>1. /\ buffered \in Seq(Events) /\ batch \in Seq(Events) /\ disk \in Seq(Events)
          /\ disk \o batch \in Seq(Events) /\ batch \o buffered \in Seq(Events)
          /\ <<>> \in Seq(Events)
      BY ConcatProperties, EmptySeq
    <3> QED
      BY <2>1, <3>1 DEF Drain, StartDrain, BatchWritten, BatchFails, Retained
  <2>2. CASE AcquireLease
    BY <2>2 DEF AcquireLease
  <2>3. CASE \E f \in Flushers : Barrier(f)
    BY <2>3 DEF Barrier, StartFlush, HeaderWritten, HeaderFails
  <2> QED
    BY <1>4, <2>1, <2>2, <2>3 DEF Chained
<1>5. CASE Closes
  BY <1>5 DEF Closes, CloseDrained, CloseDrainsAgain, CloseIsDone, CloseGivesUp,
              StartRelease, LeaseReleased, HandleReleased, DrainLive, PauseLifted, TimerAfterDrainLive, ChainType
<1>6. CASE \E f \in Flushers : Flush(f) \/ FlushContinues(f)
  BY <1>6 DEF Flush, FlushContinues, DrainLive, PauseLifted, TimerAfterDrainLive, ChainType
<1>7. CASE Rest \/ UNCHANGED vars
  BY <1>7 DEF Rest, vars
<1>8. CASE DrainJobs
  BY <1>8 DEF DrainJobs, LoopTests, DrainSettles
<1> QED
  BY <1>1, <1>2, <1>3, <1>4, <1>5, <1>6, <1>7, <1>8 DEF Next

\* Every step keeps the mutation chain in its type.
LEMMA ChainTypeStep == TypeOK /\ [Next]_vars => ChainType'
<1> SUFFICES ASSUME TypeOK, [Next]_vars PROVE ChainType'
  OBVIOUS
<1> USE ChainSeq DEF TypeOK, ChainType, bufferVars, chainVars, diskVars, closeVars, history
<1>1. CASE Publish
  BY <1>1 DEF Publish
<1>2. CASE TimerFires
  BY <1>2 DEF TimerFires, DrainLive, JoinsDrain
<1>3. CASE Close
  BY <1>3 DEF Close, DrainLive, JoinsDrain
<1>4. CASE Chained
  <2>1. CASE Drain
    BY <2>1 DEF Drain, StartDrain, BatchWritten, BatchFails, Writes, Runs, Breaks
  <2>2. CASE AcquireLease
    BY <2>2 DEF AcquireLease
  <2>3. CASE \E f \in Flushers : Barrier(f)
    BY <2>3 DEF Barrier, StartFlush, HeaderWritten, HeaderFails, Starts, Runs, Breaks, Writes
  <2> QED
    BY <1>4, <2>1, <2>2, <2>3 DEF Chained
<1>5. CASE Closes
  BY <1>5 DEF Closes, CloseDrained, CloseDrainsAgain, CloseIsDone, CloseGivesUp,
              StartRelease, LeaseReleased, HandleReleased, DrainLive, JoinsDrain
<1>6. ASSUME NEW f \in Flushers, Flush(f) \/ FlushContinues(f) PROVE ChainType'
  <2>1. CASE Flush(f)
    BY <2>1 DEF Flush, DrainLive, JoinsDrain
  <2>2. CASE FlushContinues(f)
    BY <2>2 DEF FlushContinues
  <2> QED
    BY <1>6, <2>1, <2>2
<1>7. CASE Rest \/ UNCHANGED vars
  BY <1>7 DEF Rest, vars
<1>8. CASE DrainJobs
  BY <1>8 DEF DrainJobs, LoopTests, DrainSettles
<1> QED
  BY <1>1, <1>2, <1>3, <1>4, <1>5, <1>6, <1>7, <1>8 DEF Next

\* Every step keeps what is known of the calls in its type.
LEMMA CallTypeStep == TypeOK /\ [Next]_vars => CallType'
<1> SUFFICES ASSUME TypeOK, [Next]_vars PROVE CallType'
  OBVIOUS
<1> USE DEF TypeOK, CallType, bufferVars, chainVars, diskVars, closeVars, history
<1>0. OneDone \in Nat /\ Len(chain) \in Nat /\ (chain # <<>> => Len(chain) - 1 \in Nat) /\ published \in 0..MaxEvents
  BY ChainSeq, EventsAssumption DEF OneDone, BufferType
<1>1. CASE Publish
  BY <1>1 DEF Publish
<1>2. CASE TimerFires
  BY <1>2 DEF TimerFires
<1>3. CASE Close
  BY <1>3, <1>0 DEF Close
<1>4. CASE Chained
  <2>1. CASE Drain
    BY <2>1, <1>0 DEF Drain, StartDrain, BatchWritten, BatchFails, Breaks
  <2>2. CASE AcquireLease
    BY <2>2 DEF AcquireLease
  <2>3. CASE \E f \in Flushers : Barrier(f)
    BY <2>3, <1>0 DEF Barrier, StartFlush, HeaderWritten, HeaderFails
  <2> QED
    BY <1>4, <2>1, <2>2, <2>3 DEF Chained
<1>5. CASE Closes
  BY <1>5, <1>0 DEF Closes, CloseDrained, CloseDrainsAgain, CloseIsDone, CloseGivesUp,
              StartRelease, LeaseReleased, HandleReleased
<1>6. CASE \E f \in Flushers : Flush(f) \/ FlushContinues(f)
  BY <1>6, <1>0 DEF Flush, FlushContinues
<1>7. CASE Rest \/ UNCHANGED vars
  BY <1>7 DEF Rest, vars
<1>8. CASE DrainJobs
  BY <1>8 DEF DrainJobs, LoopTests, DrainSettles
<1> QED
  BY <1>1, <1>2, <1>3, <1>4, <1>5, <1>6, <1>7, <1>8 DEF Next

----------------------------------------------------------------------------
(* The operations on the mutation chain.                                   *)

Has(q, op) == \E i \in DOMAIN q : q[i] = op

NoRepeats(q) == \A i, j \in DOMAIN q : q[i] = q[j] => i = j

\* The chain holds at most one drain, the single-flight one, and the barriers
\* of the calls that wait for theirs; a batch is in flight only in the drain.
ChainInv ==
    /\ NoRepeats(chain)
    /\ Has(chain, "drain") => draining = "writing"
    /\ \A f \in Flushers : Has(chain, f) => caller[f] = "barrier"
    /\ running # "none" => chain # <<>>
    /\ batch # <<>> => running # "none" /\ Head(chain) = "drain"

\* An operation is appended behind the ones that are there.
LEMMA AppendOp ==
  ASSUME NEW S, NEW q \in Seq(S), NEW op \in S, NoRepeats(q), ~Has(q, op)
  PROVE  /\ NoRepeats(Append(q, op))
         /\ \A o : Has(Append(q, op), o) => o = op \/ Has(q, o)
         /\ q # <<>> => Head(Append(q, op)) = Head(q)
         /\ Append(q, op) # <<>>
<1>1. /\ Append(q, op) # <<>>
      /\ DOMAIN Append(q, op) = 1..(Len(q) + 1) /\ Append(q, op)[Len(q) + 1] = op
      /\ \A i \in 1..Len(q) : Append(q, op)[i] = q[i]
  BY AppendProperties, LenProperties
<1>2. DOMAIN q = 1..Len(q) /\ Len(q) \in Nat
  BY LenProperties
<1>3. q # <<>> => Head(Append(q, op)) = Head(q)
  BY <1>1, <1>2
<1> QED
  BY <1>1, <1>2, <1>3 DEF NoRepeats, Has

\* The first operation is taken away and does not come again.
LEMMA TailOp ==
  ASSUME NEW S, NEW q \in Seq(S), q # <<>>, NoRepeats(q)
  PROVE  /\ NoRepeats(Tail(q))
         /\ \A o : Has(Tail(q), o) => Has(q, o) /\ o # Head(q)
         /\ Has(q, Head(q))
<1>1. /\ Len(q) \in Nat \ {0} /\ DOMAIN q = 1..Len(q) /\ Head(q) = q[1]
      /\ Len(Tail(q)) = Len(q) - 1 /\ Tail(q) \in Seq(S)
      /\ \A i \in 1..(Len(q) - 1) : Tail(q)[i] = q[i + 1]
  BY HeadTailProperties, EmptySeq, LenProperties
<1>2. DOMAIN Tail(q) = 1..(Len(q) - 1)
  BY <1>1, LenProperties
<1> QED
  BY <1>1, <1>2 DEF NoRepeats, Has

\* drainLive chains a drain only where none is under way.
LEMMA DrainLiveChain ==
  ASSUME TypeOK, ChainInv, DrainLive, batch' = batch, running' = running,
         \A f \in Flushers : caller[f] = "barrier" => caller'[f] = "barrier"
  PROVE  ChainInv'
<1> USE DEF TypeOK, ChainType
<1>1. CASE ~JoinsDrain /\ buffered # <<>>
  <2>1. ~Has(chain, "drain")
    BY <1>1 DEF ChainInv, JoinsDrain
  <2>2. chain' = Append(chain, "drain") /\ draining' = "writing"
    BY <1>1 DEF DrainLive, JoinsDrain
  <2>3. /\ NoRepeats(chain') /\ chain' # <<>>
        /\ \A o : Has(chain', o) => o = "drain" \/ Has(chain, o)
        /\ chain # <<>> => Head(chain') = Head(chain)
    BY <2>1, <2>2, AppendOp DEF ChainInv
  <2> QED
    BY <2>2, <2>3, FlushersAssumption DEF ChainInv
<1>2. CASE JoinsDrain \/ buffered = <<>>
  BY <1>2 DEF DrainLive, JoinsDrain, ChainInv
<1> QED
  BY <1>1, <1>2

\* The end of the first operation leaves a chain without a batch in flight.
LEMMA PopChain ==
  ASSUME TypeOK, ChainInv, chain # <<>>, chain' = Tail(chain), running' = "none", batch' = <<>>,
         draining' = draining \/ Head(chain) = "drain",
         \A f \in Flushers : f # Head(chain) /\ caller[f] = "barrier" => caller'[f] = "barrier"
  PROVE  ChainInv'
  BY TailOp DEF ChainInv, TypeOK, ChainType

\* Every step keeps the mutation chain in order.
LEMMA ChainStep == TypeOK /\ ChainInv /\ [Next]_vars => ChainInv'
<1> SUFFICES ASSUME TypeOK, ChainInv, [Next]_vars PROVE ChainInv'
  OBVIOUS
<1> USE DEF bufferVars, chainVars, diskVars, closeVars, history
<1>0. caller \in [Flushers ->
          {"idle", "draining", "drained", "barrier", "returned", "closed", "failed"}]
  BY DEF TypeOK, CallType
<1>1. CASE Publish
  BY <1>1 DEF Publish, ChainInv
<1>2. CASE TimerFires
  BY <1>2, DrainLiveChain DEF TimerFires
<1>3. CASE Close
  BY <1>3, DrainLiveChain DEF Close
<1>4. CASE Chained
  <2>1. CASE StartDrain
    BY <2>1 DEF StartDrain, Starts, Writes, ChainInv
  <2>2. CASE BatchWritten
    BY <2>2, PopChain DEF BatchWritten, Runs
  <2>3. CASE BatchFails
    BY <2>3, PopChain DEF BatchFails, Breaks
  <2>4. CASE AcquireLease
    BY <2>4 DEF AcquireLease, ChainInv
  <2>5. ASSUME NEW f \in Flushers, Barrier(f) PROVE ChainInv'
    <3>1. f # "drain"
      BY FlushersAssumption
    <3>2. CASE UNCHANGED <<chain, caller>> /\ StartFlush(f)
      BY <3>1, <3>2 DEF StartFlush, Starts, ChainInv
    <3>3. CASE /\ chain # <<>> /\ Head(chain) = f /\ chain' = Tail(chain) /\ running' = "none"
               /\ \A g \in Flushers \ {f} : caller'[g] = caller[g]
               /\ UNCHANGED <<batch, draining>>
      <4>1. batch = <<>>
        BY <3>1, <3>3 DEF ChainInv
      <4> QED
        BY <3>3, <4>1, PopChain
    <3> QED
      BY <1>0, <2>5, <3>2, <3>3 DEF Barrier, StartFlush, HeaderWritten, HeaderFails, Starts, Runs, Breaks
  <2> QED
    BY <1>4, <2>1, <2>2, <2>3, <2>4, <2>5 DEF Chained, Drain
<1>5. CASE Closes
  <2>1. CASE CloseDrainsAgain
    BY <2>1, DrainLiveChain DEF CloseDrainsAgain
  <2>2. CASE UNCHANGED <<chainVars, caller>>
    BY <2>2 DEF ChainInv
  <2> QED
    BY <1>5, <2>1, <2>2 DEF Closes, CloseDrained, CloseGivesUp, CloseIsDone, StartRelease, LeaseReleased,
                            HandleReleased
<1>6. ASSUME NEW f \in Flushers, Flush(f) \/ FlushContinues(f) PROVE ChainInv'
  <2>1. CASE Flush(f)
    <3>1. \A g \in Flushers : caller[g] = "barrier" => caller'[g] = "barrier"
      BY <1>0, <2>1 DEF Flush
    <3> QED
      BY <2>1, <3>1, DrainLiveChain DEF Flush
  <2>2. CASE FlushContinues(f) /\ UNCHANGED chain
    <3>1. \A g \in Flushers : caller[g] = "barrier" => caller'[g] = "barrier"
      BY <1>0, <2>2 DEF FlushContinues
    <3> QED
      BY <2>2, <3>1 DEF FlushContinues, ChainInv
  <2>3. CASE FlushContinues(f) /\ chain' = Append(chain, f) /\ caller' = [caller EXCEPT ![f] = "barrier"]
    <3>1. f # "drain" /\ ~Has(chain, f)
      BY <1>0, <2>3, FlushersAssumption DEF FlushContinues, ChainInv
    <3>2. /\ NoRepeats(chain') /\ (\A o : Has(chain', o) => o = f \/ Has(chain, o)) /\ chain' # <<>>
          /\ chain # <<>> => Head(chain') = Head(chain)
      BY <2>3, <3>1, AppendOp DEF ChainInv, TypeOK, ChainType
    <3>3. caller'[f] = "barrier" /\ \A g \in Flushers : caller[g] = "barrier" => caller'[g] = "barrier"
      BY <1>0, <2>3
    <3> QED
      BY <2>3, <3>1, <3>2, <3>3 DEF FlushContinues, ChainInv
  <2> QED
    BY <1>6, <2>1, <2>2, <2>3 DEF FlushContinues
<1>7. CASE Rest \/ UNCHANGED vars
  BY <1>7 DEF Rest, vars, ChainInv
<1>8. CASE LoopTests
  <2>1. CASE UNCHANGED chain
    BY <1>8, <2>1 DEF LoopTests, ChainInv
  <2>2. CASE chain' = Append(chain, "drain") /\ draining' = "writing"
    <3>1. ~Has(chain, "drain")
      BY <1>8 DEF LoopTests, ChainInv
    <3>2. /\ NoRepeats(chain') /\ chain' # <<>>
          /\ \A o : Has(chain', o) => o = "drain" \/ Has(chain, o)
          /\ chain # <<>> => Head(chain') = Head(chain)
      BY <2>2, <3>1, AppendOp DEF ChainInv, TypeOK, ChainType
    <3> QED
      BY <1>8, <2>2, <3>2, FlushersAssumption DEF LoopTests, ChainInv
  <2> QED
    BY <1>8, <2>1, <2>2 DEF LoopTests
<1>9. CASE DrainSettles
  <2>1. \A f \in Flushers : caller[f] = "barrier" => caller'[f] = "barrier"
    BY <1>0, <1>9 DEF DrainSettles
  <2>2. ~Has(chain, "drain")
    BY <1>9 DEF DrainSettles, ChainInv
  <2> QED
    BY <1>9, <2>1, <2>2 DEF DrainSettles, ChainInv
<1> QED
  BY <1>1, <1>2, <1>3, <1>4, <1>5, <1>6, <1>7, <1>8, <1>9 DEF Next, DrainJobs

----------------------------------------------------------------------------
(* No event is lost, doubled or reordered.                                 *)

\* The published events with the next one are the published events.
LEMMA PublishedNext ==
  ASSUME NEW n \in Nat
  PROVE  Append([i \in 1..n |-> i], n + 1) = [i \in 1..(n + 1) |-> i]
<1> DEFINE s == [i \in 1..n |-> i]
<1>1. s \in Seq(Nat) /\ Len(s) = n
  OBVIOUS
<1>2. Append(s, n + 1) = [i \in 1..(n + 1) |-> IF i <= n THEN s[i] ELSE n + 1]
  BY <1>1
<1> QED
  BY <1>2

\* Every step leaves the log intact.
LEMMA IntactStep == TypeOK /\ ChainInv /\ LogIsIntact /\ [Next]_vars => LogIsIntact'
<1> SUFFICES ASSUME TypeOK, ChainInv, LogIsIntact, [Next]_vars PROVE LogIsIntact'
  OBVIOUS
<1> USE DEF bufferVars, chainVars, diskVars, closeVars, history
<1>0. /\ disk \in Seq(Events) /\ batch \in Seq(Events) /\ buffered \in Seq(Events)
      /\ disk \o batch \in Seq(Events) /\ published \in Nat
  BY ConcatProperties, EventsAssumption DEF TypeOK, BufferType
<1>1. CASE Publish
  <2> DEFINE e == published + 1
  <2>1. e \in Events /\ <<e>> \in Seq(Events)
    BY <1>1, <1>0, EventsAssumption DEF Publish, Events
  <2>2. (disk \o batch) \o Append(buffered, e) = Append((disk \o batch) \o buffered, e)
    <3>1. Append(buffered, e) = buffered \o <<e>>
      BY <1>0, <2>1, AppendIsConcat
    <3>2. (disk \o batch) \o (buffered \o <<e>>) = ((disk \o batch) \o buffered) \o <<e>>
      BY <1>0, <2>1, ConcatAssociative
    <3>3. (disk \o batch) \o buffered \in Seq(Events)
      BY <1>0, ConcatProperties
    <3> QED
      BY <2>1, <3>1, <3>2, <3>3, AppendIsConcat
  <2> QED
    BY <1>0, <1>1, <2>2, PublishedNext DEF Publish, LogIsIntact
<1>2. CASE StartDrain
  <2>1. batch = <<>>
    BY <1>2 DEF StartDrain, Starts, ChainInv
  <2>2. (disk \o buffered) \o <<>> = (disk \o <<>>) \o buffered
    BY <1>0, ConcatEmptySeq, ConcatProperties
  <2> QED
    BY <1>2, <2>1, <2>2 DEF StartDrain, LogIsIntact
<1>3. CASE BatchWritten
  <2>1. ((disk \o batch) \o <<>>) \o buffered = (disk \o batch) \o buffered
    BY <1>0, ConcatEmptySeq
  <2> QED
    BY <1>3, <2>1 DEF BatchWritten, LogIsIntact
<1>4. CASE BatchFails
  <2>1. (disk \o <<>>) \o (batch \o buffered) = (disk \o batch) \o buffered
    BY <1>0, ConcatEmptySeq, ConcatAssociative
  <2> QED
    BY <1>4, <2>1 DEF BatchFails, Retained, LogIsIntact
<1>5. CASE UNCHANGED <<disk, batch, buffered, published>>
  BY <1>5 DEF LogIsIntact
<1> QED
  BY <1>1, <1>2, <1>3, <1>4, <1>5
  DEF Next, vars, TimerFires, Flush, FlushContinues, Close, Chained, Drain, AcquireLease, Barrier,
      StartFlush, HeaderWritten, HeaderFails, Closes, CloseDrained, CloseDrainsAgain, CloseIsDone,
      CloseGivesUp, StartRelease, LeaseReleased, HandleReleased, DrainJobs, LoopTests, DrainSettles,
      Rest

----------------------------------------------------------------------------
(* Nothing is stranded, and close() looks at the right time.               *)

\* A drain has lifted the pause until it fails, its loop has something to write,
\* and nothing runs on the chain while close() is about to look at the buffer.
DrainInv ==
    /\ SomeoneDrains
    /\ draining \in {"writing", "testing", "ended"} => ~paused
    /\ draining = "writing" => batch # <<>> \/ buffered # <<>>
    /\ CloseIsNext => running = "none"

\* drainLive starts a drain where there is something to write and none is under
\* way, and leaves the timer to whoever it joins.
LEMMA DrainLiveServes ==
  ASSUME TypeOK, DrainInv, DrainLive, UNCHANGED <<buffered, batch, running>>,
         timer' = TimerAfterDrainLive \/ draining = "writing" \/ draining = "no",
         closing = "open" \/ closing' # "open"
  PROVE  /\ SomeoneDrains'
         /\ draining' \in {"writing", "testing", "ended"} => ~paused'
         /\ draining' = "writing" => batch' # <<>> \/ buffered' # <<>>
<1>1. CASE JoinsDrain
  <2>1. UNCHANGED <<paused, draining>>
    BY <1>1 DEF DrainLive
  <2>2. timer' = timer \/ draining = "writing"
    BY <1>1 DEF TimerAfterDrainLive, JoinsDrain, TypeOK, BufferType
  <2> QED
    BY <2>1, <2>2 DEF DrainInv, SomeoneDrains
<1>2. CASE ~JoinsDrain
  BY <1>2 DEF DrainLive, PauseLifted, SomeoneDrains
<1> QED
  BY <1>1, <1>2

\* Every step keeps it.
LEMMA DrainStep == TypeOK /\ ChainInv /\ DrainInv /\ [Next]_vars => DrainInv'
<1> SUFFICES ASSUME TypeOK, ChainInv, DrainInv, [Next]_vars PROVE DrainInv'
  OBVIOUS
<1> USE DEF bufferVars, chainVars, diskVars, closeVars, history
<1>0. /\ batch \in Seq(Events) /\ buffered \in Seq(Events) /\ published \in Nat
      /\ chain \in Seq(Flushers \cup {"drain"}) /\ ahead \in Nat
      /\ timer \in BOOLEAN /\ paused \in BOOLEAN
      /\ draining \in {"no", "writing", "testing", "ended", "failed"}
  BY EventsAssumption DEF TypeOK, BufferType, ChainType, CallType
<1>1. CASE Publish
  <2>1. buffered' # <<>>
    <3>1. published + 1 \in Nat /\ buffered \in Seq(Nat)
      BY <1>0, EventsAssumption DEF Events
    <3> QED
      BY <1>1, <3>1 DEF Publish
  <2>2. timer' \/ paused'
    BY <1>1 DEF Publish
  <2> QED
    BY <1>1, <2>1, <2>2 DEF Publish, DrainInv, SomeoneDrains, CloseIsNext
<1>2. CASE TimerFires \/ (\E f \in Flushers : Flush(f)) \/ Close \/ CloseDrainsAgain
  <2>1. DrainLive /\ UNCHANGED <<buffered, batch, running, ahead>>
    BY <1>2 DEF TimerFires, Flush, Close, CloseDrainsAgain
  <2>2. closing' = closing \/ closing' = "draining"
    BY <1>2 DEF TimerFires, Flush, Close, CloseDrainsAgain
  <2>3. timer' = TimerAfterDrainLive \/ draining = "writing" \/ draining = "no"
    BY <1>2 DEF TimerFires, NoJobs, Flush, Close, CloseDrainsAgain
  <2> QED
    BY <2>1, <2>2, <2>3, DrainLiveServes DEF DrainInv, CloseIsNext
<1>3. CASE StartDrain
  <2>1. draining = "writing" /\ batch = <<>> /\ chain # <<>> /\ ~CloseIsNext
    <3>1. Has(chain, "drain")
      BY <1>3, <1>0, EmptySeq, LenProperties DEF StartDrain, Starts, Has
    <3> QED
      BY <1>3, <3>1 DEF StartDrain, Starts, ChainInv
  <2>2. ~paused /\ buffered # <<>>
    BY <2>1 DEF DrainInv
  <2> QED
    BY <1>3, <2>1, <2>2 DEF StartDrain, DrainInv, SomeoneDrains, CloseIsNext
<1>4. CASE BatchWritten
  <2>1. draining = "writing"
    <3>1. Has(chain, "drain")
      BY <1>4, <1>0, EmptySeq, LenProperties DEF BatchWritten, Runs, Has
    <3> QED
      BY <3>1 DEF ChainInv
  <2> QED
    BY <1>4, <2>1 DEF BatchWritten, DrainInv, SomeoneDrains
<1>5. CASE BatchFails
  <2>1. draining = "writing"
    <3>1. Has(chain, "drain")
      BY <1>5, <1>0, EmptySeq, LenProperties DEF BatchFails, Breaks, Has
    <3> QED
      BY <3>1 DEF ChainInv
  <2>2. buffered' # <<>>
    <3>1. batch # <<>> \/ buffered # <<>>
      BY <2>1 DEF DrainInv
    <3>2. Len(batch \o buffered) = Len(batch) + Len(buffered)
      BY <1>0, ConcatProperties
    <3>3. Len(batch) \in Nat /\ Len(buffered) \in Nat /\ (Len(batch) > 0 \/ Len(buffered) > 0)
      BY <1>0, <3>1, LenProperties, EmptySeq
    <3>4. Len(batch \o buffered) # 0
      BY <3>2, <3>3
    <3> QED
      BY <1>5, <3>4, EmptySeq DEF BatchFails, Retained
  <2> QED
    BY <1>5, <2>2 DEF BatchFails, DrainInv, SomeoneDrains
<1>6. CASE \E f \in Flushers : Barrier(f)
  <2>1. /\ UNCHANGED <<buffered, timer, paused, draining, batch, closing>>
        /\ running' = "none" \/ (ahead' = ahead /\ ~CloseIsNext)
    BY <1>6 DEF Barrier, StartFlush, Starts, HeaderWritten, HeaderFails
  <2> QED
    BY <2>1 DEF DrainInv, SomeoneDrains, CloseIsNext
<1>7. CASE AcquireLease
  BY <1>7 DEF AcquireLease, DrainInv, SomeoneDrains, CloseIsNext
<1>8. CASE CloseDrained \/ CloseGivesUp \/ CloseIsDone
  <2>1. running # "none" => ahead' # 0
    <3>1. running # "none" => chain # <<>>
      BY DEF ChainInv
    <3> QED
      BY <1>8, <1>0, <3>1, LenProperties, EmptySeq DEF CloseDrained, CloseGivesUp, CloseIsDone
  <2>2. UNCHANGED <<buffered, timer, paused, draining, batch, running>> /\ closing' # "open"
    BY <1>8 DEF CloseDrained, CloseGivesUp, CloseIsDone
  <2>3. SomeoneDrains'
    BY <2>2 DEF DrainInv, SomeoneDrains
  <2>4. CloseIsNext' => running' = "none"
    BY <2>1, <2>2 DEF CloseIsNext
  <2> QED
    BY <2>2, <2>3, <2>4 DEF DrainInv
<1>9. CASE StartRelease \/ LeaseReleased \/ HandleReleased
  <2>1. /\ UNCHANGED <<buffered, timer, paused, draining, batch, running>>
        /\ closing' \in {"releasing", "released", "closed"}
    BY <1>9 DEF StartRelease, LeaseReleased, HandleReleased
  <2>2. SomeoneDrains'
    BY <2>1 DEF DrainInv, SomeoneDrains
  <2> QED
    BY <2>1, <2>2 DEF DrainInv, CloseIsNext
<1>10. CASE (\E f \in Flushers : FlushContinues(f)) \/ Rest \/ UNCHANGED vars
  BY <1>10 DEF FlushContinues, Rest, vars, DrainInv, SomeoneDrains, CloseIsNext
<1>11. CASE LoopTests
  <2>1. buffered # <<>> => draining' = "writing"
    BY <1>11 DEF LoopTests, DrainGoesOn
  <2> QED
    BY <1>11, <2>1 DEF LoopTests, DrainGoesOn, DrainInv, SomeoneDrains, CloseIsNext
<1>12. CASE DrainSettles
  <2>1. closing' = closing \/ (closing = "draining" /\ closing' \in {"drained", "broken"})
    BY <1>12 DEF DrainSettles
  <2> QED
    BY <1>12, <2>1 DEF DrainSettles, DrainInv, SomeoneDrains, CloseIsNext
<1> QED
  BY <1>1, <1>2, <1>3, <1>4, <1>5, <1>6, <1>7, <1>8, <1>9, <1>10, <1>11, <1>12
  DEF Next, Chained, Drain, DrainJobs, Closes

----------------------------------------------------------------------------
(* Flush and close keep the write-behind promise.                          *)

\* A call that was not late is covered by the disk when its drain's loop is over
\* and ever after, and so is close() when it has seen the empty buffer.
PromiseInv ==
    /\ \A b \in Flushers \cup {"close"} : covers[b] <= published
    /\ \A f \in Flushers \ late :
           caller[f] \in {"drained", "barrier"} \/ (caller[f] = "draining" /\ draining = "ended") =>
               covers[f] <= Len(disk)
    /\ closing \in {"last", "releasing", "released"} /\ ~closeFailed => covers["close"] <= Len(disk)

\* Every published event is on the disk, in the batch, or in the buffer.
LEMMA Counts ==
  ASSUME TypeOK, LogIsIntact
  PROVE  /\ Len(disk) \in Nat /\ Len(batch) \in Nat /\ Len(buffered) \in Nat
         /\ Len(disk) + Len(batch) + Len(buffered) = published
         /\ Len(disk \o batch) = Len(disk) + Len(batch)
<1>1. /\ disk \in Seq(Events) /\ batch \in Seq(Events) /\ buffered \in Seq(Events)
      /\ disk \o batch \in Seq(Events) /\ published \in Nat
  BY ConcatProperties, EventsAssumption DEF TypeOK, BufferType
<1>2. Len((disk \o batch) \o buffered) = Len(disk) + Len(batch) + Len(buffered)
  BY <1>1, ConcatProperties
<1>3. Len([n \in 1..published |-> n]) = published
  BY <1>1
<1> QED
  BY <1>1, <1>2, <1>3, ConcatProperties DEF LogIsIntact

\* Outside the loop's wait for the chain, an empty buffer leaves nothing to store.
LEMMA NothingLeft ==
  ASSUME TypeOK, ChainInv, LogIsIntact, draining # "writing" \/ running = "none", buffered = <<>>
  PROVE  Len(disk) = published
<1>1. batch = <<>>
  <2>1. batch # <<>> => running # "none" /\ Has(chain, "drain")
    BY LenProperties, EmptySeq DEF ChainInv, Has, TypeOK, ChainType
  <2> QED
    BY <2>1 DEF ChainInv
<1> QED
  BY <1>1, Counts, EmptySeq

\* Every step keeps the promise's invariant.
LEMMA PromiseStep ==
  TypeOK /\ TypeOK' /\ ChainInv /\ LogIsIntact /\ DrainInv /\ PromiseInv /\ [Next]_vars => PromiseInv'
<1> SUFFICES ASSUME TypeOK, TypeOK', ChainInv, LogIsIntact, DrainInv, PromiseInv, [Next]_vars
             PROVE  PromiseInv'
  OBVIOUS
<1> USE DEF bufferVars, chainVars, diskVars, closeVars, history
<1>0. /\ covers \in [Flushers \cup {"close"} -> 0..MaxEvents] /\ Len(disk) \in Nat /\ published \in Nat
      /\ MaxEvents \in Nat /\ "close" \notin Flushers
      /\ caller \in [Flushers ->
             {"idle", "draining", "drained", "barrier", "returned", "closed", "failed"}]
  BY Counts, EventsAssumption, FlushersAssumption DEF TypeOK, CallType, BufferType
<1>1. CASE Publish
  BY <1>0, <1>1 DEF Publish, PromiseInv
<1>2. CASE TimerFires
  <2>1. draining' = draining \/ (draining = "no" /\ (draining' = "ended" => buffered = <<>>))
    BY <1>2 DEF TimerFires, DrainLive, JoinsDrain
  <2> QED
    BY <1>0, <1>2, <2>1, NothingLeft DEF TimerFires, PromiseInv
<1>3. CASE Close
  <2>1. /\ covers' = [covers EXCEPT !["close"] = published] /\ \A f \in Flushers : covers'[f] = covers[f]
        /\ UNCHANGED <<published, disk, caller, late>> /\ closing' = "draining"
    BY <1>0, <1>3 DEF Close
  <2>2. draining' = draining \/ (draining = "no" /\ (draining' = "ended" => buffered = <<>>))
    BY <1>3 DEF Close, DrainLive, JoinsDrain
  <2>3. \A b \in Flushers \cup {"close"} : covers'[b] <= published'
    BY <1>0, <2>1 DEF PromiseInv
  <2> QED
    BY <1>0, <2>1, <2>2, <2>3, NothingLeft DEF PromiseInv
<1>4. CASE Chained
  <2>1. CASE StartDrain
    BY <2>1 DEF StartDrain, PromiseInv
  <2>2. CASE BatchWritten
    <3>1. Len(disk') = Len(disk) + Len(batch) /\ Len(batch) \in Nat
      BY <2>2, Counts DEF BatchWritten
    <3>2. \A b \in Flushers \cup {"close"} : covers[b] \in Nat
      BY <1>0
    <3>3. draining' # "ended" /\ UNCHANGED <<published, caller, closing, closeFailed, covers, late>>
      BY <2>2 DEF BatchWritten
    <3> QED
      BY <1>0, <3>1, <3>2, <3>3 DEF PromiseInv
  <2>3. CASE BatchFails
    BY <1>0, <2>3 DEF BatchFails, PromiseInv
  <2>4. CASE AcquireLease
    BY <2>4 DEF AcquireLease, PromiseInv
  <2>5. ASSUME NEW f \in Flushers, Barrier(f) PROVE PromiseInv'
    BY <1>0, <2>5 DEF Barrier, StartFlush, HeaderWritten, HeaderFails, PromiseInv
  <2> QED
    BY <1>4, <2>1, <2>2, <2>3, <2>4, <2>5 DEF Chained, Drain
<1>5. CASE Closes
  <2>1. CASE CloseDrainsAgain
    <3>1. draining' = draining \/ (draining = "no" /\ draining' = "writing")
      BY <2>1 DEF CloseDrainsAgain, DrainLive, JoinsDrain
    <3> QED
      BY <2>1, <3>1 DEF CloseDrainsAgain, PromiseInv
  <2>2. CASE CloseIsDone
    <3>1. Len(disk) = published
      BY <2>2, NothingLeft DEF CloseIsDone, CloseIsNext, DrainInv
    <3> QED
      BY <1>0, <2>2, <3>1 DEF CloseIsDone, PromiseInv
  <2>3. CASE CloseDrained \/ CloseGivesUp \/ StartRelease
    BY <2>3 DEF CloseDrained, CloseGivesUp, StartRelease, PromiseInv
  <2>4. CASE LeaseReleased \/ HandleReleased
    BY <2>4 DEF LeaseReleased, HandleReleased, PromiseInv
  <2> QED
    BY <1>5, <2>1, <2>2, <2>3, <2>4 DEF Closes
<1>6. ASSUME NEW f \in Flushers, Flush(f) \/ FlushContinues(f) PROVE PromiseInv'
  <2>1. CASE Flush(f)
    <3>1. draining' = draining \/ (draining = "no" /\ (draining' = "ended" => buffered = <<>>))
      BY <2>1 DEF Flush, DrainLive, JoinsDrain
    <3>2. /\ covers' = [covers EXCEPT ![f] = published] /\ covers'["close"] = covers["close"]
          /\ UNCHANGED <<published, disk, closing, closeFailed>>
      BY <1>0, <2>1 DEF Flush
    <3>3. \A b \in Flushers \cup {"close"} : covers'[b] <= published'
      BY <1>0, <3>2 DEF PromiseInv
    <3>4. \A g \in Flushers \ {f} : caller'[g] = caller[g] /\ covers'[g] = covers[g] /\ (g \in late => g \in late')
      BY <1>0, <2>1 DEF Flush
    <3>5. /\ caller'[f] = "draining" /\ covers'[f] = published
          /\ f \notin late' => draining # "ended"
      BY <1>0, <2>1 DEF Flush
    <3>6. draining # "ended" /\ draining' = "ended" => Len(disk) = published
      BY <3>1, NothingLeft
    <3>7. \A g \in Flushers \ late' :
             caller'[g] \in {"drained", "barrier"} \/ (caller'[g] = "draining" /\ draining' = "ended") =>
                 covers'[g] <= Len(disk')
      <4> SUFFICES ASSUME NEW g \in Flushers \ late',
                          \/ caller'[g] \in {"drained", "barrier"}
                          \/ caller'[g] = "draining" /\ draining' = "ended"
                   PROVE  covers'[g] <= Len(disk')
        OBVIOUS
      <4>1. CASE g = f
        BY <1>0, <3>2, <3>5, <3>6, <4>1
      <4>2. CASE g # f
        BY <1>0, <3>2, <3>3, <3>4, <3>6, <4>2 DEF PromiseInv
      <4> QED
        BY <4>1, <4>2
    <3> QED
      BY <3>2, <3>3, <3>7 DEF PromiseInv
  <2>2. CASE FlushContinues(f)
    BY <1>0, <2>2 DEF FlushContinues, PromiseInv
  <2> QED
    BY <1>6, <2>1, <2>2
<1>7. CASE Rest \/ UNCHANGED vars
  BY <1>7 DEF Rest, vars, PromiseInv
<1>8. CASE LoopTests
  <2>1. draining' = "ended" => Len(disk) = published
    BY <1>8, NothingLeft DEF LoopTests, DrainGoesOn
  <2> QED
    BY <1>0, <1>8, <2>1 DEF LoopTests, PromiseInv
<1>9. CASE DrainSettles
  <2>1. \A f \in Flushers : caller'[f] \in {"drained", "barrier"} =>
            caller[f] \in {"drained", "barrier"} \/ (caller[f] = "draining" /\ draining = "ended")
    BY <1>0, <1>9 DEF DrainSettles
  <2>2. /\ closing' \in {"last", "releasing", "released"} => closing' = closing
        /\ draining' = "no" /\ UNCHANGED <<published, disk, closeFailed, covers, late>>
    BY <1>9 DEF DrainSettles
  <2> QED
    BY <2>1, <2>2 DEF PromiseInv
<1> QED
  BY <1>1, <1>2, <1>3, <1>4, <1>5, <1>6, <1>7, <1>8, <1>9 DEF Next, DrainJobs

----------------------------------------------------------------------------
(* Every step of the handle is a step of WriteBehind, or none.             *)

\* What the promise sees of the calls, call by call.
LEMMA BarrierStates ==
  /\ \A f \in Flushers : BarrierState[f] = FlushState(caller[f])
  /\ BarrierState["close"] = CloseState(closing, closeFailed)
  /\ DOMAIN BarrierState = Flushers \cup {"close"}
  /\ \A f \in Flushers : BarrierState'[f] = FlushState(caller'[f])
  /\ BarrierState'["close"] = CloseState(closing', closeFailed')
  /\ BarrierState' = [b \in Flushers \cup {"close"} |-> BarrierState'[b]]
  BY FlushersAssumption DEF BarrierState

\* A step that only moves calls from one wait to the next shows nothing.
LEMMA SameBarriers ==
  ASSUME \A f \in Flushers : FlushState(caller'[f]) = FlushState(caller[f]),
         CloseState(closing', closeFailed') = CloseState(closing, closeFailed)
  PROVE  BarrierState' = BarrierState
  BY DEF BarrierState

\* A step of one flush call shows as the change of that call.
LEMMA OneFlush ==
  ASSUME NEW f \in Flushers, NEW s, FlushState(caller'[f]) = s,
         \A g \in Flushers \ {f} : caller'[g] = caller[g], UNCHANGED <<closing, closeFailed>>
  PROVE  BarrierState' = [BarrierState EXCEPT ![f] = s]
  BY FlushersAssumption DEF BarrierState

\* A step of close() shows as the change of that call.
LEMMA OneClose ==
  ASSUME NEW s, CloseState(closing', closeFailed') = s, UNCHANGED caller
  PROVE  BarrierState' = [BarrierState EXCEPT !["close"] = s]
  BY FlushersAssumption DEF BarrierState

\* A step that the promise allows.
PromisedStep == [WB!Next]_(WB!vars)

\* Flush calls.
LEMMA FlushStep ==
  ASSUME TypeOK, ChainInv, PromiseInv, NEW f \in Flushers, Flush(f) \/ FlushContinues(f) \/ Barrier(f)
  PROVE  PromisedStep
<1> USE DEF bufferVars, chainVars, diskVars, closeVars, history
<1>0. /\ f \in Flushers \cup {"close"} /\ {f} \in SUBSET (Flushers \cup {"close"})
      /\ caller \in [Flushers ->
             {"idle", "draining", "drained", "barrier", "returned", "closed", "failed"}]
      /\ BarrierState[f] = FlushState(caller[f])
  BY BarrierStates DEF TypeOK, CallType
<1>1. CASE Flush(f)
  <2>1. FlushState(caller'[f]) = "waiting" /\ \A g \in Flushers \ {f} : caller'[g] = caller[g]
    BY <1>0, <1>1 DEF Flush, FlushState
  <2>2. BarrierState' = [BarrierState EXCEPT ![f] = "waiting"]
    BY <1>1, <2>1, OneFlush DEF Flush
  <2>3. WB!Call(f)
    BY <1>0, <1>1, <2>2 DEF Flush, WB!Call, FlushState
  <2> QED
    BY <1>0, <2>3 DEF PromisedStep, WB!Next
<1>2. CASE /\ caller[f] \in {"drained", "barrier"} /\ caller'[f] \in {"returned", "closed"}
           /\ \A g \in Flushers \ {f} : caller'[g] = caller[g]
           /\ UNCHANGED <<published, disk, closing, closeFailed, covers, late>>
  <2>1. BarrierState' = [BarrierState EXCEPT ![f] = "returned"]
    BY <1>2, OneFlush DEF FlushState
  <2>2. WB!Return(f)
    BY <1>0, <1>2, <2>1 DEF WB!Return, FlushState, PromiseInv
  <2> QED
    BY <1>0, <2>2 DEF PromisedStep, WB!Next
<1>3. CASE /\ \A g \in Flushers : FlushState(caller'[g]) = FlushState(caller[g])
           /\ UNCHANGED <<published, disk, closing, closeFailed, covers, late>>
  BY <1>3, SameBarriers DEF PromisedStep, WB!vars
<1>4. CASE /\ caller[f] = "barrier" /\ HeaderFails(f)
  <2>1. BarrierState' = [b \in Flushers \cup {"close"} |-> IF b \in {f} THEN "failed" ELSE BarrierState[b]]
    BY <1>0, <1>4, FlushersAssumption DEF HeaderFails, BarrierState, FlushState
  <2>2. WB!Fail({f})
    BY <1>0, <1>4, <2>1 DEF HeaderFails, WB!Fail, FlushState
  <2> QED
    BY <1>0, <2>2 DEF PromisedStep, WB!Next
<1>5. CASE FlushContinues(f)
  BY <1>0, <1>2, <1>3, <1>5 DEF FlushContinues, FlushState
<1>6. CASE Barrier(f)
  <2>1. chain # <<>> /\ Head(chain) = f
    BY <1>6 DEF Barrier, StartFlush, HeaderWritten, HeaderFails, Starts, Runs, Breaks
  <2>2. caller[f] = "barrier"
    BY <2>1, TailOp DEF ChainInv, TypeOK, ChainType
  <2>3. CASE StartFlush(f)
    BY <1>0, <1>2, <1>3, <2>2, <2>3 DEF StartFlush
  <2>4. CASE HeaderWritten(f)
    BY <1>0, <1>2, <2>2, <2>4 DEF HeaderWritten
  <2> QED
    BY <1>4, <1>6, <2>2, <2>3, <2>4 DEF Barrier
<1> QED
  BY <1>1, <1>5, <1>6

\* The drain's turn on the chain.
LEMMA BatchStep ==
  ASSUME TypeOK, LogIsIntact, BatchWritten \/ BatchFails
  PROVE  PromisedStep
<1> USE DEF bufferVars, chainVars, diskVars, closeVars, history
<1>1. CASE BatchWritten
  <2>1. BarrierState' = BarrierState
    BY <1>1, SameBarriers DEF BatchWritten
  <2>2. Len(disk') = Len(disk) + Len(batch) /\ UNCHANGED <<published, covers, late>>
    BY <1>1, Counts DEF BatchWritten
  <2>3. CASE Len(batch) = 0
    BY <2>1, <2>2, <2>3, Counts DEF PromisedStep, WB!vars
  <2>4. CASE Len(batch) > 0
    <3>1. Len(disk') \in (Len(disk) + 1)..published
      BY <2>2, <2>4, Counts
    <3> QED
      BY <2>1, <2>2, <3>1 DEF PromisedStep, WB!Next, WB!Store
  <2> QED
    BY <2>3, <2>4, Counts
<1>2. CASE BatchFails
  BY <1>2, SameBarriers DEF BatchFails, PromisedStep, WB!vars
<1> QED
  BY <1>1, <1>2

\* The jobs of the drain: the end of a failed one fails all who joined it.
LEMMA DrainJobStep ==
  ASSUME TypeOK, DrainJobs
  PROVE  PromisedStep
<1> USE DEF bufferVars, chainVars, diskVars, closeVars, history
<1>0. caller \in [Flushers ->
          {"idle", "draining", "drained", "barrier", "returned", "closed", "failed"}]
  BY DEF TypeOK, CallType
<1>1. CASE LoopTests
  BY <1>1, SameBarriers DEF LoopTests, PromisedStep, WB!vars
<1>2. CASE DrainSettles
  <2> DEFINE B == {f \in Flushers : caller[f] = "draining"}
  <2>1. CloseState(closing', closeFailed') = CloseState(closing, closeFailed)
    BY <1>2 DEF DrainSettles, CloseState
  <2>2. UNCHANGED <<published, disk, covers, late>>
    BY <1>2 DEF DrainSettles
  <2>3. CASE B = {} \/ draining = "ended"
    <3>1. \A f \in Flushers : FlushState(caller'[f]) = FlushState(caller[f])
      BY <1>0, <1>2, <2>3 DEF DrainSettles, FlushState
    <3> QED
      BY <2>1, <2>2, <3>1, SameBarriers DEF PromisedStep, WB!vars
  <2>4. CASE B # {} /\ draining = "failed"
    <3>1. \A f \in B : BarrierState[f] = "waiting"
      BY BarrierStates DEF FlushState
    <3>2. \A f \in Flushers : FlushState(caller'[f]) = IF f \in B THEN "failed" ELSE FlushState(caller[f])
      BY <1>0, <1>2, <2>4 DEF DrainSettles, FlushState
    <3>3. BarrierState' = [b \in Flushers \cup {"close"} |-> IF b \in B THEN "failed" ELSE BarrierState[b]]
      BY <2>1, <3>2, FlushersAssumption DEF BarrierState
    <3>4. WB!Fail(B)
      BY <2>2, <2>4, <3>1, <3>3 DEF WB!Fail
    <3>5. B \in SUBSET (Flushers \cup {"close"})
      OBVIOUS
    <3> HIDE DEF B
    <3> QED
      BY <3>4, <3>5 DEF PromisedStep, WB!Next
  <2> QED
    BY <1>2, <2>3, <2>4 DEF DrainSettles
<1> QED
  BY <1>1, <1>2 DEF DrainJobs

\* The close call.
LEMMA CloseStep ==
  ASSUME TypeOK, PromiseInv, Close \/ Closes
  PROVE  PromisedStep
<1> USE DEF bufferVars, chainVars, diskVars, closeVars, history
<1>0. "close" \in Flushers \cup {"close"} /\ {"close"} \in SUBSET (Flushers \cup {"close"})
  OBVIOUS
<1>1. CASE Close
  <2>1. BarrierState["close"] = "idle" /\ CloseState(closing', closeFailed') = "waiting"
    BY <1>1, BarrierStates DEF Close, CloseState
  <2>2. BarrierState' = [BarrierState EXCEPT !["close"] = "waiting"]
    BY <1>1, <2>1, OneClose DEF Close
  <2>3. WB!Call("close")
    BY <1>1, <2>1, <2>2 DEF Close, WB!Call
  <2> QED
    BY <1>0, <2>3 DEF PromisedStep, WB!Next
<1>2. CASE HandleReleased /\ ~closeFailed
  <2>1. BarrierState["close"] = "waiting" /\ CloseState(closing', closeFailed') = "returned"
    BY <1>2, BarrierStates DEF HandleReleased, CloseState
  <2>2. BarrierState' = [BarrierState EXCEPT !["close"] = "returned"]
    BY <1>2, <2>1, OneClose DEF HandleReleased
  <2>3. WB!Return("close")
    BY <1>2, <2>1, <2>2 DEF HandleReleased, WB!Return, PromiseInv
  <2> QED
    BY <1>0, <2>3 DEF PromisedStep, WB!Next
<1>3. CASE HandleReleased /\ closeFailed
  <2>1. BarrierState["close"] = "waiting" /\ CloseState(closing', closeFailed') = "failed"
    BY <1>3, BarrierStates DEF HandleReleased, CloseState
  <2>2. BarrierState' =
            [b \in Flushers \cup {"close"} |-> IF b \in {"close"} THEN "failed" ELSE BarrierState[b]]
    BY <1>3, <2>1, FlushersAssumption DEF HandleReleased, BarrierState
  <2>3. WB!Fail({"close"})
    BY <1>3, <2>1, <2>2 DEF HandleReleased, WB!Fail
  <2> QED
    BY <1>0, <2>3 DEF PromisedStep, WB!Next
<1>4. CASE /\ CloseState(closing', closeFailed') = CloseState(closing, closeFailed)
           /\ UNCHANGED <<published, disk, caller, covers, late>>
  BY <1>4, SameBarriers DEF PromisedStep, WB!vars
<1>5. CASE CloseDrained \/ CloseGivesUp \/ CloseDrainsAgain \/ CloseIsDone \/ StartRelease \/ LeaseReleased
  <2>1. CloseState(closing', closeFailed') = CloseState(closing, closeFailed)
    BY <1>5 DEF CloseDrained, CloseGivesUp, CloseDrainsAgain, CloseIsDone, StartRelease, LeaseReleased,
              CloseState
  <2> QED
    BY <1>4, <1>5, <2>1 DEF CloseDrained, CloseGivesUp, CloseDrainsAgain, CloseIsDone, StartRelease,
                            LeaseReleased
<1> QED
  BY <1>1, <1>2, <1>3, <1>5 DEF Closes

\* Every step of the handle.
LEMMA EveryStep ==
  ASSUME TypeOK, ChainInv, LogIsIntact, PromiseInv, [Next]_vars
  PROVE  PromisedStep
<1> USE DEF bufferVars, chainVars, diskVars, closeVars, history
<1>1. CASE Publish
  <2>1. BarrierState' = BarrierState
    BY <1>1, SameBarriers DEF Publish
  <2> QED
    BY <1>1, <2>1 DEF Publish, PromisedStep, WB!Next, WB!Publish
<1>2. CASE UNCHANGED <<published, disk, caller, closing, closeFailed, covers, late>>
  BY <1>2, SameBarriers DEF PromisedStep, WB!vars
<1>3. CASE TimerFires \/ StartDrain \/ AcquireLease \/ Rest \/ UNCHANGED vars
  BY <1>2, <1>3 DEF TimerFires, StartDrain, AcquireLease, Rest, vars
<1>4. CASE BatchWritten \/ BatchFails
  BY <1>4, BatchStep
<1>5. CASE Close \/ Closes
  BY <1>5, CloseStep
<1>6. ASSUME NEW f \in Flushers, Flush(f) \/ FlushContinues(f) \/ Barrier(f) PROVE PromisedStep
  BY <1>6, FlushStep
<1> QED
  BY <1>1, <1>3, <1>4, <1>5, <1>6, DrainJobStep DEF Next, Chained, Drain

----------------------------------------------------------------------------
(* The invariant and the theorems.                                         *)

Inv == TypeOK /\ ChainInv /\ LogIsIntact /\ PromiseInv /\ DrainInv

\* A handle that was just created or opened satisfies the invariant.
LEMMA InitInv == Init => Inv
<1> SUFFICES ASSUME Init PROVE Inv
  OBVIOUS
<1>1. TypeOK
  <2>0. <<>> \in Seq(Events) /\ <<>> \in Seq(Flushers \cup {"drain"}) /\ 0 \in 0..MaxEvents
    BY EmptySeq, EventsAssumption
  <2>1. BufferType
    <3>1. /\ published = 0 /\ buffered = <<>> /\ batch = <<>> /\ disk = <<>>
          /\ timer = FALSE /\ paused = FALSE
      BY DEF Init
    <3>2. materialized \in BOOLEAN /\ lease \in {"none", "held", "released"}
      BY DEF Init
    <3> QED
      BY <2>0, <3>1, <3>2 DEF BufferType
  <2>2. ChainType
    BY <2>0 DEF Init, ChainType
  <2>3. CallType
    <3>1. /\ caller = [f \in Flushers |-> "idle"] /\ covers = [b \in Flushers \cup {"close"} |-> 0]
          /\ closing = "open" /\ ahead = 0 /\ closeFailed = FALSE /\ late = {}
      BY DEF Init
    <3> QED
      BY <2>0, <3>1 DEF CallType
  <2> QED
    BY <2>1, <2>2, <2>3 DEF TypeOK
<1>2. ChainInv
  BY DEF Init, ChainInv, NoRepeats, Has
<1>3. LogIsIntact
  BY DEF Init, LogIsIntact
<1>4. PromiseInv
  BY FlushersAssumption DEF Init, PromiseInv
<1>5. DrainInv
  BY DEF Init, DrainInv, SomeoneDrains, CloseIsNext
<1> QED
  BY <1>1, <1>2, <1>3, <1>4, <1>5 DEF Inv

\* Every reachable state satisfies it.
LEMMA InvHolds == Safety => []Inv
<1>1. Inv /\ [Next]_vars => Inv'
  BY BufferTypeStep, ChainTypeStep, CallTypeStep, ChainStep, IntactStep, PromiseStep, DrainStep
  DEF Inv, TypeOK
<1> QED
  BY InitInv, <1>1, PTL DEF Safety

\* The variables of the handle keep their types, for every set of flush calls
\* and every number of events.
THEOREM TypeCorrect == Safety => []TypeOK
<1>1. Inv => TypeOK
  BY DEF Inv
<1> QED
  BY InvHolds, <1>1, PTL

\* Disk, batch in flight and buffer are always the published events, once each
\* and in order: drainBuffered, its catch and close() neither lose, repeat nor
\* reorder an event.
THEOREM LogStaysIntact == Safety => []LogIsIntact
<1>1. Inv => LogIsIntact
  BY DEF Inv
<1> QED
  BY InvHolds, <1>1, PTL

\* While the handle is open a buffered event has a timer, a drain, or the pause
\* of a failed batch: enqueueLive, drainLive and drainBuffered strand nothing.
THEOREM BufferIsServed == Safety => []SomeoneDrains
<1>1. Inv => SomeoneDrains
  BY DEF Inv, DrainInv
<1> QED
  BY InvHolds, <1>1, PTL

\* When close() stops draining, every published event is stored: no batch is
\* in flight while it looks at the buffer.
THEOREM CloseLosesNothing == Safety => CloseSeesEverything
<1>1. Inv /\ [Next]_vars => [closing = "settling" /\ closing' = "last" => Len(disk) = published]_vars
  <2> SUFFICES ASSUME Inv, Next, closing = "settling", closing' = "last"
               PROVE  Len(disk) = published
    OBVIOUS
  <2>1. CloseIsDone
    BY DEF Next, closeVars, vars, Publish, TimerFires, Flush, FlushContinues, Close, Chained, Drain,
        StartDrain, BatchWritten, BatchFails, AcquireLease, Barrier, StartFlush, HeaderWritten,
        HeaderFails, DrainJobs, LoopTests, DrainSettles, Closes, CloseDrained, CloseGivesUp,
        CloseDrainsAgain, StartRelease, LeaseReleased, HandleReleased, Rest, history
  <2>2. buffered = <<>> /\ batch = <<>>
    BY <2>1 DEF CloseIsDone, CloseIsNext, Inv, DrainInv, ChainInv
  <2> QED
    BY <2>2, Counts, EmptySeq DEF Inv
<1> QED
  BY InvHolds, <1>1, PTL DEF Safety, CloseSeesEverything

\* The handle implements the safety part of WriteBehind: a close, and a flush
\* that did not join a drain whose loop was over, has stored what was published
\* before its call when it returns without an error.
THEOREM PromiseKept == Safety => KeepsPromise
<1>1. Init => WB!Init
  <2> SUFFICES ASSUME Init PROVE WB!Init
    OBVIOUS
  <2>1. BarrierState = [b \in Flushers \cup {"close"} |-> "idle"]
    BY DEF Init, BarrierState, FlushState, CloseState
  <2> QED
    BY <2>1 DEF Init, WB!Init
<1>2. Inv /\ [Next]_vars => [WB!Next]_(WB!vars)
  BY EveryStep DEF Inv, PromisedStep
<1> QED
  BY InvHolds, <1>1, <1>2, PTL DEF Safety, KeepsPromise, WB!Safety

=============================================================================
