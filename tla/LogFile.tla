------------------------------- MODULE LogFile -------------------------------
(***************************************************************************)
(* The file of a stored session and the processes that write it in turn:   *)
(* appendLines, rollbackAppend, repair and materialize of                  *)
(* packages/session/session-persistence-jsonl/src/index.ts, the decoding   *)
(* of a log with a torn tail, persistContiguous of storage.ts, and the     *)
(* lease they run under (WriteLease).                                      *)
(*                                                                         *)
(* The file is the sequence of the pieces that were appended to it.  A     *)
(* piece is the complete records of a batch that reached the disk, and     *)
(* whether it is whole: not cut inside a line (raw) or a frame (zstd).  A  *)
(* process may die between any two steps.  A power loss leaves a prefix    *)
(* of what was not yet synced, which is what dying in the middle of the    *)
(* write leaves.                                                           *)
(***************************************************************************)
EXTENDS WriteLease, Sequences, SequencesExt

CONSTANTS
    TurnEnds,           \* the positions of turn/end events
    MaxEvents,          \* bound: events of the log
    MaxBatch,           \* bound: events of a batch
    MaxOpens,           \* bound: handles ever opened
    MaxFaults           \* bound: storage errors

ASSUME BoundsAssumption ==
    MaxEvents \in Nat /\ MaxBatch \in Nat /\ MaxOpens \in Nat /\ MaxFaults \in Nat

VARIABLES
    zstd,               \* the root's encoding, fixed
    exists,             \* the log is published
    file,               \* its pieces after the header
    hand,               \* the write handle of each process
    gen,                \* the number of that handle, the author of its events
    view,               \* the events its cursor counts
    torn,               \* state.tornTruncateTo is set
    tail,               \* state.recoveredTail
    batch,              \* the batch it persists
    op,                 \* how far persistContiguous and appendLines are
    base,               \* pieces in the file before the append
    opens, faults,      \* counts for the bounds
    spoiled,            \* history: bytes were left that no cursor counts
    acked               \* history: the events of resolved appends

handleVars == <<hand, gen, view, torn, tail>>
opVars == <<batch, op, base>>
countVars == <<opens, faults, spoiled>>
vars == <<leaseVars, zstd, exists, file, handleVars, opVars, countVars, acked>>

Event == [seq : 1..MaxEvents, by : 1..MaxOpens]

Init ==
    /\ LeaseInit
    /\ zstd \in BOOLEAN
    /\ exists = FALSE /\ file = <<>>
    /\ hand = [p \in Procs |-> "none"]
    /\ gen = [p \in Procs |-> 0]
    /\ view = [p \in Procs |-> <<>>]
    /\ torn = [p \in Procs |-> FALSE]
    /\ tail = [p \in Procs |-> <<>>]
    /\ batch = [p \in Procs |-> <<>>]
    /\ op = [p \in Procs |-> "none"]
    /\ base = [p \in Procs |-> 0]
    /\ opens = 0 /\ faults = 0 /\ spoiled = FALSE /\ acked = <<>>

----------------------------------------------------------------------------
(* Decoding.                                                               *)

Garbage == [seq |-> 0, by |-> 0]

Rows(pieces) == FlattenSeq([i \in DOMAIN pieces |-> pieces[i].rows])

\* A line that continues a cut one is not JSON.
Lines(pieces) ==
    FlattenSeq([i \in DOMAIN pieces |->
        IF i > 1 /\ ~pieces[i - 1].whole /\ pieces[i].rows # <<>>
        THEN <<Garbage>> \o Tail(pieces[i].rows) ELSE pieces[i].rows])

InSequence(rows) == \A i \in DOMAIN rows : rows[i].seq = i

\* Rows up to the first that is garbage or out of sequence.
Contiguous(rows) ==
    SubSeq(rows, 1, Max({n \in 0..Len(rows) : InSequence(SubSeq(rows, 1, n))}))

CutLast(pieces) == pieces # <<>> /\ ~Last(pieces).whole

\* scanLog: what follows a bad row is dropped like a torn tail, unless a
\* turn/end is among it.
DecodeRaw(pieces) ==
    LET lines == Lines(pieces)
        good  == Contiguous(lines)
    IN  [ok     |-> \A i \in Len(good) + 1 .. Len(lines) : lines[i].seq \notin TurnEnds,
         events |-> good,
         torn   |-> good # lines \/ CutLast(pieces),
         tail   |-> <<>>]

\* readZstdPrefix: complete frames must hold complete records in sequence,
\* the complete records of a torn last frame are recovered.
DecodeZstd(pieces) ==
    LET frames == IF CutLast(pieces) THEN Front(pieces) ELSE pieces
        stored == Rows(frames)
        events == Contiguous(Rows(pieces))
    IN  [ok     |-> InSequence(stored) /\ \A i \in DOMAIN frames : frames[i].whole,
         events |-> events,
         torn   |-> CutLast(pieces),
         tail   |-> SubSeq(events, Len(stored) + 1, Len(events))]

Decode == IF zstd THEN DecodeZstd(file) ELSE DecodeRaw(file)

\* What is left when the file is cut at tornTruncateTo.
Truncated ==
    IF zstd
    THEN IF CutLast(file) THEN Front(file) ELSE file
    ELSE <<[rows |-> Decode.events, whole |-> TRUE]>>

----------------------------------------------------------------------------
(* Handles.                                                                *)

NewHandle(p, kind) ==
    /\ hand[p] = "none" /\ opens < MaxOpens
    /\ opens' = opens + 1
    /\ hand' = [hand EXCEPT ![p] = kind]
    /\ gen' = [gen EXCEPT ![p] = opens + 1]

\* A created handle takes the lease with its first write.
Create(p) ==
    /\ ~exists
    /\ NewHandle(p, "created")
    /\ UNCHANGED <<leaseVars, zstd, exists, file, view, torn, tail, opVars, faults, spoiled, acked>>

Open(p) ==
    /\ exists
    /\ NewHandle(p, "opening")
    /\ Acquire(p)
    /\ UNCHANGED <<zstd, exists, file, view, torn, tail, opVars, faults, spoiled, acked>>

Forget(p) ==
    /\ hand' = [hand EXCEPT ![p] = "none"]
    /\ gen' = [gen EXCEPT ![p] = 0]
    /\ view' = [view EXCEPT ![p] = <<>>]
    /\ torn' = [torn EXCEPT ![p] = FALSE]
    /\ tail' = [tail EXCEPT ![p] = <<>>]
    /\ batch' = [batch EXCEPT ![p] = <<>>]
    /\ op' = [op EXCEPT ![p] = "none"]
    /\ base' = [base EXCEPT ![p] = 0]

\* requireStoredLog under the lease; a corrupt log gives the lease back.
Load(p) ==
    /\ hand[p] = "opening" /\ Held(p)
    /\ \/ /\ Decode.ok
          /\ hand' = [hand EXCEPT ![p] = "open"]
          /\ view' = [view EXCEPT ![p] = Decode.events]
          /\ torn' = [torn EXCEPT ![p] = Decode.torn]
          /\ tail' = [tail EXCEPT ![p] = Decode.tail]
          /\ UNCHANGED <<leaseVars, gen, opVars>>
       \/ /\ ~Decode.ok
          /\ Forget(p) /\ Release(p)
    /\ UNCHANGED <<zstd, exists, file, countVars, acked>>

Refused(p) ==
    /\ Answered(p)
    /\ \/ /\ hand[p] = "opening"
          /\ Forget(p)
       \/ /\ hand[p] = "created"
          /\ op' = [op EXCEPT ![p] = "none"]
          /\ UNCHANGED <<handleVars, batch, base>>
    /\ UNCHANGED <<zstd, exists, file, countVars, acked>>

\* close() runs when the mutation chain is empty.
Close(p) ==
    /\ hand[p] \in {"created", "open"} /\ op[p] = "none"
    /\ Forget(p)
    /\ IF Held(p) THEN Release(p) ELSE UNCHANGED leaseVars
    /\ UNCHANGED <<zstd, exists, file, countVars, acked>>

\* The holder that removes the lock file: its handle is gone already.
Leave(p) ==
    /\ hand[p] = "open" /\ op[p] = "none"
    /\ Unlink(p)
    /\ Forget(p)
    /\ UNCHANGED <<zstd, exists, file, countVars, acked>>

Left(p) ==
    /\ at[p] = "unlinked"
    /\ Release(p)
    /\ UNCHANGED <<zstd, exists, file, handleVars, opVars, countVars, acked>>

Die(p) ==
    /\ hand[p] # "none" \/ at[p] # "idle"
    /\ Forget(p)
    /\ LosesAll(p)
    /\ UNCHANGED <<zstd, exists, file, countVars, acked>>

----------------------------------------------------------------------------
(* persistContiguous.                                                      *)

\* The batches that continue the cursor; a failed one is written again.
Batches(p) ==
    {[i \in 1..n |-> [seq |-> Len(view[p]) + i, by |-> gen[p]]] :
        n \in 0..MaxBatch}

\* mutant: the recovered events are not written again
NoRewrite(isTorn, recovered) == IF isTorn THEN "repair" ELSE "append"

Stage(isTorn, recovered) ==
    IF isTorn THEN "repair" ELSE IF recovered # <<>> THEN "rewrite" ELSE "append"

\* Only a created handle has something to write for an empty batch: flush()
\* publishes the header.
Persist(p) ==
    /\ hand[p] \in {"created", "open"} /\ op[p] = "none"
    /\ \E b \in Batches(p) :
        /\ Len(view[p]) + Len(b) <= MaxEvents
        /\ hand[p] = "open" => b # <<>>
        /\ batch' = [batch EXCEPT ![p] = b]
    /\ \/ /\ hand[p] = "open"
          /\ op' = [op EXCEPT ![p] = Stage(torn[p], tail[p])]
          /\ UNCHANGED leaseVars
       \/ /\ hand[p] = "created"
          /\ op' = [op EXCEPT ![p] = "publish"]
          /\ IF Held(p) THEN UNCHANGED leaseVars ELSE Acquire(p)
    /\ UNCHANGED <<zstd, exists, file, handleVars, base, countVars, acked>>

Fault == faults < MaxFaults /\ faults' = faults + 1

\* materialize writes a synced temporary file and links it to the path.
Publish(p) ==
    /\ op[p] = "publish" /\ Held(p)
    /\ ~exists
    /\ exists' = TRUE
    /\ file' = IF batch[p] = <<>> THEN <<>> ELSE <<[rows |-> batch[p], whole |-> TRUE]>>
    /\ op' = [op EXCEPT ![p] = "none"]
    /\ \/ /\ hand' = [hand EXCEPT ![p] = "open"]
          /\ view' = [view EXCEPT ![p] = batch[p]]
          /\ acked' = batch[p]
          /\ UNCHANGED faults
       \/ /\ Fault                      \* syncDir rejects after the link
          /\ UNCHANGED <<hand, view, acked>>
    /\ UNCHANGED <<leaseVars, zstd, gen, torn, tail, batch, base, opens, spoiled>>

\* A log is there already, or the temporary file cannot be written.
PublishFails(p) ==
    /\ op[p] = "publish" /\ Held(p)
    /\ (exists /\ UNCHANGED faults) \/ Fault
    /\ op' = [op EXCEPT ![p] = "none"]
    /\ UNCHANGED <<leaseVars, zstd, exists, file, handleVars, batch, base, opens, spoiled, acked>>

Repair(p) ==
    /\ op[p] = "repair"
    /\ \/ /\ file' = Truncated
          /\ torn' = [torn EXCEPT ![p] = FALSE]
          /\ op' = [op EXCEPT ![p] = Stage(FALSE, tail[p])]
          /\ UNCHANGED faults
       \/ /\ Fault                      \* truncate or sync rejects
          /\ file' \in {file, Truncated}
          /\ op' = [op EXCEPT ![p] = "none"]
          /\ UNCHANGED torn
    /\ UNCHANGED <<leaseVars, zstd, exists, hand, gen, view, tail, batch, base, opens, spoiled, acked>>

Written(p) == IF op[p] \in {"rewrite", "rewriting", "rewritten"} THEN tail[p] ELSE batch[p]

\* writeFile and sync: until they end any part of the piece may be on disk.
\* The prefix of a frame is never a frame.
WriteStarts(p) ==
    /\ op[p] \in {"rewrite", "append"}
    /\ base' = [base EXCEPT ![p] = Len(file)]
    /\ op' = [op EXCEPT ![p] = IF @ = "rewrite" THEN "rewriting" ELSE "appending"]
    /\ \E n \in 0..Len(Written(p)), whole \in BOOLEAN :
        /\ whole => n > 0 /\ (zstd => n = Len(Written(p)))
        /\ file' \in {file, Append(file, [rows |-> SubSeq(Written(p), 1, n), whole |-> whole])}
    /\ UNCHANGED <<leaseVars, zstd, exists, handleVars, batch, countVars, acked>>

BeforeAppend(p) == SubSeq(file, 1, base[p])

WriteSynced(p) ==
    /\ op[p] \in {"rewriting", "appending"}
    /\ file' = Append(BeforeAppend(p), [rows |-> Written(p), whole |-> TRUE])
    /\ op' = [op EXCEPT ![p] = IF @ = "rewriting" THEN "rewritten" ELSE "appended"]
    /\ UNCHANGED <<leaseVars, zstd, exists, handleVars, batch, base, countVars, acked>>

NoRollback(p) == file                   \* mutant: the partial append stays

RolledBack(p) == BeforeAppend(p)

\* The failed append is rolled back; when that fails too the bytes stay.
WriteFails(p) ==
    /\ op[p] \in {"rewriting", "appending"}
    /\ Fault
    /\ op' = [op EXCEPT ![p] = "none"]
    /\ \/ file' = RolledBack(p) /\ UNCHANGED spoiled
       \/ UNCHANGED file /\ spoiled' = (spoiled \/ Len(file) # base[p])
    /\ UNCHANGED <<leaseVars, zstd, exists, handleVars, batch, base, opens, acked>>

\* The file is closed: the rewritten tail is clear, or the append resolves.
Closes(p) ==
    \/ /\ op[p] = "rewritten"
       /\ tail' = [tail EXCEPT ![p] = <<>>]
       /\ op' = [op EXCEPT ![p] = "append"]
       /\ UNCHANGED <<view, acked>>
    \/ /\ op[p] = "appended"
       /\ view' = [view EXCEPT ![p] = @ \o batch[p]]
       /\ acked' = view'[p]
       /\ op' = [op EXCEPT ![p] = "none"]
       /\ UNCHANGED tail

WriteResolves(p) ==
    /\ Closes(p)
    /\ UNCHANGED <<leaseVars, zstd, exists, file, hand, gen, torn, batch, base, countVars>>

\* The close rejects after the sync: the append rejects without a rollback.
CloseFails(p) ==
    /\ op[p] \in {"rewritten", "appended"}
    /\ Fault
    /\ op' = [op EXCEPT ![p] = "none"]
    /\ spoiled' = TRUE
    /\ UNCHANGED <<leaseVars, zstd, exists, file, handleVars, batch, base, opens, acked>>

----------------------------------------------------------------------------

Leases(p) ==
    /\ LeaseSteps(p)
    /\ UNCHANGED <<zstd, exists, file, handleVars, opVars, countVars, acked>>

LeaseFault(p) ==
    /\ AcquireFails(p) /\ Fault
    /\ UNCHANGED <<zstd, exists, file, handleVars, opVars, opens, spoiled, acked>>

Handles(p) ==
    Create(p) \/ Open(p) \/ Load(p) \/ Refused(p) \/ Close(p) \/ Leave(p) \/ Left(p) \/ Die(p)

Persists(p) ==
    \/ Persist(p) \/ Publish(p) \/ PublishFails(p) \/ Repair(p)
    \/ WriteStarts(p) \/ WriteSynced(p) \/ WriteFails(p) \/ WriteResolves(p) \/ CloseFails(p)

Next == \E p \in Procs : Leases(p) \/ LeaseFault(p) \/ Handles(p) \/ Persists(p)

Spec == Init /\ [][Next]_vars

----------------------------------------------------------------------------

\* At every instant, and so after a crash at any of them, the log decodes to
\* the events of all resolved appends and perhaps some of the append that was
\* under way, unless a rollback or a close has failed.
AckedSurvives ==
    ~spoiled => Decode.ok /\ IsPrefix(acked, Decode.events)

\* What an open handle counts as stored is on disk between its writes, except
\* for records recovered from a torn frame, which it still keeps in memory
\* when a repair has failed half-way.
ViewIsStored ==
    \A p \in Procs :
        hand[p] = "open" /\ op[p] = "none" /\ ~spoiled =>
            view[p] \in {Decode.events, Decode.events \o tail[p]}

=============================================================================
