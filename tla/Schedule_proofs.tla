-------------------------- MODULE Schedule_proofs --------------------------
(***************************************************************************)
(* Theorems about the reminders of an agent, for every number of them,     *)
(* every interval and every clock: a dispatch in the log has its message   *)
(* before it, what a tool reported is stored, and no reminder is queued    *)
(* that was queued, delivered or reported as gone before.                  *)
(***************************************************************************)
EXTENDS Schedule, FiniteSetTheorems, TLAPS

Ops == {"drive"} \cup Tools

Runtime ==
    [run : {"none", "queued", "looping", "ending"},
     requested : BOOLEAN, timer : BOOLEAN, idleWait : BOOLEAN,
     faulted : BOOLEAN, stopping : BOOLEAN, gaveUp : BOOLEAN, queue : Seq(Ops)]

FoldOK(f) ==
    /\ DOMAIN f = {"active", "seen", "queued", "accepted"}
    /\ f.seen \in Nat /\ DOMAIN f.active \subseteq 1..f.seen
    /\ f.accepted \subseteq f.queued

\* g comes later than f: ids are not used again, and none comes back.
Later(f, g) ==
    /\ f.seen <= g.seen
    /\ \A id \in DOMAIN g.active : id <= f.seen => id \in DOMAIN f.active

Reports == {"known", "over"} \X Nat

Holds(report, f) ==
    /\ report[2] <= f.seen
    /\ report[1] = "over" => report[2] \notin DOMAIN f.active

\* What the tool at the barrier is about to report.
Pending == <<IF Head(rt.queue) = "create" THEN "known" ELSE "over", subject>>

IsLog(l) == (\E S : l \in Seq(S)) /\ Len(l) >= 1

LogInv == IsLog(log) /\ \A i \in DOMAIN log : FoldOK(log[i])

TypeInv == rt \in Runtime /\ owed \in Nat /\ subject \in Nat /\ told \subseteq Reports

\* Nobody but the transaction at the head appends: while it flushes, what it
\* waits for is everything that is not stored.
FlushInv ==
    /\ pc # "ready" => rt.queue # <<>>
    /\ pc \in {"preflight", "barrier"} => owed = Len(log) - 1
    /\ Claimed => Driving

BarrierInv == pc = "barrier" /\ ~Driving => Holds(Pending, Live)

ToldInv == \A report \in told, i \in DOMAIN log : Holds(report, log[i])

Inv == LogInv /\ TypeInv /\ FlushInv /\ BarrierInv /\ ToldInv

----------------------------------------------------------------------------
(* Folds.                                                                  *)

LEMMA CreatedOK ==
  ASSUME NEW f, FoldOK(f), NEW kind, NEW at
  PROVE  LET g == Created(f, kind, at) IN
         FoldOK(g) /\ Later(f, g) /\ g.seen = f.seen + 1
<1> DEFINE g == Created(f, kind, at)
<1>1. /\ DOMAIN g = {"active", "seen", "queued", "accepted"}
      /\ g.seen = f.seen + 1 /\ g.accepted = f.accepted /\ g.queued = f.queued
      /\ DOMAIN g.active = DOMAIN f.active \cup {f.seen + 1}
  BY DEF Created, FoldOK
<1> HIDE DEF g
<1>2. FoldOK(g) /\ Later(f, g)
  BY <1>1 DEF FoldOK, Later
<1> QED
  BY <1>1, <1>2 DEF g

LEMMA DeletedOK ==
  ASSUME NEW f, FoldOK(f), NEW id \in DOMAIN f.active
  PROVE  LET g == Deleted(f, id) IN
         FoldOK(g) /\ Later(f, g) /\ g.seen = f.seen /\ id \notin DOMAIN g.active
<1> DEFINE g == Deleted(f, id)
<1>1. /\ DOMAIN g = {"active", "seen", "queued", "accepted"}
      /\ g.seen = f.seen /\ g.accepted = f.accepted /\ g.queued = f.queued
      /\ DOMAIN g.active = DOMAIN f.active \ {id}
  BY DEF Deleted, Without, FoldOK
<1> HIDE DEF g
<1>2. FoldOK(g) /\ Later(f, g)
  BY <1>1 DEF FoldOK, Later
<1> QED
  BY <1>1, <1>2 DEF g

\* A message for ids, then dispatches of some of them.
LEMMA DispatchedOK ==
  ASSUME NEW f, FoldOK(f), NEW ids, NEW some \in SUBSET ids, NEW t
  PROVE  LET g == Dispatched(Queued(f, ids, t), some, t) IN FoldOK(g) /\ Later(f, g)
<1> DEFINE q == Queued(f, ids, t)
           g == Dispatched(q, some, t)
<1>1. /\ DOMAIN q = {"active", "seen", "queued", "accepted"}
      /\ q.active = f.active /\ q.seen = f.seen /\ q.accepted = f.accepted
      /\ q.queued = f.queued \cup Occurrences(f, ids, t)
  BY DEF Queued, FoldOK
<1>2. Occurrences(q, some, t) \subseteq Occurrences(f, ids, t)
  BY <1>1 DEF Occurrences
<1> HIDE DEF q
<1>3. /\ DOMAIN g = {"active", "seen", "queued", "accepted"}
      /\ g.seen = q.seen /\ g.queued = q.queued
      /\ g.accepted = q.accepted \cup Occurrences(q, some, t)
      /\ DOMAIN g.active \subseteq DOMAIN q.active
  BY <1>1 DEF Dispatched
<1> HIDE DEF g
<1>4. g.accepted \subseteq g.queued
  BY <1>1, <1>2, <1>3 DEF FoldOK
<1>5. FoldOK(g) /\ Later(f, g)
  BY <1>1, <1>3, <1>4 DEF FoldOK, Later
<1> QED
  BY <1>5 DEF g, q

LEMMA LaterHolds ==
  ASSUME NEW report \in Reports, NEW f, NEW g, FoldOK(f), FoldOK(g), Later(f, g), Holds(report, f)
  PROVE  Holds(report, g)
BY DEF Reports, FoldOK, Later, Holds

LEMMA DueIsFinite ==
  ASSUME NEW f, FoldOK(f), NEW t
  PROVE  Cardinality(Due(f, t)) \in Nat
<1>1. IsFiniteSet(1..f.seen)
  BY FS_Interval DEF FoldOK
<1>2. Due(f, t) \subseteq 1..f.seen
  BY DEF Due, DueOf, First, FoldOK
<1> QED
  BY <1>1, <1>2, FS_Subset, FS_CardinalityType

----------------------------------------------------------------------------
(* The log.                                                                *)

LEMMA LiveOK ==
  ASSUME LogInv
  PROVE  /\ Len(log) \in Nat /\ Len(log) >= 1 /\ DOMAIN log = 1..Len(log)
         /\ Live = log[Len(log)] /\ Stored = log[1] /\ FoldOK(Live) /\ FoldOK(Stored)
<1>1. PICK S : log \in Seq(S)
  BY DEF LogInv, IsLog
<1>2. Len(log) \in Nat /\ Len(log) >= 1 /\ DOMAIN log = 1..Len(log)
  BY <1>1 DEF LogInv, IsLog
<1>3. Live = log[Len(log)] /\ Stored = log[1]
  BY <1>1, <1>2 DEF Live, Last, Stored
<1> QED
  BY <1>2, <1>3 DEF LogInv

\* The log grows by folds that come later than its last.
LEMMA LogGrows ==
  ASSUME LogInv, ToldInv, told \subseteq Reports,
         NEW n \in Nat, NEW d, d = [k \in 1..n |-> d[k]],
         \A k \in 1..n : FoldOK(d[k]) /\ Later(Live, d[k]),
         log' = log \o d, told' = told
  PROVE  LogInv' /\ ToldInv'
<1>1. PICK S : log \in Seq(S)
  BY DEF LogInv, IsLog
<1> DEFINE T == S \cup {d[k] : k \in 1..n}
<1>2. log \in Seq(T) /\ d \in Seq(T) /\ Len(d) = n
  <2>1. d \in [1..n -> T]
    OBVIOUS
  <2>2. d \in Seq(T) /\ Len(d) = n
    BY <2>1
  <2> QED
    BY <1>1, <2>2
<1> HIDE DEF T
<1>3. /\ log' \in Seq(T) /\ Len(log') = Len(log) + n /\ DOMAIN log' = 1..Len(log) + n
      /\ \A i \in 1..Len(log) : log'[i] = log[i]
      /\ \A i \in Len(log) + 1..Len(log) + n : log'[i] = d[i - Len(log)]
  BY <1>2
<1>4. IsLog(log)'
  BY <1>3, LiveOK DEF IsLog
<1>5. ASSUME NEW i \in DOMAIN log'
      PROVE  FoldOK(log'[i]) /\ \A report \in told : Holds(report, log'[i])
  <2>1. CASE i <= Len(log)
    <3>1. i \in DOMAIN log /\ log'[i] = log[i]
      BY <2>1, <1>3, LiveOK
    <3> QED
      BY <3>1 DEF LogInv, ToldInv
  <2>2. CASE ~(i <= Len(log))
    <3>1. i - Len(log) \in 1..n /\ log'[i] = d[i - Len(log)]
      BY <2>2, <1>3, LiveOK
    <3>2. FoldOK(log'[i]) /\ Later(Live, log'[i])
      BY <3>1
    <3>3. \A report \in told : report \in Reports /\ Holds(report, Live)
      BY LiveOK DEF ToldInv
    <3> QED
      BY <3>2, <3>3, LiveOK, LaterHolds
  <2> QED
    BY <2>1, <2>2
<1> QED
  BY <1>4, <1>5 DEF LogInv, ToldInv

\* One event is appended.
LEMMA LogGrowsByOne ==
  ASSUME LogInv, ToldInv, told \subseteq Reports,
         NEW g, FoldOK(g), Later(Live, g), log' = Append(log, g), told' = told
  PROVE  LogInv' /\ ToldInv' /\ Live' = g /\ Len(log') = Len(log) + 1
<1>1. PICK S : log \in Seq(S)
  BY DEF LogInv, IsLog
<1>2. log \in Seq(S \cup {g}) /\ g \in S \cup {g}
  BY <1>1
<1>3. /\ log' \in Seq(S \cup {g}) /\ Len(log') = Len(log) + 1 /\ DOMAIN log' = 1..Len(log) + 1
      /\ \A i \in 1..Len(log) : log'[i] = log[i]
      /\ log'[Len(log) + 1] = g
  BY <1>2, LiveOK
<1>4. IsLog(log)'
  BY <1>3, LiveOK DEF IsLog
<1>5. \A report \in told : Holds(report, g)
  BY LiveOK, LaterHolds DEF ToldInv
<1>6. \A i \in DOMAIN log' : FoldOK(log'[i]) /\ \A report \in told : Holds(report, log'[i])
  <2>1. \A i \in DOMAIN log' : i = Len(log) + 1 \/ i \in DOMAIN log
    BY <1>3, LiveOK
  <2> QED
    BY <2>1, <1>3, <1>5, LiveOK DEF LogInv, ToldInv
<1>7. LogInv' /\ ToldInv'
  BY <1>4, <1>6 DEF LogInv, ToldInv
<1>8. Live' = g
  BY <1>3 DEF Live, Last
<1> QED
  BY <1>3, <1>7, <1>8

----------------------------------------------------------------------------
(* The runtime and its queue.                                              *)

\* At most one transaction has joined the queue of r.
SameHead(r, s) ==
    /\ s \in Runtime
    /\ r.queue # <<>> => s.queue # <<>> /\ Head(s.queue) = Head(r.queue)

LEMMA QueueGrows ==
  ASSUME NEW q \in Seq(Ops), NEW op \in Ops
  PROVE  /\ Append(q, op) \in Seq(Ops)
         /\ q # <<>> => Append(q, op) # <<>> /\ Head(Append(q, op)) = Head(q)
OBVIOUS

LEMMA RequestKeepsHead ==
  ASSUME NEW r \in Runtime
  PROVE  SameHead(r, RequestDrive(r))
<1>1. /\ Append(r.queue, "drive") \in Seq(Ops)
      /\ r.queue # <<>> => Append(r.queue, "drive") # <<>>
                           /\ Head(Append(r.queue, "drive")) = Head(r.queue)
  <2>1. r.queue \in Seq(Ops) /\ "drive" \in Ops
    BY DEF Runtime, Ops
  <2> QED
    BY <2>1, QueueGrows
<1>2. CASE r.stopping \/ r.faulted
  BY <1>2 DEF RequestDrive, SameHead
<1>3. CASE ~(r.stopping \/ r.faulted) /\ r.run # "none"
  BY <1>3 DEF RequestDrive, SameHead, Runtime
<1>4. CASE ~(r.stopping \/ r.faulted) /\ r.run = "none"
  <2> DEFINE r1 == [r EXCEPT !.timer = FALSE]
             r2 == [r1 EXCEPT !.requested = FALSE]
             r3 == [r2 EXCEPT !.run = "queued"]
             r4 == [r3 EXCEPT !.queue = Append(r.queue, "drive")]
  <2>1. r1 \in Runtime /\ r1.queue = r.queue
    BY DEF Runtime
  <2> HIDE DEF r1
  <2>2. r2 \in Runtime /\ r2.queue = r.queue
    BY <2>1 DEF Runtime
  <2> HIDE DEF r2
  <2>3. r3 \in Runtime /\ r3.queue = r.queue
    BY <2>2 DEF Runtime
  <2> HIDE DEF r3
  <2>4. r4 \in Runtime /\ r4.queue = Append(r.queue, "drive")
    BY <2>3, <1>1 DEF Runtime
  <2>5. RequestDrive(r) = r4
    BY <1>4 DEF RequestDrive, r1, r2, r3, r4
  <2> HIDE DEF r4
  <2> QED
    BY <2>4, <2>5, <1>1 DEF SameHead
<1> QED
  BY <1>2, <1>3, <1>4

LEMMA DoneIsRuntime ==
  ASSUME NEW r \in Runtime, r.queue # <<>>
  PROVE  Done(r) \in Runtime
<1> DEFINE r1 == [r EXCEPT !.queue = Tail(r.queue)]
           run == IF Head(r.queue) = "drive" THEN "looping" ELSE r.run
<1>1. Tail(r.queue) \in Seq(Ops)
  BY DEF Runtime
<1>2. r1 \in Runtime
  BY <1>1 DEF Runtime
<1>3. run \in {"none", "queued", "looping", "ending"}
  BY DEF Runtime
<1>4. Done(r) = [r1 EXCEPT !.run = run]
  BY DEF Done, Runtime
<1> HIDE DEF r1, run
<1> QED
  BY <1>2, <1>3, <1>4 DEF Runtime

LEMMA GivesUpIsRuntime ==
  ASSUME NEW r \in Runtime, r.queue # <<>>
  PROVE  GivesUp(r) \in Runtime
<1>1. Done(r) \in Runtime
  BY DoneIsRuntime
<1>2. (Done(r).gaveUp \/ Head(r.queue) = "drive") \in BOOLEAN
  OBVIOUS
<1> QED
  BY <1>1, <1>2 DEF GivesUp, Runtime

----------------------------------------------------------------------------
(* Where a step leaves the transaction at the head.                        *)

\* It is over.
LEMMA WhenOver ==
  ASSUME Inv, pc' = "ready", UNCHANGED <<log, told>>,
         rt' \in Runtime, owed' = 0, subject' = 0
  PROVE  Inv'
<1>1. ~Claimed'
  BY DEF Claimed
<1>2. LogInv' /\ ToldInv'
  BY DEF Inv, LogInv, ToldInv, IsLog
<1> QED
  BY <1>1, <1>2 DEF Inv, TypeInv, FlushInv, BarrierInv

LEMMA WhenReturned ==
  ASSUME Inv, NEW r \in Runtime, r.queue # <<>>, Returns(r), UNCHANGED <<log, told>>
  PROVE  Inv'
BY WhenOver, DoneIsRuntime DEF Returns

\* It stays where it is.
LEMMA WhenElsewhere ==
  ASSUME Inv, UNCHANGED <<log, told, pc, owed, subject>>, SameHead(rt, rt')
  PROVE  Inv'
<1>1. LogInv' /\ ToldInv' /\ TypeInv'
  BY DEF Inv, LogInv, ToldInv, TypeInv, IsLog, SameHead
<1>2. FlushInv'
  BY DEF Inv, FlushInv, SameHead, Claimed, Driving
<1>3. BarrierInv'
  BY DEF Inv, BarrierInv, FlushInv, SameHead, Driving, Pending, Live, Holds
<1> QED
  BY <1>1, <1>2, <1>3 DEF Inv

\* A drive moves on, and nothing is appended.
LEMMA WhenDriving ==
  ASSUME Inv, UNCHANGED <<log, told, subject>>, owed' \in Nat,
         SameHead(rt, rt'), rt.queue # <<>>, Driving,
         pc' \in {"preflight", "barrier"} => owed' = Len(log) - 1
  PROVE  Inv'
<1>1. LogInv' /\ ToldInv' /\ TypeInv'
  BY DEF Inv, LogInv, ToldInv, TypeInv, IsLog, SameHead
<1>2. FlushInv'
  BY DEF Inv, FlushInv, SameHead, Driving
<1>3. BarrierInv'
  BY DEF BarrierInv, SameHead, Driving
<1> QED
  BY <1>1, <1>2, <1>3 DEF Inv

----------------------------------------------------------------------------
(* The transaction.                                                        *)

LEMMA BeginStep ==
  ASSUME Inv, Begin
  PROVE  Inv'
<1>1. rt.queue # <<>> /\ rt \in Runtime /\ UNCHANGED <<log, told>>
  BY DEF Begin, At, Inv, TypeInv
<1>2. CASE Returns(rt)
  BY <1>1, <1>2, WhenReturned
<1>3. CASE ~Returns(rt)
  <2>1. /\ pc' = "preflight" /\ owed' = Len(log) - 1 /\ UNCHANGED subject
        /\ rt' = IF Driving THEN [rt EXCEPT !.timer = FALSE, !.gaveUp = FALSE] ELSE rt
    BY <1>3 DEF Begin, Flush
  <2>2. rt' \in Runtime /\ rt'.queue = rt.queue
    BY <1>1, <2>1 DEF Runtime
  <2>3. LogInv' /\ ToldInv' /\ TypeInv'
    BY <1>1, <2>1, <2>2, LiveOK DEF Inv, LogInv, ToldInv, TypeInv, IsLog
  <2>4. FlushInv' /\ BarrierInv'
    BY <1>1, <2>1, <2>2 DEF FlushInv, BarrierInv, Claimed
  <2> QED
    BY <2>3, <2>4 DEF Inv
<1> QED
  BY <1>2, <1>3

LEMMA EndSteps ==
  ASSUME Inv, CallEnds \/ FlushFails \/ Waits \/ FindsBusy \/ DriveConfirms
  PROVE  Inv'
<1>1. rt.queue # <<>> /\ rt \in Runtime /\ UNCHANGED <<log, told>>
  BY DEF CallEnds, FlushFails, Waits, FindsBusy, DriveConfirms, Preflighted, At, Inv, TypeInv
<1>2. RequestDrive(rt) \in Runtime /\ RequestDrive(rt).queue # <<>>
  BY <1>1, RequestKeepsHead DEF SameHead
<1>3. CASE CallEnds
  BY <1>1, <1>2, <1>3, WhenReturned DEF CallEnds
<1>4. CASE FlushFails
  BY <1>1, <1>4, GivesUpIsRuntime, WhenOver DEF FlushFails
<1>5. CASE Waits
  <2> DEFINE timer == ~rt.stopping /\ HasTarget(Live, now)
             r == [rt EXCEPT !.timer = timer]
  <2>1. timer \in BOOLEAN
    OBVIOUS
  <2> HIDE DEF timer
  <2>2. r \in Runtime /\ r.queue # <<>>
    BY <1>1, <2>1 DEF Runtime
  <2>3. Returns(r)
    BY <1>5 DEF Waits, timer
  <2> QED
    BY <1>1, <2>2, <2>3, WhenReturned
<1>6. CASE FindsBusy
  <2> DEFINE r == [rt EXCEPT !.idleWait = TRUE]
  <2>1. r \in Runtime /\ r.queue # <<>>
    BY <1>1 DEF Runtime
  <2>2. Returns(r)
    BY <1>6 DEF FindsBusy
  <2> QED
    BY <1>1, <2>1, <2>2, WhenReturned
<1>7. CASE DriveConfirms
  BY <1>1, <1>2, <1>7, WhenReturned DEF DriveConfirms
<1> QED
  BY <1>3, <1>4, <1>5, <1>6, <1>7

LEMMA QuietClaims ==
  ASSUME Inv, ClaimFindsNothing \/ FollowupFails
  PROVE  Inv'
<1>1. /\ rt.queue # <<>> /\ rt \in Runtime /\ Driving /\ pc' = "quiet"
      /\ UNCHANGED <<log, told, subject, owed>>
  BY DEF ClaimFindsNothing, FollowupFails, Claims, Preflighted, At, Inv, TypeInv
<1>2. rt' \in Runtime /\ rt'.queue = rt.queue
  <2>1. CASE ClaimFindsNothing
    <3>1. HasTarget(Live, now - 1) \in BOOLEAN
      BY DEF HasTarget
    <3> QED
      BY <1>1, <2>1, <3>1 DEF ClaimFindsNothing, Runtime
  <2>2. CASE FollowupFails
    BY <1>1, <2>2 DEF FollowupFails, Runtime
  <2> QED
    BY <2>1, <2>2
<1> QED
  BY <1>1, <1>2, WhenDriving DEF SameHead, Inv, TypeInv

LEMMA ReleasesStep ==
  ASSUME Inv, Releases
  PROVE  Inv'
<1>1. rt.queue # <<>> /\ rt \in Runtime /\ UNCHANGED <<log, told>>
  BY DEF Releases, At, Inv, TypeInv
<1>2. CASE Returns(rt)
  BY <1>1, <1>2, WhenReturned
<1>3. CASE At("sent") /\ pc' = "barrier" /\ Flush(log) /\ UNCHANGED <<rt, subject>>
  <2>1. Driving
    BY <1>3 DEF Inv, FlushInv, Claimed, At
  <2>2. owed' \in Nat /\ owed' = Len(log) - 1
    BY <1>3, LiveOK DEF Flush, Inv
  <2> QED
    BY <1>1, <1>3, <2>1, <2>2, WhenDriving DEF SameHead
<1> QED
  BY <1>2, <1>3 DEF Releases

LEMMA DeliversStep ==
  ASSUME Inv, Delivers
  PROVE  Inv'
<1> DEFINE ids == Due(Live, now)
<1>1. /\ rt.queue # <<>> /\ rt \in Runtime /\ Driving /\ LogInv /\ ToldInv /\ told \subseteq Reports
      /\ pc' \in {"sent", "broken"} /\ UNCHANGED <<told, subject, owed>>
  BY DEF Delivers, Claims, Preflighted, At, Inv, TypeInv
<1>2. PICK n \in Nat : log' = log \o Delivery(Live, ids, now, n)
  <2>1. Cardinality(ids) \in Nat
    BY <1>1, LiveOK, DueIsFinite
  <2> HIDE DEF ids
  <2>2. \/ log' = log \o Delivery(Live, ids, now, Cardinality(ids))
        \/ \E n \in 0..Cardinality(ids) - 1 : log' = log \o Delivery(Live, ids, now, n)
    BY DEF Delivers, ids
  <2> QED
    BY <2>1, <2>2
<1>3. rt' \in Runtime /\ rt'.queue = rt.queue
  <2>1. rt' = rt \/ rt' = [rt EXCEPT !.faulted = TRUE, !.timer = FALSE]
    BY DEF Delivers
  <2> QED
    BY <1>1, <2>1 DEF Runtime
<1> DEFINE d == Delivery(Live, ids, now, n)
<1>4. d = [k \in 1..n + 1 |-> d[k]]
  BY DEF Delivery
<1>5. ASSUME NEW k \in 1..n + 1
      PROVE  FoldOK(d[k]) /\ Later(Live, d[k])
  <2>1. d[k] = Dispatched(Queued(Live, ids, now), First(Live, ids, k - 1), now)
    BY DEF Delivery
  <2>2. First(Live, ids, k - 1) \in SUBSET ids
    BY DEF First
  <2> HIDE DEF d, ids
  <2> QED
    BY <1>1, <2>1, <2>2, LiveOK, DispatchedOK
<1> HIDE DEF d
<1>6. LogInv' /\ ToldInv'
  <2>1. n + 1 \in Nat /\ log' = log \o d /\ told' = told
    BY <1>1, <1>2 DEF d
  <2> QED
    BY <1>1, <1>4, <1>5, <2>1, LogGrows
<1>7. TypeInv'
  BY <1>1, <1>3 DEF Inv, TypeInv
<1>8. FlushInv' /\ BarrierInv'
  BY <1>1, <1>3 DEF FlushInv, BarrierInv, Driving
<1> QED
  BY <1>6, <1>7, <1>8 DEF Inv

\* A tool appends g, which bears out what it is about to report.
LEMMA MutatesStep ==
  ASSUME Inv, NEW g, FoldOK(g), Later(Live, g), NEW id \in Nat, Mutates(g, id),
         rt.queue # <<>>, Head(rt.queue) # "drive",
         Holds(<<IF Head(rt.queue) = "create" THEN "known" ELSE "over", id>>, g)
  PROVE  Inv'
<1>1. /\ log' = Append(log, g) /\ owed' = Len(log) /\ subject' = id /\ told' = told
      /\ rt' = RequestDrive(rt) /\ pc' = "barrier"
      /\ LogInv /\ ToldInv /\ told \subseteq Reports /\ rt \in Runtime
  BY DEF Mutates, Inv, TypeInv
<1>2. LogInv' /\ ToldInv' /\ Live' = g /\ Len(log') = Len(log) + 1
  BY <1>1, LogGrowsByOne
<1>3. SameHead(rt, rt') /\ Len(log) \in Nat
  BY <1>1, RequestKeepsHead, LiveOK
<1>4. TypeInv' /\ FlushInv'
  BY <1>1, <1>2, <1>3 DEF TypeInv, FlushInv, SameHead, Claimed
<1>5. BarrierInv'
  BY <1>1, <1>2, <1>3 DEF BarrierInv, SameHead, Pending
<1> QED
  BY <1>2, <1>4, <1>5 DEF Inv

LEMMA CreateStep ==
  ASSUME Inv, Create
  PROVE  Inv'
<1>1. rt.queue # <<>> /\ Head(rt.queue) = "create" /\ FoldOK(Live)
  BY LiveOK DEF Create, Folds, At, Inv
<1>2. PICK kind, at : Mutates(Created(Live, kind, at), Live.seen + 1)
  BY DEF Create
<1> DEFINE g == Created(Live, kind, at)
           id == Live.seen + 1
<1>3. FoldOK(g) /\ Later(Live, g) /\ g.seen = id
  BY <1>1, CreatedOK
<1> HIDE DEF g
<1>4. id \in Nat /\ Holds(<<"known", id>>, g)
  BY <1>1, <1>3 DEF Holds, FoldOK
<1> QED
  BY <1>1, <1>2, <1>3, <1>4, MutatesStep DEF g

LEMMA DeleteStep ==
  ASSUME Inv, Delete
  PROVE  Inv'
<1>1. rt.queue # <<>> /\ Head(rt.queue) = "delete" /\ FoldOK(Live)
  BY LiveOK DEF Delete, Folds, At, Inv
<1>2. PICK id \in DOMAIN Live.active : Mutates(Deleted(Live, id), id)
  BY DEF Delete
<1> DEFINE g == Deleted(Live, id)
<1>3. FoldOK(g) /\ Later(Live, g) /\ g.seen = Live.seen /\ id \notin DOMAIN g.active
  BY <1>1, DeletedOK
<1> HIDE DEF g
<1>4. id \in Nat /\ Holds(<<"over", id>>, g)
  BY <1>1, <1>3 DEF Holds, FoldOK
<1> QED
  BY <1>1, <1>2, <1>3, <1>4, MutatesStep DEF g

\* Nothing is unsaved when a tool reports: what it read is what is stored.
LEMMA ReportSteps ==
  ASSUME Inv, List \/ ToolConfirms
  PROVE  Inv'
<1>1. /\ rt.queue # <<>> /\ rt \in Runtime /\ log' = log /\ Returns(RequestDrive(rt))
      /\ pc \in {"preflight", "barrier"} /\ owed = 0
  BY DEF List, ToolConfirms, Folds, At, Inv, TypeInv
<1>2. DOMAIN log = {1} /\ log[1] = Live /\ FoldOK(Live)
  BY <1>1, LiveOK DEF Inv, FlushInv
<1>3. told' \subseteq Reports /\ \A report \in told' : Holds(report, Live)
  <2>1. told \subseteq Reports /\ \A report \in told : Holds(report, Live)
    BY <1>2 DEF Inv, TypeInv, ToldInv
  <2>2. CASE List
    <3>1. ASSUME NEW i \in 1..Live.seen
          PROVE  LET report == <<IF i \in DOMAIN Live.active THEN "known" ELSE "over", i>> IN
                 report \in Reports /\ Holds(report, Live)
      BY <1>2 DEF Holds, Reports, FoldOK
    <3> QED
      BY <2>1, <2>2, <3>1 DEF List
  <2>3. CASE ToolConfirms
    <3>1. Pending \in Reports /\ Holds(Pending, Live)
      BY <2>3 DEF ToolConfirms, At, Inv, TypeInv, BarrierInv, Pending, Reports
    <3> QED
      BY <2>1, <2>3, <3>1 DEF ToolConfirms, Pending
  <2> QED
    BY <2>2, <2>3
<1>4. LogInv' /\ ToldInv'
  BY <1>1, <1>2, <1>3 DEF Inv, LogInv, IsLog, ToldInv
<1>5. rt' \in Runtime /\ pc' = "ready" /\ owed' = 0 /\ subject' = 0
  BY <1>1, RequestKeepsHead, DoneIsRuntime DEF Returns, SameHead
<1>6. TypeInv' /\ FlushInv' /\ BarrierInv'
  BY <1>3, <1>5 DEF TypeInv, FlushInv, BarrierInv, Claimed
<1> QED
  BY <1>4, <1>6 DEF Inv

----------------------------------------------------------------------------
(* Around the transaction.                                                 *)

LEMMA RuntimeSteps ==
  ASSUME Inv, Loops \/ Retires \/ TimerFires \/ IdleResolves \/ IdleFails \/ Stops
  PROVE  Inv'
<1>1. rt \in Runtime /\ UNCHANGED <<log, told, pc, owed, subject>>
  BY DEF Loops, Retires, TimerFires, IdleResolves, IdleFails, Stops, SameButRt, Inv, TypeInv
<1>2. SameHead(rt, rt')
  <2>1. CASE Loops
    <3>1. CASE rt' = [rt EXCEPT !.run = "ending"]
      BY <1>1, <3>1 DEF SameHead, Runtime
    <3>2. CASE rt' = [rt EXCEPT !.run = "queued", !.requested = FALSE, !.queue = Append(@, "drive")]
      <4> DEFINE q == Append(rt.queue, "drive")
      <4>1. q \in Seq(Ops) /\ (rt.queue # <<>> => q # <<>> /\ Head(q) = Head(rt.queue))
        BY <1>1, QueueGrows DEF Runtime, Ops
      <4> HIDE DEF q
      <4>2. rt' = [rt EXCEPT !.run = "queued", !.requested = FALSE, !.queue = q]
        BY <3>2 DEF q
      <4> QED
        BY <1>1, <4>1, <4>2 DEF SameHead, Runtime
    <3> QED
      BY <2>1, <3>1, <3>2 DEF Loops
  <2>2. CASE Retires
    <3> DEFINE r == [rt EXCEPT !.run = "none"]
    <3>1. r \in Runtime /\ r.queue = rt.queue
      BY <1>1 DEF Runtime
    <3>2. rt' = r \/ rt' = RequestDrive(r)
      BY <2>2 DEF Retires
    <3> HIDE DEF r
    <3> QED
      BY <3>1, <3>2, RequestKeepsHead DEF SameHead
  <2>3. CASE TimerFires
    <3> DEFINE r == [rt EXCEPT !.timer = FALSE]
    <3>1. r \in Runtime /\ r.queue = rt.queue
      BY <1>1 DEF Runtime
    <3>2. rt' = RequestDrive(r)
      BY <2>3 DEF TimerFires
    <3> HIDE DEF r
    <3> QED
      BY <3>1, <3>2, RequestKeepsHead DEF SameHead
  <2>4. CASE IdleResolves
    <3> DEFINE r == [rt EXCEPT !.idleWait = FALSE]
    <3>1. r \in Runtime /\ r.queue = rt.queue
      BY <1>1 DEF Runtime
    <3>2. rt' = RequestDrive(r)
      BY <2>4 DEF IdleResolves
    <3> HIDE DEF r
    <3> QED
      BY <3>1, <3>2, RequestKeepsHead DEF SameHead
  <2>5. CASE IdleFails
    BY <1>1, <2>5 DEF IdleFails, SameHead, Runtime
  <2>6. CASE Stops
    BY <1>1, <2>6 DEF Stops, SameHead, Runtime
  <2> QED
    BY <2>1, <2>2, <2>3, <2>4, <2>5, <2>6
<1> QED
  BY <1>1, <1>2, WhenElsewhere

LEMMA AgentSteps ==
  ASSUME Inv,
         \/ AgentStarts \/ TurnEnds \/ MaintenanceEnds \/ (\E tool \in Tools : Calls(tool))
         \/ Ticks \/ ClockIsSetBack
  PROVE  Inv'
<1>1. rt \in Runtime /\ UNCHANGED <<log, told, pc, owed, subject>>
  BY DEF AgentStarts, TurnEnds, MaintenanceEnds, Calls, Ticks, ClockIsSetBack, Inv, TypeInv
<1>2. SameHead(rt, rt')
  <2>1. CASE rt' = rt \/ rt' = RequestDrive(rt)
    BY <1>1, <2>1, RequestKeepsHead DEF SameHead
  <2>2. CASE \E tool \in Tools : Calls(tool)
    <3>1. PICK tool \in Tools : Calls(tool)
      BY <2>2
    <3> DEFINE q == Append(rt.queue, tool)
    <3>2. q \in Seq(Ops) /\ (rt.queue # <<>> => q # <<>> /\ Head(q) = Head(rt.queue))
      BY <1>1, QueueGrows DEF Runtime, Ops
    <3> HIDE DEF q
    <3>3. rt' = [rt EXCEPT !.queue = q]
      BY <3>1 DEF Calls, q
    <3> QED
      BY <1>1, <3>2, <3>3 DEF SameHead, Runtime
  <2> QED
    BY <2>1, <2>2 DEF AgentStarts, TurnEnds, MaintenanceEnds, Ticks, ClockIsSetBack
<1> QED
  BY <1>1, <1>2, WhenElsewhere

LEMMA StoresStep ==
  ASSUME Inv, Stores
  PROVE  Inv'
<1>1. /\ log' = Tail(log) /\ Len(log) > 1 /\ UNCHANGED <<rt, pc, subject, told>>
      /\ owed' = IF owed > 0 THEN owed - 1 ELSE 0
  BY DEF Stores
<1>2. PICK S : log \in Seq(S)
  BY DEF Inv, LogInv, IsLog
<1>3. /\ log' \in Seq(S) /\ Len(log') = Len(log) - 1 /\ DOMAIN log' = 1..Len(log) - 1
      /\ \A i \in DOMAIN log' : i + 1 \in DOMAIN log /\ log'[i] = log[i + 1]
  BY <1>1, <1>2
<1>4. Len(log) \in Nat /\ DOMAIN log = 1..Len(log) /\ Live = log[Len(log)]
  BY LiveOK DEF Inv
<1>5. LogInv' /\ ToldInv'
  BY <1>1, <1>3, <1>4 DEF Inv, LogInv, ToldInv, IsLog
<1>6. Live' = Live
  BY <1>1, <1>3, <1>4 DEF Live, Last
<1>7. TypeInv'
  BY <1>1, <1>4 DEF Inv, TypeInv
<1>8. FlushInv'
  <2>1. Len(log') = Len(log) - 1 /\ Len(log) \in Nat /\ Len(log) > 1
    BY <1>1, <1>3, <1>4
  <2>2. pc' \in {"preflight", "barrier"} => owed' = Len(log') - 1
    BY <1>1, <2>1 DEF Inv, FlushInv
  <2>3. (pc' # "ready" => rt'.queue # <<>>) /\ (Claimed' => Driving')
    BY <1>1 DEF Inv, FlushInv, Claimed, Driving
  <2> QED
    BY <2>2, <2>3 DEF FlushInv
<1>9. BarrierInv'
  BY <1>1, <1>6 DEF Inv, BarrierInv, Driving, Pending
<1> QED
  BY <1>5, <1>7, <1>8, <1>9 DEF Inv

LEMMA StartedIsRuntime == Started \in Runtime
BY DEF Started, Runtime, Ops

LEMMA OneFold ==
  ASSUME NEW f
  PROVE  IsLog(<<f>>) /\ DOMAIN <<f>> = {1} /\ <<f>>[1] = f
<1>1. <<f>> \in Seq({f}) /\ Len(<<f>>) = 1
  OBVIOUS
<1>2. DOMAIN <<f>> = {1} /\ <<f>>[1] = f
  OBVIOUS
<1>3. Len(<<f>>) >= 1 /\ \E S : <<f>> \in Seq(S)
  <2>1. Len(<<f>>) >= 1
    BY <1>1
  <2>2. \E S : <<f>> \in Seq(S)
    <3> WITNESS {f}
    <3> QED
      BY <1>1
  <2> QED
    BY <2>1, <2>2
<1>4. IsLog(<<f>>)
  BY <1>3, Zenon DEF IsLog
<1> QED
  BY <1>2, <1>4

LEMMA ReopensStep ==
  ASSUME Inv, Reopens
  PROVE  Inv'
<1>1. /\ log' = <<Stored>> /\ rt' = Started /\ pc' = "ready" /\ owed' = 0 /\ subject' = 0
      /\ told' = told
  BY DEF Reopens
<1>2. 1 \in DOMAIN log /\ Stored = log[1] /\ FoldOK(Stored)
  BY LiveOK DEF Inv
<1>3. LogInv' /\ ToldInv'
  BY <1>1, <1>2, OneFold DEF Inv, LogInv, ToldInv
<1>4. TypeInv' /\ FlushInv' /\ BarrierInv'
  BY <1>1, StartedIsRuntime DEF Inv, TypeInv, FlushInv, BarrierInv, Claimed
<1> QED
  BY <1>3, <1>4 DEF Inv

----------------------------------------------------------------------------
LEMMA InitInv == Init => Inv
<1> SUFFICES ASSUME Init PROVE Inv
  OBVIOUS
<1>1. log = <<Empty>> /\ rt = Started /\ pc = "ready" /\ owed = 0 /\ subject = 0 /\ told = {}
  BY DEF Init
<1>2. FoldOK(Empty)
  BY DEF FoldOK, Empty
<1>3. LogInv /\ ToldInv
  BY <1>1, <1>2, OneFold DEF LogInv, ToldInv
<1> QED
  BY <1>1, <1>3, StartedIsRuntime DEF Inv, TypeInv, FlushInv, BarrierInv, Claimed

LEMMA NextInv == Inv /\ [Next]_vars => Inv'
<1> SUFFICES ASSUME Inv, [Next]_vars PROVE Inv'
  OBVIOUS
<1>1. CASE UNCHANGED vars
  <2>1. UNCHANGED <<log, told, pc, owed, subject, rt>> /\ SameHead(rt, rt')
    BY <1>1 DEF vars, Inv, TypeInv, SameHead
  <2> QED
    BY <2>1, WhenElsewhere
<1>2. CASE Transacts \/ FlushFails \/ FollowupFails
  BY <1>2, BeginStep, EndSteps, QuietClaims, DeliversStep, ReleasesStep, CreateStep, DeleteStep,
     ReportSteps DEF Transacts
<1>3. CASE ~(Transacts \/ FlushFails \/ FollowupFails) /\ Next
  BY <1>3, RuntimeSteps, AgentSteps, StoresStep, ReopensStep DEF Next
<1> QED
  BY <1>1, <1>2, <1>3

\* The inductive invariant holds.
LEMMA InvAlways == Spec => []Inv
BY InitInv, NextInv, PTL DEF Spec

\* Wherever a crash cuts the log, an occurrence that the fold counts as
\* delivered is in a message of the same log (index.ts: followup, then the
\* dispatches).
THEOREM DispatchFollowsMessage == Spec => []AcceptedIsQueued
<1>1. Inv => AcceptedIsQueued
  BY DEF Inv, LogInv, FoldOK, AcceptedIsQueued
<1> QED
  BY <1>1, InvAlways, PTL

\* What a tool has reported is stored (tools.ts: the preflight flush and the
\* barrier of every transaction).
THEOREM ReportsAreStored == Spec => []ReportedIsStored
<1>1. Inv => ReportedIsStored
  <2> SUFFICES ASSUME Inv, NEW report \in told PROVE Holds(report, Stored)
    BY DEF ReportedIsStored, Holds
  <2> QED
    BY LiveOK DEF Inv, ToldInv
<1> QED
  BY <1>1, InvAlways, PTL

----------------------------------------------------------------------------
(* What is queued is new.                                                  *)

\* The occurrence o is of a reminder that was created, and of no target that
\* the reminder still has.
Passed(o, f) == o[1] <= f.seen /\ (o[1] \in DOMAIN f.active => o[2] < f.active[o[1]].at)

TimesOK(f) ==
    /\ \A i \in DOMAIN f.active : f.active[i].at \in Nat
    /\ f.accepted \subseteq Nat \X Nat
    /\ \A o \in f.accepted : Passed(o, f)

\* What this process queued, and what its log counts as delivered, is over;
\* an append that failed halfway leaves messages that no dispatch follows.
FreshInv ==
    /\ now \in Nat /\ sent \in Seq(Nat \X Nat)
    /\ \A k \in DOMAIN log : TimesOK(log[k]) /\ log[k].accepted \subseteq ToSet(sent)
    /\ ~rt.faulted => \A o \in ToSet(sent) : Passed(o, Live)

DriveAt(r) == {i \in DOMAIN r.queue : r.queue[i] = "drive"}

OneDrive(r) ==
    /\ \A i, j \in DriveAt(r) : i = j
    /\ DriveAt(r) # {} => r.run = "queued"

\* There is at most one drive, and none once the runtime has faulted but the
\* one that met the fault.
QueueInv ==
    /\ OneDrive(rt)
    /\ rt.faulted => \A i \in DriveAt(rt) : i = 1 /\ pc = "broken"

----------------------------------------------------------------------------
(* Finite sets as sequences.                                               *)

LEMMA SetAsSeq ==
  ASSUME NEW S, IsFiniteSet(S)
  PROVE  LET s == SetToSeq(S) IN
         /\ s \in Seq(S) /\ Len(s) = Cardinality(S) /\ ToSet(s) = S
         /\ \A i, j \in 1..Len(s) : s[i] = s[j] => i = j
<1> DEFINE n == Cardinality(S)
           s == SetToSeq(S)
<1>1. n \in Nat /\ ExistsBijection(1..n, S)
  BY FS_CardinalityType
<1>2. PICK g : g \in Bijection(1..n, S)
  BY <1>1 DEF ExistsBijection
<1>3. g \in [1..n -> S] /\ IsInjective(g)
  BY <1>2 DEF Bijection, Injection
<1>4. s \in [1..n -> S] /\ IsInjective(s)
  BY <1>3 DEF SetToSeq
<1> HIDE DEF n, s
<1>5. IsFiniteSet(1..n) /\ Cardinality(1..n) = n
  BY <1>1, FS_Interval
<1>6. s \in Surjection(1..n, S)
  <2>1. s \in Injection(1..n, S)
    BY <1>4 DEF Injection
  <2> QED
    BY <2>1, <1>5, FS_Injection DEF n
<1>7. s \in Seq(S) /\ Len(s) = n
  BY <1>1, <1>4, <1>5
<1>8. ToSet(s) = S
  BY <1>4, <1>6 DEF ToSet, Surjection
<1>9. \A i, j \in 1..n : s[i] = s[j] => i = j
  BY <1>4 DEF IsInjective
<1> QED
  BY <1>7, <1>8, <1>9 DEF n, s

LEMMA SeqRange ==
  ASSUME NEW S, NEW s \in Seq(S)
  PROVE  /\ IsFiniteSet(ToSet(s)) /\ ToSet(s) \subseteq S
         /\ \A T \in SUBSET ToSet(s) : IsFiniteSet(T) /\ Cardinality(T) <= Len(s)
<1>1. s \in Surjection(1..Len(s), ToSet(s))
  BY DEF ToSet, Surjection
<1>2. IsFiniteSet(1..Len(s)) /\ Cardinality(1..Len(s)) = Len(s)
  <2>1. Len(s) \in Nat
    OBVIOUS
  <2> QED
    BY <2>1, FS_Interval
<1>3. IsFiniteSet(ToSet(s)) /\ Cardinality(ToSet(s)) <= Len(s)
  BY <1>1, <1>2, FS_Surjection
<1>4. ToSet(s) \subseteq S
  BY DEF ToSet
<1>5. \A T \in SUBSET ToSet(s) : IsFiniteSet(T) /\ Cardinality(T) <= Len(s)
  BY <1>3, FS_Subset, FS_CardinalityType
<1> QED
  BY <1>3, <1>4, <1>5

LEMMA JoinedRange ==
  ASSUME NEW S, NEW s \in Seq(S), NEW t \in Seq(S)
  PROVE  /\ s \o t \in Seq(S) /\ ToSet(s \o t) = ToSet(s) \cup ToSet(t)
         /\ DOMAIN (s \o t) = 1..Len(s) + Len(t)
         /\ \A i \in 1..Len(s) : (s \o t)[i] = s[i]
         /\ \A i \in Len(s) + 1..Len(s) + Len(t) : (s \o t)[i] = t[i - Len(s)]
<1> DEFINE u == s \o t
<1>1. /\ u \in Seq(S) /\ DOMAIN u = 1..Len(s) + Len(t)
      /\ \A i \in 1..Len(s) : u[i] = s[i]
      /\ \A i \in Len(s) + 1..Len(s) + Len(t) : u[i] = t[i - Len(s)]
  OBVIOUS
<1>2. DOMAIN s = 1..Len(s) /\ DOMAIN t = 1..Len(t) /\ Len(s) \in Nat /\ Len(t) \in Nat
  OBVIOUS
<1> HIDE DEF u
<1>3. ToSet(u) \subseteq ToSet(s) \cup ToSet(t)
  <2> SUFFICES ASSUME NEW i \in DOMAIN u PROVE u[i] \in ToSet(s) \cup ToSet(t)
    BY DEF ToSet
  <2>1. CASE i \in 1..Len(s)
    <3>1. i \in DOMAIN s /\ u[i] = s[i]
      BY <1>1, <1>2, <2>1
    <3> QED
      BY <3>1 DEF ToSet
  <2>2. CASE i \in Len(s) + 1..Len(s) + Len(t)
    <3>1. i - Len(s) \in DOMAIN t /\ u[i] = t[i - Len(s)]
      BY <1>1, <1>2, <2>2
    <3> QED
      BY <3>1 DEF ToSet
  <2> QED
    BY <1>1, <1>2, <2>1, <2>2
<1>4. ToSet(s) \subseteq ToSet(u)
  <2> SUFFICES ASSUME NEW i \in 1..Len(s) PROVE s[i] \in ToSet(u)
    BY <1>2 DEF ToSet
  <2>1. i \in DOMAIN u /\ u[i] = s[i]
    BY <1>1, <1>2
  <2> QED
    BY <2>1 DEF ToSet
<1>5. ToSet(t) \subseteq ToSet(u)
  <2> SUFFICES ASSUME NEW j \in 1..Len(t) PROVE t[j] \in ToSet(u)
    BY <1>2 DEF ToSet
  <2>1. /\ Len(s) + j \in Len(s) + 1..Len(s) + Len(t) /\ Len(s) + j \in 1..Len(s) + Len(t)
        /\ (Len(s) + j) - Len(s) = j
    BY <1>2
  <2>2. Len(s) + j \in DOMAIN u /\ u[Len(s) + j] = t[j]
    BY <1>1, <2>1
  <2> QED
    BY <2>2 DEF ToSet
<1>6. ToSet(u) = ToSet(s) \cup ToSet(t)
  BY <1>3, <1>4, <1>5
<1> QED
  BY <1>1, <1>6 DEF u

\* A finite set ranked by any relation: the first of all its elements are all.
LEMMA FirstOfAll ==
  ASSUME NEW f, NEW ids, IsFiniteSet(ids), \A i \in ids : i \in Nat /\ f.active[i].at \in Nat
  PROVE  First(f, ids, Cardinality(ids)) = ids
<1> SUFFICES ASSUME NEW i \in ids
             PROVE  Cardinality({j \in ids : Before(f, j, i)}) < Cardinality(ids)
  BY DEF First
<1> DEFINE S == {j \in ids : Before(f, j, i)}
<1>1. i \notin S
  BY DEF Before
<1>2. S \in SUBSET ids
  OBVIOUS
<1> HIDE DEF S
<1>3. IsFiniteSet(S) /\ Cardinality(S) <= Cardinality(ids) /\ Cardinality(S) # Cardinality(ids)
  BY <1>1, <1>2, FS_Subset
<1>4. Cardinality(S) \in Nat /\ Cardinality(ids) \in Nat
  BY <1>3, FS_CardinalityType
<1> QED
  BY <1>3, <1>4 DEF S

----------------------------------------------------------------------------
(* Occurrences.                                                            *)

LEMMA OccurrenceIsDue ==
  ASSUME NEW r, r.at \in Nat, NEW t \in Nat, r.at <= t
  PROVE  /\ OccurrenceAt(r, t) \in Nat /\ r.at <= OccurrenceAt(r, t)
         /\ NextTarget(r, t) \in Nat /\ OccurrenceAt(r, t) < NextTarget(r, t)
<1>1. Interval \in Nat /\ Interval > 0
  BY BoundsAssumption
<1>2. (t - r.at) \div Interval \in Nat
  BY <1>1
<1> DEFINE q == (t - r.at) \div Interval
<1> HIDE DEF q
<1>3. q * Interval \in Nat
  BY <1>1, <1>2 DEF q
<1> QED
  BY <1>1, <1>3 DEF OccurrenceAt, NextTarget, q

LEMMA DueFacts ==
  ASSUME NEW f, FoldOK(f), TimesOK(f), NEW t \in Nat
  PROVE  LET ids == Due(f, t) IN
         /\ IsFiniteSet(ids) /\ Cardinality(ids) \in Nat
         /\ \A i \in ids : i \in DOMAIN f.active /\ i \in Nat
                           /\ f.active[i].at \in Nat /\ f.active[i].at <= t
<1>1. IsFiniteSet(1..f.seen)
  BY FS_Interval DEF FoldOK
<1>2. \A i \in Due(f, t) : i \in DOMAIN f.active /\ f.active[i].at <= t
  BY DEF Due, DueOf, First
<1>3. Due(f, t) \subseteq 1..f.seen
  BY <1>2 DEF FoldOK
<1>4. IsFiniteSet(Due(f, t)) /\ Cardinality(Due(f, t)) \in Nat
  BY <1>1, <1>3, FS_Subset, FS_CardinalityType
<1>5. \A i \in Due(f, t) : i \in Nat
  BY <1>3 DEF FoldOK
<1> QED
  BY <1>2, <1>4, <1>5 DEF TimesOK

\* What is queued for the reminders that are due is new, and is over once
\* it has been dispatched.
LEMMA OccurrencesAreNew ==
  ASSUME NEW f, FoldOK(f), TimesOK(f), NEW t \in Nat
  PROVE  LET S == Occurrences(f, Due(f, t), t) IN
         /\ IsFiniteSet(S) /\ S \subseteq Nat \X Nat
         /\ \A o \in S : o[1] \in DOMAIN f.active /\ ~Passed(o, f)
<1> DEFINE ids == Due(f, t)
           S == Occurrences(f, ids, t)
<1>1. /\ IsFiniteSet(ids)
      /\ \A i \in ids : i \in DOMAIN f.active /\ i \in Nat
                        /\ f.active[i].at \in Nat /\ f.active[i].at <= t
  BY DueFacts
<1> HIDE DEF ids
<1>2. \A i \in ids : OccurrenceAt(f.active[i], t) \in Nat
                     /\ f.active[i].at <= OccurrenceAt(f.active[i], t)
  BY <1>1, OccurrenceIsDue
<1>3. S \subseteq Nat \X Nat /\ \A o \in S : o[1] \in DOMAIN f.active /\ ~Passed(o, f)
  BY <1>1, <1>2 DEF Occurrences, Passed
<1>4. IsFiniteSet(S)
  <2> DEFINE g == [i \in ids |-> <<i, OccurrenceAt(f.active[i], t)>>]
  <2>1. g \in Surjection(ids, S)
    BY DEF Surjection, Occurrences
  <2> HIDE DEF g
  <2> QED
    BY <1>1, <2>1, FS_Surjection
<1> QED
  BY <1>3, <1>4 DEF ids
----------------------------------------------------------------------------
(* Folds, and what is over in them.                                        *)

LEMMA CreatedIsLater ==
  ASSUME NEW f, FoldOK(f), TimesOK(f), NEW kind, NEW at \in Nat
  PROVE  LET g == Created(f, kind, at) IN
         /\ TimesOK(g) /\ g.accepted = f.accepted
         /\ \A o \in Nat \X Nat : Passed(o, f) => Passed(o, g)
<1> DEFINE g == Created(f, kind, at)
<1>1. /\ g.seen = f.seen + 1 /\ g.accepted = f.accepted
      /\ DOMAIN g.active = DOMAIN f.active \cup {f.seen + 1}
      /\ \A i \in DOMAIN g.active :
            g.active[i] = IF i = f.seen + 1 THEN [kind |-> kind, at |-> at] ELSE f.active[i]
  BY DEF Created, FoldOK
<1> HIDE DEF g
<1>2. \A i \in DOMAIN g.active : g.active[i].at \in Nat
  BY <1>1 DEF TimesOK
<1>3. \A o \in Nat \X Nat : Passed(o, f) => Passed(o, g)
  BY <1>1 DEF Passed, FoldOK
<1>4. TimesOK(g)
  BY <1>1, <1>2, <1>3 DEF TimesOK
<1> QED
  BY <1>1, <1>3, <1>4 DEF g

LEMMA DeletedIsLater ==
  ASSUME NEW f, FoldOK(f), TimesOK(f), NEW id
  PROVE  LET g == Deleted(f, id) IN
         /\ TimesOK(g) /\ g.accepted = f.accepted
         /\ \A o \in Nat \X Nat : Passed(o, f) => Passed(o, g)
<1> DEFINE g == Deleted(f, id)
<1>1. /\ g.seen = f.seen /\ g.accepted = f.accepted
      /\ DOMAIN g.active = DOMAIN f.active \ {id}
      /\ \A i \in DOMAIN g.active : g.active[i] = f.active[i]
  BY DEF Deleted, Without, FoldOK
<1> HIDE DEF g
<1>2. \A o \in Nat \X Nat : Passed(o, f) => Passed(o, g)
  BY <1>1 DEF Passed
<1>3. TimesOK(g)
  BY <1>1, <1>2 DEF TimesOK
<1> QED
  BY <1>1, <1>2, <1>3 DEF g

\* A message for what is due, then dispatches of some of it.
LEMMA DispatchedIsLater ==
  ASSUME NEW f, FoldOK(f), TimesOK(f), NEW t \in Nat, NEW some \in SUBSET Due(f, t)
  PROVE  LET g == Dispatched(Queued(f, Due(f, t), t), some, t) IN
         /\ TimesOK(g)
         /\ g.accepted = f.accepted \cup Occurrences(f, some, t)
         /\ \A o \in Nat \X Nat : Passed(o, f) => Passed(o, g)
         /\ \A o \in Occurrences(f, some, t) : Passed(o, g)
<1> DEFINE ids == Due(f, t)
           q == Queued(f, ids, t)
           g == Dispatched(q, some, t)
<1>1. \A i \in ids : i \in DOMAIN f.active /\ i \in Nat
                     /\ f.active[i].at \in Nat /\ f.active[i].at <= t
  BY DueFacts
<1> HIDE DEF ids
<1>2. /\ DOMAIN q = {"active", "seen", "queued", "accepted"}
      /\ q.active = f.active /\ q.seen = f.seen /\ q.accepted = f.accepted
  BY DEF Queued, FoldOK
<1> HIDE DEF q
<1>3. Occurrences(q, some, t) = Occurrences(f, some, t)
  BY <1>2 DEF Occurrences
<1>4. /\ g.seen = q.seen
      /\ g.accepted = q.accepted \cup Occurrences(q, some, t)
      /\ DOMAIN g.active = {j \in DOMAIN q.active : ~(j \in some /\ Finished(q.active[j], t))}
      /\ \A i \in DOMAIN g.active :
            g.active[i] = IF i \in some THEN [kind |-> "every", at |-> NextTarget(q.active[i], t)]
                          ELSE q.active[i]
  BY <1>2 DEF Dispatched
<1> HIDE DEF g
<1>5. /\ g.seen = f.seen /\ g.accepted = f.accepted \cup Occurrences(f, some, t)
      /\ DOMAIN g.active \subseteq DOMAIN f.active
      /\ \A i \in DOMAIN g.active : i \notin some => g.active[i].at = f.active[i].at
      /\ \A i \in DOMAIN g.active : i \in some => g.active[i].at = NextTarget(f.active[i], t)
  <2>1. /\ g.seen = f.seen /\ g.accepted = f.accepted \cup Occurrences(f, some, t)
        /\ DOMAIN g.active \subseteq DOMAIN f.active
    BY <1>2, <1>3, <1>4
  <2>2. ASSUME NEW i \in DOMAIN g.active, i \notin some
        PROVE  g.active[i].at = f.active[i].at
    BY <1>2, <1>4, <2>2
  <2>3. ASSUME NEW i \in DOMAIN g.active, i \in some
        PROVE  g.active[i].at = NextTarget(f.active[i], t)
    <3>1. g.active[i] = [kind |-> "every", at |-> NextTarget(f.active[i], t)]
      BY <1>2, <1>4, <2>3
    <3> QED
      BY <3>1
  <2> QED
    BY <2>1, <2>2, <2>3
<1>6. \A i \in some :
         /\ i \in DOMAIN f.active /\ i \in Nat
         /\ f.active[i].at \in Nat /\ OccurrenceAt(f.active[i], t) \in Nat
         /\ NextTarget(f.active[i], t) \in Nat
         /\ f.active[i].at <= OccurrenceAt(f.active[i], t)
         /\ OccurrenceAt(f.active[i], t) < NextTarget(f.active[i], t)
  <2> TAKE i \in some
  <2>1. i \in ids
    BY DEF ids
  <2>2. i \in DOMAIN f.active /\ i \in Nat /\ f.active[i].at \in Nat /\ f.active[i].at <= t
    BY <1>1, <2>1
  <2> QED
    BY <2>2, OccurrenceIsDue
<1>7. \A i \in DOMAIN g.active : g.active[i].at \in Nat /\ f.active[i].at <= g.active[i].at
  <2> TAKE i \in DOMAIN g.active
  <2>1. f.active[i].at \in Nat
    BY <1>5 DEF TimesOK
  <2>2. CASE i \in some
    BY <2>1, <2>2, <1>5, <1>6
  <2>3. CASE i \notin some
    BY <2>1, <2>3, <1>5
  <2> QED
    BY <2>2, <2>3
<1>8. \A o \in Nat \X Nat : Passed(o, f) => Passed(o, g)
  <2> SUFFICES ASSUME NEW o \in Nat \X Nat, Passed(o, f), o[1] \in DOMAIN g.active
               PROVE  o[2] < g.active[o[1]].at
    BY <1>5 DEF Passed
  <2>1. o[1] \in DOMAIN f.active /\ o[2] < f.active[o[1]].at
    BY <1>5 DEF Passed
  <2>2. /\ o[2] \in Nat /\ f.active[o[1]].at \in Nat
        /\ g.active[o[1]].at \in Nat /\ f.active[o[1]].at <= g.active[o[1]].at
    BY <1>7, <2>1 DEF TimesOK
  <2> QED
    BY <2>1, <2>2
<1>9. Occurrences(f, some, t) \subseteq Nat \X Nat /\ \A o \in Occurrences(f, some, t) : Passed(o, g)
  <2> SUFFICES ASSUME NEW i \in some
               PROVE  <<i, OccurrenceAt(f.active[i], t)>> \in Nat \X Nat
                      /\ Passed(<<i, OccurrenceAt(f.active[i], t)>>, g)
    BY DEF Occurrences
  <2>1. i <= g.seen
    BY <1>5, <1>6 DEF FoldOK
  <2>2. i \in DOMAIN g.active => OccurrenceAt(f.active[i], t) < g.active[i].at
    BY <1>5, <1>6
  <2> QED
    BY <1>6, <2>1, <2>2 DEF Passed
<1>10. TimesOK(g)
  <2>1. g.accepted \subseteq Nat \X Nat
    BY <1>5, <1>9 DEF TimesOK
  <2>2. \A o \in g.accepted : Passed(o, g)
    BY <1>5, <1>8, <1>9 DEF TimesOK
  <2> QED
    BY <1>7, <2>1, <2>2 DEF TimesOK
<1> QED
  BY <1>5, <1>8, <1>9, <1>10 DEF g, q, ids

----------------------------------------------------------------------------
(* The drive in the queue.                                                 *)

LEMMA SameDrives ==
  ASSUME NEW r, OneDrive(r), NEW s, s.queue = r.queue, s.run = r.run
  PROVE  OneDrive(s) /\ DriveAt(s) = DriveAt(r)
BY DEF OneDrive, DriveAt

LEMMA AppendedDrive ==
  ASSUME NEW q \in Seq(Ops), NEW op \in Ops
  PROVE  LET p == Append(q, op) IN
         {i \in DOMAIN p : p[i] = "drive"} =
            {i \in DOMAIN q : q[i] = "drive"} \cup (IF op = "drive" THEN {Len(q) + 1} ELSE {})
<1> DEFINE p == Append(q, op)
<1>1. /\ Len(q) \in Nat /\ DOMAIN q = 1..Len(q) /\ DOMAIN p = 1..Len(q) + 1
      /\ p[Len(q) + 1] = op /\ \A i \in 1..Len(q) : p[i] = q[i]
  OBVIOUS
<1> HIDE DEF p
<1>2. DOMAIN p = DOMAIN q \cup {Len(q) + 1}
  BY <1>1
<1> QED
  BY <1>1, <1>2 DEF p

LEMMA RequestKeepsDrive ==
  ASSUME NEW r \in Runtime, OneDrive(r)
  PROVE  LET s == RequestDrive(r) IN
         /\ s \in Runtime /\ OneDrive(s) /\ s.faulted = r.faulted
         /\ r.faulted => s = r
         /\ r.queue # <<>> => s.queue # <<>>
<1>1. SameHead(r, RequestDrive(r))
  BY RequestKeepsHead
<1>2. CASE r.stopping \/ r.faulted
  BY <1>1, <1>2 DEF RequestDrive, SameHead
<1>3. CASE ~(r.stopping \/ r.faulted) /\ r.run # "none"
  <2>1. /\ RequestDrive(r) = [r EXCEPT !.timer = FALSE, !.requested = TRUE]
    BY <1>3 DEF RequestDrive
  <2>2. /\ RequestDrive(r).queue = r.queue /\ RequestDrive(r).run = r.run
        /\ RequestDrive(r).faulted = r.faulted
    BY <2>1 DEF Runtime
  <2> QED
    BY <1>1, <1>3, <2>2, SameDrives DEF SameHead
<1>4. CASE ~(r.stopping \/ r.faulted) /\ r.run = "none"
  <2> DEFINE q == Append(r.queue, "drive")
             s == RequestDrive(r)
  <2>1. s = [r EXCEPT !.timer = FALSE, !.requested = FALSE, !.run = "queued", !.queue = q]
    BY <1>4 DEF RequestDrive
  <2>2. DriveAt(r) = {} /\ r.queue \in Seq(Ops) /\ "drive" \in Ops
    BY <1>4 DEF OneDrive, Runtime, Ops
  <2>3. {i \in DOMAIN q : q[i] = "drive"} = {Len(r.queue) + 1}
    BY <2>2, AppendedDrive DEF DriveAt
  <2> HIDE DEF q
  <2>4. s.queue = q /\ s.run = "queued" /\ s.faulted = r.faulted
    BY <2>1 DEF Runtime
  <2> HIDE DEF s
  <2>5. OneDrive(s)
    BY <2>3, <2>4 DEF OneDrive, DriveAt
  <2> QED
    BY <1>1, <1>4, <2>4, <2>5 DEF SameHead, s
<1> QED
  BY <1>2, <1>3, <1>4

LEMMA DoneKeepsDrive ==
  ASSUME NEW r \in Runtime, r.queue # <<>>, OneDrive(r),
         r.faulted => \A i \in DriveAt(r) : i = 1
  PROVE  LET s == Done(r) IN
         OneDrive(s) /\ s.faulted = r.faulted /\ (s.faulted => DriveAt(s) = {})
<1> DEFINE s == Done(r)
           q == Tail(r.queue)
<1>1. r.queue \in Seq(Ops)
  BY DEF Runtime
<1>2. /\ DOMAIN r.queue = 1..Len(r.queue) /\ Len(r.queue) \in Nat
      /\ \A i \in DOMAIN q : i \in Nat /\ i >= 1 /\ i + 1 \in DOMAIN r.queue /\ q[i] = r.queue[i + 1]
  BY <1>1
<1>3. 1 \in DOMAIN r.queue /\ Head(r.queue) = r.queue[1]
  BY <1>1
<1>4. /\ s.queue = q /\ s.faulted = r.faulted
      /\ s.run = IF Head(r.queue) = "drive" THEN "looping" ELSE r.run
  BY DEF Done, Runtime
<1> HIDE DEF s, q
<1>5. \A i \in DriveAt(s) : i \in Nat /\ i >= 1 /\ i + 1 \in DriveAt(r)
  BY <1>2, <1>4 DEF DriveAt
<1>6. Head(r.queue) = "drive" => 1 \in DriveAt(r)
  BY <1>3 DEF DriveAt
<1>7. Head(r.queue) = "drive" \/ r.faulted => DriveAt(s) = {}
  <2> SUFFICES ASSUME Head(r.queue) = "drive" \/ r.faulted, NEW i \in DriveAt(s) PROVE FALSE
    OBVIOUS
  <2>1. i \in Nat /\ i >= 1 /\ i + 1 \in DriveAt(r)
    BY <1>5
  <2>2. i + 1 = 1
    BY <1>6, <2>1 DEF OneDrive
  <2> QED
    BY <2>1, <2>2
<1>8. \A i, j \in DriveAt(s) : i = j
  <2> TAKE i, j \in DriveAt(s)
  <2>1. i \in Nat /\ j \in Nat /\ i + 1 \in DriveAt(r) /\ j + 1 \in DriveAt(r)
    BY <1>5
  <2>2. i + 1 = j + 1
    BY <2>1 DEF OneDrive
  <2> QED
    BY <2>1, <2>2
<1>9. DriveAt(s) # {} => s.run = "queued"
  BY <1>4, <1>5, <1>7 DEF OneDrive
<1> QED
  BY <1>4, <1>7, <1>8, <1>9 DEF OneDrive, s

----------------------------------------------------------------------------
(* What a step does to the drive in the queue.                             *)

\* The runtime is as faulted as it was, or it has been started again.
Drives == QueueInv' /\ (rt.faulted => rt'.faulted)

LEMMA ReturnsKeepsDrive ==
  ASSUME NEW r \in Runtime, r.queue # <<>>, OneDrive(r), r.faulted = rt.faulted,
         r.faulted => \A i \in DriveAt(r) : i = 1,
         rt' = Done(r)
  PROVE  Drives
<1>1. OneDrive(rt') /\ rt'.faulted = r.faulted /\ (rt'.faulted => DriveAt(rt') = {})
  BY DoneKeepsDrive
<1> QED
  BY <1>1 DEF Drives, QueueInv

\* Flags change, and the drive that met a fault stays where it is.
LEMMA FlagsKeepDrive ==
  ASSUME QueueInv, rt'.queue = rt.queue, rt'.run = rt.run, rt'.faulted = rt.faulted,
         pc' = pc \/ pc # "broken"
  PROVE  Drives
<1>1. OneDrive(rt') /\ DriveAt(rt') = DriveAt(rt)
  BY SameDrives DEF QueueInv
<1> QED
  BY <1>1 DEF Drives, QueueInv

LEMMA RequestStep ==
  ASSUME QueueInv, NEW r \in Runtime, r.queue = rt.queue, r.faulted = rt.faulted,
         r.run = rt.run \/ DriveAt(rt) = {},
         rt' = RequestDrive(r), pc' = pc \/ pc # "broken"
  PROVE  Drives
<1>1. OneDrive(r) /\ DriveAt(r) = DriveAt(rt)
  BY DEF QueueInv, OneDrive, DriveAt
<1>2. OneDrive(rt') /\ rt'.faulted = r.faulted /\ (r.faulted => rt' = r)
  BY <1>1, RequestKeepsDrive
<1> QED
  BY <1>1, <1>2 DEF Drives, QueueInv

LEMMA TransactionDrives ==
  ASSUME Inv, QueueInv,
         \/ Begin \/ CallEnds \/ FlushFails \/ Waits \/ FindsBusy \/ DriveConfirms
         \/ ClaimFindsNothing \/ FollowupFails \/ Releases \/ List \/ ToolConfirms
  PROVE  Drives
<1>1. rt.queue # <<>> /\ rt \in Runtime
  BY DEF Begin, CallEnds, FlushFails, Waits, FindsBusy, DriveConfirms, ClaimFindsNothing,
     FollowupFails, Releases, List, ToolConfirms, Claims, Preflighted, Folds, At, Inv, TypeInv
<1>2. OneDrive(rt) /\ (rt.faulted => \A i \in DriveAt(rt) : i = 1)
  BY DEF QueueInv
<1>3. CASE rt' = Done(rt)
  BY <1>1, <1>2, <1>3, ReturnsKeepsDrive
<1>4. CASE rt' = Done(RequestDrive(rt))
  <2> DEFINE r == RequestDrive(rt)
  <2>1. r \in Runtime /\ OneDrive(r) /\ r.faulted = rt.faulted /\ (rt.faulted => r = rt)
        /\ r.queue # <<>>
    BY <1>1, <1>2, RequestKeepsDrive
  <2> HIDE DEF r
  <2> QED
    BY <1>2, <1>4, <2>1, ReturnsKeepsDrive DEF r
<1>5. CASE \E b \in BOOLEAN : rt' = Done([rt EXCEPT !.timer = b])
  <2>1. PICK b \in BOOLEAN : rt' = Done([rt EXCEPT !.timer = b])
    BY <1>5
  <2> DEFINE r == [rt EXCEPT !.timer = b]
  <2>2. r \in Runtime /\ r.queue = rt.queue /\ r.run = rt.run /\ r.faulted = rt.faulted
    BY <1>1 DEF Runtime
  <2> HIDE DEF r
  <2>3. OneDrive(r) /\ DriveAt(r) = DriveAt(rt)
    BY <1>2, <2>2, SameDrives
  <2> QED
    BY <1>1, <1>2, <2>1, <2>2, <2>3, ReturnsKeepsDrive DEF r
<1>6. CASE rt' = Done([rt EXCEPT !.idleWait = TRUE])
  <2> DEFINE r == [rt EXCEPT !.idleWait = TRUE]
  <2>2. r \in Runtime /\ r.queue = rt.queue /\ r.run = rt.run /\ r.faulted = rt.faulted
    BY <1>1 DEF Runtime
  <2> HIDE DEF r
  <2>3. OneDrive(r) /\ DriveAt(r) = DriveAt(rt)
    BY <1>2, <2>2, SameDrives
  <2> QED
    BY <1>1, <1>2, <1>6, <2>2, <2>3, ReturnsKeepsDrive DEF r
<1>7. CASE rt' = GivesUp(rt)
  <2> DEFINE s == Done(rt)
  <2>1. s \in Runtime /\ OneDrive(s) /\ s.faulted = rt.faulted /\ (s.faulted => DriveAt(s) = {})
    BY <1>1, <1>2, DoneIsRuntime, DoneKeepsDrive
  <2> HIDE DEF s
  <2>2. rt'.queue = s.queue /\ rt'.run = s.run /\ rt'.faulted = s.faulted
    BY <1>7, <2>1 DEF GivesUp, s, Runtime
  <2>3. OneDrive(rt') /\ DriveAt(rt') = DriveAt(s)
    BY <2>1, <2>2, SameDrives
  <2> QED
    BY <2>1, <2>2, <2>3 DEF Drives, QueueInv
<1>8. CASE pc # "broken" /\ rt'.queue = rt.queue /\ rt'.run = rt.run /\ rt'.faulted = rt.faulted
  BY <1>8, FlagsKeepDrive
<1>9. CASE Begin
  <2>1. CASE Returns(rt)
    BY <1>3, <2>1 DEF Returns
  <2>2. CASE ~Returns(rt)
    <3>1. pc = "ready" /\ rt' = IF Driving THEN [rt EXCEPT !.timer = FALSE, !.gaveUp = FALSE] ELSE rt
      BY <1>9, <2>2 DEF Begin, At
    <3> QED
      BY <1>1, <1>8, <3>1 DEF Runtime
  <2> QED
    BY <2>1, <2>2
<1>10. CASE CallEnds \/ DriveConfirms \/ List \/ ToolConfirms
  BY <1>3, <1>4, <1>10 DEF CallEnds, DriveConfirms, List, ToolConfirms, Returns
<1>11. CASE FlushFails
  BY <1>7, <1>11 DEF FlushFails
<1>12. CASE Waits
  <2>1. (~rt.stopping /\ HasTarget(Live, now)) \in BOOLEAN
    OBVIOUS
  <2> QED
    BY <1>5, <1>12, <2>1 DEF Waits, Returns
<1>13. CASE FindsBusy
  BY <1>6, <1>13 DEF FindsBusy, Returns
<1>14. CASE ClaimFindsNothing \/ FollowupFails
  <2>1. pc = "preflight"
    BY <1>14 DEF ClaimFindsNothing, FollowupFails, Claims, Preflighted, At
  <2>2. rt'.queue = rt.queue /\ rt'.run = rt.run /\ rt'.faulted = rt.faulted
    BY <1>1, <1>14 DEF ClaimFindsNothing, FollowupFails, Runtime
  <2> QED
    BY <1>8, <2>1, <2>2
<1>15. CASE Releases
  <2>1. CASE Returns(rt)
    BY <1>3, <2>1 DEF Returns
  <2>2. CASE At("sent") /\ rt' = rt
    BY <1>8, <2>2 DEF At
  <2> QED
    BY <1>15, <2>1, <2>2 DEF Releases
<1> QED
  BY <1>9, <1>10, <1>11, <1>12, <1>13, <1>14, <1>15

LEMMA MutationDrives ==
  ASSUME Inv, QueueInv, Create \/ Delete
  PROVE  Drives
<1>1. rt \in Runtime /\ pc = "preflight" /\ rt' = RequestDrive(rt)
  BY DEF Create, Delete, Mutates, Folds, At, Inv, TypeInv
<1> QED
  BY <1>1, RequestStep

LEMMA DeliveryDrives ==
  ASSUME Inv, QueueInv, Delivers
  PROVE  Drives /\ ~rt.faulted
<1>1. rt \in Runtime /\ rt.queue # <<>> /\ pc = "preflight" /\ Head(rt.queue) = "drive"
  BY DEF Delivers, Claims, Preflighted, At, Driving, Inv, TypeInv
<1>2. 1 \in DriveAt(rt)
  <2>1. rt.queue \in Seq(Ops)
    BY <1>1 DEF Runtime
  <2>2. 1 \in DOMAIN rt.queue /\ rt.queue[1] = Head(rt.queue)
    BY <1>1, <2>1
  <2> QED
    BY <1>1, <2>2 DEF DriveAt
<1>3. ~rt.faulted
  BY <1>1, <1>2 DEF QueueInv
<1>4. CASE rt' = rt
  <2>1. pc # "broken"
    BY <1>1
  <2>2. rt'.queue = rt.queue /\ rt'.run = rt.run /\ rt'.faulted = rt.faulted
    BY <1>4
  <2> QED
    BY <1>3, <2>1, <2>2, FlagsKeepDrive
<1>5. CASE rt' = [rt EXCEPT !.faulted = TRUE, !.timer = FALSE] /\ pc' = "broken"
  <2>1. rt'.queue = rt.queue /\ rt'.run = rt.run
    BY <1>1, <1>5 DEF Runtime
  <2>2. OneDrive(rt') /\ DriveAt(rt') = DriveAt(rt)
    BY <2>1, SameDrives DEF QueueInv
  <2>3. \A i \in DriveAt(rt) : i = 1
    BY <1>2 DEF QueueInv, OneDrive
  <2> QED
    BY <1>3, <1>5, <2>2, <2>3 DEF Drives, QueueInv
<1> QED
  BY <1>3, <1>4, <1>5 DEF Delivers

LEMMA OtherDrives ==
  ASSUME Inv, QueueInv,
         \/ Loops \/ Retires \/ TimerFires \/ IdleResolves \/ IdleFails \/ Stops
         \/ AgentStarts \/ TurnEnds \/ MaintenanceEnds \/ (\E tool \in Tools : Calls(tool))
         \/ Stores \/ Ticks \/ ClockIsSetBack
  PROVE  Drives
<1>1. rt \in Runtime /\ pc' = pc
  BY DEF Loops, Retires, TimerFires, IdleResolves, IdleFails, Stops, AgentStarts, TurnEnds,
     MaintenanceEnds, Calls, Stores, Ticks, ClockIsSetBack, SameButRt, Inv, TypeInv
<1>2. CASE rt' = rt
  BY <1>1, <1>2, FlagsKeepDrive
<1>3. CASE rt' = RequestDrive(rt)
  BY <1>1, <1>3, RequestStep
<1>4. CASE rt'.queue = rt.queue /\ rt'.run = rt.run /\ rt'.faulted = rt.faulted
  BY <1>1, <1>4, FlagsKeepDrive
<1>5. CASE Loops
  <2>1. DriveAt(rt) = {}
    BY <1>5 DEF Loops, QueueInv, OneDrive
  <2>2. CASE rt' = [rt EXCEPT !.run = "ending"]
    <3>1. rt'.queue = rt.queue /\ rt'.faulted = rt.faulted
      BY <1>1, <2>2 DEF Runtime
    <3> QED
      BY <2>1, <3>1 DEF Drives, QueueInv, OneDrive, DriveAt
  <2>3. CASE ~rt.faulted
             /\ rt' = [rt EXCEPT !.run = "queued", !.requested = FALSE, !.queue = Append(@, "drive")]
    <3> DEFINE q == Append(rt.queue, "drive")
    <3>1. {i \in DOMAIN q : q[i] = "drive"} = {Len(rt.queue) + 1}
      <4>1. rt.queue \in Seq(Ops) /\ "drive" \in Ops
        BY <1>1 DEF Runtime, Ops
      <4> QED
        BY <2>1, <4>1, AppendedDrive DEF DriveAt
    <3>2. rt'.queue = q /\ rt'.run = "queued" /\ rt'.faulted = rt.faulted
      BY <1>1, <2>3 DEF Runtime
    <3> HIDE DEF q
    <3> QED
      BY <2>3, <3>1, <3>2 DEF Drives, QueueInv, OneDrive, DriveAt
  <2> QED
    BY <1>5, <2>2, <2>3 DEF Loops
<1>6. CASE Retires
  <2> DEFINE r == [rt EXCEPT !.run = "none"]
  <2>1. DriveAt(rt) = {}
    BY <1>6 DEF Retires, QueueInv, OneDrive
  <2>2. r \in Runtime /\ r.queue = rt.queue /\ r.faulted = rt.faulted
    BY <1>1 DEF Runtime
  <2>3. rt' = r \/ rt' = RequestDrive(r)
    BY <1>6 DEF Retires
  <2> HIDE DEF r
  <2>4. CASE rt' = r
    BY <2>1, <2>2, <2>4 DEF Drives, QueueInv, OneDrive, DriveAt
  <2>5. CASE rt' = RequestDrive(r)
    BY <1>1, <2>1, <2>2, <2>5, RequestStep
  <2> QED
    BY <2>3, <2>4, <2>5
<1>7. CASE TimerFires \/ IdleResolves
  <2>1. PICK r : /\ r \in Runtime /\ rt' = RequestDrive(r)
                 /\ r.queue = rt.queue /\ r.run = rt.run /\ r.faulted = rt.faulted
    <3>1. CASE TimerFires
      <4> WITNESS [rt EXCEPT !.timer = FALSE]
      <4> QED
        BY <1>1, <3>1 DEF TimerFires, Runtime
    <3>2. CASE IdleResolves
      <4> WITNESS [rt EXCEPT !.idleWait = FALSE]
      <4> QED
        BY <1>1, <3>2 DEF IdleResolves, Runtime
    <3> QED
      BY <1>7, <3>1, <3>2
  <2> QED
    BY <1>1, <2>1, RequestStep
<1>8. CASE IdleFails \/ Stops
  <2>1. rt'.queue = rt.queue /\ rt'.run = rt.run /\ rt'.faulted = rt.faulted
    BY <1>1, <1>8 DEF IdleFails, Stops, Runtime
  <2> QED
    BY <1>4, <2>1
<1>9. CASE \E tool \in Tools : Calls(tool)
  <2>1. PICK tool \in Tools : Calls(tool)
    BY <1>9
  <2> DEFINE q == Append(rt.queue, tool)
  <2>2. {i \in DOMAIN q : q[i] = "drive"} = DriveAt(rt)
    <3>1. rt.queue \in Seq(Ops) /\ tool \in Ops /\ tool # "drive"
      BY <1>1 DEF Runtime, Ops, Tools
    <3> QED
      BY <3>1, AppendedDrive DEF DriveAt
  <2>3. rt'.queue = q /\ rt'.run = rt.run /\ rt'.faulted = rt.faulted
    BY <1>1, <2>1 DEF Calls, Runtime
  <2> HIDE DEF q
  <2>4. DriveAt(rt') = DriveAt(rt)
    BY <2>2, <2>3 DEF DriveAt
  <2> QED
    BY <1>1, <2>3, <2>4 DEF Drives, QueueInv, OneDrive
<1>10. CASE AgentStarts \/ TurnEnds \/ MaintenanceEnds \/ Stores \/ Ticks \/ ClockIsSetBack
  BY <1>2, <1>3, <1>10 DEF AgentStarts, TurnEnds, MaintenanceEnds, Stores, Ticks, ClockIsSetBack
<1> QED
  BY <1>5, <1>6, <1>7, <1>8, <1>9, <1>10

----------------------------------------------------------------------------
(* What a step queues.                                                     *)

LEMMA LiveTimes ==
  ASSUME LogInv, FreshInv
  PROVE  /\ FoldOK(Live) /\ TimesOK(Live) /\ Live.accepted \subseteq ToSet(sent)
         /\ FoldOK(Stored) /\ TimesOK(Stored) /\ Stored.accepted \subseteq ToSet(sent)
<1>1. 1 \in DOMAIN log /\ Len(log) \in DOMAIN log /\ Live = log[Len(log)] /\ Stored = log[1]
  BY LiveOK
<1> QED
  BY <1>1, LiveOK DEF FreshInv

\* Nothing is appended, and nothing is queued.
LEMMA QuietSteps ==
  ASSUME FreshInv, UNCHANGED <<log, sent>>, now' \in Nat, rt.faulted => rt'.faulted
  PROVE  FreshInv'
BY DEF FreshInv, Live

LEMMA ClockIsNat ==
  ASSUME FreshInv,
         \/ Begin \/ CallEnds \/ FlushFails \/ Waits \/ FindsBusy \/ DriveConfirms
         \/ ClaimFindsNothing \/ FollowupFails \/ Releases \/ List \/ ToolConfirms
         \/ Loops \/ Retires \/ TimerFires \/ IdleResolves \/ IdleFails \/ Stops
         \/ AgentStarts \/ TurnEnds \/ MaintenanceEnds \/ (\E tool \in Tools : Calls(tool))
         \/ Ticks \/ ClockIsSetBack
  PROVE  now' \in Nat /\ UNCHANGED <<log, sent>>
<1>1. now \in Nat
  BY DEF FreshInv
<1>2. CASE ClaimFindsNothing \/ FollowupFails \/ Ticks \/ ClockIsSetBack
  BY <1>1, <1>2 DEF ClaimFindsNothing, FollowupFails, Claims, Ticks, ClockIsSetBack
<1>3. CASE ~(ClaimFindsNothing \/ FollowupFails \/ Ticks \/ ClockIsSetBack)
  <2>1. UNCHANGED <<now, log, sent>>
    BY <1>3 DEF Begin, CallEnds, FlushFails, Waits, FindsBusy, DriveConfirms, Releases, List,
       ToolConfirms, Loops, Retires, TimerFires, IdleResolves, IdleFails, Stops, SameButRt,
       AgentStarts, TurnEnds, MaintenanceEnds, Calls
  <2> QED
    BY <1>1, <2>1
<1> QED
  BY <1>2, <1>3

LEMMA FunctionIsSeq ==
  ASSUME NEW T, NEW n \in Nat, NEW d \in [1..n -> T]
  PROVE  d \in Seq(T) /\ Len(d) = n
OBVIOUS

\* What is over stays over in the folds that come after Live.
LEMMA LaterFolds ==
  ASSUME LogInv, FreshInv, NEW n \in Nat, n >= 1, NEW d, d = [k \in 1..n |-> d[k]],
         \A k \in 1..n : FoldOK(d[k]) /\ TimesOK(d[k]) /\ d[k].accepted \subseteq ToSet(sent'),
         now' \in Nat, sent' \in Seq(Nat \X Nat), ToSet(sent) \subseteq ToSet(sent'),
         ~rt'.faulted => \A o \in ToSet(sent') : Passed(o, d[n]),
         log' = log \o d
  PROVE  FreshInv'
<1>1. PICK S : log \in Seq(S)
  BY DEF LogInv, IsLog
<1> DEFINE T == S \cup {d[k] : k \in 1..n}
<1>2. log \in Seq(T) /\ d \in Seq(T) /\ Len(d) = n
  <2>1. d \in [1..n -> T]
    OBVIOUS
  <2>2. d \in Seq(T) /\ Len(d) = n
    BY <2>1, FunctionIsSeq
  <2> QED
    BY <1>1, <2>2
<1> HIDE DEF T
<1>3. /\ Len(log) \in Nat /\ DOMAIN log = 1..Len(log)
      /\ Len(log') = Len(log) + n /\ DOMAIN log' = 1..Len(log) + n
      /\ \A i \in 1..Len(log) : log'[i] = log[i]
      /\ \A i \in Len(log) + 1..Len(log) + n : log'[i] = d[i - Len(log)]
  BY <1>2
<1>4. Live' = d[n]
  <2>1. Len(log) + n \in Len(log) + 1..Len(log) + n /\ (Len(log) + n) - Len(log) = n
    BY <1>3
  <2>2. log'[Len(log)'] = d[n]
    BY <1>3, <2>1
  <2> QED
    BY <2>2 DEF Live, Last
<1>5. ASSUME NEW k \in DOMAIN log'
      PROVE  TimesOK(log'[k]) /\ log'[k].accepted \subseteq ToSet(sent')
  <2>1. CASE k \in 1..Len(log)
    <3>1. log'[k] = log[k] /\ k \in DOMAIN log
      BY <1>3, <2>1
    <3> QED
      BY <3>1 DEF FreshInv
  <2>2. CASE k \in Len(log) + 1..Len(log) + n
    <3>1. k - Len(log) \in 1..n /\ log'[k] = d[k - Len(log)]
      BY <1>3, <2>2
    <3> QED
      BY <3>1
  <2>3. k \in 1..Len(log) \/ k \in Len(log) + 1..Len(log) + n
    BY <1>3
  <2> QED
    BY <2>1, <2>2, <2>3
<1> QED
  BY <1>4, <1>5 DEF FreshInv

LEMMA MutationFresh ==
  ASSUME Inv, FreshInv, Create \/ Delete, rt.faulted => rt'.faulted
  PROVE  FreshInv' /\ sent' = sent
<1>1. /\ FoldOK(Live) /\ TimesOK(Live) /\ Live.accepted \subseteq ToSet(sent)
      /\ now \in Nat /\ sent \in Seq(Nat \X Nat)
  BY LiveTimes DEF Inv, FreshInv
<1>2. PICK g : /\ FoldOK(g) /\ TimesOK(g) /\ g.accepted = Live.accepted
               /\ \A o \in Nat \X Nat : Passed(o, Live) => Passed(o, g)
               /\ log' = Append(log, g) /\ UNCHANGED <<now, sent>>
  <2>1. CASE Create
    <3>1. PICK kind \in Kinds, at \in now + 1..LastInstant :
             Mutates(Created(Live, kind, at), Live.seen + 1)
      BY <2>1 DEF Create
    <3>2. at \in Nat
      BY <1>1, BoundsAssumption
    <3> DEFINE g == Created(Live, kind, at)
    <3>3. FoldOK(g) /\ TimesOK(g) /\ g.accepted = Live.accepted
          /\ \A o \in Nat \X Nat : Passed(o, Live) => Passed(o, g)
      BY <1>1, <3>2, CreatedOK, CreatedIsLater
    <3> HIDE DEF g
    <3>4. log' = Append(log, g) /\ UNCHANGED <<now, sent>>
      BY <3>1 DEF Mutates, g
    <3> QED
      BY <3>3, <3>4
  <2>2. CASE Delete
    <3>1. PICK id \in DOMAIN Live.active : Mutates(Deleted(Live, id), id)
      BY <2>2 DEF Delete
    <3> DEFINE g == Deleted(Live, id)
    <3>3. FoldOK(g) /\ TimesOK(g) /\ g.accepted = Live.accepted
          /\ \A o \in Nat \X Nat : Passed(o, Live) => Passed(o, g)
      BY <1>1, DeletedOK, DeletedIsLater
    <3> HIDE DEF g
    <3>4. log' = Append(log, g) /\ UNCHANGED <<now, sent>>
      BY <3>1 DEF Mutates, g
    <3> QED
      BY <3>3, <3>4
  <2> QED
    BY <2>1, <2>2
<1> DEFINE d == [k \in 1..1 |-> g]
<1>3. log' = log \o d
  <2>1. PICK S : log \in Seq(S)
    BY DEF Inv, LogInv, IsLog
  <2>2. log \in Seq(S \cup {g}) /\ g \in S \cup {g}
    BY <2>1
  <2>3. d = <<g>>
    OBVIOUS
  <2> QED
    BY <1>2, <2>2, <2>3
<1>4. d = [k \in 1..1 |-> d[k]] /\ d[1] = g /\ \A k \in 1..1 : d[k] = g
  OBVIOUS
<1>5. ~rt'.faulted => \A o \in ToSet(sent') : Passed(o, g)
  <2>1. ToSet(sent) \subseteq Nat \X Nat
    BY <1>1, SeqRange
  <2> QED
    BY <1>2, <2>1 DEF FreshInv
<1> HIDE DEF d
<1>6. FreshInv'
  <2>1. LogInv /\ now' \in Nat /\ sent' \in Seq(Nat \X Nat) /\ ToSet(sent) \subseteq ToSet(sent')
    BY <1>1, <1>2 DEF Inv
  <2>2. \A k \in 1..1 : FoldOK(d[k]) /\ TimesOK(d[k]) /\ d[k].accepted \subseteq ToSet(sent')
    BY <1>1, <1>2, <1>4
  <2>3. ~rt'.faulted => \A o \in ToSet(sent') : Passed(o, d[1])
    BY <1>4, <1>5
  <2>4. 1 \in Nat /\ 1 >= 1
    OBVIOUS
  <2> QED
    BY <1>3, <1>4, <2>1, <2>2, <2>3, <2>4, LaterFolds
<1> QED
  BY <1>2, <1>6

\* What Delivers appends to the log is as sound as what it appends to sent.
LEMMA DeliveryFresh ==
  ASSUME Inv, FreshInv, Delivers, ~rt.faulted, rt \in Runtime
  PROVE  FreshInv'
<1> DEFINE ids == Due(Live, now)
           S == Occurrences(Live, ids, now)
<1>1. /\ LogInv /\ FoldOK(Live) /\ TimesOK(Live) /\ Live.accepted \subseteq ToSet(sent)
      /\ now \in Nat /\ now' \in Nat /\ sent \in Seq(Nat \X Nat)
      /\ \A o \in ToSet(sent) : Passed(o, Live)
  BY LiveTimes DEF Inv, FreshInv, Delivers, Claims
<1>2. /\ IsFiniteSet(S) /\ S \subseteq Nat \X Nat
  BY <1>1, OccurrencesAreNew
<1>3. /\ IsFiniteSet(ids) /\ Cardinality(ids) \in Nat
      /\ \A i \in ids : i \in Nat /\ Live.active[i].at \in Nat
  BY <1>1, DueFacts
<1>4. sent' \in Seq(Nat \X Nat) /\ ToSet(sent') = ToSet(sent) \cup S
  <2> DEFINE s == SetToSeq(S)
  <2>1. s \in Seq(S) /\ ToSet(s) = S
    BY <1>2, SetAsSeq
  <2>2. sent' = sent \o s
    BY DEF Delivers
  <2> HIDE DEF s, S
  <2>3. s \in Seq(Nat \X Nat)
    BY <1>2, <2>1
  <2> QED
    BY <1>1, <2>1, <2>2, <2>3, JoinedRange
<1>5. PICK n \in Nat : /\ log' = log \o Delivery(Live, ids, now, n)
                       /\ ~rt'.faulted => n = Cardinality(ids)
  <2>1. \/ log' = log \o Delivery(Live, ids, now, Cardinality(ids))
        \/ \E n \in 0..Cardinality(ids) - 1 :
              /\ log' = log \o Delivery(Live, ids, now, n)
              /\ rt' = [rt EXCEPT !.faulted = TRUE, !.timer = FALSE]
    BY DEF Delivers
  <2> HIDE DEF ids
  <2>2. CASE log' = log \o Delivery(Live, ids, now, Cardinality(ids))
    BY <1>3, <2>2
  <2>3. ASSUME NEW n \in 0..Cardinality(ids) - 1,
               log' = log \o Delivery(Live, ids, now, n),
               rt' = [rt EXCEPT !.faulted = TRUE, !.timer = FALSE]
        PROVE  n \in Nat /\ rt'.faulted
    BY <1>3, <2>3 DEF Runtime
  <2> QED
    BY <2>1, <2>2, <2>3
<1> DEFINE d == Delivery(Live, ids, now, n)
<1>6. d = [k \in 1..n + 1 |-> d[k]]
  BY DEF Delivery
<1>7. \A k \in 1..n + 1 : d[k] = Dispatched(Queued(Live, ids, now), First(Live, ids, k - 1), now)
  BY DEF Delivery
<1>8. ASSUME NEW k \in 1..n + 1
      PROVE  FoldOK(d[k]) /\ TimesOK(d[k]) /\ d[k].accepted \subseteq ToSet(sent')
  <2> DEFINE some == First(Live, ids, k - 1)
  <2>1. some \in SUBSET ids /\ d[k] = Dispatched(Queued(Live, ids, now), some, now)
    BY <1>7 DEF First
  <2> HIDE DEF some, d
  <2>2. FoldOK(d[k])
    BY <1>1, <2>1, DispatchedOK
  <2>3. TimesOK(d[k]) /\ d[k].accepted = Live.accepted \cup Occurrences(Live, some, now)
    BY <1>1, <2>1, DispatchedIsLater
  <2>4. Occurrences(Live, some, now) \subseteq S
    BY <2>1 DEF Occurrences
  <2> QED
    BY <1>1, <1>4, <2>2, <2>3, <2>4
<1>9. ~rt'.faulted => \A o \in ToSet(sent') : Passed(o, d[n + 1])
  <2> SUFFICES ASSUME ~rt'.faulted PROVE \A o \in ToSet(sent') : Passed(o, d[n + 1])
    OBVIOUS
  <2>1. First(Live, ids, n) = ids
    BY <1>3, <1>5, FirstOfAll
  <2>2. n + 1 \in 1..n + 1 /\ (n + 1) - 1 = n
    OBVIOUS
  <2>3. d[n + 1] = Dispatched(Queued(Live, ids, now), ids, now)
    BY <1>7, <2>1, <2>2
  <2> HIDE DEF d
  <2>4. /\ \A o \in Nat \X Nat : Passed(o, Live) => Passed(o, d[n + 1])
        /\ \A o \in S : Passed(o, d[n + 1])
    BY <1>1, <2>3, DispatchedIsLater
  <2>5. ToSet(sent) \subseteq Nat \X Nat
    BY <1>1, SeqRange
  <2> QED
    BY <1>1, <1>4, <2>4, <2>5
<1> HIDE DEF d
<1>10. n + 1 \in Nat /\ n + 1 >= 1 /\ log' = log \o d /\ ToSet(sent) \subseteq ToSet(sent')
  BY <1>4, <1>5 DEF d
<1> QED
  BY <1>1, <1>4, <1>6, <1>8, <1>9, <1>10, LaterFolds

LEMMA StoresFresh ==
  ASSUME Inv, FreshInv, Stores
  PROVE  FreshInv'
<1>1. log' = Tail(log) /\ Len(log) > 1 /\ UNCHANGED <<now, rt, sent>>
  BY DEF Stores
<1>2. PICK S : log \in Seq(S)
  BY DEF Inv, LogInv, IsLog
<1>3. /\ log' \in Seq(S) /\ Len(log') = Len(log) - 1 /\ DOMAIN log' = 1..Len(log) - 1
      /\ \A i \in DOMAIN log' : i + 1 \in DOMAIN log /\ log'[i] = log[i + 1]
  BY <1>1, <1>2
<1>4. Len(log) \in Nat /\ Live = log[Len(log)]
  BY LiveOK DEF Inv
<1>5. Live' = Live
  BY <1>1, <1>3, <1>4 DEF Live, Last
<1> QED
  BY <1>1, <1>3, <1>5 DEF FreshInv

\* A process that opens the log knows what the log counts as delivered.
LEMMA ReopensFresh ==
  ASSUME Inv, FreshInv, Reopens
  PROVE  FreshInv' /\ DOMAIN sent' \subseteq DOMAIN sent
<1>1. /\ LogInv /\ TimesOK(Stored) /\ Stored.accepted \subseteq ToSet(sent)
      /\ now \in Nat /\ sent \in Seq(Nat \X Nat)
  BY LiveTimes DEF Inv, FreshInv
<1>2. log' = <<Stored>> /\ sent' = SetToSeq(Stored.accepted) /\ now' = now
  BY DEF Reopens
<1> DEFINE A == Stored.accepted
<1>3. IsFiniteSet(A) /\ Cardinality(A) <= Len(sent)
  BY <1>1, SeqRange
<1>4. sent' \in Seq(A) /\ Len(sent') = Cardinality(A) /\ ToSet(sent') = A
  BY <1>2, <1>3, SetAsSeq
<1>5. A \subseteq Nat \X Nat /\ \A o \in A : Passed(o, Stored)
  BY <1>1 DEF TimesOK
<1> HIDE DEF A
<1>6. DOMAIN log' = {1} /\ log'[1] = Stored /\ Live' = Stored
  BY <1>2, OneFold DEF Live, Last
<1>7. sent' \in Seq(Nat \X Nat)
  BY <1>4, <1>5
<1>8. FreshInv'
  BY <1>1, <1>2, <1>4, <1>5, <1>6, <1>7 DEF FreshInv, A
<1>9. DOMAIN sent' \subseteq DOMAIN sent
  BY <1>1, <1>3, <1>4
<1> QED
  BY <1>8, <1>9

----------------------------------------------------------------------------
\* What a step queues is not queued by a runtime that stopped, was not
\* queued before, and belongs to no reminder that was reported as gone.
NoStray ==
    \A i \in DOMAIN sent' \ DOMAIN sent :
        /\ ~rt.stopping
        /\ sent'[i] \notin ToSet(SubSeq(sent', 1, i - 1))
        /\ <<"over", sent'[i][1]>> \notin told

LEMMA PrefixRange ==
  ASSUME NEW S, NEW s \in Seq(S), NEW i \in 1..Len(s), NEW x \in ToSet(SubSeq(s, 1, i - 1))
  PROVE  \E j \in 1..i - 1 : x = s[j]
<1> DEFINE p == SubSeq(s, 1, i - 1)
<1>1. DOMAIN p = 1..i - 1 /\ \A j \in 1..i - 1 : p[j] = s[j]
  OBVIOUS
<1> HIDE DEF p
<1>2. x \in ToSet(p)
  BY DEF p
<1> QED
  BY <1>1, <1>2 DEF ToSet

LEMMA DeliveryIsNoStray ==
  ASSUME Inv, FreshInv, Delivers, ~rt.faulted
  PROVE  NoStray
<1> DEFINE S == Occurrences(Live, Due(Live, now), now)
           s == SetToSeq(S)
<1>1. /\ LogInv /\ FoldOK(Live) /\ TimesOK(Live) /\ now \in Nat /\ sent \in Seq(Nat \X Nat)
      /\ \A o \in ToSet(sent) : Passed(o, Live)
  BY LiveTimes DEF Inv, FreshInv
<1>2. /\ IsFiniteSet(S) /\ S \subseteq Nat \X Nat
      /\ \A o \in S : o[1] \in DOMAIN Live.active /\ ~Passed(o, Live)
  BY <1>1, OccurrencesAreNew
<1>3. ~rt.stopping /\ sent' = sent \o s
  BY DEF Delivers, Claims, Preflighted
<1> HIDE DEF S
<1>4. s \in Seq(S) /\ \A i, j \in 1..Len(s) : s[i] = s[j] => i = j
  BY <1>2, SetAsSeq
<1> HIDE DEF s
<1>5. s \in Seq(Nat \X Nat)
  BY <1>2, <1>4
<1>6. /\ sent' \in Seq(Nat \X Nat)
      /\ DOMAIN sent' = 1..Len(sent) + Len(s)
      /\ \A i \in 1..Len(sent) : sent'[i] = sent[i]
      /\ \A i \in Len(sent) + 1..Len(sent) + Len(s) : sent'[i] = s[i - Len(sent)]
  BY <1>1, <1>3, <1>5, JoinedRange
<1>7. /\ Len(sent) \in Nat /\ Len(s) \in Nat /\ DOMAIN sent = 1..Len(sent)
      /\ Len(sent') = Len(sent) + Len(s)
  BY <1>1, <1>5, <1>6
<1> SUFFICES ASSUME NEW i \in DOMAIN sent' \ DOMAIN sent
             PROVE  /\ sent'[i] \notin ToSet(SubSeq(sent', 1, i - 1))
                    /\ <<"over", sent'[i][1]>> \notin told
  BY <1>3 DEF NoStray
<1>8. i \in Len(sent) + 1..Len(sent) + Len(s) /\ i - Len(sent) \in 1..Len(s) /\ i \in 1..Len(sent')
  BY <1>6, <1>7
<1>9. sent'[i] = s[i - Len(sent)] /\ sent'[i] \in S
  <2>1. sent'[i] = s[i - Len(sent)]
    BY <1>6, <1>8
  <2>2. s[i - Len(sent)] \in S
    <3> DEFINE k == i - Len(sent)
    <3>1. k \in 1..Len(s)
      BY <1>8
    <3> HIDE DEF k
    <3>2. s[k] \in S
      BY <1>4, <3>1
    <3> QED
      BY <3>2 DEF k
  <2> QED
    BY <2>1, <2>2
<1>10. sent'[i] \notin ToSet(SubSeq(sent', 1, i - 1))
  <2> SUFFICES ASSUME sent'[i] \in ToSet(SubSeq(sent', 1, i - 1)) PROVE FALSE
    OBVIOUS
  <2>1. PICK j \in 1..i - 1 : sent'[i] = sent'[j]
    BY <1>6, <1>8, PrefixRange
  <2>2. CASE j \in 1..Len(sent)
    <3>1. sent'[j] \in ToSet(sent)
      BY <1>6, <1>7, <2>2 DEF ToSet
    <3> QED
      BY <1>1, <1>2, <1>9, <2>1, <3>1
  <2>3. CASE j \in Len(sent) + 1..Len(sent) + Len(s)
    <3>1. j - Len(sent) \in 1..Len(s) /\ sent'[j] = s[j - Len(sent)]
      <4>1. j - Len(sent) \in 1..Len(s)
        BY <1>7, <2>3
      <4>2. sent'[j] = s[j - Len(sent)]
        BY <1>6, <2>3
      <4> QED
        BY <4>1, <4>2
    <3>2. j - Len(sent) = i - Len(sent)
      BY <1>4, <1>8, <1>9, <2>1, <3>1
    <3> QED
      BY <1>7, <1>8, <3>2
  <2>4. j \in 1..Len(sent) \/ j \in Len(sent) + 1..Len(sent) + Len(s)
    BY <1>7, <1>8
  <2> QED
    BY <2>2, <2>3, <2>4
<1>11. <<"over", sent'[i][1]>> \notin told
  <2> SUFFICES ASSUME <<"over", sent'[i][1]>> \in told PROVE FALSE
    OBVIOUS
  <2>1. Holds(<<"over", sent'[i][1]>>, Live)
    BY <1>1, LiveOK DEF Inv, ToldInv
  <2>2. sent'[i][1] \in DOMAIN Live.active
    BY <1>2, <1>9
  <2> QED
    BY <2>1, <2>2 DEF Holds
<1> QED
  BY <1>10, <1>11

----------------------------------------------------------------------------
(* No stray reminder.                                                      *)

LEMMA InitFresh == Init => FreshInv /\ QueueInv
<1> SUFFICES ASSUME Init PROVE FreshInv /\ QueueInv
  OBVIOUS
<1>1. now = 0 /\ log = <<Empty>> /\ rt = Started /\ sent = <<>>
  BY DEF Init
<1>2. TimesOK(Empty) /\ Empty.accepted = {}
  BY DEF TimesOK, Empty
<1>3. sent \in Seq(Nat \X Nat) /\ ToSet(sent) = {}
  BY <1>1 DEF ToSet
<1>4. FreshInv
  BY <1>1, <1>2, <1>3, OneFold DEF FreshInv
<1>5. QueueInv
  BY <1>1 DEF QueueInv, OneDrive, DriveAt, Started
<1> QED
  BY <1>4, <1>5

LEMMA NextFresh ==
  ASSUME Inv, FreshInv, QueueInv, [Next]_vars
  PROVE  FreshInv' /\ QueueInv' /\ NoStray
<1>1. CASE UNCHANGED vars
  <2>1. UNCHANGED <<now, log, rt, pc, sent>>
    BY <1>1 DEF vars
  <2>2. QueueInv' /\ NoStray
    BY <2>1 DEF QueueInv, OneDrive, DriveAt, NoStray
  <2> QED
    BY <2>1, <2>2, QuietSteps DEF FreshInv
<1>2. CASE \/ Begin \/ CallEnds \/ FlushFails \/ Waits \/ FindsBusy \/ DriveConfirms
           \/ ClaimFindsNothing \/ FollowupFails \/ Releases \/ List \/ ToolConfirms
  BY <1>2, TransactionDrives, ClockIsNat, QuietSteps DEF Drives, NoStray
<1>3. CASE Create \/ Delete
  BY <1>3, MutationDrives, MutationFresh DEF Drives, NoStray
<1>4. CASE Delivers
  BY <1>4, DeliveryDrives, DeliveryFresh, DeliveryIsNoStray DEF Drives, Inv, TypeInv
<1>5. CASE \/ Loops \/ Retires \/ TimerFires \/ IdleResolves \/ IdleFails \/ Stops
           \/ AgentStarts \/ TurnEnds \/ MaintenanceEnds \/ (\E tool \in Tools : Calls(tool))
           \/ Ticks \/ ClockIsSetBack
  BY <1>5, OtherDrives, ClockIsNat, QuietSteps DEF Drives, NoStray
<1>6. CASE Stores
  <2>1. sent' = sent
    BY <1>6 DEF Stores
  <2> QED
    BY <1>6, <2>1, OtherDrives, StoresFresh DEF Drives, NoStray
<1>7. CASE Reopens
  <2>1. QueueInv'
    BY <1>7 DEF Reopens, QueueInv, OneDrive, DriveAt, Started
  <2> QED
    BY <1>7, <2>1, ReopensFresh DEF NoStray
<1> QED
  BY <1>1, <1>2, <1>3, <1>4, <1>5, <1>6, <1>7 DEF Next, Transacts

\* No occurrence is queued twice by a process, none that the log it opened
\* counts as delivered, none of a reminder that a tool reported as gone and
\* none after the dispose (runtime.ts: the claim reads fold and clock again
\* and queues before it dispatches, and a failed append stops the runtime).
THEOREM NoReminderStrays == Spec => NoStrayReminder
<1>1. Init => FreshInv /\ QueueInv
  BY InitFresh
<1>2. Inv /\ FreshInv /\ QueueInv /\ [Next]_vars => (FreshInv /\ QueueInv)'
  BY NextFresh
<1>3. Inv /\ FreshInv /\ QueueInv /\ [Next]_vars => [NoStray]_vars
  BY NextFresh
<1>4. Spec => [][NoStray]_vars
  BY <1>1, <1>2, <1>3, InvAlways, PTL DEF Spec
<1> QED
  BY <1>4 DEF NoStrayReminder, NoStray
=============================================================================
