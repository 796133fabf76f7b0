---------------------------- MODULE LogFile_proofs ----------------------------
(***************************************************************************)
(* Theorems about the file of a session and its lease, for every set of    *)
(* processes, every number of lock files, handles, events and storage      *)
(* errors, both encodings, and crashes anywhere: two processes never both  *)
(* hold the lease, nothing that was acknowledged is lost, and what a       *)
(* handle counts as stored is stored.                                      *)
(*                                                                         *)
(* The lease first (LeaseInv).  It makes whoever has the log open the only *)
(* one that changes the file.  A file that no error has spoiled is Good:   *)
(* its records are numbered from 1 and only its last piece may be cut, so  *)
(* that it decodes to its rows (GoodDecodes).  Where a handle is in a      *)
(* write says what it still adds to the rows on disk (Phase), and what was *)
(* acknowledged is in the pieces before a cut (FileInv).                   *)
(***************************************************************************)
EXTENDS LogFile, TLAPS, SequenceTheorems, FiniteSetTheorems

\* Inodes are numbered as they are created.
Inodes ==
    /\ inodes \in 0..MaxInodes /\ path \in 0..inodes
    /\ lock \in [1..MaxInodes -> Procs \cup {Nobody}]
    /\ fd \in [Procs -> 0..inodes]
    /\ DOMAIN at = Procs

\* A process that has locked its inode owns it until it lets go, and the
\* holder's inode stays at the path: only a holder removes it, and a file is
\* created only where there is none.
LockOwned(p) ==
    /\ at[p] \in {"opened", "locked", "held", "unlinked"} => fd[p] # 0
    /\ at[p] \in {"locked", "held", "unlinked"} => lock[fd[p]] = p
    /\ Held(p) => fd[p] = path

LeaseInv == Inodes /\ \A p \in Procs : LockOwned(p)

\* Whatever touches the lease.
LeaseStep(p) ==
    \/ Acquire(p) \/ LeaseSteps(p) \/ AcquireFails(p) \/ Release(p)
    \/ Unlink(p) \/ Answered(p) \/ LosesAll(p)

----------------------------------------------------------------------------

\* The holder's inode is at the path, and an inode has one owner.
LEMMA Exclusive == LeaseInv => OneWriter
  BY DEF LeaseInv, LockOwned, OneWriter, Held

LEMMA InitLease == Init => LeaseInv
  BY InodesAssumption DEF Init, LeaseInit, LeaseInv, Inodes, LockOwned, Held

\* A process that closes its descriptor takes no lock from another.
LEMMA CloseStep ==
  ASSUME LeaseInv, NEW p \in Procs, NEW to \in {"idle", "opening", "refused"},
         CloseFd(p, to), UNCHANGED <<path, inodes>>
  PROVE  LeaseInv'
<1> USE InodesAssumption, NobodyAssumption DEF LeaseInv, Inodes
<1>1. lock' \in [1..MaxInodes -> Procs \cup {Nobody}] /\ fd' \in [Procs -> 0..inodes']
  BY DEF CloseFd, Closed
<1>2. ASSUME NEW q \in Procs PROVE LockOwned(q)'
  <2>1. CASE q = p
    BY <2>1 DEF CloseFd, LockOwned, Held
  <2>2. CASE q # p
    <3>1. fd'[q] = fd[q] /\ at'[q] = at[q] /\ fd[q] \in 0..MaxInodes
      BY <2>2 DEF CloseFd
    <3>2. (fd[q] # 0 /\ lock[fd[q]] = q) => lock'[fd[q]] = q
      BY <2>2, <3>1 DEF CloseFd, Closed
    <3> QED
      BY <3>1, <3>2 DEF LockOwned, Held
  <2> QED
    BY <2>1, <2>2
<1> QED
  BY <1>1, <1>2 DEF CloseFd

\* Opening and locking, wherever the file at the path has gone meanwhile.
LEMMA OpenStep ==
  ASSUME LeaseInv, NEW p \in Procs, OpenLockFile(p)
  PROVE  LeaseInv'
<1> USE InodesAssumption DEF LeaseInv, Inodes, OpenLockFile
<1>1. inodes' \in 0..MaxInodes /\ path' \in 1..inodes' /\ inodes <= inodes'
  OBVIOUS
<1>2. fd' \in [Procs -> 0..inodes']
  BY <1>1
<1>3. ASSUME NEW q \in Procs PROVE LockOwned(q)'
  BY <1>1 DEF LockOwned, Held
<1> QED
  BY <1>1, <1>2, <1>3

LEMMA LockStep ==
  ASSUME LeaseInv, NEW p \in Procs, Lock(p)
  PROVE  LeaseInv'
<1> USE InodesAssumption, NobodyAssumption DEF LeaseInv, Inodes, Lock
<1>1. fd[p] \in 1..MaxInodes
  BY DEF LockOwned
<1>2. lock' \in [1..MaxInodes -> Procs \cup {Nobody}]
  BY <1>1
<1>3. ASSUME NEW q \in Procs PROVE LockOwned(q)'
  <2>1. CASE q = p
    BY <1>1, <2>1 DEF LockOwned, Held
  <2>2. CASE q # p
    BY <1>1, <2>2 DEF LockOwned, Held
  <2> QED
    BY <2>1, <2>2
<1> QED
  BY <1>2, <1>3

\* The holder that removes the file is the only one.
LEMMA UnlinkStep ==
  ASSUME LeaseInv, NEW p \in Procs, Unlink(p)
  PROVE  LeaseInv'
<1>1. \A q \in Procs : Held(q) => q = p
  BY Exclusive DEF OneWriter, Unlink
<1> QED
  BY <1>1 DEF LeaseInv, Inodes, LockOwned, Held, Unlink

LEMMA StepOfLease ==
  ASSUME LeaseInv, NEW p \in Procs, LeaseStep(p)
  PROVE  LeaseInv'
<1>1. CASE Acquire(p)
  BY <1>1 DEF Acquire, LeaseInv, Inodes, LockOwned, Held
<1>2. CASE Verified(p)
  BY <1>2 DEF Verified, SameFile, LeaseInv, Inodes, LockOwned, Held
<1>3. CASE Answered(p)
  BY <1>3 DEF Answered, LeaseInv, Inodes, LockOwned, Held
<1>4. CASE Contended(p) \/ Orphaned(p) \/ AcquireFails(p) \/ Release(p) \/ LosesAll(p)
  BY <1>4, CloseStep DEF Contended, Orphaned, AcquireFails, Release, LosesAll
<1> QED
  BY <1>1, <1>2, <1>3, <1>4, OpenStep, LockStep, UnlinkStep DEF LeaseStep, LeaseSteps

\* The handle uses the lease only through its operations.
LEMMA LeaseOnly ==
  ASSUME [Next]_vars
  PROVE  UNCHANGED leaseVars \/ \E p \in Procs : LeaseStep(p)
<1> USE DEF LeaseStep
<1>1. ASSUME NEW p \in Procs, Leases(p) \/ LeaseFault(p) PROVE LeaseStep(p)
  BY <1>1 DEF Leases, LeaseFault
<1>2. ASSUME NEW p \in Procs, Handles(p) PROVE UNCHANGED leaseVars \/ LeaseStep(p)
  BY <1>2 DEF Handles, Create, Open, Load, Refused, Close, Leave, Left, Die
<1>3. ASSUME NEW p \in Procs, Persists(p) PROVE UNCHANGED leaseVars \/ LeaseStep(p)
  BY <1>3 DEF Persists, Persist, Publish, PublishFails, Repair, WriteStarts, WriteSynced,
              WriteFails, WriteResolves, CloseFails
<1> QED
  BY <1>1, <1>2, <1>3 DEF Next, vars

LEMMA LeaseKept == LeaseInv /\ [Next]_vars => LeaseInv'
<1> SUFFICES ASSUME LeaseInv, [Next]_vars PROVE LeaseInv'
  OBVIOUS
<1>1. CASE UNCHANGED leaseVars
  BY <1>1 DEF leaseVars, LeaseInv, Inodes, LockOwned, Held
<1> QED
  BY <1>1, LeaseOnly, StepOfLease

\* Two processes never both hold the write lease of a session, however opens,
\* locks, crashes, storage errors and removals of the lock file interleave:
\* the comparison of inodes after flock is enough.
THEOREM LeaseIsExclusive == Spec => []OneWriter
  BY LeaseKept, InitLease, Exclusive, PTL DEF Spec

----------------------------------------------------------------------------
(* Joining sequences.                                                      *)

\* A set of natural numbers that is not empty has a least element.
LEMMA Smallest ==
  ASSUME NEW S, S \subseteq Nat, S # {}
  PROVE  \E m \in S : \A k \in S : m <= k
<1>1. PICK n \in S : TRUE
  OBVIOUS
<1> DEFINE F == {T \in SUBSET (0..n) : \E k \in S : T = 0..k}
<1>2. IsWellFoundedOn(StrictSubsetOrdering(0..n), FiniteSubsetsOf(0..n))
  BY FS_StrictSubsetOrderingWellFounded
<1>3. IsFiniteSet(0..n)
  BY FS_Interval
<1>4. F \subseteq FiniteSubsetsOf(0..n) /\ F # {}
  BY <1>3, FS_FiniteSubsetsOfFinite
<1>5. PICK T \in F : \A U \in F : ~(<<U, T>> \in StrictSubsetOrdering(0..n))
  <2> HIDE DEF F
  <2> QED
    BY <1>2, <1>4, WFMin
<1>6. PICK m \in S : T = 0..m /\ m <= n
  <2>1. PICK k \in S : T = 0..k /\ T \subseteq 0..n
    OBVIOUS
  <2> QED
    BY <2>1
<1>7. ASSUME NEW k \in S, k < m PROVE FALSE
  <2>1. 0..k \in F /\ 0..k \subseteq T /\ 0..k # T
    BY <1>6, <1>7
  <2>2. <<0..k, T>> \in StrictSubsetOrdering(0..n)
    BY <2>1 DEF StrictSubsetOrdering
  <2> QED
    BY <1>5, <2>1, <2>2
<1> QED
  BY <1>7

\* What FlattenSeq computes, up to the n-th sequence of q.
Joins(f, q, n) ==
    f = [i \in 1..n |-> IF i = 1 THEN q[i] ELSE f[i - 1] \o q[i]]

LEMMA JoinsFacts ==
  ASSUME NEW f, NEW q, NEW n \in Nat, Joins(f, q, n)
  PROVE  /\ DOMAIN f = 1..n
         /\ \A i \in 1..n : f[i] = IF i = 1 THEN q[i] ELSE f[i - 1] \o q[i]
  BY Zenon DEF Joins

Agree(q, r, n) == \A i \in 1..n : q[i] = r[i]

LEMMA JoinsUnique ==
  ASSUME NEW q, NEW r, NEW n \in Nat, NEW m \in Nat, NEW f, NEW g,
         Joins(f, q, n), Joins(g, r, m), n <= m, Agree(q, r, n)
  PROVE  Agree(f, g, n)
<1> DEFINE Bad == {i \in 1..n : f[i] # g[i]}
<1> SUFFICES ASSUME Bad # {} PROVE FALSE
  BY DEF Agree
<1>0. Bad \subseteq Nat
  OBVIOUS
<1>1. PICK k \in Bad : \A i \in Bad : k <= i
  <2> HIDE DEF Bad
  <2> QED
    BY <1>0, Smallest
<1>2. /\ k \in 1..n /\ k \in 1..m /\ q[k] = r[k]
      /\ f[k] = (IF k = 1 THEN q[k] ELSE f[k - 1] \o q[k])
      /\ g[k] = (IF k = 1 THEN r[k] ELSE g[k - 1] \o r[k])
  BY JoinsFacts DEF Agree
<1>3. k # 1 => k - 1 \in 1..n /\ f[k - 1] = g[k - 1]
  BY <1>1, <1>2
<1> QED
  BY <1>1, <1>2, <1>3

LEMMA JoinsExists ==
  ASSUME NEW S, NEW q \in Seq(Seq(S))
  PROVE  \A n \in 1..Len(q) : \E f : Joins(f, q, n) /\ f[n] \in Seq(S)
<1> DEFINE Bad == {n \in 1..Len(q) : ~\E f : Joins(f, q, n) /\ f[n] \in Seq(S)}
<1> SUFFICES ASSUME Bad # {} PROVE FALSE
  OBVIOUS
<1>0. Bad \subseteq Nat
  OBVIOUS
<1>1. PICK n \in Bad : \A i \in Bad : n <= i
  <2> HIDE DEF Bad
  <2> QED
    BY <1>0, Smallest
<1>2. n \in 1..Len(q) /\ q[n] \in Seq(S)
  OBVIOUS
<1>3. CASE n = 1
  <2> DEFINE f == [i \in 1..1 |-> q[i]]
  <2>1. Joins(f, q, 1) /\ f[1] = q[1]
    BY DEF Joins
  <2> QED
    BY <1>1, <1>2, <1>3, <2>1
<1>4. CASE n # 1
  <2>0. n - 1 \in 1..Len(q) /\ n - 1 \in Nat /\ n \in Nat /\ ~(n <= n - 1)
    <3> HIDE DEF Bad
    <3>1. Len(q) \in Nat
      OBVIOUS
    <3> QED
      BY <1>2, <1>4, <3>1
  <2>1. n - 1 \notin Bad
    <3> HIDE DEF Bad
    <3> QED
      BY <1>1, <2>0
  <2>2. PICK f : Joins(f, q, n - 1) /\ f[n - 1] \in Seq(S)
    BY <2>0, <2>1
  <2> DEFINE g == [i \in 1..n |-> IF i = n THEN f[n - 1] \o q[n] ELSE f[i]]
  <2>3. \A i \in 1..n : g[i] = IF i = 1 THEN q[i] ELSE g[i - 1] \o q[i]
    <3> SUFFICES ASSUME NEW i \in 1..n PROVE g[i] = IF i = 1 THEN q[i] ELSE g[i - 1] \o q[i]
      OBVIOUS
    <3>1. CASE i = n
      <4>1. n - 1 \in 1..n /\ n \in 1..n /\ n - 1 # n
        BY <1>4, <2>0
      <4>2. g[n] = f[n - 1] \o q[n] /\ g[n - 1] = f[n - 1]
        BY <4>1, Zenon
      <4> HIDE DEF g, Bad
      <4> QED
        BY <1>4, <3>1, <4>2
    <3>2. CASE i # n
      <4>1. i \in 1..(n - 1) /\ g[i] = f[i] /\ (i # 1 => i - 1 \in 1..n /\ g[i - 1] = f[i - 1])
        BY <2>0, <3>2
      <4>2. f[i] = IF i = 1 THEN q[i] ELSE f[i - 1] \o q[i]
        BY <2>0, <2>2, <4>1, JoinsFacts
      <4> QED
        BY <4>1, <4>2
    <3> QED
      BY <3>1, <3>2
  <2>4. Joins(g, q, n)
    BY <2>3 DEF Joins
  <2>5. g[n] \in Seq(S)
    BY <1>2, <2>0, <2>2, ConcatProperties
  <2> QED
    BY <1>1, <2>4, <2>5
<1> QED
  BY <1>3, <1>4

LEMMA FlattenIs ==
  ASSUME NEW S, NEW q \in Seq(Seq(S)), q # <<>>
  PROVE  \E f : Joins(f, q, Len(q)) /\ FlattenSeq(q) = f[Len(q)] /\ f[Len(q)] \in Seq(S)
<1>1. Len(q) \in 1..Len(q) /\ Len(q) # 0 /\ Len(q) \in Nat
  OBVIOUS
<1> DEFINE n == Len(q)
           h == CHOOSE f : Joins(f, q, n)
<1>2. PICK f : Joins(f, q, n) /\ f[n] \in Seq(S)
  BY <1>1, JoinsExists
<1>3. Joins(h, q, n)
  BY <1>2
<1>4. h[n] = f[n]
  <2> HIDE DEF n, h
  <2>1. n \in Nat /\ n <= n /\ n \in 1..n
    BY <1>1 DEF n
  <2>2. Agree(h, f, n)
    BY <1>2, <1>3, <2>1, JoinsUnique DEF Agree
  <2> QED
    BY <2>1, <2>2 DEF Agree
<1>5. FlattenSeq(q) = h[n]
  BY <1>1 DEF FlattenSeq, Joins
<1> QED
  BY <1>2, <1>3, <1>4, <1>5

LEMMA FlattenEmpty == FlattenSeq(<<>>) = <<>>
  BY DEF FlattenSeq

\* The last step of a join.
LEMMA FlattenStep ==
  ASSUME NEW S, NEW q \in Seq(Seq(S)), q # <<>>, NEW r \in Seq(Seq(S)),
         Len(r) = Len(q) + 1, \A i \in 1..Len(q) : q[i] = r[i]
  PROVE  FlattenSeq(r) = FlattenSeq(q) \o r[Len(r)]
<1>1. PICK n \in Nat : n = Len(q) /\ n \in 1..n
  OBVIOUS
<1>2. PICK m \in Nat : m = Len(r) /\ m = n + 1 /\ n <= m /\ m \in 1..m /\ m # 1 /\ m - 1 = n
  BY <1>1
<1>3. r # <<>>
  BY <1>2
<1>4. PICK f : Joins(f, q, n) /\ FlattenSeq(q) = f[n]
  BY <1>1, FlattenIs
<1>5. PICK g : Joins(g, r, m) /\ FlattenSeq(r) = g[m]
  BY <1>2, <1>3, FlattenIs
<1>6. Agree(q, r, n)
  BY <1>1 DEF Agree
<1>7. n <= m /\ Joins(f, q, n) /\ Joins(g, r, m)
  BY <1>2, <1>4, <1>5
<1>8. Agree(f, g, n)
  BY <1>6, <1>7, JoinsUnique
<1>9. \A i \in 1..m : g[i] = IF i = 1 THEN r[i] ELSE g[i - 1] \o r[i]
  BY <1>7, JoinsFacts
<1>10. g[m] = g[n] \o r[m]
  BY <1>2, <1>9
<1> QED
  BY <1>1, <1>2, <1>4, <1>5, <1>8, <1>10 DEF Agree

\* A sequence that is added is joined at the end.
LEMMA FlattenAppend ==
  ASSUME NEW S, NEW q \in Seq(Seq(S)), NEW x \in Seq(S)
  PROVE  /\ FlattenSeq(Append(q, x)) = FlattenSeq(q) \o x
         /\ FlattenSeq(q) \in Seq(S)
<1>0. Append(q, x) \in Seq(Seq(S))
  BY AppendProperties
<1>1. PICK r \in Seq(Seq(S)) : r = Append(q, x)
  BY <1>0
<1>2. r # <<>> /\ Len(r) = Len(q) + 1 /\ r[Len(r)] = x /\ \A i \in 1..Len(q) : q[i] = r[i]
  BY <1>1, AppendProperties
<1>3. CASE q = <<>>
  <2>1. <<>> \o x = x /\ <<>> \in Seq(S) /\ Len(r) = 1 /\ 1 \in 1..1 /\ 1 \in Nat
    BY <1>2, <1>3
  <2>2. PICK g : Joins(g, r, 1) /\ FlattenSeq(r) = g[1]
    BY <1>2, <2>1, FlattenIs
  <2>3. g[1] = r[1]
    BY <2>1, <2>2, JoinsFacts
  <2> QED
    BY <1>1, <1>2, <1>3, <2>1, <2>2, <2>3, FlattenEmpty
<1>4. CASE q # <<>>
  <2>1. FlattenSeq(q) \in Seq(S)
    BY <1>4, FlattenIs
  <2> QED
    BY <1>1, <1>2, <1>4, <2>1, FlattenStep
<1> QED
  BY <1>3, <1>4

----------------------------------------------------------------------------
(* Records in sequence.                                                    *)

\* The rows are numbered on from n.
Numbered(rows, n) == rows \in Seq(Event) /\ \A i \in DOMAIN rows : rows[i].seq = n + i

LEMMA Numbers ==
  ASSUME NEW r \in Seq(Event)
  PROVE  /\ InSequence(r) <=> Numbered(r, 0)
         /\ InSequence(<<>>) /\ <<>> \in Seq(Event)
<1>1. \A i \in DOMAIN r : 0 + i = i
  BY LenProperties
<1> QED
  BY <1>1 DEF InSequence, Numbered

LEMMA NumberedOn ==
  ASSUME NEW r \in Seq(Event), NEW s \in Seq(Event)
  PROVE  /\ r \o s \in Seq(Event)
         /\ InSequence(r \o s) <=> InSequence(r) /\ Numbered(s, Len(r))
<1>1. /\ r \o s \in Seq(Event) /\ Len(r \o s) = Len(r) + Len(s)
      /\ \A i \in 1..Len(r) + Len(s) : (r \o s)[i] = IF i <= Len(r) THEN r[i] ELSE s[i - Len(r)]
  BY ConcatProperties
<1>2. PICK n \in Nat, m \in Nat : n = Len(r) /\ m = Len(s)
  BY LenProperties
<1>3. DOMAIN r = 1..n /\ DOMAIN s = 1..m /\ DOMAIN (r \o s) = 1..(n + m)
  BY <1>1, <1>2, LenProperties
<1> DEFINE t == r \o s
<1>4. \A i \in 1..n : t[i] = r[i] /\ i \in 1..(n + m)
  BY <1>1, <1>2
<1>5. \A i \in 1..m : t[n + i] = s[i] /\ n + i \in 1..(n + m)
  <2> SUFFICES ASSUME NEW i \in 1..m PROVE t[n + i] = s[i] /\ n + i \in 1..(n + m)
    OBVIOUS
  <2>1. n + i \in 1..(n + m) /\ ~(n + i <= n) /\ (n + i) - n = i
    BY <1>2
  <2> QED
    BY <1>1, <1>2, <2>1
<1>6. DOMAIN t = 1..(n + m)
  BY <1>3
<1> HIDE DEF t
<1>7. ASSUME InSequence(t) PROVE InSequence(r) /\ Numbered(s, n)
  BY <1>3, <1>4, <1>5, <1>6, <1>7 DEF InSequence, Numbered
<1>8. ASSUME InSequence(r), Numbered(s, n) PROVE InSequence(t)
  <2> SUFFICES ASSUME NEW i \in 1..(n + m) PROVE t[i].seq = i
    BY <1>6 DEF InSequence
  <2>1. CASE i <= n
    BY <1>3, <1>4, <1>8, <2>1 DEF InSequence
  <2>2. CASE ~(i <= n)
    <3>1. i - n \in 1..m /\ n + (i - n) = i
      BY <2>2
    <3> QED
      BY <1>3, <1>5, <1>8, <3>1 DEF Numbered
  <2> QED
    BY <2>1, <2>2
<1> QED
  BY <1>1, <1>2, <1>7, <1>8 DEF t

LEMMA NumberedCut ==
  ASSUME NEW s \in Seq(Event), NEW n \in Nat, NEW k \in 0..Len(s)
  PROVE  /\ SubSeq(s, 1, k) \in Seq(Event)
         /\ Numbered(s, n) => Numbered(SubSeq(s, 1, k), n)
<1>1. PICK m \in Nat : m = Len(s) /\ DOMAIN s = 1..m /\ k \in 0..m
  BY LenProperties
<1>2. \A i \in 1..k : s[i] \in Event
  BY <1>1, ElementOfSeq
<1>3. k \in Int /\ 1 \in Int /\ k - 1 + 1 = k /\ (1 <= k => k - 1 + 1 = k)
  BY <1>1
<1>4. /\ SubSeq(s, 1, k) \in Seq(Event)
      /\ \A i \in 1..k : SubSeq(s, 1, k)[i] = s[i]
      /\ Len(SubSeq(s, 1, k)) = k
  <2>1. /\ SubSeq(s, 1, k) \in Seq(Event)
        /\ Len(SubSeq(s, 1, k)) = IF 1 <= k THEN k - 1 + 1 ELSE 0
        /\ \A i \in 1..k - 1 + 1 : SubSeq(s, 1, k)[i] = s[1 + i - 1]
    BY <1>2, <1>3, SubSeqProperties
  <2>2. \A i \in 1..k : 1 + i - 1 = i
    BY <1>1
  <2> QED
    BY <1>1, <1>3, <2>1, <2>2
<1>5. DOMAIN SubSeq(s, 1, k) = 1..k
  BY <1>4, LenProperties
<1>6. \A i \in 1..k : i \in 1..m
  BY <1>1
<1> QED
  BY <1>1, <1>4, <1>5, <1>6 DEF Numbered

LEMMA PrefixFacts ==
  ASSUME NEW s \in Seq(Event), NEW t \in Seq(Event)
  PROVE  /\ IsPrefix(s, s) /\ IsPrefix(<<>>, s)
         /\ IsPrefix(s, s \o t)
<1>1. Len(s) \in Nat /\ Len(t) \in Nat
  BY LenProperties
<1>2. IsPrefix(s, s)
  BY <1>1 DEF IsPrefix
<1>3. IsPrefix(<<>>, s)
  <2>1. SubSeq(s, 1, 0) = <<>> /\ SubSeq(<<>>, 1, 0) = <<>> /\ Len(<<>>) = 0
    BY SubSeqEmpty
  <2> QED
    BY <1>1, <2>1 DEF IsPrefix
<1>4. IsPrefix(s, s \o t)
  <2>1. Len(s) <= Len(s \o t)
    BY <1>1, ConcatProperties
  <2>2. CASE s = <<>>
    <3>1. s \o t \in Seq(Event)
      BY ConcatProperties
    <3>2. SubSeq(s \o t, 1, 0) = <<>> /\ SubSeq(<<>>, 1, 0) = <<>> /\ Len(<<>>) = 0
      BY SubSeqEmpty
    <3> QED
      BY <2>1, <2>2, <3>2 DEF IsPrefix
  <2>3. CASE s # <<>>
    <3>1. 1 \in 1..Len(s) /\ Len(s) \in 1..Len(s)
      BY <1>1, <2>3, EmptySeq
    <3>2. SubSeq(s \o t, 1, Len(s)) = SubSeq(s, 1, Len(s))
      BY <3>1, SubSeqOfConcat1
    <3> QED
      BY <2>1, <3>2 DEF IsPrefix
  <2> QED
    BY <2>2, <2>3
<1> QED
  BY <1>2, <1>3, <1>4

LEMMA PrefixOn ==
  ASSUME NEW s \in Seq(Event), NEW t \in Seq(Event), NEW u \in Seq(Event), IsPrefix(s, t)
  PROVE  IsPrefix(s, t \o u)
<1>1. Len(s) \in Nat /\ Len(t) \in Nat /\ Len(s) <= Len(t) /\ SubSeq(s, 1, Len(s)) = SubSeq(t, 1, Len(s))
  BY LenProperties DEF IsPrefix
<1>2. CASE s = <<>>
  BY <1>2, ConcatProperties, PrefixFacts
<1>3. CASE s # <<>>
  <2>1. 1 \in 1..Len(t) /\ Len(s) \in 1..Len(t)
    BY <1>1, <1>3, EmptySeq
  <2>2. SubSeq(t \o u, 1, Len(s)) = SubSeq(t, 1, Len(s))
    BY <2>1, SubSeqOfConcat1
  <2>3. Len(t \o u) = Len(t) + Len(u) /\ Len(u) \in Nat
    BY ConcatProperties, LenProperties
  <2> QED
    BY <1>1, <2>2, <2>3 DEF IsPrefix
<1> QED
  BY <1>2, <1>3

\* What follows a prefix.
LEMMA RestOf ==
  ASSUME NEW r \in Seq(Event), NEW s \in Seq(Event)
  PROVE  SubSeq(r \o s, Len(r) + 1, Len(r \o s)) = s
<1>1. PICK n \in Nat, m \in Nat : n = Len(r) /\ m = Len(s)
  BY LenProperties
<1>2. Len(r \o s) = n + m
  BY <1>1, ConcatProperties
<1>3. CASE m = 0
  <2>1. s = <<>>
    BY <1>1, <1>3, EmptySeq
  <2>2. n + 1 \in Int /\ n \in Int /\ n < n + 1 /\ n + m = n
    BY <1>1, <1>3
  <2>3. SubSeq(r \o s, n + 1, n) = <<>>
    BY <2>2, SubSeqEmpty
  <2> QED
    BY <1>1, <1>2, <2>1, <2>2, <2>3
<1>4. CASE m # 0
  <2>1. n + 1 \in Len(r) + 1 .. Len(r) + Len(s) /\ n + m \in Len(r) + 1 .. Len(r) + Len(s)
    BY <1>1, <1>4
  <2>2. SubSeq(r \o s, n + 1, n + m) = SubSeq(s, n + 1 - Len(r), n + m - Len(r))
    BY <2>1, SubSeqOfConcat2
  <2>3. n + 1 - Len(r) = 1 /\ n + m - Len(r) = Len(s)
    BY <1>1
  <2> QED
    BY <1>1, <1>2, <2>2, <2>3, SubSeqFull
<1> QED
  BY <1>3, <1>4

----------------------------------------------------------------------------
(* What the file holds.                                                    *)

Piece == [rows : Seq(Event), whole : BOOLEAN]

\* The rows of each piece.
Parts(pieces) == [i \in DOMAIN pieces |-> pieces[i].rows]

LEMMA PartsFacts ==
  ASSUME NEW g \in Seq(Piece)
  PROVE  /\ Parts(g) \in Seq(Seq(Event)) /\ Len(Parts(g)) = Len(g) /\ DOMAIN Parts(g) = DOMAIN g
         /\ \A i \in DOMAIN g : Parts(g)[i] = g[i].rows
<1>1. PICK n \in Nat : n = Len(g) /\ DOMAIN g = 1..n
  BY LenProperties
<1>2. \A i \in 1..n : g[i] \in Piece /\ g[i].rows \in Seq(Event)
  <2> SUFFICES ASSUME NEW i \in 1..n PROVE g[i] \in Piece /\ g[i].rows \in Seq(Event)
    OBVIOUS
  <2>1. g[i] \in Piece
    BY <1>1, ElementOfSeq
  <2> QED
    BY <2>1 DEF Piece
<1>3. Parts(g) \in [1..n -> Seq(Event)]
  BY <1>1, <1>2 DEF Parts
<1>4. Parts(g) \in Seq(Seq(Event)) /\ DOMAIN Parts(g) = 1..n
  BY <1>3, SeqDef
<1>5. Len(Parts(g)) = n
  BY <1>4, LenProperties
<1> QED
  BY <1>1, <1>4, <1>5 DEF Parts

LEMMA RowsOfNone == Rows(<<>>) = <<>> /\ <<>> \in Seq(Piece)
<1>1. DOMAIN <<>> = {} /\ <<>> \in Seq(Piece)
  BY LenProperties, EmptySeq
<1>2. [i \in DOMAIN <<>> |-> <<>>[i].rows] = <<>>
  BY <1>1, PartsFacts, EmptySeq, SeqEqual DEF Parts
<1> QED
  BY <1>1, <1>2, FlattenEmpty DEF Rows

\* A piece that is appended adds its rows.
LEMMA RowsOfAppend ==
  ASSUME NEW g \in Seq(Piece), NEW x \in Piece
  PROVE  Rows(Append(g, x)) = Rows(g) \o x.rows /\ Rows(g) \in Seq(Event) /\ x.rows \in Seq(Event)
<1>1. PICK h \in Seq(Piece) : h = Append(g, x)
  BY AppendProperties
<1>2. PICK n \in Nat : n = Len(g) /\ DOMAIN g = 1..n
  BY LenProperties
<1>3. /\ Len(h) = n + 1 /\ DOMAIN h = 1..(n + 1) /\ h[n + 1] = x
      /\ \A i \in 1..n : h[i] = g[i]
  BY <1>1, <1>2, AppendProperties, LenProperties
<1>4. x.rows \in Seq(Event)
  BY DEF Piece
<1>5. /\ Parts(g) \in Seq(Seq(Event)) /\ Len(Parts(g)) = n /\ \A i \in 1..n : Parts(g)[i] = g[i].rows
      /\ Parts(h) \in Seq(Seq(Event)) /\ Len(Parts(h)) = n + 1
      /\ \A i \in 1..(n + 1) : Parts(h)[i] = h[i].rows
  BY <1>2, <1>3, PartsFacts
<1>6. Parts(h) = Append(Parts(g), x.rows)
  <2>1. PICK q : q = Append(Parts(g), x.rows)
    OBVIOUS
  <2>2. /\ q \in Seq(Seq(Event)) /\ Len(q) = n + 1 /\ q[n + 1] = x.rows
        /\ \A i \in 1..n : q[i] = g[i].rows
    BY <1>4, <1>5, <2>1, AppendProperties
  <2>3. \A i \in 1..(n + 1) : Parts(h)[i] = q[i]
    <3> SUFFICES ASSUME NEW i \in 1..(n + 1) PROVE Parts(h)[i] = q[i]
      OBVIOUS
    <3>1. i \in 1..n \/ i = n + 1
      OBVIOUS
    <3> QED
      BY <1>3, <1>5, <2>2, <3>1
  <2>4. Parts(h) = q
    BY <1>5, <2>2, <2>3, SeqEqual
  <2> QED
    BY <2>1, <2>4
<1>7. FlattenSeq(Parts(h)) = FlattenSeq(Parts(g)) \o x.rows /\ FlattenSeq(Parts(g)) \in Seq(Event)
  BY <1>4, <1>5, <1>6, FlattenAppend
<1> QED
  BY <1>1, <1>4, <1>7 DEF Rows, Parts

LEMMA RowsType ==
  ASSUME NEW g \in Seq(Piece)
  PROVE  Rows(g) \in Seq(Event)
<1> DEFINE x == [rows |-> <<>>, whole |-> TRUE]
<1>1. x \in Piece
  BY EmptySeq DEF Piece
<1> QED
  BY <1>1, RowsOfAppend

\* Only the last piece may be cut, and the records are numbered from 1.
Good(pieces) ==
    /\ pieces \in Seq(Piece)
    /\ \A i \in DOMAIN pieces : i < Len(pieces) => pieces[i].whole
    /\ InSequence(Rows(pieces))

\* The pieces that no crash can take back.
Wholes(pieces) == IF CutLast(pieces) THEN Front(pieces) ELSE pieces

LEMMA GoodEmpty == Good(<<>>) /\ ~CutLast(<<>>)
<1>1. <<>> \in Seq(Piece) /\ DOMAIN <<>> = {}
  BY RowsOfNone, LenProperties, EmptySeq
<1>2. InSequence(<<>>)
  BY EmptySeq, Numbers
<1>3. InSequence(Rows(<<>>))
  BY <1>2, RowsOfNone
<1> QED
  BY <1>1, <1>3, Zenon DEF Good, CutLast

\* Cutting what was appended gives the file back.
LEMMA CutBack ==
  ASSUME NEW g \in Seq(Piece)
  PROVE  /\ SubSeq(g, 1, Len(g)) = g
         /\ \A x \in Piece : SubSeq(Append(g, x), 1, Len(g)) = g
<1>1. SubSeq(g, 1, Len(g)) = g
  BY SubSeqFull
<1>2. ASSUME NEW x \in Piece PROVE SubSeq(Append(g, x), 1, Len(g)) = g
  <2>1. PICK h \in Seq(Piece) : h = Append(g, x)
    BY AppendProperties
  <2>2. PICK n \in Nat : n = Len(g) /\ DOMAIN g = 1..n
    BY LenProperties
  <2>3. \A i \in 1..n : h[i] = g[i] /\ h[i] \in Piece
    BY <2>1, <2>2, AppendProperties, ElementOfSeq
  <2>4. n \in Int /\ 1 \in Int /\ n - 1 + 1 = n
    BY <2>2
  <2>5. /\ SubSeq(h, 1, n) \in Seq(Piece)
        /\ Len(SubSeq(h, 1, n)) = IF 1 <= n THEN n - 1 + 1 ELSE 0
        /\ \A i \in 1..n - 1 + 1 : SubSeq(h, 1, n)[i] = h[1 + i - 1]
    BY <2>3, <2>4, SubSeqProperties
  <2>6. Len(SubSeq(h, 1, n)) = n /\ \A i \in 1..n : SubSeq(h, 1, n)[i] = g[i]
    <3>1. \A i \in 1..n : 1 + i - 1 = i
      BY <2>2
    <3> QED
      BY <2>2, <2>3, <2>4, <2>5, <3>1
  <2>7. SubSeq(h, 1, n) = g
    BY <2>2, <2>5, <2>6, SeqEqual
  <2> QED
    BY <2>1, <2>2, <2>7
<1> QED
  BY <1>1, <1>2

LEMMA GoodAppend ==
  ASSUME NEW g, Good(g), ~CutLast(g), NEW x \in Piece, InSequence(Rows(g) \o x.rows)
  PROVE  /\ Good(Append(g, x)) /\ Rows(Append(g, x)) = Rows(g) \o x.rows
         /\ CutLast(Append(g, x)) = ~x.whole /\ Last(Append(g, x)) = x /\ Front(Append(g, x)) = g
<1>1. PICK h \in Seq(Piece) : h = Append(g, x)
  BY AppendProperties DEF Good
<1>2. PICK n \in Nat : n = Len(g) /\ DOMAIN g = 1..n
  BY LenProperties DEF Good
<1>3. /\ Len(h) = n + 1 /\ DOMAIN h = 1..(n + 1) /\ h[n + 1] = x /\ h # <<>>
      /\ \A i \in 1..n : h[i] = g[i]
  BY <1>1, <1>2, AppendProperties, LenProperties DEF Good
<1>4. Rows(h) = Rows(g) \o x.rows
  BY <1>1, RowsOfAppend DEF Good
<1>5. \A i \in 1..n : g[i].whole
  <2> SUFFICES ASSUME NEW i \in 1..n PROVE g[i].whole
    OBVIOUS
  <2>1. CASE i < n
    BY <1>2, <2>1 DEF Good
  <2>2. CASE i = n
    <3>1. g # <<>> /\ Last(g) = g[n]
      BY <1>2, <2>2, EmptySeq DEF Last
    <3> QED
      BY <2>2, <3>1 DEF CutLast
  <2> QED
    BY <2>1, <2>2
<1>6. \A i \in DOMAIN h : i < Len(h) => h[i].whole
  <2> SUFFICES ASSUME NEW i \in 1..(n + 1), i < n + 1 PROVE h[i].whole
    BY <1>3
  <2>1. i \in 1..n
    OBVIOUS
  <2> QED
    BY <1>3, <1>5, <2>1
<1>7. Last(h) = x
  BY <1>3 DEF Last
<1>8. Front(h) = g
  <2>1. Len(h) - 1 = Len(g)
    BY <1>2, <1>3
  <2> QED
    BY <1>1, <2>1, CutBack DEF Front, Good
<1> QED
  BY <1>1, <1>3, <1>4, <1>6, <1>7, <1>8 DEF Good, CutLast

LEMMA GoodSingle ==
  ASSUME NEW r \in Seq(Event), InSequence(r)
  PROVE  LET g == <<[rows |-> r, whole |-> TRUE]>> IN Good(g) /\ ~CutLast(g) /\ Rows(g) = r
<1>1. PICK x \in Piece : x = [rows |-> r, whole |-> TRUE]
  BY DEF Piece
<1>2. x.rows = r /\ x.whole
  BY <1>1
<1>3. Rows(<<>>) \o x.rows = r
  BY <1>2, RowsOfNone, ConcatEmptySeq
<1>4. PICK e : e = <<>>
  OBVIOUS
<1>5. Good(Append(e, x)) /\ Rows(Append(e, x)) = r /\ CutLast(Append(e, x)) = ~x.whole
  BY <1>3, <1>4, GoodEmpty, GoodAppend
<1>6. Append(e, x) = <<x>>
  BY <1>4
<1> QED
  BY <1>1, <1>2, <1>5, <1>6

\* A file is its front and its last piece.
LEMMA GoodSplit ==
  ASSUME NEW g, Good(g), CutLast(g)
  PROVE  /\ Good(Front(g)) /\ ~CutLast(Front(g))
         /\ Last(g) \in Piece /\ Last(g).rows \in Seq(Event)
         /\ Rows(g) = Rows(Front(g)) \o Last(g).rows
         /\ \A i \in DOMAIN Front(g) : Front(g)[i].whole
<1>1. g \in Seq(Piece) /\ g # <<>>
  BY DEF Good, CutLast
<1>2. PICK h \in Seq(Piece), x \in Piece : g = Append(h, x)
  BY <1>1, SequenceEmptyOrAppend
<1>3. PICK n \in Nat : n = Len(h) /\ DOMAIN h = 1..n
  BY LenProperties
<1>4. /\ Len(g) = n + 1 /\ DOMAIN g = 1..(n + 1) /\ g[n + 1] = x
      /\ \A i \in 1..n : g[i] = h[i]
  BY <1>1, <1>2, <1>3, AppendProperties, LenProperties
<1>5. Front(g) = h /\ Last(g) = x
  <2>1. Len(g) - 1 = Len(h)
    BY <1>3, <1>4
  <2> QED
    BY <1>2, <1>4, <2>1, CutBack DEF Front, Last
<1>6. Rows(g) = Rows(h) \o x.rows /\ x.rows \in Seq(Event) /\ Rows(h) \in Seq(Event)
  BY <1>2, RowsOfAppend
<1>7. \A i \in 1..n : h[i].whole
  <2> SUFFICES ASSUME NEW i \in 1..n PROVE h[i].whole
    OBVIOUS
  <2>1. i \in 1..(n + 1) /\ i < n + 1
    BY <1>3
  <2> QED
    BY <1>4, <2>1 DEF Good
<1>8. InSequence(Rows(h))
  BY <1>6, NumberedOn DEF Good
<1>9. ~CutLast(h)
  <2> SUFFICES ASSUME h # <<>> PROVE h[Len(h)].whole
    BY DEF CutLast, Last
  <2>1. n \in 1..n
    BY <1>3, EmptySeq
  <2> QED
    BY <1>3, <1>7, <2>1
<1> QED
  BY <1>2, <1>3, <1>5, <1>6, <1>7, <1>8, <1>9 DEF Good

----------------------------------------------------------------------------
(* Decoding.                                                               *)

\* Rows in sequence are kept whole.
LEMMA ContiguousAll ==
  ASSUME NEW r \in Seq(Event), InSequence(r)
  PROVE  Contiguous(r) = r
<1>1. PICK n \in Nat : n = Len(r)
  BY LenProperties
<1>2. SubSeq(r, 1, n) = r
  BY <1>1, SubSeqFull
<1> DEFINE S == {k \in 0..Len(r) : InSequence(SubSeq(r, 1, k))}
<1>3. n \in S /\ \A k \in S : n >= k
  <2>1. n \in 0..n /\ \A k \in 0..n : n >= k
    OBVIOUS
  <2>2. InSequence(SubSeq(r, 1, n))
    BY <1>2
  <2> QED
    BY <1>1, <2>1, <2>2
<1>4. S \subseteq Nat
  BY <1>1
<1>5. Max(S) = n
  <2> HIDE DEF S
  <2>1. PICK m : m = Max(S)
    OBVIOUS
  <2>2. m \in S /\ \A k \in S : m >= k
    BY <1>3, <2>1 DEF Max
  <2> QED
    BY <1>3, <1>4, <2>1, <2>2
<1> QED
  BY <1>2, <1>5 DEF Contiguous

\* Only a piece behind a cut one is read with garbage.
LEMMA LinesAreRows ==
  ASSUME NEW g, Good(g)
  PROVE  Lines(g) = Rows(g)
<1>1. PICK n \in Nat : n = Len(g) /\ DOMAIN g = 1..n
  BY LenProperties DEF Good
<1>2. ASSUME NEW i \in DOMAIN g, i > 1 PROVE g[i - 1].whole
  <2>1. i - 1 \in DOMAIN g /\ i - 1 < Len(g)
    BY <1>1, <1>2
  <2> QED
    BY <2>1 DEF Good
<1>3. [i \in DOMAIN g |->
         IF i > 1 /\ ~g[i - 1].whole /\ g[i].rows # <<>>
         THEN <<Garbage>> \o Tail(g[i].rows) ELSE g[i].rows] = [i \in DOMAIN g |-> g[i].rows]
  BY <1>2, Zenon
<1> QED
  BY <1>3 DEF Lines, Rows

\* What an open finds in a good file.
LEMMA GoodDecodes ==
  ASSUME Good(file), zstd \in BOOLEAN
  PROVE  /\ Decode.ok /\ Decode.events = Rows(file) /\ Decode.torn = CutLast(file)
         /\ Decode.tail = IF zstd /\ CutLast(file) THEN Last(file).rows ELSE <<>>
<1>1. Rows(file) \in Seq(Event) /\ InSequence(Rows(file))
  BY RowsType DEF Good
<1>2. Contiguous(Rows(file)) = Rows(file)
  BY <1>1, ContiguousAll
<1>3. CASE ~zstd
  <2>1. Lines(file) = Rows(file)
    BY LinesAreRows
  <2>2. PICK n \in Nat : n = Len(Rows(file))
    BY <1>1, LenProperties
  <2>3. n + 1 .. n = {}
    BY <2>2
  <2>4. \A i \in Len(Rows(file)) + 1 .. Len(Rows(file)) : Rows(file)[i].seq \notin TurnEnds
    BY <2>2, <2>3
  <2>5. /\ DecodeRaw(file).ok = (\A i \in Len(Rows(file)) + 1 .. Len(Rows(file)) : Rows(file)[i].seq \notin TurnEnds)
        /\ DecodeRaw(file).events = Rows(file)
        /\ DecodeRaw(file).torn = (Rows(file) # Rows(file) \/ CutLast(file))
        /\ DecodeRaw(file).tail = <<>>
    BY <1>2, <2>1, Zenon DEF DecodeRaw
  <2> QED
    BY <1>3, <2>4, <2>5 DEF Decode, CutLast
<1>4. CASE zstd
  <2> DEFINE frames == IF CutLast(file) THEN Front(file) ELSE file
             d == DecodeZstd(file)
  <2>1. /\ d.ok = (InSequence(Rows(frames)) /\ \A i \in DOMAIN frames : frames[i].whole)
        /\ d.events = Rows(file) /\ d.torn = CutLast(file)
        /\ d.tail = SubSeq(Rows(file), Len(Rows(frames)) + 1, Len(Rows(file)))
    BY <1>2, Zenon DEF DecodeZstd
  <2>2. CASE CutLast(file)
    <3>1. PICK r \in Seq(Event), s \in Seq(Event) :
            r = Rows(Front(file)) /\ s = Last(file).rows /\ Rows(file) = r \o s
      BY <2>2, GoodSplit, RowsType DEF Good
    <3>2. d.ok
      BY <2>1, <2>2, GoodSplit DEF Good
    <3>3. SubSeq(r \o s, Len(r) + 1, Len(r \o s)) = s
      BY RestOf
    <3> QED
      BY <1>4, <2>1, <2>2, <3>1, <3>2, <3>3 DEF Decode
  <2>3. CASE ~CutLast(file)
    <3>1. PICK n \in Nat : n = Len(file) /\ DOMAIN file = 1..n
      BY LenProperties DEF Good
    <3>2. \A i \in DOMAIN file : file[i].whole
      <4> SUFFICES ASSUME NEW i \in 1..n PROVE file[i].whole
        BY <3>1
      <4>1. CASE i < n
        BY <3>1, <4>1 DEF Good
      <4>2. CASE i = n
        <5>1. file # <<>> /\ Last(file) = file[n]
          BY <3>1, <4>2, EmptySeq DEF Last
        <5> QED
          BY <2>3, <4>2, <5>1 DEF CutLast
      <4> QED
        BY <4>1, <4>2
    <3>3. d.ok
      BY <1>1, <2>1, <2>3, <3>2
    <3>4. PICK m \in Nat : m = Len(Rows(file))
      BY <1>1, LenProperties
    <3>5. SubSeq(Rows(file), m + 1, m) = <<>>
      BY <3>4, SubSeqEmpty
    <3> QED
      BY <1>4, <2>1, <2>3, <3>3, <3>4, <3>5 DEF Decode
  <2> QED
    BY <2>2, <2>3
<1> QED
  BY <1>3, <1>4

----------------------------------------------------------------------------
(* The invariant.                                                          *)

\* What an append starts from.
Settled(pieces) == Good(pieces) /\ ~CutLast(pieces) /\ IsPrefix(acked, Rows(pieces))

\* Between its writes a handle counts what is on disk and what it recovered.
Aligned(p) ==
    \/ /\ torn[p] /\ CutLast(file)
       /\ view[p] = Rows(file) /\ tail[p] = IF zstd THEN Last(file).rows ELSE <<>>
    \/ ~CutLast(file) /\ view[p] = Rows(file) \o tail[p]

Steps == {"none", "repair", "rewrite", "append", "rewriting", "appending", "rewritten", "appended"}

\* What a handle makes of the file on its way through a write.
Phase(p) ==
    /\ op[p] \in {"none", "repair"} => Aligned(p)
    /\ op[p] \in {"rewrite", "append"} => Settled(file) /\ view[p] = Rows(file) \o tail[p]
    /\ op[p] \in {"rewriting", "appending"} =>
           Settled(BeforeAppend(p)) /\ view[p] = Rows(BeforeAppend(p)) \o tail[p]
    /\ op[p] = "rewritten" => Settled(file) /\ view[p] = Rows(file)
    /\ op[p] = "appended" => Settled(file) /\ Rows(file) = view[p] \o batch[p]

\* What a handle knows, wherever it is in a write.
Knows(p) ==
    /\ view[p] \in Seq(Event) /\ InSequence(view[p]) /\ IsPrefix(acked, view[p])
    /\ tail[p] \in Seq(Event)
    /\ ~zstd => tail[p] = <<>>
    /\ op[p] \in {"append", "appending", "appended"} => tail[p] = <<>>
    /\ op[p] # "none" => Numbered(batch[p], Len(view[p]))

OpenHandle(p) ==
    /\ Held(p) /\ exists
    /\ op[p] \in Steps
    /\ ~spoiled => Knows(p) /\ Phase(p)

CreatedHandle(p) ==
    /\ view[p] = <<>> /\ tail[p] = <<>> /\ ~torn[p]
    /\ op[p] \in {"none", "publish"}
    /\ op[p] = "publish" => Numbered(batch[p], 0)

HandleInv(p) ==
    /\ hand[p] \in {"none", "created", "opening", "open"}
    /\ hand[p] = "none" => view[p] = <<>> /\ tail[p] = <<>> /\ ~torn[p]
    /\ hand[p] \in {"none", "opening"} => op[p] = "none"
    /\ hand[p] # "none" => gen[p] \in 1..MaxOpens
    /\ hand[p] = "opening" => exists
    /\ hand[p] = "created" => CreatedHandle(p)
    /\ hand[p] = "open" => OpenHandle(p)

\* No crash takes back what was acknowledged.
FileInv ==
    /\ ~exists => file = <<>> /\ acked = <<>>
    /\ ~spoiled => Good(file) /\ acked \in Seq(Event) /\ IsPrefix(acked, Rows(Wholes(file)))

Types ==
    /\ zstd \in BOOLEAN /\ opens \in Nat
    /\ DOMAIN hand = Procs /\ DOMAIN gen = Procs /\ DOMAIN view = Procs
    /\ torn \in [Procs -> BOOLEAN] /\ DOMAIN tail = Procs
    /\ DOMAIN batch = Procs /\ DOMAIN op = Procs /\ DOMAIN base = Procs

LogInv == Types /\ FileInv /\ \A p \in Procs : HandleInv(p)

----------------------------------------------------------------------------
(* What the invariant says of the decoder.                                 *)

LEMMA AckedStored ==
  ASSUME Types, FileInv, ~spoiled
  PROVE  IsPrefix(acked, Rows(file)) /\ acked \in Seq(Event) /\ Rows(file) \in Seq(Event)
<1>1. Good(file) /\ acked \in Seq(Event) /\ Rows(file) \in Seq(Event)
  BY RowsType DEF FileInv, Good
<1>2. CASE CutLast(file)
  <2>1. /\ IsPrefix(acked, Rows(Front(file))) /\ Rows(Front(file)) \in Seq(Event)
        /\ Last(file).rows \in Seq(Event) /\ Rows(file) = Rows(Front(file)) \o Last(file).rows
    BY <1>1, <1>2, GoodSplit, RowsType DEF FileInv, Wholes, Good
  <2> QED
    BY <1>1, <2>1, PrefixOn
<1> QED
  BY <1>1, <1>2 DEF FileInv, Wholes

\* Cutting a torn file leaves what an append can start from, and nothing that
\* was acknowledged is cut.
LEMMA TruncatedSettled ==
  ASSUME Types, FileInv, ~spoiled
  PROVE  /\ Settled(Truncated)
         /\ Rows(Truncated) = IF zstd /\ CutLast(file) THEN Rows(Front(file)) ELSE Rows(file)
<1>1. /\ Good(file) /\ acked \in Seq(Event) /\ Rows(file) \in Seq(Event) /\ InSequence(Rows(file))
      /\ zstd \in BOOLEAN
  BY RowsType DEF FileInv, Good, Types
<1>2. IsPrefix(acked, Rows(file))
  BY AckedStored
<1>3. CASE zstd
  <2>1. CASE CutLast(file)
    BY <1>1, <1>3, <2>1, GoodSplit DEF Truncated, Settled, FileInv, Wholes
  <2> QED
    BY <1>1, <1>2, <1>3, <2>1 DEF Truncated, Settled
<1>4. CASE ~zstd
  <2>1. Truncated = <<[rows |-> Rows(file), whole |-> TRUE]>>
    BY <1>1, <1>4, GoodDecodes DEF Truncated
  <2> QED
    BY <1>1, <1>2, <1>4, <2>1, GoodSingle DEF Settled
<1> QED
  BY <1>3, <1>4

\* The invariant is what the runs check.
LEMMA InvSurvives ==
  ASSUME LogInv
  PROVE  AckedSurvives
BY GoodDecodes, AckedStored DEF LogInv, AckedSurvives, FileInv, Types

LEMMA InvStored ==
  ASSUME LogInv
  PROVE  ViewIsStored
<1> SUFFICES ASSUME NEW p \in Procs, hand[p] = "open", op[p] = "none", ~spoiled
             PROVE  view[p] \in {Decode.events, Decode.events \o tail[p]}
  BY DEF ViewIsStored
<1>1. Decode.events = Rows(file)
  BY GoodDecodes DEF LogInv, FileInv, Types
<1>2. Aligned(p)
  BY DEF LogInv, HandleInv, OpenHandle, Phase
<1> QED
  BY <1>1, <1>2 DEF Aligned

----------------------------------------------------------------------------
(* What a step leaves alone.                                               *)

SameHandle(q) ==
    /\ hand'[q] = hand[q] /\ gen'[q] = gen[q] /\ view'[q] = view[q] /\ torn'[q] = torn[q]
    /\ tail'[q] = tail[q] /\ batch'[q] = batch[q] /\ op'[q] = op[q] /\ base'[q] = base[q]

SameLog == UNCHANGED <<zstd, exists, file, acked, spoiled>>

Elsewhere(p) == \A q \in Procs : q # p => SameHandle(q) /\ (Held(q) => Held(q)')

LEMMA HandleStays ==
  ASSUME NEW q \in Procs, HandleInv(q), SameHandle(q), SameLog, Held(q) => Held(q)'
  PROVE  HandleInv(q)'
<1>1. Phase(q) => Phase(q)'
  BY DEF Phase, Aligned, Settled, BeforeAppend, SameHandle, SameLog
<1>2. Knows(q) => Knows(q)'
  BY DEF Knows, SameHandle, SameLog
<1>3. CreatedHandle(q) => CreatedHandle(q)'
  BY DEF CreatedHandle, SameHandle
<1>4. OpenHandle(q) => OpenHandle(q)'
  BY <1>1, <1>2 DEF OpenHandle, SameHandle, SameLog
<1> QED
  BY <1>3, <1>4 DEF HandleInv, SameHandle, SameLog

LEMMA ClosedStays ==
  ASSUME NEW q \in Procs, HandleInv(q), SameHandle(q), hand[q] # "open", exists => exists'
  PROVE  HandleInv(q)'
<1>1. CreatedHandle(q) => CreatedHandle(q)'
  BY DEF CreatedHandle, SameHandle
<1> QED
  BY <1>1 DEF HandleInv, SameHandle

\* A step that leaves the file alone.
LEMMA QuietStep ==
  ASSUME LogInv, NEW p \in Procs, SameLog, Elsewhere(p), Types', HandleInv(p)'
  PROVE  LogInv'
<1>1. FileInv'
  BY DEF LogInv, FileInv, SameLog
<1>2. ASSUME NEW q \in Procs, q # p PROVE HandleInv(q)'
  BY <1>2, HandleStays DEF LogInv, Elsewhere
<1> QED
  BY <1>1, <1>2 DEF LogInv

\* A step of the process that has the log open: nobody else has.
LEMMA WriterStep ==
  ASSUME LeaseInv, LogInv, NEW p \in Procs, hand[p] = "open", Elsewhere(p), exists',
         Types', FileInv', HandleInv(p)'
  PROVE  LogInv'
<1>1. ASSUME NEW q \in Procs, q # p PROVE hand[q] # "open"
  BY <1>1, Exclusive DEF LogInv, HandleInv, OpenHandle, OneWriter
<1>2. ASSUME NEW q \in Procs, q # p PROVE HandleInv(q)'
  BY <1>1, <1>2, ClosedStays DEF LogInv, Elsewhere
<1> QED
  BY <1>2 DEF LogInv

----------------------------------------------------------------------------
(* The lease and the handles.                                              *)

LEMMA LeasesKeep ==
  ASSUME LeaseInv, LogInv, NEW p \in Procs, Leases(p) \/ LeaseFault(p) \/ Left(p)
  PROVE  LogInv'
<1>1. ~Held(p)
  BY DEF Leases, LeaseSteps, OpenLockFile, Lock, Contended, Verified, Orphaned,
         LeaseFault, AcquireFails, Left, Release, Held
<1>2. \A q \in Procs : q # p => Held(q)' = Held(q)
  BY DEF LeaseInv, Inodes, Leases, LeaseSteps, OpenLockFile, Lock, Contended, Verified, Orphaned,
         LeaseFault, AcquireFails, Left, Release, CloseFd, Held
<1>3. SameLog /\ UNCHANGED <<handleVars, opVars, opens>>
  BY DEF Leases, LeaseFault, Left, SameLog, handleVars, opVars, countVars
<1>4. \A q \in Procs : SameHandle(q)
  BY <1>3 DEF SameHandle, handleVars, opVars
<1>5. Elsewhere(p) /\ Types'
  BY <1>2, <1>3, <1>4 DEF Elsewhere, LogInv, Types, SameLog, handleVars, opVars
<1>6. HandleInv(p)'
  BY <1>1, <1>3, <1>4, HandleStays DEF LogInv
<1> QED
  BY <1>3, <1>5, <1>6, QuietStep

\* A handle that is gone leaves nothing.
LEMMA Forgotten ==
  ASSUME Types, NEW p \in Procs, Forget(p), UNCHANGED <<zstd, opens>>
  PROVE  /\ Types' /\ HandleInv(p)'
         /\ \A q \in Procs : q # p => SameHandle(q)
<1>1. Types'
  BY DEF Types, Forget
<1>2. HandleInv(p)'
  BY DEF Types, Forget, HandleInv
<1> QED
  BY <1>1, <1>2 DEF Types, Forget, SameHandle

\* The lease of another process is its own.
LEMMA OthersHold ==
  ASSUME LeaseInv, NEW p \in Procs, UNCHANGED leaseVars \/ LeaseStep(p)
  PROVE  \A q \in Procs : q # p => Held(q)' = Held(q)
BY DEF LeaseInv, Inodes, leaseVars, LeaseStep, Acquire, LeaseSteps, OpenLockFile, Lock, Contended,
       Verified, Orphaned, AcquireFails, Release, Unlink, Answered, LosesAll, CloseFd, Held

LEMMA ForgetsKeep ==
  ASSUME LeaseInv, LogInv, NEW p \in Procs, Forget(p), SameLog, UNCHANGED opens,
         UNCHANGED leaseVars \/ LeaseStep(p)
  PROVE  LogInv'
<1>1. Types' /\ HandleInv(p)' /\ Elsewhere(p)
  BY Forgotten, OthersHold DEF Elsewhere, SameLog, LogInv
<1> QED
  BY <1>1, QuietStep

LEMMA LeavesKeep ==
  ASSUME LeaseInv, LogInv, NEW p \in Procs, Close(p) \/ Leave(p) \/ Die(p)
  PROVE  LogInv'
<1>1. Forget(p) /\ SameLog /\ UNCHANGED opens
  BY DEF Close, Leave, Die, SameLog, countVars
<1>2. UNCHANGED leaseVars \/ LeaseStep(p)
  BY DEF Close, Leave, Die, LeaseStep
<1> QED
  BY <1>1, <1>2, ForgetsKeep

LEMMA NewHandlesKeep ==
  ASSUME LeaseInv, LogInv, NEW p \in Procs, Create(p) \/ Open(p)
  PROVE  LogInv'
<1>1. SameLog /\ UNCHANGED <<view, torn, tail, opVars>> /\ hand[p] = "none"
  BY DEF Create, Open, NewHandle, SameLog
<1>2. UNCHANGED leaseVars \/ LeaseStep(p)
  BY DEF Create, Open, LeaseStep
<1>3. opens \in Nat /\ opens' \in Nat /\ gen'[p] \in 1..MaxOpens
  <2>1. opens \in Nat /\ opens < MaxOpens /\ opens' = opens + 1 /\ gen'[p] = opens + 1
    BY DEF LogInv, Types, Create, Open, NewHandle
  <2> QED
    BY <2>1, BoundsAssumption
<1>4. Types' /\ \A q \in Procs : q # p => SameHandle(q)
  BY <1>1, <1>3 DEF LogInv, Types, SameHandle, SameLog, opVars, Create, Open, NewHandle
<1>5. Elsewhere(p)
  BY <1>2, <1>4, OthersHold DEF Elsewhere
<1>6. view'[p] = <<>> /\ tail'[p] = <<>> /\ ~torn'[p] /\ op'[p] = "none"
  BY <1>1 DEF LogInv, HandleInv, opVars
<1>7. HandleInv(p)'
  <2>1. CASE Create(p)
    <3>1. hand'[p] = "created"
      BY <2>1 DEF Create, NewHandle, LogInv, Types
    <3> QED
      BY <1>3, <1>6, <3>1 DEF HandleInv, CreatedHandle
  <2>2. CASE Open(p)
    <3>1. hand'[p] = "opening" /\ exists'
      BY <2>2 DEF Open, NewHandle, LogInv, Types
    <3> QED
      BY <1>3, <1>6, <3>1 DEF HandleInv
  <2> QED
    BY <2>1, <2>2
<1> QED
  BY <1>1, <1>4, <1>5, <1>7, QuietStep

LEMMA RefusedKeeps ==
  ASSUME LeaseInv, LogInv, NEW p \in Procs, Refused(p)
  PROVE  LogInv'
<1>1. SameLog /\ UNCHANGED opens /\ LeaseStep(p)
  BY DEF Refused, SameLog, countVars, LeaseStep
<1>2. CASE Forget(p)
  BY <1>1, <1>2, ForgetsKeep
<1>3. CASE hand[p] = "created" /\ op' = [op EXCEPT ![p] = "none"] /\ UNCHANGED <<handleVars, batch, base>>
  <2>1. Types' /\ \A q \in Procs : q # p => SameHandle(q)
    BY <1>1, <1>3 DEF LogInv, Types, SameHandle, SameLog, handleVars
  <2>2. Elsewhere(p)
    BY <1>1, <2>1, OthersHold DEF Elsewhere
  <2>3. HandleInv(p)'
    <3>1. op'[p] = "none" /\ hand'[p] = "created"
      BY <1>3 DEF LogInv, Types, handleVars
    <3> QED
      BY <1>3, <3>1 DEF LogInv, HandleInv, CreatedHandle, handleVars
  <2> QED
    BY <1>1, <2>1, <2>2, <2>3, QuietStep
<1> QED
  BY <1>2, <1>3 DEF Refused

\* An open counts what it decodes.
LEMMA LoadKeeps ==
  ASSUME LeaseInv, LogInv, NEW p \in Procs, Load(p)
  PROVE  LogInv'
<1>1. SameLog /\ UNCHANGED opens /\ hand[p] = "opening" /\ Held(p)
  BY DEF Load, SameLog, countVars
<1>2. CASE Forget(p) /\ Release(p)
  BY <1>1, <1>2, ForgetsKeep DEF LeaseStep
<1>3. CASE /\ hand' = [hand EXCEPT ![p] = "open"] /\ view' = [view EXCEPT ![p] = Decode.events]
           /\ torn' = [torn EXCEPT ![p] = Decode.torn] /\ tail' = [tail EXCEPT ![p] = Decode.tail]
           /\ UNCHANGED <<leaseVars, gen, opVars>>
  <2>1. Decode.torn \in BOOLEAN
    BY DEF Decode, DecodeRaw, DecodeZstd, CutLast
  <2>2. Types' /\ \A q \in Procs : q # p => SameHandle(q)
    BY <1>1, <1>3, <2>1 DEF LogInv, Types, SameHandle, SameLog, opVars
  <2>3. Elsewhere(p) /\ Held(p)'
    BY <1>1, <1>3, <2>2 DEF Elsewhere, Held, leaseVars
  <2>4. /\ hand'[p] = "open" /\ view'[p] = Decode.events /\ torn'[p] = Decode.torn
        /\ tail'[p] = Decode.tail /\ gen'[p] = gen[p] /\ op'[p] = "none"
    BY <1>1, <1>3 DEF LogInv, Types, HandleInv, opVars
  <2>5. gen[p] \in 1..MaxOpens /\ exists' /\ zstd \in BOOLEAN
    BY <1>1 DEF LogInv, HandleInv, SameLog, Types
  <2>6. ASSUME ~spoiled PROVE Knows(p)' /\ Phase(p)'
    <3>1. Good(file) /\ FileInv /\ Types
      BY <2>6 DEF LogInv, FileInv
    <3>2. /\ view'[p] = Rows(file) /\ torn'[p] = CutLast(file)
          /\ tail'[p] = IF zstd /\ CutLast(file) THEN Last(file).rows ELSE <<>>
      BY <2>4, <2>5, <3>1, GoodDecodes
    <3>3. IsPrefix(acked, Rows(file)) /\ Rows(file) \in Seq(Event) /\ InSequence(Rows(file))
      BY <2>6, <3>1, AckedStored DEF Good
    <3>4. tail'[p] \in Seq(Event)
      BY <3>1, <3>2, GoodSplit, EmptySeq
    <3>5. Knows(p)'
      BY <1>1, <2>4, <3>2, <3>3, <3>4 DEF Knows, SameLog
    <3>6. Aligned(p)'
      <4>1. Rows(file) \o <<>> = Rows(file)
        BY <3>3, ConcatEmptySeq
      <4> QED
        BY <1>1, <3>2, <4>1 DEF Aligned, SameLog
    <3> QED
      BY <2>4, <3>5, <3>6 DEF Phase
  <2>7. OpenHandle(p)'
    BY <1>1, <2>3, <2>4, <2>5, <2>6 DEF OpenHandle, Steps, SameLog
  <2>8. HandleInv(p)'
    BY <2>4, <2>5, <2>7 DEF HandleInv
  <2> QED
    BY <1>1, <2>2, <2>3, <2>8, QuietStep
<1> QED
  BY <1>2, <1>3 DEF Load

----------------------------------------------------------------------------
(* The writes.                                                             *)

\* The batches that a cursor is given continue it.
LEMMA BatchesContinue ==
  ASSUME NEW p \in Procs, gen[p] \in 1..MaxOpens, NEW n \in Nat, n = Len(view[p]),
         NEW b \in Batches(p), n + Len(b) <= MaxEvents
  PROVE  Numbered(b, n)
<1>1. PICK k \in 0..MaxBatch : b = [i \in 1..k |-> [seq |-> n + i, by |-> gen[p]]]
  BY DEF Batches
<1>2. k \in Nat /\ MaxEvents \in Nat
  BY <1>1, BoundsAssumption
<1>3. PICK R : b \in Seq(R)
  <2>1. PICK R : R = [seq : Nat, by : 1..MaxOpens]
    OBVIOUS
  <2>2. \A i \in 1..k : [seq |-> n + i, by |-> gen[p]] \in R
    BY <1>2, <2>1
  <2>3. b \in [1..k -> R]
    BY <1>1, <2>2
  <2> QED
    BY <1>2, <2>3, SeqDef
<1>4. DOMAIN b = 1..k /\ Len(b) = k
  <2>1. DOMAIN b = 1..k
    BY <1>1
  <2>2. Len(b) \in Nat /\ DOMAIN b = 1..Len(b)
    BY <1>3, LenProperties
  <2> QED
    BY <1>2, <2>1, <2>2
<1>5. ASSUME NEW i \in 1..k PROVE b[i] \in Event /\ b[i].seq = n + i
  <2>1. b[i] = [seq |-> n + i, by |-> gen[p]]
    BY <1>1
  <2>2. n + i \in 1..MaxEvents
    BY <1>2, <1>4
  <2> QED
    BY <2>1, <2>2 DEF Event
<1>6. b \in [1..k -> Event]
  <2>1. b = [i \in 1..k |-> b[i]]
    BY <1>1
  <2> QED
    BY <1>5, <2>1
<1>7. b \in Seq(Event)
  BY <1>2, <1>6, SeqDef
<1> QED
  BY <1>4, <1>5, <1>7 DEF Numbered

LEMMA PersistKeeps ==
  ASSUME LeaseInv, LogInv, NEW p \in Procs, Persist(p)
  PROVE  LogInv'
<1>1. SameLog /\ UNCHANGED opens /\ UNCHANGED <<handleVars, base>> /\ op[p] = "none"
  BY DEF Persist, SameLog, countVars
<1>2. UNCHANGED leaseVars \/ LeaseStep(p)
  BY DEF Persist, LeaseStep
<1>3. PICK b \in Batches(p) : /\ Len(view[p]) + Len(b) <= MaxEvents
                              /\ batch' = [batch EXCEPT ![p] = b]
  BY DEF Persist
<1>4. Types' /\ \A q \in Procs : q # p => SameHandle(q)
  BY <1>1, <1>3 DEF LogInv, Types, SameHandle, SameLog, handleVars, Persist
<1>5. Elsewhere(p)
  BY <1>2, <1>4, OthersHold DEF Elsewhere
<1>6. batch'[p] = b /\ gen[p] \in 1..MaxOpens
  BY <1>3 DEF LogInv, Types, HandleInv, Persist
<1>7. CASE hand[p] = "created"
  <2>1. op'[p] = "publish" /\ hand'[p] = "created"
    BY <1>1, <1>7 DEF Persist, LogInv, Types, handleVars
  <2>2. view[p] = <<>> /\ tail[p] = <<>> /\ ~torn[p]
    BY <1>7 DEF LogInv, HandleInv, CreatedHandle
  <2>3. Numbered(b, 0)
    <3>1. PICK n \in Nat : n = 0 /\ n = Len(view[p])
      BY <2>2, EmptySeq
    <3>2. n + Len(b) <= MaxEvents
      BY <1>3, <3>1
    <3> QED
      BY <1>6, <3>1, <3>2, BatchesContinue
  <2>4. HandleInv(p)'
    BY <1>1, <1>6, <2>1, <2>2, <2>3 DEF HandleInv, CreatedHandle, handleVars
  <2> QED
    BY <1>1, <1>4, <1>5, <2>4, QuietStep
<1>8. CASE hand[p] = "open"
  <2>1. op'[p] = Stage(torn[p], tail[p]) /\ hand'[p] = "open" /\ UNCHANGED leaseVars
    BY <1>1, <1>8 DEF Persist, LogInv, Types, handleVars
  <2>2. op'[p] \in {"repair", "rewrite", "append"} /\ Held(p)' /\ exists'
    BY <1>1, <1>8, <2>1 DEF Stage, LogInv, HandleInv, OpenHandle, Held, leaseVars, SameLog
  <2>3. ASSUME ~spoiled PROVE Knows(p)' /\ Phase(p)'
    <3>1. Knows(p) /\ Aligned(p)
      BY <1>1, <1>8, <2>3 DEF LogInv, HandleInv, OpenHandle, Phase
    <3>2. Numbered(b, Len(view[p]))
      <4>1. PICK n \in Nat : n = Len(view[p])
        BY <3>1, LenProperties DEF Knows
      <4> QED
        BY <1>3, <1>6, <4>1, BatchesContinue
    <3>3. op'[p] = "append" => tail[p] = <<>>
      BY <2>1 DEF Stage
    <3>4. Knows(p)'
      BY <1>1, <1>6, <2>2, <3>1, <3>2, <3>3 DEF Knows, SameLog, handleVars
    <3>5. op'[p] = "repair" => Aligned(p)'
      BY <1>1, <3>1 DEF Aligned, SameLog, handleVars
    <3>6. op'[p] # "repair" => Settled(file) /\ view[p] = Rows(file) \o tail[p]
      BY <2>1, <2>3, <3>1 DEF Stage, Aligned, Settled, LogInv, FileInv, Wholes
    <3>7. Phase(p)'
      BY <1>1, <2>2, <3>5, <3>6 DEF Phase, Settled, SameLog, handleVars
    <3> QED
      BY <3>4, <3>7
  <2>4. OpenHandle(p)'
    BY <1>1, <2>2, <2>3 DEF OpenHandle, Steps, SameLog
  <2>5. HandleInv(p)'
    BY <1>1, <1>6, <2>1, <2>4 DEF HandleInv, handleVars
  <2> QED
    BY <1>1, <1>4, <1>5, <2>5, QuietStep
<1> QED
  BY <1>7, <1>8 DEF Persist

\* The handle that publishes has the first batch in the file.
LEMMA PublishKeeps ==
  ASSUME LeaseInv, LogInv, NEW p \in Procs, Publish(p)
  PROVE  LogInv'
<1>1. /\ UNCHANGED <<leaseVars, zstd, gen, torn, tail, batch, base, opens, spoiled>>
      /\ op[p] = "publish" /\ Held(p) /\ ~exists /\ exists' /\ op' = [op EXCEPT ![p] = "none"]
  BY DEF Publish
<1>2. hand[p] = "created"
  BY <1>1 DEF LogInv, HandleInv, OpenHandle, Steps
<1>3. /\ view[p] = <<>> /\ tail[p] = <<>> /\ ~torn[p] /\ Numbered(batch[p], 0)
      /\ gen[p] \in 1..MaxOpens /\ batch[p] \in Seq(Event) /\ InSequence(batch[p])
  BY <1>1, <1>2, Numbers DEF LogInv, HandleInv, CreatedHandle, Numbered
<1>4. Good(file') /\ ~CutLast(file)' /\ Rows(file') = batch[p]
  <2>1. \/ file' = <<>> /\ batch[p] = <<>>
        \/ file' = <<[rows |-> batch[p], whole |-> TRUE]>>
    BY DEF Publish
  <2>2. PICK f : f = file'
    OBVIOUS
  <2>3. Good(f) /\ ~CutLast(f) /\ Rows(f) = batch[p]
    BY <1>3, <2>1, <2>2, GoodEmpty, GoodSingle, RowsOfNone
  <2> QED
    BY <2>2, <2>3 DEF CutLast
<1>5. Types' /\ \A q \in Procs : q # p => SameHandle(q)
  BY <1>1 DEF LogInv, Types, SameHandle, Publish
<1>6. op'[p] = "none" /\ Held(p)'
  BY <1>1 DEF LogInv, Types, Held, leaseVars
<1>7. acked = <<>> /\ <<>> \in Seq(Event) /\ IsPrefix(<<>>, batch[p]) /\ IsPrefix(batch[p], batch[p])
  BY <1>1, <1>3, PrefixFacts, EmptySeq DEF LogInv, FileInv
<1>8. FileInv'
  <2>1. acked' \in {<<>>, batch[p]}
    BY <1>7 DEF Publish
  <2> QED
    BY <1>1, <1>3, <1>4, <1>7, <2>1 DEF FileInv, Wholes, CutLast
<1>9. HandleInv(p)'
  <2>1. CASE hand' = [hand EXCEPT ![p] = "open"] /\ view' = [view EXCEPT ![p] = batch[p]] /\ acked' = batch[p]
    <3>1. hand'[p] = "open" /\ view'[p] = batch[p]
      BY <2>1 DEF LogInv, Types
    <3>2. Knows(p)'
      BY <1>1, <1>3, <1>6, <1>7, <2>1, <3>1 DEF Knows
    <3>3. Rows(file') \o <<>> = batch[p]
      BY <1>3, <1>4, ConcatEmptySeq
    <3>4. Phase(p)'
      BY <1>1, <1>3, <1>4, <1>6, <3>1, <3>3 DEF Phase, Aligned
    <3> QED
      BY <1>1, <1>3, <1>6, <3>1, <3>2, <3>4 DEF HandleInv, OpenHandle, Steps
  <2>2. CASE UNCHANGED <<hand, view, acked>>
    BY <1>1, <1>2, <1>3, <1>6, <2>2 DEF HandleInv, CreatedHandle
  <2> QED
    BY <2>1, <2>2 DEF Publish
<1>10. ASSUME NEW q \in Procs, q # p PROVE HandleInv(q)'
  <2>1. hand[q] # "open"
    BY <1>1 DEF LogInv, HandleInv, OpenHandle
  <2> QED
    BY <1>5, <1>10, <2>1, <1>1, ClosedStays DEF LogInv
<1> QED
  BY <1>5, <1>8, <1>9, <1>10 DEF LogInv

LEMMA PublishFailsKeeps ==
  ASSUME LeaseInv, LogInv, NEW p \in Procs, PublishFails(p)
  PROVE  LogInv'
<1>1. /\ SameLog /\ UNCHANGED <<leaseVars, handleVars, batch, base, opens>>
      /\ op[p] = "publish" /\ op' = [op EXCEPT ![p] = "none"]
  BY DEF PublishFails, SameLog
<1>2. Types' /\ \A q \in Procs : q # p => SameHandle(q)
  BY <1>1 DEF LogInv, Types, SameHandle, SameLog, handleVars
<1>3. Elsewhere(p)
  BY <1>1, <1>2 DEF Elsewhere, Held, leaseVars
<1>4. hand[p] = "created" /\ op'[p] = "none"
  BY <1>1 DEF LogInv, Types, HandleInv, OpenHandle, Steps
<1>5. HandleInv(p)'
  BY <1>1, <1>4 DEF LogInv, HandleInv, CreatedHandle, handleVars
<1> QED
  BY <1>1, <1>2, <1>3, <1>5, QuietStep

\* Who is in a write has the log open.
LEMMA Writing ==
  ASSUME LogInv, NEW p \in Procs, op[p] \in Steps \ {"none"}
  PROVE  /\ hand[p] = "open" /\ Held(p) /\ exists /\ gen[p] \in 1..MaxOpens
         /\ ~spoiled => Knows(p) /\ Phase(p)
BY DEF LogInv, HandleInv, CreatedHandle, OpenHandle, Steps

\* What is to be shown of a step of a write.
LEMMA WriteKeeps ==
  ASSUME LeaseInv, LogInv, NEW p \in Procs, op[p] \in Steps \ {"none"},
         UNCHANGED <<leaseVars, zstd, exists, hand, gen, opens>>, op'[p] \in Steps,
         Types', \A q \in Procs : q # p => SameHandle(q), FileInv',
         ~spoiled' => Knows(p)' /\ Phase(p)'
  PROVE  LogInv'
<1>1. hand[p] = "open" /\ Held(p) /\ exists /\ gen[p] \in 1..MaxOpens
  BY Writing
<1>2. Elsewhere(p) /\ Held(p)' /\ exists'
  BY <1>1 DEF Elsewhere, Held, leaseVars
<1>3. OpenHandle(p)'
  BY <1>2 DEF OpenHandle
<1>4. HandleInv(p)'
  BY <1>1, <1>3 DEF HandleInv
<1> QED
  BY <1>1, <1>2, <1>4, WriterStep

\* The file is cut, or the repair fails before or after it.
LEMMA RepairKeeps ==
  ASSUME LeaseInv, LogInv, NEW p \in Procs, Repair(p)
  PROVE  LogInv'
<1>1. /\ UNCHANGED <<leaseVars, zstd, exists, hand, gen, view, tail, batch, base, opens, spoiled, acked>>
      /\ op[p] = "repair" /\ op[p] \in Steps \ {"none"}
  BY DEF Repair, Steps
<1>2. \/ op'[p] = "none" /\ file' \in {file, Truncated} /\ torn' = torn
      \/ op'[p] = Stage(FALSE, tail[p]) /\ file' = Truncated /\ torn'[p] = FALSE
  BY DEF Repair, LogInv, Types
<1>3. op'[p] \in {"none", "rewrite", "append"} /\ (op'[p] = "append" => tail[p] = <<>>)
  BY <1>2 DEF Stage
<1>4. Types' /\ \A q \in Procs : q # p => SameHandle(q)
  BY <1>1 DEF LogInv, Types, SameHandle, Repair
<1>5. exists
  BY <1>1, Writing
<1>6. ASSUME ~spoiled PROVE FileInv' /\ Knows(p)' /\ Phase(p)'
  <2>1. Knows(p) /\ Aligned(p) /\ Types /\ FileInv
    BY <1>1, <1>6, Writing DEF Phase, LogInv
  <2>2. PICK t : t = Truncated
    OBVIOUS
  <2>3. Good(t) /\ ~CutLast(t) /\ IsPrefix(acked, Rows(t)) /\ Wholes(t) = t
    BY <1>6, <2>1, <2>2, TruncatedSettled DEF Settled, Wholes
  <2>4. view[p] = Rows(t) \o tail[p]
    <3>1. Rows(t) = IF zstd /\ CutLast(file) THEN Rows(Front(file)) ELSE Rows(file)
      BY <1>6, <2>1, <2>2, TruncatedSettled
    <3>2. CASE CutLast(file)
      <4>1. view[p] = Rows(file) /\ tail[p] = IF zstd THEN Last(file).rows ELSE <<>>
        BY <2>1, <3>2 DEF Aligned
      <4>2. Rows(file) = Rows(Front(file)) \o Last(file).rows /\ Rows(file) \o <<>> = Rows(file)
        BY <1>6, <2>1, <3>2, GoodSplit, RowsType, ConcatEmptySeq DEF FileInv, Good
      <4> QED
        BY <3>1, <3>2, <4>1, <4>2 DEF Types
    <3> QED
      BY <2>1, <3>1, <3>2 DEF Aligned
  <2>5. (file' = file /\ op'[p] = "none" /\ torn' = torn) \/ file' = t
    BY <1>2, <2>2
  <2>6. FileInv'
    BY <1>1, <1>5, <2>1, <2>3, <2>5 DEF FileInv, Wholes, CutLast
  <2>7. Knows(p)'
    BY <1>1, <1>3, <2>1 DEF Knows
  <2>8. ASSUME file' = t PROVE Phase(p)'
    BY <1>1, <1>3, <2>3, <2>4, <2>8 DEF Phase, Aligned, Settled, CutLast
  <2>9. ASSUME file' = file, op'[p] = "none", torn' = torn PROVE Phase(p)'
    <3>1. Aligned(p)'
      BY <1>1, <2>1, <2>9 DEF Aligned
    <3> QED
      BY <2>9, <3>1 DEF Phase
  <2> QED
    BY <2>5, <2>6, <2>7, <2>8, <2>9
<1>7. FileInv'
  BY <1>1, <1>5, <1>6 DEF FileInv
<1> QED
  BY <1>1, <1>3, <1>4, <1>6, <1>7, WriteKeeps DEF Steps

\* What an append or a rewrite continues.
LEMMA WrittenContinues ==
  ASSUME LogInv, NEW p \in Procs, op[p] \in {"rewrite", "rewriting", "append", "appending"}, ~spoiled,
         NEW g, Good(g), view[p] = Rows(g) \o tail[p]
  PROVE  /\ Numbered(Written(p), Len(Rows(g))) /\ Rows(g) \in Seq(Event) /\ InSequence(Rows(g))
         /\ Rows(g) \o Written(p) = IF op[p] \in {"rewrite", "rewriting"} THEN view[p] ELSE view[p] \o batch[p]
<1>1. Knows(p) /\ Rows(g) \in Seq(Event) /\ InSequence(Rows(g))
  BY Writing, RowsType DEF Steps, Good
<1>2. CASE op[p] \in {"rewrite", "rewriting"}
  <2>1. Written(p) = tail[p]
    BY <1>2 DEF Written
  <2> QED
    BY <1>1, <1>2, <2>1, NumberedOn DEF Knows
<1>3. CASE op[p] \in {"append", "appending"}
  <2>1. Written(p) = batch[p] /\ tail[p] = <<>> /\ Numbered(batch[p], Len(view[p]))
    BY <1>1, <1>3 DEF Written, Knows
  <2>2. view[p] = Rows(g)
    BY <1>1, <2>1, ConcatEmptySeq
  <2> QED
    BY <1>1, <1>3, <2>1, <2>2
<1> QED
  BY <1>2, <1>3

\* A part of the piece, or all of it, may reach the disk.
LEMMA WriteStartsKeeps ==
  ASSUME LeaseInv, LogInv, NEW p \in Procs, WriteStarts(p)
  PROVE  LogInv'
<1>1. /\ UNCHANGED <<leaseVars, zstd, exists, handleVars, batch, countVars, acked>>
      /\ op[p] \in {"rewrite", "append"} /\ op[p] \in Steps \ {"none"}
  BY DEF WriteStarts, Steps
<1>2. /\ op'[p] = IF op[p] = "rewrite" THEN "rewriting" ELSE "appending"
      /\ base'[p] = Len(file)
  BY DEF WriteStarts, LogInv, Types
<1>3. op'[p] \in {"rewriting", "appending"}
  BY <1>2
<1>4. Types' /\ \A q \in Procs : q # p => SameHandle(q)
  BY <1>1 DEF LogInv, Types, SameHandle, WriteStarts, handleVars, countVars
<1>5. exists
  BY <1>1, Writing
<1>6. ASSUME ~spoiled PROVE FileInv' /\ Knows(p)' /\ Phase(p)'
  <2>1. Knows(p) /\ Settled(file) /\ view[p] = Rows(file) \o tail[p] /\ FileInv
    BY <1>1, <1>6, Writing DEF Phase, LogInv
  <2>2. Good(file) /\ ~CutLast(file) /\ file \in Seq(Piece) /\ acked \in Seq(Event) /\ IsPrefix(acked, Rows(file))
    BY <1>6, <2>1 DEF Settled, Good, FileInv
  <2>3. /\ Numbered(Written(p), Len(Rows(file))) /\ Rows(file) \in Seq(Event) /\ InSequence(Rows(file))
        /\ Written(p) \in Seq(Event)
    BY <1>1, <1>6, <2>1, <2>2, WrittenContinues DEF Numbered
  <2>4. PICK k \in 0..Len(Written(p)), whole \in BOOLEAN :
          file' \in {file, Append(file, [rows |-> SubSeq(Written(p), 1, k), whole |-> whole])}
    BY DEF WriteStarts
  <2>5. PICK x : x = [rows |-> SubSeq(Written(p), 1, k), whole |-> whole]
    OBVIOUS
  <2>6. /\ SubSeq(Written(p), 1, k) \in Seq(Event)
        /\ Numbered(SubSeq(Written(p), 1, k), Len(Rows(file)))
    <3>1. PICK n \in Nat : n = Len(Rows(file))
      BY <2>3, LenProperties
    <3> QED
      BY <2>3, <3>1, NumberedCut
  <2>7. x \in Piece /\ x.rows \in Seq(Event) /\ InSequence(Rows(file) \o x.rows)
    <3>1. x \in Piece /\ x.rows = SubSeq(Written(p), 1, k)
      BY <2>5, <2>6 DEF Piece
    <3> QED
      BY <2>3, <2>6, <3>1, NumberedOn
  <2>8. PICK h : h = Append(file, x)
    OBVIOUS
  <2>9. /\ Good(h) /\ Rows(h) = Rows(file) \o x.rows /\ Wholes(h) \in {file, h}
        /\ SubSeq(h, 1, Len(file)) = file /\ SubSeq(file, 1, Len(file)) = file
    BY <2>2, <2>7, <2>8, GoodAppend, CutBack DEF Wholes
  <2>10. IsPrefix(acked, Rows(h))
    BY <2>2, <2>3, <2>7, <2>9, PrefixOn
  <2>11. file' \in {file, h}
    BY <2>4, <2>5, <2>8
  <2>12. Good(file') /\ SubSeq(file', 1, Len(file)) = file /\ IsPrefix(acked, Rows(Wholes(file')))
    <3>1. PICK f : f = file'
      OBVIOUS
    <3>2. Good(f) /\ SubSeq(f, 1, Len(file)) = file /\ IsPrefix(acked, Rows(Wholes(f)))
      BY <2>2, <2>9, <2>10, <2>11, <3>1 DEF Wholes
    <3> QED
      BY <3>1, <3>2
  <2>13. FileInv'
    BY <1>1, <1>5, <2>2, <2>12 DEF FileInv, Wholes, CutLast
  <2>14. Knows(p)'
    BY <1>1, <1>2, <2>1 DEF Knows, handleVars
  <2>15. BeforeAppend(p)' = file
    BY <1>2, <2>12 DEF BeforeAppend
  <2>16. Phase(p)'
    BY <1>1, <1>3, <2>1, <2>15 DEF Phase, Settled, CutLast, handleVars
  <2> QED
    BY <2>13, <2>14, <2>16
<1>7. FileInv'
  BY <1>1, <1>5, <1>6 DEF FileInv, countVars
<1> QED
  BY <1>1, <1>3, <1>4, <1>6, <1>7, WriteKeeps DEF Steps, handleVars, countVars

\* The piece is whole and synced.
LEMMA WriteSyncedKeeps ==
  ASSUME LeaseInv, LogInv, NEW p \in Procs, WriteSynced(p)
  PROVE  LogInv'
<1>1. /\ UNCHANGED <<leaseVars, zstd, exists, handleVars, batch, base, countVars, acked>>
      /\ op[p] \in {"rewriting", "appending"} /\ op[p] \in Steps \ {"none"}
      /\ file' = Append(BeforeAppend(p), [rows |-> Written(p), whole |-> TRUE])
  BY DEF WriteSynced, Steps
<1>2. op'[p] = IF op[p] = "rewriting" THEN "rewritten" ELSE "appended"
  BY DEF WriteSynced, LogInv, Types
<1>3. op'[p] \in {"rewritten", "appended"}
  BY <1>2
<1>4. Types' /\ \A q \in Procs : q # p => SameHandle(q)
  BY <1>1 DEF LogInv, Types, SameHandle, WriteSynced, handleVars, countVars
<1>5. exists
  BY <1>1, Writing
<1>6. ASSUME ~spoiled PROVE FileInv' /\ Knows(p)' /\ Phase(p)'
  <2>1. Knows(p) /\ Settled(BeforeAppend(p)) /\ view[p] = Rows(BeforeAppend(p)) \o tail[p] /\ FileInv
    BY <1>1, <1>6, Writing DEF Phase, LogInv
  <2>2. PICK g : g = BeforeAppend(p)
    OBVIOUS
  <2>3. Good(g) /\ ~CutLast(g) /\ view[p] = Rows(g) \o tail[p] /\ acked \in Seq(Event) /\ IsPrefix(acked, Rows(g))
    BY <1>6, <2>1, <2>2 DEF Settled, FileInv
  <2>4. /\ Numbered(Written(p), Len(Rows(g))) /\ Rows(g) \in Seq(Event) /\ InSequence(Rows(g))
        /\ Written(p) \in Seq(Event)
        /\ Rows(g) \o Written(p) = IF op[p] = "rewriting" THEN view[p] ELSE view[p] \o batch[p]
    BY <1>1, <1>6, <2>3, WrittenContinues DEF Numbered
  <2>5. PICK x \in Piece : x = [rows |-> Written(p), whole |-> TRUE]
    BY <2>4 DEF Piece
  <2>6. x.rows = Written(p) /\ x.whole /\ InSequence(Rows(g) \o x.rows)
    BY <2>4, <2>5, NumberedOn
  <2>7. PICK h : h = Append(g, x) /\ h = file'
    BY <1>1, <2>2, <2>5
  <2>8. Good(h) /\ Rows(h) = Rows(g) \o Written(p) /\ ~CutLast(h) /\ Wholes(h) = h
    BY <2>3, <2>6, <2>7, GoodAppend DEF Wholes
  <2>9. IsPrefix(acked, Rows(h))
    BY <2>3, <2>4, <2>8, PrefixOn
  <2>10. FileInv'
    BY <1>1, <1>5, <2>3, <2>7, <2>8, <2>9 DEF FileInv, Wholes, CutLast
  <2>11. Knows(p)'
    BY <1>1, <1>2, <2>1 DEF Knows, handleVars
  <2>12. Settled(file)'
    BY <1>1, <2>7, <2>8, <2>9 DEF Settled, CutLast
  <2>13. Phase(p)'
    BY <1>1, <1>2, <2>4, <2>7, <2>8, <2>12 DEF Phase, handleVars
  <2> QED
    BY <2>10, <2>11, <2>13
<1>7. FileInv'
  BY <1>1, <1>5, <1>6 DEF FileInv, countVars
<1> QED
  BY <1>1, <1>3, <1>4, <1>6, <1>7, WriteKeeps DEF Steps, handleVars, countVars

\* A rollback gives back what was there; when it fails nothing is claimed,
\* unless nothing was written.
LEMMA WriteFailsKeeps ==
  ASSUME LeaseInv, LogInv, NEW p \in Procs, WriteFails(p)
  PROVE  LogInv'
<1>1. /\ UNCHANGED <<leaseVars, zstd, exists, handleVars, batch, base, opens, acked>>
      /\ op[p] \in {"rewriting", "appending"} /\ op[p] \in Steps \ {"none"}
      /\ \/ file' = RolledBack(p) /\ UNCHANGED spoiled
         \/ UNCHANGED file /\ spoiled' = (spoiled \/ Len(file) # base[p])
  BY DEF WriteFails, Steps
<1>2. op'[p] = "none"
  BY DEF WriteFails, LogInv, Types
<1>3. Types' /\ \A q \in Procs : q # p => SameHandle(q)
  BY <1>1 DEF LogInv, Types, SameHandle, WriteFails, handleVars
<1>4. exists
  BY <1>1, Writing
<1>5. ASSUME ~spoiled' PROVE FileInv' /\ Knows(p)' /\ Phase(p)'
  <2>1. ~spoiled
    BY <1>1, <1>5
  <2>2. Knows(p) /\ Settled(BeforeAppend(p)) /\ view[p] = Rows(BeforeAppend(p)) \o tail[p] /\ FileInv
    BY <1>1, <2>1, Writing DEF Phase, LogInv
  <2>3. file' = BeforeAppend(p)
    <3>1. CASE UNCHANGED file /\ Len(file) = base[p]
      <4>1. SubSeq(file, 1, Len(file)) = file
        BY <2>1, <2>2, CutBack DEF FileInv, Good
      <4> QED
        BY <3>1, <4>1 DEF BeforeAppend
    <3> QED
      BY <1>1, <1>5, <3>1 DEF RolledBack
  <2>4. PICK g : g = BeforeAppend(p) /\ g = file'
    BY <2>3
  <2>5. Good(g) /\ ~CutLast(g) /\ view[p] = Rows(g) \o tail[p] /\ acked \in Seq(Event) /\ IsPrefix(acked, Rows(g))
    BY <2>1, <2>2, <2>4 DEF Settled, FileInv
  <2>6. FileInv'
    BY <1>1, <1>4, <2>4, <2>5 DEF FileInv, Wholes, CutLast
  <2>7. Knows(p)'
    BY <1>1, <1>2, <2>2 DEF Knows, handleVars
  <2>8. Phase(p)'
    BY <1>1, <1>2, <2>4, <2>5 DEF Phase, Aligned, CutLast, handleVars
  <2> QED
    BY <2>6, <2>7, <2>8
<1>6. FileInv'
  BY <1>1, <1>4, <1>5 DEF FileInv
<1>7. op'[p] \in Steps
  BY <1>2 DEF Steps
<1>8. UNCHANGED <<hand, gen>>
  BY <1>1 DEF handleVars
<1> QED
  BY <1>1, <1>3, <1>5, <1>6, <1>7, <1>8, WriteKeeps

\* What was synced counts when the file is closed.
LEMMA WriteResolvesKeeps ==
  ASSUME LeaseInv, LogInv, NEW p \in Procs, WriteResolves(p)
  PROVE  LogInv'
<1>1. /\ UNCHANGED <<leaseVars, zstd, exists, file, hand, gen, torn, batch, base, opens, spoiled>>
      /\ op[p] \in {"rewritten", "appended"} /\ op[p] \in Steps \ {"none"}
  BY DEF WriteResolves, Closes, Steps, countVars
<1>2. Types' /\ \A q \in Procs : q # p => SameHandle(q)
  BY <1>1 DEF LogInv, Types, SameHandle, WriteResolves, Closes
<1>3. exists
  BY <1>1, Writing
<1>4. \/ op[p] = "rewritten" /\ tail'[p] = <<>> /\ op'[p] = "append" /\ UNCHANGED <<view, acked>>
      \/ /\ op[p] = "appended" /\ view'[p] = view[p] \o batch[p] /\ acked' = view'[p]
         /\ op'[p] = "none" /\ UNCHANGED tail
  BY DEF WriteResolves, Closes, LogInv, Types
<1>5. ASSUME ~spoiled PROVE FileInv' /\ Knows(p)' /\ Phase(p)'
  <2>1. Knows(p) /\ Phase(p) /\ FileInv
    BY <1>1, <1>5, Writing DEF LogInv
  <2>2. /\ Good(file) /\ ~CutLast(file) /\ Wholes(file) = file /\ Rows(file) \in Seq(Event)
        /\ InSequence(Rows(file)) /\ IsPrefix(acked, Rows(file)) /\ Rows(file) \o <<>> = Rows(file)
    BY <1>1, <2>1, RowsType, ConcatEmptySeq DEF Phase, Settled, Wholes, Good
  <2>3. CASE op[p] = "rewritten"
    <3>1. tail'[p] = <<>> /\ op'[p] = "append" /\ view[p] = Rows(file) /\ UNCHANGED <<view, acked>>
      BY <1>4, <2>1, <2>3 DEF Phase
    <3>2. FileInv'
      BY <1>1, <2>1, <3>1 DEF FileInv, Wholes, CutLast
    <3>3. Knows(p)'
      BY <1>1, <2>1, <2>3, <3>1, EmptySeq DEF Knows
    <3>4. Phase(p)'
      BY <1>1, <2>2, <3>1 DEF Phase, Settled, CutLast
    <3> QED
      BY <3>2, <3>3, <3>4
  <2>4. CASE op[p] = "appended"
    <3>1. view'[p] = Rows(file) /\ acked' = Rows(file) /\ op'[p] = "none" /\ tail'[p] = <<>>
      BY <1>4, <2>1, <2>4 DEF Phase, Knows
    <3>2. IsPrefix(Rows(file), Rows(file))
      BY <2>2, PrefixFacts
    <3>3. FileInv'
      BY <1>1, <1>3, <2>2, <3>1, <3>2 DEF FileInv, Wholes, CutLast
    <3>4. Knows(p)'
      BY <1>1, <2>2, <3>1, <3>2, EmptySeq DEF Knows
    <3>5. Phase(p)'
      BY <1>1, <2>2, <3>1 DEF Phase, Aligned, CutLast
    <3> QED
      BY <3>3, <3>4, <3>5
  <2> QED
    BY <1>1, <2>3, <2>4
<1>6. FileInv'
  BY <1>1, <1>3, <1>5 DEF FileInv
<1>7. op'[p] \in Steps
  BY <1>4 DEF Steps
<1> QED
  BY <1>1, <1>2, <1>5, <1>6, <1>7, WriteKeeps

LEMMA CloseFailsKeeps ==
  ASSUME LeaseInv, LogInv, NEW p \in Procs, CloseFails(p)
  PROVE  LogInv'
<1>1. /\ UNCHANGED <<leaseVars, zstd, exists, handleVars, batch, base, opens>> /\ spoiled'
      /\ op[p] \in Steps \ {"none"}
  BY DEF CloseFails, Steps
<1>2. Types' /\ (\A q \in Procs : q # p => SameHandle(q)) /\ op'[p] \in Steps
  BY <1>1 DEF LogInv, Types, SameHandle, CloseFails, handleVars, Steps
<1>3. FileInv'
  BY <1>1, Writing DEF FileInv
<1>4. UNCHANGED <<hand, gen>>
  BY <1>1 DEF handleVars
<1> QED
  BY <1>1, <1>2, <1>3, <1>4, WriteKeeps

----------------------------------------------------------------------------
(* The theorems.                                                           *)

LEMMA InitLog == Init => LogInv
<1> SUFFICES ASSUME Init PROVE LogInv
  OBVIOUS
<1>1. IsPrefix(<<>>, Rows(Wholes(<<>>)))
  <2>1. Wholes(<<>>) = <<>>
    BY GoodEmpty DEF Wholes
  <2> QED
    BY <2>1, RowsOfNone, PrefixFacts, EmptySeq
<1>2. FileInv
  BY <1>1, GoodEmpty, EmptySeq DEF Init, FileInv
<1>3. Types
  BY DEF Init, Types
<1>4. ASSUME NEW p \in Procs PROVE HandleInv(p)
  BY DEF Init, HandleInv
<1> QED
  BY <1>2, <1>3, <1>4 DEF LogInv

LEMMA NextKeeps ==
  ASSUME LeaseInv, LogInv, [Next]_vars
  PROVE  LogInv'
<1>1. CASE UNCHANGED vars
  <2>1. FileInv' /\ Types'
    BY <1>1 DEF vars, handleVars, opVars, countVars, LogInv, FileInv, Types
  <2>2. SameLog /\ \A q \in Procs : SameHandle(q) /\ Held(q)' = Held(q)
    BY <1>1 DEF vars, handleVars, opVars, countVars, leaseVars, SameLog, SameHandle, Held
  <2>3. ASSUME NEW q \in Procs PROVE HandleInv(q)'
    BY <2>2, HandleStays DEF LogInv
  <2> QED
    BY <2>1, <2>3 DEF LogInv
<1>2. ASSUME NEW p \in Procs, Leases(p) \/ LeaseFault(p) \/ Handles(p) PROVE LogInv'
  BY <1>2, LeasesKeep, NewHandlesKeep, LoadKeeps, RefusedKeeps, LeavesKeep DEF Handles
<1>3. ASSUME NEW p \in Procs, Persists(p) PROVE LogInv'
  BY <1>3, PersistKeeps, PublishKeeps, PublishFailsKeeps, RepairKeeps, WriteStartsKeeps,
     WriteSyncedKeeps, WriteFailsKeeps, WriteResolvesKeeps, CloseFailsKeeps DEF Persists
<1> QED
  BY <1>1, <1>2, <1>3 DEF Next

LEMMA InvAlways == Spec => [](LeaseInv /\ LogInv)
<1>1. Init => LeaseInv /\ LogInv
  BY InitLease, InitLog
<1>2. LeaseInv /\ LogInv /\ [Next]_vars => (LeaseInv /\ LogInv)'
  BY LeaseKept, NextKeeps
<1> QED
  BY <1>1, <1>2, PTL DEF Spec

\* Wherever a process dies, in an append, a rollback, a rewrite or a repair, in
\* either encoding, the log decodes to all that was acknowledged, and perhaps a
\* part of the append that was under way.
THEOREM AckedAlwaysSurvives == Spec => []AckedSurvives
<1>1. LogInv => AckedSurvives
  BY InvSurvives
<1> QED
  BY <1>1, InvAlways, PTL

\* Between its writes an open handle counts as stored what is on disk, or what
\* it recovered and will write first.
THEOREM ViewAlwaysStored == Spec => []ViewIsStored
<1>1. LogInv => ViewIsStored
  BY InvStored
<1> QED
  BY <1>1, InvAlways, PTL

=============================================================================
