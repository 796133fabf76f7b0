------------------------ MODULE InboxRecovery_proofs ------------------------
(***************************************************************************)
(* Theorems about InboxRecovery, and with it about Inbox and ConsumedWork, *)
(* for every number of messages, turns, steps and crashes.                 *)
(***************************************************************************)
EXTENDS InboxRecovery, FiniteSetTheorems, SequenceTheorems, TLAPS

----------------------------------------------------------------------------
(* Lists of messages.                                                      *)

Inboxes == [Targets -> Seq(Message)]

LEMMA SeqRange ==
  ASSUME NEW S, NEW s \in Seq(S)
  PROVE  IsFiniteSet(ToSet(s)) /\ ToSet(s) \subseteq S
<1>1. s \in Surjection(1..Len(s), ToSet(s))
  BY DEF ToSet, Surjection
<1>2. IsFiniteSet(1..Len(s))
  <2>1. Len(s) \in Nat
    OBVIOUS
  <2> QED
    BY <2>1, FS_Interval
<1>3. IsFiniteSet(ToSet(s))
  BY <1>1, <1>2, FS_Surjection
<1>4. ToSet(s) \subseteq S
  BY DEF ToSet
<1> QED
  BY <1>3, <1>4

\* A sequence has as many elements as positions just when none is repeated.
LEMMA SeqCardinality ==
  ASSUME NEW S, NEW s \in Seq(S)
  PROVE  /\ Cardinality(ToSet(s)) \in Nat /\ Cardinality(ToSet(s)) <= Len(s)
         /\ Cardinality(ToSet(s)) = Len(s) <=> \A i, j \in DOMAIN s : s[i] = s[j] => i = j
<1>1. s \in Surjection(1..Len(s), ToSet(s))
  BY DEF ToSet, Surjection
<1>2. IsFiniteSet(1..Len(s)) /\ Cardinality(1..Len(s)) = Len(s)
  <2>1. Len(s) \in Nat
    OBVIOUS
  <2> QED
    BY <2>1, FS_Interval
<1>3. /\ Cardinality(ToSet(s)) <= Len(s)
      /\ Cardinality(ToSet(s)) = Len(s) <=> s \in Injection(1..Len(s), ToSet(s))
  BY <1>1, <1>2, FS_Surjection
<1>4. Cardinality(ToSet(s)) \in Nat
  BY SeqRange, FS_CardinalityType
<1>5. s \in Injection(1..Len(s), ToSet(s)) <=> \A i, j \in DOMAIN s : s[i] = s[j] => i = j
  <2>1. s \in [1..Len(s) -> ToSet(s)] /\ DOMAIN s = 1..Len(s)
    BY DEF ToSet
  <2> QED
    BY <2>1 DEF Injection, IsInjective
<1> QED
  BY <1>3, <1>4, <1>5

NoRepeats(s) == \A i, j \in DOMAIN s : s[i] = s[j] => i = j

\* Nothing is pending twice, said without counting.
IsDistinct(q) ==
    /\ NoRepeats(q["next-turn"]) /\ NoRepeats(q["next-step"])
    /\ ToSet(q["next-turn"]) \cap ToSet(q["next-step"]) = {}

LEMMA UniqueIsDistinct ==
  ASSUME NEW q \in Inboxes
  PROVE  IsUnique(q) <=> IsDistinct(q)
<1> DEFINE a == q["next-turn"]
           b == q["next-step"]
           A == Cardinality(ToSet(a))
           B == Cardinality(ToSet(b))
           C == Cardinality(ToSet(a) \cap ToSet(b))
<1>1. a \in Seq(Message) /\ b \in Seq(Message)
  BY DEF Inboxes, Targets
<1>2. IsFiniteSet(ToSet(a)) /\ IsFiniteSet(ToSet(b))
  BY <1>1, SeqRange
<1>3. Cardinality(ToSet(a) \cup ToSet(b)) = A + B - C
  BY <1>2, FS_Union
<1>4. IsFiniteSet(ToSet(a) \cap ToSet(b))
  BY <1>2, FS_Subset
<1>5. C \in Nat /\ (C = 0 <=> ToSet(a) \cap ToSet(b) = {})
  BY <1>4, FS_CardinalityType, FS_EmptySet
<1>6. /\ A \in Nat /\ A <= Len(a) /\ (A = Len(a) <=> NoRepeats(a))
      /\ B \in Nat /\ B <= Len(b) /\ (B = Len(b) <=> NoRepeats(b))
  BY <1>1, SeqCardinality DEF NoRepeats
<1>7. Len(a) \in Nat /\ Len(b) \in Nat
  BY <1>1
<1>8. IsUnique(q) <=> A + B - C = Len(a) + Len(b)
  BY <1>3 DEF IsUnique, Waiting
<1>9. (A + B - C = Len(a) + Len(b)) <=> (A = Len(a) /\ B = Len(b) /\ C = 0)
  <2> HIDE DEF A, B, C, a, b
  <2> QED
    BY <1>5, <1>6, <1>7
<1> QED
  BY <1>5, <1>6, <1>8, <1>9 DEF IsDistinct

LEMMA RestFacts ==
  ASSUME NEW S, NEW s \in Seq(S), NEW k \in 0..Len(s)
  PROVE  /\ SubSeq(s, k + 1, Len(s)) \in Seq(S)
         /\ ToSet(SubSeq(s, k + 1, Len(s))) \subseteq ToSet(s)
         /\ NoRepeats(s) => NoRepeats(SubSeq(s, k + 1, Len(s)))
         /\ k = 0 => SubSeq(s, k + 1, Len(s)) = s
         /\ k = Len(s) => SubSeq(s, k + 1, Len(s)) = <<>>
         /\ (NoRepeats(s) /\ k = 1) => Head(s) \notin ToSet(SubSeq(s, k + 1, Len(s)))
         /\ k = 1 => ToSet(s) = {Head(s)} \cup ToSet(SubSeq(s, k + 1, Len(s)))
<1> DEFINE r == SubSeq(s, k + 1, Len(s))
<1>0. PICK n \in Nat : n = Len(s) /\ k \in Nat /\ k <= n
  OBVIOUS
<1>1. Len(s) = n /\ k \in Nat /\ n \in Nat /\ k <= n /\ DOMAIN s = 1..n
  BY <1>0
<1>2. r \in Seq(S) /\ Len(r) = n - k /\ DOMAIN r = 1..n - k /\ \A i \in 1..n - k : r[i] = s[i + k]
  <2>1. k + 1 \in Int /\ n \in Int /\ \A i \in k + 1..n : s[i] \in S
    BY <1>1
  <2>2. /\ r \in Seq(S) /\ Len(r) = (IF k + 1 <= n THEN n - (k + 1) + 1 ELSE 0)
        /\ \A i \in 1..n - (k + 1) + 1 : r[i] = s[k + 1 + i - 1]
    BY <1>1, <2>1, SubSeqProperties
  <2> HIDE DEF r
  <2>3. Len(r) = n - k
    BY <1>1, <2>2
  <2>4. ASSUME NEW i \in 1..n - k PROVE r[i] = s[i + k]
    <3>1. i \in 1..n - (k + 1) + 1 /\ k + 1 + i - 1 = i + k
      BY <1>1
    <3> QED
      BY <2>2, <3>1
  <2> QED
    BY <2>2, <2>3, <2>4
<1>3. k = 0 => r = s
  BY <1>1, <1>2
<1>4. k = Len(s) => r = <<>>
  BY <1>1, <1>2
<1> HIDE DEF r
<1>5. ToSet(r) \subseteq ToSet(s)
  BY <1>1, <1>2 DEF ToSet
<1>6. NoRepeats(s) => NoRepeats(r)
  <2> SUFFICES ASSUME NoRepeats(s), NEW i \in DOMAIN r, NEW j \in DOMAIN r, r[i] = r[j] PROVE i = j
    BY DEF NoRepeats
  <2>1. i + k \in DOMAIN s /\ j + k \in DOMAIN s /\ s[i + k] = s[j + k] /\ i \in Int /\ j \in Int
    BY <1>1, <1>2
  <2>2. i + k = j + k
    BY <2>1 DEF NoRepeats
  <2> QED
    BY <1>1, <2>1, <2>2
<1>7. k = 1 => Head(s) = s[1] /\ 1 \in DOMAIN s
  BY <1>1
<1>8. (NoRepeats(s) /\ k = 1) => Head(s) \notin ToSet(r)
  <2> SUFFICES ASSUME NoRepeats(s), k = 1, NEW i \in DOMAIN r, r[i] = s[1] PROVE FALSE
    BY <1>2, <1>7 DEF ToSet
  <2>1. i \in Int /\ i >= 1 /\ i + 1 \in DOMAIN s /\ s[i + 1] = s[1]
    BY <1>1, <1>2
  <2>2. i + 1 = 1
    BY <1>7, <2>1 DEF NoRepeats
  <2> QED
    BY <2>1, <2>2
<1>9. k = 1 => ToSet(s) = {Head(s)} \cup ToSet(r)
  <2> SUFFICES ASSUME k = 1 PROVE ToSet(s) \subseteq {s[1]} \cup ToSet(r) /\ s[1] \in ToSet(s)
    BY <1>5, <1>7
  <2>1. ASSUME NEW i \in DOMAIN s, i # 1 PROVE s[i] \in ToSet(r)
    <3>1. i - 1 \in DOMAIN r /\ r[i - 1] = s[i]
      BY <1>1, <1>2, <2>1
    <3> QED
      BY <3>1 DEF ToSet
  <2> QED
    BY <1>7, <2>1 DEF ToSet
<1> QED
  BY <1>2, <1>3, <1>4, <1>5, <1>6, <1>8, <1>9 DEF r

\* The same for a joined sequence and for its prefix.
LEMMA JoinedRange ==
  ASSUME NEW S, NEW s \in Seq(S), NEW t \in Seq(S)
  PROVE  /\ s \o t \in Seq(S) /\ ToSet(s \o t) = ToSet(s) \cup ToSet(t)
         /\ Len(s \o t) = Len(s) + Len(t)
         /\ (NoRepeats(s) /\ NoRepeats(t) /\ ToSet(s) \cap ToSet(t) = {}) => NoRepeats(s \o t)
<1> DEFINE u == s \o t
<1>0. PICK m \in Nat, n \in Nat : m = Len(s) /\ n = Len(t)
  OBVIOUS
<1>1. /\ u \in Seq(S) /\ Len(u) = m + n /\ DOMAIN u = 1..m + n
      /\ \A i \in 1..m + n : u[i] = IF i <= m THEN s[i] ELSE t[i - m]
  BY <1>0
<1>2. DOMAIN s = 1..m /\ DOMAIN t = 1..n
  BY <1>0
<1> HIDE DEF u
<1>3. \A i \in 1..m : i \in DOMAIN u /\ u[i] = s[i]
  BY <1>1
<1>4. \A j \in 1..n : m + j \in DOMAIN u /\ u[m + j] = t[j]
  BY <1>1
<1>5. \A i \in DOMAIN u : (i \in 1..m /\ u[i] = s[i]) \/ (i - m \in 1..n /\ u[i] = t[i - m])
  BY <1>1
<1>6. ToSet(u) = ToSet(s) \cup ToSet(t)
  BY <1>2, <1>3, <1>4, <1>5 DEF ToSet
<1>7. ASSUME NoRepeats(s), NoRepeats(t), ToSet(s) \cap ToSet(t) = {} PROVE NoRepeats(u)
  <2> SUFFICES ASSUME NEW i \in DOMAIN u, NEW j \in DOMAIN u, u[i] = u[j] PROVE i = j
    BY DEF NoRepeats
  <2>0. \A a \in 1..m, b \in 1..n : s[a] # t[b]
    BY <1>2, <1>7 DEF ToSet
  <2>1. CASE i \in 1..m /\ u[i] = s[i]
    <3>1. j \in 1..m /\ u[j] = s[j]
      BY <1>5, <2>0, <2>1
    <3> QED
      BY <1>2, <1>7, <2>1, <3>1 DEF NoRepeats
  <2>2. CASE i - m \in 1..n /\ u[i] = t[i - m]
    <3>1. j - m \in 1..n /\ u[j] = t[j - m]
      BY <1>5, <2>0, <2>2
    <3>2. i - m = j - m
      BY <1>2, <1>7, <2>2, <3>1 DEF NoRepeats
    <3>3. i \in Int /\ j \in Int
      BY <1>1
    <3> QED
      BY <1>0, <3>2, <3>3
  <2> QED
    BY <1>5, <2>1, <2>2
<1> QED
  BY <1>0, <1>1, <1>6, <1>7 DEF u

LEMMA PrefixFacts ==
  ASSUME NEW S, NEW s \in Seq(S), NEW k \in 0..Len(s)
  PROVE  SubSeq(s, 1, k) \in Seq(S) /\ ToSet(SubSeq(s, 1, k)) \subseteq ToSet(s)
<1> DEFINE r == SubSeq(s, 1, k)
<1>0. PICK n \in Nat : n = Len(s) /\ k \in Nat /\ k <= n /\ DOMAIN s = 1..n
  OBVIOUS
<1>1. 1 \in Int /\ k \in Int /\ \A i \in 1..k : s[i] \in S
  BY <1>0
<1>2. /\ r \in Seq(S) /\ Len(r) = (IF 1 <= k THEN k - 1 + 1 ELSE 0)
      /\ \A i \in 1..k - 1 + 1 : r[i] = s[1 + i - 1]
  BY <1>1, SubSeqProperties
<1> HIDE DEF r
<1>3. Len(r) = k /\ DOMAIN r = 1..Len(r)
  BY <1>0, <1>2
<1>4. ASSUME NEW i \in 1..k PROVE r[i] = s[i] /\ i \in DOMAIN s
  <2>1. i \in 1..k - 1 + 1 /\ 1 + i - 1 = i /\ i \in 1..n
    BY <1>0
  <2> QED
    BY <1>0, <1>2, <2>1
<1>5. ToSet(r) \subseteq ToSet(s)
  BY <1>3, <1>4 DEF ToSet
<1> QED
  BY <1>2, <1>5 DEF r

----------------------------------------------------------------------------
(* Splices.                                                                *)

SpliceType == [target : Targets, start : Nat, removed : Nat, inserted : Seq(Message),
               canceled : BOOLEAN]

\* The positions of a splice lie inside the list.
IsInside(q, s) == s.start + s.removed <= Len(q[s.target])

LEMMA AppliedInbox ==
  ASSUME NEW q \in Inboxes, NEW s \in SpliceType, IsInside(q, s)
  PROVE  /\ Applied(q, s) \in Inboxes
         /\ Waiting(Applied(q, s)) \subseteq Waiting(q) \cup ToSet(s.inserted)
<1> DEFINE l == q[s.target]
           a == SubSeq(l, 1, s.start)
           b == SubSeq(l, s.start + s.removed + 1, Len(l))
           r == Applied(q, s)
<1>0. /\ s.target \in Targets /\ s.inserted \in Seq(Message) /\ l \in Seq(Message)
      /\ s.start \in Nat /\ s.removed \in Nat
  BY DEF SpliceType, Inboxes
<1>1. PICK n \in Nat : n = Len(l)
  BY <1>0
<1>2. s.start \in 0..n /\ s.start + s.removed \in 0..n
  BY <1>0, <1>1 DEF IsInside
<1>3. a \in Seq(Message) /\ ToSet(a) \subseteq ToSet(l)
  <2>1. s.start \in 0..Len(l)
    BY <1>1, <1>2
  <2> HIDE DEF l
  <2> QED
    BY <1>0, <2>1, PrefixFacts
<1>4. b \in Seq(Message) /\ ToSet(b) \subseteq ToSet(l)
  <2>1. PICK k \in 0..Len(l) : k = s.start + s.removed
    BY <1>1, <1>2
  <2>2. b = SubSeq(l, k + 1, Len(l))
    BY <2>1
  <2> HIDE DEF l
  <2> QED
    BY <1>0, <2>2, RestFacts
<1>5. /\ (a \o s.inserted) \o b \in Seq(Message)
      /\ ToSet((a \o s.inserted) \o b) = ToSet(a) \cup ToSet(s.inserted) \cup ToSet(b)
  <2> HIDE DEF a, b
  <2>1. a \o s.inserted \in Seq(Message) /\ ToSet(a \o s.inserted) = ToSet(a) \cup ToSet(s.inserted)
    BY <1>0, <1>3, JoinedRange
  <2>2. PICK c \in Seq(Message) : c = a \o s.inserted
    BY <2>1
  <2>3. c \o b \in Seq(Message) /\ ToSet(c \o b) = ToSet(c) \cup ToSet(b)
    BY <1>4, JoinedRange
  <2> QED
    BY <2>1, <2>2, <2>3
<1>6. r = [q EXCEPT ![s.target] = (a \o s.inserted) \o b]
  BY DEF Applied
<1> HIDE DEF a, b, r
<1>7. /\ r \in Inboxes /\ r[s.target] = (a \o s.inserted) \o b
      /\ \A t \in Targets : t # s.target => r[t] = q[t]
  BY <1>0, <1>5, <1>6 DEF Inboxes
<1>8. \A t \in Targets : ToSet(r[t]) \subseteq ToSet(q[t]) \cup ToSet(s.inserted)
  BY <1>3, <1>4, <1>5, <1>7
<1>9. Waiting(r) \subseteq Waiting(q) \cup ToSet(s.inserted)
  BY <1>8 DEF Waiting, Targets
<1> QED
  BY <1>7, <1>9 DEF r

\* clear and claim cut a list at its front.
Cut(q, t, k) == [q EXCEPT ![t] = SubSeq(@, k + 1, Len(@))]

CutCount(q, t, count) == IF count < Len(q[t]) THEN count ELSE Len(q[t])

Removal(t, k, discards) ==
    [target |-> t, start |-> 0, removed |-> k, inserted |-> <<>>, canceled |-> discards]

LEMMA CutFacts ==
  ASSUME NEW q \in Inboxes, NEW t \in Targets, NEW k \in 0..Len(q[t])
  PROVE  /\ Cut(q, t, k) \in Inboxes
         /\ Waiting(Cut(q, t, k)) \subseteq Waiting(q)
         /\ IsDistinct(q) => IsDistinct(Cut(q, t, k))
         /\ k = 0 => Cut(q, t, k) = q
         /\ \A u \in Targets : u # t => Cut(q, t, k)[u] = q[u]
         /\ Cut(q, t, k)[t] = SubSeq(q[t], k + 1, Len(q[t]))
<1> DEFINE b == SubSeq(q[t], k + 1, Len(q[t]))
           r == Cut(q, t, k)
<1>1. q[t] \in Seq(Message)
  BY DEF Inboxes
<1>2. /\ b \in Seq(Message) /\ ToSet(b) \subseteq ToSet(q[t])
      /\ NoRepeats(q[t]) => NoRepeats(b)
      /\ k = 0 => b = q[t]
  BY <1>1, RestFacts
<1>3. r = [q EXCEPT ![t] = b]
  BY DEF Cut
<1> HIDE DEF b, r
<1>4. r \in Inboxes /\ r[t] = b /\ \A u \in Targets : u # t => r[u] = q[u]
  BY <1>2, <1>3 DEF Inboxes
<1>5. Waiting(r) \subseteq Waiting(q)
  BY <1>2, <1>4 DEF Waiting, Targets
<1>6. IsDistinct(q) => IsDistinct(r)
  BY <1>2, <1>4 DEF IsDistinct, Targets
<1>7. k = 0 => r = q
  BY <1>2, <1>3 DEF Inboxes
<1> QED
  BY <1>4, <1>5, <1>6, <1>7 DEF b, r

LEMMA EmptiedIs ==
  ASSUME NEW q \in Inboxes, NEW t \in Targets, NEW count \in Nat, NEW d \in BOOLEAN,
         NEW k, k = CutCount(q, t, count)
  PROVE  /\ k \in 0..Len(q[t])
         /\ Emptied(q, t, count, d) = IF k = 0 THEN <<>> ELSE <<Removal(t, k, d)>>
         /\ Removal(t, k, d) \in SpliceType /\ IsInside(q, Removal(t, k, d))
         /\ Applied(q, Removal(t, k, d)) = Cut(q, t, k)
<1>1. PICK n \in Nat : n = Len(q[t]) /\ q[t] \in Seq(Message)
  BY DEF Inboxes
<1>2. k \in Nat /\ k <= n /\ k = IF count < n THEN count ELSE n
  BY <1>1 DEF CutCount
<1>3. ActualStart(q[t], 0) = 0
  BY <1>1 DEF ActualStart, Clamped
<1>4. ActualCount(q[t], 0, count) = k
  BY <1>1, <1>2 DEF ActualCount, Clamped
<1>5. Normalized(q, t, 0, count, <<>>, d)
        = [target |-> t, start |-> 0, removed |-> k, inserted |-> <<>>, canceled |-> d /\ k > 0]
  BY <1>3, <1>4, Zenon DEF Normalized
<1>6. Emptied(q, t, count, d) = IF k = 0 THEN <<>> ELSE <<Removal(t, k, d)>>
  <2>1. CASE k = 0
    BY <1>5, <2>1 DEF Emptied, ChangesNothing
  <2>2. CASE k # 0
    <3>1. (d /\ k > 0) = d
      BY <1>2, <2>2
    <3>2. Normalized(q, t, 0, count, <<>>, d) = Removal(t, k, d)
      BY <1>5, <3>1, Zenon DEF Removal
    <3>3. ~ChangesNothing(Removal(t, k, d))
      BY <2>2 DEF ChangesNothing, Removal
    <3>4. Emptied(q, t, count, d) = <<Removal(t, k, d)>>
      BY <3>2, <3>3, Zenon DEF Emptied
    <3> QED
      BY <2>2, <3>4
  <2> QED
    BY <2>1, <2>2
<1>7. Removal(t, k, d) \in SpliceType
  BY <1>2 DEF Removal, SpliceType
<1>8. IsInside(q, Removal(t, k, d))
  BY <1>1, <1>2 DEF IsInside, Removal
<1>9. Applied(q, Removal(t, k, d)) = Cut(q, t, k)
  <2>1. PICK b \in Seq(Message) : b = SubSeq(q[t], k + 1, Len(q[t]))
    <3>1. k \in 0..Len(q[t])
      BY <1>1, <1>2
    <3> QED
      BY <1>1, <3>1, RestFacts
  <2>2. SubSeq(q[t], 1, 0) = <<>>
    BY SubSeqEmpty
  <2>3. (<<>> \o <<>>) \o b = b
    OBVIOUS
  <2>4. SubSeq(q[t], 1, 0) \o <<>> \o SubSeq(q[t], 0 + k + 1, Len(q[t])) = b
    <3>1. 0 + k + 1 = k + 1
      BY <1>2
    <3> QED
      BY <2>1, <2>2, <2>3, <3>1
  <2>5. Applied(q, Removal(t, k, d))
          = [q EXCEPT ![t] = SubSeq(q[t], 1, 0) \o <<>> \o SubSeq(q[t], 0 + k + 1, Len(q[t]))]
    BY Zenon DEF Applied, Removal
  <2> QED
    BY <2>1, <2>4, <2>5 DEF Cut
<1> QED
  BY <1>1, <1>2, <1>6, <1>7, <1>8, <1>9

\* Folding at most one splice over an inbox, and then at most one more.
AppliedAll(q, splices) == IF splices = <<>> THEN q ELSE Applied(q, splices[1])

AtMostOne(splices) == splices = <<>> \/ \E s : splices = <<s>>

\* The fold of Mutates, and what FoldLeft computes.
AppliedEach(q, ss) == FoldLeft(Applied, q, ss)

Folds(f, q, ss) ==
    f = [S \in SUBSET DOMAIN ss |->
            IF S = {} THEN q ELSE LET x == Max(S) IN Applied(f[S \ {x}], ss[x])]

LEMMA FoldUnfolds ==
  ASSUME NEW q, NEW ss
  PROVE  AppliedEach(q, ss) = (CHOOSE f : Folds(f, q, ss))[DOMAIN ss]
  BY DEF AppliedEach, FoldLeft, MapThenFoldSet, Folds

LEMMA FoldsFacts ==
  ASSUME NEW q, NEW ss, NEW f, Folds(f, q, ss), NEW S \in SUBSET DOMAIN ss
  PROVE  f[S] = IF S = {} THEN q ELSE Applied(f[S \ {Max(S)}], ss[Max(S)])
  BY Zenon DEF Folds

LEMMA FoldsNext ==
  ASSUME NEW q, NEW ss, NEW f, Folds(f, q, ss), NEW S \in SUBSET DOMAIN ss, S # {},
         NEW x, x = Max(S), NEW T, T = S \ {x}
  PROVE  f[S] = Applied(f[T], ss[x])
<1>1. f[S] = IF S = {} THEN q ELSE Applied(f[S \ {Max(S)}], ss[Max(S)])
  BY FoldsFacts
<1> QED
  BY <1>1

\* Over the domain of one or two splices: take the last one off first.
LEMMA FoldsExists ==
  ASSUME NEW q, NEW ss, NEW f,
         \/ /\ DOMAIN ss = {1}
            /\ f = [S \in SUBSET {1} |-> IF S = {} THEN q ELSE Applied(q, ss[1])]
         \/ /\ DOMAIN ss = {1, 2}
            /\ f = [S \in SUBSET {1, 2} |->
                      IF S = {} THEN q ELSE IF S = {1} THEN Applied(q, ss[1])
                      ELSE IF S = {2} THEN Applied(q, ss[2])
                      ELSE Applied(Applied(q, ss[1]), ss[2])]
  PROVE  Folds(f, q, ss)
<1>1. Max({1}) = 1 /\ Max({2}) = 2 /\ Max({1, 2}) = 2
  BY DEF Max
<1>2. {1} # {} /\ {2} # {} /\ {1, 2} # {} /\ {1} # {2} /\ {1, 2} # {1} /\ {1, 2} # {2}
  OBVIOUS
<1>3. {1} \ {1} = {} /\ {2} \ {2} = {} /\ {1, 2} \ {2} = {1}
  OBVIOUS
<1>4. CASE /\ DOMAIN ss = {1}
           /\ f = [S \in SUBSET {1} |-> IF S = {} THEN q ELSE Applied(q, ss[1])]
  <2>1. f[{}] = q
    BY <1>4
  <2>2. ASSUME NEW S \in SUBSET {1}
        PROVE  (IF S = {} THEN q ELSE Applied(q, ss[1]))
                 = (IF S = {} THEN q ELSE LET x == Max(S) IN Applied(f[S \ {x}], ss[x]))
    <3>1. S = {} \/ S = {1}
      OBVIOUS
    <3> QED
      BY <1>1, <1>2, <1>3, <2>1, <3>1, Zenon
  <2> QED
    BY <1>4, <2>2, Zenon DEF Folds
<1>5. CASE /\ DOMAIN ss = {1, 2}
           /\ f = [S \in SUBSET {1, 2} |->
                      IF S = {} THEN q ELSE IF S = {1} THEN Applied(q, ss[1])
                      ELSE IF S = {2} THEN Applied(q, ss[2])
                      ELSE Applied(Applied(q, ss[1]), ss[2])]
  <2> DEFINE E(S) == IF S = {} THEN q ELSE IF S = {1} THEN Applied(q, ss[1])
                     ELSE IF S = {2} THEN Applied(q, ss[2])
                     ELSE Applied(Applied(q, ss[1]), ss[2])
  <2>1. f[{}] = q /\ f[{1}] = Applied(q, ss[1])
    BY <1>2, <1>5
  <2>2. ASSUME NEW S \in SUBSET {1, 2}
        PROVE  E(S) = (IF S = {} THEN q ELSE LET x == Max(S) IN Applied(f[S \ {x}], ss[x]))
    <3>1. S = {} \/ S = {1} \/ S = {2} \/ S = {1, 2}
      <4>0. \A x \in S : x = 1 \/ x = 2
        OBVIOUS
      <4>1. CASE 1 \in S /\ 2 \in S
        BY <4>0, <4>1
      <4>2. CASE 1 \in S /\ 2 \notin S
        BY <4>0, <4>2
      <4>3. CASE 1 \notin S /\ 2 \in S
        BY <4>0, <4>3
      <4>4. CASE 1 \notin S /\ 2 \notin S
        BY <4>0, <4>4
      <4> QED
        BY <4>1, <4>2, <4>3, <4>4
    <3>2. CASE S = {}
      BY <3>2
    <3>3. CASE S = {1}
      BY <1>1, <1>2, <1>3, <2>1, <3>3, Zenon
    <3>4. CASE S = {2}
      BY <1>1, <1>2, <1>3, <2>1, <3>4, Zenon
    <3>5. CASE S = {1, 2}
      BY <1>1, <1>2, <1>3, <2>1, <3>5, Zenon
    <3> QED
      BY <3>1, <3>2, <3>3, <3>4, <3>5
  <2> QED
    BY <1>5, <2>2, Zenon DEF Folds
<1> QED
  BY <1>4, <1>5

LEMMA FoldOfOne ==
  ASSUME NEW q, NEW s
  PROVE  AppliedEach(q, <<s>>) = Applied(q, s)
<1>1. PICK ss : ss = <<s>>
  OBVIOUS
<1>2. DOMAIN ss = {1} /\ ss[1] = s
  BY <1>1
<1>3. \E f : Folds(f, q, ss)
  BY <1>2, FoldsExists
<1>4. PICK f : f = (CHOOSE g : Folds(g, q, ss)) /\ Folds(f, q, ss)
  BY <1>3, Zenon
<1>5. Max({1}) = 1 /\ {1} # {} /\ {1} \ {1} = {}
  BY DEF Max
<1>6. {1} \in SUBSET DOMAIN ss /\ {} \in SUBSET DOMAIN ss
  BY <1>2
<1>7. f[{1}] = Applied(f[{}], ss[1]) /\ f[{}] = q
  BY <1>4, <1>5, <1>6, FoldsFacts
<1> QED
  BY <1>1, <1>2, <1>4, <1>7, FoldUnfolds

LEMMA FoldOfTwo ==
  ASSUME NEW q, NEW s, NEW r, NEW ss, ss = <<s, r>>
  PROVE  AppliedEach(q, ss) = Applied(Applied(q, s), r)
<1>2. DOMAIN ss = {1, 2} /\ ss[1] = s /\ ss[2] = r
  OBVIOUS
<1>3. \E f : Folds(f, q, ss)
  BY <1>2, FoldsExists
<1>4. PICK f : f = (CHOOSE g : Folds(g, q, ss)) /\ Folds(f, q, ss)
  BY <1>3, Zenon
<1>5. /\ Max({1}) = 1 /\ Max({1, 2}) = 2 /\ {1} # {} /\ {1, 2} # {}
      /\ {1} \ {1} = {} /\ {1, 2} \ {2} = {1}
  BY DEF Max
<1>6. {1, 2} \in SUBSET DOMAIN ss /\ {1} \in SUBSET DOMAIN ss /\ {} \in SUBSET DOMAIN ss
  BY <1>2
<1>7. f[{1, 2}] = Applied(f[{1}], ss[2]) /\ f[{1}] = Applied(f[{}], ss[1]) /\ f[{}] = q
  <2>1. f[{1, 2}] = Applied(f[{1}], ss[2])
    BY <1>4, <1>5, <1>6, FoldsNext
  <2>2. f[{1}] = Applied(f[{}], ss[1])
    BY <1>4, <1>5, <1>6, FoldsNext
  <2>3. f[{}] = q
    BY <1>4, <1>6, FoldsFacts, Zenon
  <2> QED
    BY <2>1, <2>2, <2>3
<1>8. AppliedEach(q, ss) = f[{1, 2}]
  BY <1>2, <1>4, FoldUnfolds, Zenon
<1> QED
  BY <1>2, <1>7, <1>8, Zenon

LEMMA FoldOfNone ==
  ASSUME NEW q
  PROVE  AppliedEach(q, <<>>) = q
<1>1. PICK ss : ss = <<>>
  OBVIOUS
<1>2. DOMAIN ss = {}
  BY <1>1
<1>3. Folds([S \in SUBSET {} |-> q], q, ss)
  BY <1>2, \A S \in SUBSET {} : S = {} DEF Folds
<1>4. PICK f : f = (CHOOSE g : Folds(g, q, ss)) /\ Folds(f, q, ss)
  BY <1>3, Zenon
<1>5. f[{}] = q
  BY <1>2, <1>4, FoldsFacts
<1> QED
  BY <1>1, <1>2, <1>4, <1>5, FoldUnfolds

LEMMA PairIsJoined ==
  ASSUME NEW s, NEW r
  PROVE  <<s>> \o <<r>> = <<s, r>>
<1>1. <<s>> \in Seq({s, r}) /\ r \in {s, r}
  OBVIOUS
<1>2. Append(<<s>>, r) = <<s>> \o <<r>>
  BY <1>1, AppendIsConcat
<1>3. Append(<<s>>, r) \in Seq({s, r})
  BY <1>1, AppendProperties
<1>4. <<s, r>> \in Seq({s, r})
  OBVIOUS
<1>5. PICK a \in Seq({s, r}), c \in Seq({s, r}) : a = Append(<<s>>, r) /\ c = <<s, r>>
  BY <1>3, <1>4, Zenon
<1>6. Len(<<s>>) = 1 /\ <<s>>[1] = s
  OBVIOUS
<1>7. Len(a) = 2 /\ a[1] = s /\ a[2] = r
  BY <1>1, <1>5, <1>6, AppendProperties
<1>8. Len(c) = 2 /\ c[1] = s /\ c[2] = r
  BY <1>5
<1>9. a = c
  BY <1>7, <1>8, SeqEqual
<1> QED
  BY <1>2, <1>5, <1>9

\* Folding at most one splice over an inbox, and then at most one more.
LEMMA FoldIs ==
  ASSUME NEW q, NEW e, NEW g, AtMostOne(e), AtMostOne(g)
  PROVE  AppliedEach(q, e \o g) = AppliedAll(AppliedAll(q, e), g)
<1>1. CASE e = <<>> /\ g = <<>>
  <2>1. e \o g = <<>>
    BY <1>1
  <2> QED
    BY <1>1, <2>1, FoldOfNone, Zenon DEF AppliedAll
<1>2. ASSUME e = <<>>, NEW s, g = <<s>> PROVE AppliedEach(q, e \o g) = AppliedAll(AppliedAll(q, e), g)
  <2>1. e \o g = <<s>> /\ g # <<>> /\ g[1] = s
    BY <1>2
  <2> QED
    BY <1>2, <2>1, FoldOfOne, Zenon DEF AppliedAll
<1>3. ASSUME g = <<>>, NEW s, e = <<s>> PROVE AppliedEach(q, e \o g) = AppliedAll(AppliedAll(q, e), g)
  <2>1. e \o g = <<s>> /\ e # <<>> /\ e[1] = s
    BY <1>3
  <2> QED
    BY <1>3, <2>1, FoldOfOne, Zenon DEF AppliedAll
<1>4. ASSUME NEW s, e = <<s>>, NEW r, g = <<r>>
      PROVE  AppliedEach(q, e \o g) = AppliedAll(AppliedAll(q, e), g)
  <2>1. <<s>> \o <<r>> = <<s, r>>
    BY PairIsJoined
  <2>2. e \o g = <<s, r>> /\ e # <<>> /\ e[1] = s /\ g # <<>> /\ g[1] = r
    BY <1>4, <2>1
  <2> QED
    <3>1. AppliedAll(q, e) = Applied(q, s)
      BY <2>2, Zenon DEF AppliedAll
    <3>2. AppliedAll(Applied(q, s), g) = Applied(Applied(q, s), r)
      BY <2>2, Zenon DEF AppliedAll
    <3>3. AppliedAll(AppliedAll(q, e), g) = Applied(Applied(q, s), r)
      BY <3>1, <3>2
    <3>4. AppliedEach(q, e \o g) = Applied(Applied(q, s), r)
      <4>1. e \o g = <<s, r>>
        BY <2>2
      <4> QED
        BY <4>1, FoldOfTwo
    <3> QED
      BY <3>3, <3>4, Zenon
<1> QED
  BY <1>1, <1>2, <1>3, <1>4, Zenon DEF AtMostOne

----------------------------------------------------------------------------
(* The log as its readers fold it.                                         *)

Work == [open : Nat, stepped : SUBSET Nat, claimed : SUBSET Nat, end : Nat, dropped : BOOLEAN]

\* What the stored log says, apart from the scan of repair.ts.
Folded == [inbox : Inboxes, work : Work, last : Nat, taken : SUBSET (Message \X Nat),
           admitted : [Message -> Nat]]

Stored == [inbox |-> inbox, work |-> work, last |-> lastTurn, taken |-> taken,
           admitted |-> admitted]

\* Store, as an operator.
TakenAfter(s, e) ==
    IF IsClaim(e)
    THEN s.taken \cup {<<m, s.work.open>> : m \in Waiting(s.inbox) \ Waiting(Applied(s.inbox, e.arg))}
    ELSE {t \in s.taken : Worked(s.work, e).end = s.work.end \/ t[2] # Worked(s.work, e).end}

After(s, e) ==
    [inbox    |-> IF IsSplice(e) THEN Applied(s.inbox, e.arg) ELSE s.inbox,
     work     |-> Worked(s.work, e),
     last     |-> IF e.type = "turn/start" THEN e.turn ELSE s.last,
     taken    |-> TakenAfter(s, e),
     admitted |-> IF e.type = "user/message" THEN [s.admitted EXCEPT ![e.arg] = @ + 1]
                                             ELSE s.admitted]

LEMMA StoreIsAfter ==
  ASSUME NEW e, Store(e)
  PROVE  Stored' = After(Stored, e)
  BY Zenon DEF Store, Stored, After, Taken, TakenAfter

AllWaived(s, w) == \A t \in s.taken : t[1] \in w

\* A message is pending or admitted, at most one of them and once, and was
\* sent; what was taken belongs to the open turn, which counts as having
\* claimed, or was given up; turns are numbered upwards.
Good(s, n, w) ==
    /\ IsUnique(s.inbox)
    /\ \A m \in Message : s.admitted[m] \in {0, 1} /\ (m \in Waiting(s.inbox) => s.admitted[m] = 0)
    /\ \A m \in Message : (s.admitted[m] # 0 \/ m \in Waiting(s.inbox)) => m <= n
    /\ \A t \in s.taken :
           \/ t[2] = s.work.open /\ s.work.open # 0 /\ s.work.open \in s.work.claimed
           \/ t[1] \in w
    /\ s.work.end <= s.last /\ s.work.open \in {0, s.last}
    /\ s.work.open # 0 => s.work.end < s.work.open

SpliceFits(s, e, n) ==
    /\ IsSplice(e) /\ e.arg \in SpliceType
    /\ IsInside(s.inbox, e.arg) /\ IsUnique(Applied(s.inbox, e.arg))
    /\ \A m \in ToSet(e.arg.inserted) : m <= n /\ s.admitted[m] = 0
    /\ IsClaim(e) => s.work.open # 0

EndFits(s, e, w) ==
    /\ e.type = "turn/end" /\ e.turn = s.work.open /\ s.work.open # 0
    /\ e.turn \in s.work.stepped \/ e.arg # Completed \/ AllWaived(s, w)

MessageFits(s, e, n) ==
    /\ e.type = "user/message" /\ e.arg \in Message /\ e.arg <= n
    /\ s.admitted[e.arg] = 0 /\ e.arg \notin Waiting(s.inbox)

\* What is logged after s, so that what follows is good again.
Fits(s, e, n, w) ==
    \/ e.type = "turn/start" /\ s.work.open = 0 /\ e.turn = s.last + 1
    \/ e.type = "step/start" /\ e.turn \in Nat
    \/ e.type = "step/end"
    \/ EndFits(s, e, w)
    \/ MessageFits(s, e, n)
    \/ SpliceFits(s, e, n)

LEMMA StartKeepsGood ==
  ASSUME NEW s \in Folded, NEW n \in Nat, NEW w, Good(s, n, w), NEW e,
         e.type = "turn/start", s.work.open = 0, e.turn = s.last + 1
  PROVE  /\ After(s, e) \in Folded /\ Good(After(s, e), n, w)
         /\ After(s, e).inbox = s.inbox /\ After(s, e).admitted = s.admitted
         /\ After(s, e).last = e.turn /\ After(s, e).work.open = e.turn
         /\ AllWaived(After(s, e), w)
<1> DEFINE r == After(s, e)
<1>0. s.work \in Work /\ s.last \in Nat /\ s.work.open \in Nat /\ s.work.end \in Nat
  BY DEF Folded, Work
<1>1. ~IsSplice(e) /\ ~IsClaim(e) /\ e.type # "user/message"
  BY DEF IsSplice, IsClaim
<1>2. Worked(s.work, e) = [s.work EXCEPT !.open = e.turn]
  BY <1>1 DEF Worked
<1>3. /\ Worked(s.work, e) \in Work /\ Worked(s.work, e).open = e.turn
      /\ Worked(s.work, e).end = s.work.end /\ Worked(s.work, e).claimed = s.work.claimed
  BY <1>0, <1>2 DEF Work
<1>4. TakenAfter(s, e) = s.taken
  BY <1>1, <1>3 DEF TakenAfter
<1>5. r = [inbox |-> s.inbox, work |-> Worked(s.work, e), last |-> e.turn, taken |-> s.taken,
           admitted |-> s.admitted]
  BY <1>1, <1>4 DEF After
<1> HIDE DEF r
<1>6. r \in Folded
  BY <1>0, <1>3, <1>5 DEF Folded
<1>7. AllWaived(s, w)
  BY DEF Good, AllWaived
<1>8. Good(r, n, w)
  BY <1>0, <1>3, <1>5, <1>7 DEF Good, AllWaived
<1>9. r.inbox = s.inbox /\ r.admitted = s.admitted /\ r.last = e.turn /\ r.work.open = e.turn
  BY <1>3, <1>5
<1>10. AllWaived(r, w)
  BY <1>5, <1>7 DEF AllWaived
<1> QED
  BY <1>6, <1>8, <1>9, <1>10 DEF r

LEMMA StepKeepsGood ==
  ASSUME NEW s \in Folded, NEW n \in Nat, NEW w, Good(s, n, w), NEW e,
         (e.type = "step/start" /\ e.turn \in Nat) \/ e.type = "step/end"
  PROVE  /\ After(s, e) \in Folded /\ Good(After(s, e), n, w)
         /\ After(s, e).inbox = s.inbox /\ After(s, e).admitted = s.admitted
         /\ After(s, e).last = s.last /\ After(s, e).work.open = s.work.open
         /\ s.work.stepped \subseteq After(s, e).work.stepped
         /\ e.type = "step/start" => e.turn \in After(s, e).work.stepped
<1> DEFINE r == After(s, e)
<1>0. s.work \in Work
  BY DEF Folded
<1>1. ~IsSplice(e) /\ ~IsClaim(e) /\ e.type # "user/message" /\ e.type # "turn/start"
  BY DEF IsSplice, IsClaim
<1>2. \/ Worked(s.work, e) = [s.work EXCEPT !.stepped = @ \cup {e.turn}] /\ e.turn \in Nat
      \/ Worked(s.work, e) = s.work
  BY <1>1 DEF Worked
<1>3. /\ Worked(s.work, e) \in Work /\ Worked(s.work, e).open = s.work.open
      /\ Worked(s.work, e).end = s.work.end /\ Worked(s.work, e).claimed = s.work.claimed
  BY <1>0, <1>2 DEF Work
<1>4. TakenAfter(s, e) = s.taken
  BY <1>1, <1>3 DEF TakenAfter
<1>5. r = [inbox |-> s.inbox, work |-> Worked(s.work, e), last |-> s.last, taken |-> s.taken,
           admitted |-> s.admitted]
  BY <1>1, <1>4 DEF After
<1> HIDE DEF r
<1>6. r \in Folded
  BY <1>0, <1>3, <1>5 DEF Folded
<1>7. Good(r, n, w)
  BY <1>0, <1>3, <1>5 DEF Good
<1>8. /\ s.work.stepped \subseteq Worked(s.work, e).stepped
      /\ e.type = "step/start" => e.turn \in Worked(s.work, e).stepped
  <2>1. CASE e.type = "step/start"
    <3>1. Worked(s.work, e) = [s.work EXCEPT !.stepped = @ \cup {e.turn}]
      BY <1>1, <2>1 DEF Worked
    <3> QED
      BY <1>0, <3>1 DEF Work
  <2>2. CASE e.type # "step/start"
    <3>1. Worked(s.work, e) = s.work
      BY <1>1, <2>2 DEF Worked
    <3> QED
      BY <2>2, <3>1
  <2> QED
    BY <2>1, <2>2
<1>9. /\ r.inbox = s.inbox /\ r.admitted = s.admitted /\ r.last = s.last
      /\ r.work = Worked(s.work, e)
  BY <1>5
<1> QED
  BY <1>3, <1>6, <1>7, <1>8, <1>9 DEF r

LEMMA EndKeepsGood ==
  ASSUME NEW s \in Folded, NEW n \in Nat, NEW w, Good(s, n, w), NEW e, EndFits(s, e, w)
  PROVE  /\ After(s, e) \in Folded /\ Good(After(s, e), n, w)
         /\ After(s, e).inbox = s.inbox /\ After(s, e).admitted = s.admitted
         /\ After(s, e).last = s.last /\ After(s, e).work.open = 0
<1> DEFINE r == After(s, e)
           c == e.arg = Completed
           x == Worked(s.work, e)
<1>0. s.work \in Work /\ s.work.open \in Nat /\ s.work.end \in Nat /\ e.turn \in Nat /\ s.last \in Nat
  BY DEF Folded, Work, EndFits
<1>1. ~IsSplice(e) /\ ~IsClaim(e) /\ e.type # "user/message" /\ e.type # "turn/start"
  BY DEF IsSplice, IsClaim, EndFits
<1>2. x = WithTurnEnd(s.work, e.turn, c)
  BY <1>1 DEF Worked, EndFits
<1>3. /\ x \in Work /\ x.open = 0
      /\ x.end = IF Accounts(s.work, e.turn, c) THEN e.turn ELSE s.work.end
  <2>1. PICK y : y = [s.work EXCEPT !.open = 0, !.stepped = @ \ {e.turn}, !.claimed = @ \ {e.turn}]
    OBVIOUS
  <2>2. y \in Work /\ y.open = 0 /\ y.end = s.work.end
    BY <1>0, <2>1 DEF Work
  <2>3. x = IF Accounts(s.work, e.turn, c) THEN [y EXCEPT !.end = e.turn, !.dropped = FALSE] ELSE y
    BY <1>2, <2>1, Zenon DEF WithTurnEnd
  <2> HIDE DEF x, c
  <2>4. CASE Accounts(s.work, e.turn, c)
    BY <1>0, <2>2, <2>3, <2>4 DEF Work
  <2>5. CASE ~Accounts(s.work, e.turn, c)
    BY <2>2, <2>3, <2>5
  <2> QED
    BY <2>4, <2>5
<1>4. TakenAfter(s, e) = {t \in s.taken : x.end = s.work.end \/ t[2] # x.end}
  BY <1>1 DEF TakenAfter
<1>5. r = [inbox |-> s.inbox, work |-> x, last |-> s.last,
           taken |-> {t \in s.taken : x.end = s.work.end \/ t[2] # x.end}, admitted |-> s.admitted]
  BY <1>1, <1>4 DEF After
<1> HIDE DEF r, x
<1>6. r \in Folded
  BY <1>0, <1>3, <1>5 DEF Folded
<1>7. AllWaived(r, w)
  <2> SUFFICES ASSUME NEW t \in s.taken, x.end = s.work.end \/ t[2] # x.end, t[1] \notin w PROVE FALSE
    BY <1>5 DEF AllWaived
  <2>1. t[2] = s.work.open /\ s.work.open # 0 /\ s.work.open \in s.work.claimed
    BY DEF Good
  <2>2. e.turn = s.work.open /\ s.work.end < s.work.open /\ ~AllWaived(s, w)
    BY <2>1 DEF Good, EndFits, AllWaived
  <2>3. Accounts(s.work, e.turn, c)
    BY <2>1, <2>2 DEF EndFits, Accounts
  <2> QED
    BY <1>0, <1>3, <2>1, <2>2, <2>3
<1>8. Good(r, n, w)
  BY <1>0, <1>3, <1>5, <1>7 DEF Good, AllWaived, EndFits
<1> QED
  BY <1>3, <1>5, <1>6, <1>8 DEF r

LEMMA MessageKeepsGood ==
  ASSUME NEW s \in Folded, NEW n \in Nat, NEW w, Good(s, n, w), NEW e, MessageFits(s, e, n)
  PROVE  /\ After(s, e) \in Folded /\ Good(After(s, e), n, w)
         /\ After(s, e) = [s EXCEPT !.admitted = [@ EXCEPT ![e.arg] = 1]]
<1> DEFINE r == After(s, e)
           a == [s.admitted EXCEPT ![e.arg] = 1]
<1>0. s.admitted \in [Message -> Nat] /\ e.arg \in Message /\ s.admitted[e.arg] = 0 /\ s.work \in Work
  BY DEF Folded, MessageFits
<1>1. ~IsSplice(e) /\ ~IsClaim(e) /\ e.type = "user/message"
  BY DEF IsSplice, IsClaim, MessageFits
<1>2. Worked(s.work, e) = s.work
  BY <1>1 DEF Worked
<1>3. TakenAfter(s, e) = s.taken
  BY <1>1, <1>2 DEF TakenAfter
<1>4. [s.admitted EXCEPT ![e.arg] = @ + 1] = a
  BY <1>0
<1>5. r = [inbox |-> s.inbox, work |-> s.work, last |-> s.last, taken |-> s.taken, admitted |-> a]
  BY <1>1, <1>2, <1>3, <1>4 DEF After
<1>6. a \in [Message -> Nat] /\ a[e.arg] = 1 /\ \A m \in Message : m # e.arg => a[m] = s.admitted[m]
  BY <1>0
<1> HIDE DEF r, a
<1>7. r \in Folded
  BY <1>5, <1>6 DEF Folded
<1>8. Good(r, n, w)
  BY <1>0, <1>5, <1>6 DEF Good, MessageFits
<1>9. r = [s EXCEPT !.admitted = a]
  BY <1>5 DEF Folded
<1> QED
  BY <1>7, <1>8, <1>9 DEF r, a

LEMMA SplicedWork ==
  ASSUME NEW w \in Work, NEW s \in SpliceType
  PROVE  LET x == WithSplice(w, s) IN
         /\ x \in Work /\ x.open = w.open /\ x.end = w.end /\ x.stepped = w.stepped
         /\ w.claimed \subseteq x.claimed
         /\ (s.removed # 0 /\ ~s.canceled /\ w.open # 0) => w.open \in x.claimed
<1> DEFINE x == WithSplice(w, s)
<1>1. CASE s.removed = 0
  BY <1>1 DEF WithSplice
<1>2. CASE s.removed # 0 /\ s.canceled
  <2>1. PICK d \in BOOLEAN : d = (w.dropped \/ s.inserted = <<>>)
    OBVIOUS
  <2>2. x = [w EXCEPT !.dropped = d]
    BY <1>2, <2>1, Zenon DEF WithSplice
  <2> HIDE DEF x
  <2> QED
    BY <1>2, <2>1, <2>2 DEF Work, x
<1>3. CASE s.removed # 0 /\ ~s.canceled /\ w.open # 0
  BY <1>3 DEF WithSplice, Work
<1>4. CASE s.removed # 0 /\ ~s.canceled /\ w.open = 0
  BY <1>4 DEF WithSplice
<1> QED
  BY <1>1, <1>2, <1>3, <1>4

LEMMA SpliceKeepsGood ==
  ASSUME NEW s \in Folded, NEW n \in Nat, NEW w, Good(s, n, w), NEW e, SpliceFits(s, e, n)
  PROVE  LET r == After(s, e) IN
         /\ r \in Folded /\ Good(r, n, w)
         /\ r.inbox = Applied(s.inbox, e.arg) /\ r.last = s.last /\ r.admitted = s.admitted
         /\ r.work.open = s.work.open /\ r.work.stepped = s.work.stepped
         /\ \A t \in r.taken : t \in s.taken
                               \/ (IsClaim(e) /\ t[1] \in Waiting(s.inbox) \ Waiting(r.inbox))
<1> DEFINE r == After(s, e)
           x == WithSplice(s.work, e.arg)
           i == Applied(s.inbox, e.arg)
           new == {<<m, s.work.open>> : m \in Waiting(s.inbox) \ Waiting(i)}
<1>0. /\ s.inbox \in Inboxes /\ s.work \in Work /\ s.work.open \in Nat /\ s.work.end \in Nat
      /\ e.arg \in SpliceType /\ IsInside(s.inbox, e.arg) /\ s.taken \subseteq Message \X Nat
  BY DEF Folded, Work, SpliceFits
<1>1. IsSplice(e) /\ e.type = "agent/inbox/spliced"
  BY DEF IsSplice, SpliceFits
<1>2. Worked(s.work, e) = x
  BY <1>1 DEF Worked
<1>3. /\ x \in Work /\ x.open = s.work.open /\ x.end = s.work.end /\ x.stepped = s.work.stepped
      /\ s.work.claimed \subseteq x.claimed
  BY <1>0, SplicedWork
<1>4. IsClaim(e) => s.work.open # 0 /\ s.work.open \in x.claimed
  <2>1. IsClaim(e) => e.arg.removed # 0 /\ ~e.arg.canceled
    BY <1>0 DEF IsClaim, SpliceType
  <2> QED
    BY <1>0, <2>1, SplicedWork DEF SpliceFits
<1>5. i \in Inboxes /\ Waiting(i) \subseteq Waiting(s.inbox) \cup ToSet(e.arg.inserted)
  BY <1>0, AppliedInbox
<1>6. Waiting(s.inbox) \subseteq Message /\ Waiting(i) \subseteq Message
  <2>1. \A q \in Inboxes : Waiting(q) \subseteq Message
    <3> TAKE q \in Inboxes
    <3>1. q["next-turn"] \in Seq(Message) /\ q["next-step"] \in Seq(Message)
      BY DEF Inboxes, Targets
    <3> QED
      BY <3>1, SeqRange DEF Waiting
  <2> QED
    BY <1>0, <1>5, <2>1
<1> HIDE DEF x, i
<1>7. TakenAfter(s, e) = IF IsClaim(e) THEN s.taken \cup new ELSE s.taken
  <2>1. CASE IsClaim(e)
    BY <2>1, Zenon DEF TakenAfter, i
  <2>2. CASE ~IsClaim(e)
    BY <1>2, <1>3, <2>2 DEF TakenAfter
  <2> QED
    BY <2>1, <2>2
<1>8. r = [inbox |-> i, work |-> x, last |-> s.last, taken |-> TakenAfter(s, e),
           admitted |-> s.admitted]
  BY <1>1, <1>2 DEF After, i
<1>9. TakenAfter(s, e) \subseteq Message \X Nat
  BY <1>0, <1>6, <1>7
<1> HIDE DEF r
<1>10. r \in Folded
  BY <1>3, <1>5, <1>8, <1>9 DEF Folded
<1>11. \A t \in r.taken :
           t \in s.taken \/ (IsClaim(e) /\ t[1] \in Waiting(s.inbox) \ Waiting(i) /\ t[2] = s.work.open)
  BY <1>7, <1>8
<1>12. Good(r, n, w)
  <2>1. IsUnique(r.inbox)
    BY <1>8 DEF SpliceFits, i
  <2>2. ASSUME NEW m \in Message
        PROVE  /\ r.admitted[m] \in {0, 1} /\ (m \in Waiting(r.inbox) => r.admitted[m] = 0)
               /\ (r.admitted[m] # 0 \/ m \in Waiting(r.inbox)) => m <= n
    BY <1>5, <1>8 DEF Good, SpliceFits
  <2>3. ASSUME NEW t \in r.taken
        PROVE  \/ t[2] = r.work.open /\ r.work.open # 0 /\ r.work.open \in r.work.claimed
               \/ t[1] \in w
    BY <1>3, <1>4, <1>8, <1>11 DEF Good
  <2>4. /\ r.work.end <= r.last /\ r.work.open \in {0, r.last}
        /\ r.work.open # 0 => r.work.end < r.work.open
    BY <1>3, <1>8 DEF Good
  <2> QED
    BY <2>1, <2>2, <2>3, <2>4 DEF Good
<1>13. /\ r.inbox = i /\ r.last = s.last /\ r.admitted = s.admitted
       /\ r.work.open = s.work.open /\ r.work.stepped = s.work.stepped
  BY <1>3, <1>8
<1>14. \A t \in r.taken : t \in s.taken \/ (IsClaim(e) /\ t[1] \in Waiting(s.inbox) \ Waiting(r.inbox))
  BY <1>11, <1>13
<1>15. r.inbox = Applied(s.inbox, e.arg)
  BY <1>13 DEF i
<1> QED
  BY <1>10, <1>12, <1>13, <1>14, <1>15, Zenon DEF r

\* The heart of the induction: a fitting event keeps the log good.
LEMMA FitsKeepsGood ==
  ASSUME NEW s \in Folded, NEW n \in Nat, NEW w, Good(s, n, w), NEW e, Fits(s, e, n, w)
  PROVE  After(s, e) \in Folded /\ Good(After(s, e), n, w)
<1>1. CASE e.type = "turn/start" /\ s.work.open = 0 /\ e.turn = s.last + 1
  BY <1>1, StartKeepsGood
<1>2. CASE (e.type = "step/start" /\ e.turn \in Nat) \/ e.type = "step/end"
  BY <1>2, StepKeepsGood
<1>3. CASE EndFits(s, e, w)
  BY <1>3, EndKeepsGood
<1>4. CASE MessageFits(s, e, n)
  BY <1>4, MessageKeepsGood
<1>5. CASE SpliceFits(s, e, n)
  BY <1>5, SpliceKeepsGood
<1> QED
  BY <1>1, <1>2, <1>3, <1>4, <1>5 DEF Fits

\* More messages sent and more of them given up change nothing of that.
LEMMA LaterIsGood ==
  ASSUME NEW s \in Folded, NEW n \in Nat, NEW k \in Nat, n <= k, NEW w, NEW v, w \subseteq v
  PROVE  /\ Good(s, n, w) => Good(s, k, v)
         /\ \A e : Fits(s, e, n, w) => Fits(s, e, k, v)
<1>1. Good(s, n, w) => Good(s, k, v)
  <2>1. \A m \in Message : m <= n => m <= k
    BY BoundsAssumption DEF Message
  <2> QED
    BY <2>1 DEF Good
<1>2. ASSUME NEW e, MessageFits(s, e, n) PROVE MessageFits(s, e, k)
  BY <1>2, BoundsAssumption DEF MessageFits, Message
<1>3. ASSUME NEW e, EndFits(s, e, w) PROVE EndFits(s, e, v)
  BY <1>3 DEF EndFits, AllWaived
<1>4. ASSUME NEW e, SpliceFits(s, e, n) PROVE SpliceFits(s, e, k)
  <2>1. e.arg.inserted \in Seq(Message)
    BY <1>4 DEF SpliceFits, SpliceType
  <2>2. ToSet(e.arg.inserted) \subseteq Int
    BY <2>1, SeqRange, BoundsAssumption DEF Message
  <2> QED
    BY <1>4, <2>2 DEF SpliceFits
<1> QED
  BY <1>1, <1>2, <1>3, <1>4 DEF Fits

----------------------------------------------------------------------------
(* What is stored, followed by what is still buffered.                     *)

Kinds == {"turn/start", "turn/end", "step/start", "step/end", "user/message", "agent/inbox/spliced"}

Logged == [type : Kinds, turn : Nat, arg : SpliceType \cup Nat]

\* c is what the log says before, between and after the events es.
IsTrace(c, s, es, n, w) ==
    /\ c \in [1..Len(es) + 1 -> Folded] /\ c[1] = s
    /\ \A i \in 1..Len(es) + 1 : Good(c[i], n, w)
    /\ \A i \in 1..Len(es) : Fits(c[i], es[i], n, w) /\ c[i + 1] = After(c[i], es[i])

\* The events es lead from s to t.
Leads(s, es, t, n, w) ==
    /\ es \in Seq(Logged)
    /\ \E c : IsTrace(c, s, es, n, w) /\ c[Len(es) + 1] = t

LEMMA LeadsEnds ==
  ASSUME NEW s, NEW es, NEW t, NEW n, NEW w, Leads(s, es, t, n, w)
  PROVE  /\ s \in Folded /\ Good(s, n, w) /\ t \in Folded /\ Good(t, n, w)
         /\ es \in Seq(Logged) /\ (es = <<>> => s = t)
<1>1. PICK c : IsTrace(c, s, es, n, w) /\ c[Len(es) + 1] = t
  BY DEF Leads
<1>2. PICK k \in Nat : k = Len(es) /\ es \in Seq(Logged)
  BY DEF Leads
<1>3. 1 \in 1..k + 1 /\ k + 1 \in 1..k + 1
  BY <1>2
<1>4. es = <<>> => k = 0
  BY <1>2
<1> QED
  BY <1>1, <1>2, <1>3, <1>4 DEF IsTrace

LEMMA LeadsNothing ==
  ASSUME NEW s \in Folded, NEW n, NEW w, Good(s, n, w)
  PROVE  Leads(s, <<>>, s, n, w)
<1> DEFINE c == [i \in 1..1 |-> s]
<1>1. Len(<<>>) = 0 /\ <<>> \in Seq(Logged) /\ 0 + 1 = 1
  OBVIOUS
<1>2. c \in [1..1 -> Folded] /\ c[1] = s /\ \A i \in 1..1 : c[i] = s
  OBVIOUS
<1>3. \A i \in 1..0 : FALSE
  OBVIOUS
<1> HIDE DEF c
<1>4. IsTrace(c, s, <<>>, n, w)
  BY <1>1, <1>2, <1>3 DEF IsTrace
<1> QED
  BY <1>1, <1>2, <1>4, Zenon DEF Leads

LEMMA LeadsOne ==
  ASSUME NEW s \in Folded, NEW n \in Nat, NEW w, Good(s, n, w), NEW e \in Logged, Fits(s, e, n, w)
  PROVE  Leads(s, <<e>>, After(s, e), n, w)
<1> DEFINE r == After(s, e)
           c == [i \in 1..2 |-> IF i = 1 THEN s ELSE r]
<1>1. PICK es : es = <<e>>
  OBVIOUS
<1>2. es \in Seq(Logged) /\ Len(es) = 1 /\ es[1] = e
  BY <1>1
<1>3. r \in Folded /\ Good(r, n, w)
  BY FitsKeepsGood
<1> HIDE DEF r
<1>4. c \in [1..2 -> Folded] /\ c[1] = s /\ c[2] = r
  BY <1>3
<1>5. \A i \in 1..2 : i = 1 \/ i = 2
  OBVIOUS
<1>6. \A i \in 1..1 : i = 1
  OBVIOUS
<1>7. 1 + 1 = 2
  OBVIOUS
<1> HIDE DEF c
<1>8. IsTrace(c, s, es, n, w)
  <2>1. \A i \in 1..2 : Good(c[i], n, w)
    BY <1>3, <1>4, <1>5
  <2>2. \A i \in 1..1 : Fits(c[i], es[i], n, w) /\ c[i + 1] = After(c[i], es[i])
    BY <1>2, <1>4, <1>6, <1>7 DEF r
  <2> QED
    BY <1>2, <1>4, <1>7, <2>1, <2>2, Zenon DEF IsTrace
<1>9. Leads(s, es, r, n, w)
  BY <1>2, <1>4, <1>7, <1>8, Zenon DEF Leads
<1> QED
  BY <1>1, <1>9, Zenon DEF r

LEMMA LeadsJoined ==
  ASSUME NEW s, NEW es, NEW t, NEW fs, NEW u, NEW n, NEW w,
         Leads(s, es, t, n, w), Leads(t, fs, u, n, w)
  PROVE  Leads(s, es \o fs, u, n, w)
<1>1. PICK c : IsTrace(c, s, es, n, w) /\ c[Len(es) + 1] = t
  BY DEF Leads
<1>2. PICK d : IsTrace(d, t, fs, n, w) /\ d[Len(fs) + 1] = u
  BY DEF Leads
<1>3. PICK j \in Nat, k \in Nat : j = Len(es) /\ k = Len(fs) /\ es \in Seq(Logged) /\ fs \in Seq(Logged)
  BY DEF Leads
<1>4. PICK gs \in Seq(Logged) : gs = es \o fs
  BY <1>3, ConcatProperties
<1>5. /\ Len(gs) = j + k
      /\ \A i \in 1..j : gs[i] = es[i]
      /\ \A i \in j + 1..j + k : gs[i] = fs[i - j]
  BY <1>3, <1>4
<1> DEFINE b == [i \in 1..j + k + 1 |-> IF i <= j THEN c[i] ELSE d[i - j]]
<1>6. \A i \in 1..j + k + 1 : IF i <= j THEN i \in 1..j + 1 /\ i \in 1..j ELSE i - j \in 1..k + 1
  BY <1>3
<1>7. /\ c \in [1..j + 1 -> Folded] /\ c[1] = s /\ c[j + 1] = t
      /\ \A i \in 1..j + 1 : Good(c[i], n, w)
      /\ \A i \in 1..j : Fits(c[i], es[i], n, w) /\ c[i + 1] = After(c[i], es[i])
  BY <1>1, <1>3 DEF IsTrace
<1>8. /\ d \in [1..k + 1 -> Folded] /\ d[1] = t /\ d[k + 1] = u
      /\ \A i \in 1..k + 1 : Good(d[i], n, w)
      /\ \A i \in 1..k : Fits(d[i], fs[i], n, w) /\ d[i + 1] = After(d[i], fs[i])
  BY <1>2, <1>3 DEF IsTrace
<1>9. b \in [1..j + k + 1 -> Folded] /\ \A i \in 1..j + k + 1 : Good(b[i], n, w)
  BY <1>6, <1>7, <1>8
<1>10. b[1] = s
  <2>1. CASE j = 0
    BY <1>3, <1>7, <1>8, <2>1
  <2>2. CASE j # 0
    BY <1>3, <1>7, <2>2
  <2> QED
    BY <2>1, <2>2
<1>11. b[j + k + 1] = u
  <2>1. j + k + 1 \in 1..j + k + 1 /\ ~(j + k + 1 <= j) /\ (j + k + 1) - j = k + 1
    BY <1>3
  <2> QED
    BY <1>8, <2>1
<1>12. ASSUME NEW i \in 1..j + k PROVE Fits(b[i], gs[i], n, w) /\ b[i + 1] = After(b[i], gs[i])
  <2>0. i \in 1..j + k + 1 /\ i + 1 \in 1..j + k + 1
    BY <1>3
  <2>1. CASE i < j
    <3>1. i \in 1..j /\ i <= j /\ i + 1 <= j
      BY <1>3, <2>1
    <3>2. b[i] = c[i] /\ b[i + 1] = c[i + 1] /\ gs[i] = es[i]
      BY <1>5, <2>0, <3>1
    <3> QED
      BY <1>7, <3>1, <3>2
  <2>2. CASE i = j
    <3>1. i \in 1..j /\ i <= j /\ ~(i + 1 <= j) /\ (i + 1) - j = 1
      BY <1>3, <2>2
    <3>2. b[i] = c[i] /\ b[i + 1] = d[1] /\ gs[i] = es[i]
      BY <1>5, <2>0, <3>1
    <3>3. d[1] = c[i + 1]
      BY <1>7, <1>8, <2>2
    <3> QED
      BY <1>7, <3>1, <3>2, <3>3
  <2>3. CASE i > j
    <3>1. /\ i - j \in 1..k /\ i \in j + 1..j + k /\ ~(i <= j) /\ ~(i + 1 <= j)
          /\ (i + 1) - j = (i - j) + 1
      BY <1>3, <2>3
    <3>2. b[i] = d[i - j] /\ b[i + 1] = d[(i - j) + 1] /\ gs[i] = fs[i - j]
      BY <1>5, <2>0, <3>1
    <3> QED
      BY <1>8, <3>1, <3>2
  <2> QED
    BY <1>3, <2>1, <2>2, <2>3
<1> HIDE DEF b
<1>13. IsTrace(b, s, gs, n, w)
  BY <1>5, <1>9, <1>10, <1>12 DEF IsTrace
<1>14. Leads(s, gs, u, n, w)
  BY <1>4, <1>5, <1>11, <1>13 DEF Leads
<1> QED
  BY <1>4, <1>14

\* Storage takes the first event.
LEMMA LeadsNext ==
  ASSUME NEW s, NEW es, NEW t, NEW n, NEW w, Leads(s, es, t, n, w), es # <<>>
  PROVE  Fits(s, Head(es), n, w) /\ Leads(After(s, Head(es)), Tail(es), t, n, w)
<1>1. PICK c : IsTrace(c, s, es, n, w) /\ c[Len(es) + 1] = t
  BY DEF Leads
<1>2. PICK k \in Nat : k + 1 = Len(es) /\ es \in Seq(Logged)
  <2>1. es \in Seq(Logged)
    BY DEF Leads
  <2>2. Len(es) \in Nat /\ Len(es) # 0
    BY <2>1
  <2>3. Len(es) - 1 \in Nat /\ (Len(es) - 1) + 1 = Len(es)
    BY <2>2
  <2> QED
    BY <2>1, <2>3
<1>3. PICK fs \in Seq(Logged) : fs = Tail(es) /\ Len(fs) = k /\ \A i \in 1..k : fs[i] = es[i + 1]
  <2>1. /\ Tail(es) \in Seq(Logged) /\ Len(Tail(es)) = Len(es) - 1
        /\ \A i \in 1..Len(Tail(es)) : Tail(es)[i] = es[i + 1]
    BY <1>2, HeadTailProperties
  <2>2. Len(es) - 1 = k
    BY <1>2
  <2> QED
    BY <2>1, <2>2
<1>4. Head(es) = es[1]
  BY <1>2
<1> DEFINE d == [i \in 1..k + 1 |-> c[i + 1]]
<1>5. /\ c \in [1..(k + 1) + 1 -> Folded] /\ c[1] = s /\ c[(k + 1) + 1] = t
      /\ \A i \in 1..(k + 1) + 1 : Good(c[i], n, w)
      /\ \A i \in 1..k + 1 : Fits(c[i], es[i], n, w) /\ c[i + 1] = After(c[i], es[i])
  BY <1>1, <1>2 DEF IsTrace
<1>6. 1 \in 1..k + 1 /\ k + 1 \in 1..k + 1 /\ 1 + 1 = 2
  OBVIOUS
<1>7. \A i \in 1..k + 1 : i + 1 \in 1..(k + 1) + 1
  OBVIOUS
<1>8. \A i \in 1..k : i \in 1..k + 1 /\ i + 1 \in 1..k + 1
  OBVIOUS
<1>9. d \in [1..k + 1 -> Folded] /\ \A i \in 1..k + 1 : Good(d[i], n, w)
  BY <1>5, <1>7
<1>10. d[1] = After(s, Head(es)) /\ Fits(s, Head(es), n, w) /\ d[k + 1] = t
  BY <1>4, <1>5, <1>6
<1>11. \A i \in 1..k : Fits(d[i], fs[i], n, w) /\ d[i + 1] = After(d[i], fs[i])
  BY <1>3, <1>5, <1>8
<1> HIDE DEF d
<1>12. IsTrace(d, After(s, Head(es)), fs, n, w)
  BY <1>3, <1>9, <1>10, <1>11 DEF IsTrace
<1>13. Leads(After(s, Head(es)), fs, t, n, w)
  BY <1>3, <1>10, <1>12 DEF Leads
<1> QED
  BY <1>3, <1>10, <1>13

LEMMA LeadsLater ==
  ASSUME NEW s, NEW es, NEW t, NEW n \in Nat, NEW k \in Nat, n <= k, NEW w, NEW v, w \subseteq v,
         Leads(s, es, t, n, w)
  PROVE  Leads(s, es, t, k, v)
<1>1. PICK c : IsTrace(c, s, es, n, w) /\ c[Len(es) + 1] = t
  BY DEF Leads
<1>2. PICK j \in Nat : j = Len(es) /\ \A i \in 1..j : i \in 1..j + 1
  BY DEF Leads
<1>3. \A i \in 1..j + 1 : c[i] \in Folded /\ Good(c[i], k, v)
  BY <1>1, <1>2, LaterIsGood DEF IsTrace
<1>4. \A i \in 1..j : Fits(c[i], es[i], k, v)
  BY <1>1, <1>2, <1>3, LaterIsGood DEF IsTrace
<1>5. IsTrace(c, s, es, k, v)
  BY <1>1, <1>2, <1>3, <1>4 DEF IsTrace
<1> QED
  BY <1>1, <1>5 DEF Leads

----------------------------------------------------------------------------
(* What the actions append.                                                *)

Admissions(q) == [i \in DOMAIN q |-> Event("user/message", 0, q[i])]

AdmittedUpTo(s, q, k) ==
    [m \in Message |-> IF \E j \in 1..k : q[j] = m THEN 1 ELSE s.admitted[m]]

\* What may be admitted.
IsPending(s, q, n) ==
    /\ q \in Seq(Message) /\ NoRepeats(q)
    /\ \A m \in ToSet(q) : m <= n /\ s.admitted[m] = 0 /\ m \notin Waiting(s.inbox)

LEMMA LeadsAdmissions ==
  ASSUME NEW s \in Folded, NEW n \in Nat, NEW w, Good(s, n, w), NEW q, IsPending(s, q, n)
  PROVE  \E t : /\ Leads(s, Admissions(q), t, n, w)
                /\ t.inbox = s.inbox /\ t.work = s.work /\ t.last = s.last /\ t.taken = s.taken
<1>1. PICK k \in Nat : k = Len(q) /\ DOMAIN q = 1..k /\ q \in Seq(Message)
  BY DEF IsPending
<1>2. PICK es : es = Admissions(q)
  OBVIOUS
<1>3. es \in Seq(Logged) /\ Len(es) = k /\ \A i \in 1..k : es[i] = Event("user/message", 0, q[i])
  <2>1. \A i \in 1..k : q[i] \in Nat
    BY <1>1, BoundsAssumption DEF Message
  <2>2. \A i \in 1..k : Event("user/message", 0, q[i]) \in Logged
    BY <2>1 DEF Event, Logged, Kinds
  <2>3. es = [i \in 1..k |-> Event("user/message", 0, q[i])]
    BY <1>1, <1>2 DEF Admissions
  <2>4. es \in [1..k -> Logged]
    BY <2>2, <2>3
  <2> QED
    BY <2>3, <2>4
<1> DEFINE A(i) == AdmittedUpTo(s, q, i)
           c == [i \in 1..k + 1 |-> [s EXCEPT !.admitted = A(i - 1)]]
<1>4. ASSUME NEW i \in 0..k
      PROVE  /\ A(i) \in [Message -> Nat]
             /\ \A m \in Message : A(i)[m] \in {0, 1}
             /\ \A m \in Message : A(i)[m] = s.admitted[m] \/ m \in ToSet(q)
  <2>1. \A j \in 1..i : q[j] \in ToSet(q)
    BY <1>1 DEF ToSet
  <2>2. s.admitted \in [Message -> Nat] /\ \A m \in Message : s.admitted[m] \in {0, 1}
    BY DEF Folded, Good
  <2> QED
    BY <2>1, <2>2 DEF AdmittedUpTo
<1>5. A(0) = s.admitted
  BY DEF AdmittedUpTo, Folded
<1>6. ASSUME NEW i \in 1..k
      PROVE  /\ q[i] \in Message /\ q[i] \in ToSet(q) /\ A(i - 1)[q[i]] = 0
             /\ A(i) = [A(i - 1) EXCEPT ![q[i]] = 1]
  <2>1. q[i] \in Message /\ q[i] \in ToSet(q) /\ s.admitted[q[i]] = 0
    BY <1>1 DEF ToSet, IsPending
  <2>2. i \in Nat /\ i - 1 \in Nat /\ \A j \in 1..i - 1 : j \in 1..k /\ j # i
    BY <1>1
  <2>3. \A j \in 1..i - 1 : q[j] # q[i]
    BY <1>1, <2>2 DEF IsPending, NoRepeats
  <2>4. \A j \in 1..i : j \in 1..i - 1 \/ j = i
    BY <2>2
  <2>5. (\A j \in 1..i - 1 : j \in 1..i) /\ i \in 1..i
    BY <2>2
  <2>6. ASSUME NEW m \in Message PROVE A(i)[m] = IF m = q[i] THEN 1 ELSE A(i - 1)[m]
    BY <2>4, <2>5 DEF AdmittedUpTo
  <2>7. A(i - 1)[q[i]] = 0
    BY <2>1, <2>3 DEF AdmittedUpTo
  <2>8. A(i) = [m \in Message |-> A(i)[m]] /\ A(i - 1) = [m \in Message |-> A(i - 1)[m]]
    BY DEF AdmittedUpTo
  <2> HIDE DEF A
  <2>9. A(i) = [A(i - 1) EXCEPT ![q[i]] = 1]
    BY <2>1, <2>6, <2>8
  <2> QED
    BY <2>1, <2>7, <2>9
<1> HIDE DEF A
<1>7. ASSUME NEW i \in 1..k + 1
      PROVE  /\ c[i] \in Folded /\ Good(c[i], n, w)
             /\ c[i].inbox = s.inbox /\ c[i].admitted = A(i - 1)
             /\ c[i].work = s.work /\ c[i].last = s.last /\ c[i].taken = s.taken
  <2>1. i - 1 \in 0..k
    BY <1>1
  <2>2. c[i] = [s EXCEPT !.admitted = A(i - 1)]
    OBVIOUS
  <2>3. /\ A(i - 1) \in [Message -> Nat]
        /\ \A m \in Message : A(i - 1)[m] \in {0, 1}
        /\ \A m \in Message : A(i - 1)[m] = s.admitted[m] \/ m \in ToSet(q)
    BY <1>4, <2>1
  <2> HIDE DEF c
  <2>4. c[i] \in Folded
    BY <2>2, <2>3 DEF Folded
  <2>5. /\ c[i].inbox = s.inbox /\ c[i].admitted = A(i - 1) /\ c[i].work = s.work
        /\ c[i].last = s.last /\ c[i].taken = s.taken
    BY <2>2 DEF Folded
  <2>6. Good(c[i], n, w)
    BY <2>3, <2>5 DEF Good, IsPending
  <2> QED
    BY <2>4, <2>5, <2>6
<1>8. ASSUME NEW i \in 1..k PROVE Fits(c[i], es[i], n, w) /\ c[i + 1] = After(c[i], es[i])
  <2>1. i \in 1..k + 1 /\ i + 1 \in 1..k + 1 /\ (i + 1) - 1 = i
    BY <1>1
  <2>2. es[i].type = "user/message" /\ es[i].arg = q[i]
    BY <1>3 DEF Event
  <2>3. MessageFits(c[i], es[i], n)
    BY <1>6, <1>7, <2>1, <2>2 DEF MessageFits, IsPending
  <2>4. After(c[i], es[i]) = [c[i] EXCEPT !.admitted = [@ EXCEPT ![q[i]] = 1]]
    <3>1. c[i] \in Folded /\ Good(c[i], n, w)
      BY <1>7, <2>1
    <3> HIDE DEF c
    <3>2. After(c[i], es[i]) = [c[i] EXCEPT !.admitted = [@ EXCEPT ![es[i].arg] = 1]]
      BY <2>3, <3>1, MessageKeepsGood
    <3> QED
      BY <2>2, <3>2
  <2>5. c[i] = [s EXCEPT !.admitted = A(i - 1)] /\ c[i + 1] = [s EXCEPT !.admitted = A(i)]
    BY <2>1
  <2>6. c[i + 1] = [c[i] EXCEPT !.admitted = [A(i - 1) EXCEPT ![q[i]] = 1]]
    <3> HIDE DEF c
    <3> QED
      BY <1>6, <2>5 DEF Folded
  <2>7. c[i].admitted = A(i - 1)
    BY <1>7, <2>1
  <2> HIDE DEF c
  <2> QED
    BY <2>3, <2>4, <2>6, <2>7 DEF Fits
<1>9. c[1] = s
  <2>1. 1 \in 1..k + 1 /\ 1 - 1 = 0
    BY <1>1
  <2> QED
    BY <1>5, <2>1 DEF Folded
<1>10. DOMAIN c = 1..k + 1 /\ k + 1 \in 1..k + 1
  BY <1>1
<1>11. c \in [1..k + 1 -> Folded]
  BY <1>7
<1> HIDE DEF c
<1>12. IsTrace(c, s, es, n, w)
  BY <1>3, <1>7, <1>8, <1>9, <1>11 DEF IsTrace
<1>13. Leads(s, es, c[k + 1], n, w)
  BY <1>3, <1>12 DEF Leads
<1> QED
  BY <1>2, <1>7, <1>10, <1>13

Appended(splices) == [i \in DOMAIN splices |-> InboxEvent(splices[i])]

LEMMA AppendedJoined ==
  ASSUME NEW p \in Seq(SpliceType), NEW q \in Seq(SpliceType)
  PROVE  /\ Appended(p) \in Seq(Logged) /\ (p = <<>> => Appended(p) = <<>>)
         /\ Appended(p \o q) = Appended(p) \o Appended(q)
<1>1. \A s \in SpliceType : InboxEvent(s) \in Logged
  BY DEF InboxEvent, Event, Logged, Kinds
<1>2. PICK j \in Nat, k \in Nat : j = Len(p) /\ k = Len(q) /\ DOMAIN p = 1..j /\ DOMAIN q = 1..k
  OBVIOUS
<1>3. PICK r \in Seq(SpliceType) : r = p \o q
  BY ConcatProperties
<1>4. /\ Len(r) = j + k /\ DOMAIN r = 1..j + k
      /\ \A i \in 1..j : r[i] = p[i]
      /\ \A i \in j + 1..j + k : r[i] = q[i - j]
  BY <1>2, <1>3
<1>5. ASSUME NEW t \in Seq(SpliceType)
      PROVE  /\ Appended(t) \in Seq(Logged) /\ Len(Appended(t)) = Len(t)
             /\ \A i \in 1..Len(t) : Appended(t)[i] = InboxEvent(t[i])
  <2>1. PICK m \in Nat : m = Len(t) /\ DOMAIN t = 1..m
    OBVIOUS
  <2>2. Appended(t) = [i \in 1..m |-> InboxEvent(t[i])]
    BY <2>1 DEF Appended
  <2>3. Appended(t) \in [1..m -> Logged]
    BY <1>1, <2>1, <2>2
  <2>4. PICK f \in [1..m -> Logged] : f = Appended(t)
    BY <2>3
  <2>5. f \in Seq(Logged) /\ Len(f) = m
    OBVIOUS
  <2>6. \A i \in 1..m : f[i] = InboxEvent(t[i])
    BY <2>2, <2>4
  <2> QED
    BY <2>1, <2>4, <2>5, <2>6
<1>6. PICK a \in Seq(Logged), b \in Seq(Logged), c \in Seq(Logged) :
          a = Appended(p) /\ b = Appended(q) /\ c = Appended(r)
  BY <1>5
<1>7. /\ Len(a) = j /\ Len(b) = k /\ Len(c) = j + k
      /\ \A i \in 1..j : a[i] = InboxEvent(p[i])
      /\ \A i \in 1..k : b[i] = InboxEvent(q[i])
      /\ \A i \in 1..j + k : c[i] = InboxEvent(r[i])
  BY <1>2, <1>4, <1>5, <1>6
<1>8. PICK d \in Seq(Logged) : d = a \o b /\ Len(d) = j + k
                               /\ (\A i \in 1..j : d[i] = a[i])
                               /\ (\A i \in j + 1..j + k : d[i] = b[i - j])
  <2>1. a \o b \in Seq(Logged) /\ Len(a \o b) = Len(a) + Len(b)
    BY ConcatProperties
  <2>2. /\ \A i \in 1..Len(a) : (a \o b)[i] = a[i]
        /\ \A i \in Len(a) + 1..Len(a) + Len(b) : (a \o b)[i] = b[i - Len(a)]
    OBVIOUS
  <2> QED
    BY <1>7, <2>1, <2>2
<1>9. ASSUME NEW i \in 1..j + k PROVE d[i] = c[i]
  <2>1. CASE i <= j
    <3>1. i \in 1..j
      BY <1>2, <2>1
    <3> QED
      BY <1>4, <1>7, <1>8, <3>1
  <2>2. CASE ~(i <= j)
    <3>1. i \in j + 1..j + k /\ i - j \in 1..k
      BY <1>2, <2>2
    <3> QED
      BY <1>4, <1>7, <1>8, <3>1
  <2> QED
    BY <2>1, <2>2
<1>10. d = c
  BY <1>7, <1>8, <1>9, SeqEqual
<1>11. p = <<>> => Appended(p) = <<>>
  <2>1. p = <<>> => Len(Appended(p)) = 0
    BY <1>5
  <2> QED
    BY <1>5, <2>1
<1> QED
  BY <1>3, <1>5, <1>6, <1>8, <1>10, <1>11

LEMMA AppendedOne ==
  ASSUME NEW s, NEW q, q = <<s>>
  PROVE  Appended(q) = <<InboxEvent(s)>>
<1>1. PICK e : e = InboxEvent(s)
  OBVIOUS
<1>2. DOMAIN q = 1..1 /\ q[1] = s
  OBVIOUS
<1>3. Appended(q) = [i \in 1..1 |-> InboxEvent(q[i])]
  BY <1>2 DEF Appended
<1>4. \A i \in 1..1 : i = 1 /\ InboxEvent(q[i]) = e
  BY <1>1, <1>2
<1>5. PICK f \in [1..1 -> {e}] : f = Appended(q)
  BY <1>3, <1>4
<1>6. f \in Seq({e}) /\ Len(f) = 1 /\ f[1] = e
  <2>1. PICK j \in Nat : j = 1
    OBVIOUS
  <2>2. f \in [1..j -> {e}]
    BY <2>1
  <2>3. f \in Seq({e}) /\ Len(f) = j
    BY <2>2
  <2> QED
    BY <2>1, <2>3
<1>7. <<e>> \in Seq({e}) /\ Len(<<e>>) = 1 /\ <<e>>[1] = e
  OBVIOUS
<1>8. PICK g \in Seq({e}) : g = <<e>> /\ Len(g) = 1 /\ g[1] = e
  BY <1>7
<1>9. f = g
  BY <1>4, <1>6, <1>8, SeqEqual
<1> QED
  BY <1>1, <1>5, <1>8, <1>9

\* What clear and claim leave of the rest of the log, and what a claim takes.
SameButTaken(t, u, claims) ==
    /\ u.last = t.last /\ u.admitted = t.admitted
    /\ u.work.open = t.work.open /\ u.work.stepped = t.work.stepped
    /\ \A x \in u.taken : \/ x \in t.taken
                          \/ claims /\ x[1] \in Waiting(t.inbox) \ Waiting(u.inbox)

LEMMA LeadsEmptied ==
  ASSUME NEW t \in Folded, NEW n \in Nat, NEW w, Good(t, n, w), NEW a \in Targets,
         NEW count \in Nat, NEW d \in BOOLEAN, d \/ t.work.open # 0,
         NEW q, q = Emptied(t.inbox, a, count, d)
  PROVE  /\ q \in Seq(SpliceType) /\ AtMostOne(q)
         /\ \E u : /\ Leads(t, Appended(q), u, n, w) /\ SameButTaken(t, u, ~d)
                   /\ u.inbox = Cut(t.inbox, a, CutCount(t.inbox, a, count))
                   /\ u.inbox = AppliedAll(t.inbox, q)
<1>0. t.inbox \in Inboxes /\ t.work \in Work /\ IsUnique(t.inbox)
  BY DEF Folded, Good
<1>1. PICK k : k = CutCount(t.inbox, a, count)
  OBVIOUS
<1> DEFINE s == Removal(a, k, d)
           e == InboxEvent(s)
<1>2. /\ k \in 0..Len(t.inbox[a])
      /\ q = IF k = 0 THEN <<>> ELSE <<s>>
      /\ s \in SpliceType /\ IsInside(t.inbox, s) /\ Applied(t.inbox, s) = Cut(t.inbox, a, k)
  BY <1>0, <1>1, EmptiedIs
<1>3. /\ Cut(t.inbox, a, k) \in Inboxes /\ IsUnique(Cut(t.inbox, a, k))
      /\ k = 0 => Cut(t.inbox, a, k) = t.inbox
  BY <1>0, <1>2, CutFacts, UniqueIsDistinct
<1>4. e.type = "agent/inbox/spliced" /\ e.arg = s /\ IsSplice(e) /\ e \in Logged
  BY <1>2 DEF InboxEvent, Event, IsSplice, Logged, Kinds
<1>5. s.inserted = <<>> /\ s.canceled = d
  BY DEF Removal
<1> HIDE DEF s, e
<1>6. CASE k = 0
  <2>0. q = <<>> /\ q \in Seq(SpliceType)
    BY <1>2, <1>6
  <2>1. q = <<>> /\ Appended(q) = <<>>
    BY <2>0, AppendedJoined
  <2>2. Leads(t, Appended(q), t, n, w)
    BY <2>1, LeadsNothing
  <2>3. AtMostOne(q) /\ t.inbox = AppliedAll(t.inbox, q)
    BY <2>1, Zenon DEF AtMostOne, AppliedAll
  <2>4. SameButTaken(t, t, ~d)
    BY DEF SameButTaken
  <2> QED
    BY <1>1, <1>3, <1>6, <2>0, <2>2, <2>3, <2>4
<1>7. CASE k # 0
  <2>1. q = <<s>> /\ q \in Seq(SpliceType) /\ AtMostOne(q) /\ q # <<>> /\ q[1] = s
    BY <1>2, <1>7 DEF AtMostOne
  <2>2. Appended(q) = <<e>>
    BY <2>1, AppendedOne DEF e
  <2>3. ToSet(s.inserted) = {}
    BY <1>5 DEF ToSet
  <2>4. IsClaim(e) => ~d
    BY <1>4, <1>5 DEF IsClaim
  <2>5. SpliceFits(t, e, n)
    BY <1>2, <1>3, <1>4, <2>3, <2>4 DEF SpliceFits
  <2>6. Leads(t, <<e>>, After(t, e), n, w)
    BY <1>4, <2>5, LeadsOne DEF Fits
  <2>7. PICK u : u = After(t, e)
    OBVIOUS
  <2>8. /\ u.inbox = Applied(t.inbox, s) /\ u.last = t.last /\ u.admitted = t.admitted
        /\ u.work.open = t.work.open /\ u.work.stepped = t.work.stepped
        /\ \A x \in u.taken : x \in t.taken
                              \/ (IsClaim(e) /\ x[1] \in Waiting(t.inbox) \ Waiting(u.inbox))
    BY <1>4, <2>5, <2>7, SpliceKeepsGood
  <2>9. SameButTaken(t, u, ~d)
    BY <2>4, <2>8 DEF SameButTaken
  <2>10. u.inbox = AppliedAll(t.inbox, q)
    BY <2>1, <2>8 DEF AppliedAll
  <2> QED
    BY <1>1, <1>2, <2>1, <2>2, <2>6, <2>7, <2>8, <2>9, <2>10
<1> QED
  BY <1>6, <1>7

\* Both lists, one after the other; the second splice was made from the
\* inbox before the first, which it does not touch.
LEMMA LeadsBoth ==
  ASSUME NEW t \in Folded, NEW n \in Nat, NEW w, Good(t, n, w), NEW count \in Nat,
         NEW d \in BOOLEAN, d \/ t.work.open # 0,
         NEW p, p = Emptied(t.inbox, "next-step", Len(t.inbox["next-step"]), d),
         NEW q, q = Emptied(t.inbox, "next-turn", count, d)
  PROVE  \E u : /\ Leads(t, Appended(p \o q), u, n, w) /\ SameButTaken(t, u, ~d)
                /\ u.inbox = AppliedEach(t.inbox, p \o q)
                /\ u.inbox["next-step"] = <<>> /\ Waiting(u.inbox) \subseteq Waiting(t.inbox)
                /\ u.inbox["next-turn"] =
                       Cut(t.inbox, "next-turn", CutCount(t.inbox, "next-turn", count))["next-turn"]
<1>0. /\ t.inbox \in Inboxes /\ "next-step" \in Targets /\ "next-turn" \in Targets
      /\ "next-step" # "next-turn"
  BY DEF Folded, Targets
<1>1. PICK m \in Nat : m = Len(t.inbox["next-step"]) /\ t.inbox["next-step"] \in Seq(Message)
  BY <1>0 DEF Inboxes
<1>2. CutCount(t.inbox, "next-step", m) = m /\ m \in 0..m
  BY <1>1 DEF CutCount
<1>3. p = Emptied(t.inbox, "next-step", m, d)
  BY <1>1
<1>4. /\ p \in Seq(SpliceType) /\ AtMostOne(p)
      /\ \E u : /\ Leads(t, Appended(p), u, n, w) /\ SameButTaken(t, u, ~d)
                /\ u.inbox = Cut(t.inbox, "next-step", m)
                /\ u.inbox = AppliedAll(t.inbox, p)
  BY <1>0, <1>2, <1>3, LeadsEmptied
<1>5. PICK r : /\ Leads(t, Appended(p), r, n, w) /\ SameButTaken(t, r, ~d)
               /\ r.inbox = Cut(t.inbox, "next-step", m)
               /\ r.inbox = AppliedAll(t.inbox, p)
  BY <1>4
<1>6. /\ r.inbox["next-step"] = SubSeq(t.inbox["next-step"], m + 1, Len(t.inbox["next-step"]))
      /\ r.inbox["next-turn"] = t.inbox["next-turn"]
      /\ Waiting(r.inbox) \subseteq Waiting(t.inbox) /\ r.inbox \in Inboxes
  <2>1. m \in 0..Len(t.inbox["next-step"])
    BY <1>1
  <2>2. PICK c : c = Cut(t.inbox, "next-step", m)
    OBVIOUS
  <2>3. /\ c \in Inboxes /\ Waiting(c) \subseteq Waiting(t.inbox)
        /\ c["next-step"] = SubSeq(t.inbox["next-step"], m + 1, Len(t.inbox["next-step"]))
        /\ c["next-turn"] = t.inbox["next-turn"]
    BY <1>0, <2>1, <2>2, CutFacts
  <2> QED
    BY <1>5, <2>2, <2>3
<1>7. r.inbox["next-step"] = <<>>
  BY <1>1, <1>2, <1>6, RestFacts
<1>8. r \in Folded /\ Good(r, n, w) /\ r.work.open = t.work.open
  BY <1>5, LeadsEnds DEF SameButTaken
<1>9. q = Emptied(r.inbox, "next-turn", count, d)
  BY <1>6, Zenon DEF Emptied, Normalized
<1>10. /\ q \in Seq(SpliceType) /\ AtMostOne(q)
       /\ \E u : /\ Leads(r, Appended(q), u, n, w) /\ SameButTaken(r, u, ~d)
                 /\ u.inbox = Cut(r.inbox, "next-turn", CutCount(r.inbox, "next-turn", count))
                 /\ u.inbox = AppliedAll(r.inbox, q)
  <2>1. d \/ r.work.open # 0
    BY <1>8
  <2>2. /\ r \in Folded /\ Good(r, n, w) /\ "next-turn" \in Targets
        /\ n \in Nat /\ count \in Nat /\ d \in BOOLEAN
    BY <1>0, <1>8
  <2> QED
    BY ONLY <1>9, <2>1, <2>2, LeadsEmptied
<1>11. PICK u : /\ Leads(r, Appended(q), u, n, w) /\ SameButTaken(r, u, ~d)
                /\ u.inbox = Cut(r.inbox, "next-turn", CutCount(r.inbox, "next-turn", count))
                /\ u.inbox = AppliedAll(r.inbox, q)
  BY <1>10
<1>12. Leads(t, Appended(p \o q), u, n, w)
  <2>1. Leads(t, Appended(p) \o Appended(q), u, n, w)
    BY <1>5, <1>11, LeadsJoined
  <2>2. Appended(p \o q) = Appended(p) \o Appended(q)
    BY <1>4, <1>10, AppendedJoined
  <2> QED
    BY <2>1, <2>2
<1>13. u.inbox = AppliedEach(t.inbox, p \o q)
  <2>1. AppliedEach(t.inbox, p \o q) = AppliedAll(AppliedAll(t.inbox, p), q)
    BY <1>4, <1>10, FoldIs
  <2> QED
    BY <1>5, <1>11, <2>1
<1>14. PICK k : k = CutCount(r.inbox, "next-turn", count) /\ k = CutCount(t.inbox, "next-turn", count)
  BY <1>6 DEF CutCount
<1>15. k \in 0..Len(t.inbox["next-turn"]) /\ k \in 0..Len(r.inbox["next-turn"])
  BY <1>0, <1>6, <1>14, EmptiedIs
<1>16. /\ u.inbox["next-step"] = r.inbox["next-step"]
       /\ u.inbox["next-turn"] = SubSeq(r.inbox["next-turn"], k + 1, Len(r.inbox["next-turn"]))
       /\ Waiting(u.inbox) \subseteq Waiting(r.inbox)
  <2>1. PICK c : c = Cut(r.inbox, "next-turn", k)
    OBVIOUS
  <2>2. /\ Waiting(c) \subseteq Waiting(r.inbox)
        /\ c["next-turn"] = SubSeq(r.inbox["next-turn"], k + 1, Len(r.inbox["next-turn"]))
        /\ c["next-step"] = r.inbox["next-step"]
    BY <1>0, <1>6, <1>15, <2>1, CutFacts
  <2> QED
    BY <1>11, <1>14, <2>1, <2>2
<1>17. Cut(t.inbox, "next-turn", k)["next-turn"] =
           SubSeq(t.inbox["next-turn"], k + 1, Len(t.inbox["next-turn"]))
  BY <1>0, <1>15, CutFacts
<1>18. SameButTaken(t, u, ~d)
  BY <1>5, <1>6, <1>11, <1>16 DEF SameButTaken
<1> QED
  BY <1>6, <1>7, <1>12, <1>13, <1>14, <1>16, <1>17, <1>18

----------------------------------------------------------------------------
(* The inductive invariant.                                                *)

TypeInv ==
    /\ sent \in Nat /\ turn \in Nat /\ step \in Nat /\ batch \in Seq(Message)
    /\ scan \in [turn : Nat, step : BOOLEAN]

StoredInv ==
    /\ Stored \in Folded /\ Good(Stored, sent, waived)
    /\ scan.turn = work.open /\ ~unreadable

\* Where the driver is, when the live log says f.
DriverAt(f) ==
    /\ f.inbox = live /\ f.last = turn /\ f.work.open = (IF pc = "idle" THEN 0 ELSE turn)
    /\ pc # "idle" => turn # 0
    /\ (pc # "idle" /\ step > 0) => turn \in f.work.stepped
    /\ pc \in {"request", "streaming"} => step > 0
    /\ (pc = "boundary" /\ step = 0) => AllWaived(f, waived)
    /\ (pc = "claimed" /\ step = 0) => AllWaived(f, waived \cup ToSet(batch))
    /\ IsPending(f, batch, sent)

\* What is buffered fits what is stored, and leads to where the driver is.
LiveInv ==
    mode = "live" => \E f : Leads(Stored, buffered, f, sent, waived) /\ DriverAt(f)

Closing == Event("turn/end", work.open, CutShort)

RepairInv ==
    /\ mode # "live" => pc = "idle" /\ step = 0 /\ batch = <<>> /\ buffered = <<>>
    /\ mode = "repairing" =>
           \/ closers = <<>> /\ work.open = 0
           \/ work.open # 0 /\ closers = <<Closing>>
           \/ work.open # 0 /\ closers = <<Event("step/end", work.open, 0), Closing>>

Inv == TypeInv /\ StoredInv /\ LiveInv /\ RepairInv

LEMMA StoredFields ==
  /\ Stored.inbox = inbox /\ Stored.work = work /\ Stored.last = lastTurn
  /\ Stored.taken = taken /\ Stored.admitted = admitted
  BY DEF Stored

\* What an action appends keeps the invariant, if it leads the live log to
\* where the driver is next.
LEMMA LiveStep ==
  ASSUME TypeInv, StoredInv, RepairInv, mode = "live",
         NEW f, Leads(Stored, buffered, f, sent, waived),
         NEW es, AppendsAll(es), TypeInv', sent <= sent', waived \subseteq waived',
         NEW g, Leads(f, es, g, sent', waived'), DriverAt(g)'
  PROVE  Inv'
<1>1. Stored' = Stored /\ UNCHANGED <<mode, scan, work, unreadable>> /\ buffered' = buffered \o es
  BY DEF AppendsAll, storedVars, Stored
<1>2. sent \in Nat /\ sent' \in Nat
  BY DEF TypeInv
<1>3. Good(Stored, sent', waived')
  BY <1>2, LaterIsGood DEF StoredInv
<1>4. Leads(Stored, buffered, f, sent', waived')
  BY <1>2, LeadsLater
<1>5. Leads(Stored', buffered', g, sent', waived')
  BY <1>1, <1>4, LeadsJoined
<1>6. StoredInv'
  <2>1. Stored' \in Folded /\ Good(Stored', sent', waived')
    BY <1>1, <1>3 DEF StoredInv
  <2>2. (scan.turn = work.open /\ ~unreadable)'
    BY <1>1 DEF StoredInv
  <2> QED
    BY <2>1, <2>2 DEF StoredInv
<1>7. LiveInv'
  BY <1>5 DEF LiveInv
<1>8. RepairInv'
  BY <1>1 DEF RepairInv
<1> QED
  BY <1>6, <1>7, <1>8 DEF Inv

LEMMA InitInv == Init => Inv
<1> SUFFICES ASSUME Init PROVE Inv
  OBVIOUS
<1>1. EmptyInbox \in Inboxes /\ Waiting(EmptyInbox) = {} /\ IsDistinct(EmptyInbox)
  <2>1. EmptyInbox["next-turn"] = <<>> /\ EmptyInbox["next-step"] = <<>>
    BY DEF EmptyInbox, Targets
  <2>2. ToSet(<<>>) = {} /\ NoRepeats(<<>>)
    BY DEF ToSet, NoRepeats
  <2>3. EmptyInbox \in Inboxes
    BY DEF EmptyInbox, Inboxes
  <2> QED
    BY <2>1, <2>2, <2>3 DEF Waiting, IsDistinct
<1>2. IsUnique(EmptyInbox)
  BY <1>1, UniqueIsDistinct
<1>3. NothingConsumed \in Work
  BY DEF NothingConsumed, Work
<1>4. Stored \in Folded
  BY <1>1, <1>3 DEF Init, Stored, Folded
<1>5. Good(Stored, sent, waived)
  BY <1>1, <1>2, StoredFields DEF Init, Good, NothingConsumed
<1>6. TypeInv
  BY DEF Init, TypeInv
<1>7. StoredInv
  BY <1>4, <1>5 DEF StoredInv, Init, NothingConsumed
<1>8. Leads(Stored, buffered, Stored, sent, waived)
  BY <1>4, <1>5, LeadsNothing DEF Init
<1>9. DriverAt(Stored)
  <2>1. IsPending(Stored, batch, sent)
    BY DEF Init, IsPending, NoRepeats, ToSet
  <2> QED
    BY <2>1, StoredFields DEF DriverAt, Init, NothingConsumed
<1>10. LiveInv /\ RepairInv
  BY <1>8, <1>9 DEF LiveInv, RepairInv, Init
<1> QED
  BY <1>6, <1>7, <1>10 DEF Inv

----------------------------------------------------------------------------
(* The storage, the crash and the resume.                                  *)

\* Storing what fits.
LEMMA StoreStep ==
  ASSUME TypeInv, StoredInv, NEW e \in Logged, Fits(Stored, e, sent, waived), Store(e),
         UNCHANGED <<sent, waived>>
  PROVE  StoredInv' /\ Stored' = After(Stored, e) /\ scan' \in [turn : Nat, step : BOOLEAN]
<1>1. Stored' = After(Stored, e)
  BY StoreIsAfter
<1>2. Stored' \in Folded /\ Good(Stored', sent', waived')
  BY <1>1, FitsKeepsGood DEF StoredInv, TypeInv
<1>3. e.type \in Kinds /\ e.turn \in Nat /\ scan \in [turn : Nat, step : BOOLEAN] /\ work \in Work
  BY StoredFields DEF Logged, TypeInv, StoredInv, Folded
<1>4. scan' = Scanned(scan, e) /\ work' = Worked(work, e)
  BY DEF Store
<1>5. scan' \in [turn : Nat, step : BOOLEAN] /\ scan'.turn = work'.open
  <2>0. scan.turn = work.open
    BY DEF StoredInv
  <2>1. CASE e.type = "turn/start"
    <3>1. scan' = [turn |-> e.turn, step |-> FALSE] /\ work' = [work EXCEPT !.open = e.turn]
      BY <1>4, <2>1 DEF Scanned, Worked, IsSplice
    <3> QED
      BY <1>3, <3>1 DEF Work
  <2>2. CASE e.type = "turn/end"
    <3>1. scan' = [turn |-> 0, step |-> FALSE]
      BY <1>4, <2>2 DEF Scanned
    <3>2. EndFits(Stored, e, waived)
      BY <2>2 DEF Fits, MessageFits, SpliceFits, IsSplice
    <3>3. Stored'.work.open = 0
      BY <1>1, <3>2, EndKeepsGood DEF StoredInv, TypeInv
    <3> QED
      BY <3>1, <3>3 DEF Stored
  <2>3. CASE e.type = "step/start"
    <3>1. scan' = [scan EXCEPT !.step = TRUE] /\ work' = [work EXCEPT !.stepped = @ \cup {e.turn}]
      BY <1>4, <2>3 DEF Scanned, Worked, IsSplice
    <3> QED
      BY <1>3, <2>0, <3>1 DEF Work
  <2>4. CASE e.type = "step/end"
    <3>1. scan' = [scan EXCEPT !.step = FALSE] /\ work' = work
      BY <1>4, <2>4 DEF Scanned, Worked, IsSplice
    <3> QED
      BY <1>3, <2>0, <3>1
  <2>5. CASE e.type = "user/message"
    <3>1. scan' = scan /\ work' = work
      BY <1>4, <2>5 DEF Scanned, Worked, IsSplice
    <3> QED
      BY <1>3, <2>0, <3>1
  <2>6. CASE e.type = "agent/inbox/spliced"
    <3>1. scan' = scan /\ work' = WithSplice(work, e.arg)
      BY <1>4, <2>6 DEF Scanned, Worked, IsSplice
    <3>2. e.arg \in SpliceType
      BY <2>6 DEF Fits, MessageFits, SpliceFits, EndFits
    <3> QED
      BY <1>3, <2>0, <3>1, <3>2, SplicedWork
  <2> QED
    BY <1>3, <2>1, <2>2, <2>3, <2>4, <2>5, <2>6 DEF Kinds
<1>6. ~unreadable'
  <2>1. ASSUME IsSplice(e) PROVE Accepts(inbox, e.arg)
    <3>1. SpliceFits(Stored, e, sent)
      BY <2>1 DEF Fits, MessageFits, EndFits, IsSplice
    <3>2. /\ e.arg \in SpliceType /\ IsInside(inbox, e.arg) /\ IsUnique(Applied(inbox, e.arg))
          /\ inbox \in Inboxes
      BY <3>1, StoredFields DEF SpliceFits, StoredInv, Folded
    <3>3. /\ e.arg.target \in Targets /\ e.arg.start \in Nat /\ e.arg.removed \in Nat
          /\ Len(inbox[e.arg.target]) \in Nat
      BY <3>2 DEF SpliceType, Inboxes
    <3> QED
      BY <3>2, <3>3 DEF Accepts, IsInside
  <2> QED
    BY <2>1 DEF Store, StoredInv
<1> QED
  BY <1>1, <1>2, <1>5, <1>6 DEF StoredInv

LEMMA DrainStep == Inv /\ Drain => Inv'
<1> SUFFICES ASSUME Inv, Drain PROVE Inv'
  OBVIOUS
<1>1. PICK f : Leads(Stored, buffered, f, sent, waived) /\ DriverAt(f)
  BY DEF Inv, LiveInv, Drain
<1>2. /\ buffered # <<>> /\ Store(Head(buffered)) /\ buffered' = Tail(buffered)
      /\ UNCHANGED <<mode, closers, live, pc, turn, step, batch, sent, waived>> /\ mode = "live"
  BY DEF Drain, driverVars, historyVars
<1>3. buffered \in Seq(Logged)
  BY <1>1, LeadsEnds
<1>4. PICK e \in Logged : e = Head(buffered)
  BY <1>2, <1>3, HeadTailProperties
<1>5. Fits(Stored, e, sent, waived) /\ Leads(After(Stored, e), buffered', f, sent, waived)
  BY <1>1, <1>2, <1>4, LeadsNext
<1>6. StoredInv' /\ Stored' = After(Stored, e) /\ scan' \in [turn : Nat, step : BOOLEAN]
  BY <1>2, <1>4, <1>5, StoreStep DEF Inv
<1>7. DriverAt(f)'
  BY <1>1, <1>2 DEF DriverAt
<1>8. LiveInv'
  BY <1>2, <1>5, <1>6, <1>7 DEF LiveInv
<1>9. TypeInv' /\ RepairInv'
  BY <1>2, <1>6 DEF Inv, TypeInv, RepairInv
<1> QED
  BY <1>6, <1>8, <1>9 DEF Inv

LEMMA CrashStep == Inv /\ Crash => Inv'
<1> SUFFICES ASSUME Inv, Crash PROVE Inv'
  OBVIOUS
<1>1. /\ mode' = "down" /\ buffered' = <<>> /\ pc' = "idle" /\ turn' = 0 /\ step' = 0 /\ batch' = <<>>
      /\ UNCHANGED <<scan, work, unreadable, sent, waived>> /\ Stored' = Stored
  BY DEF Crash, storedVars, Stored
<1>2. TypeInv'
  BY <1>1 DEF Inv, TypeInv
<1>3. StoredInv'
  BY <1>1 DEF Inv, StoredInv
<1>4. LiveInv' /\ RepairInv'
  BY <1>1 DEF LiveInv, RepairInv
<1> QED
  BY <1>2, <1>3, <1>4 DEF Inv

LEMMA OpenStoredStep == Inv /\ OpenStored => Inv'
<1> SUFFICES ASSUME Inv, OpenStored PROVE Inv'
  OBVIOUS
<1>1. /\ mode = "down" /\ mode' = "repairing" /\ closers' = Closers(scan)
      /\ UNCHANGED <<buffered, pc, turn, step, batch, scan, work, unreadable, sent, waived>>
      /\ Stored' = Stored
  BY DEF OpenStored, storedVars, driverVars, historyVars, Stored
<1>2. scan.turn = work.open
  BY DEF Inv, StoredInv
<1>3. \/ closers' = <<>> /\ work.open = 0
      \/ work.open # 0 /\ closers' = <<Closing>>
      \/ work.open # 0 /\ closers' = <<Event("step/end", work.open, 0), Closing>>
  <2>1. CASE work.open = 0
    BY <1>1, <1>2, <2>1 DEF Closers
  <2>2. CASE work.open # 0 /\ scan.step
    <3>1. Closers(scan) = <<Event("step/end", work.open, 0)>> \o <<Closing>>
      BY <1>2, <2>2, Zenon DEF Closers, Closing
    <3> QED
      BY <1>1, <2>2, <3>1, PairIsJoined
  <2>3. CASE work.open # 0 /\ ~scan.step
    <3>1. Closers(scan) = <<>> \o <<Closing>>
      BY <1>2, <2>3, Zenon DEF Closers, Closing
    <3>2. <<>> \o <<Closing>> = <<Closing>>
      OBVIOUS
    <3> QED
      BY <1>1, <2>3, <3>1, <3>2
  <2> QED
    BY <2>1, <2>2, <2>3
<1>4. work' = work /\ Closing' = Closing
  BY <1>1 DEF Closing
<1>5. RepairInv'
  BY <1>1, <1>3, <1>4 DEF Inv, RepairInv
<1>6. TypeInv' /\ StoredInv' /\ LiveInv'
  BY <1>1 DEF Inv, TypeInv, StoredInv, LiveInv
<1> QED
  BY <1>5, <1>6 DEF Inv

LEMMA StoreCloserStep == Inv /\ StoreCloser => Inv'
<1> SUFFICES ASSUME Inv, StoreCloser PROVE Inv'
  OBVIOUS
<1>1. /\ mode = "repairing" /\ closers # <<>> /\ Store(Head(closers)) /\ closers' = Tail(closers)
      /\ UNCHANGED <<mode, buffered, pc, turn, step, batch, sent, waived>>
  BY DEF StoreCloser, driverVars, historyVars
<1>2. work \in Work /\ work.open \in Nat
  BY StoredFields DEF Inv, StoredInv, Folded, Work
<1>3. Closing \in Logged /\ Event("step/end", work.open, 0) \in Logged
  BY <1>2 DEF Closing, Event, Logged, Kinds, CutShort
<1>4. CASE work.open # 0 /\ closers = <<Closing>>
  <2>1. Head(closers) = Closing /\ Tail(closers) = <<>>
    BY <1>4
  <2>2. EndFits(Stored, Closing, waived)
    BY <1>4, StoredFields DEF EndFits, Closing, Event, CutShort, Completed
  <2>3. StoredInv' /\ Stored' = After(Stored, Closing) /\ scan' \in [turn : Nat, step : BOOLEAN]
    BY <1>1, <1>3, <2>1, <2>2, StoreStep DEF Inv, Fits
  <2>4. Stored'.work.open = 0
    BY <2>2, <2>3, EndKeepsGood DEF Inv, StoredInv, TypeInv
  <2>5. work'.open = 0
    BY <2>4 DEF Stored
  <2> QED
    BY <1>1, <2>1, <2>3, <2>5 DEF Inv, TypeInv, LiveInv, RepairInv
<1>5. CASE work.open # 0 /\ closers = <<Event("step/end", work.open, 0), Closing>>
  <2> DEFINE e == Event("step/end", work.open, 0)
  <2>1. Head(closers) = e /\ Tail(closers) = <<Closing>>
    BY <1>5
  <2>2. e.type = "step/end" /\ ~IsSplice(e)
    BY DEF Event, IsSplice
  <2>3. e \in Logged
    BY <1>3
  <2> HIDE DEF e
  <2>4. StoredInv' /\ Stored' = After(Stored, e) /\ scan' \in [turn : Nat, step : BOOLEAN]
    BY <1>1, <2>1, <2>2, <2>3, StoreStep DEF Inv, Fits
  <2>5. Stored'.work.open = work.open
    BY <2>2, <2>4, StepKeepsGood, StoredFields DEF Inv, StoredInv, TypeInv
  <2>6. work'.open = work.open
    BY <2>5 DEF Stored
  <2>7. Closing' = Closing
    BY <2>6 DEF Closing
  <2> QED
    BY <1>1, <1>5, <2>1, <2>4, <2>6, <2>7 DEF Inv, TypeInv, LiveInv, RepairInv
<1> QED
  BY <1>1, <1>4, <1>5 DEF Inv, RepairInv

LEMMA ResumeStep == Inv /\ Resume => Inv'
<1> SUFFICES ASSUME Inv, Resume PROVE Inv'
  OBVIOUS
<1>1. /\ mode = "repairing" /\ mode' = "live" /\ closers = <<>> /\ turn' = lastTurn /\ live' = inbox
      /\ UNCHANGED <<buffered, pc, step, batch, scan, work, unreadable, sent, waived>>
      /\ Stored' = Stored
  BY DEF Resume, storedVars, historyVars, Stored
<1>2. work.open = 0 /\ pc = "idle" /\ step = 0 /\ batch = <<>> /\ buffered = <<>>
  <2>1. \A a, b : <<a>> # <<>> /\ <<a, b>> # <<>>
    OBVIOUS
  <2> QED
    BY <1>1, <2>1 DEF Inv, RepairInv
<1>3. lastTurn \in Nat
  BY StoredFields DEF Inv, StoredInv, Folded
<1>4. Leads(Stored, <<>>, Stored, sent, waived)
  BY LeadsNothing DEF Inv, StoredInv
<1>5. IsPending(Stored, <<>>, sent)
  BY DEF IsPending, NoRepeats, ToSet
<1>6. DriverAt(Stored)'
  <2>1. IsPending(Stored, batch, sent)'
    BY <1>1, <1>2, <1>5
  <2>2. /\ Stored'.inbox = live' /\ Stored'.last = turn' /\ Stored'.work.open = 0
    BY <1>1, <1>2, StoredFields
  <2> QED
    BY <1>1, <1>2, <2>1, <2>2 DEF DriverAt
<1>7. Leads(Stored', buffered', Stored', sent', waived')
  BY <1>1, <1>2, <1>4
<1>8. LiveInv'
  BY <1>6, <1>7 DEF LiveInv
<1>9. TypeInv' /\ StoredInv' /\ RepairInv'
  BY <1>1, <1>3 DEF Inv, TypeInv, StoredInv, RepairInv
<1> QED
  BY <1>8, <1>9 DEF Inv

----------------------------------------------------------------------------
(* The callers.                                                            *)

LEMMA NormalizedType ==
  ASSUME NEW q \in Inboxes, NEW a \in Targets, NEW start \in Int, NEW count \in Int,
         NEW inserted \in Seq(Message), NEW d \in BOOLEAN,
         NEW s, s = Normalized(q, a, start, count, inserted, d)
  PROVE  /\ s \in SpliceType /\ IsInside(q, s) /\ s.inserted = inserted
         /\ s.removed > 0 => s.canceled = d
<1>1. PICK n \in Nat : n = Len(q[a])
  BY DEF Inboxes
<1>2. PICK at : at = ActualStart(q[a], start)
  OBVIOUS
<1>3. at \in Nat /\ at <= n
  BY <1>1, <1>2 DEF ActualStart, Clamped
<1>4. PICK r : r = ActualCount(q[a], at, count)
  OBVIOUS
<1>5. r \in Nat /\ at + r <= n
  BY <1>1, <1>3, <1>4 DEF ActualCount, Clamped
<1>6. PICK c \in BOOLEAN : c = (d /\ r > 0)
  OBVIOUS
<1>7. s = [target |-> a, start |-> at, removed |-> r, inserted |-> inserted, canceled |-> c]
  BY <1>2, <1>4, <1>6, Zenon DEF Normalized
<1>8. s \in SpliceType /\ s.inserted = inserted
  BY <1>3, <1>5, <1>7 DEF SpliceType
<1>9. IsInside(q, s)
  BY <1>1, <1>5, <1>7 DEF IsInside
<1>10. s.removed > 0 => s.canceled = d
  BY <1>6, <1>7
<1> QED
  BY <1>8, <1>9, <1>10

LEMMA WaitingType ==
  ASSUME NEW q \in Inboxes
  PROVE  Waiting(q) \subseteq Message
<1>1. q["next-turn"] \in Seq(Message) /\ q["next-step"] \in Seq(Message)
  BY DEF Inboxes, Targets
<1> QED
  BY <1>1, SeqRange DEF Waiting

LEMMA SplicesStep == Inv /\ Splices => Inv'
<1> SUFFICES ASSUME Inv, Splices PROVE Inv'
  OBVIOUS
<1>1. PICK f : Leads(Stored, buffered, f, sent, waived) /\ DriverAt(f)
  BY DEF Inv, LiveInv, Splices
<1>2. PICK s \in Requests :
          /\ ~ChangesNothing(s) /\ SentOnce(s) /\ ~Refused(s)
          /\ Mutates(<<s>>)
          /\ sent' = IF \E m \in ToSet(s.inserted) : m > sent THEN sent + 1 ELSE sent
  BY DEF Splices
<1>3. mode = "live" /\ UNCHANGED <<pc, turn, step, batch, waived>>
  BY DEF Splices, driverVars
<1>4. f \in Folded /\ Good(f, sent, waived) /\ f.inbox = live /\ live \in Inboxes
  BY <1>1, LeadsEnds DEF DriverAt, Folded
<1>5. sent \in Nat /\ batch \in Seq(Message)
  BY DEF Inv, TypeInv
<1>6. PICK a \in Targets, start \in -1..MaxMessages, count \in 0..MaxMessages, k \in 0..MaxMessages :
          k <= sent + 1 /\ s = Spliced(live, a, start, count, Inserts(k))
  BY DEF Requests
<1>7. /\ Inserts(k) \in Seq(Message) /\ ToSet(Inserts(k)) \subseteq {k}
      /\ k = 0 => ToSet(Inserts(k)) = {}
  <2>1. CASE k = 0
    BY <2>1 DEF Inserts, ToSet
  <2>2. CASE k # 0
    <3>1. k \in Message
      BY <2>2, BoundsAssumption DEF Message
    <3> QED
      BY <2>2, <3>1 DEF Inserts, ToSet
  <2> QED
    BY <2>1, <2>2
<1>8. /\ s \in SpliceType /\ IsInside(live, s) /\ s.inserted = Inserts(k)
      /\ s.removed > 0 => s.canceled
  <2>1. start \in Int /\ count \in Int
    BY BoundsAssumption
  <2>2. PICK ins \in Seq(Message) : ins = Inserts(k)
    BY <1>7
  <2>3. PICK d \in BOOLEAN : d = TRUE
    OBVIOUS
  <2>4. s = Normalized(live, a, start, count, ins, d)
    BY <1>6, <2>2, <2>3, Zenon DEF Spliced
  <2>5. /\ s \in SpliceType /\ IsInside(live, s) /\ s.inserted = ins
        /\ s.removed > 0 => s.canceled = d
    <3>1. d \in BOOLEAN /\ live \in Inboxes /\ a \in Targets /\ ins \in Seq(Message)
      BY <1>4
    <3> QED
      BY ONLY <2>1, <2>4, <3>1, NormalizedType
  <2> QED
    BY <2>2, <2>3, <2>5
<1>9. ASSUME NEW m \in ToSet(s.inserted)
      PROVE  m = k /\ m \in Message /\ (m <= sent => m \in Waiting(live))
  <2>1. m = k /\ k # 0 /\ m \in Message
    BY <1>7, <1>8, BoundsAssumption DEF Message
  <2>2. ASSUME m <= sent PROVE m \in Waiting(live)
    <3>1. PICK r : r = [s EXCEPT !.inserted = <<>>]
      OBVIOUS
    <3>2. r \in SpliceType /\ IsInside(live, r) /\ r.inserted = <<>>
      <4>0. <<>> \in Seq(Message)
        OBVIOUS
      <4>1. PICK none \in Seq(Message) : none = <<>>
        BY <4>0
      <4>2. /\ s.target \in Targets /\ s.start \in Nat /\ s.removed \in Nat /\ s.canceled \in BOOLEAN
            /\ s = [target |-> s.target, start |-> s.start, removed |-> s.removed,
                    inserted |-> s.inserted, canceled |-> s.canceled]
        BY <1>8 DEF SpliceType
      <4>3. r = [target |-> s.target, start |-> s.start, removed |-> s.removed,
                 inserted |-> none, canceled |-> s.canceled]
        BY <3>1, <4>1, <4>2
      <4>4. r \in SpliceType /\ r.inserted = none
        BY <4>1, <4>2, <4>3 DEF SpliceType
      <4>5. IsInside(live, r)
        BY <1>8, <4>3 DEF IsInside
      <4> QED
        BY <4>1, <4>4, <4>5
    <3>3. ToSet(r.inserted) = {}
      BY <3>2 DEF ToSet
    <3>4. Waiting(Applied(live, r)) \subseteq Waiting(live)
      BY <1>4, <3>2, <3>3, AppliedInbox
    <3> QED
      BY <1>2, <2>2, <3>1, <3>4 DEF SentOnce
  <2> QED
    BY <2>1, <2>2
<1>10. sent' \in Nat /\ sent <= sent' /\ \A m \in ToSet(s.inserted) : m <= sent'
  <2>1. \A m \in ToSet(s.inserted) : m \in Int /\ m <= sent + 1
    BY <1>6, <1>9
  <2> QED
    BY <1>2, <1>5, <2>1
<1> DEFINE e == InboxEvent(s)
<1>11. e \in Logged /\ IsSplice(e) /\ e.arg = s /\ ~IsClaim(e)
  BY <1>8 DEF InboxEvent, Event, Logged, Kinds, IsSplice, IsClaim
<1> HIDE DEF e
<1>12. Good(f, sent', waived)
  BY <1>4, <1>5, <1>10, LaterIsGood
<1>13. SpliceFits(f, e, sent')
  <2>1. IsUnique(Applied(live, s))
    BY <1>2 DEF Refused
  <2>2. ASSUME NEW m \in ToSet(s.inserted) PROVE f.admitted[m] = 0
    <3>1. m \in Message /\ (m <= sent => m \in Waiting(live))
      BY <1>9
    <3> QED
      BY <1>4, <3>1 DEF Good
  <2> QED
    BY <1>4, <1>8, <1>10, <1>11, <2>1, <2>2 DEF SpliceFits
<1>14. PICK g : g = After(f, e)
  OBVIOUS
<1>15. Leads(f, <<e>>, g, sent', waived)
  BY <1>4, <1>10, <1>11, <1>12, <1>13, <1>14, LeadsOne DEF Fits
<1>16. /\ g.inbox = Applied(live, s) /\ g.last = f.last /\ g.admitted = f.admitted
       /\ g.work.open = f.work.open /\ g.work.stepped = f.work.stepped
       /\ \A t \in g.taken : t \in f.taken
  BY <1>4, <1>10, <1>11, <1>12, <1>13, <1>14, SpliceKeepsGood
<1>17. live' = g.inbox
  <2>1. live' = AppliedEach(live, <<s>>)
    BY <1>2 DEF Mutates, AppliedEach
  <2> QED
    BY <1>16, <2>1, FoldOfOne
<1>18. AppendsAll(<<e>>)
  <2>1. AppendsAll(Appended(<<s>>))
    BY <1>2 DEF Mutates, Appended
  <2> QED
    BY <2>1, AppendedOne DEF e
<1>19. IsPending(g, batch, sent')
  <2>1. Waiting(g.inbox) \subseteq Waiting(live) \cup ToSet(s.inserted)
    BY <1>4, <1>8, <1>16, AppliedInbox
  <2>2. IsPending(f, batch, sent)
    BY <1>1 DEF DriverAt
  <2>3. ASSUME NEW m \in ToSet(batch)
        PROVE  m <= sent' /\ g.admitted[m] = 0 /\ m \notin Waiting(g.inbox)
    <3>1. m <= sent /\ f.admitted[m] = 0 /\ m \notin Waiting(live) /\ m \in Message
      BY <1>4, <1>5, <2>2, SeqRange DEF IsPending
    <3>2. m \in Int
      BY <3>1, BoundsAssumption DEF Message
    <3>3. m \notin ToSet(s.inserted)
      BY <1>9, <3>1
    <3> QED
      BY <1>5, <1>10, <1>16, <2>1, <3>1, <3>2, <3>3
  <2> QED
    BY <2>2, <2>3 DEF IsPending
<1>20. DriverAt(g)'
  <2>1. IsPending(g, batch, sent)'
    BY <1>3, <1>19
  <2>2. \A v : AllWaived(f, v) => AllWaived(g, v)
    BY <1>16 DEF AllWaived
  <2> QED
    BY <1>1, <1>3, <1>16, <1>17, <2>1, <2>2 DEF DriverAt
<1>21. TypeInv'
  <2>1. scan' = scan
    BY <1>18 DEF AppendsAll, storedVars
  <2> QED
    BY <1>3, <1>10, <2>1 DEF Inv, TypeInv
<1> QED
  BY <1>1, <1>3, <1>10, <1>15, <1>18, <1>20, <1>21, LiveStep DEF Inv

LEMMA ClearsStep == Inv /\ Clears => Inv'
<1> SUFFICES ASSUME Inv, Clears PROVE Inv'
  OBVIOUS
<1>1. PICK f : Leads(Stored, buffered, f, sent, waived) /\ DriverAt(f)
  BY DEF Inv, LiveInv, Clears
<1>2. /\ mode = "live" /\ Mutates(Cleared(live))
      /\ UNCHANGED <<pc, turn, step, batch, sent, waived>>
  BY DEF Clears, driverVars
<1>3. f \in Folded /\ Good(f, sent, waived) /\ f.inbox = live /\ sent \in Nat
  BY <1>1, LeadsEnds DEF DriverAt, Inv, TypeInv
<1>4. PICK count \in Nat : count = Len(live["next-turn"])
  <2>1. live["next-turn"] \in Seq(Message)
    BY <1>3 DEF Folded, Inboxes, Targets
  <2> QED
    BY <2>1
<1>5. PICK d \in BOOLEAN : d = TRUE
  OBVIOUS
<1>6. PICK p, q : /\ p = Emptied(f.inbox, "next-step", Len(f.inbox["next-step"]), d)
                  /\ q = Emptied(f.inbox, "next-turn", count, d)
  OBVIOUS
<1>7. Cleared(live) = p \o q
  BY <1>3, <1>4, <1>5, <1>6, Zenon DEF Cleared
<1>8. \E u : /\ Leads(f, Appended(p \o q), u, sent, waived) /\ SameButTaken(f, u, ~d)
             /\ u.inbox = AppliedEach(f.inbox, p \o q)
             /\ Waiting(u.inbox) \subseteq Waiting(f.inbox)
  <2>1. d \/ f.work.open # 0
    BY <1>5
  <2>2. /\ f \in Folded /\ Good(f, sent, waived) /\ sent \in Nat /\ count \in Nat
        /\ d \in BOOLEAN
    BY <1>3
  <2> QED
    BY ONLY <1>6, <2>1, <2>2, LeadsBoth
<1>9. PICK g : /\ Leads(f, Appended(p \o q), g, sent, waived) /\ SameButTaken(f, g, ~d)
               /\ g.inbox = AppliedEach(f.inbox, p \o q)
               /\ Waiting(g.inbox) \subseteq Waiting(f.inbox)
  BY <1>8
<1>10. AppendsAll(Appended(p \o q)) /\ live' = g.inbox
  <2>1. Mutates(p \o q)
    BY <1>2, <1>7
  <2>2. AppendsAll(Appended(p \o q)) /\ live' = AppliedEach(live, p \o q)
    BY <2>1, Zenon DEF Mutates, Appended, AppliedEach
  <2> QED
    BY <1>3, <1>9, <2>2
<1>11. /\ g.last = f.last /\ g.admitted = f.admitted /\ g.work.open = f.work.open
       /\ g.work.stepped = f.work.stepped /\ \A v : AllWaived(f, v) => AllWaived(g, v)
  BY <1>5, <1>9 DEF SameButTaken, AllWaived
<1>12. IsPending(g, batch, sent)
  BY <1>1, <1>9, <1>11 DEF DriverAt, IsPending
<1>13. DriverAt(g)'
  <2>1. IsPending(g, batch, sent)'
    BY <1>2, <1>12
  <2> QED
    BY <1>1, <1>2, <1>10, <1>11, <2>1 DEF DriverAt
<1>14. TypeInv'
  BY <1>2, <1>10 DEF Inv, TypeInv, AppendsAll, storedVars
<1>15. sent <= sent' /\ waived \subseteq waived' /\ Leads(f, Appended(p \o q), g, sent', waived')
  BY <1>2, <1>3, <1>9
<1> QED
  BY <1>1, <1>2, <1>10, <1>13, <1>14, <1>15, LiveStep DEF Inv

\* A turn is opened where none was, and so with nothing taken that is not
\* accounted for.
LEMMA TurnStartStep == Inv /\ TurnStart => Inv'
<1> SUFFICES ASSUME Inv, TurnStart PROVE Inv'
  OBVIOUS
<1>1. PICK f : Leads(Stored, buffered, f, sent, waived) /\ DriverAt(f)
  BY DEF Inv, LiveInv, TurnStart, At
<1> DEFINE e == Event("turn/start", turn + 1, 0)
<1>2. /\ mode = "live" /\ pc = "idle" /\ AppendsAll(<<e>>) /\ turn' = turn + 1 /\ step' = 0
      /\ pc' = "boundary" /\ UNCHANGED <<live, batch, sent, waived>>
  BY DEF TurnStart, At, Appends
<1>3. f \in Folded /\ Good(f, sent, waived) /\ sent \in Nat /\ turn \in Nat
  BY <1>1, LeadsEnds DEF Inv, TypeInv
<1>4. f.work.open = 0 /\ f.last = turn /\ f.inbox = live
  BY <1>1, <1>2 DEF DriverAt
<1>5. e \in Logged /\ e.type = "turn/start" /\ e.turn = turn + 1
  BY <1>3 DEF Event, Logged, Kinds
<1> HIDE DEF e
<1>6. PICK g : g = After(f, e)
  OBVIOUS
<1>7. /\ g.inbox = f.inbox /\ g.admitted = f.admitted /\ g.last = e.turn /\ g.work.open = e.turn
      /\ AllWaived(g, waived)
  BY <1>3, <1>4, <1>5, <1>6, StartKeepsGood
<1>8. Leads(f, <<e>>, g, sent, waived)
  BY <1>3, <1>4, <1>5, <1>6, LeadsOne DEF Fits
<1>9. DriverAt(g)'
  <2>1. IsPending(g, batch, sent)'
    BY <1>1, <1>2, <1>7 DEF DriverAt, IsPending
  <2> QED
    BY <1>2, <1>3, <1>4, <1>5, <1>7, <2>1 DEF DriverAt
<1>10. TypeInv'
  BY <1>2, <1>3 DEF Inv, TypeInv, AppendsAll, storedVars
<1>11. sent <= sent' /\ waived \subseteq waived' /\ Leads(f, <<e>>, g, sent', waived')
  BY <1>2, <1>3, <1>8
<1> QED
  BY <1>1, <1>2, <1>9, <1>10, <1>11, LiveStep DEF Inv

LEMMA StepStartStep == Inv /\ StepStart => Inv'
<1> SUFFICES ASSUME Inv, StepStart PROVE Inv'
  OBVIOUS
<1>1. PICK f : Leads(Stored, buffered, f, sent, waived) /\ DriverAt(f)
  BY DEF Inv, LiveInv, StepStart, At
<1> DEFINE e == Event("step/start", turn, 0)
<1>2. /\ mode = "live" /\ pc = "claimed" /\ AppendsAll(<<e>>) /\ step' = step + 1
      /\ pc' = "request" /\ UNCHANGED <<live, turn, batch, sent, waived>>
  BY DEF StepStart, At, Appends
<1>3. /\ f \in Folded /\ Good(f, sent, waived) /\ sent \in Nat /\ turn \in Nat /\ step \in Nat
  BY <1>1, LeadsEnds DEF Inv, TypeInv
<1>4. e \in Logged /\ e.type = "step/start" /\ e.turn = turn
  BY <1>3 DEF Event, Logged, Kinds
<1> HIDE DEF e
<1>5. PICK g : g = After(f, e)
  OBVIOUS
<1>6. /\ g.inbox = f.inbox /\ g.admitted = f.admitted /\ g.last = f.last
      /\ g.work.open = f.work.open /\ turn \in g.work.stepped
  BY <1>3, <1>4, <1>5, StepKeepsGood
<1>7. Leads(f, <<e>>, g, sent, waived)
  BY <1>3, <1>4, <1>5, LeadsOne DEF Fits
<1>8. DriverAt(g)'
  <2>1. IsPending(g, batch, sent)'
    BY <1>1, <1>2, <1>6 DEF DriverAt, IsPending
  <2> QED
    BY <1>1, <1>2, <1>3, <1>6, <2>1 DEF DriverAt
<1>9. TypeInv'
  BY <1>2, <1>3 DEF Inv, TypeInv, AppendsAll, storedVars
<1>10. sent <= sent' /\ waived \subseteq waived' /\ Leads(f, <<e>>, g, sent', waived')
  BY <1>2, <1>3, <1>7
<1> QED
  BY <1>1, <1>2, <1>8, <1>9, <1>10, LiveStep DEF Inv

LEMMA StepEndStep == Inv /\ StepEnd => Inv'
<1> SUFFICES ASSUME Inv, StepEnd PROVE Inv'
  OBVIOUS
<1>1. PICK f : Leads(Stored, buffered, f, sent, waived) /\ DriverAt(f)
  BY DEF Inv, LiveInv, StepEnd, At
<1> DEFINE e == Event("step/end", turn, 0)
<1>2. /\ mode = "live" /\ pc \in {"request", "streaming"} /\ AppendsAll(<<e>>) /\ batch' = <<>>
      /\ pc' = "boundary" /\ UNCHANGED <<live, turn, step, sent, waived>>
  BY DEF StepEnd, At, Appends
<1>3. /\ f \in Folded /\ Good(f, sent, waived) /\ sent \in Nat /\ turn \in Nat /\ step \in Nat
  BY <1>1, LeadsEnds DEF Inv, TypeInv
<1>4. e \in Logged /\ e.type = "step/end"
  BY <1>3 DEF Event, Logged, Kinds
<1> HIDE DEF e
<1>5. PICK g : g = After(f, e)
  OBVIOUS
<1>6. /\ g.inbox = f.inbox /\ g.admitted = f.admitted /\ g.last = f.last
      /\ g.work.open = f.work.open /\ f.work.stepped \subseteq g.work.stepped
  BY <1>3, <1>4, <1>5, StepKeepsGood
<1>7. Leads(f, <<e>>, g, sent, waived)
  BY <1>3, <1>4, <1>5, LeadsOne DEF Fits
<1>8. DriverAt(g)'
  <2>1. IsPending(g, batch, sent)'
    BY <1>2 DEF IsPending, NoRepeats, ToSet
  <2> QED
    BY <1>1, <1>2, <1>3, <1>6, <2>1 DEF DriverAt
<1>9. TypeInv'
  BY <1>2, <1>3 DEF Inv, TypeInv, AppendsAll, storedVars
<1>10. sent <= sent' /\ waived \subseteq waived' /\ Leads(f, <<e>>, g, sent', waived')
  BY <1>2, <1>3, <1>7
<1> QED
  BY <1>1, <1>2, <1>8, <1>9, <1>10, LiveStep DEF Inv

----------------------------------------------------------------------------
(* The driver's claim, and what becomes of it.                             *)

ClaimCount(a) == IF a = "next-turn" THEN 1 ELSE 0

LEMMA ClaimsAre ==
  ASSUME NEW q \in Inboxes, NEW a \in Targets, NEW n, n = ClaimCount(a), NEW d, d = FALSE
  PROVE  Claims(q, a) = Emptied(q, "next-step", Len(q["next-step"]), d)
                            \o Emptied(q, "next-turn", n, d)
<1>1. CASE a = "next-turn"
  BY <1>1, Zenon DEF Claims, ClaimCount
<1>2. CASE a # "next-turn"
  <2>1. Claims(q, a) = Emptied(q, "next-step", Len(q["next-step"]), d) \o <<>>
    BY <1>2, Zenon DEF Claims
  <2>2. n = 0 /\ n \in Nat /\ d \in BOOLEAN
    BY <1>2 DEF ClaimCount
  <2>3. PICK k : k = CutCount(q, "next-turn", n)
    OBVIOUS
  <2>4. /\ "next-turn" \in Targets
        /\ Emptied(q, "next-turn", n, d) = IF k = 0 THEN <<>> ELSE <<Removal("next-turn", k, d)>>
    BY <2>2, <2>3, EmptiedIs DEF Targets
  <2>5. k = 0
    <3>1. q["next-turn"] \in Seq(Message)
      BY DEF Inboxes, Targets
    <3> QED
      BY <2>2, <2>3, <3>1 DEF CutCount
  <2> QED
    BY <2>1, <2>4, <2>5
<1> QED
  BY <1>1, <1>2

\* What a claim takes leaves the inbox, is no more than that, and names
\* nothing twice.
LEMMA ClaimedFacts ==
  ASSUME NEW q \in Inboxes, IsDistinct(q), NEW a \in Targets, NEW k,
         k = CutCount(q, "next-turn", ClaimCount(a)), NEW r, r["next-step"] = <<>>,
         r["next-turn"] = Cut(q, "next-turn", k)["next-turn"], NEW c, c = Claimed(q, a)
  PROVE  /\ c \in Seq(Message) /\ NoRepeats(c)
         /\ ToSet(c) \subseteq Waiting(q) /\ ToSet(c) \cap Waiting(r) = {}
         /\ a = "next-turn" => Waiting(q) \ Waiting(r) \subseteq ToSet(c)
<1>1. PICK x \in Seq(Message), y \in Seq(Message) : x = q["next-step"] /\ y = q["next-turn"]
  BY DEF Inboxes, Targets
<1>2. NoRepeats(x) /\ NoRepeats(y) /\ ToSet(x) \cap ToSet(y) = {} /\ Waiting(q) = ToSet(y) \cup ToSet(x)
  BY <1>1 DEF IsDistinct, Waiting
<1>3. PICK n \in Nat : n = Len(y)
  OBVIOUS
<1>4. k = (IF ClaimCount(a) < n THEN ClaimCount(a) ELSE n) /\ k \in 0..Len(y)
  BY <1>1, <1>3 DEF CutCount, ClaimCount
<1>5. PICK z : z = SubSeq(y, k + 1, Len(y))
  OBVIOUS
<1>6. Waiting(r) = ToSet(z)
  <2>1. Cut(q, "next-turn", k)["next-turn"] = z
    <3>1. "next-turn" \in Targets /\ k \in 0..Len(q["next-turn"])
      BY <1>1, <1>4 DEF Targets
    <3> QED
      BY <1>1, <1>5, <3>1, CutFacts
  <2>2. ToSet(<<>>) = {}
    BY DEF ToSet
  <2> QED
    BY <2>1, <2>2 DEF Waiting
<1>7. /\ ToSet(z) \subseteq ToSet(y)
      /\ k = 1 => Head(y) \notin ToSet(z) /\ ToSet(y) = {Head(y)} \cup ToSet(z)
  BY <1>2, <1>4, <1>5, RestFacts
<1>8. CASE a = "next-turn" /\ y # <<>>
  <2>1. n # 0
    BY <1>3, <1>8
  <2>2. ClaimCount(a) = 1
    BY <1>8 DEF ClaimCount
  <2>3. k = 1
    BY <1>3, <1>4, <2>1, <2>2
  <2>4. PICK h \in Message : h = Head(y)
    BY <1>8, HeadTailProperties
  <2>5. PICK v \in Seq(Message) : v = <<h>>
    <3>1. <<h>> \in Seq(Message)
      OBVIOUS
    <3> QED
      BY <3>1
  <2>6. ToSet(v) = {h} /\ NoRepeats(v)
    <3>1. DOMAIN v = {1} /\ v[1] = h
      BY <2>5
    <3> QED
      BY <3>1 DEF ToSet, NoRepeats
  <2>7. c = x \o v
    <3>1. c = q["next-step"] \o <<Head(q["next-turn"])>>
      BY <1>1, <1>8, Zenon DEF Claimed
    <3> QED
      BY <1>1, <2>4, <2>5, <3>1
  <2>8. ToSet(x) \cap ToSet(v) = {}
    BY <1>2, <1>7, <2>3, <2>4, <2>6
  <2>9. c \in Seq(Message) /\ ToSet(c) = ToSet(x) \cup ToSet(v) /\ NoRepeats(c)
    BY <1>2, <2>6, <2>7, <2>8, JoinedRange
  <2> QED
    BY <1>2, <1>6, <1>7, <2>3, <2>4, <2>6, <2>9
<1>9. CASE ~(a = "next-turn" /\ y # <<>>)
  <2>1. c = x
    <3>1. c = q["next-step"] \o <<>>
      BY <1>1, <1>9, Zenon DEF Claimed
    <3> QED
      BY <1>1, <3>1
  <2>2. a = "next-turn" => Waiting(q) = ToSet(x)
    <3>1. ToSet(<<>>) = {}
      BY DEF ToSet
    <3> QED
      BY <1>2, <1>9, <3>1
  <2> QED
    BY <1>2, <1>6, <1>7, <2>1, <2>2
<1> QED
  BY <1>8, <1>9

LEMMA ClaimStep == Inv /\ Claim => Inv'
<1> SUFFICES ASSUME Inv, Claim PROVE Inv'
  OBVIOUS
<1>1. PICK f : Leads(Stored, buffered, f, sent, waived) /\ DriverAt(f)
  BY DEF Inv, LiveInv, Claim, At
<1>2. /\ mode = "live" /\ pc = "boundary" /\ Mutates(Claims(live, Target))
      /\ batch' = Claimed(live, Target) /\ pc' = "claimed"
      /\ UNCHANGED <<turn, step, sent, waived>>
  BY DEF Claim, At
<1>3. /\ f \in Folded /\ Good(f, sent, waived) /\ f.inbox = live /\ live \in Inboxes
      /\ sent \in Nat
  BY <1>1, LeadsEnds DEF DriverAt, Inv, TypeInv, Folded
<1>4. f.work.open # 0 /\ f.work.open = turn
  BY <1>1, <1>2 DEF DriverAt
<1>5. PICK a \in Targets : a = Target
  BY DEF Target, Targets
<1>6. PICK count \in Nat : count = ClaimCount(a)
  BY DEF ClaimCount
<1>7. PICK d \in BOOLEAN : d = FALSE
  OBVIOUS
<1>8. PICK p, q : /\ p = Emptied(f.inbox, "next-step", Len(f.inbox["next-step"]), d)
                  /\ q = Emptied(f.inbox, "next-turn", count, d)
  OBVIOUS
<1>9. Claims(live, Target) = p \o q
  <2>1. live \in Inboxes /\ a \in Targets
    BY <1>3
  <2>2. Claims(live, a) = Emptied(live, "next-step", Len(live["next-step"]), d)
                              \o Emptied(live, "next-turn", count, d)
    BY ONLY <1>6, <1>7, <2>1, ClaimsAre
  <2> QED
    BY <1>3, <1>5, <1>8, <2>2
<1>10. PICK k : k = CutCount(f.inbox, "next-turn", count)
  OBVIOUS
<1>11. \E u : /\ Leads(f, Appended(p \o q), u, sent, waived) /\ SameButTaken(f, u, ~d)
              /\ u.inbox = AppliedEach(f.inbox, p \o q)
              /\ u.inbox["next-step"] = <<>> /\ Waiting(u.inbox) \subseteq Waiting(f.inbox)
              /\ u.inbox["next-turn"] = Cut(f.inbox, "next-turn", k)["next-turn"]
  <2>1. d \/ f.work.open # 0
    BY <1>4
  <2>2. /\ f \in Folded /\ Good(f, sent, waived) /\ sent \in Nat /\ count \in Nat
        /\ d \in BOOLEAN
    BY <1>3
  <2>3. \E u : /\ Leads(f, Appended(p \o q), u, sent, waived) /\ SameButTaken(f, u, ~d)
               /\ u.inbox = AppliedEach(f.inbox, p \o q)
               /\ u.inbox["next-step"] = <<>> /\ Waiting(u.inbox) \subseteq Waiting(f.inbox)
               /\ u.inbox["next-turn"] =
                      Cut(f.inbox, "next-turn", CutCount(f.inbox, "next-turn", count))["next-turn"]
    BY ONLY <1>8, <2>1, <2>2, LeadsBoth
  <2> QED
    BY <1>10, <2>3
<1>12. PICK g : /\ Leads(f, Appended(p \o q), g, sent, waived) /\ SameButTaken(f, g, ~d)
                /\ g.inbox = AppliedEach(f.inbox, p \o q)
                /\ g.inbox["next-step"] = <<>> /\ Waiting(g.inbox) \subseteq Waiting(f.inbox)
                /\ g.inbox["next-turn"] = Cut(f.inbox, "next-turn", k)["next-turn"]
  BY <1>11
<1>13. AppendsAll(Appended(p \o q)) /\ live' = g.inbox
  <2>1. Mutates(p \o q)
    BY <1>2, <1>9
  <2>2. AppendsAll(Appended(p \o q)) /\ live' = AppliedEach(live, p \o q)
    BY <2>1, Zenon DEF Mutates, Appended, AppliedEach
  <2> QED
    BY <1>3, <1>12, <2>2
<1>14. /\ g.last = f.last /\ g.admitted = f.admitted /\ g.work.open = f.work.open
       /\ g.work.stepped = f.work.stepped
       /\ \A x \in g.taken : x \in f.taken \/ x[1] \in Waiting(live) \ Waiting(g.inbox)
  BY <1>3, <1>12 DEF SameButTaken
<1>15. /\ batch' \in Seq(Message) /\ NoRepeats(batch')
       /\ ToSet(batch') \subseteq Waiting(live) /\ ToSet(batch') \cap Waiting(g.inbox) = {}
       /\ a = "next-turn" => Waiting(live) \ Waiting(g.inbox) \subseteq ToSet(batch')
  <2>1. IsDistinct(live)
    BY <1>3, UniqueIsDistinct DEF Good
  <2>2. PICK r : r = g.inbox
    OBVIOUS
  <2>3. PICK c : c = Claimed(live, a) /\ c = batch'
    BY <1>2, <1>5
  <2>4. /\ k = CutCount(live, "next-turn", ClaimCount(a))
        /\ r["next-step"] = <<>> /\ r["next-turn"] = Cut(live, "next-turn", k)["next-turn"]
    BY <1>3, <1>6, <1>10, <1>12, <2>2
  <2>5. live \in Inboxes /\ a \in Targets
    BY <1>3
  <2>6. /\ c \in Seq(Message) /\ NoRepeats(c)
        /\ ToSet(c) \subseteq Waiting(live) /\ ToSet(c) \cap Waiting(r) = {}
        /\ a = "next-turn" => Waiting(live) \ Waiting(r) \subseteq ToSet(c)
    BY ONLY <2>1, <2>3, <2>4, <2>5, ClaimedFacts
  <2> QED
    BY <2>2, <2>3, <2>6
<1>16. IsPending(g, batch', sent)
  <2>1. ASSUME NEW m \in ToSet(batch') PROVE m <= sent /\ g.admitted[m] = 0
    <3>1. m \in Message /\ m \in Waiting(live)
      BY <1>3, <1>15, WaitingType
    <3> QED
      BY <1>3, <1>14, <3>1 DEF Good
  <2> QED
    BY <1>15, <2>1 DEF IsPending
<1>17. (step = 0) => AllWaived(g, waived \cup ToSet(batch'))
  <2>1. step = 0 => a = "next-turn" /\ AllWaived(f, waived)
    BY <1>1, <1>2, <1>5 DEF Target, DriverAt
  <2> QED
    BY <1>14, <1>15, <2>1 DEF AllWaived
<1>18. DriverAt(g)'
  <2>1. IsPending(g, batch, sent)'
    BY <1>2, <1>16
  <2> QED
    BY <1>1, <1>2, <1>13, <1>14, <1>17, <2>1 DEF DriverAt
<1>19. TypeInv'
  BY <1>2, <1>13, <1>15 DEF Inv, TypeInv, AppendsAll, storedVars
<1>20. sent <= sent' /\ waived \subseteq waived' /\ Leads(f, Appended(p \o q), g, sent', waived')
  BY <1>2, <1>3, <1>12
<1> QED
  BY <1>1, <1>2, <1>13, <1>18, <1>19, <1>20, LiveStep DEF Inv

LEMMA AdmitStep == Inv /\ Admit => Inv'
<1> SUFFICES ASSUME Inv, Admit PROVE Inv'
  OBVIOUS
<1>1. PICK f : Leads(Stored, buffered, f, sent, waived) /\ DriverAt(f)
  BY DEF Inv, LiveInv, Admit, At
<1>2. /\ mode = "live" /\ pc = "request" /\ AppendsAll(Admissions(batch)) /\ batch' = <<>>
      /\ pc' = "streaming" /\ UNCHANGED <<live, turn, step, sent, waived>>
  BY Zenon DEF Admit, At, Admissions
<1>3. /\ f \in Folded /\ Good(f, sent, waived) /\ sent \in Nat /\ IsPending(f, batch, sent)
  BY <1>1, LeadsEnds DEF Inv, TypeInv, DriverAt
<1>4. PICK g : /\ Leads(f, Admissions(batch), g, sent, waived)
               /\ g.inbox = f.inbox /\ g.work = f.work /\ g.last = f.last /\ g.taken = f.taken
  BY <1>3, LeadsAdmissions
<1>5. DriverAt(g)'
  <2>1. IsPending(g, batch, sent)'
    BY <1>2 DEF IsPending, NoRepeats, ToSet
  <2> QED
    BY <1>1, <1>2, <1>4, <2>1 DEF DriverAt
<1>6. TypeInv'
  BY <1>2 DEF Inv, TypeInv, AppendsAll, storedVars
<1>7. /\ sent <= sent' /\ waived \subseteq waived'
      /\ Leads(f, Admissions(batch), g, sent', waived')
  BY <1>2, <1>3, <1>4
<1> QED
  BY <1>1, <1>2, <1>5, <1>6, <1>7, LiveStep DEF Inv

\* A turn ends: what it took is accounted for, or given up by then.
LEMMA EndsStep ==
  ASSUME Inv, mode = "live", pc \in {"boundary", "claimed"}, NEW reason \in {Completed, CutShort},
         Ends(reason), NEW v, waived' = v, waived \subseteq v,
         \A f : DriverAt(f) => turn \in f.work.stepped \/ reason # Completed \/ AllWaived(f, v)
  PROVE  Inv'
<1>1. PICK f : Leads(Stored, buffered, f, sent, waived) /\ DriverAt(f)
  BY DEF Inv, LiveInv
<1> DEFINE e == Event("turn/end", turn, reason)
<1>2. /\ AppendsAll(<<e>>) /\ batch' = <<>> /\ pc' = "idle"
      /\ UNCHANGED <<live, turn, step, sent>>
  BY DEF Ends, Appends
<1>3. f \in Folded /\ Good(f, sent, waived) /\ sent \in Nat /\ turn \in Nat
  BY <1>1, LeadsEnds DEF Inv, TypeInv
<1>4. e \in Logged /\ e.type = "turn/end" /\ e.turn = turn /\ e.arg = reason
  BY <1>3 DEF Event, Logged, Kinds, Completed, CutShort
<1> HIDE DEF e
<1>5. Good(f, sent, v)
  BY <1>3, LaterIsGood
<1>6. EndFits(f, e, v)
  BY <1>1, <1>4 DEF EndFits, DriverAt
<1>7. PICK g : g = After(f, e)
  OBVIOUS
<1>8. /\ g.inbox = f.inbox /\ g.admitted = f.admitted /\ g.last = f.last
      /\ g.work.open = 0
  BY <1>3, <1>5, <1>6, <1>7, EndKeepsGood
<1>9. Leads(f, <<e>>, g, sent, v)
  BY <1>3, <1>4, <1>5, <1>6, <1>7, LeadsOne DEF Fits
<1>10. DriverAt(g)'
  <2>1. IsPending(g, batch, sent)'
    BY <1>2 DEF IsPending, NoRepeats, ToSet
  <2> QED
    BY <1>1, <1>2, <1>8, <2>1 DEF DriverAt
<1>11. TypeInv'
  BY <1>2 DEF Inv, TypeInv, AppendsAll, storedVars
<1>12. sent <= sent' /\ waived \subseteq waived' /\ Leads(f, <<e>>, g, sent', waived')
  BY <1>2, <1>3, <1>9
<1> QED
  BY <1>1, <1>2, <1>10, <1>11, <1>12, LiveStep DEF Inv

LEMMA TurnEndStep == Inv /\ TurnEnd => Inv'
<1> SUFFICES ASSUME Inv, TurnEnd PROVE Inv'
  OBVIOUS
<1>1. mode = "live" /\ pc \in {"boundary", "claimed"} /\ waived' = waived
  BY DEF TurnEnd, At
<1>2. CASE Ends(CutShort)
  <2>1. CutShort # Completed
    BY DEF CutShort, Completed
  <2> QED
    BY <1>1, <1>2, <2>1, EndsStep
<1>3. CASE step > 0 /\ Ends(Completed)
  <2>1. \A f : DriverAt(f) => turn \in f.work.stepped
    BY <1>1, <1>3 DEF DriverAt
  <2> QED
    BY <1>1, <1>3, <2>1, EndsStep
<1> QED
  BY <1>2, <1>3 DEF TurnEnd

LEMMA NoOpTurnEndStep == Inv /\ NoOpTurnEnd => Inv'
<1> SUFFICES ASSUME Inv, NoOpTurnEnd PROVE Inv'
  OBVIOUS
<1>1. PICK v : v = waived \cup ToSet(batch)
  OBVIOUS
<1>2. mode = "live" /\ pc = "claimed" /\ step = 0 /\ Ends(Completed) /\ waived' = v
  BY <1>1 DEF NoOpTurnEnd, At
<1>3. \A f : DriverAt(f) => AllWaived(f, v)
  BY <1>1, <1>2 DEF DriverAt
<1> QED
  BY <1>1, <1>2, <1>3, EndsStep

----------------------------------------------------------------------------
(* The theorems.                                                           *)

LEMMA NextInv == Inv /\ [Next]_vars => Inv'
<1> SUFFICES ASSUME Inv, [Next]_vars PROVE Inv'
  OBVIOUS
<1>1. CASE Splices
  BY <1>1, SplicesStep
<1>2. CASE Clears
  BY <1>2, ClearsStep
<1>3. CASE Driver
  BY <1>3, TurnStartStep, ClaimStep, StepStartStep, AdmitStep, StepEndStep, TurnEndStep,
     NoOpTurnEndStep DEF Driver
<1>4. CASE Drain
  BY <1>4, DrainStep
<1>5. CASE Crash
  BY <1>5, CrashStep
<1>6. CASE OpenStored
  BY <1>6, OpenStoredStep
<1>7. CASE StoreCloser
  BY <1>7, StoreCloserStep
<1>8. CASE Resume
  BY <1>8, ResumeStep
<1>9. CASE UNCHANGED vars
  <2>1. /\ UNCHANGED <<mode, closers, buffered, live, pc, turn, step, batch, sent, waived>>
        /\ UNCHANGED <<work, scan, unreadable>> /\ Stored' = Stored
    BY <1>9 DEF vars, storedVars, driverVars, historyVars, Stored
  <2>2. TypeInv' /\ StoredInv'
    BY <2>1 DEF Inv, TypeInv, StoredInv
  <2>3. \A f : DriverAt(f) => DriverAt(f)'
    BY <2>1 DEF DriverAt
  <2>4. LiveInv'
    BY <2>1, <2>3 DEF Inv, LiveInv
  <2>5. RepairInv'
    BY <2>1 DEF Inv, RepairInv, Closing
  <2> QED
    BY <2>2, <2>4, <2>5 DEF Inv
<1> QED
  BY <1>1, <1>2, <1>3, <1>4, <1>5, <1>6, <1>7, <1>8, <1>9 DEF Next

\* What is stored is a good log, what is buffered leads from it to where the
\* driver is, and a repair closes the turn that is open and nothing else.
THEOREM InvAlways == Spec => []Inv
  BY InitInv, NextInv, PTL DEF Spec

\* Whatever positions callers ask for and wherever a crash cuts the log, the
\* strict inbox projection (inbox.ts) accepts every stored splice, and each
\* message is stored as a user message at most once, and never while it is
\* pending: for any number of messages, turns and crashes.
THEOREM InboxAlwaysReadable == Spec => []InboxIsReadable
<1>1. Inv => InboxIsReadable
  <2> SUFFICES ASSUME Inv
               PROVE  /\ ~unreadable
                      /\ \A m \in Message : admitted[m] + (IF m \in Waiting(inbox) THEN 1 ELSE 0) <= 1
    BY DEF InboxIsReadable
  <2>1. ~unreadable /\ Good(Stored, sent, waived)
    BY DEF Inv, StoredInv
  <2>2. \A m \in Message : admitted[m] \in {0, 1} /\ (m \in Waiting(inbox) => admitted[m] = 0)
    BY <2>1, StoredFields DEF Good
  <2> QED
    BY <2>1, <2>2
<1> QED
  BY <1>1, InvAlways, PTL

\* No turn is closed, by its driver or by the repair of the next process,
\* without an account (consumed-work.ts) of the messages it took, unless a
\* hook gave them up: for any number of messages, turns and crashes.
THEOREM ClaimsAlwaysAccounted == Spec => []ClaimIsAccounted
<1>1. Inv => ClaimIsAccounted
  <2> SUFFICES ASSUME Inv, scan.turn = 0, NEW t \in taken PROVE t[1] \in waived
    BY DEF ClaimIsAccounted
  <2>1. Good(Stored, sent, waived) /\ work.open = 0
    BY DEF Inv, StoredInv
  <2> QED
    BY <2>1, StoredFields DEF Good
<1> QED
  BY <1>1, InvAlways, PTL

=============================================================================
