----------------------------- MODULE WriteLease -----------------------------
(***************************************************************************)
(* The kernel lock on a stored session, SessionWriteLease.acquire in       *)
(* packages/session/session-persistence-jsonl/src/lease.ts, its POSIX      *)
(* branch.  flock(2) locks an inode, not a path: between the open and the  *)
(* lock the file at the path may have been removed and created anew, so    *)
(* the winner compares inodes and starts over against the new file.        *)
(*                                                                         *)
(* A process holds one descriptor at most: claimWrite refuses a second     *)
(* writer of the session in the process before it comes here.              *)
(***************************************************************************)
EXTENDS Naturals

CONSTANTS
    Procs,              \* the processes that open the session
    Removers,           \* those that remove the lock file when they leave
    MaxInodes           \* bound: lock files ever created

ASSUME RemoversAssumption == Removers \subseteq Procs
ASSUME InodesAssumption == MaxInodes \in Nat \ {0}

VARIABLES
    path,               \* the inode at the path of the lock file, 0 if there is none
    inodes,             \* inodes created so far
    lock,               \* who locks each inode, in the kernel
    fd,                 \* the inode each process has open, 0 for none
    at,                 \* where acquire() is
    tries               \* its attempts

leaseVars == <<path, inodes, lock, fd, at, tries>>

Nobody == "nobody"

ASSUME NobodyAssumption == Nobody \notin Procs

LeaseInit ==
    /\ path = 0 /\ inodes = 0
    /\ lock = [i \in 1..MaxInodes |-> Nobody]
    /\ fd = [p \in Procs |-> 0]
    /\ at = [p \in Procs |-> "idle"]
    /\ tries = [p \in Procs |-> 0]

Held(p) == at[p] = "held"

MaxAttempts == 3

----------------------------------------------------------------------------

\* The kernel drops the lock with the descriptor.
Closed(p) == [i \in 1..MaxInodes |-> IF lock[i] = p THEN Nobody ELSE lock[i]]

CloseFd(p, to) ==
    /\ lock' = Closed(p)
    /\ fd' = [fd EXCEPT ![p] = 0]
    /\ at' = [at EXCEPT ![p] = to]

Acquire(p) ==
    /\ at[p] = "idle"
    /\ at' = [at EXCEPT ![p] = "opening"]
    /\ tries' = [tries EXCEPT ![p] = 0]
    /\ UNCHANGED <<path, inodes, lock, fd>>

OpenLockFile(p) ==
    /\ at[p] = "opening"
    /\ \/ path # 0 /\ UNCHANGED <<path, inodes>>
       \/ /\ path = 0 /\ inodes < MaxInodes
          /\ path' = inodes + 1 /\ inodes' = inodes + 1
    /\ fd' = [fd EXCEPT ![p] = path']
    /\ tries' = [tries EXCEPT ![p] = @ + 1]
    /\ at' = [at EXCEPT ![p] = "opened"]
    /\ UNCHANGED lock

Lock(p) ==
    /\ at[p] = "opened" /\ lock[fd[p]] = Nobody
    /\ lock' = [lock EXCEPT ![fd[p]] = p]
    /\ at' = [at EXCEPT ![p] = "locked"]
    /\ UNCHANGED <<path, inodes, fd, tries>>

Contended(p) ==
    /\ at[p] = "opened" /\ lock[fd[p]] # Nobody
    /\ CloseFd(p, "refused")
    /\ UNCHANGED <<path, inodes, tries>>

NoCheck(p) == TRUE                      \* mutant: the inodes are not compared

SameFile(p) == fd[p] = path

Verified(p) ==
    /\ at[p] = "locked" /\ SameFile(p)
    /\ at' = [at EXCEPT ![p] = "held"]
    /\ UNCHANGED <<path, inodes, lock, fd, tries>>

Orphaned(p) ==
    /\ at[p] = "locked" /\ ~SameFile(p)
    /\ CloseFd(p, IF tries[p] < MaxAttempts THEN "opening" ELSE "refused")
    /\ UNCHANGED <<path, inodes, tries>>

\* open, flock or stat rejects.
AcquireFails(p) ==
    /\ at[p] \in {"opening", "opened", "locked"}
    /\ CloseFd(p, "refused")
    /\ UNCHANGED <<path, inodes, tries>>

Release(p) ==
    /\ at[p] \in {"held", "unlinked"}
    /\ CloseFd(p, "idle")
    /\ UNCHANGED <<path, inodes, tries>>

\* A holder of another make that removes the file before it releases the
\* lock; nothing in this repository does.
Unlink(p) ==
    /\ p \in Removers /\ Held(p)
    /\ path' = 0
    /\ at' = [at EXCEPT ![p] = "unlinked"]
    /\ UNCHANGED <<inodes, lock, fd, tries>>

\* acquire() rejects.
Answered(p) ==
    /\ at[p] = "refused"
    /\ at' = [at EXCEPT ![p] = "idle"]
    /\ UNCHANGED <<path, inodes, lock, fd, tries>>

\* The process dies, wherever it is.
LosesAll(p) ==
    /\ CloseFd(p, "idle")
    /\ UNCHANGED <<path, inodes, tries>>

LeaseSteps(p) == OpenLockFile(p) \/ Lock(p) \/ Contended(p) \/ Verified(p) \/ Orphaned(p)

----------------------------------------------------------------------------

\* However opens, locks, crashes and removals of the lock file by a leaving
\* holder interleave, two processes never both hold the lease.
OneWriter == \A p, q \in Procs : Held(p) /\ Held(q) => p = q

=============================================================================
