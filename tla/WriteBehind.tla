----------------------------- MODULE WriteBehind -----------------------------
(***************************************************************************)
(* What the write path of a session promises to the rest of the program:   *)
(* published events reach storage later and in order, and a barrier (a     *)
(* session/flush, or the close of the handle) that returns without an      *)
(* error has waited for every event that was published before its call.    *)
(* A flush that joins a write when it is over already promises nothing.    *)
(***************************************************************************)
EXTENDS Naturals

CONSTANTS
    Barriers,           \* the calls that wait for storage
    Joiners             \* those of them that may come too late to a write

VARIABLES
    published,          \* how many events the session has published
    stored,             \* how many of them are in storage
    barrier,            \* what each call is doing
    covers,             \* how many events were published before the call
    late                \* the calls that came too late

vars == <<published, stored, barrier, covers, late>>

Init ==
    /\ published = 0 /\ stored = 0
    /\ barrier = [b \in Barriers |-> "idle"]
    /\ covers = [b \in Barriers |-> 0] /\ late = {}

Publish ==
    /\ published' = published + 1
    /\ UNCHANGED <<stored, barrier, covers, late>>

Store ==
    /\ stored' \in (stored + 1)..published
    /\ UNCHANGED <<published, barrier, covers, late>>

Call(b) ==
    /\ barrier[b] = "idle"
    /\ barrier' = [barrier EXCEPT ![b] = "waiting"]
    /\ covers' = [covers EXCEPT ![b] = published]
    /\ \/ UNCHANGED late
       \/ b \in Joiners /\ late' = late \cup {b}
    /\ UNCHANGED <<published, stored>>

Return(b) ==
    /\ barrier[b] = "waiting"
    /\ covers[b] <= stored \/ b \in late
    /\ barrier' = [barrier EXCEPT ![b] = "returned"]
    /\ UNCHANGED <<published, stored, covers, late>>

\* Calls that wait for the same write fail together.
Fail(B) ==
    /\ B # {} /\ \A b \in B : barrier[b] = "waiting"
    /\ barrier' = [b \in Barriers |-> IF b \in B THEN "failed" ELSE barrier[b]]
    /\ UNCHANGED <<published, stored, covers, late>>

Next ==
    \/ Publish \/ Store
    \/ \E b \in Barriers : Call(b) \/ Return(b)
    \/ \E B \in SUBSET Barriers : Fail(B)

\* A call settles, one way or the other.
Fairness ==
    \A b \in Barriers : WF_vars(Return(b) \/ \E B \in SUBSET Barriers : b \in B /\ Fail(B))

Safety == Init /\ [][Next]_vars

Spec == Safety /\ Fairness

=============================================================================
