-------------------------------- MODULE Inbox --------------------------------
(***************************************************************************)
(* The durable inbox (packages/core/agent-loop/src/inbox.ts): what each    *)
(* operation writes into the log, and the strict fold that reads it back.  *)
(* An inbox is the two pending lists.  A message is its identity.  The     *)
(* arguments of a splice are integers: the code truncates them first.      *)
(***************************************************************************)
EXTENDS Integers, Sequences, FiniteSets, SequencesExt

Targets == {"next-turn", "next-step"}

EmptyInbox == [target \in Targets |-> <<>>]

Waiting(inbox) == ToSet(inbox["next-turn"]) \cup ToSet(inbox["next-step"])

IsUnique(inbox) ==
    Cardinality(Waiting(inbox)) = Len(inbox["next-turn"]) + Len(inbox["next-step"])

----------------------------------------------------------------------------
(* The fold.                                                               *)

Applied(inbox, s) ==
    [inbox EXCEPT ![s.target] =
        SubSeq(@, 1, s.start) \o s.inserted \o SubSeq(@, s.start + s.removed + 1, Len(@))]

Accepts(inbox, s) ==
    /\ s.start \in 0..Len(inbox[s.target])
    /\ s.removed >= 0 /\ s.start + s.removed <= Len(inbox[s.target])
    /\ IsUnique(Applied(inbox, s))

----------------------------------------------------------------------------
(* The operations, as the normalized splices they log.                     *)

Clamped(n, low, high) == IF n < low THEN low ELSE IF n > high THEN high ELSE n

ActualStart(list, start) ==
    Clamped(IF start < 0 THEN Len(list) + start ELSE start, 0, Len(list))

ActualCountUnbounded(list, at, count) == IF count < 0 THEN 0 ELSE count    \* mutant: past the end

ActualCount(list, at, count) == Clamped(count, 0, Len(list) - at)

Normalized(inbox, target, start, count, inserted, discards) ==
    LET at == ActualStart(inbox[target], start)
        removed == ActualCount(inbox[target], at, count)
    IN  [target |-> target, start |-> at, removed |-> removed, inserted |-> inserted,
         canceled |-> discards /\ removed > 0]

ChangesNothing(s) == s.removed = 0 /\ s.inserted = <<>>

\* splice, and with it append, prepend, replace and remove.
Spliced(inbox, target, start, count, inserted) ==
    Normalized(inbox, target, start, count, inserted, TRUE)

Emptied(inbox, target, count, discards) ==
    LET s == Normalized(inbox, target, 0, count, <<>>, discards)
    IN  IF ChangesNothing(s) THEN <<>> ELSE <<s>>

\* clear: the next-step list, then the next-turn list.
Cleared(inbox) ==
    Emptied(inbox, "next-step", Len(inbox["next-step"]), TRUE)
        \o Emptied(inbox, "next-turn", Len(inbox["next-turn"]), TRUE)

\* claim: all of next-step and, at the start of a turn, one of next-turn.
Claims(inbox, target) ==
    Emptied(inbox, "next-step", Len(inbox["next-step"]), FALSE)
        \o (IF target = "next-turn" THEN Emptied(inbox, "next-turn", 1, FALSE) ELSE <<>>)

Claimed(inbox, target) ==
    inbox["next-step"]
        \o (IF target = "next-turn" /\ inbox["next-turn"] # <<>>
            THEN <<Head(inbox["next-turn"])>> ELSE <<>>)

=============================================================================
