---------------------------- MODULE ConsumedWork ----------------------------
(***************************************************************************)
(* foldConsumedWork (packages/core/agent/src/consumed-work.ts): what a log *)
(* says became of the input its agent consumed.  The fold is kept event by *)
(* event: the open turn, the turns that stepped or claimed something, the  *)
(* turn whose end accounts last, and whether input was dropped after it.   *)
(***************************************************************************)
EXTENDS Naturals, Sequences

NothingConsumed == [open |-> 0, stepped |-> {}, claimed |-> {}, end |-> 0, dropped |-> FALSE]

WithSplice(w, s) ==
    IF s.removed = 0 THEN w
    ELSE IF s.canceled THEN [w EXCEPT !.dropped = @ \/ s.inserted = <<>>]
    ELSE IF w.open # 0 THEN [w EXCEPT !.claimed = @ \cup {w.open}]
    ELSE w

AccountsOnlyForSteps(w, turn, completed) == turn \in w.stepped    \* mutant

\* A turn that only claimed accounts for the claim, unless it completed: then
\* the claim was rewritten away.
Accounts(w, turn, completed) == turn \in w.stepped \/ (turn \in w.claimed /\ ~completed)

WithTurnEnd(w, turn, completed) ==
    LET closed == [w EXCEPT !.open = 0, !.stepped = @ \ {turn}, !.claimed = @ \ {turn}]
    IN  IF Accounts(w, turn, completed)
        THEN [closed EXCEPT !.end = turn, !.dropped = FALSE]
        ELSE closed

=============================================================================
