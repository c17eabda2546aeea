-------------------------------- MODULE MCPlan --------------------------------
(* Two machines that share nothing, in one run: the entries of the plan and   *)
(* its items, each on one phone.  "part" says which one moves; the other      *)
(* rests in one of its initial states.                                        *)
EXTENDS PlanEntry, PlanItem

CONSTANT Budget

\* Today is day 2 of a month of 4 days: one entry of an item is overdue, the next of the same item is ahead.
MCDue == [late |-> 1, soon |-> 3]
MCItemOf == [late |-> "rent", soon |-> "rent"]
MCUsual == [late |-> 1, soon |-> 2]

Standing(amount, mode, shares) ==
    [direction |-> "out", amount |-> amount, bucket |-> Budget, auto |-> TRUE, method |-> "cash",
     payer |-> IF mode = "own_share" THEN None ELSE Viewer, active |-> TRUE, mode |-> mode, shares |-> shares]
\* Rent that two share, and a salary that is paid by card.
MCStored ==
    {Standing(30, "own_share", <<15, 15>>),
     [Standing(7, "single", <<>>) EXCEPT !.direction = "in", !.bucket = None, !.auto = FALSE, !.method = "card"]}

VARIABLE part

ItemRests == PlanItemInit /\ \A id \in DOMAIN book : book[id].row.mode = "single" /\ ~book[id].paid
MCInit ==
    \/ part = "entry" /\ EntryInit /\ ItemRests
    \/ part = "item" /\ EntryInit /\ PlanItemInit
MCNext ==
    \/ part = "entry" /\ EntryNext /\ UNCHANGED <<part, itemVars>>
    \/ part = "item" /\ PlanItemNext /\ UNCHANGED <<part, entryVars>>
MCSpec == MCInit /\ [][MCNext]_<<part, entryVars, itemVars>>
===============================================================================
