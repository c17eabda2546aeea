-------------------------------- MODULE MCForms --------------------------------
(* Three machines that share nothing, in one run: the draft of the composer   *)
(* (two members, two buckets, two categories), its form, and "Add to pantry"  *)
(* (milk has a barcode, eggs have none; a second barcode is nobody's).        *)
(* "part" says which one moves; the others rest in an initial state.          *)
EXTENDS Draft, Composer, PantryAdd, TLC

CONSTANTS m1, m2, b1, b2, c1, c2, milk, eggs, code, other, short, long

MCMembers == {m1, m2}
MCBuckets == {b1, b2}
MCIncomeBuckets == {b1}
MCCategories == {c1, c2}
\* A split someone else paid; a fixed cost of the member's own in cash; an expense in cash taken from the wallet; a split
\* of which nobody is the payer; an expense each paid their share of; and foreign income.
Row == [type |-> "expense", amount |-> 3, foreign |-> FALSE, bucket |-> b2, bill |-> FALSE, category |-> None, payer |-> m1,
        ownShare |-> FALSE, method |-> "card", splits |-> NoShares, take |-> None]
Thirds == (m1 :> 1) @@ (m2 :> 2)
MCStored == {[Row EXCEPT !.payer = m2, !.splits = Thirds],
             [Row EXCEPT !.bucket = None, !.bill = TRUE, !.method = "cash"],
             [Row EXCEPT !.method = "cash", !.take = [by |-> m1, from |-> "stash"]],
             [Row EXCEPT !.payer = None, !.splits = Thirds],
             [Row EXCEPT !.payer = None, !.splits = Thirds, !.ownShare = TRUE]}
            \cup {[Row EXCEPT !.type = "income", !.bucket = b1, !.foreign = TRUE, !.category = c] : c \in MCCategories}
MCReceipts == {[amount |-> 3, currency |-> "home", category |-> c] : c \in MCCategories}
              \cup {[amount |-> None, currency |-> "foreign", category |-> None]}
MCSym == Permutations({c1, c2})
\* What a save taught is for new entries: one is opened after it, empty, with everything in it free to be filled.
EditsFirst == saves > 0 /\ draft # None => draft.touched # Fields

MCHitsOf == (short :> {milk, eggs}) @@ (long :> {eggs})
MCGoodOf == (code :> milk) @@ (other :> None)
MCCodeOf == (milk :> code) @@ (eggs :> None)

VARIABLE part

AddRests == AddInit /\ \A g \in Goods : stock[g] = 0
MCInit ==
    \/ part = "draft" /\ DraftInit /\ FormInit /\ AddRests
    \/ part = "form" /\ FormInit /\ DraftInit /\ AddRests
    \/ part = "add" /\ AddInit /\ DraftInit /\ FormInit
MCNext ==
    \/ part = "draft" /\ DraftNext /\ UNCHANGED <<part, formVars, addVars>>
    \/ part = "form" /\ FormNext /\ UNCHANGED <<part, draftVars, addVars>>
    \/ part = "add" /\ AddNext /\ UNCHANGED <<part, draftVars, formVars>>
MCSpec == MCInit /\ [][MCNext]_<<part, draftVars, formVars, addVars>>
===============================================================================
