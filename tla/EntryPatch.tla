----------------------------- MODULE EntryPatch -----------------------------
(***************************************************************************)
(* What a write on an entry that is due does, twice: on the server         *)
(* (services/bills.py and planning.py, which lists the entries ahead with  *)
(* the month's running net) and on the phone's cached lists, patched       *)
(* before the server answers (plan/entryPatch.ts).                         *)
(*                                                                         *)
(* The two compute the net differently: one adds up the month, the other   *)
(* moves the figure it had.  Amounts vary (no item has one of its own);    *)
(* payer, method, usage and cents are left out.                            *)
(***************************************************************************)
EXTENDS WebBase, TLC

CONSTANTS
    Due,                \* the day each entry is due on
    ItemOf,             \* the item each entry is of
    Income,             \* entries that are received, not paid
    Usual,              \* what each entry usually comes to, or None
    MonthLength, Today, \* months of that many days; the day it is
    Horizon,            \* days ahead that a missing amount is asked for
    Matched,            \* the entry that a payment of MatchAmount, made this month, looks like
    MatchAmount,
    Amounts             \* amounts that are typed

Entries == DOMAIN Due
MonthOf(day) == day \div MonthLength

ASSUME EntryPatchAssumption ==
    /\ IsFiniteSet(Entries) /\ \A e \in Entries : Due[e] \in Nat /\ Usual[e] \in Nat \cup {None}
    /\ Income \subseteq Entries /\ Matched \in Entries /\ Amounts \subseteq Nat \ {0}
    /\ MonthOf(Due[Matched]) = MonthOf(Today) /\ DOMAIN ItemOf = Entries /\ DOMAIN Usual = Entries

Query == {"upcoming", "overdue", "matches"}
Signed(e, amount) == IF e \in Income THEN Or(amount, 0) ELSE -Or(amount, 0)
Sum(set, Of(_)) == FoldSet(LAMBDA e, n : n + Of(e), 0, set)

(***************************************************************************)
(* The server: its lists, and what a write does to it.                     *)
(***************************************************************************)
ThisMonth(day) == MonthOf(day) = MonthOf(Today)
Amount(s, e) == Or(s.amount[e], Usual[e])
Out(s, e) == [status |-> s.status[e], amount |-> Amount(s, e), estimated |-> s.amount[e] = None,
              overdue |-> s.status[e] = "expected" /\ Due[e] < Today]
Expected(s, e) == s.status[e] = "expected"

\* The month's transactions and its overdue entries, then every expected entry up to the day; next month starts at zero.
NetOn(s, day) ==
    LET paid == Sum({e \in Entries : s.paid[e] # None /\ ThisMonth(Due[e])}, LAMBDA e : Signed(e, s.paid[e]))
        overdue == Sum({e \in Entries : Out(s, e).overdue /\ ThisMonth(Due[e])}, LAMBDA e : Signed(e, Amount(s, e)))
        ahead == {e \in Entries : Expected(s, e) /\ Due[e] \in Today..day /\ MonthOf(Due[e]) = MonthOf(day)}
    IN Sum(ahead, LAMBDA e : Signed(e, Amount(s, e))) + IF ThisMonth(day) THEN s.kept + paid + overdue ELSE 0

Offered(s) == s.match = "free" /\ Expected(s, Matched)
View(s, q) ==
    CASE q = "upcoming" ->
           LET listed == {e \in Entries : Expected(s, e) /\ Due[e] >= Today}
           IN [rows |-> [e \in listed |-> Out(s, e)], net |-> [d \in {Due[e] : e \in listed} |-> NetOn(s, d)]]
      [] q = "overdue" -> [rows |-> [e \in {x \in Entries : Due[x] < Today} |-> Out(s, e)]]
      [] OTHER -> [rows |-> IF Offered(s) THEN Matched :> Out(s, Matched) ELSE <<>>]

\* The server after a write, or None when it refuses it.
Done(s, e, paid, amount) == [s EXCEPT !.status[e] = "done", !.paid[e] = paid, !.amount[e] = amount]
Reopened(s, e) == [s EXCEPT !.status[e] = "expected", !.paid[e] = None,
                            !.match = IF e = Matched /\ @ = "linked" THEN "free" ELSE @]
Carried(s, w) ==
    LET e == w.entry
        pay == Or(w.amount, s.amount[e])
        kept == IF ThisMonth(Due[e]) THEN Signed(e, s.paid[e]) ELSE 0
    IN CASE w.kind = "done" /\ Expected(s, e) /\ pay # None -> Done(s, e, pay, pay)
         [] w.kind = "linked" /\ Offered(s) ->
                [Done(s, e, MatchAmount, Or(s.amount[e], MatchAmount)) EXCEPT
                    !.match = "linked", !.kept = @ - Signed(e, MatchAmount)]
         [] w.kind = "dismiss" -> [s EXCEPT !.match = "dismissed"]
         [] w.kind = "skip" /\ s.status[e] # "done" -> [s EXCEPT !.status[e] = "skipped"]
         [] w.kind = "amount" /\ Expected(s, e) -> [s EXCEPT !.amount[e] = w.amount]
         [] w.kind \in {"keep", "delete"} /\ s.status[e] = "skipped" -> Reopened(s, e)
         [] w.kind = "keep" /\ s.status[e] = "done" -> [Reopened(s, e) EXCEPT !.kept = @ + kept]
         [] w.kind = "delete" /\ s.status[e] = "done" ->
                [Reopened(s, e) EXCEPT !.match = IF s.match = "linked" /\ e = Matched THEN "dismissed" ELSE @]
         [] OTHER -> None
After(s, w) == Or(Carried(s, w), s)

(***************************************************************************)
(* The patch of a write on the cached lists (entryPatch.ts).               *)
(***************************************************************************)
ApplyChange(row, w) ==
    CASE w.kind = "done" ->
           [status |-> "done", amount |-> Or(w.amount, row.amount), estimated |-> FALSE, overdue |-> FALSE]
      [] w.kind = "linked" -> [row EXCEPT !.status = "done", !.overdue = FALSE]
      [] w.kind = "skip" -> [row EXCEPT !.status = "skipped", !.overdue = FALSE]
      [] w.kind = "amount" -> [row EXCEPT !.amount = w.amount, !.estimated = FALSE]
      [] OTHER -> [row EXCEPT !.status = "expected"]

\* A payment is dated on the due day, and this month's net holds the whole month from its first listed day on.
PaidOnEarlyToo(day, target, w) == IF ThisMonth(day) THEN Signed(w.entry, Or(w.amount, target.amount)) ELSE 0
PaidOn(day, target, w) ==
    IF ThisMonth(day) /\ ThisMonth(Due[w.entry]) THEN Signed(w.entry, Or(w.amount, target.amount)) ELSE 0

\* How a write moves the net shown on a day; an undo's figures are the refetch's.
NetDelta(day, target, w) ==
    LET e == w.entry
        expected == Signed(e, target.amount)
        counted == MonthOf(day) = MonthOf(Due[e]) /\ day >= Due[e]
    IN CASE w.kind \in {"skip", "linked"} -> IF counted THEN -expected ELSE 0
         [] w.kind = "amount" -> IF counted THEN Signed(e, w.amount) - expected ELSE 0
         [] w.kind = "done" -> PaidOn(day, target, w) - IF counted THEN expected ELSE 0
         [] OTHER -> 0
PatchRows(rows, w) == [e \in DOMAIN rows |-> IF e = w.entry THEN ApplyChange(rows[e], w) ELSE rows[e]]
PatchUpcoming(list, target, w) ==
    [rows |-> PatchRows(list.rows, w),
     net |-> [d \in DOMAIN list.net |-> list.net[d] + NetDelta(d, target, w)]]
DropMatch(list) == [list EXCEPT !.rows = <<>>]

Patched(copy, target, w) ==
    [q \in Query |->
        IF copy[q] = None THEN None
        ELSE CASE q = "matches" -> IF w.kind \in {"linked", "dismiss"} THEN DropMatch(copy[q]) ELSE copy[q]
               [] q = "overdue" /\ w.kind # "dismiss" -> [copy[q] EXCEPT !.rows = PatchRows(@, w)]
               [] q \notin {"matches", "overdue"} /\ w.kind # "dismiss" -> PatchUpcoming(copy[q], target, w)
               [] OTHER -> copy[q]]

Write(kind, e, amount) == [kind |-> kind, entry |-> e, amount |-> amount]
=============================================================================
