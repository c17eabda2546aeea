------------------------------ MODULE MCHousehold ------------------------------
(* Two machines of the server that share nothing, in one run: the entries of  *)
(* an item and the settling of shared expenses.  "part" says which one moves; *)
(* the other rests in one of its initial states.                              *)
EXTENDS Generation, Settlement, TLC

CONSTANTS g1, g2, ann, bob, cyd, home, trip, t1, r1, r2

\* --- a small calendar: three months of three days, years of two months
MCMonthStart == 0 :> 0 @@ 1 :> 3 @@ 2 :> 6 @@ 3 :> 9
MCEaster == 0 :> 4 @@ 1 :> 7
MCOffs == {3, 8}

NoParams == [kind |-> "monthly_interval", step |-> 1, day |-> 1, month |-> 1, adjust |-> "none",
             days |-> 0, weekday |-> 0]
Interval == NoParams
Last == [NoParams EXCEPT !.kind = "last_business_day"]
\* The 1st, moved back over a holiday into the month before.
FirstBack == [NoParams EXCEPT !.kind = "monthly_day", !.adjust = "previous_business_day"]

Body(rule, start, end, total) ==
    [rule |-> rule, start |-> start, end |-> end, total |-> total, active |-> TRUE]

MCBodies == {Body(Interval, 1, 8, 0), Body([Interval EXCEPT !.step = 2], 1, 8, 1), Body(FirstBack, 0, 8, 0)}

\* A salary on the last business day, then on the 1st or the day before it.
MCSalary == {Body(Last, 0, 8, 0), Body(FirstBack, 0, 8, 0)}
\* Nothing is claimed once two schedules crossed; such states are not continued.
NotCrossed == ~crossed

\* --- expenses of every shape that counts: shared equally, split in part, each
\* their own with a rest left open; two buckets, so that debts cancel out. With
\* three members one side of the pairing is a single person, so that the order
\* in which members are listed changes no list.
NoSplits == << >>
Expense(bucket, payer, mode, splits, cents) ==
    [bucket |-> bucket, payer |-> payer, mode |-> mode, splits |-> splits,
     amount |-> cents * Cent, excluded |-> FALSE]

MCForms ==
    {Expense(home, ann, "single", NoSplits, 100),
     Expense(home, bob, "single", ann :> 50 * Cent @@ cyd :> 17 * Cent, 100),
     Expense(trip, None, "own", ann :> 30 * Cent @@ bob :> 50 * Cent, 101)}

MCAsked ==
    {Everything, [from |-> bob, to |-> ann, amount |-> None],
     [from |-> ann, to |-> cyd, amount |-> 20 * Cent]}
MCOrders == {<<ann, bob, cyd>>}

MCSym == Permutations(Req) \cup Permutations(Settler)

\* The rules of this calendar name one day of a period, and every date they
\* name is on the calendar.
ASSUME CalendarHere == OnePerPeriod /\ InCalendar

VARIABLE part

ItemRests == GenInit /\ item = Gone
MCInit ==
    \/ part = "entries" /\ GenInit /\ SettleInit /\ expenses = {}
    \/ part = "settling" /\ SettleInit /\ ItemRests
MCNext ==
    \/ part = "entries" /\ GenNext /\ UNCHANGED <<part, svars>>
    \/ part = "settling" /\ SettleNext /\ UNCHANGED <<part, gvars>>
MCSpec == MCInit /\ [][MCNext]_<<part, gvars, svars>>
===============================================================================
