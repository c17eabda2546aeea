------------------------------ MODULE Generation ------------------------------
(* Entry generation of one recurring item: creating, editing, pausing and    *)
(* deleting the item, the nightly top-up, and the taps on its entries.       *)
(*                                                                           *)
(* Each request is a PostgreSQL READ COMMITTED transaction: it loads the     *)
(* item, removes the future entries an edit may regenerate, reads the        *)
(* periods that are taken, and inserts and commits.  What it removed stays   *)
(* locked until it commits; the item's row is locked by the first flush of a *)
(* changed item.  Taps on an entry are short and are one step each.          *)
EXTENDS Schedule

CONSTANTS
    Req,            \* requests and job runs
    Bodies,         \* the forms a client may send (schedules of the item)
    Legacy,         \* due dates with a paid row from before periods were kept
    Horizon,        \* days the rolling window reaches ahead
    Bucketed,       \* TRUE when the item has a bucket
    Overlap,        \* kinds of request that may run beside another one
    MaxToday, MaxTouches, MaxRequests

Kind == {"create", "edit", "form", "put", "resume", "top_up", "delete"}
Schedules == [rule : {b.rule : b \in Bodies}, start : {b.start : b \in Bodies},
              end : {b.end : b \in Bodies}, total : {b.total : b \in Bodies},
              active : BOOLEAN]

ASSUME GenerationAssumption ==
    /\ Legacy \subseteq Day /\ Overlap \subseteq Kind
    /\ Bucketed \in BOOLEAN /\ Horizon \in Nat /\ MaxToday \in Nat /\ MaxTouches \in Nat
    /\ MaxRequests \in Nat
    /\ Bodies \subseteq Schedules

NoRow == [status |-> "none"]
NoKey == <<"none", 0>>
Gone == [rule |-> "gone"]
Idle == [pc |-> "idle"]

VARIABLES
    item,       \* the recurring_bills row, or Gone
    rows,       \* due date -> the bill_occurrences row of that date
    refs,       \* transactions whose recurring_bill_id is the item
    req,        \* the open database transactions
    today,
    touches,    \* taps so far (bound)
    begun,      \* requests so far (bound)
    crossed,    \* history: a generation committed over one planned on another schedule or day
    fresh,      \* history: the stored schedule was generated for today
    raced       \* history: entries claimed without an expense beside a deletion that passed its check

gvars == <<item, rows, refs, req, today, touches, begun, crossed, fresh, raced>>

Entry == [status : {"unpaid", "paid", "skipped"}, amount : BOOLEAN,
          linked : BOOLEAN, key : {"none", "week", "month", "year"} \X Nat, nominal : Day]

\* Rows of another kind's key format block nothing; a row without a key is a
\* monthly_interval entry of its due month.
RowPeriod(kind, row) ==
    LET key == IF row.key = NoKey THEN PeriodKey("monthly_interval", row.nominal) ELSE row.key
    IN  IF key[1] = KeyFormat(kind) THEN {key} ELSE {}

TakenLive(kind, table) == \* mutant: a skipped entry frees its period
    UNION {RowPeriod(kind, table[d]) : d \in {x \in Day : table[x] # NoRow /\ table[x].status # "skipped"}}
Taken(kind, table) ==
    UNION {RowPeriod(kind, table[d]) : d \in {x \in Day : table[x] # NoRow}}

\* What generate_occurrences decides to insert: the first date of each period
\* that is not taken; a date before `day` becomes what `past` says.
MissingShort(sched, table, day, past) == \* mutant: the window ends a day early
    LET wanted == {e \in Entries(sched.rule, sched.start, sched.end, sched.total, day + Horizon - 1) :
                      e.key \notin Taken(sched.rule.kind, table) /\ (e.due < day => past # "none")}
    IN  {e \in wanted : \A o \in wanted : o.key = e.key => e.due <= o.due}
Missing(sched, table, day, past) ==
    LET wanted == {e \in Entries(sched.rule, sched.start, sched.end, sched.total, day + Horizon) :
                      e.key \notin Taken(sched.rule.kind, table) /\ (e.due < day => past # "none")}
    IN  {e \in wanted : \A o \in wanted : o.key = e.key => e.due <= o.due}

NewRow(e, day, past) ==
    [status |-> IF e.due < day /\ past = "skipped" THEN "skipped" ELSE "unpaid",
     amount |-> FALSE, linked |-> FALSE, key |-> e.key, nominal |-> e.nominal]

\* delete_future_occurrences.
RemovableAmount(row, d, day) == \* mutant: an amount the user set does not keep the row
    d > day /\ row # NoRow /\ row.status = "unpaid" /\ ~row.linked
Removable(row, d, day) ==
    /\ d > day
    /\ row # NoRow
    /\ row.status = "unpaid"
    /\ ~row.amount
    /\ ~row.linked

HasHistoryLinked(table, n) == \* mutant: only entries with a payment count
    n > 0 \/ \E d \in Day : table[d] # NoRow /\ table[d].linked
HasHistory(table, n) ==
    \/ n > 0
    \/ \E d \in Day : /\ table[d] # NoRow
                      /\ \/ table[d].status = "paid"
                         \/ table[d].status = "skipped" /\ table[d].amount
                         \/ table[d].linked

\* The database row after a flush: only the columns that differ from what the
\* request loaded are written.
Written(old, new, row) ==
    [c \in DOMAIN row |-> IF new[c] # old[c] THEN new[c] ELSE row[c]]

\* Entries of one schedule fall in different periods: a rule names one day of a
\* month, a week or a year, before adjustment moves it.
OnePerPeriod ==
    \A s \in Schedules : \A h \in 0 .. MaxToday + Horizon :
        \A e, o \in Entries(s.rule, s.start, s.end, s.total, h) : e.key = o.key => e = o
\* The calendar is long enough for the dates that are looked at.
InCalendar ==
    \A s \in Schedules : \A h \in 0 .. MaxToday + Horizon :
        \A e \in Entries(s.rule, s.start, s.end, s.total, h) : e.due \in Day

\* ------------------------------------------------------------ the requests
Open == {r \in Req : req[r].pc # "idle"}
Locked(r) == IF "removed" \in DOMAIN req[r] THEN req[r].removed ELSE {}
LockedRows(others) == UNION {Locked(r) : r \in others}
HoldsItem(r) == req[r].pc \in {"cleared", "planned"} /\ req[r].holds
ItemFree(r) == \A q \in Req \ {r} : ~HoldsItem(q)

MayBegin(kind) ==
    /\ begun < MaxRequests /\ begun' = begun + 1
    /\ kind \notin Overlap => Open = {}
    /\ \A q \in Open : req[q].kind \in Overlap

Began(r, kind, pc, old, new) ==
    req' = [req EXCEPT ![r] = [pc |-> pc, kind |-> kind, old |-> old, new |-> new]]

\* The old app edits only the legacy rule.
OldAppEditable == item.rule.kind = "monthly_interval"

\* A new item and its entries, from an empty table; dates before today become
\* what `past` says.
Created(body, past) ==
    LET plan == Missing(body, rows, today, past)
    IN  /\ item = Gone /\ Open = {}
        /\ item' = body
        /\ rows' = [d \in Day |-> IF \E e \in plan : e.due = d
                                  THEN NewRow(CHOOSE e \in plan : e.due = d, today, past)
                                  ELSE rows[d]]
        /\ fresh' = TRUE
        /\ UNCHANGED <<begun, refs, req, today, touches, crossed, raced>>

\* POST /api/v1/recurring, and POST /bills of the old app (the legacy rule only)
CreateItem(body) == Created(body, "none")
CreateBill(body) == body.rule.kind = "monthly_interval" /\ Created(body, "skipped")

\* An edit loads the item and applies the form to it in memory.
Edit(r, kind, body) ==
    /\ req[r] = Idle /\ item # Gone
    /\ MayBegin(kind)
    /\ Began(r, kind, IF kind = "put" THEN "clearing" ELSE "loaded", item, body)
    /\ UNCHANGED <<item, rows, refs, today, touches, crossed, fresh, raced>>

\* The old app's forms write the months between two entries and the dates; the
\* rest of the rule and the pause stay.
OldForm(body) ==
    /\ OldAppEditable /\ body.active = item.active
    /\ body.rule = [item.rule EXCEPT !.step = body.rule.step]

\* PUT /api/v1/recurring/{id}, the old page's form and PUT /api/v1/bills/{id}
UpdateItem(r, body) == Edit(r, "edit", body)
EditBill(r, body) == item # Gone /\ OldForm(body) /\ Edit(r, "form", body)
UpdateBill(r, body) == item # Gone /\ OldForm(body) /\ Edit(r, "put", body)

\* POST /bills/{id}/toggle: pausing writes the flag, resuming generates too.
BeginToggle(r) ==
    /\ req[r] = Idle /\ item # Gone /\ OldAppEditable /\ MayBegin("resume")
    /\ LET new == [item EXCEPT !.active = ~item.active]
       IN  Began(r, "resume", IF new.active THEN "loaded" ELSE "pausing", item, new)
    /\ UNCHANGED <<item, rows, refs, today, touches, crossed, fresh, raced>>

\* The top-up lists the active items and loads each one later.
BeginTopUp(r) ==
    /\ req[r] = Idle /\ item # Gone /\ item.active /\ MayBegin("top_up")
    /\ req' = [req EXCEPT ![r] = [pc |-> "listed", kind |-> "top_up", day |-> today]]
    /\ UNCHANGED <<item, rows, refs, today, touches, crossed, fresh, raced>>

LoadTopUp(r) ==
    /\ req[r].pc = "listed"
    /\ req' = [req EXCEPT ![r] =
                  IF item = Gone THEN Idle
                  ELSE [pc |-> "loaded", kind |-> "top_up", old |-> item, new |-> item,
                        day |-> req[r].day]]
    /\ UNCHANGED <<begun, item, rows, refs, today, touches, crossed, fresh, raced>>

\* delete_future_occurrences.  PUT /recurring and the form flush the changed
\* item first, PUT /bills after.  The statement waits for rows another
\* transaction removed.
Clear(r) ==
    /\ \/ req[r].pc = "loaded" /\ req[r].kind \in {"edit", "form"}
       \/ req[r].pc = "clearing"
    /\ LET holds == req[r].kind # "put" /\ req[r].new # req[r].old
           gone == {d \in Day : Removable(rows[d], d, today)}
       IN  /\ holds => ItemFree(r)
           /\ gone \cap LockedRows(Req \ {r}) = {}
           /\ req' = [req EXCEPT ![r] = [pc |-> "cleared", kind |-> req[r].kind,
                                         old |-> req[r].old, new |-> req[r].new,
                                         holds |-> holds, removed |-> gone]]
    /\ UNCHANGED <<begun, item, rows, refs, today, touches, crossed, fresh, raced>>

Past(kind) == IF kind \in {"form", "put"} THEN "skipped" ELSE "none"

\* generate_occurrences reads the taken periods: what others committed, less
\* what this transaction removed.
Plan(r) ==
    /\ \/ req[r].pc = "cleared"
       \/ req[r].pc = "loaded" /\ req[r].kind \in {"resume", "top_up"}
    /\ LET holds == req[r].new # req[r].old
           removed == Locked(r)
           day == IF req[r].kind = "top_up" THEN req[r].day ELSE today
           seen == [d \in Day |-> IF d \in removed THEN NoRow ELSE rows[d]]
       IN  /\ holds => ItemFree(r)
           /\ req' = [req EXCEPT ![r] =
                        [pc |-> "planned", kind |-> req[r].kind, old |-> req[r].old,
                         new |-> req[r].new, holds |-> holds, removed |-> removed, day |-> day,
                         plan |-> Missing(req[r].new, seen, day, Past(req[r].kind))]]
    /\ UNCHANGED <<begun, item, rows, refs, today, touches, crossed, fresh, raced>>

SameSchedule(a, b) == a.rule = b.rule /\ a.start = b.start /\ a.end = b.end /\ a.total = b.total

\* The inserts and the commit.  A date whose row another transaction removed is
\* waited for; one that has a row by now collides with the unique key and is
\* passed over; an item that is gone leaves nothing (the flush of an edit fails,
\* the inserts of a top-up break their foreign key).
Commit(r) ==
    /\ req[r].pc = "planned"
    /\ \A e \in req[r].plan : e.due \notin LockedRows(Req \ {r})
    /\ req' = [req EXCEPT ![r] = Idle]
    /\ IF item = Gone THEN UNCHANGED <<item, rows, crossed, fresh>>
       ELSE LET q == req[r]
                base == [d \in Day |-> IF d \in q.removed THEN NoRow ELSE rows[d]]
                put == {e \in q.plan : base[e.due] = NoRow}
            IN  /\ item' = Written(q.old, q.new, item)
                /\ rows' = [d \in Day |-> IF \E e \in put : e.due = d
                                          THEN NewRow(CHOOSE e \in put : e.due = d,
                                                      q.day, Past(q.kind))
                                          ELSE base[d]]
                /\ crossed' = (crossed \/ \E o \in Req \ {r} :
                                             /\ req[o].pc = "planned"
                                             /\ \/ ~SameSchedule(req[o].new, q.new)
                                                \/ req[o].day # q.day)
                /\ fresh' = IF SameSchedule(q.new, item') /\ q.day = today THEN TRUE
                            ELSE fresh /\ q.removed = {} /\ item' = item
    /\ UNCHANGED <<begun, refs, today, touches, raced>>

\* A transaction that fails, or that the database picks of two that wait for
\* each other, leaves nothing: the session is closed without a commit.
RollBack(r) ==
    /\ req[r] # Idle
    /\ req' = [req EXCEPT ![r] = Idle]
    /\ UNCHANGED <<begun, item, rows, refs, today, touches, crossed, fresh, raced>>

\* Pausing: the flag alone.
CommitPause(r) ==
    /\ req[r].pc = "pausing" /\ ItemFree(r)
    /\ item' = IF item = Gone THEN Gone ELSE Written(req[r].old, req[r].new, item)
    /\ req' = [req EXCEPT ![r] = Idle]
    /\ UNCHANGED <<begun, rows, refs, today, touches, crossed, fresh, raced>>

\* DELETE: refused with payment history; otherwise the entries go with the item.
BeginDelete(r) ==
    /\ req[r] = Idle /\ item # Gone /\ MayBegin("delete")
    /\ ~HasHistory(rows, refs)
    /\ Began(r, "delete", "deleting", item, item)
    /\ raced' = {}
    /\ UNCHANGED <<item, rows, refs, today, touches, crossed, fresh>>

\* By now a payment may exist: the foreign key would clear the item of a
\* bucket-less expense, which the transactions CHECK refuses.
CommitDelete(r) ==
    /\ req[r].pc = "deleting" /\ ItemFree(r) /\ LockedRows(Req \ {r}) = {}
    /\ req' = [req EXCEPT ![r] = Idle]
    /\ IF item # Gone /\ (refs = 0 \/ Bucketed)
       THEN /\ item' = Gone /\ rows' = [d \in Day |-> NoRow] /\ refs' = 0
       ELSE UNCHANGED <<item, rows, refs>>
    /\ UNCHANGED <<begun, today, touches, crossed, fresh, raced>>

\* ------------------------------------------------------------ taps and time
\* A tap waits for the transaction that removed its row.
Tap(d) ==
    /\ touches < MaxTouches /\ rows[d] # NoRow
    /\ d \notin LockedRows(Req)
    /\ \A q \in Open : req[q].kind \in Overlap
    /\ touches' = touches + 1
    /\ UNCHANGED <<begun, item, req, today, crossed, fresh>>

\* complete_entry (a linked expense) or the old app's bare claim of an entry
\* without a bucket, of which the entry itself is the only record.
Pay(d, linked) ==
    /\ Tap(d) /\ rows[d].status = "unpaid" /\ ~rows[d].linked
    /\ ~linked => ~Bucketed
    /\ rows' = [rows EXCEPT ![d].status = "paid", ![d].linked = linked,
                            ![d].amount = linked \/ @]
    /\ refs' = IF linked THEN refs + 1 ELSE refs
    /\ raced' = IF ~linked /\ \E r \in Req : req[r].pc = "deleting" THEN raced \cup {d} ELSE raced

Skip(d) ==
    /\ Tap(d) /\ rows[d].status # "paid"
    /\ rows' = [rows EXCEPT ![d].status = "skipped"]
    /\ UNCHANGED <<refs, raced>>

SetAmount(d) ==
    /\ Tap(d) /\ rows[d].status = "unpaid"
    /\ rows' = [rows EXCEPT ![d].amount = TRUE]
    /\ UNCHANGED <<refs, raced>>

\* Undo, with or without deleting the payment; a bucket-less expense cannot
\* stay without its item.
Undo(d, deleting) ==
    /\ Tap(d) /\ rows[d].status # "unpaid"
    /\ rows[d].linked /\ ~deleting => Bucketed
    /\ rows' = [rows EXCEPT ![d].status = "unpaid", ![d].linked = FALSE]
    /\ refs' = IF rows[d].linked /\ ~deleting THEN refs - 1 ELSE refs
    /\ UNCHANGED raced

Tick ==
    /\ today < MaxToday
    /\ today' = today + 1
    /\ fresh' = FALSE
    /\ UNCHANGED <<begun, item, rows, refs, req, touches, crossed, raced>>

\* ------------------------------------------------------------ specification
LegacyRow(d) == [status |-> "paid", amount |-> TRUE, linked |-> FALSE, key |-> NoKey, nominal |-> d]

GenInit ==
    /\ item \in {b \in Bodies : b.rule.kind = "monthly_interval"} \cup {Gone}
    /\ \E old \in SUBSET Legacy :
          /\ old # {} => item # Gone
          /\ rows = [d \in Day |-> IF d \in old THEN LegacyRow(d) ELSE NoRow]
    /\ refs = 0
    /\ req = [r \in Req |-> Idle]
    /\ today = 0 /\ touches = 0 /\ begun = 0
    /\ crossed = FALSE /\ fresh = FALSE /\ raced = {}

GenNext ==
    \/ \E b \in Bodies : CreateItem(b) \/ CreateBill(b)
    \/ \E r \in Req :
          \/ \E b \in Bodies : UpdateItem(r, b) \/ EditBill(r, b) \/ UpdateBill(r, b)
          \/ BeginToggle(r) \/ BeginTopUp(r) \/ LoadTopUp(r) \/ BeginDelete(r)
          \/ Clear(r) \/ Plan(r) \/ Commit(r) \/ CommitPause(r) \/ CommitDelete(r)
          \/ RollBack(r)
    \/ \E d \in Day : \/ Skip(d) \/ SetAmount(d)
                      \/ \E b \in BOOLEAN : Pay(d, b) \/ Undo(d, b)
    \/ Tick

GenSpec == GenInit /\ [][GenNext]_gvars

\* -------------------------------------------------------------- properties
\* The columns keep their domains, and a request holds what its step needs.
GenTypeOK ==
    /\ item \in Schedules \cup {Gone}
    /\ rows \in [Day -> Entry \cup {NoRow}]
    /\ refs \in Nat /\ touches \in 0 .. MaxTouches /\ today \in 0 .. MaxToday
    /\ begun \in 0 .. MaxRequests
    /\ crossed \in BOOLEAN /\ fresh \in BOOLEAN /\ raced \subseteq Day
    /\ \A r \in Req : Locked(r) \subseteq Day

\* "An item never gets two entries in one period" (the comment on
\* BillOccurrence.period), whatever adjustment did to the due dates, through
\* edits of the rule and of its kind, pauses, top-ups and taps.  The unique key
\* is on the due date, so this holds only while no generation commits beside
\* one planned on another schedule or day; two on the same one may overlap.
OncePerPeriod ==
    ~crossed =>
        \A d, e \in Day :
            /\ d # e /\ rows[d] # NoRow /\ rows[e] # NoRow
            /\ rows[d].key # NoKey /\ rows[e].key[1] = rows[d].key[1]
            => CASE rows[d].key[1] = "month" -> MonthOf(rows[d].nominal) # MonthOf(rows[e].nominal)
                 [] rows[d].key[1] = "year" -> YearOf(rows[d].nominal) # YearOf(rows[e].nominal)
                 [] OTHER -> WeekOf(rows[d].nominal) # WeekOf(rows[e].nominal)

\* After an edit, a resume or the night's top-up, every date of the stored rule
\* from today to the horizon is covered: its period has an entry of some status,
\* or another period's entry sits on its very date.  (A generation beside one planned
\* on another schedule or day can take a row the other removes for cover.)
Covered ==
    fresh /\ ~crossed /\ item # Gone =>
        \A e \in Entries(item.rule, item.start, item.end, item.total, today + Horizon) :
            e.due >= today => \/ rows[e.due] # NoRow
                              \/ e.key \in Taken(item.rule.kind, rows)

\* Regeneration never touches a done or skipped entry, or one whose amount the
\* user set, even when the tap lands between the steps of an edit: such a row
\* changes only by a tap of its own, or goes with its item.
TouchedRowsStay ==
    [][\A d \in Day :
          /\ rows[d] # NoRow /\ rows'[d] # rows[d] /\ item' # Gone
          /\ rows[d].status # "unpaid" \/ rows[d].amount \/ rows[d].linked
          => touches' # touches]_gvars

\* Deleting an item never erases a payment: a paid entry disappears only when
\* its expense stays in a bucket, whatever was paid between the deletion's check
\* (bill_has_payment_history) and its commit.  The one payment it can erase is
\* the old app's bare claim in between, which no key of the database holds.
PaymentsOutliveItem ==
    [][\A d \in Day :
          rows[d] # NoRow /\ rows[d].status = "paid" /\ rows'[d] = NoRow
          => IF rows[d].linked THEN Bucketed ELSE d \in raced]_gvars

\* "Deleting such a bill would cascade away the only record of those payments"
\* (the docstring of bill_has_payment_history): refused, so never done.
PaymentsNeverErased ==
    [][\A d \in Day : rows[d] # NoRow /\ rows[d].status = "paid" /\ rows'[d] = NoRow
                         => rows[d].linked]_gvars

\* "A rule edit therefore never doubles or drops a salary" (the docstring of
\* generate_occurrences): every date of the stored rule has its period covered.
NothingDropped ==
    fresh /\ item # Gone =>
        \A e \in Entries(item.rule, item.start, item.end, item.total, today + Horizon) :
            e.due >= today => e.key \in Taken(item.rule.kind, rows)
=============================================================================
