---------------------------- MODULE ActivityBulk ----------------------------
(***************************************************************************)
(* Selecting rows of Activity and changing them together: the filter and   *)
(* its list (Activity.tsx, Feed.tsx, filters.ts), the selection            *)
(* (selection.ts), the sheet with its preview (BulkSheet.tsx,              *)
(* BulkPreview.tsx) and the undo of a batch (useUndoBulk.ts).              *)
(*                                                                         *)
(* Of a row only its bucket matters; bulk changes of other fields, and the *)
(* rules that make the server skip a row, are in module Bulk.  A filter is *)
(* one of all time, this month, one bucket, one bill.                      *)
(***************************************************************************)
EXTENDS WebBase

CONSTANTS
    ListRows, Buckets, Events,        \* transactions; buckets, and those that are events
    Filters,                      \* some of: all, month, bucket, bill
    InMonth, OfBill, InFirst,     \* rows of this month, of the bill, and those that start in bucket First
    First,
    PageSize, Cap,                \* rows of a page, rows of one bulk request
    MaxSelections, MaxJobs, MaxOutside    \* bounds: selections, previews and applies, changes from elsewhere

ASSUME ActivityBulkAssumption ==
    /\ ListRows \subseteq Nat /\ IsFiniteSet(ListRows) /\ None \notin Nat
    /\ InMonth \cup OfBill \cup InFirst \subseteq ListRows
    /\ Filters \subseteq {"all", "month", "bucket", "bill"}
    /\ First \in Buckets /\ Events \subseteq Buckets /\ None \notin Buckets
    /\ PageSize \in Nat \ {0} /\ Cap \in Nat \ {0}

VARIABLES
    serverRows,       \* the server's rows: their bucket, or None once deleted
    bill,       \* the bucket of the bill
    written,    \* bulk changes carried out
    waiting,    \* rows with a write of this device that waits: none, an edit with its bucket, or a deletion
    filter,     \* the filter in the address of the screen
    pages,      \* pages asked for
    list,       \* the rows loaded and the total the server gave, or None while nothing is loaded
    behind,     \* history: the server's rows changed since the list was loaded
    sel,        \* the selection, numbered: a selection that changes is a new one
    sheet,      \* the bulk sheet: what it starts with when it opens is all that outlives its closing
    job,        \* the preview or apply under way, or None
    previewed,  \* the selection the total in the bar was computed for, or None without a total
    wrong,      \* history: applies of a list that changed more or fewer rows than shown, and applies that were
                \* carried out though the member was told that nothing was changed
    outside

bulkVars == <<serverRows, bill, written, waiting, filter, pages, list, behind, sel, sheet, job, previewed, wrong, outside>>

Matching(f) ==
    {r \in ListRows : /\ serverRows[r] # None
                      /\ CASE f = "all" -> TRUE [] f = "month" -> r \in InMonth
                           [] f = "bucket" -> serverRows[r] = First [] f = "bill" -> r \in OfBill}

(***************************************************************************)
(* The list and what of it may be selected.                                *)
(***************************************************************************)
FirstOf(set, n) == {r \in set : Cardinality({q \in set : q < r}) < n}
Waits(r) == waiting[r].kind # "no"
AnyWaiting == \E r \in ListRows : Waits(r)

LoadedRows == IF list = None THEN {} ELSE list.rows
ListTotal == IF list = None THEN 0 ELSE list.total
Selectable == {r \in LoadedRows : ~Waits(r)}
Complete == Cardinality(LoadedRows) >= ListTotal
Excluded == Cardinality(LoadedRows \ Selectable)

\* What "All" does: the filter on the server, the selectable rows by id, or nothing.
AllModeByFilter ==
    IF ListTotal > 0 /\ filter # "all" THEN "filter" ELSE "off"

AllMode ==
    CASE AnyWaiting /\ ~Complete -> "off"
      [] ~(AnyWaiting /\ ~Complete) /\ Excluded > 0 ->
            IF Selectable # {} /\ Cardinality(Selectable) <= Cap THEN "ids" ELSE "off"
      [] OTHER -> IF ListTotal \in 1..Cap /\ filter # "all" THEN "filter" ELSE "off"

(***************************************************************************)
(* The selection.                                                          *)
(***************************************************************************)
Off == [kind |-> "off", ids |-> {}, filter |-> "all", count |-> 0, n |-> sel.n, all |-> FALSE]
Picked(ids) == [Off EXCEPT !.kind = "picked", !.ids = ids, !.n = sel.n + 1]
ByFilter(f, total) ==
    [Off EXCEPT !.kind = IF f = "bill" THEN "bill" ELSE "filter", !.filter = f, !.count = total, !.n = sel.n + 1]
Selecting == sel.kind # "off"
SelectedCount == IF sel.kind = "picked" THEN Cardinality(sel.ids) ELSE sel.count
Content(s) == [kind |-> s.kind, ids |-> s.ids, filter |-> s.filter]

Chosen(next) ==
    /\ sel.n < MaxSelections
    /\ sel' = next /\ previewed' = None           \* a total is shown with the very selection it was computed for
    /\ UNCHANGED <<serverRows, bill, written, waiting, filter, pages, list, behind, sheet, job, wrong, outside>>

\* A long press on a row, or Select in the menu; a row that waits is read-only.
Enter(ids) == ~Selecting /\ sheet.open = FALSE /\ ids \subseteq Selectable /\ Chosen(Picked(ids))

\* Unticking a row of an All selection returns to hand-picked: the loaded rows minus that one.
Toggle(r) ==
    /\ Selecting /\ ~sheet.open /\ r \in Selectable
    /\ Chosen(Picked(CASE sel.kind # "picked" -> Selectable \ {r}
                       [] sel.kind = "picked" /\ r \in sel.ids -> sel.ids \ {r}
                       [] OTHER -> sel.ids \cup {r}))

\* All, or "Select all" above a list of rows without a payer.
SelectAll ==
    /\ ~sheet.open /\ AllMode # "off"
    /\ Chosen([IF AllMode = "ids" THEN Picked(Selectable) ELSE ByFilter(filter, ListTotal) EXCEPT !.all = TRUE])

CancelSelection == Selecting /\ ~sheet.open /\ Chosen(Off)

(***************************************************************************)
(* The filter and its list.                                                *)
(***************************************************************************)
NewList(f) ==
    /\ f # filter /\ ~sheet.open
    /\ filter' = f /\ pages' = 1 /\ list' = None /\ behind' = FALSE

\* A chip, the search field or the filters sheet: a selection made on the old list goes.
SetFilter(f) ==
    /\ NewList(f)
    /\ sel' = Off /\ previewed' = None
    /\ UNCHANGED <<serverRows, bill, written, waiting, sheet, job, wrong, outside>>

\* Activity in the tab bar, a link of the search, or Back: the address changes, the screen stays.
FollowLink(f) ==
    /\ NewList(f)
    /\ UNCHANGED <<serverRows, bill, written, waiting, sel, sheet, job, previewed, wrong, outside>>

Load ==
    /\ list' = [rows |-> FirstOf(Matching(filter), pages * PageSize), total |-> Cardinality(Matching(filter))]
    /\ behind' = FALSE
    /\ UNCHANGED <<serverRows, bill, written, waiting, filter, pages, sel, sheet, job, previewed, wrong, outside>>

LoadMore ==
    /\ ~Complete /\ pages * PageSize < ListTotal
    /\ pages' = pages + 1
    /\ UNCHANGED <<serverRows, bill, written, waiting, filter, list, behind, sel, sheet, job, previewed, wrong, outside>>

(***************************************************************************)
(* The sheet: a preview, then Apply.                                       *)
(***************************************************************************)
Fresh == [open |-> TRUE, bucket |-> None, move |-> FALSE, preview |-> None]
Shut == [Fresh EXCEPT !.open = FALSE]
MayMove == sel.kind = "bill" /\ sheet.bucket # None
Moves == MayMove /\ sheet.move /\ sheet.bucket \notin Events

SheetStep(next) ==
    /\ sheet' = next
    /\ UNCHANGED <<serverRows, bill, written, waiting, filter, pages, list, behind, sel, job, previewed, wrong, outside>>

OpenSheet == ~sheet.open /\ Selecting /\ SelectedCount > 0 /\ SheetStep(Fresh)
CloseSheet == sheet.open /\ SheetStep(Shut)
SetBucket(b) == sheet.open /\ b # sheet.bucket /\ SheetStep([sheet EXCEPT !.bucket = b, !.preview = None])
SetMove(on) == sheet.open /\ MayMove /\ sheet.bucket \notin Events /\ SheetStep([sheet EXCEPT !.move = on, !.preview = None])

Request(kind, expected) ==
    [kind |-> kind, n |-> sel.n, select |-> Content(sel), bucket |-> sheet.bucket, move |-> Moves,
     expected |-> expected, shown |-> IF sheet.preview = None THEN None ELSE sheet.preview.matched,
     answer |-> "none", result |-> None, carried |-> FALSE]

Asked(next) ==
    /\ job = None /\ sheet.open /\ outside.jobs < MaxJobs
    /\ job' = next
    /\ outside' = [outside EXCEPT !.jobs = @ + 1]
    /\ UNCHANGED <<serverRows, bill, written, waiting, filter, pages, list, behind, sel, sheet, previewed, wrong>>

Preview == sheet.preview = None /\ sheet.bucket # None /\ Asked(Request("preview", None))

\* For a filter or a bill the server compares the number of rows with the one the preview showed.
ExpectedCountOfList == IF sel.kind \in {"filter", "bill"} THEN sel.count ELSE None
ExpectedCount == IF sel.kind \in {"filter", "bill"} THEN sheet.preview.matched ELSE None
Apply == sheet.preview # None /\ sheet.preview.changed > 0 /\ Asked(Request("apply", ExpectedCount))

(***************************************************************************)
(* The server, and its answers.                                            *)
(***************************************************************************)
SelectedRows(s) ==
    CASE s.kind = "picked" -> {r \in s.ids : serverRows[r] # None}
      [] s.kind = "bill" -> Matching("bill")
      [] OTHER -> Matching(s.filter)

Result(j) ==
    LET matched == SelectedRows(j.select) IN
    [matched |-> Cardinality(matched), select |-> j.select, bucket |-> j.bucket, move |-> j.move,
     changed |-> Cardinality({r \in matched : serverRows[r] # j.bucket}) + IF j.move /\ bill # j.bucket THEN 1 ELSE 0]

ServePreview ==
    /\ job # None /\ job.kind = "preview" /\ job.answer = "none"
    /\ job' = [job EXCEPT !.answer = "ok", !.result = Result(job)]
    /\ UNCHANGED <<serverRows, bill, written, waiting, filter, pages, list, behind, sel, sheet, previewed, wrong, outside>>

ServeApply ==
    LET matched == SelectedRows(job.select) IN
    /\ job # None /\ job.kind = "apply" /\ job.answer = "none"
    /\ IF job.bucket = None \/ Cardinality(matched) > Cap
       THEN job' = [job EXCEPT !.answer = "refused"] /\ UNCHANGED <<serverRows, bill, written, behind>>
       ELSE IF job.expected # None /\ job.expected # Cardinality(matched)
       THEN job' = [job EXCEPT !.answer = "drifted"] /\ UNCHANGED <<serverRows, bill, written, behind>>
       ELSE /\ job' = [job EXCEPT !.answer = "ok", !.result = Result(job), !.carried = TRUE]
            /\ serverRows' = [r \in ListRows |-> IF r \in matched THEN job.bucket ELSE serverRows[r]]
            /\ bill' = IF job.move THEN job.bucket ELSE bill
            /\ written' = Append(written, [old |-> [r \in {q \in matched : serverRows[q] # job.bucket} |-> serverRows[r]],
                                           bucket |-> job.bucket, undone |-> FALSE])
            /\ behind' = TRUE
    /\ wrong' = [wrong EXCEPT !.count = @ \/ (job'.carried /\ job.select.kind # "picked" /\ job.shown # Cardinality(matched))]
    /\ UNCHANGED <<waiting, filter, pages, list, sel, sheet, previewed, outside>>

Answered(next) ==
    /\ next
    /\ UNCHANGED <<serverRows, bill, written, waiting, filter, pages, list, behind, outside>>

PreviewAnsweredForAnyone ==
    /\ job # None /\ job.kind = "preview" /\ job.answer = "ok"
    /\ sheet' = IF sheet.open THEN [sheet EXCEPT !.preview = job.result] ELSE sheet
    /\ previewed' = job.select
    /\ job' = None /\ UNCHANGED <<sel, wrong>>

\* The preview lands in the sheet as it is now; its total goes with the selection it was asked for.
PreviewAnswered ==
    /\ job # None /\ job.kind = "preview" /\ job.answer = "ok"
    /\ sheet' = IF sheet.open THEN [sheet EXCEPT !.preview = job.result] ELSE sheet
    /\ previewed' = IF job.n = sel.n THEN job.select ELSE previewed
    /\ job' = None /\ UNCHANGED <<sel, wrong>>

\* The sheet closes, the selection goes, a toast offers Undo.
ApplyAnswered ==
    /\ job # None /\ job.kind = "apply" /\ job.answer = "ok"
    /\ sheet' = Shut
    /\ sel' = Off /\ previewed' = None
    /\ job' = None /\ UNCHANGED wrong

\* The selection drifted: the same request is previewed again, so the next Apply sends the new count.
ApplyDrifted ==
    /\ job # None /\ job.kind = "apply" /\ job.answer = "drifted"
    /\ job' = [job EXCEPT !.kind = "preview", !.answer = "none"]
    /\ UNCHANGED <<sheet, sel, previewed, wrong>>

ApplyRefused == job # None /\ job.answer = "refused" /\ job' = None /\ UNCHANGED <<sheet, sel, previewed, wrong>>

\* No answer: "Couldn't reach the server. Nothing was changed."
LoseJob ==
    /\ job # None /\ job' = None
    /\ wrong' = [wrong EXCEPT !.told = @ \/ job.carried]
    /\ UNCHANGED <<sheet, sel, previewed>>

\* Undo in the toast, in the recent bulk changes or in a row's history: rows nobody changed since go back.
UndoBatch(i) ==
    /\ ~written[i].undone
    /\ written' = [written EXCEPT ![i].undone = TRUE]
    /\ serverRows' = [r \in ListRows |-> IF r \in DOMAIN written[i].old /\ serverRows[r] = written[i].bucket THEN written[i].old[r] ELSE serverRows[r]]
    /\ behind' = TRUE
    /\ UNCHANGED <<bill, waiting, filter, pages, list, sel, sheet, job, previewed, wrong, outside>>

(***************************************************************************)
(* What happens elsewhere.                                                 *)
(***************************************************************************)
Elsewhere == outside.changes < MaxOutside /\ outside' = [outside EXCEPT !.changes = @ + 1]

\* An edit or a deletion of this device is queued: made in the detail, or sent before and lost. A queued deletion has
\* already left the cached list, a held one is hidden in it.
Wait(r, kind, b) ==
    /\ Elsewhere /\ serverRows[r] # None /\ ~Waits(r)
    /\ waiting' = [waiting EXCEPT ![r] = [kind |-> kind, bucket |-> b]]
    /\ list' = IF kind = "delete" /\ list # None THEN [list EXCEPT !.rows = @ \ {r}] ELSE list
    /\ UNCHANGED <<serverRows, bill, written, filter, pages, behind, sel, sheet, job, previewed, wrong>>

Replay(r) ==
    /\ Waits(r)
    /\ serverRows' = [serverRows EXCEPT ![r] = IF @ = None THEN @ ELSE waiting[r].bucket]
    /\ waiting' = [waiting EXCEPT ![r] = [kind |-> "no", bucket |-> None]]
    /\ behind' = TRUE
    /\ UNCHANGED <<bill, written, filter, pages, list, sel, sheet, job, previewed, wrong, outside>>

PartnerMoves(r, b) ==
    /\ Elsewhere /\ serverRows[r] \notin {None, b}
    /\ serverRows' = [serverRows EXCEPT ![r] = b] /\ behind' = TRUE
    /\ UNCHANGED <<bill, written, waiting, filter, pages, list, sel, sheet, job, previewed, wrong>>

SheetInit ==
    /\ serverRows = [r \in ListRows |-> IF r \in InFirst THEN First ELSE CHOOSE b \in Buckets : b # First]
    /\ bill = First /\ written = <<>> /\ waiting = [r \in ListRows |-> [kind |-> "no", bucket |-> None]]
    /\ filter = "month" /\ pages = 1 /\ list = None /\ behind = FALSE
    /\ sel = [kind |-> "off", ids |-> {}, filter |-> "all", count |-> 0, n |-> 0, all |-> FALSE]
    /\ sheet = Shut
    /\ job = None /\ previewed = None /\ wrong = [count |-> FALSE, told |-> FALSE] /\ outside = [jobs |-> 0, changes |-> 0]

SheetNext ==
    \/ Enter({}) \/ (\E r \in ListRows : Enter({r}) \/ Toggle(r)) \/ SelectAll \/ CancelSelection
    \/ \E f \in Filters : SetFilter(f) \/ FollowLink(f)
    \/ Load \/ LoadMore
    \/ OpenSheet \/ CloseSheet \/ (\E b \in Buckets \cup {None} : SetBucket(b)) \/ (\E on \in BOOLEAN : SetMove(on))
    \/ Preview \/ Apply \/ ServePreview \/ ServeApply
    \/ Answered(PreviewAnswered) \/ Answered(ApplyAnswered) \/ Answered(ApplyDrifted) \/ Answered(ApplyRefused)
    \/ Answered(LoseJob)
    \/ \E i \in 1..Len(written) : UndoBatch(i)
    \/ \E r \in ListRows, b \in Buckets : Wait(r, "edit", b) \/ PartnerMoves(r, b)
    \/ \E r \in ListRows : Wait(r, "delete", None) \/ Replay(r)

SheetSpec == SheetInit /\ [][SheetNext]_bulkVars

(***************************************************************************)
(* Properties.                                                             *)
(***************************************************************************)
\* "All" takes every row of the filter that does not wait, and no other: from three numbers and two flags allMode finds
\* out whether the filter on the server would also change a row whose queued write would undo it later (selection.ts).
AllIsExact ==
    [][sel'.all /\ sel' # sel /\ ~behind =>
        /\ SelectedRows(Content(sel')) = {r \in Matching(filter) : ~Waits(r)}
        /\ (sel'.kind # "picked" => sel'.count = Cardinality(Matching(filter)))]_bulkVars

\* The total in the bar is of the rows selected: a preview that answers after another selection was made does not lend
\* it its total (Activity.tsx previewed).
TotalIsOfSelection ==
    previewed # None /\ Selecting => previewed = Content(sel)

\* Applying to a filter or a bill changes as many rows as the preview on screen said: rows that came or went while the
\* sheet was open make it start over (BulkSheet.tsx doApply, services/bulk.py expected_count).
AppliedAsShown == ~wrong.count

(***************************************************************************)
(* What comments say and the model refutes.                                *)
(***************************************************************************)
\* "A new filter is a new list: a selection made on the old one no longer means anything" (Activity.tsx): a link to
\* Activity changes the filter and leaves the selection.
SelectionOfThisList == sel.kind \in {"filter", "bill"} => sel.filter = filter

\* "Apply to N" shows what will change: a preview that answers late lands in a sheet whose fields have changed.
PreviewIsOfSheet ==
    sheet.open /\ sheet.preview # None =>
        sheet.preview.bucket = sheet.bucket /\ sheet.preview.select = Content(sel)

\* "the server would change that row too, and the queued write would undo it later" (selection.ts): a write that is
\* queued after All was pressed is changed with the others, and does undo it.
WaitingIsLeftAlone ==
    [][Len(written') > Len(written) => \A r \in DOMAIN Last(written').old : ~Waits(r)]_bulkVars

\* "Couldn't reach the server. Nothing was changed." (activity/hooks.ts): the apply may have been carried out.
NothingWasChanged == ~wrong.told
=============================================================================
