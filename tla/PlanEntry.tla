------------------------------ MODULE PlanEntry ------------------------------
(***************************************************************************)
(* Entries that are due, on one phone: Home's "Needs attention"            *)
(* (home/attention.ts, NeedsAttention.tsx), Plan's Upcoming and the sheet  *)
(* that marks an entry paid, skips it, sets its amount or undoes it        *)
(* (plan/EntrySheet.tsx, hooks.ts).  A write patches every cached list at  *)
(* once (module EntryPatch), and is sent beside the others: these writes   *)
(* have no lane.                                                           *)
(*                                                                         *)
(* Both screens share the phone's copies.  The queue behind is module      *)
(* OfflineQueue: here it is replayed in order.  What the server does to an *)
(* entry is module BillEntries, here without its transactions.             *)
(***************************************************************************)
EXTENDS EntryPatch

CONSTANTS
    MaxActs, MaxLost    \* bounds: what this member presses; failures, offline spells and what others do

ASSUME PlanEntryAssumption == MaxActs \in Nat /\ MaxLost \in Nat

VARIABLES
    server,     \* the server: per entry status and amount set (or None), and what it was paid with; the payment that
                \* looks like an entry: free, linked or dismissed; kept: what the month's other transactions come to
    phone,      \* the phone, a record:
                \*   copy    per query, what the screens show, or None
                \*   asked   queries whose refetch is under way
                \*   writes  sends under way, each with the copies as they were before its patch
                \*   queue   the offline queue          failed  the changes it could not save
                \*   sheet   the entry's sheet, or None: the entry as it was when it opened, its mode, whether it
                \*           shows a refusal, and the write it waits for
                \*   online
    missed,     \* history: queries whose copy may miss what another member did
    behind,     \* history: a list was read while a write was still to be sent
    crossed,    \* history: a write was sent while an earlier one of its entry was not settled
    acts, lost

entryVars == <<server, phone, missed, behind, crossed, acts, lost>>

(***************************************************************************)
(* Reads.                                                                  *)
(***************************************************************************)
Act == acts < MaxActs /\ acts' = acts + 1
Trouble == lost < MaxLost /\ lost' = lost + 1

Moved(next) == phone' = next /\ UNCHANGED <<server, missed, behind, crossed, acts, lost>>
Asking(p, queries) == [p EXCEPT !.asked = @ \cup queries]

\* A list is read and shown at once: a write that is pressed gives up the reads under way, and one that is answered asks
\* for them again.
Read(q) ==
    /\ phone.online /\ q \in phone.asked
    /\ phone' = [phone EXCEPT !.copy[q] = View(server, q), !.asked = @ \ {q}]
    /\ missed' = missed \ {q}
    /\ behind' = (phone.queue # <<>> \/ phone.writes # {})
    /\ UNCHANGED <<server, crossed, acts, lost>>
FetchFails(q) ==
    /\ q \in phone.asked /\ Trouble
    /\ phone' = [phone EXCEPT !.asked = @ \ {q}]
    /\ missed' = missed \cup {q}
    /\ UNCHANGED <<server, behind, crossed, acts>>

(***************************************************************************)
(* A write (data/action.ts perform).                                       *)
(***************************************************************************)
Affects(kind) == IF kind = "dismiss" THEN {"matches"} ELSE Query
FreeNumber(writes) == CHOOSE n \in 1..(Cardinality(writes) + 1) : \A w \in writes : w.n # n
Owes(p, e) == (\E w \in p.writes : w.entry = e) \/ (\E i \in DOMAIN p.queue : p.queue[i].entry = e)

Enqueued(p, w) == [p EXCEPT !.queue = Append(@, Write(w.kind, w.entry, w.amount))]
Perform(p, target, w) ==
    LET q == [p EXCEPT !.asked = @ \ Affects(w.kind), !.copy = Patched(p.copy, target, w)]
    IN IF q.online
       THEN [q EXCEPT !.writes = @ \cup {[n |-> FreeNumber(@), kind |-> w.kind, entry |-> w.entry, amount |-> w.amount,
                                          stage |-> "sent", snap |-> p.copy]}]
       ELSE Enqueued(q, w)
Ordered(w) == crossed' = (crossed \/ (Owes(phone, w.entry) /\ (phone.online \/ phone.writes # {})))

(***************************************************************************)
(* The sheet (EntrySheet.tsx).                                             *)
(***************************************************************************)
Missing(row, e) == row.status = "expected" /\ (row.estimated \/ row.amount = None) /\ Due[e] <= Today + Horizon
\* A row opens the sheet, "Set" at the amount; the menu's choices are part of the step.  (A sheet in which the bound lets
\* nobody press anything is not opened.)
Has(row, e, mode) ==
    \/ mode = "menu"
    \/ mode \in {"pay", "amount"} /\ row.status = "expected"
    \/ mode = "undo" /\ row.status = "done" /\ e \notin Income
Open(q, e, mode) ==
    /\ phone.sheet = None /\ acts < MaxActs
    /\ q # "matches" /\ phone.copy[q] # None /\ e \in DOMAIN phone.copy[q].rows
    /\ LET row == phone.copy[q].rows[e]
       IN /\ q = "overdue" => row.overdue /\ row.status = "expected"
          /\ Has(row, e, mode)
          /\ Moved([phone EXCEPT !.sheet = [entry |-> e, row |-> row, mode |-> mode, problem |-> FALSE, waits |-> None]])
Close == phone.sheet # None /\ Moved([phone EXCEPT !.sheet = None])

Shows(mode) == phone.sheet # None /\ phone.sheet.mode = mode
\* The sheet of a write that was queued goes; of one that was sent it waits.
Submit(kind, amount) ==
    LET w == Write(kind, phone.sheet.entry, amount)
        p == Perform(phone, phone.sheet.row, w)
        n == FreeNumber(phone.writes)
    IN /\ phone.sheet.waits = None /\ Act /\ Ordered(w)
       /\ phone' = [p EXCEPT !.sheet = IF p.online THEN [@ EXCEPT !.waits = n] ELSE None]
       /\ UNCHANGED <<server, missed, behind, lost>>

Skip == Shows("menu") /\ phone.sheet.row.status = "expected" /\ Submit("skip", None)
\* A field left blank stands for the amount the sheet shows.
Pay(amount) == Shows("pay") /\ (amount = None => phone.sheet.row.amount # None) /\ Submit("done", amount)
SetAmount(amount) == Shows("amount") /\ amount # None /\ Submit("amount", amount)
UndoAtOnce ==
    /\ Shows("menu") /\ phone.sheet.row.status # "expected" /\ ~Has(phone.sheet.row, phone.sheet.entry, "undo")
    /\ Submit("keep", None)
KeepExpense == Shows("undo") /\ ~phone.sheet.problem /\ Submit("keep", None)
DeleteExpense == Shows("undo") /\ Submit("delete", None)

\* "Link" and "Not this": the row goes with the press.
Match(kind) ==
    /\ phone.sheet = None /\ Act
    /\ phone.copy["matches"] # None /\ Matched \in DOMAIN phone.copy["matches"].rows
    /\ LET w == Write(kind, Matched, None)
       IN Ordered(w) /\ phone' = Perform(phone, phone.copy["matches"].rows[Matched], w)
    /\ UNCHANGED <<server, missed, behind, lost>>

(***************************************************************************)
(* Answers.                                                                *)
(***************************************************************************)
Replaced(w, next) == [phone EXCEPT !.writes = (@ \ {w}) \cup {next}]
Without(w) == [phone EXCEPT !.writes = @ \ {w}]
OfSheet(w) == w.kind \notin {"linked", "dismiss"}

Serve(w) ==
    /\ w.stage = "sent"
    /\ server' = After(server, w)
    /\ phone' = Replaced(w, [w EXCEPT !.stage = IF Carried(server, w) = None THEN "refused" ELSE "ok"])
    /\ UNCHANGED <<missed, behind, crossed, acts, lost>>

\* Whatever sheet is open closes: the answer does not know whether it is its own.
Answered(w) ==
    /\ w.stage = "ok" /\ phone.online
    /\ Moved([Asking(Without(w), Affects(w.kind)) EXCEPT !.sheet = IF OfSheet(w) THEN None ELSE @])

RolledBack(p, w) == [p EXCEPT !.copy = [q \in Query |-> IF q \in Affects(w.kind) THEN w.snap[q] ELSE p.copy[q]]]
Awaited(w) == OfSheet(w) /\ phone.sheet # None /\ phone.sheet.waits = w.n
RefusedKeepingPatch(w) ==
    /\ w.stage = "refused" /\ phone.online
    /\ phone' = [Without(w) EXCEPT !.sheet = IF Awaited(w) THEN [@ EXCEPT !.problem = TRUE, !.waits = None] ELSE @]
    /\ UNCHANGED <<server, missed, behind, crossed, acts, lost>>
\* Back to the copies of before the patch, and refetched.  The sheet says why, if it is still there.
Refused(w) ==
    /\ w.stage = "refused" /\ phone.online
    /\ phone' = [Asking(RolledBack(Without(w), w), Affects(w.kind)) EXCEPT
                    !.sheet = IF Awaited(w) THEN [@ EXCEPT !.problem = TRUE, !.waits = None] ELSE @]
    /\ UNCHANGED <<server, missed, behind, crossed, acts, lost>>

\* No answer, before or after the server carried it out: queued, and the sheet closes.
Lose(w) ==
    /\ (~phone.online /\ UNCHANGED lost) \/ (phone.online /\ Trouble)
    /\ phone' = [Enqueued(Without(w), w) EXCEPT !.sheet = IF OfSheet(w) THEN None ELSE @]
    /\ crossed' = (crossed \/ \E v \in phone.writes \ {w} : v.entry = w.entry)
    /\ UNCHANGED <<server, missed, behind, acts>>

\* A conflict found on replay is dropped; an amount that is missing fails for good and is shown.
FailsForGood(s, w) == w.kind = "done" /\ Expected(s, w.entry) /\ Carried(s, w) = None
Replay ==
    /\ phone.online /\ phone.queue # <<>>
    /\ LET w == Head(phone.queue)
           p == [phone EXCEPT !.queue = Tail(@), !.failed = IF FailsForGood(server, w) THEN @ + 1 ELSE @]
       IN server' = After(server, w) /\ phone' = Asking(p, Query)
    /\ UNCHANGED <<missed, behind, crossed, acts, lost>>
DismissFailed == phone.failed > 0 /\ Moved([phone EXCEPT !.failed = @ - 1])

Elsewhere(w) ==
    /\ Trouble /\ Carried(server, w) \notin {None, server}
    /\ server' = Carried(server, w) /\ missed' = Query
    /\ UNCHANGED <<phone, behind, crossed, acts>>
GoOffline ==
    /\ phone.online /\ Trouble /\ phone' = [phone EXCEPT !.online = FALSE]
    /\ UNCHANGED <<server, missed, behind, crossed, acts>>
GoOnline == ~phone.online /\ Moved([Asking(phone, Query) EXCEPT !.online = TRUE])

(***************************************************************************)
(* Needs attention (attention.ts).                                         *)
(***************************************************************************)
ListOf(p, q) == IF p.copy[q] = None THEN <<>> ELSE p.copy[q].rows
ByDay(set) == SetToSortSeq(set, LAMBDA a, b : Due[a] < Due[b])
Lines(kind, entries) == [i \in DOMAIN entries |-> [kind |-> kind, entry |-> entries[i]]]
Needs(p) ==
    LET overdue == ListOf(p, "overdue")
        upcoming == ListOf(p, "upcoming")
    IN Lines("failed", [i \in 1..p.failed |-> None])
         \o Lines("overdue", ByDay({e \in DOMAIN overdue : overdue[e].overdue /\ overdue[e].status = "expected"}))
         \o Lines("match", ByDay(DOMAIN ListOf(p, "matches")))
         \o Lines("missingAmount", ByDay({e \in DOMAIN upcoming : Missing(upcoming[e], e)}))

\* One row per item: a later kind about it becomes a line under its first row.
OfItem(line) == IF line.kind \in {"overdue", "missingAmount"} THEN ItemOf[line.entry] ELSE None
MergeByItemFirst(lines) ==
    FoldLeft(LAMBDA rows, line :
                IF OfItem(line) # None /\ \E i \in DOMAIN rows : OfItem(rows[i].line) = OfItem(line) THEN rows
                ELSE Append(rows, [line |-> line, also |-> <<>>]),
             <<>>, lines)
MergeByItem(lines) ==
    FoldLeft(LAMBDA rows, line :
                LET heads == {i \in DOMAIN rows : OfItem(line) # None /\ OfItem(rows[i].line) = OfItem(line)}
                IN IF heads # {} /\ rows[Min(heads)].line.kind # line.kind
                   THEN [rows EXCEPT ![Min(heads)].also = Append(@, line)]
                   ELSE Append(rows, [line |-> line, also |-> <<>>]),
             <<>>, lines)
Attention(p) == MergeByItem(Needs(p))
Ready(p) == \A q \in Query : p.copy[q] # None
AllClear(p) == Ready(p) /\ Attention(p) = <<>>

(***************************************************************************)
(* Specification.                                                          *)
(***************************************************************************)
EntryInit ==
    /\ server \in [status : {[e \in Entries |-> "expected"]}, amount : {[e \in Entries |-> None]},
                   paid : {[e \in Entries |-> None]}, match : {"free"}, kept : {0}]
    /\ phone = [copy |-> [q \in Query |-> None], asked |-> Query, writes |-> {}, queue |-> <<>>,
                failed |-> 0, sheet |-> None, online |-> TRUE]
    /\ missed = {} /\ behind = FALSE /\ crossed = FALSE /\ acts = 0 /\ lost = 0

Typed == Amounts \cup {None}
EntryNext ==
    \/ \E q \in Query : Read(q) \/ FetchFails(q) \/ \E e \in Entries, m \in {"menu", "pay", "amount", "undo"} : Open(q, e, m)
    \/ \E a \in Typed : Pay(a) \/ SetAmount(a)
    \/ \E k \in {"linked", "dismiss"} : Match(k)
    \/ \E w \in phone.writes : Serve(w) \/ Answered(w) \/ Refused(w) \/ Lose(w)
    \/ \E e \in Entries, a \in Amounts : \E k \in {"done", "skip", "amount", "keep"} : Elsewhere(Write(k, e, a))
    \/ Close \/ Skip \/ UndoAtOnce \/ KeepExpense \/ DeleteExpense \/ Replay \/ DismissFailed \/ GoOffline \/ GoOnline

EntrySpec == EntryInit /\ [][EntryNext]_entryVars

(***************************************************************************)
(* Properties.                                                             *)
(***************************************************************************)
\* With nothing under way, every list shows the entries as the server holds them once the queue is replayed (of an undone
\* one, not yet its amount), or as it holds them now if they were read since: whatever refusals, lost answers and refetches overtook one another, unless two writes of one
\* entry crossed.
Replayed == FoldLeft(After, server, phone.queue)
Quiet == phone.writes = {} /\ missed = {} /\ phone.asked = {}
Undone(e) == \E i \in DOMAIN phone.queue : phone.queue[i].entry = e /\ phone.queue[i].kind \in {"keep", "delete"}
Agrees(row, e) ==
    /\ row.status = Replayed.status[e]
    /\ row.status = "expected" /\ ~Undone(e) => row.amount = Amount(Replayed, e) /\ row.estimated = (Replayed.amount[e] = None)
\* A queued write that will be refused, and has not taken effect already, shows until then.
Doomed ==
    \E i \in DOMAIN phone.queue :
        LET w == phone.queue[i]
            s == FoldLeft(After, server, SubSeq(phone.queue, 1, i - 1))
        IN Carried(s, w) = None /\ ApplyChange(Out(s, w.entry), w).status # s.status[w.entry]
ShownWillBe ==
    Quiet /\ Ready(phone) /\ ~Doomed /\ (behind => phone.queue = <<>>) =>
        /\ \A e \in DOMAIN ListOf(phone, "upcoming") : Agrees(phone.copy["upcoming"].rows[e], e)
        /\ \A e \in DOMAIN ListOf(phone, "overdue") : Agrees(phone.copy["overdue"].rows[e], e)
        /\ phone.queue = <<>> => \A q \in Query : phone.copy[q] = View(server, q)
ShownIsWhatWillBe == ~crossed => ShownWillBe

\* "Needs attention" then names everything on the server that needs it, once, one row per item and kind; and says
\* "All clear" only when there is nothing.
Served(kind, e) ==
    CASE kind = "overdue" -> Out(server, e).overdue
      [] kind = "match" -> e = Matched /\ Offered(server)
      [] OTHER -> Due[e] >= Today /\ Missing(Out(server, e), e)
AllLines(rows) == FoldLeft(LAMBDA lines, row : lines \o <<row.line>> \o row.also, <<>>, rows)
NothingForgotten ==
    Quiet /\ phone.queue = <<>> /\ Ready(phone) =>
        LET rows == Attention(phone)
            said == AllLines(rows)
            needs == {n \in [kind : {"overdue", "match", "missingAmount"}, entry : Entries] : Served(n.kind, n.entry)}
        IN /\ ToSet(said) \ {[kind |-> "failed", entry |-> None]} = needs
           /\ Len(said) = phone.failed + Cardinality(needs)
           /\ \A i, j \in DOMAIN rows : i < j /\ OfItem(rows[i].line) # None /\ OfItem(rows[i].line) = OfItem(rows[j].line)
                                        => rows[i].line.kind = rows[j].line.kind
           /\ AllClear(phone) <=> needs = {} /\ phone.failed = 0

(***************************************************************************)
(* What comments say and the model refutes.                                *)
(***************************************************************************)
\* "the Entry sheet shows every rejection inline" (plan/hooks.ts): not once it was closed, and no toast says it either.
RefusalIsSaid ==
    [][\A w \in phone.writes :
          w.stage = "refused" /\ w \notin phone'.writes /\ phone'.queue = phone.queue /\ OfSheet(w) => Awaited(w)]_entryVars

\* The button of a blank amount reads "Mark paid" with the usual amount, and the server does not take it.
OfferedIsTaken ==
    [][\A w \in phone.writes : w.stage = "refused" /\ w \notin phone'.writes => ~FailsForGood(server, w)]_entryVars

\* An answer closes the sheet it was given on (EntrySheet.tsx after), and no other.
ClosesItsOwn ==
    [][phone.sheet # None /\ phone'.sheet = None =>
        \A w \in phone.writes : w \notin phone'.writes /\ OfSheet(w) => phone.sheet.waits = w.n]_entryVars

\* ShownWillBe itself: "instead of overtaking it online" (data/action.ts) is of lanes, and these writes have none.
=============================================================================
