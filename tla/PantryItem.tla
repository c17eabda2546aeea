----------------------------- MODULE PantryItem -----------------------------
(***************************************************************************)
(* One pantry item on one phone (plan/pantry/Detail.tsx, PantryRow.tsx,    *)
(* EditSheet.tsx, PriceSheet.tsx, hooks.ts): the - / + of its row, of its  *)
(* own screen and of a scanned barcode's sheet move the saved copies at    *)
(* once and are sent one after another or queued; the settings, the edit,  *)
(* the prices and Archive are online only, each beside the taps and beside *)
(* the others, and their answers are written into the same saved copies.   *)
(*                                                                         *)
(* Quantity, minimum and tracking are changed by this phone alone; the     *)
(* name also by another member.  A query that no screen shows is only      *)
(* marked stale, and read when its screen comes.                           *)
(***************************************************************************)
EXTENDS WebBase

CONSTANTS
    Names,              \* names of the product
    FirstQty,           \* quantities to begin with
    MaxQty,             \* bound: where + ends
    MaxActs, MaxItemLost    \* bounds: what the members do and what fails, together; failures and offline spells

ASSUME PantryItemAssumption == FirstQty \subseteq Nat /\ MaxQty \in Nat /\ MaxActs \in Nat /\ MaxItemLost \in Nat

Query == {"list", "item"}
\* The writes whose answer is the list's row, and those whose answer is the whole item.
Part == {"min", "track", "edit"}
Whole == {"prices"}
Kind == Part \cup Whole \cup {"archive"}

VARIABLES
    item,       \* the server's row: qty, min, track, prices, name, live, and the taps it has seen
    page,      \* a record:
                \*   copy    per query, the saved row, or None
                \*   fetch   per query, a refetch under way: idle, asked, or the row read (or None: it is gone)
                \*   stale   queries to refetch when their screen comes
                \*   lane    the taps not settled, the first of them sent or about to be
                \*   queue   the offline queue          mark    "Waiting to sync"
                \*   at      the screen: list or item   online
                \*   form    the edit's form, or None   found   the barcode's sheet: its count and the taps made on it
    reqs,       \* online-only writes: id, kind, value, stage, reply, there (its control waits), home (its screen is still there)
    meant,      \* history: the quantity that the taps add up to, one after another
    crossed,    \* history: a tap was made offline while an earlier one was on its way
    unheard,    \* history: an online-only write was carried out and its answer lost
    acts, lost

itemVars == <<item, page, reqs, meant, crossed, unheard, acts, lost>>

Clamped(n) == IF n < 0 THEN 0 ELSE n
ItemRow(s) == [qty |-> s.qty, min |-> s.min, track |-> s.track, prices |-> s.prices, name |-> s.name]
\* What a reply of the list's shape brings to the item's own copy: all but the prices.
Merged(copy, reply) == IF copy = None THEN None ELSE [reply EXCEPT !.prices = copy.prices]

(***************************************************************************)
(* The saved copies.                                                       *)
(***************************************************************************)
NoItemRequest == [at |-> "idle", row |-> None]
Asked == [at |-> "asked", row |-> None]

\* Stale until the next read lands, which is asked for at once if its screen shows it.
Invalidated(p, queries) ==
    [p EXCEPT !.fetch = [q \in Query |-> IF q \in queries /\ q = p.at THEN Asked ELSE p.fetch[q]],
              !.stale = @ \cup queries]
\* A copy that is written counts as fresh.
Written(p, queries) == [p EXCEPT !.stale = @ \ {q \in queries : p.copy[q] # None}]
Stepped(next) == page' = next /\ UNCHANGED <<item, reqs, meant, crossed, unheard, acts, lost>>

Act == acts + lost < MaxActs /\ acts' = acts + 1
Lost == lost < MaxItemLost /\ acts + lost < MaxActs /\ lost' = lost + 1

Read(q) ==
    /\ page.online /\ page.fetch[q].at = "asked"
    /\ Stepped([page EXCEPT !.fetch[q] = [at |-> "read", row |-> IF item.live THEN ItemRow(item) ELSE None]])
\* A 404 leaves the item's copy as it is; the list comes without its row.
Land(q) ==
    /\ page.fetch[q].at = "read"
    /\ LET row == page.fetch[q].row
       IN page' = [page EXCEPT !.copy[q] = IF q = "item" /\ row = None THEN @ ELSE row,
                                 !.fetch[q] = NoItemRequest, !.stale = @ \ {q}]
    /\ unheard' = IF page.fetch[q].row = (IF item.live THEN ItemRow(item) ELSE None) THEN unheard \ {q} ELSE unheard
    /\ UNCHANGED <<item, reqs, meant, crossed, acts, lost>>
Focus ==
    /\ page.fetch[page.at] = NoItemRequest /\ Act
    /\ page' = [page EXCEPT !.fetch[page.at] = Asked]
    /\ UNCHANGED <<item, reqs, meant, crossed, unheard, lost>>

Mounting(to) ==
    [q \in Query |-> IF q = to /\ (to \in page.stale \/ page.copy[to] = None) THEN Asked ELSE NoItemRequest]
Left(set) == {[r EXCEPT !.home = FALSE, !.there = FALSE] : r \in set}
\* A change of screen: the controls go with it, and a read under way is given up; what is stale is read.
Go(to) ==
    /\ to # page.at /\ page.form = None /\ Act
    /\ page' = [page EXCEPT !.at = to, !.found = None,
                              !.fetch = Mounting(to)]
    /\ reqs' = Left(reqs)
    /\ UNCHANGED <<item, meant, crossed, unheard, lost>>

(***************************************************************************)
(* A tap on - or + (useAdjustStock, data/action.ts perform).               *)
(***************************************************************************)
Adjusted(copy, by) == IF copy = None THEN None ELSE [copy EXCEPT !.qty = Clamped(@ + by)]
ItemQueued(p, t) == [p EXCEPT !.queue = Append(@, t), !.mark = TRUE]

PerformItem(p, by, id) ==
    LET t == [by |-> by, id |-> id, stage |-> "waiting", snap |-> p.copy]
        q == [Written(p, Query) EXCEPT !.fetch = [k \in Query |-> NoItemRequest], !.copy = [k \in Query |-> Adjusted(p.copy[k], by)]]
    IN IF q.online THEN [q EXCEPT !.lane = Append(@, t)] ELSE ItemQueued(q, t)

TapItem(p, by) ==
    /\ Act /\ meant < MaxQty
    /\ page' = PerformItem(p, by, acts)
    /\ meant' = Clamped(meant + by)
    /\ crossed' = (crossed \/ (~page.online /\ page.lane # <<>>))
    /\ UNCHANGED <<item, reqs, unheard, lost>>

StepQuantity(by) ==
    /\ page.form = None /\ page.found = None /\ page.copy[page.at] # None
    /\ by = 1 \/ page.copy[page.at].qty > 0
    /\ TapItem(page, by)

\* The sheet of a scanned barcode: it counts from what the lookup found, plus the taps made on it.
LookUp ==
    /\ page.at = "list" /\ page.online /\ page.form = None /\ page.found = None /\ item.live /\ Act
    /\ page' = [page EXCEPT !.found = [qty |-> item.qty, by |-> 0]]
    /\ UNCHANGED <<item, reqs, meant, crossed, unheard, lost>>
Counted == Clamped(page.found.qty + page.found.by)
StepFound(by) ==
    /\ page.found # None /\ Counted + by >= 0
    /\ TapItem([page EXCEPT !.found.by = @ + by], by)
LeaveFound == page.found # None /\ Stepped([page EXCEPT !.found = None])

ItemSettled(p) == [p EXCEPT !.lane = Tail(@)]
ItemAtHead(stage) == page.lane # <<>> /\ Head(page.lane).stage = stage
WithItemHead(stage) == [page EXCEPT !.lane = <<[Head(@) EXCEPT !.stage = stage]>> \o Tail(@)]

SendItemOvertaking == ItemAtHead("waiting") /\ Stepped(WithItemHead("sent"))
SendItem ==
    /\ ItemAtHead("waiting")
    /\ Stepped(IF ~page.online \/ page.mark THEN ItemSettled(ItemQueued(page, Head(page.lane))) ELSE WithItemHead("sent"))

\* The server counts a tap once; a tap on an archived item is a 404.
ItemCarried(s, t) == IF ~s.live \/ t.id \in s.seen THEN s
                 ELSE [s EXCEPT !.qty = Clamped(@ + t.by), !.seen = IF s.qty + t.by < 0 THEN @ ELSE @ \cup {t.id}]
ServeItem ==
    /\ ItemAtHead("sent")
    /\ item' = ItemCarried(item, Head(page.lane))
    /\ page' = WithItemHead(IF item.live THEN "ok" ELSE "gone")
    /\ UNCHANGED <<reqs, meant, crossed, unheard, acts, lost>>

\* Done: refetched unless later taps wait.  Refused: as before the tap, and refetched.
ItemAnswer ==
    /\ page.online /\ page.lane # <<>>
    /\ \/ /\ Head(page.lane).stage = "ok"
          /\ Stepped(IF Len(page.lane) = 1 THEN Invalidated(ItemSettled(page), Query) ELSE ItemSettled(page))
       \/ /\ Head(page.lane).stage = "gone"
          /\ Stepped(Invalidated([ItemSettled(page) EXCEPT !.copy = [q \in Query |-> Or(Head(page.lane).snap[q], @[q])]], Query))
LoseTap ==
    /\ page.lane # <<>> /\ Head(page.lane).stage \in {"sent", "ok", "gone"}
    /\ (~page.online /\ UNCHANGED lost) \/ (page.online /\ Lost)
    /\ page' = ItemSettled(ItemQueued(page, Head(page.lane)))
    /\ UNCHANGED <<item, reqs, meant, crossed, unheard, acts>>

ReplayItem ==
    /\ page.online /\ page.queue # <<>>
    /\ item' = ItemCarried(item, Head(page.queue))
    /\ page' = Invalidated([page EXCEPT !.queue = Tail(@)], Query)
    /\ UNCHANGED <<reqs, meant, crossed, unheard, acts, lost>>
ClearMark == page.queue = <<>> /\ page.mark /\ Stepped([page EXCEPT !.mark = FALSE])

(***************************************************************************)
(* The online-only writes (useStockWrites).                                *)
(***************************************************************************)
Waits(kind) == \E r \in reqs : r.kind = kind /\ r.there
Ask(kind, value) ==
    /\ page.at = "item" /\ page.online /\ ~Waits(kind) /\ page.copy.item # None /\ Act
    /\ reqs' = reqs \cup {[id |-> acts, kind |-> kind, value |-> value, stage |-> "sent", reply |-> None,
                             there |-> TRUE, home |-> TRUE]}
    /\ UNCHANGED <<item, page, meant, crossed, unheard, lost>>

\* The minimum shown is the one being sent, while one is.
StepMin(by) == page.form = None /\ (by = 1 \/ page.copy.item.min > 0) /\ Ask("min", Clamped(page.copy.item.min + by))
SetTrack == page.form = None /\ Ask("track", ~page.copy.item.track)
\* "Refresh prices" and "Log a price" alike.
AskPrices == page.form = None /\ Ask("prices", None)
Archive == page.form = None /\ Ask("archive", None)

\* The form starts with the item as it was; what differs from the item as it is now is sent.
OpenEdit == page.at = "item" /\ page.online /\ page.form = None /\ page.copy.item # None
            /\ Stepped([page EXCEPT !.form = [name |-> page.copy.item.name, typed |-> FALSE]])
Rename(n) == page.form # None /\ n # page.form.name /\ Stepped([page EXCEPT !.form = [name |-> n, typed |-> TRUE]])
SaveEdit == page.form # None /\ page.form.name # page.copy.item.name /\ Ask("edit", page.form.name)
SaveNothing == page.form # None /\ page.form.name = page.copy.item.name /\ Stepped([page EXCEPT !.form = None])
CloseEdit ==
    /\ page.form # None
    /\ page' = [page EXCEPT !.form = None]
    /\ reqs' = {IF r.kind = "edit" THEN [r EXCEPT !.there = FALSE] ELSE r : r \in reqs}
    /\ UNCHANGED <<item, meant, crossed, unheard, acts, lost>>

Changed(s, r) ==
    CASE r.kind = "min" -> [s EXCEPT !.min = r.value]
      [] r.kind = "track" -> [s EXCEPT !.track = r.value]
      [] r.kind = "edit" -> [s EXCEPT !.name = r.value]
      [] r.kind = "archive" -> [s EXCEPT !.live = FALSE]
      [] OTHER -> [s EXCEPT !.prices = 1]
Replaced(r, next) == (reqs \ {r}) \cup {next}
ServeReq(r) ==
    /\ r.stage = "sent"
    /\ item' = IF item.live THEN Changed(item, r) ELSE item
    /\ reqs' = Replaced(r, [r EXCEPT !.stage = IF item.live THEN "ok" ELSE "refused",
                                     !.reply = IF item.live THEN ItemRow(Changed(item, r)) ELSE None])
    /\ UNCHANGED <<page, meant, crossed, unheard, acts, lost>>

WithReply(p, r) ==
    CASE r.kind \in Part -> [Written(p, {"item"}) EXCEPT !.copy.item = Merged(@, r.reply)]
      [] r.kind \in Whole -> [Written(p, {"item"}) EXCEPT !.copy.item = r.reply]
      [] OTHER -> p
AnsweredUnrefreshed(r) ==
    /\ r.stage = "ok" /\ page.online
    /\ page' = WithReply(page, r)
    /\ reqs' = Replaced(r, [r EXCEPT !.stage = "refetching"])
    /\ UNCHANGED <<item, meant, crossed, unheard, acts, lost>>
Answered(r) ==
    /\ r.stage = "ok" /\ page.online
    /\ LET p == WithReply(page, r)
       IN page' = IF r.kind = "archive" THEN [Invalidated(p, {"list"}) EXCEPT !.stale = Query]
                   ELSE Invalidated(p, Query)
    /\ reqs' = Replaced(r, [r EXCEPT !.stage = "refetching"])
    /\ UNCHANGED <<item, meant, crossed, unheard, acts, lost>>

\* Then the control is free, the edit closes, and Archive goes to the list.
Done(r) ==
    /\ r.stage = "refetching" /\ page.fetch[page.at] = NoItemRequest
    /\ page' = CASE r.kind = "edit" /\ r.home -> [page EXCEPT !.form = None]
                  [] r.kind = "archive" /\ r.home ->
                        [page EXCEPT !.at = "list", !.form = None,
                                      !.fetch = Mounting("list")]
                  [] OTHER -> page
    /\ reqs' = IF r.kind = "archive" /\ r.home THEN Left(reqs \ {r}) ELSE reqs \ {r}
    /\ UNCHANGED <<item, meant, crossed, unheard, acts, lost>>

\* Refused, or no answer, or a taken barcode: a message, and nothing changes on the phone.
Refused(r) ==
    /\ r.stage = "refused" /\ page.online
    /\ reqs' = reqs \ {r}
    /\ UNCHANGED <<item, page, meant, crossed, unheard, acts, lost>>
LoseReq(r) ==
    /\ r.stage \in {"sent", "ok", "refused"}
    /\ (~page.online /\ UNCHANGED lost) \/ (page.online /\ Lost)
    /\ reqs' = reqs \ {r}
    /\ unheard' = IF r.stage = "ok" THEN Query ELSE unheard
    /\ UNCHANGED <<item, page, meant, crossed, acts>>

Elsewhere(n) ==
    /\ n # item.name /\ item.live /\ Act
    /\ item' = [item EXCEPT !.name = n]
    /\ UNCHANGED <<page, reqs, meant, crossed, unheard, lost>>

ItemOffline ==
    /\ page.online /\ Lost /\ page' = [page EXCEPT !.online = FALSE]
    /\ UNCHANGED <<item, reqs, meant, crossed, unheard, acts>>
ItemOnline == ~page.online /\ Stepped([page EXCEPT !.online = TRUE, !.fetch[page.at] = Asked])

(***************************************************************************)
(* Specification.                                                          *)
(***************************************************************************)
ItemInit ==
    /\ item \in [qty : FirstQty, min : {1}, track : {FALSE}, prices : {0}, name : {CHOOSE n \in Names : TRUE},
                 live : {TRUE}, seen : {{}}]
    /\ page = [copy |-> [q \in Query |-> ItemRow(item)], fetch |-> [q \in Query |-> NoItemRequest], stale |-> {}, lane |-> <<>>,
                queue |-> <<>>, mark |-> FALSE, at |-> "item", online |-> TRUE, form |-> None, found |-> None]
    /\ reqs = {} /\ meant = item.qty /\ crossed = FALSE /\ unheard = {} /\ acts = 0 /\ lost = 0

ItemNext ==
    \/ \E q \in Query : Read(q) \/ Land(q) \/ Go(q)
    \/ \E by \in {-1, 1} : StepQuantity(by) \/ StepFound(by) \/ StepMin(by)
    \/ \E n \in Names : Rename(n) \/ Elsewhere(n)
    \/ \E r \in reqs : ServeReq(r) \/ Answered(r) \/ Done(r) \/ Refused(r) \/ LoseReq(r)
    \/ Focus \/ LookUp \/ LeaveFound \/ SendItem \/ ServeItem \/ ItemAnswer \/ LoseTap \/ ReplayItem \/ ClearMark
    \/ SetTrack \/ AskPrices \/ Archive \/ OpenEdit \/ SaveEdit \/ SaveNothing \/ CloseEdit
    \/ ItemOffline \/ ItemOnline

ItemSpec == ItemInit /\ [][ItemNext]_itemVars

(***************************************************************************)
(* Properties.                                                             *)
(***************************************************************************)
TapsSettled == page.lane = <<>> /\ page.queue = <<>>

\* Once every tap has reached the server, the quantity is what the taps add up to in the order they were made, each
\* counted once and none below zero: through the lane, lost answers, the queue and the sheets they were made on.
TapsAddUp == TapsSettled /\ item.live /\ ~crossed => item.qty = meant

\* ... and with no write and no refetch under way, the screen shows the server's row: whatever answers, refetches,
\* refusals and changes of screen overtook one another.
ShownIsTrue ==
    TapsSettled /\ reqs = {} /\ page.fetch[page.at] = NoItemRequest /\ page.online /\ page.at \notin unheard =>
        LET copy == page.copy[page.at]
        IN IF item.live THEN copy = [ItemRow(item) EXCEPT !.name = IF copy = None THEN @ ELSE copy.name]
           ELSE page.at = "list" => copy = None

(***************************************************************************)
(* What comments say and the model refutes.                                *)
(***************************************************************************)
\* "The item is gone: never refetch it (a 404) while the screen leaves" (hooks.ts): the refetch of a tap or of a setting
\* answered meanwhile does.
GoneNotRead ==
    [][\A r \in reqs : r.kind = "archive" /\ r.stage = "refetching" /\ r.home /\ r \in reqs'
            => ~(page.fetch.item # Asked /\ page'.fetch.item = Asked)]_itemVars

\* "refetching now would briefly undo their patches" (data/action.ts): the answer of a setting does that to the taps
\* that wait, and a - more is offered than there is.
CountMovesAtOnce == page.lane # <<>> /\ ~crossed /\ page.copy.item # None => page.copy.item.qty = meant

\* "The form as a PATCH body of only what changed" (edit.ts): a name nobody typed is sent, over another member's.
OnlyTypedIsSent ==
    [][\A r \in reqs' \ reqs : r.kind = "edit" /\ r.stage = "sent" /\ r.there => page.form.typed]_itemVars

\* "the sheet counts from it plus the taps made here" (BarcodeSheet.tsx): the lookup misses the taps still on their way.
SheetCountIsTrue == page.found # None /\ TapsSettled /\ ~crossed => Counted = item.qty
=============================================================================
