------------------------------ MODULE PlanItem ------------------------------
(***************************************************************************)
(* Recurring items on one phone (plan/items): the list, and the sheet that *)
(* adds an item, edits one, pauses or deletes it.  An edit is a PUT of the *)
(* whole row, made from the form, so what the form does not show has to be *)
(* carried through it.                                                     *)
(*                                                                         *)
(* A row here is its direction, amount, bucket, auto-pay, method, default  *)
(* payer, payer mode, shares and whether it is active; name, category,     *)
(* currency, notes, dates, rule and usage travel like the bucket and are   *)
(* left out.  What an item does to its entries is module Generation, the   *)
(* offline queue is module OfflineQueue: here it is replayed in order.     *)
(***************************************************************************)
EXTENDS WebBase

CONSTANTS
    Stored,             \* rows that the item there is may be at first
    ItemAmounts,        \* amounts that are typed, in cents
    Viewer,             \* the member at the phone
    MaxPresses, MaxFaults   \* bounds: sheets opened and writes pressed; failures, offline spells and what others do

ASSUME PlanItemAssumption ==
    /\ ItemAmounts \subseteq Nat \ {0} /\ MaxPresses \in Nat /\ MaxFaults \in Nat
    /\ None \notin {"card", "transfer"}

VARIABLES
    book,       \* the server's items, by id: the row, whether it has payments, the press that made it, if it was sent at once,
                \* and (history) "rev", which change made the row what it is: the number of a write of this phone, a number
                \* below 0 for another member's change, 0 for the row there was at first
    hand,       \* the phone, a record:
                \*   list    the cached rows by id, with the rev of each, or None      asked   a refetch is under way
                \*   sheet   None, or a sheet: its number, the id of its item or None, the item as it was when it
                \*           opened, the form, whether it waits, shows a problem or offers "Pause instead"
                \*   queue   the offline queue       online, next: the next fresh number
    sends,      \* writes under way, each with the list as it was before its patch
    unseen,     \* history: the list may miss what another member did, or what a lost answer was about
    presses, faults

itemVars == <<book, hand, sends, unseen, presses, faults>>

(***************************************************************************)
(* Rows, forms and bodies (form.ts).                                       *)
(***************************************************************************)
SumShares(shares) == FoldLeft(LAMBDA n, share : n + share, 0, shares)
\* What the server stores (_apply, _replace_splits): shares and amounts are positive and add up, income has no shares and the like.
ASSUME StoredAssumption ==
    \A row \in Stored :
        /\ DOMAIN row = {"direction", "amount", "bucket", "auto", "method", "payer", "active", "mode", "shares"}
        /\ row.direction \in {"in", "out"} /\ row.amount \in (Nat \ {0}) \cup {None} /\ row.auto \in BOOLEAN
        /\ row.shares \in Seq(Nat \ {0}) /\ row.method # None
        /\ row.amount # None => row.shares = <<>> \/ SumShares(row.shares) = row.amount
        /\ row.direction = "in" => row.bucket = None /\ ~row.auto /\ row.mode = "single" /\ row.shares = <<>>
        /\ row.mode = "own_share" => row.payer = None

DefaultMethod(direction) == IF direction = "in" THEN "transfer" ELSE "card"

EmptyForm ==
    [direction |-> "out", amount |-> None, bucket |-> None, auto |-> FALSE, method |-> "card", payer |-> Viewer,
     active |-> TRUE, keep |-> [mode |-> "single", shares |-> <<>>]]
ItemToForm(row) ==
    [direction |-> row.direction, amount |-> row.amount, bucket |-> row.bucket, auto |-> row.auto, method |-> row.method,
     payer |-> row.payer, active |-> row.active, keep |-> [mode |-> row.mode, shares |-> row.shares]]

\* Each share in proportion, rounded half up, and the remainder on the first.
Rounded(part, whole, total) == (2 * part * total + whole) \div (2 * whole)
ScaledAlone(shares, total) ==
    LET whole == SumShares(shares)
    IN IF shares = <<>> \/ whole = 0 \/ whole = total THEN shares
       ELSE [i \in DOMAIN shares |-> Rounded(shares[i], whole, total)]
ScaleSplits(shares, total) ==
    LET whole == SumShares(shares)
        scaled == [i \in DOMAIN shares |-> Rounded(shares[i], whole, total)]
    IN IF shares = <<>> \/ whole = 0 \/ whole = total THEN shares
       ELSE [scaled EXCEPT ![1] = @ + total - SumShares(scaled)]

\* Income has no bucket, auto-pay, method, payer mode or shares.
FormToBodyBare(f) ==
    [direction |-> f.direction, amount |-> f.amount, bucket |-> f.bucket, auto |-> f.auto, method |-> f.method,
     payer |-> f.payer, active |-> f.active, mode |-> "single", shares |-> <<>>]
FormToBody(f) ==
    LET out == f.direction = "out"
    IN [direction |-> f.direction, amount |-> f.amount,
        bucket |-> IF out THEN f.bucket ELSE None, auto |-> out /\ f.auto,
        method |-> IF out THEN f.method ELSE None,
        payer |-> IF f.keep.mode = "own_share" THEN None ELSE f.payer, active |-> f.active,
        mode |-> IF out THEN f.keep.mode ELSE "single",
        shares |-> IF ~out THEN <<>> ELSE IF f.amount = None THEN f.keep.shares ELSE ScaleSplits(f.keep.shares, f.amount)]

\* The row that Items shows while the write waits.
PendingItem(body) == [body EXCEPT !.method = Or(@, DefaultMethod(body.direction))]

(***************************************************************************)
(* The server (api/recurring.py).                                          *)
(***************************************************************************)
\* The bucket, the category and the payer of a body are taken to be there still.
AddsUp(body) == body.shares # <<>> /\ body.amount # None => SumShares(body.shares) = body.amount
Positive(body) == \A i \in DOMAIN body.shares : body.shares[i] > 0
Takes(items, w) ==
    CASE w.kind = "create" -> TRUE
      [] w.kind = "update" -> /\ w.id \in DOMAIN items /\ AddsUp(w.body) /\ Positive(w.body)
                              /\ items[w.id].paid => w.body.direction = items[w.id].row.direction
      [] OTHER -> w.id \in DOMAIN items /\ ~items[w.id].paid

\* A method that is left out is the direction's default on a new item or another direction, else what it was.
Made(body) == [body EXCEPT !.method = Or(@, DefaultMethod(body.direction))]
Applied(row, body) == IF row.direction # body.direction THEN Made(body) ELSE [body EXCEPT !.method = Or(@, row.method)]
NewId(items) == CHOOSE id \in 0..Cardinality(DOMAIN items) : id \notin DOMAIN items
Result(items, w) ==
    CASE w.kind = "create" -> [id \in DOMAIN items \cup {NewId(items)} |->
                                 IF id = NewId(items)
                                 THEN [row |-> Made(w.body), paid |-> FALSE, press |-> IF w.online THEN w.n ELSE None, rev |-> w.n]
                                 ELSE items[id]]
      [] w.kind = "update" -> [items EXCEPT ![w.id].row = Applied(@, w.body), ![w.id].rev = w.n]
      [] OTHER -> [id \in DOMAIN items \ {w.id} |-> items[id]]
ItemServed(items, w) == IF Takes(items, w) THEN Result(items, w) ELSE items
Rows(items) == [id \in DOMAIN items |-> [row |-> items[id].row, paid |-> items[id].paid, rev |-> items[id].rev]]

(***************************************************************************)
(* The list.                                                               *)
(***************************************************************************)
Press == presses < MaxPresses /\ presses' = presses + 1
Fault == faults < MaxFaults /\ faults' = faults + 1
Shifts(next) == hand' = next /\ UNCHANGED <<book, sends, unseen, presses, faults>>

ReadList ==
    /\ hand.online /\ hand.asked
    /\ hand' = [hand EXCEPT !.list = Rows(book), !.asked = FALSE] /\ unseen' = FALSE
    /\ UNCHANGED <<book, sends, presses, faults>>
ReadFails ==
    /\ hand.asked /\ Fault
    /\ hand' = [hand EXCEPT !.asked = FALSE] /\ unseen' = TRUE
    /\ UNCHANGED <<book, sends, presses>>

(***************************************************************************)
(* The sheet (ItemSheet.tsx).                                              *)
(***************************************************************************)
SheetOf(id, item, form) ==
    [n |-> hand.next, id |-> id, item |-> item, form |-> form, busy |-> FALSE, problem |-> FALSE, blocked |-> FALSE]
OpenSheet(sheet) ==
    /\ hand.sheet = None /\ hand.list # None /\ Press
    /\ hand' = [hand EXCEPT !.sheet = sheet, !.next = @ + 1]
    /\ UNCHANGED <<book, sends, unseen, faults>>
NewItem == OpenSheet(SheetOf(None, None, EmptyForm))
\* A row that waits to be created cannot be opened.
EditItem == \E id \in DOMAIN Or(hand.list, <<>>) \cap Nat : OpenSheet(SheetOf(id, hand.list[id], ItemToForm(hand.list[id].row)))
CloseSheet == hand.sheet # None /\ Shifts([hand EXCEPT !.sheet = None])

Shown == hand.sheet # None
Locked(sheet) == sheet.id # None /\ sheet.item.paid
Fill(field, value) ==
    /\ Shown /\ hand.sheet.form[field] # value
    /\ field = "direction" => ~Locked(hand.sheet)
    /\ field \in {"bucket", "auto"} => hand.sheet.form.direction = "out"
    /\ Shifts([hand EXCEPT !.sheet.form[field] = value])

(***************************************************************************)
(* Writes (hooks.ts, data/action.ts perform): beside one another, no lane. *)
(***************************************************************************)
\* The row of a create has an id of its own until the server's comes.
Edited(list, w) ==
    CASE w.kind = "create" -> [id \in DOMAIN list \cup {-w.n} |->
                                 IF id = -w.n THEN [row |-> PendingItem(w.body), paid |-> FALSE, rev |-> w.n] ELSE list[id]]
      [] w.kind = "update" -> [id \in DOMAIN list |->
                                 IF id = w.id THEN [list[id] EXCEPT !.row = PendingItem(w.body), !.rev = w.n] ELSE list[id]]
      [] OTHER -> [id \in DOMAIN list \ {w.id} |-> list[id]]
ItemWrite(kind, body) ==
    [n |-> hand.next, sheet |-> hand.sheet.n, kind |-> kind, id |-> hand.sheet.id, body |-> body, online |-> hand.online,
     opened |-> hand.sheet.item, form |-> hand.sheet.form, stage |-> "sent", snap |-> hand.list]
PerformItem(w) ==
    LET p == [hand EXCEPT !.list = Edited(@, w), !.asked = FALSE, !.next = @ + 1]
    IN /\ Shown /\ ~hand.sheet.busy /\ Press
       /\ IF hand.online
          THEN sends' = sends \cup {w} /\ hand' = [p EXCEPT !.sheet.busy = TRUE, !.sheet.problem = FALSE]
          ELSE UNCHANGED sends /\ hand' = [p EXCEPT !.queue = Append(@, w), !.sheet = None]
       /\ UNCHANGED <<book, unseen, faults>>

Save == Shown /\ PerformItem(ItemWrite(IF hand.sheet.id = None THEN "create" ELSE "update", FormToBody(hand.sheet.form)))
Delete == Shown /\ hand.sheet.id # None /\ ~Locked(hand.sheet) /\ ~hand.sheet.blocked /\ PerformItem(ItemWrite("delete", None))
\* "Pause instead": the item as it was when the sheet opened.
Pause ==
    /\ Shown /\ hand.sheet.blocked
    /\ LET f == [ItemToForm(hand.sheet.item.row) EXCEPT !.active = FALSE]
       IN PerformItem([ItemWrite("update", FormToBody(f)) EXCEPT !.form = f])

Receive(w) ==
    /\ w.stage = "sent"
    /\ book' = ItemServed(book, w)
    /\ sends' = (sends \ {w}) \cup {[w EXCEPT !.stage = IF Takes(book, w) THEN "ok" ELSE "refused"]}
    /\ UNCHANGED <<hand, unseen, presses, faults>>
\* Whichever sheet is open closes.
Saved(w) ==
    /\ w.stage = "ok" /\ hand.online
    /\ sends' = sends \ {w} /\ hand' = [hand EXCEPT !.asked = TRUE, !.sheet = None]
    /\ UNCHANGED <<book, unseen, presses, faults>>

ItemRolledBack(w) == [hand EXCEPT !.list = w.snap, !.asked = TRUE]
Told(p, w) ==
    IF p.sheet = None \/ p.sheet.n # w.sheet THEN p
    ELSE [p EXCEPT !.sheet.busy = FALSE, !.sheet.problem = (w.kind # "delete"), !.sheet.blocked = @ \/ w.kind = "delete"]
Rejected(w) ==
    /\ w.stage = "refused" /\ hand.online
    /\ sends' = sends \ {w} /\ hand' = Told(ItemRolledBack(w), w)
    /\ UNCHANGED <<book, unseen, presses, faults>>

\* A create whose fate is unknown is not queued: the list goes back and is read again.
QueueableAlways(w) == TRUE
Queueable(w) == w.kind # "create"
UnconfirmedKept(w) == Told(hand, w)
Unconfirmed(w) == Told(ItemRolledBack(w), w)
Lost(w) ==
    /\ (~hand.online /\ UNCHANGED faults) \/ (hand.online /\ Fault)
    /\ sends' = sends \ {w}
    /\ hand' = IF Queueable(w) THEN [hand EXCEPT !.queue = Append(@, w), !.sheet = None] ELSE Unconfirmed(w)
    /\ UNCHANGED <<book, unseen, presses>>

\* A replay without an answer stays at the head.
ReplayItem(heard) ==
    /\ hand.online /\ hand.queue # <<>> /\ (IF heard THEN UNCHANGED faults ELSE Fault)
    /\ book' = ItemServed(book, Head(hand.queue))
    /\ hand' = IF heard THEN [hand EXCEPT !.queue = Tail(@), !.asked = TRUE] ELSE hand
    /\ UNCHANGED <<sends, unseen, presses>>

Disconnect == hand.online /\ Fault /\ hand' = [hand EXCEPT !.online = FALSE] /\ UNCHANGED <<book, sends, unseen, presses>>
Reconnect == ~hand.online /\ Shifts([hand EXCEPT !.online = TRUE, !.asked = TRUE])
\* Another member pauses the item, pays one of its entries or deletes it.
Others ==
    /\ Fault /\ unseen' = TRUE
    /\ \E id \in DOMAIN book :
         book' \in {[book EXCEPT ![id].row.active = ~@, ![id].rev = -faults'], [book EXCEPT ![id].paid = TRUE], [x \in DOMAIN book \ {id} |-> book[x]]}
    /\ UNCHANGED <<hand, sends, presses>>

(***************************************************************************)
(* Specification.                                                          *)
(***************************************************************************)
PlanItemInit ==
    /\ \E row \in Stored, paid \in BOOLEAN : book = [id \in {0} |-> [row |-> row, paid |-> paid, press |-> None, rev |-> 0]]
    /\ hand = [list |-> None, asked |-> TRUE, sheet |-> None, queue |-> <<>>, online |-> TRUE, next |-> 1]
    /\ sends = {} /\ unseen = FALSE /\ presses = 0 /\ faults = 0

PlanItemNext ==
    \/ ReadList \/ ReadFails \/ NewItem \/ EditItem \/ CloseSheet \/ Save \/ Delete \/ Pause \/ Disconnect \/ Reconnect \/ Others
    \/ \E d \in {"out", "in"} : Fill("direction", d)
    \/ \E a \in ItemAmounts \cup {None} : Fill("amount", a)
    \/ Fill("bucket", None)
    \/ \E w \in sends : Receive(w) \/ Saved(w) \/ Rejected(w) \/ Lost(w)
    \/ \E heard \in BOOLEAN : ReplayItem(heard)

PlanItemSpec == PlanItemInit /\ [][PlanItemNext]_itemVars

(***************************************************************************)
(* Properties.                                                             *)
(***************************************************************************)
Pending == sends \cup {hand.queue[i] : i \in DOMAIN hand.queue}

\* An edit changes on the server's row no field that the member left as it was when the sheet opened, those the sheet does
\* not show among them, whatever was tried in between; shares follow the amount, and what income cannot have goes with the
\* direction.  This holds for an edit of the row that the server still has: as it was read, or as an edit of this phone that
\* the sheet had shown left it.  The PUT carries the whole row and no version (update_item), so one that arrives after
\* another change of the row writes over it: see EditsSpareOthers.
Untouched(w) ==
    {f \in {"direction", "amount", "bucket", "auto", "method", "payer", "active"} : w.form[f] = ItemToForm(w.opened.row)[f]}
KeepsRest(w) ==
    LET row == book[w.id].row
        next == ItemServed(book, w)[w.id].row
        kept == Untouched(w)
    IN /\ "direction" \in kept => \A f \in kept : next[f] = row[f]
       /\ "direction" \in kept => next.mode = row.mode
       /\ {"direction", "amount"} \subseteq kept => next.shares = row.shares
OnlyWhatWasTyped ==
    \A w \in Pending :
        w.kind = "update" /\ Takes(book, w) /\ book[w.id].rev = w.opened.rev => KeepsRest(w)

\* "Pause instead" and an edit leave what another member changed since the sheet opened (formToBody carries "what the editor
\* doesn't show").
EditsSpareOthers == \A w \in Pending : w.kind = "update" /\ Takes(book, w) => KeepsRest(w)

\* No edit is refused because its shares do not add up to its amount.
SharesAddUp == \A w \in Pending : w.kind = "update" => AddsUp(w.body)

\* Pressing "Add item" with a connection makes one item at most, however the answer is lost.
OnePerPress == \A i, j \in DOMAIN book : book[i].press # None /\ book[i].press = book[j].press => i = j

\* With nothing under way the list is the server's.
ListIsTheServers ==
    sends = {} /\ hand.queue = <<>> /\ ~hand.asked /\ ~unseen /\ hand.list # None => hand.list = Rows(book)
=============================================================================
