---------------------------- MODULE ShoppingList ----------------------------
(***************************************************************************)
(* The shopping list on one phone (plan/pantry/ShoppingList.tsx and        *)
(* shoppingHooks.ts): ticks of pantry items and one-off lines, shown       *)
(* before the server answers, sent one after another per row               *)
(* (data/lanes.ts) or queued; "Add to pantry" on the bar of the list and   *)
(* on the sheet that offers it after an expense (tickedOffer.ts,           *)
(* TickedPrompt.tsx), which waits for all of these and is never queued.    *)
(*                                                                         *)
(* The server's side is module Pantry: here a request is one step, nobody  *)
(* else changes the list, and an item stays low, so that it stays listed.  *)
(* The queue is module OfflineQueue: here it is replayed in order.         *)
(***************************************************************************)
EXTENDS WebBase

CONSTANTS
    Items,                  \* pantry items on the list
    Lines,                  \* client-made ids of one-off lines
    LateArrivals,           \* may a request that was given up still be carried out later?
    MaxTaps, MaxLost        \* bounds: taps and saved expenses; lost or refused requests and offline spells

ASSUME ShoppingListAssumption ==
    /\ IsFiniteSet(Items) /\ IsFiniteSet(Lines) /\ Items \cap Lines = {} /\ LateArrivals \in BOOLEAN
    /\ None \notin Nat \cup {"new", "open", "checked", "bought"}
    /\ MaxTaps \in Nat /\ MaxLost \in Nat

Row == Items \cup Lines
Button == {"bar", "prompt"}

VARIABLES
    shop,       \* the server: the tick of each item, by its client-made id, the ticks bought, and the lines
    phone,      \* a record:
                \*   list    the cached list: the ticked items, the lines, how many are ticked
                \*   drawn   the lines as the screen last drew them
                \*   fetch   a refetch under way: idle, asked or read
                \*   lane    per row, the writes not settled yet, the first of them sent or about to be
                \*   queue   the offline queue          marks    rows marked "Waiting to sync"
                \*   offer   the sheet after an expense: none, asked or shown
                \*   online
    adding,     \* per button: "Add to pantry" under way: idle, settling, counting, posted, bought or refreshing
    late,       \* requests given up that may still arrive
    wish,       \* history: per row, the last tap (a tick's id, "open", "checked", or None; a line is "new" before)
    aim,        \* history, per button: the rows not tapped since it was pressed
    crossedRows,    \* history: rows tapped offline with an earlier tap still on its way, or tapped during a purchase
    listUnheard,    \* history: an "Add to pantry" was carried out and its answer lost
    rowTaps, listLost

shopVars == <<shop, phone, adding, late, wish, aim, crossedRows, listUnheard, rowTaps, listLost>>

(***************************************************************************)
(* The server.                                                             *)
(***************************************************************************)
OnList(l) == shop.lines[l] \in {"open", "checked"}
Carried(s, w) ==
    CASE w.kind = "tick" -> IF s.tick[w.row] = None /\ w.id \notin s.bought THEN [s EXCEPT !.tick[w.row] = w.id] ELSE s
      [] w.kind = "untick" -> [s EXCEPT !.tick[w.row] = None]
      [] w.kind = "add" -> IF s.lines[w.row] = None THEN [s EXCEPT !.lines[w.row] = "open"] ELSE s
      [] w.kind = "check" -> IF s.lines[w.row] \in {"open", "checked"} THEN [s EXCEPT !.lines[w.row] = w.to] ELSE s
      [] w.kind = "delete" -> IF s.lines[w.row] \in {"open", "checked"} THEN [s EXCEPT !.lines[w.row] = None] ELSE s

\* PATCH and DELETE of a line that is gone are refused; everything else is done, a second time too.
Missing(w) == w.kind \in {"check", "delete"} /\ ~OnList(w.row)

Count(ticked, lines) == Cardinality(ticked) + Cardinality({l \in Lines : lines[l] = "checked"})
Listing(s) ==
    LET ticked == {i \in Items : s.tick[i] # None}
        lines == [l \in Lines |-> IF s.lines[l] = "bought" THEN None ELSE s.lines[l]]
    IN [ticked |-> ticked, lines |-> lines, count |-> Count(ticked, lines)]

(***************************************************************************)
(* A write of a row (useShoppingActions, data/action.ts perform).          *)
(***************************************************************************)
Idle == [at |-> "idle", list |-> None]
Refetched(p) == [p EXCEPT !.fetch = [at |-> "asked", list |-> None]]
Less(n) == IF n = 0 THEN 0 ELSE n - 1

\* The optimistic patch.  A line's patch counts from the line as it was drawn.
Patched(list, w) ==
    CASE w.kind = "tick" /\ w.row \notin list.ticked ->
            [list EXCEPT !.ticked = @ \cup {w.row}, !.count = @ + 1]
      [] w.kind = "untick" /\ w.row \in list.ticked ->
            [list EXCEPT !.ticked = @ \ {w.row}, !.count = Less(@)]
      [] w.kind = "add" -> [list EXCEPT !.lines[w.row] = "open"]
      [] w.kind = "check" ->
            [list EXCEPT !.lines[w.row] = IF @ = None THEN None ELSE w.to,
                         !.count = IF w.was = w.to THEN @ ELSE IF w.to = "checked" THEN @ + 1 ELSE Less(@)]
      [] w.kind = "delete" ->
            [list EXCEPT !.lines[w.row] = None, !.count = IF w.was = "checked" THEN Less(@) ELSE @]
      [] OTHER -> list

Queued(p, w) == [p EXCEPT !.queue = Append(@, [w EXCEPT !.stage = "queued", !.snap = None]), !.marks = @ \cup {w.row}]

\* Online it takes its place in the lane of its row; offline it goes to the queue at once.
Perform(p, w) ==
    LET q == [p EXCEPT !.fetch = Idle, !.list = Patched(@, w)]
    IN IF q.online THEN [q EXCEPT !.lane[w.row] = Append(@, [w EXCEPT !.snap = p.list])] ELSE Queued(q, w)

Write(r, kind, id, was, to) ==
    [row |-> r, kind |-> kind, id |-> id, was |-> was, to |-> to, snap |-> None, stage |-> "waiting"]

TapRow(w, wanted) ==
    /\ rowTaps < MaxTaps /\ rowTaps' = rowTaps + 1
    /\ phone' = Perform(phone, w)
    /\ wish' = [wish EXCEPT ![w.row] = wanted]
    /\ aim' = [b \in Button |-> aim[b] \ {w.row}]
    /\ crossedRows' = IF ~phone.online /\ phone.lane[w.row] # <<>> THEN crossedRows \cup {w.row} ELSE crossedRows
    /\ UNCHANGED <<shop, adding, late, listUnheard, listLost>>

\* A tap on an item reads the cached row, not the drawn one.
Toggle(i) ==
    IF i \in phone.list.ticked
    THEN TapRow(Write(i, "untick", None, None, None), None)
    ELSE TapRow(Write(i, "tick", rowTaps + 1, None, None), rowTaps + 1)

AddLine(l) == wish[l] = "new" /\ TapRow(Write(l, "add", None, None, None), "open")

CheckLine(l) ==
    /\ phone.drawn[l] # None
    /\ LET to == IF phone.drawn[l] = "checked" THEN "open" ELSE "checked"
       IN TapRow(Write(l, "check", None, phone.drawn[l], to), IF wish[l] = None THEN None ELSE to)

DeleteLine(l) == phone.drawn[l] # None /\ TapRow(Write(l, "delete", None, phone.drawn[l], None), None)

Moved(next) == phone' = next /\ UNCHANGED <<shop, adding, late, wish, aim, crossedRows, listUnheard, rowTaps, listLost>>
Draw == phone.drawn # phone.list.lines /\ Moved([phone EXCEPT !.drawn = phone.list.lines])

Settled(p, r) == [p EXCEPT !.lane[r] = Tail(@)]
AtHead(r, stage) == phone.lane[r] # <<>> /\ Head(phone.lane[r]).stage = stage
WithHead(r, stage) == [phone EXCEPT !.lane[r] = <<[Head(@) EXCEPT !.stage = stage]>> \o Tail(@)]

SendOvertaking(r) == AtHead(r, "waiting") /\ Moved(WithHead(r, "sent"))

\* Its turn in the lane: the connection may have gone, or an earlier write of the row may be in the queue.
Send(r) ==
    /\ AtHead(r, "waiting")
    /\ Moved(IF ~phone.online \/ r \in phone.marks THEN Settled(Queued(phone, Head(phone.lane[r])), r)
             ELSE WithHead(r, "sent"))

Serve(r) ==
    /\ AtHead(r, "sent")
    /\ shop' = Carried(shop, Head(phone.lane[r]))
    /\ phone' = WithHead(r, IF Missing(Head(phone.lane[r])) THEN "missing" ELSE "ok")
    /\ UNCHANGED <<adding, late, wish, aim, crossedRows, listUnheard, rowTaps, listLost>>

AnswerForgotten(r) ==
    /\ phone.online /\ phone.lane[r] # <<>> /\ Head(phone.lane[r]).stage \in {"ok", "missing"}
    /\ LET w == Head(phone.lane[r])
       IN Moved(IF w.stage = "missing" THEN Refetched([Settled(phone, r) EXCEPT !.list = w.snap]) ELSE Settled(phone, r))

\* Done: refetched, unless later writes of the row are still to be sent.  Refused: as it was before, and refetched.
Answer(r) ==
    /\ phone.online /\ phone.lane[r] # <<>> /\ Head(phone.lane[r]).stage \in {"ok", "missing"}
    /\ LET w == Head(phone.lane[r])
           p == Settled(phone, r)
       IN Moved(IF w.stage = "missing" THEN Refetched([p EXCEPT !.list = w.snap])
                ELSE IF Len(phone.lane[r]) = 1 THEN Refetched(p) ELSE p)

\* A lost connection, 15 s without an answer, 408, 429 or 5xx: queued, whether it was carried out or not.
LoseWrite(r) ==
    /\ phone.lane[r] # <<>> /\ Head(phone.lane[r]).stage \in {"sent", "ok", "missing"}
    /\ ~phone.online \/ listLost < MaxLost
    /\ listLost' = IF phone.online THEN listLost + 1 ELSE listLost
    /\ LET w == Head(phone.lane[r])
       IN  /\ phone' = Settled(Queued(phone, w), r)
           /\ late' = IF LateArrivals /\ w.stage = "sent" THEN late \cup {w} ELSE late
    /\ UNCHANGED <<shop, adding, wish, aim, crossedRows, listUnheard, rowTaps>>

ArriveLate(w) ==
    /\ shop' = Carried(shop, w) /\ late' = late \ {w}
    /\ UNCHANGED <<phone, adding, wish, aim, crossedRows, listUnheard, rowTaps, listLost>>

(***************************************************************************)
(* The queue and the refetches.                                            *)
(***************************************************************************)
\* A write that the server refuses leaves the queue too (it stays as a failed row).
Replay ==
    /\ phone.online /\ phone.queue # <<>>
    /\ shop' = Carried(shop, Head(phone.queue))
    /\ phone' = Refetched([phone EXCEPT !.queue = Tail(@)])
    /\ UNCHANGED <<adding, late, wish, aim, crossedRows, listUnheard, rowTaps, listLost>>

\* ... and one whose answer is lost is sent again.
ReplayUnanswered ==
    /\ phone.online /\ phone.queue # <<>> /\ listLost < MaxLost /\ listLost' = listLost + 1
    /\ shop' = Carried(shop, Head(phone.queue))
    /\ UNCHANGED <<phone, adding, late, wish, aim, crossedRows, listUnheard, rowTaps>>

ClearMarks == phone.queue = <<>> /\ phone.marks # {} /\ Moved([phone EXCEPT !.marks = {}])

Refetch == phone.fetch = Idle /\ Moved(Refetched(phone))
ReadList == phone.online /\ phone.fetch.at = "asked" /\ Moved([phone EXCEPT !.fetch = [at |-> "read", list |-> Listing(shop)]])
LandList ==
    /\ phone.fetch.at = "read"
    /\ phone' = [phone EXCEPT !.list = phone.fetch.list, !.fetch = Idle]
    /\ listUnheard' = (listUnheard /\ phone.fetch.list # Listing(shop))
    /\ UNCHANGED <<shop, adding, late, wish, aim, crossedRows, rowTaps, listLost>>

GoOffline ==
    /\ phone.online /\ listLost < MaxLost /\ listLost' = listLost + 1
    /\ phone' = [phone EXCEPT !.online = FALSE]
    /\ UNCHANGED <<shop, adding, late, wish, aim, crossedRows, listUnheard, rowTaps>>
GoOnline == ~phone.online /\ Moved([phone EXCEPT !.online = TRUE])

(***************************************************************************)
(* "Add to pantry".                                                        *)
(***************************************************************************)
At(b, stage) == adding[b] = stage
To(b, stage) == adding' = [adding EXCEPT ![b] = stage]
OnlyStage == UNCHANGED <<shop, phone, late, wish, aim, crossedRows, listUnheard, rowTaps, listLost>>

Press(b) ==
    /\ At(b, "idle") /\ phone.online /\ phone.queue = <<>> /\ rowTaps < MaxTaps /\ rowTaps' = rowTaps + 1
    /\ IF b = "bar" THEN phone.list.count > 0 /\ phone.offer # "shown" ELSE phone.offer = "shown"
    /\ To(b, "settling")
    /\ aim' = [aim EXCEPT ![b] = Row]
    /\ UNCHANGED <<shop, phone, late, wish, crossedRows, listUnheard, listLost>>

LanesEmpty == \A r \in Row : phone.lane[r] = <<>>
LanesSettled(b) == At(b, "settling") /\ LanesEmpty /\ To(b, "counting") /\ OnlyStage

PostAnyway(b) == At(b, "counting") /\ To(b, IF phone.online THEN "posted" ELSE "idle") /\ OnlyStage

\* A write may have ended in the queue meanwhile: then nothing is added.
Post(b) ==
    /\ At(b, "counting") /\ To(b, IF phone.queue = <<>> /\ phone.online THEN "posted" ELSE "idle")
    /\ OnlyStage

Ticks(s) == {s.tick[i] : i \in Items} \ {None}
\* Items tapped since, the tap not settled: it may come before the purchase or after it.
UnderWay == {i \in Items : phone.lane[i] # <<>> \/ \E n \in DOMAIN phone.queue : phone.queue[n].row = i}

Buy(b) ==
    /\ At(b, "posted") /\ To(b, "bought")
    /\ shop' = [tick |-> [i \in Items |-> None], bought |-> shop.bought \cup Ticks(shop),
                lines |-> [l \in Lines |-> IF shop.lines[l] = "checked" THEN "bought" ELSE shop.lines[l]]]
    /\ wish' = [r \in Row |-> IF r \in Items \/ shop.lines[r] = "checked" THEN None ELSE wish[r]]
    /\ crossedRows' = crossedRows \cup UnderWay
    /\ UNCHANGED <<phone, late, aim, listUnheard, rowTaps, listLost>>

\* Everything of the pantry is refetched, then the sheet goes.
Bought(b) ==
    /\ At(b, "bought") /\ phone.online /\ To(b, "refreshing")
    /\ phone' = Refetched(phone)
    /\ UNCHANGED <<shop, late, wish, aim, crossedRows, listUnheard, rowTaps, listLost>>
Refreshed(b) ==
    /\ At(b, "refreshing") /\ phone.fetch = Idle /\ To(b, "idle")
    /\ phone' = IF b = "prompt" THEN [phone EXCEPT !.offer = "none"] ELSE phone
    /\ UNCHANGED <<shop, late, wish, aim, crossedRows, listUnheard, rowTaps, listLost>>

\* No answer, or 5xx: "This change needs a connection", and nothing else.
LoseBuy(b) ==
    /\ adding[b] \in {"posted", "bought"} /\ (~phone.online \/ listLost < MaxLost) /\ To(b, "idle")
    /\ listLost' = IF phone.online THEN listLost + 1 ELSE listLost
    /\ listUnheard' = (listUnheard \/ At(b, "bought"))
    /\ UNCHANGED <<shop, phone, late, wish, aim, crossedRows, rowTaps>>

\* A new expense was saved: offered if something is ticked and nothing waits in the queue.
OfferTicked ==
    /\ phone.offer = "none" /\ phone.online /\ phone.queue = <<>> /\ rowTaps < MaxTaps /\ rowTaps' = rowTaps + 1
    /\ phone' = [phone EXCEPT !.offer = "asked"]
    /\ UNCHANGED <<shop, adding, late, wish, aim, crossedRows, listUnheard, listLost>>
Offered ==
    /\ phone.offer = "asked"
    /\ Moved([phone EXCEPT !.offer = IF phone.online /\ Listing(shop).count > 0 THEN "shown" ELSE "none"])
NotNow == phone.offer = "shown" /\ Moved([phone EXCEPT !.offer = "none"])

(***************************************************************************)
(* Specification.                                                          *)
(***************************************************************************)
ShoppingInit ==
    /\ shop \in [tick : [Items -> {None, 0}], bought : {{}}, lines : [Lines -> {None, "open"}]]
    /\ phone = [list |-> Listing(shop), drawn |-> shop.lines, fetch |-> Idle, lane |-> [r \in Row |-> <<>>],
                queue |-> <<>>, marks |-> {}, offer |-> "none", online |-> TRUE]
    /\ adding = [b \in Button |-> "idle"]
    /\ late = {} /\ wish = [r \in Row |-> IF r \in Items THEN shop.tick[r] ELSE Or(shop.lines[r], "new")]
    /\ aim = [b \in Button |-> {}]
    /\ crossedRows = {} /\ listUnheard = FALSE /\ rowTaps = 0 /\ listLost = 0

ShoppingNext ==
    \/ \E i \in Items : Toggle(i)
    \/ \E l \in Lines : AddLine(l) \/ CheckLine(l) \/ DeleteLine(l)
    \/ \E r \in Row : Send(r) \/ Serve(r) \/ Answer(r) \/ LoseWrite(r)
    \/ \E w \in late : ArriveLate(w)
    \/ Draw \/ Replay \/ ReplayUnanswered \/ ClearMarks \/ Refetch \/ ReadList \/ LandList \/ GoOffline \/ GoOnline
    \/ \E b \in Button : Press(b) \/ LanesSettled(b) \/ Post(b) \/ Buy(b) \/ Bought(b) \/ Refreshed(b) \/ LoseBuy(b)
    \/ OfferTicked \/ Offered \/ NotNow

ShoppingSpec == ShoppingInit /\ [][ShoppingNext]_shopVars

(***************************************************************************)
(* Properties.                                                             *)
(***************************************************************************)
Wished(r, w) == IF r \in Items THEN (shop.tick[r] # None) = (w # None)
                ELSE (shop.lines[r] = "checked") = (w = "checked")

\* "Add to pantry" buys what was ticked when it was pressed: no tick still on its way is missed, and none that was
\* taken back is bought, whether its untick is in a lane, timed out, or sits in the queue (useApplyTicked).
BuysWhatWasTicked ==
    [][\A b \in Button : At(b, "posted") /\ adding'[b] = "bought" =>
            \A r \in aim[b] \ crossedRows : Wished(r, wish[r])]_shopVars

AtRest == LanesEmpty /\ phone.queue = <<>> /\ late = {} /\ \A b \in Button : adding[b] \notin {"posted", "bought"}

\* Once everything has reached the server, the last tap of each row is what it has: taps on one row neither overlap nor
\* overtake one another, through lanes, lost answers, the queue and its repeats (data/lanes.ts, "pendingId").
LastTapStands == AtRest => \A r \in Row \ crossedRows : Wished(r, wish[r])

\* ... and the list shows that: ticks, lines and the number on the bar.
ListIsTrue == AtRest /\ phone.fetch = Idle /\ ~listUnheard => phone.list = Listing(shop)

(***************************************************************************)
(* What comments say and the model refutes.                                *)
(***************************************************************************)
\* "PATCH/DELETE queue behind its create and replay in order" (shoppingHooks.ts): a tap made offline goes to the queue
\* ahead of one that is still on its way and fails only afterwards.
LastTapStandsOffline == AtRest => \A r \in Row : Wished(r, wish[r])

\* "a network failure changes nothing" (onlineAction.ts): the ticks were bought and stay on the list.
LostBuyChangesNothing == AtRest /\ phone.fetch = Idle => phone.list = Listing(shop)

\* The number on the bar is that of the rows below it: a second tap on a line before it is drawn again counts twice.
CountIsOfRows == phone.list.count = Count(phone.list.ticked, phone.list.lines)
=============================================================================
