-------------------------------- MODULE Pantry --------------------------------
(* The pantry and its shopping list: quantities with their log of movements,  *)
(* the stepper's taps (queued, sent again after a lost answer), ticks and     *)
(* one-off lines, "Add to pantry", the old page's "bought" form, and products *)
(* that are added, revived, edited and archived.                              *)
(*                                                                            *)
(* A change of quantities locks its items one by one (FOR UPDATE), works on   *)
(* what it reads then, and commits all of it or nothing.                      *)
EXTENDS Base, Integers, FiniteSets, Sequences, Subsequence

CONSTANTS
    Item, Code,         \* Code: barcodes
    Tap, TapOf,         \* taps of the stepper, by client_id: [item, delta]
    Tick, TickOf,       \* client ids of ticks, and the item each is for
    Line, Req, Quantity,
    First,              \* what an item may be at first
    MaxRequests, MaxQuantity

ASSUME PantryAssumption ==
    /\ None \notin Code \cup Tap \cup Tick
    /\ Quantity \subseteq Nat /\ MaxRequests \in Nat /\ MaxQuantity \in Nat
    /\ First \subseteq [state : {"none", "live", "archived"}, code : Code \cup {None},
                        qty : Nat, min : Nat]
    /\ \A c \in Tap : TapOf[c].item \in Item /\ TapOf[c].delta \in Int
    /\ TickOf \in [Tick -> Item]

VARIABLES
    items,      \* products with their stock items
    log,        \* per item, the sum of its movements
    taps,       \* per client_id, movements of the last 24 h with it
    clamped,    \* history: taps answered although they changed nothing
    ticks,      \* shopping lines of items, by id
    listed,     \* the active ones, by created_at
    bought,     \* history: how often a tick was added to the stock
    dropped,    \* history: ticks cleared for an archived item
    lines,      \* one-off lines
    preq, begun

pvars == <<items, log, taps, clamped, ticks, listed, bought, dropped, lines, preq, begun>>

Free == [pc |-> "idle"]
Stocked == {i \in Item : items[i].state # "none"}
IsLive(i) == items[i].state = "live"
Larger(a, b) == IF a > b THEN a ELSE b
Put(f, x, y) == [z \in DOMAIN f \cup {x} |-> IF z = x THEN y ELSE f[z]]
Starts(r) == preq[r] = Free /\ begun < MaxRequests /\ begun' = begun + 1
Acts == begun < MaxRequests /\ begun' = begun + 1

Moving == {r \in Req : preq[r].pc = "move"}
HeldNever(i) == FALSE \* mutant
Held(i) == \E r \in Moving : i \in DOMAIN preq[r].work
TickHeld(k) == \E r \in Moving : k \in preq[r].ticks
ActiveOf(i) == {k \in Tick : ticks[k].state = "active" /\ TickOf[k] = i}
WithoutNone(s, K) == s \* mutant
Without(s, K) == Subsequence(s, {n \in DOMAIN s : s[n] \notin K})

\* Back up to twice the minimum, at least one.
RestockQuantity(i) == Larger(1, 2 * items[i].min - items[i].qty)

\* --------------------------------------------------- requests that move stock
Move(todo, c, K, applies) ==
    [pc |-> "move", todo |-> todo, work |-> << >>, tap |-> c, ticks |-> K, applies |-> applies]
Step(i, d, k) == [item |-> i, delta |-> d, tick |-> k]

\* POST /stock/{id}/adjust, with the tap's client_id
BeginAdjust(r, c) ==
    /\ Starts(r) /\ TapOf[c].item \in Stocked
    /\ preq' = [preq EXCEPT ![r] = Move(<<Step(TapOf[c].item, TapOf[c].delta, None)>>, c, {}, FALSE)]
    /\ UNCHANGED <<items, log, taps, clamped, ticks, listed, bought, dropped, lines>>

\* POST /stock/shopping/bought: the items in the order of the form
BeginBought(r, i, j) ==
    /\ Starts(r) /\ {i, j} \subseteq Stocked /\ i # j
    /\ preq' = [preq EXCEPT ![r] = Move(<<Step(i, 1, None), Step(j, 1, None)>>, None, {}, FALSE)]
    /\ UNCHANGED <<items, log, taps, clamped, ticks, listed, bought, dropped, lines>>

BeginApplyFirst(r) == \* mutant: only the first tick is added, all are cleared
    LET K == {k \in Tick : ticks[k].state = "active"}
    IN  /\ Starts(r) /\ \A k \in K : ~TickHeld(k)
        /\ preq' = [preq EXCEPT ![r] =
                      Move([n \in 1..(IF K = {} THEN 0 ELSE 1) |->
                              Step(TickOf[listed[n]], ticks[listed[n]].qty, listed[n])],
                           None, K, TRUE)]
        /\ UNCHANGED <<items, log, taps, clamped, ticks, listed, bought, dropped, lines>>

\* POST /shopping/apply-ticked locks the active ticks first.
BeginApply(r) ==
    LET K == {k \in Tick : ticks[k].state = "active"}
    IN  /\ Starts(r) /\ \A k \in K : ~TickHeld(k)
        /\ preq' = [preq EXCEPT ![r] =
                      Move([n \in 1..Len(listed) |->
                              Step(TickOf[listed[n]], ticks[listed[n]].qty, listed[n])],
                           None, K, TRUE)]
        /\ UNCHANGED <<items, log, taps, clamped, ticks, listed, bought, dropped, lines>>

ReplayedNever(c) == FALSE \* mutant
Replayed(c) == c # None /\ taps[c] > 0

\* The next item is locked and read.  A tap already applied changes nothing;
\* a tick of an archived item is cleared without a movement.
LockNext(r) ==
    LET q == preq[r]
        x == Head(q.todo)
        after == Larger(0, items[x.item].qty + x.delta)
        skips == Replayed(q.tap) \/ (x.tick # None /\ ~IsLive(x.item))
    IN  /\ q.pc = "move" /\ q.todo # << >> /\ ~Held(x.item) /\ after <= MaxQuantity
        /\ preq' = [preq EXCEPT
              ![r].todo = Tail(q.todo),
              ![r].work = Put(q.work, x.item,
                              [before |-> items[x.item].qty, tick |-> x.tick, skips |-> skips,
                               after |-> IF skips THEN items[x.item].qty ELSE after])]
        /\ UNCHANGED <<items, log, taps, clamped, ticks, listed, bought, dropped, lines, begun>>

\* One commit: the quantities, a movement for each that changed, the ticks and
\* the checked one-off lines of an apply.
CommitMove(r) ==
    LET q == preq[r]
        w == q.work
        moved == {i \in DOMAIN w : w[i].after # w[i].before}
        added == {w[i].tick : i \in {j \in DOMAIN w : ~w[j].skips}}
    IN  /\ q.pc = "move" /\ q.todo = << >>
        /\ items' = [i \in Item |-> IF i \in DOMAIN w THEN [items[i] EXCEPT !.qty = w[i].after]
                                                      ELSE items[i]]
        /\ log' = [i \in Item |-> IF i \in moved THEN log[i] + w[i].after - w[i].before ELSE log[i]]
        /\ taps' = [c \in Tap |-> IF c = q.tap /\ moved # {} THEN taps[c] + 1 ELSE taps[c]]
        /\ clamped' = IF moved = {} /\ q.tap # None /\ ~Replayed(q.tap) THEN clamped \cup {q.tap}
                      ELSE clamped
        /\ ticks' = [k \in Tick |-> IF k \in q.ticks THEN [ticks[k] EXCEPT !.state = "cleared"]
                                                     ELSE ticks[k]]
        /\ listed' = Without(listed, q.ticks)
        /\ bought' = [k \in Tick |-> IF k \in added THEN bought[k] + 1 ELSE bought[k]]
        /\ dropped' = dropped \cup {w[i].tick : i \in {j \in DOMAIN w : w[j].skips}}
        /\ lines' = [l \in Line |-> IF q.applies /\ lines[l] = "checked" THEN "cleared"
                                    ELSE lines[l]]
        /\ preq' = [preq EXCEPT ![r] = Free]
        /\ UNCHANGED begun

\* The process dies, or the database ends a request that waits in a circle.
Fail(r) ==
    /\ preq[r] # Free /\ preq' = [preq EXCEPT ![r] = Free]
    /\ UNCHANGED <<items, log, taps, clamped, ticks, listed, bought, dropped, lines, begun>>

\* A day later the client_ids of the day before are no longer looked for.
Age ==
    /\ \E c \in Tap : taps[c] > 0
    /\ taps' = [c \in Tap |-> 0]
    /\ UNCHANGED <<items, log, clamped, ticks, listed, bought, dropped, lines, preq, begun>>

\* ----------------------------------------------------------------- the list
\* POST /shopping/ticks: nothing to do for an id that was used, even once
\* cleared, an archived item or one that is ticked already.
BeginTick(r, k, given) ==
    LET i == TickOf[k]
    IN  /\ Starts(r) /\ ticks[k].state = "none" /\ IsLive(i) /\ ActiveOf(i) = {}
        /\ preq' = [preq EXCEPT ![r] =
                      [pc |-> "tick", tick |-> k,
                       qty |-> IF given = None THEN RestockQuantity(i) ELSE given]]
        /\ UNCHANGED <<items, log, taps, clamped, ticks, listed, bought, dropped, lines>>

\* The insert waits for whoever holds the item or the tick in its way; a tick
\* that got in first stays the tick.
CommitTickAgain(r) == \* mutant: an id whose tick was cleared ticks again
    /\ preq[r].pc = "tick" /\ ActiveOf(TickOf[preq[r].tick]) = {}
    /\ ticks' = [ticks EXCEPT ![preq[r].tick] = [state |-> "active", qty |-> preq[r].qty]]
    /\ listed' = Append(listed, preq[r].tick)
    /\ preq' = [preq EXCEPT ![r] = Free]
    /\ UNCHANGED <<items, log, taps, clamped, bought, dropped, lines, begun>>

CommitTick(r) ==
    LET k == preq[r].tick
        i == TickOf[k]
        won == ticks[k].state = "none" /\ ActiveOf(i) = {}
    IN  /\ preq[r].pc = "tick" /\ ~Held(i) /\ \A o \in ActiveOf(i) : ~TickHeld(o)
        /\ ticks' = IF won THEN [ticks EXCEPT ![k] = [state |-> "active", qty |-> preq[r].qty]]
                    ELSE ticks
        /\ listed' = IF won THEN Append(listed, k) ELSE listed
        /\ preq' = [preq EXCEPT ![r] = Free]
        /\ UNCHANGED <<items, log, taps, clamped, bought, dropped, lines, begun>>

\* DELETE /shopping/ticks/{id}, or by its item: the row is gone
Untick(k) ==
    /\ Acts /\ ticks[k].state = "active" /\ ~TickHeld(k)
    /\ ticks' = [ticks EXCEPT ![k].state = "none"]
    /\ listed' = Without(listed, {k})
    /\ UNCHANGED <<items, log, taps, clamped, bought, dropped, lines, preq>>

\* POST, PATCH and DELETE /shopping/lines
LineSteps == {<<"none", "open">>, <<"open", "checked">>, <<"checked", "open">>,
              <<"open", "none">>, <<"checked", "none">>}
ChangeLine(l) ==
    /\ Acts
    /\ \E s \in LineSteps : lines[l] = s[1] /\ lines' = [lines EXCEPT ![l] = s[2]]
    /\ UNCHANGED <<items, log, taps, clamped, ticks, listed, bought, dropped, preq>>

\* ------------------------------------------------------------------ products
HasCode(i, code) == items[i].state # "none" /\ items[i].code = code
CodeFree(code, i) == code = None \/ \A j \in Item \ {i} : ~HasCode(j, code)

\* POST /stock: a known barcode revives its product as it was ...
Revive(i) ==
    /\ Acts /\ items[i].state = "archived" /\ items[i].code # None
    /\ items' = [items EXCEPT ![i].state = "live"]
    /\ UNCHANGED <<log, taps, clamped, ticks, listed, bought, dropped, lines, preq>>

\* ... anything else makes one, its quantity logged.
Create(i, code, n, m) ==
    /\ Acts /\ items[i].state = "none" /\ CodeFree(code, i)
    /\ items' = [items EXCEPT ![i] = [state |-> "live", code |-> code, qty |-> n, min |-> m]]
    /\ log' = [log EXCEPT ![i] = n]
    /\ UNCHANGED <<taps, clamped, ticks, listed, bought, dropped, lines, preq>>

\* PATCH /stock/{id}: barcode and minimum; the flush waits for the item's lock.
EditProduct(i, code, m) ==
    /\ Acts /\ IsLive(i) /\ ~Held(i) /\ CodeFree(code, i)
    /\ items' = [items EXCEPT ![i].code = code, ![i].min = m]
    /\ UNCHANGED <<log, taps, clamped, ticks, listed, bought, dropped, lines, preq>>

\* POST /stock/{id}/archive, its active tick cleared
ArchiveProduct(i) ==
    /\ Acts /\ IsLive(i) /\ \A k \in ActiveOf(i) : ~TickHeld(k)
    /\ items' = [items EXCEPT ![i].state = "archived"]
    /\ ticks' = [k \in Tick |-> IF k \in ActiveOf(i) THEN [ticks[k] EXCEPT !.state = "cleared"]
                                                     ELSE ticks[k]]
    /\ listed' = Without(listed, ActiveOf(i))
    /\ dropped' = dropped \cup ActiveOf(i)
    /\ UNCHANGED <<log, taps, clamped, bought, lines, preq>>

\* ------------------------------------------------------------- specification
PantryInit ==
    /\ items \in [Item -> First] /\ \A i \in Item : CodeFree(items[i].code, i)
    /\ log = [i \in Item |-> items[i].qty]
    /\ taps = [c \in Tap |-> 0] /\ clamped = {}
    /\ ticks = [k \in Tick |-> [state |-> "none", qty |-> 0]]
    /\ listed = << >> /\ bought = [k \in Tick |-> 0] /\ dropped = {}
    /\ lines = [l \in Line |-> "none"]
    /\ preq = [r \in Req |-> Free] /\ begun = 0

PantryNext ==
    \/ \E r \in Req :
          \/ \E c \in Tap : BeginAdjust(r, c)
          \/ \E i, j \in Item : BeginBought(r, i, j)
          \/ BeginApply(r)
          \/ LockNext(r)
          \/ CommitMove(r)
          \/ Fail(r)
          \/ \E k \in Tick, given \in (Quantity \ {0}) \cup {None} : BeginTick(r, k, given)
          \/ CommitTick(r)
    \/ Age
    \/ \E k \in Tick : Untick(k)
    \/ \E l \in Line : ChangeLine(l)
    \/ \E i \in Item :
          \/ Revive(i)
          \/ \E code \in Code \cup {None}, n, m \in Quantity : Create(i, code, n, m)
          \/ \E code \in Code \cup {None}, m \in Quantity : EditProduct(i, code, m)
          \/ ArchiveProduct(i)

PantrySpec == PantryInit /\ [][PantryNext]_pvars

\* ---------------------------------------------------------------- properties
\* Quantities are never negative, barcodes and the active tick of an item unique.
PantryTypeOK ==
    /\ \A i \in Item : items[i].qty \in 0..MaxQuantity /\ CodeFree(items[i].code, i)
    /\ \A i \in Item : Cardinality(ActiveOf(i)) <= 1
    /\ {listed[n] : n \in 1..Len(listed)} = {k \in Tick : ticks[k].state = "active"}

\* The log explains the quantity: whatever taps, purchases and applied lists
\* run at the same time, are repeated or die, no change is lost and none is
\* logged that did not happen (adjust_stock: "the logged delta is what
\* actually changed").
QuantityIsLog == \A i \in Item : items[i].qty = log[i]

\* A tap is applied at most once in the 24 hours its client_id is looked for,
\* however often it is sent (find_adjust_replay, after the lock).
TapOnce == \A c \in Tap : taps[c] <= 1

\* A tick is added to the stock at most once, and not again after a late replay
\* of its id (tick_item: "a late replay never ticks again").
TickBoughtOnce ==
    \A k \in Tick : bought[k] <= 1 /\ (ticks[k].state = "active" => bought[k] = 0)

\* No tick is cleared without being added to the stock, unless its item was archived.
NoTickLost == \A k \in Tick : ticks[k].state = "cleared" => bought[k] = 1 \/ k \in dropped

\* "A clamped no-op logs no movement, so its replay runs again, and clamps
\* again" (find_adjust_replay): a tap answered without effect stays without.
ReplayClampsAgain ==
    [][\A c \in Tap : c \in clamped => taps'[c] = 0]_pvars
===============================================================================
