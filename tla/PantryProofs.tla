---------------------------- MODULE PantryProofs ----------------------------
(***************************************************************************)
(* Theorems about Pantry, PantryItem and ShoppingList, for any number of   *)
(* items, taps, ticks, lines and requests at a time: of the server's       *)
(* stock, of one item on a phone, and of the list on a phone.              *)
(***************************************************************************)
EXTENDS Pantry, PantryItem, ShoppingList, DataLemmas

StockItem == [state : {"none", "live", "archived"}, code : Code \cup {None}, qty : Nat, min : Nat]
TickRow == [state : {"none", "active", "cleared"}, qty : Nat]
StepRow == [item : Item, delta : Int, tick : Tick \cup {None}]
WorkRow == [before : Nat, tick : Tick \cup {None}, skips : BOOLEAN, after : Nat]
Works == UNION {[S -> WorkRow] : S \in SUBSET Item}
TickReq == [pc : {"tick"}, tick : Tick, qty : Nat]
MoveReq == [pc : {"move"}, todo : Seq(StepRow), work : Works, tap : Tap \cup {None},
            ticks : SUBSET Tick, applies : BOOLEAN]

Types ==
    /\ items \in [Item -> StockItem] /\ log \in [Item -> Int]
    /\ taps \in [Tap -> Nat] /\ ticks \in [Tick -> TickRow] /\ bought \in [Tick -> Nat]
    /\ listed \in Seq(Tick)
    /\ preq \in [Req -> {Free} \cup TickReq \cup MoveReq]

\* The list holds the active ticks.
ActiveListed ==
    /\ \A n \in 1..Len(listed) : ticks[listed[n]].state = "active"
    /\ \A k \in Tick : ticks[k].state = "active" => \E n \in 1..Len(listed) : listed[n] = k

\* What was added to the stock is cleared, what is ticked is in stock.
Ticking ==
    /\ \A k \in Tick : ticks[k].state # "cleared" => bought[k] = 0
    /\ \A k \in Tick : ticks[k].state = "active" => TickOf[k] \in Stocked
    /\ \A r \in Req : preq[r].pc = "tick" => TickOf[preq[r].tick] \in Stocked

\* What a request has still to lock is in stock.
TodoOK(q) ==
    \A n \in 1..Len(q.todo) :
        /\ q.todo[n].item \in Stocked
        /\ q.tap # None => q.todo[n].item = TapOf[q.tap].item
        /\ q.todo[n].tick # None => q.todo[n].tick \in q.ticks

\* What it read under the lock still holds.
WorkOK(q) ==
    \A i \in DOMAIN q.work :
        /\ i \in Stocked /\ q.work[i].before = items[i].qty
        /\ q.work[i].skips => q.work[i].after = q.work[i].before
        /\ q.tap # None => /\ i = TapOf[q.tap].item
                           /\ ~q.work[i].skips => taps[q.tap] = 0
        /\ q.work[i].tick # None => q.work[i].tick \in q.ticks

\* The ticks it will clear are active, and each is among its work.
CoverOK(q) ==
    \A k \in q.ticks :
        /\ ticks[k].state = "active"
        /\ \/ \E n \in 1..Len(q.todo) : q.todo[n].tick = k
           \/ \E i \in DOMAIN q.work : q.work[i].tick = k

Moves == \A r \in Req : preq[r].pc = "move" => TodoOK(preq[r]) /\ WorkOK(preq[r]) /\ CoverOK(preq[r])

\* No two requests hold an item or a tick.
Apart ==
    \A r, s \in Req :
        r # s /\ preq[r].pc = "move" /\ preq[s].pc = "move" =>
            /\ DOMAIN preq[r].work \cap DOMAIN preq[s].work = {}
            /\ preq[r].ticks \cap preq[s].ticks = {}

StockInv ==
    /\ Types /\ ActiveListed /\ Ticking /\ Moves /\ Apart
    /\ TapOnce /\ QuantityIsLog /\ NoTickLost

-----------------------------------------------------------------------------
(* What the pieces of the state are.                                         *)

\* What a request works on is an item, with what it read and will write.
LEMMA WorksOpen ==
  ASSUME NEW w \in Works
  PROVE  DOMAIN w \subseteq Item /\ \A i \in DOMAIN w : w[i] \in WorkRow
BY DEF Works

\* Locking one more item leaves it so.
LEMMA PutWorks ==
  ASSUME NEW w \in Works, NEW i \in Item, NEW x \in WorkRow
  PROVE  /\ Put(w, i, x) \in Works
         /\ DOMAIN Put(w, i, x) = DOMAIN w \cup {i}
         /\ Put(w, i, x)[i] = x
         /\ \A j \in DOMAIN w \ {i} : Put(w, i, x)[j] = w[j]
<1>1. DOMAIN w \cup {i} \in SUBSET Item
  BY WorksOpen
<1>2. Put(w, i, x) \in [DOMAIN w \cup {i} -> WorkRow]
  BY WorksOpen DEF Put
<1>3. Put(w, i, x) \in Works
  BY <1>1, <1>2 DEF Works
<1> QED BY <1>3 DEF Put

\* Each kind of request is told by its pc.
LEMMA RequestKinds ==
  ASSUME Types, NEW r \in Req
  PROVE  /\ preq[r].pc = "move" => preq[r] \in MoveReq
         /\ preq[r].pc = "tick" => preq[r] \in TickReq
<1>1. preq[r] \in {Free} \cup TickReq \cup MoveReq
  BY DEF Types
<1>2. Free.pc = "idle"
  BY DEF Free
<1>3. \A q \in TickReq : q.pc = "tick"
  BY DEF TickReq
<1>4. \A q \in MoveReq : q.pc = "move"
  BY DEF MoveReq
<1> QED BY <1>1, <1>2, <1>3, <1>4

\* Clearing ticks from the list takes out those and no others.
LEMMA WithoutFacts ==
  ASSUME NEW s \in Seq(Tick), NEW K
  PROVE  /\ Without(s, K) \in Seq(Tick)
         /\ \A n \in 1..Len(Without(s, K)) :
               /\ Without(s, K)[n] \notin K
               /\ \E m \in 1..Len(s) : Without(s, K)[n] = s[m]
         /\ \A m \in 1..Len(s) :
               s[m] \notin K => \E n \in 1..Len(Without(s, K)) : Without(s, K)[n] = s[m]
<1> DEFINE I == {n \in DOMAIN s : s[n] \notin K}
           w == Without(s, K)
<1>1. w \in Seq(Tick) /\ ChosenFrom(w, s, I, Len(s))
  BY SubsequenceFacts DEF Without
<1>2. PICK f \in [1..Len(w) -> I \cap (1..Len(s))] :
         /\ \A m \in I \cap (1..Len(s)) : \E i \in 1..Len(w) : f[i] = m
         /\ \A i \in 1..Len(w) : w[i] = s[f[i]]
  BY <1>1 DEF ChosenFrom
<1>3. \A n \in 1..Len(w) : w[n] \notin K /\ \E m \in 1..Len(s) : w[n] = s[m]
  BY <1>2
<1>4. \A m \in 1..Len(s) : s[m] \notin K => \E n \in 1..Len(w) : w[n] = s[m]
  <2> TAKE m \in 1..Len(s)
  <2> HAVE s[m] \notin K
  <2>1. m \in I \cap (1..Len(s))
    OBVIOUS
  <2>2. PICK n \in 1..Len(w) : f[n] = m
    BY <1>2, <2>1
  <2> QED BY <1>2, <2>2
<1> QED BY <1>1, <1>3, <1>4

\* The list stays the list of the active ticks when some are no longer active.
LEMMA ListingWithout ==
  ASSUME Types, ActiveListed, NEW K \in SUBSET Tick,
         \A k \in Tick : ticks'[k].state = "active" <=> ticks[k].state = "active" /\ k \notin K,
         listed' = Without(listed, K)
  PROVE  listed' \in Seq(Tick) /\ ActiveListed'
<1>1. listed \in Seq(Tick)
  BY DEF Types
<1>2. listed' \in Seq(Tick)
  BY <1>1, WithoutFacts
<1>3. ASSUME NEW n \in 1..Len(listed') PROVE ticks'[listed'[n]].state = "active"
  <2>1. listed'[n] \notin K /\ \E m \in 1..Len(listed) : listed'[n] = listed[m]
    BY <1>1, WithoutFacts
  <2>2. listed'[n] \in Tick
    BY <1>2
  <2> QED BY <2>1, <2>2 DEF ActiveListed
<1>4. ASSUME NEW k \in Tick, ticks'[k].state = "active"
      PROVE  \E n \in 1..Len(listed') : listed'[n] = k
  <2>1. PICK m \in 1..Len(listed) : listed[m] = k
    BY <1>4 DEF ActiveListed
  <2> QED BY <1>1, <1>4, <2>1, WithoutFacts
<1> QED BY <1>2, <1>3, <1>4 DEF ActiveListed

\* At first nothing is ticked and nobody asks for anything.
LEMMA StockInvInit == PantryInit => StockInv
<1> SUFFICES ASSUME PantryInit PROVE StockInv
  OBVIOUS
<1> USE PantryAssumption DEF PantryInit
<1>1. Types
  <2>1. items \in [Item -> StockItem]
    BY DEF StockItem
  <2>2. log \in [Item -> Int]
    BY <2>1 DEF StockItem
  <2> QED BY <2>1, <2>2 DEF Types, TickRow, Free
<1>2. ActiveListed
  BY DEF ActiveListed
<1>3. Ticking
  BY DEF Ticking, Free
<1>4. Moves /\ Apart
  BY DEF Moves, Apart, Free
<1>5. TapOnce /\ QuantityIsLog /\ NoTickLost
  BY DEF TapOnce, QuantityIsLog, NoTickLost
<1> QED BY <1>1, <1>2, <1>3, <1>4, <1>5 DEF StockInv

-----------------------------------------------------------------------------
(* Each step keeps the invariant.                                            *)

\* A request that starts to move stock holds nothing yet.
LEMMA StartMove ==
  ASSUME StockInv, NEW r \in Req, NEW q \in MoveReq, preq[r] = Free,
         preq' = [preq EXCEPT ![r] = q],
         q.work = << >>, TodoOK(q), CoverOK(q),
         \A s \in Req \ {r} : preq[s].pc = "move" => preq[s].ticks \cap q.ticks = {},
         UNCHANGED <<items, log, taps, clamped, ticks, listed, bought, dropped, lines>>
  PROVE  StockInv'
<1> USE DEF StockInv
<1>0. q.pc = "move" /\ DOMAIN q.work = {}
  BY DEF MoveReq
<1>1. Types'
  BY DEF Types
<1>2. ActiveListed'
  BY DEF ActiveListed
<1>3. preq'[r] = q /\ \A s \in Req \ {r} : preq'[s] = preq[s]
  BY DEF Types
<1>4. Ticking'
  BY <1>0, <1>3 DEF Ticking, Stocked
<1>5. Moves'
  <2> SUFFICES ASSUME NEW s \in Req, NEW p, p = preq'[s], p.pc = "move"
               PROVE  TodoOK(p)' /\ WorkOK(p)' /\ CoverOK(p)'
    BY DEF Moves, TodoOK, WorkOK, CoverOK, Stocked
  <2>0. TodoOK(p) /\ WorkOK(p) /\ CoverOK(p)
    <3>1. CASE s = r
      BY <3>1, <1>0, <1>3 DEF WorkOK
    <3>2. CASE s # r
      BY <3>2, <1>3 DEF Moves
    <3> QED BY <3>1, <3>2
  <2> QED BY <2>0 DEF TodoOK, WorkOK, CoverOK, Stocked
<1>6. Apart'
  BY <1>0, <1>3 DEF Apart
<1>7. TapOnce' /\ QuantityIsLog' /\ NoTickLost'
  BY DEF TapOnce, QuantityIsLog, NoTickLost
<1> QED BY <1>1, <1>2, <1>4, <1>5, <1>6, <1>7

\* A tap, a purchase from the old page, an apply.
LEMMA AdjustKeeps ==
  ASSUME StockInv, NEW r \in Req, NEW c \in Tap, BeginAdjust(r, c)
  PROVE  StockInv'
<1> DEFINE s == Step(TapOf[c].item, TapOf[c].delta, None)
           q == Move(<<s>>, c, {}, FALSE)
<1>1. s \in StepRow /\ s.item = TapOf[c].item /\ s.tick = None
  BY PantryAssumption DEF Step, StepRow
<1>2. q \in MoveReq
  <2>1. << >> \in Works
    <3>1. << >> \in [{} -> WorkRow]
      OBVIOUS
    <3> QED BY <3>1 DEF Works
  <2> HIDE DEF s
  <2>2. <<s>> \in Seq(StepRow)
    BY <1>1
  <2> QED BY <2>1, <2>2 DEF Move, MoveReq
<1>3. q.todo = <<s>> /\ q.work = << >> /\ q.ticks = {} /\ q.tap = c
  BY DEF Move
<1>4. TapOf[c].item \in Stocked /\ preq[r] = Free /\ preq' = [preq EXCEPT ![r] = q]
  BY DEF BeginAdjust, Starts
<1> HIDE DEF s, q
<1>5. TodoOK(q) /\ CoverOK(q)
  BY <1>1, <1>3, <1>4 DEF TodoOK, CoverOK
<1> QED BY <1>2, <1>3, <1>4, <1>5, StartMove DEF BeginAdjust

LEMMA BoughtKeeps ==
  ASSUME StockInv, NEW r \in Req, NEW i \in Item, NEW j \in Item, BeginBought(r, i, j)
  PROVE  StockInv'
<1> DEFINE a == Step(i, 1, None)
           b == Step(j, 1, None)
           q == Move(<<a, b>>, None, {}, FALSE)
<1>1. a \in StepRow /\ b \in StepRow /\ a.item = i /\ b.item = j /\ a.tick = None /\ b.tick = None
  BY DEF Step, StepRow
<1>2. q \in MoveReq
  <2>1. << >> \in Works
    <3>1. << >> \in [{} -> WorkRow]
      OBVIOUS
    <3> QED BY <3>1 DEF Works
  <2> HIDE DEF a, b
  <2>2. <<a, b>> \in Seq(StepRow)
    BY <1>1
  <2> QED BY <2>1, <2>2 DEF Move, MoveReq
<1>3. q.todo = <<a, b>> /\ q.work = << >> /\ q.ticks = {} /\ q.tap = None
  BY DEF Move
<1>4. {i, j} \subseteq Stocked /\ preq[r] = Free /\ preq' = [preq EXCEPT ![r] = q]
  BY DEF BeginBought, Starts
<1> HIDE DEF a, b, q
<1>5. TodoOK(q) /\ CoverOK(q)
  <2>1. \A n \in 1..Len(<<a, b>>) : <<a, b>>[n] = a \/ <<a, b>>[n] = b
    OBVIOUS
  <2> QED BY <2>1, <1>1, <1>3, <1>4 DEF TodoOK, CoverOK
<1> QED BY <1>2, <1>3, <1>4, <1>5, StartMove DEF BeginBought

LEMMA ApplyKeeps ==
  ASSUME StockInv, NEW r \in Req, BeginApply(r)
  PROVE  StockInv'
<1> DEFINE K == {k \in Tick : ticks[k].state = "active"}
           todo == [n \in 1..Len(listed) |-> Step(TickOf[listed[n]], ticks[listed[n]].qty, listed[n])]
           q == Move(todo, None, K, TRUE)
<1>1. listed \in Seq(Tick) /\ ticks \in [Tick -> TickRow]
  BY DEF StockInv, Types
<1>2. \A n \in 1..Len(listed) : /\ todo[n] \in StepRow /\ todo[n].tick = listed[n]
                                /\ todo[n].item = TickOf[listed[n]]
  BY <1>1, PantryAssumption DEF Step, StepRow, TickRow
<1>3. todo \in Seq(StepRow) /\ Len(todo) = Len(listed)
  <2>1. Len(listed) \in Nat /\ todo \in [1..Len(listed) -> StepRow]
    BY <1>1, <1>2
  <2> HIDE DEF todo
  <2> QED BY <2>1, FunctionIsSeq
<1> HIDE DEF todo
<1>4. q \in MoveReq
  <2>1. << >> \in Works
    <3>1. << >> \in [{} -> WorkRow]
      OBVIOUS
    <3> QED BY <3>1 DEF Works
  <2> QED BY <2>1, <1>3 DEF Move, MoveReq
<1>5. q.todo = todo /\ q.work = << >> /\ q.ticks = K /\ q.tap = None
  BY DEF Move
<1>6. preq[r] = Free /\ preq' = [preq EXCEPT ![r] = q] /\ \A k \in K : ~TickHeld(k)
  BY DEF BeginApply, Starts, todo
<1> HIDE DEF q
<1>7. TodoOK(q)
  BY <1>1, <1>2, <1>3, <1>5 DEF TodoOK, StockInv, ActiveListed, Ticking
<1>8. CoverOK(q)
  BY <1>1, <1>2, <1>3, <1>5 DEF CoverOK, StockInv, ActiveListed
<1>9. \A s \in Req \ {r} : preq[s].pc = "move" => preq[s].ticks \cap q.ticks = {}
  BY <1>5, <1>6 DEF TickHeld, Moving
<1> QED BY <1>4, <1>5, <1>6, <1>7, <1>8, <1>9, StartMove DEF BeginApply

\* What a request relies on outlives a step that touches none of it.
LEMMA StillOK ==
  ASSUME NEW p, TodoOK(p), WorkOK(p), CoverOK(p),
         Stocked \subseteq Stocked',
         \A i \in DOMAIN p.work : items'[i].qty = items[i].qty,
         \A i \in DOMAIN p.work : p.tap # None /\ ~p.work[i].skips => taps'[p.tap] = 0,
         \A k \in p.ticks : ticks'[k].state = "active"
  PROVE  TodoOK(p)' /\ WorkOK(p)' /\ CoverOK(p)'
<1>1. TodoOK(p)'
  BY DEF TodoOK
<1>2. WorkOK(p)'
  BY DEF WorkOK
<1>3. CoverOK(p)'
  BY DEF CoverOK
<1> QED BY <1>1, <1>2, <1>3

\* One request changes or ends; the others go on as they were.
LEMMA OneRequest ==
  ASSUME StockInv, NEW r \in Req, NEW q, preq' = [preq EXCEPT ![r] = q], q.pc # "move",
         Stocked \subseteq Stocked',
         \A s \in Req \ {r} : preq[s].pc = "move" =>
            /\ \A i \in DOMAIN preq[s].work : items'[i].qty = items[i].qty
            /\ \A i \in DOMAIN preq[s].work :
                  preq[s].tap # None /\ ~preq[s].work[i].skips => taps'[preq[s].tap] = 0
            /\ \A k \in preq[s].ticks : ticks'[k].state = "active"
  PROVE  Moves' /\ Apart'
<1>1. preq'[r] = q /\ \A s \in Req \ {r} : preq'[s] = preq[s]
  BY DEF StockInv, Types
<1>2. Moves'
  <2> SUFFICES ASSUME NEW s \in Req, NEW p, p = preq'[s], p.pc = "move"
               PROVE  TodoOK(p)' /\ WorkOK(p)' /\ CoverOK(p)'
    BY DEF Moves, TodoOK, WorkOK, CoverOK, Stocked
  <2>1. s # r /\ p = preq[s]
    BY <1>1
  <2>2. TodoOK(p) /\ WorkOK(p) /\ CoverOK(p)
    BY <2>1 DEF StockInv, Moves
  <2> QED BY <2>1, <2>2, StillOK
<1>3. Apart'
  BY <1>1 DEF StockInv, Apart
<1> QED BY <1>2, <1>3

\* No request changes.
LEMMA NoRequest ==
  ASSUME StockInv, preq' = preq, Stocked \subseteq Stocked',
         \A s \in Req : preq[s].pc = "move" =>
            /\ \A i \in DOMAIN preq[s].work : items'[i].qty = items[i].qty
            /\ \A i \in DOMAIN preq[s].work :
                  preq[s].tap # None /\ ~preq[s].work[i].skips => taps'[preq[s].tap] = 0
            /\ \A k \in preq[s].ticks : ticks'[k].state = "active"
  PROVE  Moves' /\ Apart'
<1>2. Moves'
  <2> SUFFICES ASSUME NEW s \in Req, NEW p, p = preq'[s], p.pc = "move"
               PROVE  TodoOK(p)' /\ WorkOK(p)' /\ CoverOK(p)'
    BY DEF Moves, TodoOK, WorkOK, CoverOK, Stocked
  <2>1. p = preq[s]
    OBVIOUS
  <2>2. TodoOK(p) /\ WorkOK(p) /\ CoverOK(p)
    BY <2>1 DEF StockInv, Moves
  <2> QED BY <2>1, <2>2, StillOK
<1>3. Apart'
  BY DEF StockInv, Apart
<1> QED BY <1>2, <1>3

\* Every request that is under way relies on what it read.
LEMMA Relies ==
  ASSUME StockInv, NEW s \in Req, preq[s].pc = "move"
  PROVE  /\ preq[s] \in MoveReq /\ TodoOK(preq[s]) /\ WorkOK(preq[s]) /\ CoverOK(preq[s])
         /\ DOMAIN preq[s].work \subseteq Item
         /\ \A i \in DOMAIN preq[s].work : preq[s].work[i] \in WorkRow /\ i \in Stocked
         /\ \A k \in preq[s].ticks : k \in Tick /\ ticks[k].state = "active"
         /\ preq[s].tap # None => preq[s].tap \in Tap
<1>1. preq[s] \in MoveReq
  BY RequestKinds DEF StockInv
<1>2. TodoOK(preq[s]) /\ WorkOK(preq[s]) /\ CoverOK(preq[s])
  BY DEF StockInv, Moves
<1>3. preq[s].work \in Works /\ preq[s].ticks \subseteq Tick /\ preq[s].tap \in Tap \cup {None}
  BY <1>1 DEF MoveReq
<1> QED BY <1>1, <1>2, <1>3, WorksOpen DEF WorkOK, CoverOK

\* A request locks its next item.
LEMMA LockKeeps ==
  ASSUME StockInv, NEW r \in Req, LockNext(r)
  PROVE  StockInv'
<1> DEFINE q == preq[r]
           x == Head(q.todo)
           after == Larger(0, items[x.item].qty + x.delta)
           skips == Replayed(q.tap) \/ (x.tick # None /\ ~IsLive(x.item))
           y == [before |-> items[x.item].qty, tick |-> x.tick, skips |-> skips,
                 after |-> IF skips THEN items[x.item].qty ELSE after]
           p == [q EXCEPT !.todo = Tail(q.todo), !.work = Put(q.work, x.item, y)]
<1>1. /\ q.pc = "move" /\ q.todo # << >> /\ ~Held(x.item)
      /\ preq' = [preq EXCEPT ![r] = p]
      /\ UNCHANGED <<items, log, taps, clamped, ticks, listed, bought, dropped, lines, begun>>
  BY DEF LockNext
<1>2. q \in MoveReq /\ TodoOK(q) /\ WorkOK(q) /\ CoverOK(q)
  BY <1>1, Relies
<1>3. /\ x = q.todo[1] /\ x \in StepRow /\ Len(q.todo) \in Nat /\ Len(q.todo) >= 1
      /\ Tail(q.todo) \in Seq(StepRow) /\ Len(Tail(q.todo)) = Len(q.todo) - 1
      /\ \A n \in 1..Len(Tail(q.todo)) : Tail(q.todo)[n] = q.todo[n + 1]
  <2>1. q.todo \in Seq(StepRow)
    BY <1>2 DEF MoveReq
  <2> QED BY <1>1, <2>1
<1>4. x.item \in Item /\ x.delta \in Int /\ x.tick \in Tick \cup {None} /\ x.item \in Stocked
  BY <1>2, <1>3 DEF StepRow, TodoOK
<1>5. items[x.item].qty \in Nat
  BY <1>4 DEF StockInv, Types, StockItem
<1>6. skips \in BOOLEAN
  BY DEF Replayed, IsLive
<1>7. y \in WorkRow /\ y.before = items[x.item].qty /\ y.skips = skips /\ y.tick = x.tick
      /\ (skips => y.after = y.before)
  <2>1. after \in Nat
    BY <1>4, <1>5 DEF Larger
  <2> HIDE DEF after, skips, x
  <2> QED BY <1>4, <1>5, <1>6, <2>1 DEF WorkRow
<1>8. q.tap # None /\ ~skips => taps[q.tap] = 0
  <2>1. q.tap # None => taps[q.tap] \in Nat
    BY <1>2 DEF StockInv, Types, MoveReq
  <2> QED BY <2>1 DEF Replayed
<1> HIDE DEF y, skips, after
<1>9. q.work \in Works /\ DOMAIN q.work \subseteq Item
  BY <1>2, WorksOpen DEF MoveReq
<1>10. /\ Put(q.work, x.item, y) \in Works
       /\ DOMAIN Put(q.work, x.item, y) = DOMAIN q.work \cup {x.item}
       /\ Put(q.work, x.item, y)[x.item] = y
       /\ \A j \in DOMAIN q.work \ {x.item} : Put(q.work, x.item, y)[j] = q.work[j]
  BY <1>4, <1>7, <1>9, PutWorks
<1>11. \A s \in Req : preq[s].pc = "move" => x.item \notin DOMAIN preq[s].work
  BY <1>1 DEF Held, Moving
<1>12. /\ p \in MoveReq /\ p.todo = Tail(q.todo) /\ p.work = Put(q.work, x.item, y)
       /\ p.tap = q.tap /\ p.ticks = q.ticks /\ p.pc = "move"
  BY <1>2, <1>3, <1>10 DEF MoveReq
<1> HIDE DEF p
<1>13. TodoOK(p)
  BY <1>2, <1>3, <1>12 DEF TodoOK
<1>14. WorkOK(p)
  <2> SUFFICES ASSUME NEW i \in DOMAIN p.work
               PROVE  /\ i \in Stocked /\ p.work[i].before = items[i].qty
                      /\ p.work[i].skips => p.work[i].after = p.work[i].before
                      /\ p.tap # None => /\ i = TapOf[p.tap].item
                                         /\ ~p.work[i].skips => taps[p.tap] = 0
                      /\ p.work[i].tick # None => p.work[i].tick \in p.ticks
    BY DEF WorkOK
  <2>1. CASE i = x.item
    <3>1. p.work[i] = y
      BY <2>1, <1>10, <1>12
    <3>2. p.tap # None => i = TapOf[p.tap].item
      BY <2>1, <1>2, <1>3, <1>12 DEF TodoOK
    <3>3. x.tick # None => x.tick \in p.ticks
      BY <1>2, <1>3, <1>12 DEF TodoOK
    <3> QED BY <2>1, <3>1, <3>2, <3>3, <1>4, <1>7, <1>8, <1>12
  <2>2. CASE i # x.item
    <3>1. i \in DOMAIN q.work /\ p.work[i] = q.work[i]
      BY <2>2, <1>10, <1>12
    <3> QED BY <3>1, <1>2, <1>12 DEF WorkOK
  <2> QED BY <2>1, <2>2
<1>15. CoverOK(p)
  <2> SUFFICES ASSUME NEW k \in p.ticks
               PROVE  /\ ticks[k].state = "active"
                      /\ \/ \E n \in 1..Len(p.todo) : p.todo[n].tick = k
                         \/ \E i \in DOMAIN p.work : p.work[i].tick = k
    BY DEF CoverOK
  <2>1. ticks[k].state = "active"
    BY <1>2, <1>12 DEF CoverOK
  <2>2. CASE \E n \in 1..Len(q.todo) : q.todo[n].tick = k
    <3>1. PICK n \in 1..Len(q.todo) : q.todo[n].tick = k
      BY <2>2
    <3>2. CASE n = 1
      <4>1. x.item \in DOMAIN p.work /\ p.work[x.item].tick = k
        BY <3>1, <3>2, <1>3, <1>7, <1>10, <1>12
      <4> QED BY <2>1, <4>1
    <3>3. CASE n # 1
      <4>1. n - 1 \in 1..Len(p.todo) /\ p.todo[n - 1] = q.todo[n]
        BY <3>3, <1>3, <1>12
      <4> QED BY <2>1, <3>1, <4>1
    <3> QED BY <3>2, <3>3
  <2>3. CASE \E i \in DOMAIN q.work : q.work[i].tick = k
    <3>1. PICK i \in DOMAIN q.work : q.work[i].tick = k
      BY <2>3
    <3>2. i \in DOMAIN p.work /\ p.work[i] = q.work[i]
      BY <1>1, <1>10, <1>11, <1>12
    <3> QED BY <2>1, <3>1, <3>2
  <2> QED BY <2>2, <2>3, <1>2, <1>12 DEF CoverOK
<1>16. preq'[r] = p /\ \A s \in Req \ {r} : preq'[s] = preq[s]
  BY <1>1 DEF StockInv, Types
<1>17. Types'
  BY <1>1, <1>12 DEF StockInv, Types
<1>18. ActiveListed' /\ Ticking'
  BY <1>1, <1>12, <1>16 DEF StockInv, ActiveListed, Ticking, Stocked
<1>19. Moves'
  <2> SUFFICES ASSUME NEW s \in Req, preq'[s].pc = "move"
               PROVE  TodoOK(preq[s])' /\ WorkOK(preq[s])' /\ CoverOK(preq[s])'
    BY DEF Moves
  <2>1. PICK o : o = preq'[s]
    OBVIOUS
  <2>2. TodoOK(o) /\ WorkOK(o) /\ CoverOK(o)
    BY <2>1, <1>13, <1>14, <1>15, <1>16 DEF StockInv, Moves
  <2>3. TodoOK(preq[s])'
    BY <2>1, <2>2, <1>1 DEF TodoOK, Stocked
  <2>4. WorkOK(preq[s])'
    BY <2>1, <2>2, <1>1 DEF WorkOK, Stocked
  <2>5. CoverOK(preq[s])'
    BY <2>1, <2>2, <1>1 DEF CoverOK
  <2> QED BY <2>3, <2>4, <2>5
<1>20. Apart'
  BY <1>1, <1>10, <1>11, <1>12, <1>16 DEF StockInv, Apart
<1>21. TapOnce' /\ QuantityIsLog' /\ NoTickLost'
  BY <1>1 DEF StockInv, TapOnce, QuantityIsLog, NoTickLost
<1> QED BY <1>17, <1>18, <1>19, <1>20, <1>21 DEF StockInv


\* A request commits: what it read is still so, and one commit makes the
\* movements, the quantities and the cleared ticks agree.
LEMMA CommitKeeps ==
  ASSUME StockInv, NEW r \in Req, CommitMove(r)
  PROVE  StockInv'
<1> DEFINE q == preq[r]
           w == q.work
           moved == {i \in DOMAIN w : w[i].after # w[i].before}
           added == {w[i].tick : i \in {j \in DOMAIN w : ~w[j].skips}}
           left == {w[i].tick : i \in {j \in DOMAIN w : w[j].skips}}
<1>1. /\ q.pc = "move" /\ q.todo = << >>
      /\ items' = [i \in Item |-> IF i \in DOMAIN w THEN [items[i] EXCEPT !.qty = w[i].after]
                                                    ELSE items[i]]
      /\ log' = [i \in Item |-> IF i \in moved THEN log[i] + w[i].after - w[i].before ELSE log[i]]
      /\ taps' = [c \in Tap |-> IF c = q.tap /\ moved # {} THEN taps[c] + 1 ELSE taps[c]]
      /\ ticks' = [k \in Tick |-> IF k \in q.ticks THEN [ticks[k] EXCEPT !.state = "cleared"]
                                                   ELSE ticks[k]]
      /\ listed' = Without(listed, q.ticks)
      /\ bought' = [k \in Tick |-> IF k \in added THEN bought[k] + 1 ELSE bought[k]]
      /\ dropped' = dropped \cup left
      /\ preq' = [preq EXCEPT ![r] = Free]
  BY DEF CommitMove
<1>2. /\ q \in MoveReq /\ WorkOK(q) /\ CoverOK(q) /\ DOMAIN w \subseteq Item
      /\ \A i \in DOMAIN w : w[i] \in WorkRow /\ i \in Stocked
      /\ \A k \in q.ticks : k \in Tick /\ ticks[k].state = "active"
      /\ q.tap # None => q.tap \in Tap
  BY <1>1, Relies
<1>3. /\ items \in [Item -> StockItem] /\ log \in [Item -> Int] /\ taps \in [Tap -> Nat]
      /\ ticks \in [Tick -> TickRow] /\ bought \in [Tick -> Nat] /\ listed \in Seq(Tick)
      /\ preq \in [Req -> {Free} \cup TickReq \cup MoveReq]
  BY DEF StockInv, Types
<1>4. q.ticks \subseteq Tick
  BY <1>2
<1>5. preq'[r] = Free /\ \A s \in Req \ {r} : preq'[s] = preq[s]
  BY <1>1, <1>3
<1>6. Free.pc = "idle"
  BY DEF Free
<1>7. added \cap Tick \subseteq q.ticks /\ left \cap Tick \subseteq q.ticks
  BY <1>2, PantryAssumption DEF WorkOK
<1> HIDE DEF q, added, left
\* the items
<1>8. ASSUME NEW i \in Item
      PROVE  /\ items'[i] \in StockItem /\ log'[i] \in Int /\ items'[i].qty = log'[i]
             /\ items'[i].state = items[i].state
             /\ i \notin DOMAIN w => items'[i].qty = items[i].qty
  <2>1. items[i] \in StockItem /\ log[i] \in Int /\ items[i].qty = log[i]
    BY <1>3 DEF StockInv, QuantityIsLog
  <2>2. CASE i \notin DOMAIN w
    <3>1. items'[i] = items[i] /\ log'[i] = log[i]
      BY <1>1, <2>2
    <3> QED BY <3>1, <2>1
  <2>3. CASE i \in DOMAIN w
    <3>1. w[i] \in WorkRow /\ w[i].before = items[i].qty /\ w[i].before \in Nat /\ w[i].after \in Nat
      BY <1>2, <2>3 DEF WorkOK, WorkRow
    <3>2. items'[i] = [items[i] EXCEPT !.qty = w[i].after]
      BY <1>1, <2>3
    <3>3. items'[i] \in StockItem /\ items'[i].qty = w[i].after /\ items'[i].state = items[i].state
      BY <3>1, <3>2, <2>1 DEF StockItem
    <3>4. log'[i] = IF w[i].after # w[i].before THEN log[i] + w[i].after - w[i].before ELSE log[i]
      BY <1>1, <2>3
    <3>5. log'[i] = w[i].after
      BY <3>1, <3>4, <2>1
    <3> QED BY <2>3, <3>1, <3>3, <3>5
  <2> QED BY <2>2, <2>3
\* the ticks
<1>9. ASSUME NEW k \in Tick
      PROVE  /\ ticks'[k] \in TickRow /\ bought'[k] \in Nat
             /\ ticks'[k].state = IF k \in q.ticks THEN "cleared" ELSE ticks[k].state
             /\ bought'[k] = IF k \in added THEN bought[k] + 1 ELSE bought[k]
  <2>1. ticks[k] \in TickRow /\ bought[k] \in Nat
    BY <1>3
  <2>2. ticks'[k] = IF k \in q.ticks THEN [ticks[k] EXCEPT !.state = "cleared"] ELSE ticks[k]
    BY <1>1
  <2>3. ticks'[k] \in TickRow /\ ticks'[k].state = IF k \in q.ticks THEN "cleared" ELSE ticks[k].state
    BY <2>1, <2>2 DEF TickRow
  <2>4. bought'[k] = IF k \in added THEN bought[k] + 1 ELSE bought[k]
    BY <1>1
  <2> QED BY <2>1, <2>3, <2>4
<1>10. listed' \in Seq(Tick) /\ ActiveListed'
  <2>1. \A k \in Tick : ticks'[k].state = "active" <=> ticks[k].state = "active" /\ k \notin q.ticks
    BY <1>9
  <2> QED BY <1>1, <1>4, <2>1, ListingWithout DEF StockInv
\* a tap counts once
<1>11. ASSUME NEW c \in Tap
       PROVE  /\ taps'[c] \in Nat /\ taps'[c] <= 1
              /\ taps'[c] = IF c = q.tap /\ moved # {} THEN 1 ELSE taps[c]
  <2>1. taps[c] \in Nat /\ taps[c] <= 1
    BY <1>3 DEF StockInv, TapOnce
  <2>2. CASE c = q.tap /\ moved # {}
    <3>1. PICK i \in DOMAIN w : w[i].after # w[i].before
      BY <2>2
    <3>2. taps[c] = 0
      BY <2>2, <3>1, <1>2, PantryAssumption DEF WorkOK
    <3> QED BY <2>1, <2>2, <3>2, <1>1
  <2>3. CASE ~(c = q.tap /\ moved # {})
    <3>1. taps'[c] = taps[c]
      BY <1>1, <2>3
    <3> QED BY <2>1, <2>3, <3>1
  <2> QED BY <2>2, <2>3
<1>12. Types'
  <2>1. items' \in [Item -> StockItem]
    BY <1>1, <1>8
  <2>2. log' \in [Item -> Int]
    BY <1>1, <1>8
  <2>3. taps' \in [Tap -> Nat]
    BY <1>1, <1>11
  <2>4. ticks' \in [Tick -> TickRow]
    BY <1>1, <1>9
  <2>5. bought' \in [Tick -> Nat]
    BY <1>1, <1>9
  <2>6. preq' \in [Req -> {Free} \cup TickReq \cup MoveReq]
    BY <1>1, <1>3
  <2> QED BY <2>1, <2>2, <2>3, <2>4, <2>5, <2>6, <1>10 DEF Types
<1>13. Stocked' = Stocked
  BY <1>8 DEF Stocked
<1>14. Ticking'
  <2>1. \A k \in Tick : ticks'[k].state # "cleared" => bought'[k] = 0
    <3> TAKE k \in Tick
    <3> HAVE ticks'[k].state # "cleared"
    <3>1. k \notin q.ticks /\ ticks[k].state # "cleared" /\ k \notin added
      BY <1>7, <1>9
    <3> QED BY <3>1, <1>9 DEF StockInv, Ticking
  <2>2. \A k \in Tick : ticks'[k].state = "active" => TickOf[k] \in Stocked'
    BY <1>9, <1>13 DEF StockInv, Ticking
  <2>3. \A s \in Req : preq'[s].pc = "tick" => TickOf[preq'[s].tick] \in Stocked'
    BY <1>5, <1>6, <1>13 DEF StockInv, Ticking
  <2> QED BY <2>1, <2>2, <2>3 DEF Ticking
<1>15. Moves' /\ Apart'
  <2>1. ASSUME NEW s \in Req \ {r}, preq[s].pc = "move"
        PROVE  /\ \A i \in DOMAIN preq[s].work : items'[i].qty = items[i].qty
               /\ \A i \in DOMAIN preq[s].work :
                    preq[s].tap # None /\ ~preq[s].work[i].skips => taps'[preq[s].tap] = 0
               /\ \A k \in preq[s].ticks : ticks'[k].state = "active"
    <3>1. DOMAIN preq[s].work \cap DOMAIN w = {} /\ preq[s].ticks \cap q.ticks = {}
      BY <1>1, <2>1 DEF StockInv, Apart, q
    <3>2. /\ WorkOK(preq[s]) /\ DOMAIN preq[s].work \subseteq Item
          /\ \A k \in preq[s].ticks : k \in Tick /\ ticks[k].state = "active"
          /\ preq[s].tap # None => preq[s].tap \in Tap
      BY <2>1, Relies
    <3>3. ASSUME NEW i \in DOMAIN preq[s].work, preq[s].tap # None, ~preq[s].work[i].skips
          PROVE  taps'[preq[s].tap] = 0
      <4>1. i = TapOf[preq[s].tap].item /\ taps[preq[s].tap] = 0
        BY <3>2, <3>3 DEF WorkOK
      <4>2. CASE preq[s].tap = q.tap /\ moved # {}
        <5>1. PICK j \in DOMAIN w : TRUE
          BY <4>2
        <5>2. j = TapOf[q.tap].item
          BY <5>1, <4>2, <3>3, <1>2 DEF WorkOK
        <5> QED BY <5>1, <5>2, <4>1, <4>2, <3>1
      <4>3. CASE ~(preq[s].tap = q.tap /\ moved # {})
        BY <4>1, <4>3, <3>2, <3>3, <1>11
      <4> QED BY <4>2, <4>3
    <3>4. \A i \in DOMAIN preq[s].work : items'[i].qty = items[i].qty
      BY <3>1, <3>2, <1>8
    <3>5. \A k \in preq[s].ticks : ticks'[k].state = "active"
      BY <3>1, <3>2, <1>9
    <3> QED BY <3>3, <3>4, <3>5
  <2> QED BY <2>1, <1>1, <1>6, <1>13, OneRequest
<1>16. NoTickLost'
  <2> SUFFICES ASSUME NEW k \in Tick, ticks'[k].state = "cleared"
               PROVE  bought'[k] = 1 \/ k \in dropped'
    BY DEF NoTickLost
  <2>1. CASE k \in q.ticks
    <3>1. ticks[k].state = "active" /\ bought[k] = 0
      BY <2>1, <1>2 DEF StockInv, Ticking
    <3>2. PICK i \in DOMAIN w : w[i].tick = k
      BY <2>1, <1>1, <1>2 DEF CoverOK, q
    <3>3. CASE w[i].skips
      BY <3>2, <3>3, <1>1 DEF left
    <3>4. CASE ~w[i].skips
      <4>1. k \in added
        BY <3>2, <3>4 DEF added
      <4> QED BY <4>1, <3>1, <1>9
    <3> QED BY <3>3, <3>4
  <2>2. CASE k \notin q.ticks
    <3>1. ticks[k].state = "cleared" /\ k \notin added
      BY <2>2, <1>7, <1>9
    <3> QED BY <3>1, <1>1, <1>9 DEF StockInv, NoTickLost
  <2> QED BY <2>1, <2>2
<1>17. TapOnce' /\ QuantityIsLog'
  BY <1>8, <1>11 DEF TapOnce, QuantityIsLog
<1> QED BY <1>10, <1>12, <1>14, <1>15, <1>16, <1>17 DEF StockInv

\* A step of the list or of the products that changes no request.
LEMMA QuietKeeps ==
  ASSUME StockInv, NEW K \in SUBSET Tick, \A k \in K : ~TickHeld(k),
         preq' = preq, taps' = taps, bought' = bought,
         items' \in [Item -> StockItem], log' \in [Item -> Int], ticks' \in [Tick -> TickRow],
         \A i \in Item : items'[i].qty = log'[i],
         \A i \in Stocked : items'[i].state # "none" /\ items'[i].qty = items[i].qty,
         \A k \in Tick : k \notin K => ticks'[k].state = ticks[k].state,
         \A k \in K : ticks[k].state = "active" /\ ticks'[k].state # "active",
         \A k \in K : ticks'[k].state = "cleared" => k \in dropped',
         dropped \subseteq dropped',
         listed' = Without(listed, K) \/ (listed' = listed /\ K = {})
  PROVE  StockInv'
<1>1. Types /\ ActiveListed /\ Ticking /\ TapOnce /\ NoTickLost
  BY DEF StockInv
<1>2. \A k \in Tick : ticks'[k].state = "active" <=> ticks[k].state = "active" /\ k \notin K
  OBVIOUS
<1>3. listed' \in Seq(Tick) /\ ActiveListed'
  <2>1. CASE listed' = Without(listed, K)
    BY <1>1, <1>2, <2>1, ListingWithout
  <2>2. CASE listed' = listed /\ K = {}
    <3>1. listed' \in Seq(Tick)
      BY <1>1, <2>2 DEF Types
    <3>2. \A n \in 1..Len(listed) : listed[n] \in Tick
      BY <1>1 DEF Types
    <3> QED BY <1>1, <1>2, <2>2, <3>1, <3>2 DEF ActiveListed
  <2> QED BY <2>1, <2>2
<1>4. Types'
  BY <1>1, <1>3 DEF Types
<1>5. Stocked \subseteq Stocked'
  BY DEF Stocked
<1>6. Ticking'
  <2>1. \A k \in Tick : ticks'[k].state # "cleared" => bought'[k] = 0
    BY <1>1 DEF Ticking
  <2>2. \A k \in Tick : ticks'[k].state = "active" => TickOf[k] \in Stocked'
    BY <1>1, <1>2, <1>5 DEF Ticking
  <2>3. \A r \in Req : preq'[r].pc = "tick" => TickOf[preq'[r].tick] \in Stocked'
    BY <1>1, <1>5 DEF Ticking
  <2> QED BY <2>1, <2>2, <2>3 DEF Ticking
<1>7. Moves' /\ Apart'
  <2>1. ASSUME NEW s \in Req, preq[s].pc = "move"
        PROVE  /\ \A i \in DOMAIN preq[s].work : items'[i].qty = items[i].qty
               /\ \A i \in DOMAIN preq[s].work :
                    preq[s].tap # None /\ ~preq[s].work[i].skips => taps'[preq[s].tap] = 0
               /\ \A k \in preq[s].ticks : ticks'[k].state = "active"
    <3>1. /\ WorkOK(preq[s]) /\ \A i \in DOMAIN preq[s].work : i \in Stocked
          /\ \A k \in preq[s].ticks : k \in Tick /\ ticks[k].state = "active"
      BY <2>1, Relies
    <3>2. \A k \in preq[s].ticks : k \notin K
      BY <2>1 DEF TickHeld, Moving
    <3> QED BY <3>1, <3>2, <1>2 DEF WorkOK
  <2> QED BY <2>1, <1>5, NoRequest
<1>8. TapOnce' /\ QuantityIsLog' /\ NoTickLost'
  BY <1>1 DEF TapOnce, QuantityIsLog, NoTickLost
<1> QED BY <1>3, <1>4, <1>6, <1>7, <1>8 DEF StockInv

\* The same for a step that leaves the list alone.
LEMMA ProductKeeps ==
  ASSUME StockInv, UNCHANGED <<taps, ticks, listed, bought, dropped, preq>>,
         items' \in [Item -> StockItem], log' \in [Item -> Int],
         \A i \in Item : items'[i].qty = log'[i],
         \A i \in Stocked : items'[i].state # "none" /\ items'[i].qty = items[i].qty
  PROVE  StockInv'
<1>1. PICK K : K = {}
  OBVIOUS
<1>2. K \in SUBSET Tick /\ ticks' \in [Tick -> TickRow]
  BY <1>1 DEF StockInv, Types
<1> QED BY <1>1, <1>2, QuietKeeps

\* A request that dies, or a day that goes by, takes nothing back.
LEMMA FailKeeps ==
  ASSUME StockInv, NEW r \in Req, Fail(r)
  PROVE  StockInv'
<1>1. /\ preq' = [preq EXCEPT ![r] = Free] /\ Free.pc = "idle"
      /\ UNCHANGED <<items, log, taps, clamped, ticks, listed, bought, dropped, lines>>
  BY DEF Fail, Free
<1>2. Types /\ ActiveListed /\ Ticking /\ TapOnce /\ NoTickLost /\ QuantityIsLog
  BY DEF StockInv
<1>3. Types'
  BY <1>1, <1>2 DEF Types
<1>4. Stocked' = Stocked
  BY <1>1 DEF Stocked
<1>5. ActiveListed' /\ TapOnce' /\ NoTickLost' /\ QuantityIsLog'
  BY <1>1, <1>2 DEF ActiveListed, TapOnce, NoTickLost, QuantityIsLog
<1>6. Ticking'
  BY <1>1, <1>2, <1>4 DEF Ticking, Types
<1>7. Moves' /\ Apart'
  <2>1. ASSUME NEW s \in Req \ {r}, preq[s].pc = "move"
        PROVE  /\ \A i \in DOMAIN preq[s].work : items'[i].qty = items[i].qty
               /\ \A i \in DOMAIN preq[s].work :
                    preq[s].tap # None /\ ~preq[s].work[i].skips => taps'[preq[s].tap] = 0
               /\ \A k \in preq[s].ticks : ticks'[k].state = "active"
    BY <1>1, <2>1, Relies DEF WorkOK
  <2> QED BY <2>1, <1>1, <1>4, OneRequest
<1> QED BY <1>3, <1>5, <1>6, <1>7 DEF StockInv

LEMMA AgeKeeps ==
  ASSUME StockInv, Age
  PROVE  StockInv'
<1>1. /\ taps' = [c \in Tap |-> 0] /\ preq' = preq
      /\ UNCHANGED <<items, log, clamped, ticks, listed, bought, dropped, lines>>
  BY DEF Age
<1>2. Types /\ ActiveListed /\ Ticking /\ NoTickLost /\ QuantityIsLog
  BY DEF StockInv
<1>3. Types'
  BY <1>1, <1>2 DEF Types
<1>4. Stocked' = Stocked
  BY <1>1 DEF Stocked
<1>5. ActiveListed' /\ TapOnce' /\ NoTickLost' /\ QuantityIsLog' /\ Ticking'
  BY <1>1, <1>2, <1>4 DEF ActiveListed, TapOnce, NoTickLost, QuantityIsLog, Ticking
<1>6. Moves' /\ Apart'
  <2>1. ASSUME NEW s \in Req, preq[s].pc = "move"
        PROVE  /\ \A i \in DOMAIN preq[s].work : items'[i].qty = items[i].qty
               /\ \A i \in DOMAIN preq[s].work :
                    preq[s].tap # None /\ ~preq[s].work[i].skips => taps'[preq[s].tap] = 0
               /\ \A k \in preq[s].ticks : ticks'[k].state = "active"
    BY <1>1, <2>1, Relies DEF WorkOK
  <2> QED BY <2>1, <1>1, <1>4, NoRequest
<1> QED BY <1>3, <1>5, <1>6 DEF StockInv

\* A tick is asked for, and set if it is the first of its item.
LEMMA BeginTickKeeps ==
  ASSUME StockInv, NEW r \in Req, NEW k \in Tick, NEW given \in (Quantity \ {0}) \cup {None},
         BeginTick(r, k, given)
  PROVE  StockInv'
<1> DEFINE n == IF given = None THEN RestockQuantity(TickOf[k]) ELSE given
           q == [pc |-> "tick", tick |-> k, qty |-> n]
<1>1. /\ preq' = [preq EXCEPT ![r] = q] /\ IsLive(TickOf[k])
      /\ UNCHANGED <<items, log, taps, clamped, ticks, listed, bought, dropped, lines>>
  BY DEF BeginTick
<1>2. Types /\ ActiveListed /\ Ticking /\ TapOnce /\ NoTickLost /\ QuantityIsLog
  BY DEF StockInv
<1>3. TickOf[k] \in Item /\ items[TickOf[k]] \in StockItem
  BY <1>2, PantryAssumption DEF Types
<1>4. n \in Nat
  <2>1. RestockQuantity(TickOf[k]) \in Nat
    BY <1>3 DEF RestockQuantity, Larger, StockItem
  <2> QED BY <2>1, PantryAssumption
<1> HIDE DEF n
<1>5. q \in TickReq /\ q.pc = "tick" /\ q.tick = k
  BY <1>4 DEF TickReq
<1> HIDE DEF q
<1>6. Types'
  BY <1>1, <1>2, <1>5 DEF Types
<1>7. Stocked' = Stocked /\ TickOf[k] \in Stocked
  BY <1>1, <1>3 DEF Stocked, IsLive
<1>8. ActiveListed' /\ TapOnce' /\ NoTickLost' /\ QuantityIsLog'
  BY <1>1, <1>2 DEF ActiveListed, TapOnce, NoTickLost, QuantityIsLog
<1>9. Ticking'
  BY <1>1, <1>2, <1>5, <1>7 DEF Ticking, Types
<1>10. Moves' /\ Apart'
  <2>1. ASSUME NEW s \in Req \ {r}, preq[s].pc = "move"
        PROVE  /\ \A i \in DOMAIN preq[s].work : items'[i].qty = items[i].qty
               /\ \A i \in DOMAIN preq[s].work :
                    preq[s].tap # None /\ ~preq[s].work[i].skips => taps'[preq[s].tap] = 0
               /\ \A o \in preq[s].ticks : ticks'[o].state = "active"
    BY <1>1, <2>1, Relies DEF WorkOK
  <2> QED BY <2>1, <1>1, <1>5, <1>7, OneRequest
<1> QED BY <1>6, <1>8, <1>9, <1>10 DEF StockInv

LEMMA CommitTickKeeps ==
  ASSUME StockInv, NEW r \in Req, CommitTick(r)
  PROVE  StockInv'
<1> DEFINE k == preq[r].tick
           won == ticks[k].state = "none" /\ ActiveOf(TickOf[k]) = {}
<1>1. /\ preq[r].pc = "tick" /\ preq' = [preq EXCEPT ![r] = Free] /\ Free.pc = "idle"
      /\ ticks' = IF won THEN [ticks EXCEPT ![k] = [state |-> "active", qty |-> preq[r].qty]]
                  ELSE ticks
      /\ listed' = IF won THEN Append(listed, k) ELSE listed
      /\ UNCHANGED <<items, log, taps, clamped, bought, dropped, lines>>
  BY DEF CommitTick, Free
<1>2. Types /\ ActiveListed /\ Ticking /\ TapOnce /\ NoTickLost /\ QuantityIsLog
  BY DEF StockInv
<1>3. k \in Tick /\ preq[r].qty \in Nat /\ TickOf[k] \in Stocked
  BY <1>1, <1>2, RequestKinds DEF TickReq, Ticking
<1>4. listed \in Seq(Tick) /\ ticks \in [Tick -> TickRow]
  BY <1>2 DEF Types
<1>5. /\ ticks' \in [Tick -> TickRow] /\ listed' \in Seq(Tick) /\ ActiveListed'
      /\ \A o \in Tick : \/ ticks'[o].state = ticks[o].state
                         \/ o = k /\ ticks[o].state = "none" /\ ticks'[o].state = "active"
  <2>1. CASE won
    <3>1. /\ ticks' = [ticks EXCEPT ![k] = [state |-> "active", qty |-> preq[r].qty]]
          /\ listed' = Append(listed, k) /\ ticks[k].state = "none"
      BY <1>1, <2>1
    <3> HIDE DEF won, k
    <3>2. /\ ticks' \in [Tick -> TickRow] /\ listed' \in Seq(Tick) /\ ticks'[k].state = "active"
          /\ \A o \in Tick \ {k} : ticks'[o] = ticks[o]
      BY <3>1, <1>3, <1>4 DEF TickRow
    <3>3. /\ Len(listed') = Len(listed) + 1 /\ Len(listed) \in Nat /\ listed'[Len(listed')] = k
          /\ \A n \in 1..Len(listed) : listed'[n] = listed[n] /\ listed[n] \in Tick
      BY <3>1, <1>3, <1>4
    <3>4. \A n \in 1..Len(listed') : ticks'[listed'[n]].state = "active"
      <4> TAKE n \in 1..Len(listed')
      <4>1. CASE n = Len(listed')
        BY <4>1, <3>2, <3>3
      <4>2. CASE n # Len(listed')
        <5>1. n \in 1..Len(listed) /\ listed'[n] = listed[n] /\ listed[n] \in Tick
          BY <4>2, <3>3
        <5> QED BY <5>1, <3>2, <1>2 DEF ActiveListed
      <4> QED BY <4>1, <4>2
    <3>5. \A o \in Tick : ticks'[o].state = "active" => \E n \in 1..Len(listed') : listed'[n] = o
      <4> TAKE o \in Tick
      <4> HAVE ticks'[o].state = "active"
      <4>1. CASE o = k
        BY <4>1, <3>3
      <4>2. CASE o # k
        <5>1. PICK n \in 1..Len(listed) : listed[n] = o
          BY <4>2, <3>2, <1>2 DEF ActiveListed
        <5> QED BY <5>1, <3>3
      <4> QED BY <4>1, <4>2
    <3> QED BY <3>1, <3>2, <3>4, <3>5 DEF ActiveListed
  <2>2. CASE ~won
    <3>1. ticks' = ticks /\ listed' = listed
      BY <1>1, <2>2
    <3> QED BY <3>1, <1>2, <1>4 DEF ActiveListed
  <2> QED BY <2>1, <2>2
<1> HIDE DEF k, won
<1>6. Types' /\ Stocked' = Stocked
  BY <1>1, <1>2, <1>5 DEF Types, Stocked
<1>7. TapOnce' /\ NoTickLost' /\ QuantityIsLog'
  BY <1>1, <1>2, <1>5 DEF TapOnce, NoTickLost, QuantityIsLog
<1>8. Ticking'
  <2>1. preq'[r] = Free /\ \A s \in Req \ {r} : preq'[s] = preq[s]
    BY <1>1, <1>2 DEF Types
  <2>2. \A o \in Tick : ticks'[o].state # "cleared" => bought'[o] = 0
    BY <1>1, <1>2, <1>5 DEF Ticking
  <2>3. \A o \in Tick : ticks'[o].state = "active" => TickOf[o] \in Stocked'
    BY <1>2, <1>3, <1>5, <1>6 DEF Ticking
  <2>4. \A s \in Req : preq'[s].pc = "tick" => TickOf[preq'[s].tick] \in Stocked'
    BY <2>1, <1>1, <1>2, <1>6 DEF Ticking
  <2> QED BY <2>2, <2>3, <2>4 DEF Ticking
<1>9. Moves' /\ Apart'
  <2>1. ASSUME NEW s \in Req \ {r}, preq[s].pc = "move"
        PROVE  /\ \A i \in DOMAIN preq[s].work : items'[i].qty = items[i].qty
               /\ \A i \in DOMAIN preq[s].work :
                    preq[s].tap # None /\ ~preq[s].work[i].skips => taps'[preq[s].tap] = 0
               /\ \A o \in preq[s].ticks : ticks'[o].state = "active"
    BY <1>1, <1>5, <2>1, Relies DEF WorkOK
  <2> QED BY <2>1, <1>1, <1>6, OneRequest
<1> QED BY <1>5, <1>6, <1>7, <1>8, <1>9 DEF StockInv

\* A tick is taken back; a one-off line changes.
LEMMA UntickKeeps ==
  ASSUME StockInv, NEW k \in Tick, Untick(k)
  PROVE  StockInv'
<1>1. /\ ticks[k].state = "active" /\ ~TickHeld(k) /\ ticks' = [ticks EXCEPT ![k].state = "none"]
      /\ listed' = Without(listed, {k})
      /\ UNCHANGED <<items, log, taps, clamped, bought, dropped, lines, preq>>
  BY DEF Untick
<1>2. items \in [Item -> StockItem] /\ log \in [Item -> Int] /\ ticks \in [Tick -> TickRow]
  BY DEF StockInv, Types
<1>3. /\ ticks' \in [Tick -> TickRow] /\ ticks'[k].state = "none"
      /\ \A o \in Tick \ {k} : ticks'[o] = ticks[o]
  BY <1>1, <1>2 DEF TickRow
<1>4. \A i \in Item : items[i].qty = log[i]
  BY DEF StockInv, QuantityIsLog
<1> QED BY <1>1, <1>2, <1>3, <1>4, QuietKeeps DEF Stocked

LEMMA LineKeeps ==
  ASSUME StockInv, NEW l \in Line, ChangeLine(l)
  PROVE  StockInv'
<1>1. UNCHANGED <<items, log, taps, clamped, ticks, listed, bought, dropped, preq>>
  BY DEF ChangeLine
<1>2. items \in [Item -> StockItem] /\ log \in [Item -> Int]
  BY DEF StockInv, Types
<1>3. \A i \in Item : items[i].qty = log[i]
  BY DEF StockInv, QuantityIsLog
<1> QED BY <1>1, <1>2, <1>3, ProductKeeps DEF Stocked

\* A product is revived, made, edited or archived.
LEMMA ReviveKeeps ==
  ASSUME StockInv, NEW i \in Item, Revive(i)
  PROVE  StockInv'
<1>1. /\ items' = [items EXCEPT ![i].state = "live"]
      /\ UNCHANGED <<log, taps, clamped, ticks, listed, bought, dropped, lines, preq>>
  BY DEF Revive
<1>2. items \in [Item -> StockItem] /\ log \in [Item -> Int]
  BY DEF StockInv, Types
<1>3. /\ items' \in [Item -> StockItem] /\ items'[i].state = "live"
      /\ \A j \in Item : items'[j].qty = items[j].qty
      /\ \A j \in Item \ {i} : items'[j] = items[j]
  BY <1>1, <1>2 DEF StockItem
<1>4. \A j \in Item : items[j].qty = log[j]
  BY DEF StockInv, QuantityIsLog
<1> QED BY <1>1, <1>2, <1>3, <1>4, ProductKeeps DEF Stocked

LEMMA CreateKeeps ==
  ASSUME StockInv, NEW i \in Item, NEW code \in Code \cup {None},
         NEW n \in Quantity, NEW m \in Quantity, Create(i, code, n, m)
  PROVE  StockInv'
<1>1. /\ items[i].state = "none"
      /\ items' = [items EXCEPT ![i] = [state |-> "live", code |-> code, qty |-> n, min |-> m]]
      /\ log' = [log EXCEPT ![i] = n]
      /\ UNCHANGED <<taps, clamped, ticks, listed, bought, dropped, lines, preq>>
  BY DEF Create
<1>2. items \in [Item -> StockItem] /\ log \in [Item -> Int]
  BY DEF StockInv, Types
<1>3. /\ items' \in [Item -> StockItem] /\ items'[i].qty = n
      /\ \A j \in Item \ {i} : items'[j] = items[j]
  BY <1>1, <1>2, PantryAssumption DEF StockItem
<1>4. /\ log' \in [Item -> Int] /\ log'[i] = n
      /\ \A j \in Item \ {i} : log'[j] = log[j]
  BY <1>1, <1>2, PantryAssumption
<1>5. \A j \in Item : items'[j].qty = log'[j]
  BY <1>3, <1>4 DEF StockInv, QuantityIsLog
<1>6. \A j \in Stocked : items'[j].state # "none" /\ items'[j].qty = items[j].qty
  BY <1>1, <1>3 DEF Stocked
<1> QED BY <1>1, <1>2, <1>3, <1>4, <1>5, <1>6, ProductKeeps

LEMMA EditKeeps ==
  ASSUME StockInv, NEW i \in Item, NEW code \in Code \cup {None}, NEW m \in Quantity,
         EditProduct(i, code, m)
  PROVE  StockInv'
<1>1. /\ items' = [items EXCEPT ![i].code = code, ![i].min = m]
      /\ UNCHANGED <<log, taps, clamped, ticks, listed, bought, dropped, lines, preq>>
  BY DEF EditProduct
<1>2. items \in [Item -> StockItem] /\ log \in [Item -> Int]
  BY DEF StockInv, Types
<1>3. m \in Nat
  BY PantryAssumption
<1>4. items' = [items EXCEPT ![i] = [items[i] EXCEPT !.code = code, !.min = m]]
  BY <1>1, <1>2
<1>5. items[i] \in StockItem
  BY <1>2
<1>6. /\ [items[i] EXCEPT !.code = code, !.min = m] \in StockItem
      /\ [items[i] EXCEPT !.code = code, !.min = m].qty = items[i].qty
      /\ [items[i] EXCEPT !.code = code, !.min = m].state = items[i].state
  BY <1>3, <1>5 DEF StockItem
<1>7. /\ items' \in [Item -> StockItem]
      /\ \A j \in Item : items'[j].qty = items[j].qty /\ items'[j].state = items[j].state
  BY <1>2, <1>4, <1>6
<1>8. \A j \in Item : items[j].qty = log[j]
  BY DEF StockInv, QuantityIsLog
<1> QED BY <1>1, <1>2, <1>7, <1>8, ProductKeeps DEF Stocked

LEMMA ArchiveKeeps ==
  ASSUME StockInv, NEW i \in Item, ArchiveProduct(i)
  PROVE  StockInv'
<1> DEFINE K == ActiveOf(i)
<1>1. /\ \A k \in K : ~TickHeld(k)
      /\ items' = [items EXCEPT ![i].state = "archived"]
      /\ ticks' = [k \in Tick |-> IF k \in K THEN [ticks[k] EXCEPT !.state = "cleared"] ELSE ticks[k]]
      /\ listed' = Without(listed, K) /\ dropped' = dropped \cup K
      /\ UNCHANGED <<log, taps, clamped, bought, lines, preq>>
  BY DEF ArchiveProduct
<1>2. items \in [Item -> StockItem] /\ log \in [Item -> Int] /\ ticks \in [Tick -> TickRow]
  BY DEF StockInv, Types
<1>3. K \in SUBSET Tick /\ \A k \in K : ticks[k].state = "active"
  BY DEF ActiveOf
<1> HIDE DEF K
<1>4. /\ items' \in [Item -> StockItem] /\ items'[i].state = "archived"
      /\ \A j \in Item : items'[j].qty = items[j].qty
      /\ \A j \in Item \ {i} : items'[j] = items[j]
  BY <1>1, <1>2 DEF StockItem
<1>5. ASSUME NEW k \in Tick
      PROVE  /\ ticks'[k] \in TickRow /\ (k \in K => ticks'[k].state = "cleared")
             /\ (k \notin K => ticks'[k] = ticks[k])
  <2>1. ticks[k] \in TickRow
    BY <1>2
  <2>2. ticks'[k] = IF k \in K THEN [ticks[k] EXCEPT !.state = "cleared"] ELSE ticks[k]
    BY <1>1
  <2> QED BY <2>1, <2>2 DEF TickRow
<1>6. ticks' \in [Tick -> TickRow]
  BY <1>1, <1>5
<1>7. \A j \in Item : items[j].qty = log[j]
  BY DEF StockInv, QuantityIsLog
<1>8. \A j \in Stocked : items'[j].state # "none" /\ items'[j].qty = items[j].qty
  BY <1>4 DEF Stocked
<1> QED BY <1>1, <1>2, <1>3, <1>4, <1>5, <1>6, <1>7, <1>8, QuietKeeps

LEMMA StockInvNext == StockInv /\ [PantryNext]_pvars => StockInv'
<1> SUFFICES ASSUME StockInv, [PantryNext]_pvars
             PROVE  StockInv'
  OBVIOUS
<1>1. CASE UNCHANGED pvars
  <2>1. \A s \in Req : preq[s].pc = "move" =>
            /\ \A i \in DOMAIN preq[s].work : items'[i].qty = items[i].qty
            /\ \A i \in DOMAIN preq[s].work :
                  preq[s].tap # None /\ ~preq[s].work[i].skips => taps'[preq[s].tap] = 0
            /\ \A k \in preq[s].ticks : ticks'[k].state = "active"
    BY <1>1, Relies DEF pvars, WorkOK
  <2>2. preq' = preq /\ Stocked' = Stocked
    BY <1>1 DEF pvars, Stocked
  <2>3. Moves' /\ Apart'
    BY <2>1, <2>2, NoRequest
  <2> QED BY <2>2, <2>3, <1>1 DEF StockInv, pvars, Types, ActiveListed, Ticking, TapOnce, QuantityIsLog, NoTickLost
<1>2. ASSUME NEW r \in Req,
             \/ \E c \in Tap : BeginAdjust(r, c)
             \/ \E i, j \in Item : BeginBought(r, i, j)
             \/ BeginApply(r) \/ LockNext(r) \/ CommitMove(r) \/ Fail(r)
             \/ \E k \in Tick, given \in (Quantity \ {0}) \cup {None} : BeginTick(r, k, given)
             \/ CommitTick(r)
      PROVE  StockInv'
  BY <1>2, AdjustKeeps, BoughtKeeps, ApplyKeeps, LockKeeps, CommitKeeps, FailKeeps,
     BeginTickKeeps, CommitTickKeeps
<1>3. CASE Age
  BY <1>3, AgeKeeps
<1>4. CASE \E k \in Tick : Untick(k)
  BY <1>4, UntickKeeps
<1>5. CASE \E l \in Line : ChangeLine(l)
  BY <1>5, LineKeeps
<1>6. ASSUME NEW i \in Item,
             \/ Revive(i)
             \/ \E code \in Code \cup {None}, n, m \in Quantity : Create(i, code, n, m)
             \/ \E code \in Code \cup {None}, m \in Quantity : EditProduct(i, code, m)
             \/ ArchiveProduct(i)
      PROVE  StockInv'
  BY <1>6, ReviveKeeps, CreateKeeps, EditKeeps, ArchiveKeeps
<1> QED BY <1>1, <1>2, <1>3, <1>4, <1>5, <1>6 DEF PantryNext

LEMMA StockInvAlways == PantrySpec => []StockInv
BY StockInvInit, StockInvNext, PTL DEF PantrySpec

\* A tap is applied at most once while its client_id is looked for, however
\* often it is sent (find_adjust_replay).
THEOREM TapsApplyOnce == PantrySpec => []TapOnce
<1>1. StockInv => TapOnce
  BY DEF StockInv
<1> QED BY <1>1, StockInvAlways, PTL

\* The log of movements explains the quantity of every item (adjust_stock).
THEOREM QuantitiesAreLogged == PantrySpec => []QuantityIsLog
<1>1. StockInv => QuantityIsLog
  BY DEF StockInv
<1> QED BY <1>1, StockInvAlways, PTL

\* What is cleared was added to the stock, or its item was archived (apply_ticked).
THEOREM ClearedWasAdded == PantrySpec => []NoTickLost
<1>1. StockInv => NoTickLost
  BY DEF StockInv
<1> QED BY <1>1, StockInvAlways, PTL

\* A tick is added to the stock at most once, and never again after a late
\* replay of its id (tick_item: "a late replay never ticks again").
THEOREM TicksBuyOnce == PantrySpec => []TickBoughtOnce
<1>1. StockInv /\ TickBoughtOnce /\ [PantryNext]_pvars => TickBoughtOnce'
  <2> SUFFICES ASSUME StockInv, TickBoughtOnce, [PantryNext]_pvars
               PROVE  TickBoughtOnce'
    OBVIOUS
  <2>1. Types /\ Types' /\ Ticking' /\ \A k \in Tick : bought[k] <= 1
    BY StockInvNext DEF StockInv, TickBoughtOnce
  <2>2. \A k \in Tick : ticks'[k].state = "active" => bought'[k] = 0
    BY <2>1 DEF Ticking
  <2>3. CASE \E r \in Req : CommitMove(r)
    <3>1. PICK r \in Req : CommitMove(r)
      BY <2>3
    <3> DEFINE added == {preq[r].work[i].tick : i \in {j \in DOMAIN preq[r].work : ~preq[r].work[j].skips}}
    <3>2. /\ preq[r].pc = "move"
          /\ bought' = [k \in Tick |-> IF k \in added THEN bought[k] + 1 ELSE bought[k]]
      BY <3>1 DEF CommitMove
    <3>3. \A k \in added \cap Tick : k \in preq[r].ticks /\ ticks[k].state = "active"
      BY <3>2, Relies, PantryAssumption DEF WorkOK
    <3> HIDE DEF added
    <3>4. \A k \in Tick : bought'[k] <= 1
      <4> TAKE k \in Tick
      <4>1. bought[k] \in Nat /\ bought[k] <= 1
        BY <2>1 DEF Types
      <4>2. k \in added => bought[k] = 0
        BY <3>3 DEF TickBoughtOnce
      <4>3. bought'[k] = IF k \in added THEN bought[k] + 1 ELSE bought[k]
        BY <3>2
      <4> QED BY <4>1, <4>2, <4>3
    <3> QED BY <2>2, <3>4 DEF TickBoughtOnce
  <2>4. CASE ~\E r \in Req : CommitMove(r)
    <3>1. bought' = bought
      BY <2>4 DEF PantryNext, pvars, BeginAdjust, BeginBought, BeginApply, LockNext, Fail, BeginTick,
         CommitTick, Age, Untick, ChangeLine, Revive, Create, EditProduct, ArchiveProduct
    <3> QED BY <2>1, <2>2, <3>1 DEF TickBoughtOnce
  <2> QED BY <2>3, <2>4
<1>2. PantryInit => TickBoughtOnce
  BY DEF PantryInit, TickBoughtOnce
<1> QED BY <1>1, <1>2, StockInvAlways, PTL DEF PantrySpec

-----------------------------------------------------------------------------
\* One item on a phone.  Its taps form one row of pending writes, the offline queue first
\* and then the lane, and only the first of them can have reached the server.
ItemFields == {"qty", "min", "track", "prices", "name", "live", "seen"}
PageFields == {"copy", "fetch", "stale", "lane", "queue", "mark", "at", "online", "form", "found"}
IsTap(t, now) ==
    /\ DOMAIN t = {"by", "id", "stage", "snap"}
    /\ t.by \in {-1, 1} /\ t.id \in Nat /\ t.id < now /\ t.stage \in {"waiting", "sent", "ok", "gone"}

\* The taps on their way, and those in the offline queue.
Lane == page.lane
Queue == page.queue

ItemTypes ==
    /\ DOMAIN item = ItemFields /\ item.qty \in Nat /\ item.live \in BOOLEAN
    /\ DOMAIN page = PageFields /\ IsList(Lane) /\ IsList(Queue)
    /\ \A i \in 1 .. Len(Lane) : IsTap(Lane[i], acts)
    /\ \A i \in 1 .. Len(Queue) : IsTap(Queue[i], acts)
    /\ acts \in Nat /\ meant \in Nat /\ \A id \in item.seen : id \in Nat /\ id < acts

\* The taps that are not settled, in the order they were made: first the queue, then the lane.
Unsettled == Len(Queue) + Len(Lane)
Nth(i) == IF i <= Len(Queue) THEN Queue[i] ELSE Lane[i - Len(Queue)]
Carries(seen, n, t) == IF t.id \in seen THEN n ELSE Clamped(n + t.by)
After(n, t) == Carries(item.seen, n, t)

\* Only the first of them can have reached the server.
InOrder ==
    /\ \A i, j \in 1 .. Unsettled : Nth(i).id = Nth(j).id => i = j
    /\ \A i \in 2 .. Len(Lane) : Lane[i].stage = "waiting"
    /\ Queue # <<>> => page.mark
    /\ Lane # <<>> =>
          /\ Lane[1].stage # "waiting" => Queue = <<>>
          /\ Lane[1].stage # "gone"
          /\ Lane[1].stage = "ok" => After(item.qty, Lane[1]) = item.qty

\* Carried out one after another they lead from the server's quantity to the one that is meant.
LeadsTo(h) ==
    /\ h \in [0 .. Unsettled -> Nat] /\ h[0] = item.qty /\ h[Unsettled] = meant
    /\ \A i \in 1 .. Unsettled : h[i] = After(h[i - 1], Nth(i))

ItemInv == ItemTypes /\ (item.live /\ ~crossed => InOrder /\ \E h : LeadsTo(h))

-----------------------------------------------------------------------------
-----------------------------------------------------------------------------
\* A step that leaves the taps and the quantity alone.
LEMMA QuietStep ==
  ASSUME ItemInv,
         DOMAIN item' = ItemFields, item'.qty = item.qty, item'.seen = item.seen, item'.live \in BOOLEAN, item'.live => item.live,
         DOMAIN page' = PageFields, Lane' = Lane, Queue' = Queue,
         page'.mark = page.mark \/ (Queue = <<>>),
         meant' = meant, crossed' = crossed, acts' \in Nat, acts' >= acts
  PROVE  ItemInv'
<1>1. ItemTypes'
  <2>1. \A t : IsTap(t, acts) => IsTap(t, acts')
    BY DEF IsTap, ItemInv, ItemTypes
  <2>2. \A id \in item.seen : id \in Nat /\ id < acts'
    BY DEF ItemInv, ItemTypes
  <2>3. \A i \in 1 .. Len(Lane) : IsTap(Lane[i], acts')
    BY <2>1 DEF ItemInv, ItemTypes
  <2>4. \A i \in 1 .. Len(Queue) : IsTap(Queue[i], acts')
    BY <2>1 DEF ItemInv, ItemTypes
  <2> QED BY <2>2, <2>3, <2>4 DEF ItemInv, ItemTypes, IsTap
<1>2. Unsettled' = Unsettled /\ (\A i : Nth(i)' = Nth(i)) /\ (\A n, t : After(n, t)' = After(n, t))
  BY DEF Unsettled, Nth, After, Carries
<1>3. ASSUME item'.live, ~crossed' PROVE InOrder' /\ \E h : LeadsTo(h)'
  <2>1. InOrder /\ \E h : LeadsTo(h)
    BY <1>3 DEF ItemInv
  <2>2. InOrder'
    BY <1>2, <2>1 DEF InOrder
  <2>3. \A h : LeadsTo(h) => LeadsTo(h)'
    BY <1>2 DEF LeadsTo
  <2> QED BY <2>1, <2>2, <2>3
<1> QED BY <1>1, <1>3 DEF ItemInv

\* A new tap comes last.
LEMMA LastTap ==
  ASSUME NEW h, LeadsTo(h), Unsettled \in Nat, Unsettled' = Unsettled + 1, item' = item, meant \in Nat, NEW t, t.by \in Int, t.id \notin item.seen,
         meant' = Clamped(meant + t.by), \A i \in 1 .. Unsettled : Nth(i)' = Nth(i),
         \A i : i = Unsettled + 1 => Nth(i)' = t
  PROVE  \E g : LeadsTo(g)'
<1> DEFINE g == [i \in 0 .. Unsettled + 1 |-> IF i <= Unsettled THEN h[i] ELSE meant']
<1>1. meant' \in Nat
  BY DEF Clamped
<1>2. g \in [0 .. Unsettled' -> Nat]
  BY <1>1 DEF LeadsTo
<1>3. g[0] = item'.qty /\ g[Unsettled'] = meant' /\ g[Unsettled] = meant
  BY DEF LeadsTo
<1>4. ASSUME NEW i \in 1 .. Unsettled + 1 PROVE g[i] = Carries(item'.seen, g[i - 1], Nth(i)')
  <2>1. CASE i = Unsettled + 1
    <3>1. g[i] = meant' /\ g[i - 1] = meant /\ Nth(i)' = t
      <4>1. i - 1 = Unsettled
        BY <2>1
      <4> HIDE DEF g
      <4> QED BY <1>3, <2>1, <4>1
    <3> HIDE DEF g
    <3> QED BY <3>1 DEF After, Carries
  <2>2. CASE i # Unsettled + 1
    <3>1. i \in 1 .. Unsettled /\ g[i] = h[i] /\ g[i - 1] = h[i - 1]
      BY <2>2
    <3>2. h[i] = After(h[i - 1], Nth(i)) /\ Nth(i)' = Nth(i)
      BY <3>1 DEF LeadsTo
    <3> HIDE DEF g
    <3> QED BY <3>1, <3>2 DEF After, Carries
  <2> QED BY <2>1, <2>2
<1>5. PICK f : f = g
  OBVIOUS
<1> HIDE DEF g
<1> QED BY <1>2, <1>3, <1>4, <1>5 DEF LeadsTo, After

\* The first tap is carried out, a first or a second time, and settled.
LEMMA FirstTap ==
  ASSUME NEW h, LeadsTo(h), Unsettled \in Nat, Unsettled >= 1, Unsettled' = Unsettled - 1, item'.qty = h[1], meant' = meant,
         \A i, j \in 1 .. Unsettled : Nth(i).id = Nth(j).id => i = j,
         item'.seen = item.seen \/ item'.seen = item.seen \cup {Nth(1).id},
         \A i \in 1 .. Unsettled - 1 : Nth(i)' = Nth(i + 1)
  PROVE  \E g : LeadsTo(g)'
<1> DEFINE g == [i \in 0 .. Unsettled - 1 |-> h[i + 1]]
<1>1. g \in [0 .. Unsettled' -> Nat]
  BY DEF LeadsTo
<1>2. g[0] = item'.qty /\ g[Unsettled'] = meant'
  BY DEF LeadsTo
<1>3. ASSUME NEW i \in 1 .. Unsettled - 1 PROVE g[i] = Carries(item'.seen, g[i - 1], Nth(i)')
  <2>1. g[i] = h[i + 1] /\ g[i - 1] = h[i] /\ Nth(i)' = Nth(i + 1)
    OBVIOUS
  <2>2. h[i + 1] = After(h[i], Nth(i + 1))
    BY DEF LeadsTo
  <2>3. Nth(i + 1).id # Nth(1).id
    OBVIOUS
  <2> HIDE DEF g
  <2> QED BY <2>1, <2>2, <2>3 DEF After, Carries
<1>4. PICK f : f = g
  OBVIOUS
<1> HIDE DEF g
<1> QED BY <1>1, <1>2, <1>3, <1>4 DEF LeadsTo, After

\* The first tap is carried out and not settled yet.
LEMMA TapDone ==
  ASSUME NEW h, LeadsTo(h), Unsettled \in Nat, Unsettled >= 1, Unsettled' = Unsettled, item'.qty = h[1], meant' = meant,
         \A i, j \in 1 .. Unsettled : Nth(i).id = Nth(j).id => i = j,
         item'.seen = item.seen \/ item'.seen = item.seen \cup {Nth(1).id},
         Carries(item'.seen, h[1], Nth(1)) = h[1],
         \A i \in 1 .. Unsettled : Nth(i)'.id = Nth(i).id /\ Nth(i)'.by = Nth(i).by
  PROVE  \E g : LeadsTo(g)'
<1> DEFINE g == [i \in 0 .. Unsettled |-> IF i = 0 THEN h[1] ELSE h[i]]
<1>1. g \in [0 .. Unsettled' -> Nat] /\ g[0] = item'.qty /\ g[Unsettled'] = meant'
  BY DEF LeadsTo
<1>2. ASSUME NEW i \in 1 .. Unsettled PROVE g[i] = Carries(item'.seen, g[i - 1], Nth(i)')
  <2>1. CASE i = 1
    <3>1. g[1] = h[1] /\ g[0] = h[1]
      OBVIOUS
    <3>2. Nth(1)'.id = Nth(1).id /\ Nth(1)'.by = Nth(1).by
      OBVIOUS
    <3> HIDE DEF g
    <3> QED BY <2>1, <3>1, <3>2 DEF After, Carries
  <2>2. CASE i # 1
    <3>1. g[i] = h[i] /\ g[i - 1] = h[i - 1]
      BY <2>2
    <3>2. h[i] = After(h[i - 1], Nth(i)) /\ Nth(i)'.id = Nth(i).id /\ Nth(i)'.by = Nth(i).by
      BY DEF LeadsTo
    <3>3. Nth(i).id # Nth(1).id
      BY <2>2
    <3> HIDE DEF g
    <3> QED BY <3>1, <3>2, <3>3 DEF After, Carries
  <2> QED BY <2>1, <2>2
<1>3. PICK f : f = g
  OBVIOUS
<1> HIDE DEF g
<1> QED BY <1>1, <1>2, <1>3 DEF LeadsTo, After

-----------------------------------------------------------------------------
LEMMA SameTypes ==
  ASSUME ItemTypes, item' = item, acts' \in Nat, acts' >= acts, meant' \in Nat, DOMAIN page' = PageFields,
         IsList(Lane'), IsList(Queue'),
         \A i \in 1 .. Len(Lane') : IsTap(Lane'[i], acts'), \A i \in 1 .. Len(Queue') : IsTap(Queue'[i], acts')
  PROVE  ItemTypes'
BY DEF ItemTypes

LEMMA TapsStay == ASSUME ItemTypes, acts' \in Nat, acts' >= acts, NEW t, IsTap(t, acts) PROVE IsTap(t, acts')
BY DEF IsTap, ItemTypes

LEMMA OpenIs ==
  ASSUME ItemTypes
  PROVE  /\ Len(Lane) \in Nat /\ Len(Queue) \in Nat /\ Unsettled \in Nat
         /\ (Lane = <<>> <=> Len(Lane) = 0) /\ (Queue = <<>> <=> Len(Queue) = 0)
         /\ \A i \in 1 .. Unsettled : IsTap(Nth(i), acts)
<1>1. Len(Lane) \in Nat /\ Len(Queue) \in Nat /\ (Lane = <<>> <=> Len(Lane) = 0)
      /\ (Queue = <<>> <=> Len(Queue) = 0)
  BY ListIs DEF ItemTypes
<1>2. ASSUME NEW i \in 1 .. Unsettled PROVE IsTap(Nth(i), acts)
  <2>1. CASE i <= Len(Queue)
    BY <1>1, <2>1 DEF Nth, ItemTypes
  <2>2. CASE ~(i <= Len(Queue))
    <3>1. i - Len(Queue) \in 1 .. Len(Lane)
      BY <1>1, <2>2 DEF Unsettled
    <3> QED BY <2>2, <3>1 DEF Nth, ItemTypes
  <2> QED BY <2>1, <2>2
<1> QED BY <1>1, <1>2 DEF Unsettled

\* A tap takes its place behind the others.
LEMMA TapStep ==
  ASSUME ItemInv, NEW p, DOMAIN p = PageFields, p.lane = page.lane, p.queue = page.queue, p.mark = page.mark,
         p.online = page.online, NEW by \in {-1, 1}, TapItem(p, by)
  PROVE  ItemInv'
<1> DEFINE t == [by |-> by, id |-> acts, stage |-> "waiting", snap |-> p.copy]
           q == [Written(p, Query) EXCEPT !.fetch = [k \in Query |-> NoItemRequest],
                                          !.copy = [k \in Query |-> Adjusted(p.copy[k], by)]]
<1>1. page' = IF q.online THEN [q EXCEPT !.lane = Append(@, t)] ELSE ItemQueued(q, t)
  BY DEF TapItem, PerformItem
<1>2. /\ DOMAIN q = PageFields /\ q.lane = page.lane /\ q.queue = page.queue /\ q.mark = page.mark /\ q.online = page.online
  BY DEF Written, PageFields
<1>3. /\ DOMAIN t = {"by", "id", "stage", "snap"} /\ t.by = by /\ t.id = acts /\ t.stage = "waiting"
  OBVIOUS
<1>4. /\ item' = item /\ acts' = acts + 1 /\ meant' = Clamped(meant + by)
      /\ crossed' = (crossed \/ (~page.online /\ Lane # <<>>))
  BY DEF TapItem, Act, Lane
<1> HIDE DEF q, t
<1>5. /\ DOMAIN page' = PageFields
      /\ IF page.online THEN Lane' = Append(Lane, t) /\ Queue' = Queue /\ page'.mark = page.mark
         ELSE Lane' = Lane /\ Queue' = Append(Queue, t) /\ page'.mark = TRUE
  BY <1>1, <1>2 DEF ItemQueued, PageFields, Lane, Queue
<1>6. ItemTypes /\ acts \in Nat /\ meant \in Nat /\ acts' \in Nat /\ acts' >= acts /\ meant' \in Nat
  BY <1>4 DEF ItemInv, ItemTypes, Clamped
<1>7. IsTap(t, acts')
  BY <1>3, <1>4, <1>6 DEF IsTap
<1>8. IsList(Lane) /\ IsList(Queue)
  BY <1>6 DEF ItemTypes
<1>9. /\ IsList(Append(Lane, t)) /\ Len(Append(Lane, t)) = Len(Lane) + 1
      /\ (\A i \in 1 .. Len(Lane) : Append(Lane, t)[i] = Lane[i])
      /\ Append(Lane, t)[Len(Lane) + 1] = t
  BY <1>8, AppendIs
<1>10. /\ IsList(Append(Queue, t)) /\ Len(Append(Queue, t)) = Len(Queue) + 1
       /\ (\A i \in 1 .. Len(Queue) : Append(Queue, t)[i] = Queue[i])
       /\ Append(Queue, t)[Len(Queue) + 1] = t
  BY <1>8, AppendIs
<1>11. /\ Len(Lane) \in Nat /\ Len(Queue) \in Nat /\ Unsettled \in Nat
       /\ (Lane = <<>> <=> Len(Lane) = 0) /\ (Queue = <<>> <=> Len(Queue) = 0)
       /\ \A i \in 1 .. Unsettled : IsTap(Nth(i), acts)
  BY <1>6, OpenIs
<1>12. /\ \A i \in 1 .. Len(Lane) : IsTap(Lane[i], acts')
       /\ \A i \in 1 .. Len(Queue) : IsTap(Queue[i], acts')
  BY <1>6, TapsStay DEF ItemTypes
<1>13. ItemTypes'
  <2>1. IsList(Lane') /\ IsList(Queue')
    BY <1>5, <1>8, <1>9, <1>10
  <2>2. \A i \in 1 .. Len(Lane') : IsTap(Lane'[i], acts')
    <3> TAKE i \in 1 .. Len(Lane')
    <3>1. i \in 1 .. Len(Lane) \/ (page.online /\ i = Len(Lane) + 1)
      BY <1>5, <1>9, <1>11
    <3> QED BY <1>5, <1>7, <1>9, <1>12, <3>1
  <2>3. \A i \in 1 .. Len(Queue') : IsTap(Queue'[i], acts')
    <3> TAKE i \in 1 .. Len(Queue')
    <3>1. i \in 1 .. Len(Queue) \/ (~page.online /\ i = Len(Queue) + 1)
      BY <1>5, <1>10, <1>11
    <3> QED BY <1>5, <1>7, <1>10, <1>12, <3>1
  <2> QED BY <1>4, <1>5, <1>6, <2>1, <2>2, <2>3, SameTypes
<1>14. ASSUME item'.live, ~crossed' PROVE InOrder' /\ \E h : LeadsTo(h)'
  <2>1. ~crossed /\ item.live /\ (~page.online => Lane = <<>>)
    BY <1>4, <1>14
  <2>2. PICK h : LeadsTo(h)
    BY <2>1 DEF ItemInv
  <2>3. InOrder
    BY <2>1 DEF ItemInv
  <2>4. Unsettled' = Unsettled + 1
    BY <1>5, <1>9, <1>10, <1>11 DEF Unsettled
  <2>5. \A i \in 1 .. Unsettled : Nth(i)' = Nth(i)
    <3> TAKE i \in 1 .. Unsettled
    <3>1. CASE page.online
      <4>1. i <= Len(Queue) \/ (i - Len(Queue) \in 1 .. Len(Lane))
        BY <1>11 DEF Unsettled
      <4> QED BY <1>5, <1>9, <3>1, <4>1 DEF Nth
    <3>2. CASE ~page.online
      <4>1. i \in 1 .. Len(Queue) /\ i <= Len(Queue')
        BY <1>5, <1>10, <1>11, <2>1, <3>2 DEF Unsettled
      <4> QED BY <1>5, <1>10, <3>2, <4>1 DEF Nth
    <3> QED BY <3>1, <3>2
  <2>6. \A i : i = Unsettled + 1 => Nth(i)' = t
    <3> TAKE i
    <3> HAVE i = Unsettled + 1
    <3>1. CASE page.online
      <4>1. ~(i <= Len(Queue)) /\ i - Len(Queue) = Len(Lane) + 1
        BY <1>11 DEF Unsettled
      <4> QED BY <1>5, <1>9, <3>1, <4>1 DEF Nth
    <3>2. CASE ~page.online
      <4>1. i = Len(Queue) + 1 /\ i <= Len(Queue')
        BY <1>5, <1>10, <1>11, <2>1, <3>2 DEF Unsettled
      <4> QED BY <1>5, <1>10, <3>2, <4>1 DEF Nth
    <3> QED BY <3>1, <3>2
  <2>7. t.id \notin item.seen /\ \A i \in 1 .. Unsettled : Nth(i).id # t.id
    BY <1>3, <1>6, <1>11 DEF ItemTypes, IsTap
  <2>8. \E g : LeadsTo(g)'
    BY <1>3, <1>4, <1>6, <1>11, <2>2, <2>4, <2>5, <2>6, <2>7, LastTap
  <2>9. \A i, j \in 1 .. Unsettled' : Nth(i)'.id = Nth(j)'.id => i = j
    <3> TAKE i, j \in 1 .. Unsettled'
    <3>1. (i \in 1 .. Unsettled \/ i = Unsettled + 1) /\ (j \in 1 .. Unsettled \/ j = Unsettled + 1)
      BY <1>11, <2>4
    <3> QED BY <2>3, <2>5, <2>6, <2>7, <3>1 DEF InOrder
  <2>10. \A i \in 2 .. Len(Lane') : Lane'[i].stage = "waiting"
    <3> TAKE i \in 2 .. Len(Lane')
    <3>1. i \in 2 .. Len(Lane) \/ (page.online /\ i = Len(Lane) + 1)
      BY <1>5, <1>9, <1>11
    <3>2. i \in 2 .. Len(Lane) => i \in 1 .. Len(Lane)
      BY <1>11
    <3> QED BY <1>3, <1>5, <1>9, <2>3, <3>1, <3>2 DEF InOrder
  <2>11. Queue' # <<>> => page'.mark
    BY <1>5, <2>3 DEF InOrder
  <2>12. Lane' # <<>> =>
          /\ Lane'[1].stage # "waiting" => Queue' = <<>>
          /\ Lane'[1].stage # "gone"
          /\ Lane'[1].stage = "ok" => After(item.qty, Lane[1])' = item'.qty
    <3> HAVE Lane' # <<>>
    <3>1. page.online
      BY <1>5, <2>1
    <3>2. CASE Lane = <<>>
      BY <1>3, <1>5, <1>9, <1>11, <3>1, <3>2
    <3>3. CASE Lane # <<>>
      <4>1. Lane'[1] = Lane[1]
        BY <1>5, <1>9, <1>11, <3>1, <3>3
      <4> QED BY <1>4, <1>5, <2>3, <3>1, <3>3, <4>1 DEF InOrder, After
    <3> QED BY <3>2, <3>3
  <2>13. InOrder'
    BY <2>9, <2>10, <2>11, <2>12 DEF InOrder
  <2> QED BY <2>8, <2>13
<1> QED BY <1>13, <1>14 DEF ItemInv

\* The first tap of the lane goes to the end of the queue: the order stays.
LEMMA ToQueue ==
  ASSUME ItemInv, Lane # <<>>, Lane' = Tail(Lane), Queue' = Append(Queue, Head(Lane)), page'.mark = TRUE, DOMAIN page' = PageFields,
         item' = item, meant' = meant, crossed' = crossed, acts' = acts
  PROVE  ItemInv'
<1>1. ItemTypes /\ acts \in Nat /\ IsList(Lane) /\ IsList(Queue)
  BY DEF ItemInv, ItemTypes
<1>2. /\ Len(Lane) \in Nat /\ Len(Queue) \in Nat /\ Unsettled \in Nat /\ Len(Lane) >= 1
  BY <1>1, OpenIs
<1>3. /\ IsList(Lane') /\ Len(Lane') = Len(Lane) - 1 /\ Head(Lane) = Lane[1]
      /\ \A i \in 1 .. Len(Lane) - 1 : Lane'[i] = Lane[i + 1]
  BY <1>1, TailIs
<1>4. /\ IsList(Queue') /\ Len(Queue') = Len(Queue) + 1 /\ Queue'[Len(Queue) + 1] = Lane[1]
      /\ \A i \in 1 .. Len(Queue) : Queue'[i] = Queue[i]
  BY <1>1, <1>3, AppendIs
<1>5. /\ \A i \in 1 .. Len(Lane) : IsTap(Lane[i], acts)
      /\ \A i \in 1 .. Len(Queue) : IsTap(Queue[i], acts)
  BY <1>1 DEF ItemTypes
<1>6. ItemTypes'
  <2>1. \A i \in 1 .. Len(Lane') : IsTap(Lane'[i], acts')
    <3> TAKE i \in 1 .. Len(Lane')
    <3>1. i + 1 \in 1 .. Len(Lane) /\ i \in 1 .. Len(Lane) - 1
      BY <1>2, <1>3
    <3> QED BY <1>3, <1>5, <3>1
  <2>2. \A i \in 1 .. Len(Queue') : IsTap(Queue'[i], acts')
    <3> TAKE i \in 1 .. Len(Queue')
    <3>1. i \in 1 .. Len(Queue) \/ i = Len(Queue) + 1
      BY <1>2, <1>4
    <3>2. 1 \in 1 .. Len(Lane)
      BY <1>2
    <3> QED BY <1>4, <1>5, <3>1, <3>2
  <2> QED BY <1>1, <1>3, <1>4, <2>1, <2>2 DEF ItemTypes
<1>7. Unsettled' = Unsettled
  BY <1>2, <1>3, <1>4 DEF Unsettled
<1>8. \A i \in 1 .. Unsettled : Nth(i)' = Nth(i)
  <2> TAKE i \in 1 .. Unsettled
  <2>1. CASE i <= Len(Queue)
    <3>1. i \in 1 .. Len(Queue) /\ i <= Len(Queue')
      BY <1>2, <1>4, <2>1
    <3> QED BY <1>4, <2>1, <3>1 DEF Nth
  <2>2. CASE i = Len(Queue) + 1
    <3>1. i <= Len(Queue') /\ ~(i <= Len(Queue)) /\ i - Len(Queue) = 1
      BY <1>2, <1>4, <2>2
    <3> QED BY <1>4, <2>2, <3>1 DEF Nth
  <2>3. CASE i > Len(Queue) + 1
    <3>1. ~(i <= Len(Queue')) /\ ~(i <= Len(Queue)) /\ i - Len(Queue') \in 1 .. Len(Lane) - 1
          /\ i - Len(Queue') + 1 = i - Len(Queue)
      BY <1>2, <1>4, <2>3 DEF Unsettled
    <3> QED BY <1>3, <3>1 DEF Nth
  <2> QED BY <1>2, <2>1, <2>2, <2>3
<1>9. ASSUME item'.live, ~crossed' PROVE InOrder' /\ \E h : LeadsTo(h)'
  <2>1. InOrder /\ \E h : LeadsTo(h)
    BY <1>9 DEF ItemInv
  <2>2. \A h : LeadsTo(h) => LeadsTo(h)'
    BY <1>7, <1>8 DEF LeadsTo, After
  <2>3. \A i \in 1 .. Len(Lane') : Lane'[i].stage = "waiting"
    <3> TAKE i \in 1 .. Len(Lane')
    <3>1. i + 1 \in 2 .. Len(Lane) /\ i \in 1 .. Len(Lane) - 1
      BY <1>2, <1>3
    <3> QED BY <1>3, <2>1, <3>1 DEF InOrder
  <2>4. (Lane' # <<>> => 1 \in 1 .. Len(Lane')) /\ \A i \in 2 .. Len(Lane') : i \in 1 .. Len(Lane')
    BY <1>2, <1>3, ListIs
  <2>5. InOrder'
    BY <1>7, <1>8, <2>1, <2>3, <2>4 DEF InOrder
  <2> QED BY <2>1, <2>2, <2>5
<1> QED BY <1>6, <1>9 DEF ItemInv

\* The first tap of the lane reaches another stage.
LEMMA HeadStage ==
  ASSUME ItemInv, Lane # <<>>, NEW s \in {"sent", "ok", "gone"}, Lane' = <<[Head(Lane) EXCEPT !.stage = s]>> \o Tail(Lane),
         Queue' = Queue, page'.mark = page.mark, DOMAIN page' = PageFields, DOMAIN item' = ItemFields,
         item'.live = item.live, meant' = meant, crossed' = crossed, acts' = acts,
         item'.qty \in Nat, item'.seen = item.seen \/ item'.seen = item.seen \cup {Head(Lane).id},
         item.live /\ ~crossed => Queue = <<>> /\ s # "gone",
         NEW h, item.live /\ ~crossed => LeadsTo(h) /\ InOrder,
         \/ s = "sent" /\ item' = item
         \/ item.live => item'.qty = After(item.qty, Head(Lane)) /\ Carries(item'.seen, item'.qty, Head(Lane)) = item'.qty
  PROVE  ItemInv'
<1> DEFINE e == [Head(Lane) EXCEPT !.stage = s]
<1>1. ItemTypes /\ acts \in Nat /\ IsList(Lane) /\ IsList(Queue)
  BY DEF ItemInv, ItemTypes
<1>2. /\ Len(Lane) \in Nat /\ Len(Queue) \in Nat /\ Unsettled \in Nat /\ Len(Lane) >= 1
      /\ (Queue = <<>> <=> Len(Queue) = 0)
  BY <1>1, OpenIs
<1>3. Head(Lane) = Lane[1] /\ IsTap(Lane[1], acts)
  <2>1. 1 \in 1 .. Len(Lane)
    BY <1>2
  <2> QED BY <1>1, <2>1, TailIs DEF ItemTypes
<1>4. e.stage = s /\ e.id = Lane[1].id /\ e.by = Lane[1].by /\ IsTap(e, acts)
  BY <1>3 DEF IsTap
<1> HIDE DEF e
<1>5. /\ IsList(Lane') /\ Len(Lane') = Len(Lane) /\ Lane'[1] = e
      /\ \A i \in 2 .. Len(Lane) : Lane'[i] = Lane[i]
  BY <1>1, NewHeadIs DEF e
<1>6. /\ \A i \in 1 .. Len(Lane) : IsTap(Lane[i], acts)
      /\ \A i \in 1 .. Len(Queue) : IsTap(Queue[i], acts)
  BY <1>1 DEF ItemTypes
<1>7. ItemTypes'
  <2>1. \A i \in 1 .. Len(Lane') : IsTap(Lane'[i], acts')
    <3> TAKE i \in 1 .. Len(Lane')
    <3>1. i = 1 \/ (i \in 2 .. Len(Lane) /\ i \in 1 .. Len(Lane))
      BY <1>2, <1>5
    <3> QED BY <1>4, <1>5, <1>6, <3>1
  <2>2. \A id \in item'.seen : id \in Nat /\ id < acts'
    BY <1>1, <1>3 DEF ItemTypes, IsTap
  <2>3. item'.live \in BOOLEAN /\ acts' \in Nat /\ meant' \in Nat
    BY <1>1 DEF ItemTypes
  <2> QED BY <1>1, <1>5, <1>6, <2>1, <2>2, <2>3 DEF ItemTypes
<1>8. ASSUME item'.live, ~crossed' PROVE InOrder' /\ \E g : LeadsTo(g)'
  <2>1. InOrder /\ LeadsTo(h) /\ Queue = <<>> /\ Len(Queue) = 0 /\ s # "gone"
    BY <1>2, <1>8
  <2>2. Unsettled' = Unsettled /\ Unsettled = Len(Lane)
    BY <1>2, <1>5, <2>1 DEF Unsettled
  <2>3. \A i \in 1 .. Unsettled : Nth(i) = Lane[i] /\ Nth(i)' = Lane'[i]
    <3> TAKE i \in 1 .. Unsettled
    <3>1. ~(i <= 0) /\ i - 0 = i
      BY <2>2
    <3> QED BY <1>5, <2>1, <3>1 DEF Nth
  <2>4. \A i \in 1 .. Unsettled : Nth(i)'.id = Nth(i).id /\ Nth(i)'.by = Nth(i).by
    <3> TAKE i \in 1 .. Unsettled
    <3>1. i = 1 \/ i \in 2 .. Len(Lane)
      BY <1>2, <2>2
    <3>2. Nth(i) = Lane[i] /\ Nth(i)' = Lane'[i]
      BY <2>3
    <3>3. Lane'[i].id = Lane[i].id /\ Lane'[i].by = Lane[i].by
      <4>1. CASE i = 1
        BY <1>4, <1>5, <4>1
      <4>2. CASE i \in 2 .. Len(Lane)
        BY <1>5, <4>2
      <4> QED BY <3>1, <4>1, <4>2
    <3> HIDE DEF e
    <3> QED BY <3>2, <3>3
  <2>5. 1 \in 1 .. Unsettled /\ Nth(1) = Head(Lane) /\ h[1] = After(item.qty, Head(Lane)) /\ h[0] = item.qty
    <3>1. 1 \in 1 .. Unsettled
      BY <1>2, <2>2
    <3>2. h[1] = After(h[1 - 1], Nth(1)) /\ h[0] = item.qty
      BY <2>1, <3>1 DEF LeadsTo
    <3> QED BY <1>3, <2>3, <3>1, <3>2
  <2>6. \E g : LeadsTo(g)'
    <3>1. CASE item' = item
      <4>1. LeadsTo(h)'
        BY <2>1, <2>2, <2>4, <3>1 DEF LeadsTo, After, Carries
      <4> QED BY <4>1
    <3>2. CASE item'.qty = After(item.qty, Head(Lane)) /\ Carries(item'.seen, item'.qty, Head(Lane)) = item'.qty
      <4>1. Unsettled >= 1 /\ item'.qty = h[1] /\ Carries(item'.seen, h[1], Nth(1)) = h[1]
        BY <2>5, <3>2
      <4>2. \A i, j \in 1 .. Unsettled : Nth(i).id = Nth(j).id => i = j
        BY <2>1 DEF InOrder
      <4> QED BY <1>2, <2>1, <2>2, <2>4, <2>5, <4>1, <4>2, TapDone
    <3> QED BY <1>8, <3>1, <3>2
  <2>7. \A i, j \in 1 .. Unsettled' : Nth(i)'.id = Nth(j)'.id => i = j
    BY <2>1, <2>2, <2>4 DEF InOrder
  <2>8. \A i \in 2 .. Len(Lane') : Lane'[i].stage = "waiting"
    BY <1>5, <2>1 DEF InOrder
  <2>9. Lane'[1].stage = s /\ (s = "ok" => After(item.qty, Lane[1])' = item'.qty)
    <3>1. Lane'[1].stage = s
      BY <1>4, <1>5
    <3>2. Carries(item'.seen, item'.qty, Lane'[1]) = Carries(item'.seen, item'.qty, Lane[1])
      BY <1>4, <1>5 DEF Carries
    <3> QED BY <1>3, <1>8, <3>1, <3>2 DEF After
  <2> QED BY <2>1, <2>6, <2>7, <2>8, <2>9 DEF InOrder
<1> QED BY <1>7, <1>8 DEF ItemInv

\* The first tap of the lane is answered.
LEMMA AnswerStep == ASSUME ItemInv, ItemAnswer PROVE ItemInv'
<1>1. ItemTypes /\ acts \in Nat /\ IsList(Lane) /\ IsList(Queue) /\ Lane # <<>>
  BY DEF ItemInv, ItemTypes, ItemAnswer, Lane
<1>2. /\ Len(Lane) \in Nat /\ Len(Queue) \in Nat /\ Unsettled \in Nat /\ Len(Lane) >= 1
      /\ (Queue = <<>> <=> Len(Queue) = 0)
  BY <1>1, OpenIs
<1>3. /\ Lane' = Tail(Lane) /\ Queue' = Queue /\ page'.mark = page.mark /\ DOMAIN page' = PageFields
      /\ item' = item /\ meant' = meant /\ crossed' = crossed /\ acts' = acts
      /\ Head(Lane).stage \in {"ok", "gone"}
  BY <1>1 DEF ItemAnswer, Stepped, Invalidated, ItemSettled, ItemTypes, PageFields, Lane, Queue
<1>4. /\ IsList(Lane') /\ Len(Lane') = Len(Lane) - 1 /\ Head(Lane) = Lane[1]
      /\ \A i \in 1 .. Len(Lane) - 1 : Lane'[i] = Lane[i + 1]
  BY <1>1, <1>3, TailIs
<1>5. ItemTypes'
  <2>1. \A i \in 1 .. Len(Lane') : IsTap(Lane'[i], acts')
    <3> TAKE i \in 1 .. Len(Lane')
    <3>1. i + 1 \in 1 .. Len(Lane) /\ i \in 1 .. Len(Lane) - 1
      BY <1>2, <1>4
    <3> QED BY <1>1, <1>3, <1>4, <3>1 DEF ItemTypes
  <2> QED BY <1>1, <1>3, <1>4, <2>1 DEF ItemTypes
<1>6. ASSUME item'.live, ~crossed' PROVE InOrder' /\ \E h : LeadsTo(h)'
  <2>1. InOrder /\ \E h : LeadsTo(h)
    BY <1>3, <1>6 DEF ItemInv
  <2>2. PICK h : LeadsTo(h)
    BY <2>1
  <2>3. Queue = <<>> /\ Len(Queue) = 0 /\ Lane[1].stage = "ok" /\ After(item.qty, Lane[1]) = item.qty
    BY <1>1, <1>2, <1>3, <1>4, <2>1 DEF InOrder
  <2>4. Unsettled = Len(Lane) /\ Unsettled' = Unsettled - 1
    BY <1>2, <1>3, <1>4, <2>3 DEF Unsettled
  <2>5. \A i : i >= 1 /\ i \in Nat => Nth(i) = Lane[i] /\ Nth(i)' = Lane'[i]
    <3> TAKE i
    <3> HAVE i >= 1 /\ i \in Nat
    <3>1. ~(i <= 0) /\ i - 0 = i
      OBVIOUS
    <3> QED BY <1>3, <2>3, <3>1 DEF Nth
  <2>6. \A i \in 1 .. Unsettled - 1 : Nth(i)' = Nth(i + 1)
    <3> TAKE i \in 1 .. Unsettled - 1
    <3>1. i >= 1 /\ i \in Nat /\ i + 1 >= 1 /\ i + 1 \in Nat /\ i \in 1 .. Len(Lane) - 1
      BY <1>2, <2>4
    <3> QED BY <1>4, <2>5, <3>1
  <2>7. item'.qty = h[1]
    <3>1. 1 \in 1 .. Unsettled /\ Nth(1) = Lane[1]
      BY <1>2, <2>4, <2>5
    <3>2. h[1] = After(h[1 - 1], Nth(1)) /\ h[0] = item.qty
      BY <2>2, <3>1 DEF LeadsTo
    <3> QED BY <1>3, <2>3, <3>1, <3>2
  <2>8. \A i, j \in 1 .. Unsettled : Nth(i).id = Nth(j).id => i = j
    BY <2>1 DEF InOrder
  <2>9. \E g : LeadsTo(g)'
    <3>1. Unsettled >= 1
      BY <1>2, <2>4
    <3> QED BY <1>2, <1>3, <2>2, <2>4, <2>6, <2>7, <2>8, <3>1, FirstTap
  <2>10. \A i, j \in 1 .. Unsettled' : Nth(i)'.id = Nth(j)'.id => i = j
    <3> TAKE i, j \in 1 .. Unsettled'
    <3>1. i + 1 \in 1 .. Unsettled /\ j + 1 \in 1 .. Unsettled /\ i \in 1 .. Unsettled - 1 /\ j \in 1 .. Unsettled - 1
      BY <1>2, <2>4
    <3>2. Nth(i + 1).id = Nth(j + 1).id => i + 1 = j + 1
      BY <2>8, <3>1
    <3> QED BY <2>6, <3>1, <3>2
  <2>11. \A i \in 1 .. Len(Lane') : Lane'[i].stage = "waiting"
    <3> TAKE i \in 1 .. Len(Lane')
    <3>1. i + 1 \in 2 .. Len(Lane) /\ i \in 1 .. Len(Lane) - 1
      BY <1>2, <1>4
    <3> QED BY <1>4, <2>1, <3>1 DEF InOrder
  <2>12. (Lane' # <<>> => 1 \in 1 .. Len(Lane')) /\ \A i \in 2 .. Len(Lane') : i \in 1 .. Len(Lane')
    BY <1>2, <1>4, ListIs
  <2> QED BY <1>3, <2>1, <2>9, <2>10, <2>11, <2>12 DEF InOrder
<1> QED BY <1>5, <1>6 DEF ItemInv

\* The first tap of the queue is carried out.
LEMMA ReplayItemStep == ASSUME ItemInv, ReplayItem PROVE ItemInv'
<1> DEFINE t == Head(page.queue)
<1>1. ItemTypes /\ acts \in Nat /\ IsList(Lane) /\ IsList(Queue) /\ Queue # <<>>
  BY DEF ItemInv, ItemTypes, ReplayItem, Queue
<1>2. /\ Len(Lane) \in Nat /\ Len(Queue) \in Nat /\ Unsettled \in Nat /\ Len(Queue) >= 1
      /\ (Queue = <<>> <=> Len(Queue) = 0)
  BY <1>1, OpenIs
<1>3. /\ Queue' = Tail(Queue) /\ Lane' = Lane /\ page'.mark = page.mark /\ DOMAIN page' = PageFields
      /\ item' = ItemCarried(item, t) /\ meant' = meant /\ crossed' = crossed /\ acts' = acts
  BY <1>1 DEF ReplayItem, Invalidated, ItemTypes, PageFields, Lane, Queue
<1>4. /\ IsList(Queue') /\ Len(Queue') = Len(Queue) - 1 /\ t = Queue[1]
      /\ \A i \in 1 .. Len(Queue) - 1 : Queue'[i] = Queue[i + 1]
  BY <1>1, <1>3, TailIs DEF Queue
<1> HIDE DEF t
<1>5. IsTap(t, acts)
  <2>1. 1 \in 1 .. Len(Queue)
    BY <1>2
  <2> QED BY <1>1, <1>4, <2>1 DEF ItemTypes
<1>6. /\ DOMAIN item' = ItemFields /\ item'.live = item.live /\ item'.qty \in Nat
      /\ (item'.seen = item.seen \/ item'.seen = item.seen \cup {t.id})
      /\ item.live => item'.qty = After(item.qty, t)
  BY <1>1, <1>3, <1>5 DEF ItemCarried, ItemTypes, ItemFields, IsTap, After, Carries, Clamped
<1>7. ItemTypes'
  <2>1. \A i \in 1 .. Len(Queue') : IsTap(Queue'[i], acts')
    <3> TAKE i \in 1 .. Len(Queue')
    <3>1. i + 1 \in 1 .. Len(Queue) /\ i \in 1 .. Len(Queue) - 1
      BY <1>2, <1>4
    <3> QED BY <1>1, <1>3, <1>4, <3>1 DEF ItemTypes
  <2>2. \A id \in item'.seen : id \in Nat /\ id < acts'
    BY <1>1, <1>3, <1>5, <1>6 DEF ItemTypes, IsTap
  <2>3. item'.live \in BOOLEAN
    BY <1>1, <1>6 DEF ItemTypes
  <2> QED BY <1>1, <1>3, <1>4, <1>6, <2>1, <2>2, <2>3 DEF ItemTypes
<1>8. ASSUME item'.live, ~crossed' PROVE InOrder' /\ \E h : LeadsTo(h)'
  <2>1. item.live /\ InOrder /\ \E h : LeadsTo(h)
    BY <1>3, <1>6, <1>8 DEF ItemInv
  <2>2. PICK h : LeadsTo(h)
    BY <2>1
  <2>3. Unsettled' = Unsettled - 1 /\ Unsettled >= 1 /\ 1 \in 1 .. Unsettled
    BY <1>2, <1>3, <1>4 DEF Unsettled
  <2>4. Nth(1) = t
    BY <1>2, <1>4 DEF Nth
  <2>5. \A i \in 1 .. Unsettled - 1 : Nth(i)' = Nth(i + 1)
    <3> TAKE i \in 1 .. Unsettled - 1
    <3>1. CASE i <= Len(Queue) - 1
      <4>1. i \in 1 .. Len(Queue) - 1 /\ i <= Len(Queue') /\ i + 1 <= Len(Queue)
        BY <1>2, <1>4, <3>1
      <4> QED BY <1>4, <4>1 DEF Nth
    <3>2. CASE ~(i <= Len(Queue) - 1)
      <4>1. ~(i <= Len(Queue')) /\ ~(i + 1 <= Len(Queue)) /\ i - Len(Queue') = i + 1 - Len(Queue)
        BY <1>2, <1>4, <2>3, <3>2
      <4>2. Nth(i)' = Lane'[i - Len(Queue')]
        BY <4>1 DEF Nth
      <4>3. Nth(i + 1) = Lane[i + 1 - Len(Queue)]
        BY <4>1 DEF Nth
      <4>4. Lane' = Lane
        BY <1>3
      <4> HIDE DEF Lane, Queue
      <4> QED BY <4>1, <4>2, <4>3, <4>4
    <3> QED BY <3>1, <3>2
  <2>6. item'.qty = h[1]
    <3>1. h[1] = After(h[1 - 1], Nth(1)) /\ h[0] = item.qty
      BY <2>2, <2>3 DEF LeadsTo
    <3> QED BY <1>6, <2>1, <2>4, <3>1
  <2>7. \A i, j \in 1 .. Unsettled : Nth(i).id = Nth(j).id => i = j
    BY <2>1 DEF InOrder
  <2>8. \E g : LeadsTo(g)'
    BY <1>2, <1>3, <1>6, <2>2, <2>3, <2>4, <2>5, <2>6, <2>7, FirstTap
  <2>9. \A i, j \in 1 .. Unsettled' : Nth(i)'.id = Nth(j)'.id => i = j
    <3> TAKE i, j \in 1 .. Unsettled'
    <3>1. i + 1 \in 1 .. Unsettled /\ j + 1 \in 1 .. Unsettled /\ i \in 1 .. Unsettled - 1 /\ j \in 1 .. Unsettled - 1
      BY <1>2, <2>3
    <3>2. Nth(i + 1).id = Nth(j + 1).id => i + 1 = j + 1
      BY <2>7, <3>1
    <3> QED BY <2>5, <3>1, <3>2
  <2>10. Lane # <<>> => Lane[1].stage = "waiting"
    BY <1>1, <2>1 DEF InOrder
  <2>11. Queue' # <<>> => page'.mark
    BY <1>1, <1>3, <2>1 DEF InOrder
  <2>12. \A i \in 2 .. Len(Lane') : Lane'[i].stage = "waiting"
    BY <1>3, <2>1 DEF InOrder
  <2>13. Lane' # <<>> => Lane'[1].stage = "waiting"
    BY <1>3, <2>10
  <2> QED BY <2>8, <2>9, <2>11, <2>12, <2>13 DEF InOrder
<1> QED BY <1>7, <1>8 DEF ItemInv

\* It is sent, or goes to the queue behind an earlier one.
LEMMA SendStep == ASSUME ItemInv, SendItem PROVE ItemInv'
<1>1. /\ ItemTypes /\ Lane # <<>> /\ Head(Lane).stage = "waiting" /\ DOMAIN page = PageFields /\ DOMAIN item = ItemFields
      /\ item.qty \in Nat
  BY DEF ItemInv, ItemTypes, SendItem, ItemAtHead, Lane
<1>2. item' = item /\ meant' = meant /\ crossed' = crossed /\ acts' = acts
  BY DEF SendItem, Stepped
<1>3. CASE ~page.online \/ page.mark
  <2>1. page' = ItemSettled(ItemQueued(page, Head(page.lane)))
    BY <1>3 DEF SendItem, Stepped
  <2>2. Lane' = Tail(Lane) /\ Queue' = Append(Queue, Head(Lane)) /\ page'.mark = TRUE /\ DOMAIN page' = PageFields
    BY <1>1, <2>1 DEF ItemSettled, ItemQueued, PageFields, Lane, Queue
  <2> QED BY <1>1, <1>2, <2>2, ToQueue
<1>4. CASE ~(~page.online \/ page.mark)
  <2>1. page' = WithItemHead("sent")
    BY <1>4 DEF SendItem, Stepped
  <2>2. /\ Lane' = <<[Head(Lane) EXCEPT !.stage = "sent"]>> \o Tail(Lane)
        /\ Queue' = Queue /\ page'.mark = page.mark /\ DOMAIN page' = PageFields
    BY <1>1, <2>1 DEF WithItemHead, PageFields, Lane, Queue
  <2>3. item.live /\ ~crossed => Queue = <<>> /\ InOrder /\ \E h : LeadsTo(h)
    BY <1>4 DEF ItemInv, InOrder
  <2>4. PICK h : item.live /\ ~crossed => LeadsTo(h)
    BY <2>3
  <2> QED BY <1>1, <1>2, <2>2, <2>3, <2>4, HeadStage
<1> QED BY <1>3, <1>4

LEMMA ServeItemStep == ASSUME ItemInv, ServeItem PROVE ItemInv'
<1> DEFINE t == Head(Lane)
<1>1. /\ ItemTypes /\ Lane # <<>> /\ t.stage = "sent" /\ IsList(Lane) /\ acts \in Nat
      /\ DOMAIN page = PageFields /\ DOMAIN item = ItemFields /\ item.qty \in Nat /\ item.live \in BOOLEAN
  BY DEF ItemInv, ItemTypes, ServeItem, ItemAtHead, Lane
<1>2. item' = ItemCarried(item, t) /\ meant' = meant /\ crossed' = crossed /\ acts' = acts
      /\ page' = WithItemHead(IF item.live THEN "ok" ELSE "gone")
  BY DEF ServeItem, Lane
<1>3. IsTap(t, acts) /\ t = Lane[1]
  <2>1. 1 \in 1 .. Len(Lane)
    BY <1>1, OpenIs
  <2> QED BY <1>1, <2>1, TailIs DEF ItemTypes
<1> HIDE DEF t
<1>4. /\ DOMAIN item' = ItemFields /\ item'.live = item.live /\ item'.qty \in Nat
      /\ (item'.seen = item.seen \/ item'.seen = item.seen \cup {t.id})
      /\ item.live => item'.qty = After(item.qty, t) /\ Carries(item'.seen, item'.qty, t) = item'.qty
  BY <1>1, <1>2, <1>3 DEF ItemCarried, ItemTypes, ItemFields, IsTap, After, Carries, Clamped
<1>5. PICK s \in {"ok", "gone"} : s = IF item.live THEN "ok" ELSE "gone"
  OBVIOUS
<1>6. /\ Lane' = <<[Head(Lane) EXCEPT !.stage = s]>> \o Tail(Lane)
      /\ Queue' = Queue /\ page'.mark = page.mark /\ DOMAIN page' = PageFields
  BY <1>1, <1>2, <1>5 DEF WithItemHead, PageFields, Lane, Queue
<1>7. item.live /\ ~crossed => Queue = <<>> /\ s # "gone" /\ InOrder /\ \E h : LeadsTo(h)
  BY <1>1, <1>3, <1>5 DEF ItemInv, InOrder
<1>8. PICK h : item.live /\ ~crossed => LeadsTo(h)
  BY <1>7
<1>9. s \in {"sent", "ok", "gone"} /\ (item.live => item'.qty = After(item.qty, Head(Lane))
                                         /\ Carries(item'.seen, item'.qty, Head(Lane)) = item'.qty)
      /\ (item'.seen = item.seen \/ item'.seen = item.seen \cup {Head(Lane).id})
  BY <1>4 DEF t
<1> QED BY <1>1, <1>2, <1>4, <1>6, <1>7, <1>8, <1>9, HeadStage

LEMMA LoseTapStep == ASSUME ItemInv, LoseTap PROVE ItemInv'
<1>1. DOMAIN page = PageFields /\ Lane # <<>>
  BY DEF ItemInv, ItemTypes, LoseTap, Lane
<1>2. /\ page' = ItemSettled(ItemQueued(page, Head(page.lane)))
      /\ item' = item /\ meant' = meant /\ crossed' = crossed /\ acts' = acts
  BY DEF LoseTap, Lost
<1>3. Lane' = Tail(Lane) /\ Queue' = Append(Queue, Head(Lane)) /\ page'.mark = TRUE /\ DOMAIN page' = PageFields
  BY <1>1, <1>2 DEF ItemSettled, ItemQueued, PageFields, Lane, Queue
<1> QED BY <1>1, <1>2, <1>3, ToQueue

\* Everything else: the copies, the reads, the settings, the edit, the screens and the connection.
Elsewise ==
    \/ \E q \in Query : Read(q) \/ Land(q) \/ Go(q)
    \/ \E by \in {-1, 1} : StepMin(by)
    \/ \E n \in Names : Rename(n) \/ Elsewhere(n)
    \/ \E r \in reqs : ServeReq(r) \/ Answered(r) \/ Done(r) \/ Refused(r) \/ LoseReq(r)
    \/ Focus \/ LookUp \/ LeaveFound \/ ClearMark
    \/ SetTrack \/ AskPrices \/ Archive \/ OpenEdit \/ SaveEdit \/ SaveNothing \/ CloseEdit
    \/ ItemOffline \/ ItemOnline

SameItem ==
    /\ DOMAIN item' = ItemFields /\ item'.qty = item.qty /\ item'.seen = item.seen
    /\ item'.live \in BOOLEAN /\ (item'.live => item.live)
SamePage == DOMAIN page' = PageFields /\ Lane' = Lane /\ Queue' = Queue /\ (page'.mark = page.mark \/ Queue = <<>>)
SameCounts == meant' = meant /\ crossed' = crossed /\ acts' \in Nat /\ acts' >= acts

LEMMA ElseStep == ASSUME ItemInv, Elsewise PROVE ItemInv'
<1>1. /\ DOMAIN page = PageFields /\ DOMAIN item = ItemFields /\ item.live \in BOOLEAN /\ acts \in Nat
  BY DEF ItemInv, ItemTypes
<1>2. /\ item' = item => SameItem
      /\ page' = page => SamePage
      /\ acts' = acts \/ acts' = acts + 1 => acts' \in Nat /\ acts' >= acts
  BY <1>1 DEF SameItem, SamePage, Lane, Queue
<1>3. ASSUME NEW q \in Query, Read(q) \/ Land(q) \/ Go(q) PROVE SameItem /\ SamePage /\ SameCounts
  <2>1. CASE Read(q)
    BY <1>1, <1>2, <2>1 DEF Read, Stepped, SamePage, SameCounts, PageFields, Lane, Queue
  <2>2. CASE Land(q)
    BY <1>1, <1>2, <2>2 DEF Land, SamePage, SameCounts, PageFields, Lane, Queue
  <2>3. CASE Go(q)
    BY <1>1, <1>2, <2>3 DEF Go, Act, SamePage, SameCounts, PageFields, Lane, Queue
  <2> QED BY <1>3, <2>1, <2>2, <2>3
<1>4. ASSUME NEW kind, NEW value, Ask(kind, value) PROVE SameItem /\ SamePage /\ SameCounts
  BY <1>2, <1>4 DEF Ask, Act, SameCounts
<1>5. ASSUME NEW n \in Names, Rename(n) \/ Elsewhere(n) PROVE SameItem /\ SamePage /\ SameCounts
  <2>1. CASE Rename(n)
    BY <1>1, <1>2, <2>1 DEF Rename, Stepped, SamePage, SameCounts, PageFields, Lane, Queue
  <2>2. CASE Elsewhere(n)
    BY <1>1, <1>2, <2>2 DEF Elsewhere, Act, SameItem, SameCounts, ItemFields
  <2> QED BY <1>5, <2>1, <2>2
<1>6. ASSUME NEW r \in reqs, ServeReq(r) \/ Answered(r) \/ Done(r) \/ Refused(r) \/ LoseReq(r)
      PROVE  SameItem /\ SamePage /\ SameCounts
  <2>1. CASE ServeReq(r)
    <3>1. item' = item \/ item' = Changed(item, r)
      BY <2>1 DEF ServeReq
    <3>2. item' = Changed(item, r) => SameItem
      BY <1>1 DEF Changed, SameItem, ItemFields
    <3>3. page' = page /\ meant' = meant /\ crossed' = crossed /\ acts' = acts
      BY <2>1 DEF ServeReq
    <3> QED BY <1>2, <3>1, <3>2, <3>3 DEF SameCounts
  <2>2. CASE Answered(r)
    <3> DEFINE p == WithReply(page, r)
    <3>1. DOMAIN p = PageFields /\ p.lane = page.lane /\ p.queue = page.queue /\ p.mark = page.mark
      BY <1>1 DEF WithReply, Written, PageFields
    <3>2. page' = Invalidated(p, Query) \/ page' = [Invalidated(p, {"list"}) EXCEPT !.stale = Query]
      BY <2>2 DEF Answered
    <3> HIDE DEF p
    <3>3. SamePage
      BY <3>1, <3>2 DEF Invalidated, SamePage, PageFields, Lane, Queue
    <3> QED BY <1>2, <2>2, <3>3 DEF Answered, SameCounts
  <2>3. CASE Done(r)
    <3>1. SamePage
      BY <1>1, <1>2, <2>3 DEF Done, SamePage, PageFields, Lane, Queue
    <3> QED BY <1>2, <2>3, <3>1 DEF Done, SameCounts
  <2>4. CASE Refused(r)
    BY <1>2, <2>4 DEF Refused, SameCounts
  <2>5. CASE LoseReq(r)
    BY <1>2, <2>5 DEF LoseReq, Lost, SameCounts
  <2> QED BY <1>6, <2>1, <2>2, <2>3, <2>4, <2>5
<1>7. ASSUME Focus \/ LookUp \/ LeaveFound \/ ClearMark PROVE SameItem /\ SamePage /\ SameCounts
  <2>1. CASE Focus
    BY <1>1, <1>2, <2>1 DEF Focus, Act, SamePage, SameCounts, PageFields, Lane, Queue
  <2>2. CASE LookUp
    BY <1>1, <1>2, <2>2 DEF LookUp, Act, SamePage, SameCounts, PageFields, Lane, Queue
  <2>3. CASE LeaveFound
    BY <1>1, <1>2, <2>3 DEF LeaveFound, Stepped, SamePage, SameCounts, PageFields, Lane, Queue
  <2>4. CASE ClearMark
    BY <1>1, <1>2, <2>4 DEF ClearMark, Stepped, SamePage, SameCounts, PageFields, Lane, Queue
  <2> QED BY <1>7, <2>1, <2>2, <2>3, <2>4
<1>8. ASSUME OpenEdit \/ SaveNothing \/ CloseEdit PROVE SameItem /\ SamePage /\ SameCounts
  <2>1. CASE OpenEdit
    BY <1>1, <1>2, <2>1 DEF OpenEdit, Stepped, SamePage, SameCounts, PageFields, Lane, Queue
  <2>2. CASE SaveNothing
    BY <1>1, <1>2, <2>2 DEF SaveNothing, Stepped, SamePage, SameCounts, PageFields, Lane, Queue
  <2>3. CASE CloseEdit
    BY <1>1, <1>2, <2>3 DEF CloseEdit, SamePage, SameCounts, PageFields, Lane, Queue
  <2> QED BY <1>8, <2>1, <2>2, <2>3
<1>9. ASSUME ItemOffline \/ ItemOnline PROVE SameItem /\ SamePage /\ SameCounts
  <2>1. CASE ItemOffline
    BY <1>1, <1>2, <2>1 DEF ItemOffline, Lost, SamePage, SameCounts, PageFields, Lane, Queue
  <2>2. CASE ItemOnline
    BY <1>1, <1>2, <2>2 DEF ItemOnline, Stepped, SamePage, SameCounts, PageFields, Lane, Queue
  <2> QED BY <1>9, <2>1, <2>2
<1>10. SameItem /\ SamePage /\ SameCounts
  BY <1>3, <1>4, <1>5, <1>6, <1>7, <1>8, <1>9 DEF Elsewise, StepMin, SetTrack, AskPrices, Archive, SaveEdit
<1> QED BY <1>10, QuietStep DEF SameItem, SamePage, SameCounts

LEMMA ItemInvNext == ItemInv /\ [ItemNext]_itemVars => ItemInv'
<1> SUFFICES ASSUME ItemInv, [ItemNext]_itemVars PROVE ItemInv'
  OBVIOUS
<1>1. DOMAIN page = PageFields /\ DOMAIN item = ItemFields /\ item.live \in BOOLEAN /\ acts \in Nat
  BY DEF ItemInv, ItemTypes
<1>2. ASSUME NEW by \in {-1, 1}, StepQuantity(by) PROVE ItemInv'
  BY <1>1, <1>2, TapStep DEF StepQuantity
<1>3. ASSUME NEW by \in {-1, 1}, StepFound(by) PROVE ItemInv'
  <2> DEFINE p == [page EXCEPT !.found.by = @ + by]
  <2>1. /\ DOMAIN p = PageFields /\ p.lane = page.lane /\ p.queue = page.queue /\ p.mark = page.mark
        /\ p.online = page.online
    BY <1>1 DEF PageFields
  <2>2. TapItem(p, by)
    BY <1>3 DEF StepFound
  <2> HIDE DEF p
  <2> QED BY <2>1, <2>2, TapStep
<1>4. ASSUME UNCHANGED itemVars PROVE ItemInv'
  <2>1. item' = item /\ page' = page /\ meant' = meant /\ crossed' = crossed /\ acts' = acts
    BY <1>4 DEF itemVars
  <2>2. acts' >= acts /\ Lane' = Lane /\ Queue' = Queue
    BY <1>1, <2>1 DEF Lane, Queue
  <2> QED BY <1>1, <2>1, <2>2, QuietStep
<1> QED BY <1>2, <1>3, <1>4, SendStep, ServeItemStep, AnswerStep, LoseTapStep, ReplayItemStep, ElseStep DEF ItemNext, Elsewise

LEMMA ItemInvInit == ItemInit => ItemInv
<1> SUFFICES ASSUME ItemInit PROVE ItemInv
  OBVIOUS
<1>1. /\ DOMAIN item = ItemFields /\ item.qty \in Nat /\ item.live = TRUE /\ item.seen = {}
      /\ DOMAIN page = PageFields /\ Lane = <<>> /\ Queue = <<>> /\ page.mark = FALSE
      /\ meant = item.qty /\ crossed = FALSE /\ acts = 0
  BY PantryItemAssumption DEF ItemInit, ItemFields, PageFields, Lane, Queue
<1>2. IsList(<<>>) /\ Len(<<>>) = 0
  <2>1. <<>> \in Seq({}) /\ Len(<<>>) = 0
    OBVIOUS
  <2> QED BY <2>1 DEF IsList
<1>3. ItemTypes
  <2>1. IsList(Lane) /\ IsList(Queue) /\ Len(Lane) = 0 /\ Len(Queue) = 0
    BY <1>1, <1>2
  <2>2. \A i : i \notin 1 .. 0
    OBVIOUS
  <2> QED BY <1>1, <2>1, <2>2 DEF ItemTypes
<1>4. Unsettled = 0
  BY <1>1, <1>2 DEF Unsettled
<1>5. InOrder
  BY <1>1, <1>2, <1>4 DEF InOrder
<1>6. LeadsTo([i \in 0 .. 0 |-> item.qty])
  BY <1>1, <1>4 DEF LeadsTo
<1> QED BY <1>3, <1>5, <1>6 DEF ItemInv

\* Once every tap has reached the server the quantity is what the taps add up to, each counted once and none below zero,
\* through the lane, lost answers, the queue and the screens, for any number of taps and any quantities.
THEOREM TapsAreCounted == ItemSpec => []TapsAddUp
<1>1. ItemInv => TapsAddUp
  <2> SUFFICES ASSUME ItemInv, page.lane = <<>>, page.queue = <<>>, item.live, ~crossed PROVE item.qty = meant
    BY DEF TapsAddUp, TapsSettled
  <2>1. PICK h : LeadsTo(h)
    BY DEF ItemInv
  <2>2. Unsettled = 0
    BY DEF Unsettled, Lane, Queue
  <2> QED BY <2>1, <2>2 DEF LeadsTo
<1> QED BY <1>1, ItemInvInit, ItemInvNext, PTL DEF ItemSpec

-----------------------------------------------------------------------------
\* The list on a phone.

\* The writes of a row in a lane or in the queue, the last of them, and an "add" that comes before all others of its line.
Of(q, r) == {t \in {q[k] : k \in 1 .. Len(q)} : t.row = r}
Lasts(q, r) == {q[k] : k \in {k \in 1 .. Len(q) : q[k].row = r /\ \A m \in k + 1 .. Len(q) : q[m].row # r}}
AddsFirst(q, r) ==
    \A k \in 1 .. Len(q) : q[k].row = r /\ q[k].kind = "add" => \A m \in 1 .. k - 1 : q[m].row # r
HasAdd(T) == \E t \in T : t.kind = "add"

LEMMA OfAppend ==
  ASSUME NEW q, IsList(q), NEW t, NEW r
  PROVE  /\ Of(Append(q, t), r) = IF t.row = r THEN Of(q, r) \cup {t} ELSE Of(q, r)
         /\ Lasts(Append(q, t), r) = IF t.row = r THEN {t} ELSE Lasts(q, r)
         /\ AddsFirst(q, r) /\ (t.row = r /\ t.kind = "add" => Of(q, r) = {}) => AddsFirst(Append(q, t), r)
<1> DEFINE q2 == Append(q, t)
<1>1. /\ IsList(q2) /\ Len(q2) = Len(q) + 1 /\ Len(q) \in Nat
      /\ (\A k \in 1 .. Len(q) : q2[k] = q[k]) /\ q2[Len(q) + 1] = t
  BY AppendIs, ListIs
<1> HIDE DEF q2
<1>2. Of(q2, r) = IF t.row = r THEN Of(q, r) \cup {t} ELSE Of(q, r)
  <2>1. {q2[k] : k \in 1 .. Len(q2)} = {q[k] : k \in 1 .. Len(q)} \cup {t}
    BY <1>1
  <2> QED BY <2>1 DEF Of
<1>3. Lasts(q2, r) = IF t.row = r THEN {t} ELSE Lasts(q, r)
  <2> DEFINE K(p) == {k \in 1 .. Len(p) : p[k].row = r /\ \A m \in k + 1 .. Len(p) : p[m].row # r}
  <2>1. CASE t.row = r
    <3>1. K(q2) = {Len(q) + 1}
      <4>1. Len(q) + 1 \in K(q2)
        BY <1>1, <2>1
      <4>2. ASSUME NEW k \in K(q2) PROVE k = Len(q) + 1
        <5>1. k \in 1 .. Len(q) => Len(q) + 1 \in k + 1 .. Len(q2)
          BY <1>1
        <5> QED BY <1>1, <2>1, <5>1
      <4> HIDE DEF K
      <4> QED BY <4>1, <4>2
    <3>2. Lasts(q2, r) = {q2[k] : k \in K(q2)}
      BY DEF Lasts
    <3> HIDE DEF K
    <3> QED BY <1>1, <2>1, <3>1, <3>2
  <2>2. CASE t.row # r
    <3>1. K(q2) = K(q)
      <4>1. ASSUME NEW k \in K(q2) PROVE k \in K(q)
        <5>1. k \in 1 .. Len(q2) /\ q2[k].row = r /\ \A m \in k + 1 .. Len(q2) : q2[m].row # r
          OBVIOUS
        <5>2. k \in 1 .. Len(q) /\ q[k].row = r
          BY <1>1, <2>2, <5>1
        <5>3. ASSUME NEW m \in k + 1 .. Len(q) PROVE q[m].row # r
          <6>1. m \in k + 1 .. Len(q2) /\ m \in 1 .. Len(q)
            BY <1>1, <5>2
          <6> QED BY <1>1, <5>1, <6>1
        <5> QED BY <5>2, <5>3
      <4>2. ASSUME NEW k \in K(q) PROVE k \in K(q2)
        <5>1. k \in 1 .. Len(q) /\ q[k].row = r /\ \A m \in k + 1 .. Len(q) : q[m].row # r
          OBVIOUS
        <5>2. k \in 1 .. Len(q2) /\ q2[k].row = r
          BY <1>1, <5>1
        <5>3. ASSUME NEW m \in k + 1 .. Len(q2) PROVE q2[m].row # r
          <6>1. m = Len(q) + 1 \/ (m \in k + 1 .. Len(q) /\ m \in 1 .. Len(q))
            BY <1>1, <5>1
          <6> QED BY <1>1, <2>2, <5>1, <6>1
        <5> QED BY <5>2, <5>3
      <4> QED BY <4>1, <4>2
    <3>2. \A k \in K(q) : q2[k] = q[k]
      BY <1>1
    <3>3. Lasts(q2, r) = {q2[k] : k \in K(q2)} /\ Lasts(q, r) = {q[k] : k \in K(q)}
      BY DEF Lasts
    <3> HIDE DEF K
    <3> QED BY <2>2, <3>1, <3>2, <3>3
  <2> QED BY <2>1, <2>2
<1>4. ASSUME AddsFirst(q, r), t.row = r /\ t.kind = "add" => Of(q, r) = {} PROVE AddsFirst(q2, r)
  <2> SUFFICES ASSUME NEW k \in 1 .. Len(q2), q2[k].row = r, q2[k].kind = "add", NEW m \in 1 .. k - 1 PROVE q2[m].row # r
    BY DEF AddsFirst
  <2>1. m \in 1 .. Len(q) /\ q2[m] = q[m]
    BY <1>1
  <2>2. CASE k \in 1 .. Len(q)
    BY <1>1, <1>4, <2>1, <2>2 DEF AddsFirst
  <2>3. CASE k = Len(q) + 1
    BY <1>1, <1>4, <2>1, <2>3 DEF Of
  <2> QED BY <1>1, <2>2, <2>3
<1> QED BY <1>2, <1>3, <1>4 DEF q2

LEMMA OfTail ==
  ASSUME NEW q, IsList(q), q # <<>>, NEW r
  PROVE  /\ Of(q, r) = IF q[1].row = r THEN Of(Tail(q), r) \cup {q[1]} ELSE Of(Tail(q), r)
         /\ Lasts(Tail(q), r) \subseteq Lasts(q, r)
         /\ q[1].row = r /\ Of(Tail(q), r) = {} => q[1] \in Lasts(q, r)
         /\ Lasts(q, r) \subseteq Lasts(Tail(q), r) \cup (IF Of(Tail(q), r) = {} THEN {q[1]} ELSE {})
         /\ q[1].row = r => (AddsFirst(q, r) <=> ~HasAdd(Of(Tail(q), r)))
         /\ q[1].row # r => (AddsFirst(q, r) <=> AddsFirst(Tail(q), r))
         /\ AddsFirst(q, r) => AddsFirst(Tail(q), r)
<1> DEFINE p == Tail(q)
<1>1. /\ IsList(p) /\ Len(p) = Len(q) - 1 /\ Len(q) \in Nat /\ Len(q) >= 1
      /\ \A k \in 1 .. Len(q) - 1 : p[k] = q[k + 1]
  BY TailIs
<1> HIDE DEF p
<1>2. \A k \in 2 .. Len(q) : k - 1 \in 1 .. Len(p) /\ q[k] = p[k - 1]
  BY <1>1
<1>3. \A k \in 1 .. Len(p) : k + 1 \in 2 .. Len(q) /\ p[k] = q[k + 1]
  BY <1>1
<1>4. {q[k] : k \in 1 .. Len(q)} = {p[k] : k \in 1 .. Len(p)} \cup {q[1]}
  <2>1. 1 \in 1 .. Len(q) /\ \A k \in 1 .. Len(q) : k = 1 \/ k \in 2 .. Len(q)
    BY <1>1
  <2>2. \A k \in 1 .. Len(q) : q[k] \in {p[m] : m \in 1 .. Len(p)} \cup {q[1]}
    BY <1>2, <2>1
  <2>3. \A k \in 1 .. Len(p) : p[k] \in {q[m] : m \in 1 .. Len(q)}
    <3>1. \A k \in 1 .. Len(p) : k + 1 \in 1 .. Len(q)
      BY <1>1
    <3> QED BY <1>3, <3>1
  <2> QED BY <2>1, <2>2, <2>3
<1>5. Of(q, r) = IF q[1].row = r THEN Of(p, r) \cup {q[1]} ELSE Of(p, r)
  BY <1>4 DEF Of
<1>6. Lasts(p, r) \subseteq Lasts(q, r)
  <2> SUFFICES ASSUME NEW k \in 1 .. Len(p), p[k].row = r, \A m \in k + 1 .. Len(p) : p[m].row # r PROVE p[k] \in Lasts(q, r)
    BY DEF Lasts
  <2>1. k + 1 \in 1 .. Len(q) /\ q[k + 1] = p[k]
    BY <1>1
  <2>2. ASSUME NEW m \in (k + 1) + 1 .. Len(q) PROVE q[m].row # r
    <3>1. m \in 2 .. Len(q) /\ m - 1 \in k + 1 .. Len(p)
      BY <1>1
    <3> QED BY <1>2, <3>1
  <2> QED BY <2>1, <2>2 DEF Lasts
<1>7. ASSUME q[1].row = r, Of(p, r) = {} PROVE q[1] \in Lasts(q, r)
  <2>1. 1 \in 1 .. Len(q)
    BY <1>1
  <2>2. ASSUME NEW m \in 1 + 1 .. Len(q) PROVE q[m].row # r
    <3>1. m - 1 \in 1 .. Len(p) /\ q[m] = p[m - 1]
      BY <1>1
    <3> QED BY <1>7, <3>1 DEF Of
  <2> QED BY <1>7, <2>1, <2>2 DEF Lasts
<1>8. Lasts(q, r) \subseteq Lasts(p, r) \cup (IF Of(p, r) = {} THEN {q[1]} ELSE {})
  <2> SUFFICES ASSUME NEW k \in 1 .. Len(q), q[k].row = r, \A m \in k + 1 .. Len(q) : q[m].row # r
               PROVE  q[k] \in Lasts(p, r) \cup (IF Of(p, r) = {} THEN {q[1]} ELSE {})
    BY DEF Lasts
  <2>1. CASE k = 1
    <3>1. ASSUME NEW m \in 1 .. Len(p) PROVE p[m].row # r
      <4>1. m + 1 \in k + 1 .. Len(q)
        BY <1>1, <2>1
      <4> QED BY <1>3, <4>1
    <3>2. Of(p, r) = {}
      BY <3>1 DEF Of
    <3> QED BY <2>1, <3>2
  <2>2. CASE k # 1
    <3>1. k - 1 \in 1 .. Len(p) /\ q[k] = p[k - 1]
      BY <1>1, <2>2
    <3>2. ASSUME NEW m \in (k - 1) + 1 .. Len(p) PROVE p[m].row # r
      <4>1. m \in 1 .. Len(p) /\ m + 1 \in k + 1 .. Len(q)
        BY <1>1, <2>2
      <4> QED BY <1>3, <4>1
    <3> QED BY <3>1, <3>2 DEF Lasts
  <2> QED BY <2>1, <2>2
<1>9. ASSUME q[1].row = r PROVE AddsFirst(q, r) <=> ~HasAdd(Of(p, r))
  <2>1. ASSUME AddsFirst(q, r) PROVE ~HasAdd(Of(p, r))
    <3> SUFFICES ASSUME NEW k \in 1 .. Len(p), p[k].row = r, p[k].kind = "add" PROVE FALSE
      BY DEF HasAdd, Of
    <3>1. k + 1 \in 1 .. Len(q) /\ q[k + 1] = p[k] /\ 1 \in 1 .. (k + 1) - 1
      BY <1>1
    <3> QED BY <1>9, <2>1, <3>1 DEF AddsFirst
  <2>2. ASSUME ~HasAdd(Of(p, r)) PROVE AddsFirst(q, r)
    <3> SUFFICES ASSUME NEW k \in 1 .. Len(q), q[k].row = r, q[k].kind = "add", NEW m \in 1 .. k - 1 PROVE q[m].row # r
      BY DEF AddsFirst
    <3>1. k - 1 \in 1 .. Len(p) /\ q[k] = p[k - 1]
      BY <1>1
    <3> QED BY <2>2, <3>1 DEF HasAdd, Of
  <2> QED BY <2>1, <2>2
<1>10. ASSUME AddsFirst(q, r) PROVE AddsFirst(p, r)
  <2> SUFFICES ASSUME NEW k \in 1 .. Len(p), p[k].row = r, p[k].kind = "add", NEW m \in 1 .. k - 1 PROVE p[m].row # r
    BY DEF AddsFirst
  <2>1. k + 1 \in 1 .. Len(q) /\ q[k + 1] = p[k] /\ m + 1 \in 1 .. (k + 1) - 1 /\ m \in 1 .. Len(p)
    BY <1>1
  <2> QED BY <1>3, <1>10, <2>1 DEF AddsFirst
<1>11. ASSUME q[1].row # r, AddsFirst(p, r) PROVE AddsFirst(q, r)
  <2> SUFFICES ASSUME NEW k \in 1 .. Len(q), q[k].row = r, q[k].kind = "add", NEW m \in 1 .. k - 1 PROVE q[m].row # r
    BY DEF AddsFirst
  <2>1. k # 1
    BY <1>11
  <2>2. k - 1 \in 1 .. Len(p) /\ q[k] = p[k - 1]
    BY <1>1, <2>1
  <2>3. m = 1 \/ (m - 1 \in 1 .. (k - 1) - 1 /\ m \in 2 .. Len(q))
    BY <1>1
  <2> QED BY <1>2, <1>11, <2>2, <2>3 DEF AddsFirst
<1> QED BY <1>5, <1>6, <1>7, <1>8, <1>9, <1>10, <1>11 DEF p

-----------------------------------------------------------------------------
WriteFields == {"row", "kind", "id", "was", "to", "snap", "stage"}
IsWrite(t, r, n) ==
    /\ DOMAIN t = WriteFields /\ t.row = r
    /\ r \in Items => (t.kind = "tick" /\ t.id \in 0 .. n) \/ t.kind = "untick"
    /\ r \in Lines => t.kind \in {"add", "delete"} \/ (t.kind = "check" /\ t.to \in {"open", "checked"})
IsShop(s, n) ==
    /\ DOMAIN s = {"tick", "bought", "lines"} /\ DOMAIN s.tick = Items /\ DOMAIN s.lines = Lines
    /\ \A i \in Items : s.tick[i] = None \/ s.tick[i] \in 0 .. n
    /\ \A x \in s.bought : x \in 0 .. n
    /\ \A l \in Lines : s.lines[l] \in {None, "open", "checked", "bought"}

\* What a write has brought about when it was carried out, and what the last one of a row has to bring about.
Effected(r, t, s) ==
    /\ t.kind = "tick" => s.tick[r] # None \/ t.id \in s.bought
    /\ t.kind = "untick" => s.tick[r] = None
    /\ t.kind = "add" => s.lines[r] = "open"
    /\ t.kind = "check" => s.lines[r] \notin {"open", "checked"} \/ s.lines[r] = t.to
    /\ t.kind = "delete" => s.lines[r] \notin {"open", "checked"}
Final(t, s, w) ==
    /\ t.kind = "tick" => w # None /\ t.id \notin s.bought
    /\ t.kind = "untick" => w = None
    /\ t.kind = "add" => w \in {None, "open"}
    /\ t.kind = "check" => w \in {None, t.to}
Stands(r, s, w) ==
    /\ r \in Items => (s.tick[r] # None <=> w # None)
    /\ r \in Lines /\ w \in {"open", "checked"} => s.lines[r] = w

\* One row: q is the queue, o the lane of the row, w what was last wished for it.
\* Its writes reach the server one after another, in the order they were made,
InTurn(r, q, o) ==
    /\ \A k \in 1 .. Len(o) : o[k].row = r
    /\ \A k \in 2 .. Len(o) : o[k].stage = "waiting"
    /\ o # <<>> /\ o[1].stage # "waiting" => Of(q, r) = {}
    /\ AddsFirst(q, r) /\ AddsFirst(o, r) /\ (HasAdd(Of(o, r)) => Of(q, r) = {})
\* ... the last of them is what is wished,
LastWins(r, q, o, s, w) ==
    /\ o # <<>> => \A t \in Lasts(o, r) : Final(t, s, w)
    /\ o = <<>> => \A t \in Lasts(q, r) : Final(t, s, w)
    /\ o = <<>> /\ Of(q, r) = {} => Stands(r, s, w)
\* ... and a line is there, or will be, until its deletion is on its way.
LineStays(r, T, s, w) ==
    /\ HasAdd(T) => s.lines[r] \in {None, "open"}
    /\ w = None => (\E t \in T : t.kind = "delete") \/ (s.lines[r] \notin {"open", "checked"} /\ ~HasAdd(T))
    /\ w \in {"open", "checked"} =>
          /\ \A t \in T : t.kind # "delete"
          /\ s.lines[r] \in {"open", "checked"} \/ HasAdd(T)
RowInv(r, q, o, s, w) ==
    /\ InTurn(r, q, o)
    /\ o # <<>> /\ o[1].stage \in {"ok", "missing"} => Effected(r, o[1], s)
    /\ LastWins(r, q, o, s, w)
    /\ r \in Lines => LineStays(r, Of(q, r) \cup Of(o, r), s, w)

LEMMA KindIs ==
  ASSUME NEW r \in Row, NEW n, NEW t, IsWrite(t, r, n)
  PROVE  /\ r \in Items => r \notin Lines /\ t.kind \in {"tick", "untick"}
         /\ r \in Lines => r \notin Items /\ t.kind \in {"add", "check", "delete"}
BY ShoppingListAssumption DEF IsWrite, Row

LEMMA CarriedIs ==
  ASSUME NEW n \in Nat, NEW s, IsShop(s, n), NEW r \in Row, NEW t, IsWrite(t, r, n)
  PROVE  /\ IsShop(Carried(s, t), n) /\ Carried(s, t).bought = s.bought
         /\ \A i \in Items : i # r => Carried(s, t).tick[i] = s.tick[i]
         /\ \A l \in Lines : l # r => Carried(s, t).lines[l] = s.lines[l]
         /\ (t.kind = "add" => s.lines[r] \in {None, "open"}) => Effected(r, t, Carried(s, t))
         /\ r \in Lines => /\ t.kind = "check" /\ s.lines[r] \notin {"open", "checked"} => Carried(s, t).lines[r] = s.lines[r]
                           /\ t.kind = "check" /\ s.lines[r] \in {"open", "checked"} => Carried(s, t).lines[r] = t.to
<1>1. CASE t.kind = "tick"
  BY <1>1, ShoppingListAssumption DEF Carried, IsShop, IsWrite, Effected, Row
<1>2. CASE t.kind = "untick"
  BY <1>2, ShoppingListAssumption DEF Carried, IsShop, IsWrite, Effected, Row
<1>3. CASE t.kind = "add"
  BY <1>3, ShoppingListAssumption DEF Carried, IsShop, IsWrite, Effected, Row
<1>4. CASE t.kind = "check"
  BY <1>4, ShoppingListAssumption DEF Carried, IsShop, IsWrite, Effected, Row
<1>5. CASE t.kind = "delete"
  BY <1>5, ShoppingListAssumption DEF Carried, IsShop, IsWrite, Effected, Row
<1> QED BY <1>1, <1>2, <1>3, <1>4, <1>5, KindIs DEF Row

\* Only the row's own part of the server's state counts.
LEMMA OwnState ==
  ASSUME NEW r \in Row, NEW q, NEW o, NEW s, NEW s2, NEW w, RowInv(r, q, o, s, w),
         s2.bought = s.bought, r \in Items => s2.tick[r] = s.tick[r], r \in Lines => s2.lines[r] = s.lines[r],
         \E n : o # <<>> => IsWrite(o[1], r, n)
  PROVE  RowInv(r, q, o, s2, w)
<1>1. o # <<>> /\ o[1].stage \in {"ok", "missing"} => Effected(r, o[1], s2)
  <2> SUFFICES ASSUME o # <<>>, o[1].stage \in {"ok", "missing"} PROVE Effected(r, o[1], s2)
    OBVIOUS
  <2>1. PICK n : IsWrite(o[1], r, n)
    OBVIOUS
  <2>2. /\ r \in Items => o[1].kind \in {"tick", "untick"}
        /\ r \in Lines => o[1].kind \in {"add", "check", "delete"}
    BY <2>1, KindIs
  <2>3. Effected(r, o[1], s)
    BY DEF RowInv
  <2> QED BY <2>2, <2>3 DEF Effected, Row
<1>2. LastWins(r, q, o, s2, w)
  BY DEF RowInv, LastWins, Final, Stands
<1>3. r \in Lines => LineStays(r, Of(q, r) \cup Of(o, r), s2, w)
  BY DEF RowInv, LineStays
<1> QED BY <1>1, <1>2, <1>3 DEF RowInv

-----------------------------------------------------------------------------
\* A tap is the last of its row.
Taps(r, q, o, s, w, t, w2) ==
    /\ t.kind = "tick" => w2 # None /\ t.id \notin s.bought
    /\ t.kind = "untick" => w2 = None
    /\ t.kind = "add" => w2 = "open" /\ o = <<>> /\ Of(q, r) = {} /\ s.lines[r] = None
    /\ t.kind = "check" => w \in {None, "open", "checked"} /\ w2 = IF w = None THEN None ELSE t.to
    /\ t.kind = "delete" => w2 = None

LEMMA TapStays ==
  ASSUME NEW n \in Nat, NEW r \in Lines, NEW T, NEW s, NEW w, LineStays(r, T, s, w), NEW t, IsWrite(t, r, n),
         t.kind = "add" => T = {}, NEW q, NEW o, NEW w2, Taps(r, q, o, s, w, t, w2)
  PROVE  LineStays(r, T \cup {t}, s, w2)
<1>1. None \notin {"open", "checked"}
  BY ShoppingListAssumption
<1>2. t.kind \in {"add", "check", "delete"} /\ (t.kind = "check" => t.to \in {"open", "checked"})
  BY KindIs DEF IsWrite, Row
<1>3. CASE t.kind = "add"
  BY <1>1, <1>3 DEF LineStays, Taps, HasAdd
<1>4. CASE t.kind = "check"
  BY <1>1, <1>2, <1>4 DEF LineStays, Taps, HasAdd
<1>5. CASE t.kind = "delete"
  BY <1>1, <1>5 DEF LineStays, Taps, HasAdd
<1> QED BY <1>2, <1>3, <1>4, <1>5

LEMMA TapLane ==
  ASSUME NEW n \in Nat, NEW r \in Row, NEW q, NEW o, IsList(q), IsList(o), NEW s, NEW w, RowInv(r, q, o, s, w),
         NEW t, IsWrite(t, r, n), t.stage = "waiting", NEW w2, Taps(r, q, o, s, w, t, w2)
  PROVE  RowInv(r, q, Append(o, t), s, w2)
<1> DEFINE p == Append(o, t)
<1>1. /\ IsList(p) /\ Len(p) = Len(o) + 1 /\ Len(o) \in Nat /\ p # <<>> /\ (o = <<>> <=> Len(o) = 0)
      /\ (\A k \in 1 .. Len(o) : p[k] = o[k]) /\ p[Len(o) + 1] = t /\ t.row = r
  <2>1. /\ IsList(p) /\ Len(p) = Len(o) + 1 /\ (\A k \in 1 .. Len(o) : p[k] = o[k]) /\ p[Len(o) + 1] = t
    BY AppendIs
  <2>2. Len(o) \in Nat /\ (o = <<>> <=> Len(o) = 0)
    BY ListIs
  <2> HIDE DEF p
  <2>3. p = <<>> <=> Len(p) = 0
    BY <2>1, ListIs
  <2> QED BY <2>1, <2>2, <2>3 DEF IsWrite
<1>2. Of(p, r) = Of(o, r) \cup {t} /\ Lasts(p, r) = {t}
      /\ (AddsFirst(o, r) /\ (t.kind = "add" => Of(o, r) = {}) => AddsFirst(p, r))
  BY <1>1, OfAppend
<1>3. t.kind = "add" => Of(o, r) = {} /\ Of(q, r) = {}
  <2>1. o = <<>> => Of(o, r) = {}
    BY <1>1 DEF Of
  <2> QED BY <2>1 DEF Taps
<1> HIDE DEF p
<1>4. InTurn(r, q, p)
  <2>1. \A k \in 1 .. Len(p) : p[k].row = r
    BY <1>1 DEF RowInv, InTurn
  <2>2. \A k \in 2 .. Len(p) : p[k].stage = "waiting"
    <3> TAKE k \in 2 .. Len(p)
    <3>1. k = Len(o) + 1 \/ (k \in 2 .. Len(o) /\ k \in 1 .. Len(o))
      BY <1>1
    <3> QED BY <1>1, <3>1 DEF RowInv, InTurn
  <2>3. p[1].stage # "waiting" => o # <<>> /\ o[1].stage # "waiting"
    <3>1. CASE o = <<>>
      BY <1>1, <3>1
    <3>2. CASE o # <<>>
      <4>1. 1 \in 1 .. Len(o)
        BY <1>1, <3>2
      <4> QED BY <1>1, <3>2, <4>1
    <3> QED BY <3>1, <3>2
  <2>4. AddsFirst(p, r)
    BY <1>2, <1>3 DEF RowInv, InTurn
  <2>5. HasAdd(Of(p, r)) => Of(q, r) = {}
    BY <1>2, <1>3 DEF HasAdd, RowInv, InTurn
  <2> QED BY <2>1, <2>2, <2>3, <2>4, <2>5 DEF RowInv, InTurn
<1>5. p[1].stage \in {"ok", "missing"} => Effected(r, p[1], s)
  <2>1. CASE o = <<>>
    BY <1>1, <2>1
  <2>2. CASE o # <<>>
    <3>1. 1 \in 1 .. Len(o)
      BY <1>1, <2>2
    <3> QED BY <1>1, <2>2, <3>1 DEF RowInv
  <2> QED BY <2>1, <2>2
<1>6. LastWins(r, q, p, s, w2)
  <2>1. Final(t, s, w2)
    BY DEF Taps, Final
  <2> QED BY <1>1, <1>2, <2>1 DEF LastWins
<1>7. r \in Lines => LineStays(r, Of(q, r) \cup Of(p, r), s, w2)
  <2>1. Of(q, r) \cup Of(p, r) = (Of(q, r) \cup Of(o, r)) \cup {t}
    BY <1>2
  <2>2. t.kind = "add" => Of(q, r) \cup Of(o, r) = {}
    BY <1>3
  <2> QED BY <2>1, <2>2, TapStays DEF RowInv
<1> QED BY <1>4, <1>5, <1>6, <1>7 DEF RowInv, p

LEMMA TapQueue ==
  ASSUME NEW n \in Nat, NEW r \in Row, NEW q, NEW o, IsList(q), o = <<>>, NEW s, NEW w, RowInv(r, q, o, s, w),
         NEW t, IsWrite(t, r, n), NEW w2, Taps(r, q, o, s, w, t, w2)
  PROVE  RowInv(r, Append(q, t), o, s, w2)
<1>1. t.row = r
  BY DEF IsWrite
<1>2. t.kind = "add" => Of(q, r) = {}
  BY DEF Taps
<1>3. Of(Append(q, t), r) = Of(q, r) \cup {t} /\ Lasts(Append(q, t), r) = {t} /\ AddsFirst(Append(q, t), r)
  BY <1>1, <1>2, OfAppend DEF RowInv, InTurn
<1>4. Of(o, r) = {}
  BY DEF Of
<1>5. InTurn(r, Append(q, t), o)
  BY <1>3, <1>4 DEF RowInv, InTurn, HasAdd
<1>6. LastWins(r, Append(q, t), o, s, w2)
  <2>1. Final(t, s, w2)
    BY DEF Taps, Final
  <2> QED BY <1>3, <2>1 DEF LastWins
<1>7. r \in Lines => LineStays(r, Of(Append(q, t), r) \cup Of(o, r), s, w2)
  <2>1. Of(Append(q, t), r) \cup Of(o, r) = (Of(q, r) \cup Of(o, r)) \cup {t}
    BY <1>3
  <2>2. t.kind = "add" => Of(q, r) \cup Of(o, r) = {}
    BY <1>2, <1>4
  <2> QED BY <2>1, <2>2, TapStays DEF RowInv
<1> QED BY <1>5, <1>6, <1>7 DEF RowInv

\* Writes of other rows in the queue do not count.
LEMMA OtherQueued ==
  ASSUME NEW r \in Row, NEW q, NEW o, IsList(q), NEW s, NEW w, RowInv(r, q, o, s, w), NEW t, t.row # r
  PROVE  RowInv(r, Append(q, t), o, s, w)
<1>1. Of(Append(q, t), r) = Of(q, r) /\ Lasts(Append(q, t), r) = Lasts(q, r) /\ (AddsFirst(q, r) => AddsFirst(Append(q, t), r))
  BY OfAppend
<1> QED BY <1>1 DEF RowInv, InTurn, LastWins

LEMMA OtherReplayed ==
  ASSUME NEW r \in Row, NEW q, NEW o, IsList(q), q # <<>>, NEW s, NEW w, RowInv(r, q, o, s, w), q[1].row # r
  PROVE  RowInv(r, Tail(q), o, s, w)
<1>1. Of(Tail(q), r) = Of(q, r) /\ Lasts(Tail(q), r) \subseteq Lasts(q, r) /\ (AddsFirst(q, r) => AddsFirst(Tail(q), r))
  BY OfTail
<1> QED BY <1>1 DEF RowInv, InTurn, LastWins

-----------------------------------------------------------------------------
LEMMA LastsAre == ASSUME NEW q, NEW r PROVE Lasts(q, r) \subseteq Of(q, r)
BY DEF Lasts, Of

\* The first write of a line is carried out,
LEMMA FirstCarried ==
  ASSUME NEW n \in Nat, NEW s, IsShop(s, n), NEW r \in Lines, NEW T, NEW w, LineStays(r, T, s, w),
         NEW u \in T, IsWrite(u, r, n), HasAdd(T) => u.kind = "add"
  PROVE  LineStays(r, T, Carried(s, u), w) /\ Effected(r, u, Carried(s, u))
<1> DEFINE s2 == Carried(s, u)
<1>1. None \notin {"open", "checked"} /\ r \in Row
  BY ShoppingListAssumption DEF Row
<1>2. u.kind \in {"add", "check", "delete"} /\ (u.kind = "check" => u.to \in {"open", "checked"})
  BY <1>1, KindIs DEF IsWrite
<1>3. u.kind = "add" => s.lines[r] \in {None, "open"}
  BY DEF LineStays, HasAdd
<1>4. /\ Effected(r, u, s2)
      /\ u.kind = "check" /\ s.lines[r] \notin {"open", "checked"} => s2.lines[r] = s.lines[r]
      /\ u.kind = "check" /\ s.lines[r] \in {"open", "checked"} => s2.lines[r] = u.to
  BY <1>1, <1>3, CarriedIs
<1> HIDE DEF s2
<1>5. ASSUME u.kind = "add" PROVE LineStays(r, T, s2, w)
  BY <1>1, <1>4, <1>5 DEF LineStays, HasAdd, Effected
<1>6. ASSUME u.kind = "check" PROVE LineStays(r, T, s2, w)
  <2>1. ~HasAdd(T)
    BY <1>6
  <2> QED BY <1>1, <1>2, <1>4, <1>6, <2>1 DEF LineStays
<1>7. ASSUME u.kind = "delete" PROVE LineStays(r, T, s2, w)
  <2>1. ~HasAdd(T)
    BY <1>7
  <2> QED BY <1>1, <1>4, <1>7, <2>1 DEF LineStays, Effected
<1> QED BY <1>2, <1>4, <1>5, <1>6, <1>7 DEF s2

\* ... and settled.
LEMMA FirstSettled ==
  ASSUME NEW r \in Lines, NEW T, NEW s, NEW w, NEW u, LineStays(r, T \cup {u}, s, w), Effected(r, u, s), ~HasAdd(T)
  PROVE  LineStays(r, T, s, w)
<1>1. None \notin {"open", "checked"}
  BY ShoppingListAssumption
<1>2. w = None => (\E t \in T : t.kind = "delete") \/ s.lines[r] \notin {"open", "checked"}
  BY DEF LineStays, Effected
<1>3. w \in {"open", "checked"} => /\ \A t \in T : t.kind # "delete"
                                   /\ s.lines[r] \in {"open", "checked"}
  BY <1>1 DEF LineStays, Effected, HasAdd
<1> QED BY <1>2, <1>3 DEF LineStays

LEMMA EndsWell ==
  ASSUME NEW n, NEW s, NEW r \in Row, NEW u, IsWrite(u, r, n), NEW w, Final(u, s, w), Effected(r, u, s),
         r \in Lines /\ w \in {"open", "checked"} => s.lines[r] \in {"open", "checked"}
  PROVE  Stands(r, s, w)
<1>1. None \notin {"open", "checked"}
  BY ShoppingListAssumption
<1>2. CASE r \in Items
  <2>1. r \notin Lines /\ u.kind \in {"tick", "untick"}
    BY <1>2, KindIs
  <2> QED BY <1>2, <2>1 DEF Final, Effected, Stands
<1>3. CASE r \in Lines
  <2>1. r \notin Items /\ u.kind \in {"add", "check", "delete"}
    BY <1>3, KindIs
  <2> QED BY <1>1, <1>3, <2>1 DEF Final, Effected, Stands
<1> QED BY <1>2, <1>3 DEF Row

Alike(t, u) == t.row = u.row /\ t.kind = u.kind /\ t.id = u.id /\ t.to = u.to

LEMMA AlikeStays ==
  ASSUME NEW r, NEW T, NEW s, NEW w, NEW t, NEW u, Alike(t, u), LineStays(r, T \cup {u}, s, w)
  PROVE  LineStays(r, T \cup {t}, s, w)
<1>1. HasAdd(T \cup {t}) <=> HasAdd(T \cup {u})
  BY DEF HasAdd, Alike
<1>2. (\E x \in T \cup {t} : x.kind = "delete") <=> (\E x \in T \cup {u} : x.kind = "delete")
  BY DEF Alike
<1> QED BY <1>1, <1>2 DEF LineStays

LEMMA AlikeFinal ==
  ASSUME NEW t, NEW u, Alike(t, u), NEW s, NEW s2, s2.bought = s.bought, NEW w, Final(u, s, w)
  PROVE  Final(t, s2, w)
BY DEF Alike, Final

\* The lane once its first write has left it.
LEMMA RestOfLane ==
  ASSUME NEW r, NEW q, NEW o, IsList(o), o # <<>>, InTurn(r, q, o)
  PROVE  /\ IsList(Tail(o)) /\ o[1].row = r /\ ~HasAdd(Of(Tail(o), r)) /\ Of(o, r) = Of(Tail(o), r) \cup {o[1]}
         /\ \A k \in 1 .. Len(Tail(o)) : Tail(o)[k].row = r /\ Tail(o)[k].stage = "waiting"
         /\ Tail(o) # <<>> => Tail(o)[1].stage = "waiting"
         /\ AddsFirst(Tail(o), r)
         /\ Tail(o) = <<>> <=> Of(Tail(o), r) = {}
<1> DEFINE p == Tail(o)
<1>1. /\ IsList(p) /\ Len(p) = Len(o) - 1 /\ Len(o) \in Nat /\ Len(o) >= 1
      /\ \A k \in 1 .. Len(o) - 1 : p[k] = o[k + 1]
  BY TailIs
<1>2. 1 \in 1 .. Len(o) /\ \A k \in 1 .. Len(p) : k + 1 \in 2 .. Len(o) /\ k + 1 \in 1 .. Len(o) /\ p[k] = o[k + 1]
  BY <1>1
<1>3. o[1].row = r
  BY <1>2 DEF InTurn
<1>4. ~HasAdd(Of(p, r)) /\ AddsFirst(p, r) /\ Of(o, r) = Of(p, r) \cup {o[1]}
  BY <1>3, OfTail DEF InTurn
<1> HIDE DEF p
<1>5. \A k \in 1 .. Len(p) : p[k].row = r /\ p[k].stage = "waiting"
  BY <1>2 DEF InTurn
<1>6. p # <<>> => 1 \in 1 .. Len(p)
  BY <1>1, ListIs
<1>7. p = <<>> <=> Of(p, r) = {}
  <2>1. p # <<>> => p[1] \in Of(p, r)
    BY <1>5, <1>6 DEF Of
  <2>2. p = <<>> => Len(p) = 0
    BY <1>1, ListIs
  <2> QED BY <2>1, <2>2 DEF Of
<1> QED BY <1>1, <1>3, <1>4, <1>5, <1>6, <1>7 DEF p

\* The first write of the lane goes to the end of the queue.
LEMMA RowToQueue ==
  ASSUME NEW r \in Row, NEW q, NEW o, IsList(q), IsList(o), o # <<>>, NEW s, NEW w, RowInv(r, q, o, s, w), NEW t, Alike(t, o[1])
  PROVE  RowInv(r, Append(q, t), Tail(o), s, w)
<1> DEFINE p == Tail(o)
<1>1. /\ IsList(p) /\ o[1].row = r /\ ~HasAdd(Of(p, r)) /\ Of(o, r) = Of(p, r) \cup {o[1]}
      /\ \A k \in 1 .. Len(p) : p[k].row = r /\ p[k].stage = "waiting"
      /\ p # <<>> => p[1].stage = "waiting"
      /\ AddsFirst(p, r) /\ (p = <<>> <=> Of(p, r) = {})
  BY RestOfLane DEF RowInv
<1>2. Lasts(p, r) \subseteq Lasts(o, r) /\ (Of(p, r) = {} => o[1] \in Lasts(o, r))
  BY <1>1, OfTail
<1>3. t.row = r /\ t.kind = o[1].kind
  BY <1>1 DEF Alike
<1>4. t.kind = "add" => Of(q, r) = {}
  BY <1>1, <1>3 DEF RowInv, InTurn, HasAdd
<1>5. /\ Of(Append(q, t), r) = Of(q, r) \cup {t} /\ Lasts(Append(q, t), r) = {t} /\ AddsFirst(Append(q, t), r)
  BY <1>3, <1>4, OfAppend DEF RowInv, InTurn
<1> HIDE DEF p
<1>6. InTurn(r, Append(q, t), p)
  <2>1. \A k \in 2 .. Len(p) : k \in 1 .. Len(p)
    BY <1>1, ListIs
  <2> QED BY <1>1, <1>5, <2>1 DEF InTurn
<1>7. LastWins(r, Append(q, t), p, s, w)
  <2>1. p = <<>> => Final(t, s, w)
    BY <1>1, <1>2, AlikeFinal DEF RowInv, LastWins
  <2> QED BY <1>2, <1>5, <2>1 DEF RowInv, LastWins
<1>8. r \in Lines => LineStays(r, Of(Append(q, t), r) \cup Of(p, r), s, w)
  <2>1. Of(Append(q, t), r) \cup Of(p, r) = (Of(q, r) \cup Of(p, r)) \cup {t}
    BY <1>5
  <2>2. Of(q, r) \cup Of(o, r) = (Of(q, r) \cup Of(p, r)) \cup {o[1]}
    BY <1>1
  <2> QED BY <2>1, <2>2, AlikeStays DEF RowInv
<1> QED BY <1>1, <1>6, <1>7, <1>8 DEF RowInv, p


\* It is sent, or carried out: nothing of its row is in the queue then.
LEMMA RowHead ==
  ASSUME NEW n \in Nat, NEW r \in Row, NEW q, NEW o, IsList(o), o # <<>>, NEW s, NEW w, RowInv(r, q, o, s, w), Of(q, r) = {},
         IsWrite(o[1], r, n), IsShop(s, n), NEW t, Alike(t, o[1]), NEW s2,
         \/ s2 = s /\ t.stage = "sent"
         \/ s2 = Carried(s, o[1])
  PROVE  RowInv(r, q, <<t>> \o Tail(o), s2, w)
<1> DEFINE p == Tail(o)
           o2 == <<t>> \o Tail(o)
<1>1. /\ IsList(p) /\ o[1].row = r /\ ~HasAdd(Of(p, r)) /\ Of(o, r) = Of(p, r) \cup {o[1]}
      /\ \A k \in 1 .. Len(p) : p[k].row = r /\ p[k].stage = "waiting"
      /\ AddsFirst(p, r) /\ (p = <<>> <=> Of(p, r) = {})
  BY RestOfLane DEF RowInv
<1>2. Lasts(p, r) \subseteq Lasts(o, r) /\ (Of(p, r) = {} => o[1] \in Lasts(o, r))
  BY <1>1, OfTail
<1>3. /\ IsList(o2) /\ Len(o2) = Len(o) /\ Len(o) \in Nat /\ Len(o) >= 1
      /\ o2[1] = t /\ \A k \in 2 .. Len(o) : o2[k] = o[k]
  BY NewHeadIs, TailIs
<1>4. t.row = r /\ t.kind = o[1].kind
  BY <1>1 DEF Alike
<1>5. o2 # <<>> /\ Tail(o2) = p
  BY <1>1, NewTailIs
<1> HIDE DEF o2, p
<1>6. /\ Of(o2, r) = Of(p, r) \cup {t}
      /\ Lasts(o2, r) \subseteq Lasts(p, r) \cup (IF Of(p, r) = {} THEN {t} ELSE {})
      /\ AddsFirst(o2, r)
  BY <1>1, <1>3, <1>4, <1>5, OfTail
<1>7. InTurn(r, q, o2)
  <2>1. \A k \in 1 .. Len(o2) : k = 1 \/ k \in 2 .. Len(o)
    BY <1>3
  <2>2. \A k \in 1 .. Len(o2) : o2[k].row = r
    <3>1. \A k \in 2 .. Len(o) : k \in 1 .. Len(o)
      OBVIOUS
    <3> QED BY <1>3, <1>4, <2>1, <3>1 DEF RowInv, InTurn
  <2>3. \A k \in 2 .. Len(o2) : o2[k].stage = "waiting"
    BY <1>3 DEF RowInv, InTurn
  <2> QED BY <1>6, <2>2, <2>3 DEF RowInv, InTurn
<1>8. s2.bought = s.bought
  BY CarriedIs
<1>9. LastWins(r, q, o2, s2, w)
  <2>1. Of(p, r) = {} => Final(t, s2, w)
    BY <1>2, <1>8, AlikeFinal DEF RowInv, LastWins
  <2>2. \A x \in Lasts(p, r) : Final(x, s2, w)
    BY <1>2, <1>8 DEF RowInv, LastWins, Final
  <2> QED BY <1>5, <1>6, <2>1, <2>2 DEF LastWins
<1>10. o[1].kind = "add" => r \in Lines /\ s.lines[r] \in {None, "open"}
  <2>1. o[1].kind = "add" => r \in Lines
    BY KindIs DEF Row
  <2> QED BY <1>1, <2>1 DEF RowInv, LineStays, HasAdd
<1>11. t.stage \in {"ok", "missing"} => Effected(r, t, s2)
  <2>1. ASSUME s2 = Carried(s, o[1]) PROVE Effected(r, o[1], s2)
    BY <1>10, <2>1, CarriedIs
  <2> QED BY <2>1 DEF Effected, Alike
<1>12. r \in Lines => LineStays(r, Of(q, r) \cup Of(o2, r), s2, w)
  <2> SUFFICES ASSUME r \in Lines PROVE LineStays(r, Of(p, r) \cup {t}, s2, w)
    BY <1>6
  <2>1. LineStays(r, Of(p, r) \cup {o[1]}, s, w)
    BY <1>1 DEF RowInv
  <2>2. HasAdd(Of(p, r) \cup {o[1]}) => o[1].kind = "add"
    BY <1>1 DEF HasAdd
  <2>3. LineStays(r, Of(p, r) \cup {o[1]}, s2, w)
    BY <2>1, <2>2, FirstCarried
  <2> QED BY <2>3, AlikeStays
<1> QED BY <1>3, <1>7, <1>9, <1>11, <1>12 DEF RowInv, o2, p

\* It is answered.
LEMMA RowSettled ==
  ASSUME NEW n \in Nat, NEW r \in Row, NEW q, NEW o, IsList(o), o # <<>>, NEW s, NEW w, RowInv(r, q, o, s, w),
         o[1].stage \in {"ok", "missing"}, IsWrite(o[1], r, n)
  PROVE  RowInv(r, q, Tail(o), s, w)
<1> DEFINE p == Tail(o)
<1>1. /\ IsList(p) /\ o[1].row = r /\ ~HasAdd(Of(p, r)) /\ Of(o, r) = Of(p, r) \cup {o[1]}
      /\ \A k \in 1 .. Len(p) : p[k].row = r /\ p[k].stage = "waiting"
      /\ p # <<>> => p[1].stage = "waiting"
      /\ AddsFirst(p, r) /\ (p = <<>> <=> Of(p, r) = {})
  BY RestOfLane DEF RowInv
<1>2. Lasts(p, r) \subseteq Lasts(o, r) /\ (Of(p, r) = {} => o[1] \in Lasts(o, r))
  BY <1>1, OfTail
<1>3. Of(q, r) = {} /\ Lasts(q, r) = {}
  BY LastsAre DEF RowInv, InTurn
<1>4. Effected(r, o[1], s)
  BY DEF RowInv
<1> HIDE DEF p
<1>5. InTurn(r, q, p)
  <2>1. \A k \in 2 .. Len(p) : k \in 1 .. Len(p)
    OBVIOUS
  <2> QED BY <1>1, <2>1 DEF RowInv, InTurn
<1>6. r \in Lines => LineStays(r, Of(q, r) \cup Of(p, r), s, w)
  <2>1. r \in Lines => LineStays(r, Of(p, r) \cup {o[1]}, s, w)
    BY <1>1, <1>3 DEF RowInv
  <2>2. Of(q, r) \cup Of(p, r) = Of(p, r)
    BY <1>3
  <2> QED BY <1>1, <1>4, <2>1, <2>2, FirstSettled
<1>7. p = <<>> => Stands(r, s, w)
  <2> SUFFICES ASSUME p = <<>> PROVE Stands(r, s, w)
    OBVIOUS
  <2>1. Final(o[1], s, w)
    BY <1>1, <1>2 DEF RowInv, LastWins
  <2>2. r \in Lines /\ w \in {"open", "checked"} => s.lines[r] \in {"open", "checked"}
    BY <1>1, <1>3, <1>6 DEF LineStays, HasAdd
  <2> QED BY <1>4, <2>1, <2>2, EndsWell
<1>8. LastWins(r, q, p, s, w)
  BY <1>2, <1>3, <1>7 DEF RowInv, LastWins
<1> QED BY <1>1, <1>5, <1>6, <1>8 DEF RowInv, p

\* The first write of the queue is carried out; its answer is lost, or it leaves the queue.
LEMMA RowReplayed ==
  ASSUME NEW n \in Nat, NEW r \in Row, NEW q, NEW o, IsList(q), q # <<>>, NEW s, NEW w, RowInv(r, q, o, s, w),
         IsWrite(q[1], r, n), IsShop(s, n)
  PROVE  RowInv(r, q, o, Carried(s, q[1]), w) /\ RowInv(r, Tail(q), o, Carried(s, q[1]), w)
<1> DEFINE p == Tail(q)
           s2 == Carried(s, q[1])
<1>1. q[1].row = r
  BY DEF IsWrite
<1>2. /\ Of(q, r) = Of(p, r) \cup {q[1]} /\ Lasts(p, r) \subseteq Lasts(q, r)
      /\ (Of(p, r) = {} => q[1] \in Lasts(q, r)) /\ ~HasAdd(Of(p, r)) /\ AddsFirst(p, r)
  BY <1>1, OfTail DEF RowInv, InTurn
<1>3. /\ o # <<>> => o[1].stage = "waiting"
      /\ ~HasAdd(Of(o, r))
  BY <1>2 DEF RowInv, InTurn
<1>4. q[1].kind = "add" => r \in Lines /\ s.lines[r] \in {None, "open"}
  <2>1. q[1].kind = "add" => r \in Lines
    BY KindIs DEF Row
  <2> QED BY <1>2, <2>1 DEF RowInv, LineStays, HasAdd
<1>5. Effected(r, q[1], s2) /\ s2.bought = s.bought
  BY <1>4, CarriedIs
<1> HIDE DEF p, s2
<1>6. HasAdd(Of(q, r) \cup Of(o, r)) => q[1].kind = "add"
  BY <1>2, <1>3 DEF HasAdd
<1>7. r \in Lines => LineStays(r, Of(q, r) \cup Of(o, r), s2, w)
  <2>1. q[1] \in Of(q, r) \cup Of(o, r)
    BY <1>2
  <2> QED BY <1>6, <2>1, FirstCarried DEF RowInv, s2
<1>8. RowInv(r, q, o, s2, w)
  <2>1. LastWins(r, q, o, s2, w)
    BY <1>2, <1>5 DEF RowInv, LastWins, Final
  <2> QED BY <1>3, <1>7, <2>1 DEF RowInv
<1>9. r \in Lines => LineStays(r, Of(p, r) \cup Of(o, r), s2, w)
  <2>1. Of(q, r) \cup Of(o, r) = (Of(p, r) \cup Of(o, r)) \cup {q[1]}
    BY <1>2
  <2>2. ~HasAdd(Of(p, r) \cup Of(o, r))
    BY <1>2, <1>3 DEF HasAdd
  <2> QED BY <1>5, <1>7, <2>1, <2>2, FirstSettled
<1>10. o = <<>> /\ Of(p, r) = {} => Stands(r, s2, w)
  <2> SUFFICES ASSUME o = <<>>, Of(p, r) = {} PROVE Stands(r, s2, w)
    OBVIOUS
  <2>1. Final(q[1], s2, w)
    BY <1>2, <1>8 DEF RowInv, LastWins
  <2>2. Of(o, r) = {}
    BY DEF Of
  <2>3. r \in Lines /\ w \in {"open", "checked"} => s2.lines[r] \in {"open", "checked"}
    BY <1>9, <2>2 DEF LineStays, HasAdd
  <2> QED BY <1>5, <2>1, <2>3, EndsWell
<1>11. RowInv(r, p, o, s2, w)
  <2>1. LastWins(r, p, o, s2, w)
    BY <1>2, <1>8, <1>10 DEF RowInv, LastWins
  <2>2. InTurn(r, p, o)
    BY <1>2, <1>3 DEF RowInv, InTurn
  <2> QED BY <1>3, <1>9, <2>1, <2>2 DEF RowInv
<1> QED BY <1>8, <1>11 DEF p, s2

\* What is ticked is bought.
LEMMA RowBought ==
  ASSUME NEW n \in Nat, NEW r \in Row, NEW q, NEW o, NEW s, NEW w, RowInv(r, q, o, s, w), NEW s2, NEW w2,
         r \in Items => o = <<>> /\ Of(q, r) = {} /\ s2.tick[r] = None /\ w2 = None,
         r \in Lines => /\ s2.lines[r] = IF s.lines[r] = "checked" THEN "bought" ELSE s.lines[r]
                        /\ w2 = IF s.lines[r] = "checked" THEN None ELSE w,
         \A t \in Of(q, r) \cup Of(o, r) : IsWrite(t, r, n),
         o # <<>> => o[1] \in Of(o, r)
  PROVE  RowInv(r, q, o, s2, w2)
<1>1. CASE r \in Items
  <2>1. r \notin Lines
    BY <1>1, ShoppingListAssumption
  <2>2. Lasts(q, r) = {}
    BY <1>1, LastsAre
  <2>3. InTurn(r, q, o)
    BY DEF RowInv
  <2> QED BY <1>1, <2>1, <2>2, <2>3 DEF RowInv, LastWins, Stands
<1>2. CASE r \in Lines
  <2>1. r \notin Items /\ None \notin {"open", "checked", "bought"}
    BY <1>2, ShoppingListAssumption
  <2>2. \A t \in Of(q, r) \cup Of(o, r) : t.kind \in {"add", "check", "delete"}
    BY <1>2, KindIs
  <2>3. o # <<>> /\ o[1].stage \in {"ok", "missing"} => Effected(r, o[1], s2)
    BY <1>2, <2>1, <2>2 DEF RowInv, Effected
  <2>4. LastWins(r, q, o, s2, w2)
    <3>1. \A t \in Of(q, r) \cup Of(o, r) : Final(t, s, w) => Final(t, s2, w2)
      BY <1>2, <2>2 DEF Final
    <3>2. Stands(r, s, w) => Stands(r, s2, w2)
      BY <1>2, <2>1 DEF Stands
    <3> QED BY <3>1, <3>2, LastsAre DEF RowInv, LastWins
  <2>5. LineStays(r, Of(q, r) \cup Of(o, r), s2, w2)
    <3>1. LineStays(r, Of(q, r) \cup Of(o, r), s, w)
      BY <1>2 DEF RowInv
    <3> QED BY <1>2, <2>1, <3>1 DEF LineStays
  <2> QED BY <2>3, <2>4, <2>5 DEF RowInv
<1> QED BY <1>1, <1>2 DEF Row

-----------------------------------------------------------------------------
PhoneFields == {"list", "drawn", "fetch", "lane", "queue", "marks", "offer", "online"}
HasLines(x) == DOMAIN x = {"ticked", "lines", "count"} /\ DOMAIN x.lines = Lines
LanesOK(lane, n) ==
    /\ DOMAIN lane = Row
    /\ \A r \in Row : /\ IsList(lane[r])
                      /\ \A k \in 1 .. Len(lane[r]) : IsWrite(lane[r][k], r, n) /\ HasLines(lane[r][k].snap)
QueueOK(q, marks, n) ==
    IsList(q) /\ \A k \in 1 .. Len(q) : q[k].row \in Row /\ q[k].row \in marks /\ IsWrite(q[k], q[k].row, n)
ScreenOK(p) == HasLines(p.list) /\ (p.fetch.at = "read" => HasLines(p.fetch.list))

\* A line not added yet is nowhere.
Unknown(p, s, l) ==
    /\ s.lines[l] = None /\ p.drawn[l] = None /\ p.list.lines[l] = None
    /\ p.fetch.at = "read" => p.fetch.list.lines[l] = None
    /\ p.lane[l] = <<>> /\ Of(p.queue, l) = {}
    /\ \A r \in Row : \A k \in 1 .. Len(p.lane[r]) : p.lane[r][k].snap.lines[l] = None

\* A purchase is posted when nothing of the rows not tapped since is under way.
AimOK(p, stage, R) ==
    \A r \in R : /\ stage \in {"counting", "posted"} => p.lane[r] = <<>>
                 /\ stage = "posted" => Of(p.queue, r) = {}

ListInv(p, s, st, A, w, X, n) ==
    /\ n \in Nat /\ IsShop(s, n)
    /\ DOMAIN p = PhoneFields /\ LanesOK(p.lane, n) /\ QueueOK(p.queue, p.marks, n) /\ ScreenOK(p)
    /\ DOMAIN st = Button /\ DOMAIN A = Button /\ \A b \in Button : A[b] \subseteq Row
    /\ DOMAIN w = Row /\ \A l \in Lines : w[l] \in {None, "new", "open", "checked"}
    /\ \A l \in Lines : w[l] = "new" => Unknown(p, s, l)
    /\ \A b \in Button : AimOK(p, st[b], A[b])
    /\ \A r \in Row \ X : RowInv(r, p.queue, p.lane[r], s, w[r])

LEMMA LaterToo ==
  ASSUME NEW n \in Nat, NEW m \in Nat, m >= n
  PROVE  /\ \A t, r : IsWrite(t, r, n) => IsWrite(t, r, m)
         /\ \A s : IsShop(s, n) => IsShop(s, m)
         /\ \A lane : LanesOK(lane, n) => LanesOK(lane, m)
         /\ \A q, marks : QueueOK(q, marks, n) => QueueOK(q, marks, m)
<1>1. 0 .. n \subseteq 0 .. m
  OBVIOUS
<1>2. \A t, r : IsWrite(t, r, n) => IsWrite(t, r, m)
  BY <1>1 DEF IsWrite
<1>3. \A s : IsShop(s, n) => IsShop(s, m)
  BY <1>1 DEF IsShop
<1> QED BY <1>2, <1>3 DEF LanesOK, QueueOK

\* A screen shows what it showed, what was read, or what the server has.
Looked(p, s, p2) ==
    /\ DOMAIN p2 = PhoneFields /\ p2.lane = p.lane /\ p2.queue = p.queue /\ (p2.marks = p.marks \/ p.queue = <<>>)
    /\ p2.drawn = p.drawn \/ p2.drawn = p.list.lines
    /\ p2.list = p.list \/ (p.fetch.at = "read" /\ p2.list = p.fetch.list)
    /\ p2.fetch = p.fetch \/ p2.fetch.at # "read" \/ p2.fetch.list = Listing(s)
Aims(p, st, A) == DOMAIN st = Button /\ DOMAIN A = Button /\ \A b \in Button : A[b] \subseteq Row /\ AimOK(p, st[b], A[b])

LEMMA ListQuiet ==
  ASSUME NEW p, NEW s, NEW st, NEW A, NEW w, NEW X, NEW n, ListInv(p, s, st, A, w, X, n),
         NEW p2, Looked(p, s, p2), NEW st2, NEW A2, Aims(p, st2, A2), NEW n2 \in Nat, n2 >= n
  PROVE  ListInv(p2, s, st2, A2, w, X, n2)
<1> USE DEF Looked, Aims
<1>1. n \in Nat /\ IsShop(s, n2) /\ LanesOK(p2.lane, n2) /\ QueueOK(p.queue, p.marks, n2) /\ ScreenOK(p)
  BY LaterToo DEF ListInv
<1>2. QueueOK(p2.queue, p2.marks, n2)
  <2>1. p.queue = <<>> => Len(p.queue) = 0
    BY <1>1, ListIs DEF QueueOK
  <2> QED BY <1>1, <2>1 DEF QueueOK
<1>3. HasLines(Listing(s)) /\ \A l \in Lines : s.lines[l] = None => Listing(s).lines[l] = None
  BY DEF HasLines, Listing
<1>4. ScreenOK(p2)
  BY <1>1, <1>3 DEF ScreenOK
<1>5. ASSUME NEW l \in Lines, w[l] = "new" PROVE Unknown(p2, s, l)
  <2>1. Unknown(p, s, l)
    BY <1>5 DEF ListInv
  <2>2. p2.drawn[l] = None /\ p2.list.lines[l] = None
    BY <2>1 DEF Unknown
  <2>3. p2.fetch.at = "read" => p2.fetch.list.lines[l] = None
    BY <1>3, <1>5, <2>1 DEF Unknown
  <2> QED BY <2>1, <2>2, <2>3 DEF Unknown
<1>6. \A b \in Button : AimOK(p2, st2[b], A2[b])
  BY DEF AimOK
<1> QED BY <1>1, <1>2, <1>4, <1>5, <1>6 DEF ListInv

LaneIs(o, r, n) == IsList(o) /\ \A k \in 1 .. Len(o) : IsWrite(o[k], r, n)
FromLane(o, old) == \A k \in 1 .. Len(o) : \E m \in 1 .. Len(old) : o[k].snap = old[m].snap

\* Sent, carried out, answered or given up.
Passed(p, r, o, t, p2) ==
    /\ DOMAIN p2 = PhoneFields /\ p2.lane = [p.lane EXCEPT ![r] = o]
    /\ \/ p2.queue = p.queue /\ p2.marks = p.marks
       \/ p2.queue = Append(p.queue, t) /\ p2.marks = p.marks \cup {r}
    /\ p2.drawn = p.drawn /\ (p2.list = p.list \/ p2.list = p.lane[r][1].snap)
    /\ p2.fetch = p.fetch \/ p2.fetch.at # "read"

LEMMA ListLane ==
  ASSUME NEW p, NEW s, NEW st, NEW A, NEW w, NEW X, NEW n, ListInv(p, s, st, A, w, X, n),
         NEW r \in Row, p.lane[r] # <<>>,
         NEW o, LaneIs(o, r, n), FromLane(o, p.lane[r]), NEW t, IsWrite(t, r, n), NEW p2, Passed(p, r, o, t, p2),
         NEW s2, s2 = s \/ s2 = Carried(s, p.lane[r][1]),
         r \notin X => RowInv(r, p2.queue, o, s2, w[r])
  PROVE  ListInv(p2, s2, st, A, w, X, n)
<1> USE DEF LaneIs, FromLane, Passed
<1>1. /\ n \in Nat /\ IsShop(s, n) /\ LanesOK(p.lane, n) /\ QueueOK(p.queue, p.marks, n) /\ ScreenOK(p)
      /\ IsList(p.lane[r]) /\ IsList(p.queue) /\ DOMAIN p.lane = Row
  BY DEF ListInv, LanesOK, QueueOK
<1>2. 1 \in 1 .. Len(p.lane[r])
  BY <1>1, ListIs
<1>3. IsWrite(p.lane[r][1], r, n) /\ HasLines(p.lane[r][1].snap)
  BY <1>1, <1>2 DEF LanesOK
<1>4. /\ IsShop(s2, n) /\ s2.bought = s.bought
      /\ \A i \in Items : i # r => s2.tick[i] = s.tick[i]
      /\ \A l \in Lines : l # r => s2.lines[l] = s.lines[l]
  BY <1>1, <1>3, CarriedIs
<1>5. p2.lane[r] = o /\ (\A x \in Row : x # r => p2.lane[x] = p.lane[x]) /\ DOMAIN p2.lane = Row
  BY <1>1
<1>6. LanesOK(p2.lane, n)
  <2>1. ASSUME NEW x \in Row, NEW k \in 1 .. Len(p2.lane[x]) PROVE IsWrite(p2.lane[x][k], x, n) /\ HasLines(p2.lane[x][k].snap)
    BY <1>1, <1>5, <2>1 DEF LanesOK
  <2> QED BY <1>1, <1>5, <2>1 DEF LanesOK
<1>7. /\ IsList(p2.queue) /\ \A x \in Row : x # r => Of(p2.queue, x) = Of(p.queue, x)
      /\ QueueOK(p2.queue, p2.marks, n)
  <2>1. CASE p2.queue = p.queue /\ p2.marks = p.marks
    BY <1>1, <2>1
  <2>2. CASE p2.queue = Append(p.queue, t) /\ p2.marks = p.marks \cup {r}
    <3>1. /\ IsList(p2.queue) /\ Len(p2.queue) = Len(p.queue) + 1 /\ Len(p.queue) \in Nat
          /\ (\A k \in 1 .. Len(p.queue) : p2.queue[k] = p.queue[k]) /\ p2.queue[Len(p.queue) + 1] = t
      BY <1>1, <2>2, AppendIs, ListIs
    <3>2. t.row = r
      BY DEF IsWrite
    <3>3. \A x \in Row : x # r => Of(p2.queue, x) = Of(p.queue, x)
      BY <1>1, <2>2, <3>2, OfAppend
    <3>4. ASSUME NEW k \in 1 .. Len(p2.queue)
          PROVE  p2.queue[k].row \in Row /\ p2.queue[k].row \in p2.marks /\ IsWrite(p2.queue[k], p2.queue[k].row, n)
      <4>1. CASE k = Len(p.queue) + 1
        BY <2>2, <3>1, <3>2, <4>1
      <4>2. CASE k \in 1 .. Len(p.queue)
        BY <1>1, <2>2, <3>1, <4>2 DEF QueueOK
      <4> QED BY <3>1, <4>1, <4>2
    <3> QED BY <3>1, <3>3, <3>4 DEF QueueOK
  <2> QED BY <2>1, <2>2
<1>8. ScreenOK(p2)
  BY <1>1, <1>3 DEF ScreenOK
<1>9. ASSUME NEW l \in Lines, w[l] = "new" PROVE Unknown(p2, s2, l)
  <2>1. Unknown(p, s, l) /\ l \in Row
    BY <1>9 DEF ListInv, Row
  <2>2. l # r
    BY <2>1 DEF Unknown
  <2>3. \A m \in 1 .. Len(p.lane[r]) : p.lane[r][m].snap.lines[l] = None
    BY <2>1 DEF Unknown
  <2>4. \A x \in Row : \A k \in 1 .. Len(p2.lane[x]) : p2.lane[x][k].snap.lines[l] = None
    <3> TAKE x \in Row
    <3> TAKE k \in 1 .. Len(p2.lane[x])
    <3>1. CASE x = r
      <4>1. p2.lane[x] = o /\ k \in 1 .. Len(o)
        BY <1>5, <3>1
      <4>2. PICK m \in 1 .. Len(p.lane[r]) : o[k].snap = p.lane[r][m].snap
        BY <4>1
      <4> QED BY <2>3, <4>1, <4>2
    <3>2. CASE x # r
      BY <1>5, <2>1, <3>2 DEF Unknown
    <3> QED BY <3>1, <3>2
  <2>5. p2.list.lines[l] = None
    BY <1>2, <2>1, <2>3 DEF Unknown
  <2>6. s2.lines[l] = None /\ p2.lane[l] = <<>> /\ Of(p2.queue, l) = {}
    BY <1>4, <1>5, <1>7, <2>1, <2>2 DEF Unknown
  <2>7. p2.fetch.at = "read" => p2.fetch.list.lines[l] = None
    BY <2>1 DEF Unknown
  <2> QED BY <2>1, <2>4, <2>5, <2>6, <2>7 DEF Unknown
<1>10. ASSUME NEW b \in Button PROVE AimOK(p2, st[b], A[b])
  <2>1. AimOK(p, st[b], A[b]) /\ A[b] \subseteq Row
    BY DEF ListInv
  <2> SUFFICES ASSUME NEW x \in A[b], st[b] \in {"counting", "posted"}
               PROVE  p2.lane[x] = <<>> /\ (st[b] = "posted" => Of(p2.queue, x) = {})
    BY DEF AimOK
  <2>2. x \in Row /\ p.lane[x] = <<>> /\ x # r /\ (st[b] = "posted" => Of(p.queue, x) = {})
    BY <2>1 DEF AimOK
  <2> QED BY <1>5, <1>7, <2>2
<1>11. ASSUME NEW x \in Row \ X PROVE RowInv(x, p2.queue, p2.lane[x], s2, w[x])
  <2>1. CASE x = r
    BY <1>5, <1>11, <2>1
  <2>2. CASE x # r
    <3>1. RowInv(x, p.queue, p.lane[x], s, w[x]) /\ p2.lane[x] = p.lane[x]
      BY <1>5, <2>2 DEF ListInv
    <3>2. p.lane[x] # <<>> => IsWrite(p.lane[x][1], x, n)
      <4>1. p.lane[x] # <<>> => 1 \in 1 .. Len(p.lane[x])
        BY <1>1, ListIs DEF LanesOK
      <4> QED BY <1>1, <4>1 DEF LanesOK
    <3>3. RowInv(x, p.queue, p.lane[x], s2, w[x])
      BY <1>4, <2>2, <3>1, <3>2, OwnState
    <3>4. t.row # x
      BY <2>2 DEF IsWrite
    <3>5. RowInv(x, Append(p.queue, t), p.lane[x], s2, w[x])
      BY <1>1, <3>3, <3>4, OtherQueued
    <3> QED BY <3>1, <3>3, <3>5
  <2> QED BY <2>1, <2>2
<1> QED BY <1>1, <1>4, <1>6, <1>7, <1>8, <1>9, <1>10, <1>11 DEF ListInv

\* The first write of the queue is carried out.
LEMMA ListReplay ==
  ASSUME NEW p, NEW s, NEW st, NEW A, NEW w, NEW X, NEW n, ListInv(p, s, st, A, w, X, n), p.queue # <<>>,
         NEW p2, DOMAIN p2 = PhoneFields, p2.lane = p.lane, p2.marks = p.marks, p2.queue = p.queue \/ p2.queue = Tail(p.queue),
         p2.drawn = p.drawn, p2.list = p.list, p2.fetch = p.fetch \/ p2.fetch.at # "read"
  PROVE  ListInv(p2, Carried(s, Head(p.queue)), st, A, w, X, n)
<1> DEFINE t == p.queue[1]
           r == t.row
           s2 == Carried(s, t)
<1>1. /\ n \in Nat /\ IsShop(s, n) /\ LanesOK(p.lane, n) /\ QueueOK(p.queue, p.marks, n) /\ ScreenOK(p) /\ IsList(p.queue)
  BY DEF ListInv, QueueOK
<1>2. /\ IsList(Tail(p.queue)) /\ Len(Tail(p.queue)) = Len(p.queue) - 1 /\ Len(p.queue) \in Nat /\ Len(p.queue) >= 1
      /\ Head(p.queue) = t /\ \A k \in 1 .. Len(p.queue) - 1 : Tail(p.queue)[k] = p.queue[k + 1]
  BY <1>1, TailIs
<1>3. 1 \in 1 .. Len(p.queue)
  BY <1>2
<1>4. r \in Row /\ IsWrite(t, r, n)
  BY <1>1, <1>3 DEF QueueOK
<1> HIDE DEF t
<1>5. /\ IsShop(s2, n) /\ s2.bought = s.bought
      /\ \A i \in Items : i # r => s2.tick[i] = s.tick[i]
      /\ \A l \in Lines : l # r => s2.lines[l] = s.lines[l]
  BY <1>1, <1>4, CarriedIs
<1> HIDE DEF r, s2
<1>6. QueueOK(p2.queue, p2.marks, n) /\ \A x : Of(p2.queue, x) \subseteq Of(p.queue, x)
  <2>1. \A x : Of(Tail(p.queue), x) \subseteq Of(p.queue, x)
    BY <1>1, OfTail
  <2>2. QueueOK(Tail(p.queue), p.marks, n)
    <3> SUFFICES ASSUME NEW k \in 1 .. Len(Tail(p.queue))
                 PROVE  /\ Tail(p.queue)[k].row \in Row /\ Tail(p.queue)[k].row \in p.marks
                        /\ IsWrite(Tail(p.queue)[k], Tail(p.queue)[k].row, n)
      BY <1>2 DEF QueueOK
    <3>1. k + 1 \in 1 .. Len(p.queue) /\ Tail(p.queue)[k] = p.queue[k + 1]
      BY <1>2
    <3> QED BY <1>1, <3>1 DEF QueueOK
  <2> QED BY <1>1, <2>1, <2>2
<1>7. ScreenOK(p2)
  BY <1>1 DEF ScreenOK
<1>8. ASSUME NEW l \in Lines, w[l] = "new" PROVE Unknown(p2, s2, l)
  <2>1. Unknown(p, s, l)
    BY <1>8 DEF ListInv
  <2>2. t \in Of(p.queue, r)
    BY <1>3 DEF Of, t, r
  <2>3. l # r
    BY <2>1, <2>2 DEF Unknown
  <2>4. s2.lines[l] = None /\ Of(p2.queue, l) = {}
    BY <1>5, <1>6, <2>1, <2>3 DEF Unknown
  <2> QED BY <2>1, <2>4 DEF Unknown
<1>9. ASSUME NEW b \in Button PROVE AimOK(p2, st[b], A[b])
  <2>1. AimOK(p, st[b], A[b])
    BY DEF ListInv
  <2> QED BY <1>6, <2>1 DEF AimOK
<1>10. ASSUME NEW x \in Row \ X PROVE RowInv(x, p2.queue, p2.lane[x], s2, w[x])
  <2>1. RowInv(x, p.queue, p.lane[x], s, w[x])
    BY DEF ListInv
  <2>2. CASE x = r
    <3>1. RowInv(r, p.queue, p.lane[r], s, w[r])
      BY <2>1, <2>2
    <3>2. IsWrite(p.queue[1], r, n)
      BY <1>4 DEF t
    <3>3. RowInv(r, p.queue, p.lane[r], s2, w[r]) /\ RowInv(r, Tail(p.queue), p.lane[r], s2, w[r])
      BY <1>1, <1>4, <3>1, <3>2, RowReplayed DEF s2, t
    <3> QED BY <2>2, <3>3
  <2>3. CASE x # r
    <3>1. p.lane[x] # <<>> => IsWrite(p.lane[x][1], x, n)
      <4>1. p.lane[x] # <<>> => 1 \in 1 .. Len(p.lane[x])
        BY <1>1, ListIs DEF LanesOK
      <4> QED BY <1>1, <4>1 DEF LanesOK
    <3>2. RowInv(x, p.queue, p.lane[x], s2, w[x])
      BY <1>5, <2>1, <2>3, <3>1, OwnState
    <3>3. p.queue[1].row # x
      BY <2>3 DEF r, t
    <3>4. RowInv(x, Tail(p.queue), p.lane[x], s2, w[x])
      BY <1>1, <3>2, <3>3, OtherReplayed
    <3> QED BY <3>2, <3>4
  <2> QED BY <2>2, <2>3
<1>11. ListInv(p2, s2, st, A, w, X, n)
  BY <1>1, <1>5, <1>6, <1>7, <1>8, <1>9, <1>10 DEF ListInv
<1> QED BY <1>2, <1>11 DEF s2

\* A tap: online it takes its place in the lane, offline in the queue.
Tapped(p, A, w, X, r, t, to, p2, A2, w2, X2) ==
    /\ DOMAIN p2 = PhoneFields /\ p2.drawn = p.drawn
    /\ DOMAIN p2.lane = Row /\ \A x \in Row : x # r => p2.lane[x] = p.lane[x]
    /\ p.online => /\ p2.lane[r] = Append(p.lane[r], t) /\ t.stage = "waiting" /\ t.snap = p.list
                   /\ p2.queue = p.queue /\ p2.marks = p.marks
    /\ ~p.online => p2.lane[r] = p.lane[r] /\ p2.queue = Append(p.queue, t) /\ p2.marks = p.marks \cup {r}
    /\ HasLines(p2.list) /\ \A l \in Lines : l # r => p2.list.lines[l] = p.list.lines[l]
    /\ p2.fetch.at # "read"
    /\ X2 = X \/ X2 = X \cup {r}
    /\ ~p.online /\ p.lane[r] # <<>> => r \in X2
    /\ DOMAIN A2 = Button /\ \A b \in Button : A2[b] = A[b] \ {r}
    /\ DOMAIN w2 = Row /\ w2[r] = to /\ \A x \in Row : x # r => w2[x] = w[x]

LEMMA ListTap ==
  ASSUME NEW p, NEW s, NEW st, NEW A, NEW w, NEW X, NEW n \in Nat, ListInv(p, s, st, A, w, X, n), NEW m \in Nat, m = n + 1,
         NEW r \in Row, NEW t, IsWrite(t, r, m), NEW to, r \in Lines => to \in {None, "open", "checked"},
         Taps(r, p.queue, p.lane[r], s, w[r], t, to),
         NEW p2, NEW A2, NEW w2, NEW X2, Tapped(p, A, w, X, r, t, to, p2, A2, w2, X2)
  PROVE  ListInv(p2, s, st, A2, w2, X2, m)
<1> USE DEF Tapped
<1>1. /\ n \in Nat /\ m \in Nat /\ IsShop(s, m) /\ LanesOK(p.lane, m) /\ QueueOK(p.queue, p.marks, m) /\ ScreenOK(p)
      /\ IsList(p.lane[r]) /\ IsList(p.queue) /\ DOMAIN p.lane = Row /\ LanesOK(p.lane, n)
  <2>1. n \in Nat /\ IsShop(s, n) /\ LanesOK(p.lane, n) /\ QueueOK(p.queue, p.marks, n) /\ ScreenOK(p)
    BY DEF ListInv
  <2>2. m \in Nat /\ m >= n
    BY <2>1
  <2> QED BY <2>1, <2>2, LaterToo DEF LanesOK, QueueOK
<1>2. /\ DOMAIN w2 = Row /\ w2[r] = to /\ \A x \in Row : x # r => w2[x] = w[x]
      /\ \A l \in Lines : w2[l] \in {None, "new", "open", "checked"}
  BY DEF ListInv, Row
<1>3. DOMAIN A2 = Button /\ \A b \in Button : A2[b] \subseteq Row /\ A2[b] \subseteq A[b] /\ r \notin A2[b]
  BY DEF ListInv
<1>4. t.row = r
  BY DEF IsWrite
<1>5. /\ \A x \in Row : x # r => p2.lane[x] = p.lane[x] /\ Of(p2.queue, x) = Of(p.queue, x)
      /\ p2.lane[r] = IF p.online THEN Append(p.lane[r], t) ELSE p.lane[r]
      /\ DOMAIN p2.lane = Row
  <2>1. \A x \in Row : x # r => Of(Append(p.queue, t), x) = Of(p.queue, x)
    BY <1>1, <1>4, OfAppend
  <2>2. CASE p.online
    BY <1>1, <2>2
  <2>3. CASE ~p.online
    <3>1. p2.lane[r] = p.lane[r] /\ p2.queue = Append(p.queue, t)
      BY <2>3
    <3> QED BY <1>1, <2>1, <2>3, <3>1
  <2> QED BY <2>2, <2>3
<1>6. LanesOK(p2.lane, m)
  <2>1. CASE ~p.online
    BY <1>1, <1>5, <2>1 DEF LanesOK
  <2>2. CASE p.online
    <3>1. /\ IsList(p2.lane[r]) /\ Len(p2.lane[r]) = Len(p.lane[r]) + 1 /\ Len(p.lane[r]) \in Nat
          /\ (\A k \in 1 .. Len(p.lane[r]) : p2.lane[r][k] = p.lane[r][k]) /\ p2.lane[r][Len(p.lane[r]) + 1] = t
      BY <1>1, <1>5, <2>2, AppendIs, ListIs
    <3>2. HasLines(t.snap)
      BY <1>1, <2>2 DEF ScreenOK
    <3>3. \A k \in 1 .. Len(p2.lane[r]) : IsWrite(p2.lane[r][k], r, m) /\ HasLines(p2.lane[r][k].snap)
      <4> TAKE k \in 1 .. Len(p2.lane[r])
      <4>1. k = Len(p.lane[r]) + 1 \/ k \in 1 .. Len(p.lane[r])
        BY <3>1
      <4> QED BY <1>1, <3>1, <3>2, <4>1 DEF LanesOK
    <3>4. \A x \in Row : x # r => /\ IsList(p2.lane[x])
                                  /\ \A k \in 1 .. Len(p2.lane[x]) : IsWrite(p2.lane[x][k], x, m) /\ HasLines(p2.lane[x][k].snap)
      BY <1>1, <1>5 DEF LanesOK
    <3> QED BY <1>5, <3>1, <3>3, <3>4 DEF LanesOK
  <2> QED BY <2>1, <2>2
<1>7. QueueOK(p2.queue, p2.marks, m)
  <2>1. CASE p.online
    BY <1>1, <2>1
  <2>2. CASE ~p.online
    <3>1. /\ IsList(p2.queue) /\ Len(p2.queue) = Len(p.queue) + 1 /\ Len(p.queue) \in Nat
          /\ (\A k \in 1 .. Len(p.queue) : p2.queue[k] = p.queue[k]) /\ p2.queue[Len(p.queue) + 1] = t
      <4>1. p2.queue = Append(p.queue, t)
        BY <2>2
      <4> QED BY <1>1, <4>1, AppendIs, ListIs
    <3>2. ASSUME NEW k \in 1 .. Len(p2.queue)
          PROVE  p2.queue[k].row \in Row /\ p2.queue[k].row \in p2.marks /\ IsWrite(p2.queue[k], p2.queue[k].row, m)
      <4>1. CASE k = Len(p.queue) + 1
        BY <1>4, <2>2, <3>1, <4>1
      <4>2. CASE k \in 1 .. Len(p.queue)
        BY <1>1, <2>2, <3>1, <4>2 DEF QueueOK
      <4> QED BY <3>1, <4>1, <4>2
    <3> QED BY <3>1, <3>2 DEF QueueOK
  <2> QED BY <2>1, <2>2
<1>8. ScreenOK(p2)
  BY DEF ScreenOK
<1>9. ASSUME NEW l \in Lines, w2[l] = "new" PROVE Unknown(p2, s, l)
  <2>1. l \in Row /\ l # r /\ w[l] = "new"
    BY <1>2, <1>9, ShoppingListAssumption DEF Row
  <2>2. Unknown(p, s, l)
    BY <2>1 DEF ListInv
  <2>3. p2.lane[l] = <<>> /\ Of(p2.queue, l) = {}
    BY <1>5, <2>1, <2>2 DEF Unknown
  <2>4. \A x \in Row : \A k \in 1 .. Len(p2.lane[x]) : p2.lane[x][k].snap.lines[l] = None
    <3> TAKE x \in Row
    <3> TAKE k \in 1 .. Len(p2.lane[x])
    <3>1. CASE p2.lane[x] = p.lane[x]
      BY <2>2, <3>1 DEF Unknown
    <3>2. CASE p2.lane[x] # p.lane[x]
      <4>1. x = r /\ p.online /\ p2.lane[x] = Append(p.lane[r], t) /\ t.snap = p.list
        BY <1>5, <3>2
      <4>2. k \in 1 .. Len(p.lane[r]) \/ k = Len(p.lane[r]) + 1
        BY <1>1, <4>1, AppendIs, ListIs
      <4>3. k \in 1 .. Len(p.lane[r]) => p2.lane[x][k] = p.lane[r][k]
        BY <1>1, <4>1, AppendIs
      <4>4. k = Len(p.lane[r]) + 1 => p2.lane[x][k] = t
        BY <1>1, <4>1, AppendIs
      <4> QED BY <2>2, <4>1, <4>2, <4>3, <4>4 DEF Unknown
    <3> QED BY <3>1, <3>2
  <2> QED BY <2>1, <2>2, <2>3, <2>4 DEF Unknown
<1>10. ASSUME NEW b \in Button PROVE AimOK(p2, st[b], A2[b])
  <2>1. AimOK(p, st[b], A[b])
    BY DEF ListInv
  <2> QED BY <1>3, <1>5, <2>1 DEF AimOK
<1>11. ASSUME NEW x \in Row \ X2 PROVE RowInv(x, p2.queue, p2.lane[x], s, w2[x])
  <2>1. RowInv(x, p.queue, p.lane[x], s, w[x])
    BY DEF ListInv
  <2>2. CASE x # r
    <3>1. p2.lane[x] = p.lane[x] /\ w2[x] = w[x]
      BY <1>2, <1>5, <2>2
    <3>2. RowInv(x, Append(p.queue, t), p.lane[x], s, w[x])
      BY <1>1, <1>4, <2>1, <2>2, OtherQueued
    <3> QED BY <2>1, <3>1, <3>2
  <2>3. CASE x = r
    <3>1. RowInv(r, p.queue, p.lane[r], s, w[r]) /\ w2[r] = to
      BY <1>2, <2>1, <2>3
    <3>2. CASE p.online
      <4>1. RowInv(r, p.queue, Append(p.lane[r], t), s, to)
        BY <1>1, <3>1, <3>2, TapLane
      <4> QED BY <1>2, <1>5, <2>3, <3>2, <4>1
    <3>3. CASE ~p.online
      <4>1. p.lane[r] = <<>>
        BY <1>11, <2>3, <3>3
      <4>2. RowInv(r, Append(p.queue, t), p.lane[r], s, to)
        BY <1>1, <3>1, <4>1, TapQueue
      <4> QED BY <1>2, <1>5, <2>3, <3>3, <4>2
    <3> QED BY <3>2, <3>3
  <2> QED BY <2>2, <2>3
<1> QED BY <1>1, <1>2, <1>3, <1>6, <1>7, <1>8, <1>9, <1>10, <1>11 DEF ListInv

\* A purchase; an item with a tap still under way is crossed.
Purchased(s, w, s2, w2) ==
    /\ s2 = [tick |-> [i \in Items |-> None], bought |-> s.bought \cup Ticks(s),
             lines |-> [l \in Lines |-> IF s.lines[l] = "checked" THEN "bought" ELSE s.lines[l]]]
    /\ w2 = [r \in Row |-> IF r \in Items \/ s.lines[r] = "checked" THEN None ELSE w[r]]

LEMMA ListBought ==
  ASSUME NEW p, NEW s, NEW st, NEW A, NEW w, NEW X, NEW n, ListInv(p, s, st, A, w, X, n),
         NEW s2, NEW w2, Purchased(s, w, s2, w2),
         NEW X2, X \subseteq X2, \A i \in Items : i \in X2 \/ (p.lane[i] = <<>> /\ Of(p.queue, i) = {}),
         NEW st2, DOMAIN st2 = Button, \A b \in Button : st2[b] = st[b] \/ st2[b] = "bought"
  PROVE  ListInv(p, s2, st2, A, w2, X2, n)
<1> USE DEF Purchased
<1>1. n \in Nat /\ IsShop(s, n) /\ LanesOK(p.lane, n) /\ QueueOK(p.queue, p.marks, n)
  BY DEF ListInv
<1>2. IsShop(s2, n)
  BY <1>1, ShoppingListAssumption DEF IsShop, Ticks
<1>3. /\ DOMAIN w2 = Row
      /\ \A l \in Lines : l \in Row /\ l \notin Items /\ w2[l] = IF s.lines[l] = "checked" THEN None ELSE w[l]
      /\ \A i \in Items : w2[i] = None
  BY ShoppingListAssumption DEF Row
<1>4. \A l \in Lines : w2[l] \in {None, "new", "open", "checked"}
  BY <1>3 DEF ListInv
<1>5. ASSUME NEW l \in Lines, w2[l] = "new" PROVE Unknown(p, s2, l)
  <2>1. w[l] = "new"
    BY <1>3, <1>5, ShoppingListAssumption
  <2>2. Unknown(p, s, l)
    BY <2>1 DEF ListInv
  <2>3. s2.lines[l] = None
    BY <2>2, ShoppingListAssumption DEF Unknown
  <2> QED BY <2>2, <2>3 DEF Unknown
<1>6. ASSUME NEW b \in Button PROVE AimOK(p, st2[b], A[b])
  <2>1. AimOK(p, st[b], A[b])
    BY DEF ListInv
  <2> QED BY <2>1 DEF AimOK
<1>7. ASSUME NEW r \in Row \ X2 PROVE RowInv(r, p.queue, p.lane[r], s2, w2[r])
  <2>1. RowInv(r, p.queue, p.lane[r], s, w[r])
    BY DEF ListInv
  <2>2. r \in Items => p.lane[r] = <<>> /\ Of(p.queue, r) = {} /\ s2.tick[r] = None /\ w2[r] = None
    BY <1>3, <1>7
  <2>3. r \in Lines => /\ s2.lines[r] = IF s.lines[r] = "checked" THEN "bought" ELSE s.lines[r]
                       /\ w2[r] = IF s.lines[r] = "checked" THEN None ELSE w[r]
    BY <1>3
  <2>4. \A t \in Of(p.queue, r) \cup Of(p.lane[r], r) : IsWrite(t, r, n)
    BY <1>1 DEF Of, LanesOK, QueueOK
  <2>5. p.lane[r] # <<>> => p.lane[r][1] \in Of(p.lane[r], r)
    <3>1. p.lane[r] # <<>> => 1 \in 1 .. Len(p.lane[r])
      BY <1>1, ListIs DEF LanesOK
    <3> QED BY <1>1, <3>1 DEF LanesOK, IsWrite, Of
  <2> QED BY <1>1, <1>7, <2>1, <2>2, <2>3, <2>4, <2>5, RowBought
<1> QED BY <1>1, <1>2, <1>3, <1>4, <1>5, <1>6, <1>7 DEF ListInv

-----------------------------------------------------------------------------
ShopInv == late = {} /\ ListInv(phone, shop, adding, aim, wish, crossedRows, rowTaps)

LEMMA TapRowStep ==
  ASSUME ShopInv, NEW r \in Row, NEW t, DOMAIN t = WriteFields, IsWrite(t, r, rowTaps + 1), t.stage = "waiting",
         NEW wanted, r \in Lines => wanted \in {None, "open", "checked"},
         Taps(r, phone.queue, phone.lane[r], shop, wish[r], t, wanted), TapRow(t, wanted)
  PROVE  ShopInv'
<1> DEFINE q == [phone EXCEPT !.fetch = Idle, !.list = Patched(@, t)]
           t1 == [t EXCEPT !.snap = phone.list]
           t2 == [t EXCEPT !.stage = "queued", !.snap = None]
<1>1. /\ ListInv(phone, shop, adding, aim, wish, crossedRows, rowTaps) /\ late = {}
      /\ DOMAIN phone = PhoneFields /\ DOMAIN phone.lane = Row /\ HasLines(phone.list) /\ DOMAIN wish = Row /\ DOMAIN aim = Button
  BY DEF ShopInv, ListInv, LanesOK, ScreenOK
<1>2. t.row = r
  BY DEF IsWrite
<1>3. /\ DOMAIN q = PhoneFields /\ q.lane = phone.lane /\ q.queue = phone.queue /\ q.marks = phone.marks /\ q.online = phone.online
      /\ q.drawn = phone.drawn /\ q.list = Patched(phone.list, t) /\ q.fetch = Idle
  BY <1>1 DEF PhoneFields
<1>4. /\ IsWrite(t1, r, rowTaps + 1) /\ t1.stage = "waiting" /\ t1.snap = phone.list
      /\ Taps(r, phone.queue, phone.lane[r], shop, wish[r], t1, wanted)
  <2>1. /\ DOMAIN t1 = WriteFields /\ t1.row = t.row /\ t1.kind = t.kind /\ t1.id = t.id /\ t1.to = t.to
        /\ t1.stage = t.stage /\ t1.snap = phone.list
    BY DEF WriteFields
  <2> HIDE DEF t1
  <2> QED BY <2>1 DEF IsWrite, Taps
<1>5. IsWrite(t2, r, rowTaps + 1) /\ Taps(r, phone.queue, phone.lane[r], shop, wish[r], t2, wanted)
  <2>1. DOMAIN t2 = WriteFields /\ t2.row = t.row /\ t2.kind = t.kind /\ t2.id = t.id /\ t2.to = t.to
    BY DEF WriteFields
  <2> HIDE DEF t2
  <2> QED BY <2>1 DEF IsWrite, Taps
<1>6. HasLines(q.list) /\ \A l \in Lines : l # r => q.list.lines[l] = phone.list.lines[l]
  <2>1. /\ HasLines(Patched(phone.list, t))
        /\ \A l \in Lines : l # r => Patched(phone.list, t).lines[l] = phone.list.lines[l]
    BY <1>1, <1>2 DEF Patched, HasLines
  <2> QED BY <1>3, <2>1
<1>7. phone' = IF q.online THEN [q EXCEPT !.lane[t.row] = Append(@, t1)] ELSE Queued(q, t)
  BY DEF TapRow, Perform
<1>8. /\ wish' = [wish EXCEPT ![r] = wanted] /\ aim' = [b \in Button |-> aim[b] \ {r}] /\ rowTaps' = rowTaps + 1
      /\ shop' = shop /\ adding' = adding /\ late' = late
      /\ crossedRows' = IF ~phone.online /\ phone.lane[r] # <<>> THEN crossedRows \cup {r} ELSE crossedRows
  BY <1>2 DEF TapRow
<1>9. Idle.at = "idle"
  BY DEF Idle
<1>10. Queued(q, t) = [q EXCEPT !.queue = Append(@, t2), !.marks = @ \cup {r}]
  BY <1>2 DEF Queued
<1> HIDE DEF q, t1, t2
<1>11. /\ DOMAIN phone' = PhoneFields /\ phone'.drawn = phone.drawn /\ phone'.list = q.list /\ phone'.fetch.at = "idle"
       /\ phone.online => phone'.lane = [phone.lane EXCEPT ![r] = Append(@, t1)] /\ phone'.queue = phone.queue /\ phone'.marks = phone.marks
       /\ ~phone.online => phone'.lane = phone.lane /\ phone'.queue = Append(phone.queue, t2) /\ phone'.marks = phone.marks \cup {r}
  <2>1. CASE phone.online
    <3>1. phone' = [q EXCEPT !.lane[r] = Append(@, t1)]
      BY <1>2, <1>3, <1>7, <2>1
    <3> QED BY <1>3, <1>9, <2>1, <3>1 DEF PhoneFields
  <2>2. CASE ~phone.online
    <3>1. phone' = [q EXCEPT !.queue = Append(@, t2), !.marks = @ \cup {r}]
      BY <1>3, <1>7, <1>10, <2>2
    <3> QED BY <1>3, <1>9, <2>2, <3>1 DEF PhoneFields
  <2> QED BY <2>1, <2>2
<1>12. crossedRows' = crossedRows \/ crossedRows' = crossedRows \cup {r}
  BY <1>8
<1>13. ~phone.online /\ phone.lane[r] # <<>> => r \in crossedRows'
  BY <1>8
<1>14. \A l \in Lines : l # r => phone'.list.lines[l] = phone.list.lines[l]
  BY <1>6, <1>11
<1>15. phone'.fetch.at # "read" /\ HasLines(phone'.list)
  BY <1>6, <1>11
<1>16. ListInv(phone', shop, adding, aim', wish', crossedRows', rowTaps')
  <2>1. PICK u : /\ IsWrite(u, r, rowTaps') /\ Taps(r, phone.queue, phone.lane[r], shop, wish[r], u, wanted)
                 /\ phone.online => /\ phone'.lane = [phone.lane EXCEPT ![r] = Append(@, u)] /\ u.stage = "waiting"
                                    /\ phone'.queue = phone.queue /\ phone'.marks = phone.marks /\ u.snap = phone.list
                 /\ ~phone.online => /\ phone'.lane = phone.lane /\ phone'.queue = Append(phone.queue, u)
                                     /\ phone'.marks = phone.marks \cup {r}
    <3>1. CASE phone.online
      BY <1>4, <1>8, <1>11, <3>1
    <3>2. CASE ~phone.online
      BY <1>5, <1>8, <1>11, <3>2
    <3> QED BY <3>1, <3>2
  <2>2. Tapped(phone, aim, wish, crossedRows, r, u, wanted, phone', aim', wish', crossedRows')
    <3>1. DOMAIN phone'.lane = Row /\ \A x \in Row : x # r => phone'.lane[x] = phone.lane[x]
      BY <1>1, <1>11
    <3>2. phone.online => phone'.lane[r] = Append(phone.lane[r], u)
      BY <1>1, <2>1
    <3>3. DOMAIN aim' = Button /\ \A b \in Button : aim'[b] = aim[b] \ {r}
      BY <1>1, <1>8
    <3>4. DOMAIN wish' = Row /\ wish'[r] = wanted /\ \A x \in Row : x # r => wish'[x] = wish[x]
      BY <1>1, <1>8
    <3> QED BY <1>11, <1>12, <1>13, <1>14, <1>15, <2>1, <3>1, <3>2, <3>3, <3>4 DEF Tapped
  <2>3. rowTaps \in Nat /\ rowTaps' \in Nat /\ rowTaps' = rowTaps + 1
    BY <1>1, <1>8 DEF ListInv
  <2> QED BY <1>1, <2>1, <2>2, <2>3, ListTap
<1> QED BY <1>1, <1>8, <1>16 DEF ShopInv

LEMMA WriteIs ==
  ASSUME NEW r, NEW kind, NEW id, NEW was, NEW to
  PROVE  /\ DOMAIN Write(r, kind, id, was, to) = WriteFields
         /\ Write(r, kind, id, was, to).row = r /\ Write(r, kind, id, was, to).kind = kind /\ Write(r, kind, id, was, to).id = id
         /\ Write(r, kind, id, was, to).to = to /\ Write(r, kind, id, was, to).stage = "waiting"
BY DEF Write, WriteFields

LEMMA ToggleStep == ASSUME ShopInv, NEW i \in Items, Toggle(i) PROVE ShopInv'
<1>1. ListInv(phone, shop, adding, aim, wish, crossedRows, rowTaps)
  BY DEF ShopInv
<1>2. /\ rowTaps \in Nat /\ IsShop(shop, rowTaps) /\ i \in Row /\ i \notin Lines
      /\ None # "new" /\ None \notin Nat
  BY <1>1, ShoppingListAssumption DEF ListInv, Row
<1>3. CASE i \in phone.list.ticked
  <2> DEFINE t == Write(i, "untick", None, None, None)
  <2>1. DOMAIN t = WriteFields /\ t.row = i /\ t.kind = "untick" /\ t.stage = "waiting"
    BY WriteIs
  <2>2. TapRow(t, None)
    BY <1>3 DEF Toggle
  <2> HIDE DEF t
  <2>3. IsWrite(t, i, rowTaps + 1) /\ Taps(i, phone.queue, phone.lane[i], shop, wish[i], t, None)
    BY <1>2, <2>1 DEF IsWrite, Taps
  <2> QED BY <1>2, <2>1, <2>2, <2>3, TapRowStep
<1>4. CASE i \notin phone.list.ticked
  <2> DEFINE t == Write(i, "tick", rowTaps + 1, None, None)
  <2>1. DOMAIN t = WriteFields /\ t.row = i /\ t.kind = "tick" /\ t.id = rowTaps + 1 /\ t.stage = "waiting"
    BY WriteIs
  <2>2. TapRow(t, rowTaps + 1)
    BY <1>4 DEF Toggle
  <2> HIDE DEF t
  <2>3. rowTaps + 1 # None /\ rowTaps + 1 \notin shop.bought /\ rowTaps + 1 \in 0 .. rowTaps + 1
    BY <1>2 DEF IsShop
  <2>4. IsWrite(t, i, rowTaps + 1) /\ Taps(i, phone.queue, phone.lane[i], shop, wish[i], t, rowTaps + 1)
    BY <1>2, <2>1, <2>3 DEF IsWrite, Taps
  <2> QED BY <1>2, <2>1, <2>2, <2>3, <2>4, TapRowStep
<1> QED BY <1>3, <1>4

LEMMA LineStep == ASSUME ShopInv, NEW l \in Lines, AddLine(l) \/ CheckLine(l) \/ DeleteLine(l) PROVE ShopInv'
<1>1. ListInv(phone, shop, adding, aim, wish, crossedRows, rowTaps)
  BY DEF ShopInv
<1>2. /\ rowTaps \in Nat /\ l \in Row /\ l \notin Items /\ None # "new"
      /\ wish[l] \in {None, "new", "open", "checked"} /\ (wish[l] = "new" => Unknown(phone, shop, l))
  BY <1>1, ShoppingListAssumption DEF ListInv, Row
<1>3. CASE AddLine(l)
  <2> DEFINE t == Write(l, "add", None, None, None)
  <2>1. DOMAIN t = WriteFields /\ t.row = l /\ t.kind = "add" /\ t.stage = "waiting"
    BY WriteIs
  <2>2. TapRow(t, "open") /\ wish[l] = "new"
    BY <1>3 DEF AddLine
  <2> HIDE DEF t
  <2>3. IsWrite(t, l, rowTaps + 1)
    BY <1>2, <2>1 DEF IsWrite
  <2>4. Taps(l, phone.queue, phone.lane[l], shop, wish[l], t, "open")
    BY <1>2, <2>1, <2>2 DEF Taps, Unknown
  <2> QED BY <1>2, <2>1, <2>2, <2>3, <2>4, TapRowStep
<1>4. CASE CheckLine(l)
  <2>1. PICK to \in {"open", "checked"} : to = IF phone.drawn[l] = "checked" THEN "open" ELSE "checked"
    OBVIOUS
  <2> DEFINE t == Write(l, "check", None, phone.drawn[l], to)
             wanted == IF wish[l] = None THEN None ELSE to
  <2>2. DOMAIN t = WriteFields /\ t.row = l /\ t.kind = "check" /\ t.to = to /\ t.stage = "waiting"
    BY WriteIs
  <2>3. TapRow(t, wanted) /\ phone.drawn[l] # None
    BY <1>4, <2>1 DEF CheckLine
  <2>4. wish[l] # "new"
    BY <1>2, <2>3 DEF Unknown
  <2> HIDE DEF t
  <2>5. IsWrite(t, l, rowTaps + 1)
    BY <1>2, <2>2 DEF IsWrite
  <2>6. Taps(l, phone.queue, phone.lane[l], shop, wish[l], t, wanted)
    BY <1>2, <2>2, <2>4 DEF Taps
  <2>7. wanted \in {None, "open", "checked"}
    BY <1>2
  <2> HIDE DEF wanted
  <2> QED BY <1>2, <2>2, <2>3, <2>5, <2>6, <2>7, TapRowStep
<1>5. CASE DeleteLine(l)
  <2> DEFINE t == Write(l, "delete", None, phone.drawn[l], None)
  <2>1. DOMAIN t = WriteFields /\ t.row = l /\ t.kind = "delete" /\ t.stage = "waiting"
    BY WriteIs
  <2>2. TapRow(t, None)
    BY <1>5 DEF DeleteLine
  <2> HIDE DEF t
  <2>3. IsWrite(t, l, rowTaps + 1) /\ Taps(l, phone.queue, phone.lane[l], shop, wish[l], t, None)
    BY <1>2, <2>1 DEF IsWrite, Taps
  <2> QED BY <1>2, <2>1, <2>2, <2>3, TapRowStep
<1> QED BY <1>3, <1>4, <1>5

-----------------------------------------------------------------------------
\* The lane of a row and the first write of it.
LEMMA HeadIs ==
  ASSUME ShopInv, NEW r \in Row, phone.lane[r] # <<>>
  PROVE  /\ ListInv(phone, shop, adding, aim, wish, crossedRows, rowTaps) /\ rowTaps \in Nat /\ IsShop(shop, rowTaps)
         /\ DOMAIN phone = PhoneFields /\ DOMAIN phone.lane = Row /\ IsList(phone.lane[r]) /\ IsList(phone.queue)
         /\ Head(phone.lane[r]) = phone.lane[r][1] /\ 1 \in 1 .. Len(phone.lane[r])
         /\ IsWrite(phone.lane[r][1], r, rowTaps)
         /\ r \notin crossedRows => RowInv(r, phone.queue, phone.lane[r], shop, wish[r])
         /\ r \notin phone.marks => Of(phone.queue, r) = {}
         /\ LaneIs(phone.lane[r], r, rowTaps)
<1>1. /\ ListInv(phone, shop, adding, aim, wish, crossedRows, rowTaps) /\ rowTaps \in Nat /\ IsShop(shop, rowTaps)
      /\ DOMAIN phone = PhoneFields /\ LanesOK(phone.lane, rowTaps) /\ QueueOK(phone.queue, phone.marks, rowTaps)
      /\ r \notin crossedRows => RowInv(r, phone.queue, phone.lane[r], shop, wish[r])
  BY DEF ShopInv, ListInv
<1>2. /\ DOMAIN phone.lane = Row /\ IsList(phone.lane[r]) /\ IsList(phone.queue)
      /\ \A k \in 1 .. Len(phone.lane[r]) : IsWrite(phone.lane[r][k], r, rowTaps)
  BY <1>1 DEF LanesOK, QueueOK
<1>3. Head(phone.lane[r]) = phone.lane[r][1] /\ 1 \in 1 .. Len(phone.lane[r])
  BY <1>2, TailIs, ListIs
<1>4. r \notin phone.marks => Of(phone.queue, r) = {}
  BY <1>1 DEF QueueOK, Of
<1> QED BY <1>1, <1>2, <1>3, <1>4 DEF LaneIs

\* The lane after its first write has left it, or has got a new stage.
LEMMA RestLane ==
  ASSUME NEW o, o # <<>>, NEW r, NEW n, LaneIs(o, r, n)
  PROVE  LaneIs(Tail(o), r, n) /\ FromLane(Tail(o), o)
<1> DEFINE p == Tail(o)
<1>1. /\ IsList(p) /\ Len(p) = Len(o) - 1 /\ Len(o) \in Nat /\ Len(o) >= 1
      /\ \A k \in 1 .. Len(o) - 1 : p[k] = o[k + 1]
  BY TailIs DEF LaneIs
<1> HIDE DEF p
<1>2. \A k \in 1 .. Len(p) : IsWrite(p[k], r, n) /\ \E m \in 1 .. Len(o) : p[k].snap = o[m].snap
  <2> TAKE k \in 1 .. Len(p)
  <2>1. k + 1 \in 1 .. Len(o) /\ p[k] = o[k + 1]
    BY <1>1
  <2> QED BY <2>1 DEF LaneIs
<1>3. LaneIs(p, r, n) /\ FromLane(p, o)
  BY <1>1, <1>2 DEF LaneIs, FromLane
<1> QED BY <1>3 DEF p

LEMMA HeadLane ==
  ASSUME NEW o, o # <<>>, NEW r, NEW n, LaneIs(o, r, n), NEW t, IsWrite(t, r, n), t.snap = o[1].snap
  PROVE  LaneIs(<<t>> \o Tail(o), r, n) /\ FromLane(<<t>> \o Tail(o), o)
<1> DEFINE o2 == <<t>> \o Tail(o)
<1>1. /\ IsList(o2) /\ Len(o2) = Len(o) /\ o2[1] = t /\ \A k \in 2 .. Len(o) : o2[k] = o[k]
  BY NewHeadIs DEF LaneIs
<1>2. Len(o) \in Nat /\ 1 \in 1 .. Len(o)
  BY TailIs DEF LaneIs
<1> HIDE DEF o2
<1>3. \A k \in 1 .. Len(o2) : IsWrite(o2[k], r, n) /\ \E m \in 1 .. Len(o) : o2[k].snap = o[m].snap
  <2> TAKE k \in 1 .. Len(o2)
  <2>1. k = 1 \/ (k \in 2 .. Len(o) /\ k \in 1 .. Len(o))
    BY <1>1, <1>2
  <2> QED BY <1>1, <1>2, <2>1 DEF LaneIs
<1>4. LaneIs(o2, r, n) /\ FromLane(o2, o)
  BY <1>1, <1>3 DEF LaneIs, FromLane
<1> QED BY <1>4 DEF o2

Steady == wish' = wish /\ aim' = aim /\ adding' = adding /\ rowTaps' = rowTaps /\ crossedRows' = crossedRows /\ late' = late

\* The first write of a lane goes to the queue.
LEMMA QueuedStep ==
  ASSUME ShopInv, NEW r \in Row, phone.lane[r] # <<>>, Steady, shop' = shop,
         phone' = Settled(Queued(phone, Head(phone.lane[r])), r)
  PROVE  ShopInv'
<1> DEFINE o == phone.lane[r]
           t == [o[1] EXCEPT !.stage = "queued", !.snap = None]
<1>1. /\ ListInv(phone, shop, adding, aim, wish, crossedRows, rowTaps) /\ rowTaps \in Nat
      /\ DOMAIN phone = PhoneFields /\ DOMAIN phone.lane = Row /\ IsList(o) /\ IsList(phone.queue) /\ Head(o) = o[1]
      /\ IsWrite(o[1], r, rowTaps)
      /\ r \notin crossedRows => RowInv(r, phone.queue, o, shop, wish[r])
      /\ LaneIs(o, r, rowTaps)
  BY HeadIs
<1>2. IsWrite(t, r, rowTaps) /\ Alike(t, o[1]) /\ LaneIs(Tail(o), r, rowTaps) /\ FromLane(Tail(o), o)
  <2>1. IsWrite(t, r, rowTaps) /\ Alike(t, o[1])
    BY <1>1 DEF IsWrite, WriteFields, Alike
  <2>2. LaneIs(Tail(o), r, rowTaps) /\ FromLane(Tail(o), o)
    BY <1>1, RestLane
  <2> QED BY <2>1, <2>2
<1>3. o[1].row = r
  BY <1>1 DEF IsWrite
<1>4. Queued(phone, o[1]) = [phone EXCEPT !.queue = Append(@, t), !.marks = @ \cup {r}]
  BY <1>3 DEF Queued
<1>5. /\ DOMAIN phone' = PhoneFields /\ phone'.lane = [phone.lane EXCEPT ![r] = Tail(o)]
      /\ phone'.queue = Append(phone.queue, t) /\ phone'.marks = phone.marks \cup {r}
      /\ phone'.drawn = phone.drawn /\ phone'.list = phone.list /\ phone'.fetch = phone.fetch
  <2> DEFINE q == [phone EXCEPT !.queue = Append(@, t), !.marks = @ \cup {r}]
  <2>1. /\ DOMAIN q = PhoneFields /\ q.lane = phone.lane /\ q.queue = Append(phone.queue, t) /\ q.marks = phone.marks \cup {r}
        /\ q.drawn = phone.drawn /\ q.list = phone.list /\ q.fetch = phone.fetch
    BY <1>1 DEF PhoneFields
  <2>2. phone' = [q EXCEPT !.lane[r] = Tail(@)]
    BY <1>1, <1>4 DEF Settled
  <2> HIDE DEF q
  <2> QED BY <2>1, <2>2 DEF PhoneFields
<1> HIDE DEF t
<1>6. r \notin crossedRows => RowInv(r, phone'.queue, Tail(o), shop, wish[r])
  <2>1. r \notin crossedRows => RowInv(r, Append(phone.queue, t), Tail(o), shop, wish[r])
    BY <1>1, <1>2, RowToQueue
  <2> QED BY <1>5, <2>1
<1>7. ListInv(phone', shop, adding, aim, wish, crossedRows, rowTaps)
  <2>1. Passed(phone, r, Tail(o), t, phone')
    BY <1>5 DEF Passed
  <2> QED BY <1>1, <1>2, <1>6, <2>1, ListLane
<1> QED BY <1>7 DEF Steady, ShopInv

\* ... or is sent or carried out.
LEMMA HeadStep ==
  ASSUME ShopInv, NEW r \in Row, phone.lane[r] # <<>>, Steady, NEW stage, phone' = WithHead(r, stage),
         r \notin crossedRows => Of(phone.queue, r) = {},
         \/ shop' = shop /\ stage = "sent"
         \/ shop' = Carried(shop, Head(phone.lane[r]))
  PROVE  ShopInv'
<1> DEFINE o == phone.lane[r]
           t == [o[1] EXCEPT !.stage = stage]
           p == <<t>> \o Tail(o)
<1>1. /\ ListInv(phone, shop, adding, aim, wish, crossedRows, rowTaps) /\ rowTaps \in Nat /\ IsShop(shop, rowTaps)
      /\ DOMAIN phone = PhoneFields /\ DOMAIN phone.lane = Row /\ IsList(o) /\ Head(o) = o[1]
      /\ IsWrite(o[1], r, rowTaps)
      /\ r \notin crossedRows => RowInv(r, phone.queue, o, shop, wish[r])
      /\ LaneIs(o, r, rowTaps)
  BY HeadIs
<1>2. IsWrite(t, r, rowTaps) /\ Alike(t, o[1]) /\ t.stage = stage /\ LaneIs(p, r, rowTaps) /\ FromLane(p, o)
  <2>1. IsWrite(t, r, rowTaps) /\ Alike(t, o[1]) /\ t.stage = stage /\ t.snap = o[1].snap
    BY <1>1 DEF IsWrite, WriteFields, Alike
  <2> HIDE DEF t
  <2> QED BY <1>1, <2>1, HeadLane
<1>3. /\ DOMAIN phone' = PhoneFields /\ phone'.lane = [phone.lane EXCEPT ![r] = p]
      /\ phone'.queue = phone.queue /\ phone'.marks = phone.marks
      /\ phone'.drawn = phone.drawn /\ phone'.list = phone.list /\ phone'.fetch = phone.fetch
  BY <1>1 DEF WithHead, PhoneFields
<1>4. r \notin crossedRows => RowInv(r, phone.queue, p, shop', wish[r])
  <2> SUFFICES ASSUME r \notin crossedRows PROVE RowInv(r, phone.queue, p, shop', wish[r])
    OBVIOUS
  <2>1. (shop' = shop /\ t.stage = "sent") \/ shop' = Carried(shop, o[1])
    BY <1>1, <1>2
  <2> HIDE DEF t
  <2> QED BY <1>1, <1>2, <2>1, RowHead
<1> HIDE DEF t, p
<1>5. shop' = shop \/ shop' = Carried(shop, o[1])
  BY <1>1
<1>6. ListInv(phone', shop', adding, aim, wish, crossedRows, rowTaps)
  <2>1. Passed(phone, r, p, t, phone')
    BY <1>3 DEF Passed
  <2> QED BY <1>1, <1>2, <1>3, <1>4, <1>5, <2>1, ListLane
<1> QED BY <1>6 DEF Steady, ShopInv

LEMMA AnswerStepOfRow ==
  ASSUME ShopInv, NEW r \in Row, Answer(r)
  PROVE  ShopInv'
<1> DEFINE o == phone.lane[r]
<1>1. o # <<>>
  BY DEF Answer
<1>2. /\ ListInv(phone, shop, adding, aim, wish, crossedRows, rowTaps) /\ rowTaps \in Nat
      /\ DOMAIN phone = PhoneFields /\ DOMAIN phone.lane = Row /\ IsList(o) /\ Head(o) = o[1]
      /\ IsWrite(o[1], r, rowTaps)
      /\ r \notin crossedRows => RowInv(r, phone.queue, o, shop, wish[r])
      /\ LaneIs(o, r, rowTaps)
  BY <1>1, HeadIs
<1>3. LaneIs(Tail(o), r, rowTaps) /\ FromLane(Tail(o), o)
  BY <1>1, <1>2, RestLane
<1>4. o[1].stage \in {"ok", "missing"} /\ Steady /\ shop' = shop
  BY <1>2 DEF Answer, Moved, Steady
<1>5. /\ DOMAIN phone' = PhoneFields /\ phone'.lane = [phone.lane EXCEPT ![r] = Tail(o)]
      /\ phone'.queue = phone.queue /\ phone'.marks = phone.marks
      /\ phone'.drawn = phone.drawn /\ (phone'.list = phone.list \/ phone'.list = o[1].snap)
      /\ phone'.fetch = phone.fetch \/ phone'.fetch.at # "read"
  <2> DEFINE q == Settled(phone, r)
             q2 == [q EXCEPT !.list = o[1].snap]
  <2>1. /\ DOMAIN q = PhoneFields /\ q.lane = [phone.lane EXCEPT ![r] = Tail(o)] /\ q.queue = phone.queue /\ q.marks = phone.marks
        /\ q.drawn = phone.drawn /\ q.list = phone.list /\ q.fetch = phone.fetch
    BY <1>2 DEF Settled, PhoneFields
  <2>2. phone' = Refetched(q2) \/ phone' = Refetched(q) \/ phone' = q
    BY <1>2 DEF Answer, Moved
  <2> HIDE DEF q
  <2>3. /\ DOMAIN q2 = PhoneFields /\ q2.lane = [phone.lane EXCEPT ![r] = Tail(o)] /\ q2.queue = phone.queue /\ q2.marks = phone.marks
        /\ q2.drawn = phone.drawn /\ q2.list = o[1].snap /\ q2.fetch = phone.fetch
    BY <2>1 DEF PhoneFields
  <2> HIDE DEF q2, o
  <2>4. CASE phone' = Refetched(q2)
    BY <2>3, <2>4 DEF Refetched, PhoneFields
  <2>5. CASE phone' = Refetched(q)
    BY <2>1, <2>5 DEF Refetched, PhoneFields
  <2>6. CASE phone' = q
    BY <2>1, <2>6
  <2> QED BY <2>2, <2>4, <2>5, <2>6
<1>6. r \notin crossedRows => RowInv(r, phone'.queue, Tail(o), shop, wish[r])
  BY <1>1, <1>2, <1>4, <1>5, RowSettled
<1>7. ListInv(phone', shop, adding, aim, wish, crossedRows, rowTaps)
  <2>1. Passed(phone, r, Tail(o), o[1], phone')
    BY <1>5 DEF Passed
  <2> QED BY <1>1, <1>2, <1>3, <1>6, <2>1, ListLane
<1> QED BY <1>4, <1>7 DEF Steady, ShopInv

LEMMA LaneStep ==
  ASSUME ~LateArrivals, ShopInv, NEW r \in Row, Send(r) \/ Serve(r) \/ Answer(r) \/ LoseWrite(r)
  PROVE  ShopInv'
<1>1. CASE Send(r)
  <2>1. phone.lane[r] # <<>> /\ Steady /\ shop' = shop
    BY <1>1 DEF Send, AtHead, Moved, Steady
  <2>2. CASE ~phone.online \/ r \in phone.marks
    BY <1>1, <2>1, <2>2, QueuedStep DEF Send, Moved
  <2>3. CASE ~(~phone.online \/ r \in phone.marks)
    <3>1. phone' = WithHead(r, "sent") /\ Of(phone.queue, r) = {}
      BY <1>1, <2>1, <2>3, HeadIs DEF Send, Moved
    <3> QED BY <2>1, <3>1, HeadStep
  <2> QED BY <2>2, <2>3
<1>2. CASE Serve(r)
  <2>1. phone.lane[r] # <<>> /\ Head(phone.lane[r]).stage = "sent" /\ Steady /\ shop' = Carried(shop, Head(phone.lane[r]))
    BY <1>2 DEF Serve, AtHead, Steady
  <2>2. PICK stage : phone' = WithHead(r, stage)
    BY <1>2 DEF Serve
  <2>3. r \notin crossedRows => Of(phone.queue, r) = {}
    BY <2>1, HeadIs DEF RowInv, InTurn
  <2> QED BY <2>1, <2>2, <2>3, HeadStep
<1>3. CASE LoseWrite(r)
  <2>1. /\ phone.lane[r] # <<>> /\ Steady /\ shop' = shop
        /\ phone' = Settled(Queued(phone, Head(phone.lane[r])), r)
    BY <1>3 DEF LoseWrite, Steady
  <2> QED BY <2>1, QueuedStep
<1> QED BY <1>1, <1>2, <1>3, AnswerStepOfRow

LEMMA ReplayStep == ASSUME ShopInv, Replay \/ ReplayUnanswered PROVE ShopInv'
<1>1. ListInv(phone, shop, adding, aim, wish, crossedRows, rowTaps) /\ DOMAIN phone = PhoneFields
  BY DEF ShopInv, ListInv
<1>2. Steady /\ shop' = Carried(shop, Head(phone.queue)) /\ phone.queue # <<>>
  BY DEF Replay, ReplayUnanswered, Steady
<1>3. /\ DOMAIN phone' = PhoneFields /\ phone'.lane = phone.lane /\ phone'.marks = phone.marks
      /\ phone'.queue = phone.queue \/ phone'.queue = Tail(phone.queue)
      /\ phone'.drawn = phone.drawn /\ phone'.list = phone.list
      /\ phone'.fetch = phone.fetch \/ phone'.fetch.at # "read"
  <2>1. CASE Replay
    BY <1>1, <2>1 DEF Replay, Refetched, PhoneFields
  <2>2. CASE ReplayUnanswered
    BY <1>1, <2>2 DEF ReplayUnanswered
  <2> QED BY <2>1, <2>2
<1>4. ListInv(phone', shop', adding, aim, wish, crossedRows, rowTaps)
  BY <1>1, <1>2, <1>3, ListReplay
<1> QED BY <1>2, <1>4 DEF Steady, ShopInv

\* A step of the screen.
LEMMA LookStep ==
  ASSUME ShopInv, Looked(phone, shop, phone'), Aims(phone, adding', aim'), shop' = shop, wish' = wish,
         crossedRows' = crossedRows, late' = late, rowTaps' = rowTaps \/ rowTaps' = rowTaps + 1
  PROVE  ShopInv'
<1>1. ListInv(phone, shop, adding, aim, wish, crossedRows, rowTaps) /\ rowTaps \in Nat
  BY DEF ShopInv, ListInv
<1>2. rowTaps' \in Nat /\ rowTaps' >= rowTaps
  BY <1>1
<1>3. ListInv(phone', shop, adding', aim', wish, crossedRows, rowTaps')
  BY <1>1, <1>2, ListQuiet
<1> QED BY <1>3 DEF ShopInv

LEMMA ScreenStep ==
  ASSUME ShopInv, Draw \/ ClearMarks \/ Refetch \/ ReadList \/ LandList \/ GoOffline \/ GoOnline
                  \/ OfferTicked \/ Offered \/ NotNow \/ UNCHANGED shopVars
  PROVE  ShopInv'
<1>1. DOMAIN phone = PhoneFields /\ Aims(phone, adding, aim) /\ rowTaps \in Nat
  BY DEF ShopInv, ListInv, Aims
<1>2. /\ shop' = shop /\ wish' = wish /\ adding' = adding /\ aim' = aim /\ crossedRows' = crossedRows /\ late' = late
      /\ rowTaps' = rowTaps \/ rowTaps' = rowTaps + 1
  BY DEF Draw, ClearMarks, Refetch, ReadList, LandList, GoOffline, GoOnline, OfferTicked, Offered, NotNow, Moved, shopVars
<1>3. Looked(phone, shop, phone')
  <2>1. CASE Draw
    BY <1>1, <2>1 DEF Draw, Moved, Looked, PhoneFields
  <2>2. CASE ClearMarks
    BY <1>1, <2>2 DEF ClearMarks, Moved, Looked, PhoneFields
  <2>3. CASE Refetch
    BY <1>1, <2>3 DEF Refetch, Refetched, Moved, Looked, PhoneFields
  <2>4. CASE ReadList
    <3>1. phone' = [phone EXCEPT !.fetch = [at |-> "read", list |-> Listing(shop)]]
      BY <2>4 DEF ReadList, Moved
    <3>2. \A x : [at |-> "read", list |-> x].list = x
      OBVIOUS
    <3> QED BY <1>1, <3>1, <3>2 DEF Looked, PhoneFields
  <2>5. CASE LandList
    BY <1>1, <2>5 DEF LandList, Idle, Looked, PhoneFields
  <2>6. CASE GoOffline \/ GoOnline
    BY <1>1, <2>6 DEF GoOffline, GoOnline, Moved, Looked, PhoneFields
  <2>7. CASE OfferTicked \/ Offered \/ NotNow
    BY <1>1, <2>7 DEF OfferTicked, Offered, NotNow, Moved, Looked, PhoneFields
  <2>8. CASE UNCHANGED shopVars
    BY <1>1, <2>8 DEF shopVars, Looked
  <2> QED BY <2>1, <2>2, <2>3, <2>4, <2>5, <2>6, <2>7, <2>8
<1> QED BY <1>1, <1>2, <1>3, LookStep

LEMMA BuyStep == ASSUME ShopInv, NEW b \in Button, Buy(b) PROVE ShopInv'
<1>1. /\ ListInv(phone, shop, adding, aim, wish, crossedRows, rowTaps) /\ DOMAIN adding = Button
      /\ DOMAIN phone.lane = Row /\ IsList(phone.queue)
  BY DEF ShopInv, ListInv, LanesOK, QueueOK
<1>2. /\ phone' = phone /\ late' = late /\ aim' = aim /\ rowTaps' = rowTaps
      /\ shop' = [tick |-> [i \in Items |-> None], bought |-> shop.bought \cup Ticks(shop),
                  lines |-> [l \in Lines |-> IF shop.lines[l] = "checked" THEN "bought" ELSE shop.lines[l]]]
      /\ wish' = [r \in Row |-> IF r \in Items \/ shop.lines[r] = "checked" THEN None ELSE wish[r]]
      /\ crossedRows' = crossedRows \cup UnderWay
      /\ adding' = [adding EXCEPT ![b] = "bought"]
  BY DEF Buy, To
<1>3. DOMAIN adding' = Button /\ \A c \in Button : adding'[c] = adding[c] \/ adding'[c] = "bought"
  BY <1>1, <1>2
<1>4. \A i \in Items : i \in crossedRows' \/ (phone.lane[i] = <<>> /\ Of(phone.queue, i) = {})
  <2>1. DOMAIN phone.queue = 1 .. Len(phone.queue)
    BY <1>1, ListIs
  <2> QED BY <1>2, <2>1 DEF UnderWay, Of
<1>5. crossedRows \subseteq crossedRows'
  BY <1>2
<1>6. ListInv(phone, shop', adding', aim, wish', crossedRows', rowTaps)
  <2>1. Purchased(shop, wish, shop', wish')
    BY <1>2 DEF Purchased
  <2> QED BY <1>1, <1>3, <1>4, <1>5, <2>1, ListBought
<1> QED BY <1>2, <1>6 DEF ShopInv

LEMMA ButtonStep ==
  ASSUME ShopInv, NEW b \in Button, Press(b) \/ LanesSettled(b) \/ Post(b) \/ Bought(b) \/ Refreshed(b) \/ LoseBuy(b)
  PROVE  ShopInv'
<1>1. /\ DOMAIN phone = PhoneFields /\ DOMAIN adding = Button /\ DOMAIN aim = Button /\ rowTaps \in Nat
      /\ \A c \in Button : aim[c] \subseteq Row /\ AimOK(phone, adding[c], aim[c])
  BY DEF ShopInv, ListInv
<1>2. /\ shop' = shop /\ wish' = wish /\ crossedRows' = crossedRows /\ late' = late
      /\ rowTaps' = rowTaps \/ rowTaps' = rowTaps + 1
  BY DEF Press, LanesSettled, Post, Bought, Refreshed, LoseBuy, OnlyStage
<1>3. Looked(phone, shop, phone')
  <2>1. CASE phone' = phone
    BY <1>1, <2>1 DEF Looked
  <2>2. CASE Bought(b)
    BY <1>1, <2>2 DEF Bought, Refetched, Looked, PhoneFields
  <2>3. CASE Refreshed(b)
    BY <1>1, <2>3 DEF Refreshed, Looked, PhoneFields
  <2> QED BY <2>1, <2>2, <2>3 DEF Press, LanesSettled, Post, LoseBuy, OnlyStage
<1>4. PICK stage \in {"idle", "settling", "counting", "posted", "refreshing"} :
         /\ adding' = [adding EXCEPT ![b] = stage]
         /\ aim' = aim \/ (stage = "settling" /\ aim' = [aim EXCEPT ![b] = Row])
         /\ stage = "counting" => \A r \in Row : phone.lane[r] = <<>>
         /\ stage = "posted" => adding[b] = "counting" /\ phone.queue = <<>>
  <2>1. CASE Press(b)
    BY <2>1 DEF Press, To
  <2>2. CASE LanesSettled(b)
    BY <2>2 DEF LanesSettled, To, LanesEmpty, OnlyStage
  <2>3. CASE Post(b)
    BY <2>3 DEF Post, To, At, OnlyStage
  <2>4. CASE Bought(b) \/ Refreshed(b) \/ LoseBuy(b)
    BY <2>4 DEF Bought, Refreshed, LoseBuy, To
  <2> QED BY <2>1, <2>2, <2>3, <2>4
<1>5. Aims(phone, adding', aim')
  <2>1. DOMAIN adding' = Button /\ DOMAIN aim' = Button
    BY <1>1, <1>4
  <2>2. ASSUME NEW c \in Button PROVE aim'[c] \subseteq Row /\ AimOK(phone, adding'[c], aim'[c])
    <3>1. CASE c # b
      BY <1>1, <1>4, <3>1
    <3>2. CASE c = b
      <4>1. adding'[b] = stage /\ aim'[b] \subseteq Row /\ (stage # "settling" => aim'[b] = aim[b])
        BY <1>1, <1>4
      <4>2. stage = "posted" => \A r \in aim[b] : phone.lane[r] = <<>> /\ Of(phone.queue, r) = {}
        <5> SUFFICES ASSUME stage = "posted", NEW r \in aim[b] PROVE phone.lane[r] = <<>> /\ Of(phone.queue, r) = {}
          OBVIOUS
        <5>1. phone.lane[r] = <<>>
          BY <1>1, <1>4 DEF AimOK
        <5>2. Len(<<>>) = 0
          OBVIOUS
        <5> QED BY <1>4, <5>1, <5>2 DEF Of
      <4> QED BY <1>4, <3>2, <4>1, <4>2 DEF AimOK
    <3> QED BY <3>1, <3>2
  <2> QED BY <2>1, <2>2 DEF Aims
<1> QED BY <1>2, <1>3, <1>5, LookStep

LEMMA ShopInvNext == ASSUME ~LateArrivals PROVE ShopInv /\ [ShoppingNext]_shopVars => ShopInv'
<1> SUFFICES ASSUME ShopInv, [ShoppingNext]_shopVars PROVE ShopInv'
  OBVIOUS
<1>1. \A w : w \notin late
  BY DEF ShopInv
<1> QED BY <1>1, ToggleStep, LineStep, LaneStep, ReplayStep, ScreenStep, ButtonStep, BuyStep DEF ShoppingNext

LEMMA ShopInvInit == ShoppingInit => ShopInv
<1> SUFFICES ASSUME ShoppingInit PROVE ShopInv
  OBVIOUS
<1>1. /\ DOMAIN shop = {"tick", "bought", "lines"} /\ shop.tick \in [Items -> {None, 0}] /\ shop.bought = {}
      /\ shop.lines \in [Lines -> {None, "open"}]
  BY DEF ShoppingInit
<1>2. IsShop(shop, 0)
  BY <1>1 DEF IsShop
<1>3. /\ DOMAIN phone = PhoneFields /\ phone.list = Listing(shop) /\ phone.drawn = shop.lines /\ phone.fetch = Idle
      /\ phone.lane = [r \in Row |-> <<>>] /\ phone.queue = <<>> /\ phone.marks = {}
  BY DEF ShoppingInit, PhoneFields
<1>4. IsList(<<>>) /\ Len(<<>>) = 0
  <2>1. <<>> \in Seq({}) /\ Len(<<>>) = 0
    OBVIOUS
  <2> QED BY <2>1 DEF IsList
<1>5. \A k : k \notin 1 .. 0
  OBVIOUS
<1>6. LanesOK(phone.lane, 0) /\ QueueOK(phone.queue, phone.marks, 0)
  BY <1>3, <1>4, <1>5 DEF LanesOK, QueueOK
<1>7. /\ HasLines(phone.list) /\ Idle.at # "read"
      /\ \A l \in Lines : shop.lines[l] = None => phone.list.lines[l] = None
  BY <1>3 DEF HasLines, Listing, Idle
<1>8. \A r : Of(phone.queue, r) = {} /\ Lasts(phone.queue, r) = {} /\ AddsFirst(phone.queue, r)
  BY <1>3, <1>4, <1>5 DEF Of, Lasts, AddsFirst
<1>9. /\ DOMAIN wish = Row /\ \A l \in Lines : l \in Row /\ l \notin Items /\ wish[l] = IF shop.lines[l] = None THEN "new" ELSE shop.lines[l]
      /\ \A i \in Items : i \notin Lines /\ wish[i] = shop.tick[i]
  BY ShoppingListAssumption DEF ShoppingInit, Or, Row
<1>10. ASSUME NEW r \in Row PROVE RowInv(r, phone.queue, phone.lane[r], shop, wish[r])
  <2>1. phone.lane[r] = <<>> /\ phone.queue = <<>>
    BY <1>3
  <2>2. InTurn(r, <<>>, <<>>)
    BY <1>3, <1>4, <1>5, <1>8 DEF InTurn, HasAdd
  <2>3. LastWins(r, <<>>, <<>>, shop, wish[r])
    <3>1. Stands(r, shop, wish[r])
      BY <1>9, ShoppingListAssumption DEF Stands
    <3> QED BY <1>3, <1>8, <3>1 DEF LastWins
  <2>4. r \in Lines => LineStays(r, Of(<<>>, r) \cup Of(<<>>, r), shop, wish[r])
    <3>1. r \in Lines => wish[r] # None /\ (wish[r] \in {"open", "checked"} => shop.lines[r] \in {"open", "checked"})
      BY <1>1, <1>9, ShoppingListAssumption
    <3> QED BY <1>3, <1>8, <3>1 DEF LineStays, HasAdd
  <2> QED BY <2>1, <2>2, <2>3, <2>4 DEF RowInv
<1>11. ASSUME NEW l \in Lines, wish[l] = "new" PROVE Unknown(phone, shop, l)
  <2>1. shop.lines[l] = None
    BY <1>1, <1>9, <1>11
  <2> QED BY <1>3, <1>4, <1>5, <1>7, <1>8, <1>9, <2>1 DEF Unknown
<1>12. \A l \in Lines : wish[l] \in {None, "new", "open", "checked"}
  BY <1>1, <1>9
<1>13. ScreenOK(phone)
  BY <1>3, <1>7 DEF ScreenOK
<1>14. adding = [b \in Button |-> "idle"] /\ aim = [b \in Button |-> {}] /\ late = {} /\ crossedRows = {} /\ rowTaps = 0
  BY DEF ShoppingInit
<1>15. /\ DOMAIN adding = Button /\ DOMAIN aim = Button /\ \A b \in Button : aim[b] \subseteq Row /\ AimOK(phone, adding[b], aim[b])
  BY <1>14 DEF AimOK
<1> QED BY <1>2, <1>3, <1>6, <1>9, <1>10, <1>11, <1>12, <1>13, <1>14, <1>15 DEF ShopInv, ListInv

\* A row with nothing under way has what was last wished for it.
LEMMA RowAtRest ==
  ASSUME ShopInv, NEW r \in Row, r \notin crossedRows, phone.lane[r] = <<>>, Of(phone.queue, r) = {}
  PROVE  Wished(r, wish[r])
<1>1. /\ RowInv(r, phone.queue, phone.lane[r], shop, wish[r])
      /\ r \in Lines => wish[r] \in {None, "new", "open", "checked"} /\ (wish[r] = "new" => Unknown(phone, shop, r))
  BY DEF ShopInv, ListInv
<1>2. Stands(r, shop, wish[r])
  BY <1>1 DEF RowInv, LastWins
<1>3. None \notin {"open", "checked"}
  BY ShoppingListAssumption
<1>4. CASE r \in Items
  BY <1>2, <1>4 DEF Stands, Wished
<1>5. CASE r \in Lines
  <2>1. r \notin Items
    BY <1>5, ShoppingListAssumption
  <2>2. Of(phone.lane[r], r) = {}
    <3>1. Len(<<>>) = 0
      OBVIOUS
    <3> QED BY <3>1 DEF Of
  <2>3. wish[r] = None => shop.lines[r] \notin {"open", "checked"}
    BY <1>1, <1>5, <2>2 DEF RowInv, LineStays
  <2>4. wish[r] = "new" => shop.lines[r] = None
    BY <1>1, <1>5 DEF Unknown
  <2> QED BY <1>1, <1>2, <1>3, <1>5, <2>1, <2>3, <2>4 DEF Stands, Wished
<1> QED BY <1>4, <1>5 DEF Row

\* Once everything has reached the server, the last tap of each row is what it has: through lanes, lost answers, the queue
\* and its repeats, for any number of taps, rows and purchases, if a request that was given up does not arrive later.
THEOREM LastTapsStand == ASSUME ~LateArrivals PROVE ShoppingSpec => []LastTapStands
<1>1. ShopInv => LastTapStands
  <2> SUFFICES ASSUME ShopInv, AtRest, NEW r \in Row, r \notin crossedRows PROVE Wished(r, wish[r])
    BY DEF LastTapStands
  <2>1. phone.lane[r] = <<>> /\ phone.queue = <<>>
    BY DEF AtRest, LanesEmpty
  <2>2. Of(phone.queue, r) = {}
    <3>1. Len(<<>>) = 0
      OBVIOUS
    <3> QED BY <2>1, <3>1 DEF Of
  <2> QED BY <2>1, <2>2, RowAtRest
<1> QED BY <1>1, ShopInvInit, ShopInvNext, PTL DEF ShoppingSpec

\* "Add to pantry" buys what was ticked when it was pressed: no tick on its way is missed, none taken back is bought.
THEOREM TicksAreBought == ASSUME ~LateArrivals PROVE ShoppingSpec => BuysWhatWasTicked
<1>1. ShopInv => \A b \in Button : At(b, "posted") /\ adding'[b] = "bought" => \A r \in aim[b] \ crossedRows : Wished(r, wish[r])
  <2> SUFFICES ASSUME ShopInv, NEW b \in Button, At(b, "posted"), NEW r \in aim[b], r \notin crossedRows PROVE Wished(r, wish[r])
    OBVIOUS
  <2>1. aim[b] \subseteq Row /\ AimOK(phone, adding[b], aim[b])
    BY DEF ShopInv, ListInv
  <2> QED BY <2>1, RowAtRest DEF AimOK, At
<1> QED BY <1>1, ShopInvInit, ShopInvNext, PTL DEF ShoppingSpec, BuysWhatWasTicked
=============================================================================
