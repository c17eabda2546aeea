------------------------- MODULE OfflineQueueProofs -------------------------
(***************************************************************************)
(* Theorems about OfflineQueue, for any number of tabs, accounts, writes,  *)
(* wipes and events.                                                       *)
(***************************************************************************)
EXTENDS OfflineQueue, DataLemmas

QueueTypes ==
    /\ session \in Who /\ made \in [Write -> 0..2] /\ queue \in Seq(Row)
    /\ epoch \in Key /\ me \in Who /\ lock \in Tab \cup {NoTab}
    /\ tab \in [Tab -> Page] /\ drain \in [Tab -> Drain] /\ write \in [Write -> Perform]

Took(w) == made[w] > 0 \/ (Kind[w] = "done" /\ w \in moved)

WriteOK(w) ==
    /\ write[w].state \in Unsettled => write[w].tab \in Tab
    /\ write[w].state = "sealing" => write[w].owner \in Account /\ write[w].key \in Key
    /\ write[w].state = "sent" => Took(w)

\* A row, stored or read by a drain, is of a write that was queued for its owner.
Held(r) ==
    \/ write[r.w].state = "sent"
    \/ write[r.w].state = "queued" /\ write[r.w].owner = r.owner

RowsApart == \A i, j \in DOMAIN queue : queue[i].w = queue[j].w => i = j

\* What waits before a row that a drain has yet to send, the drain has, and
\* sends first.
Ordered(rows) ==
    \A k \in DOMAIN rows : \A i, j \in DOMAIN queue :
        i < j /\ queue[i].status = "pending" /\ queue[j].w = rows[k].w =>
            \E m \in 1..(k - 1) : rows[m].w = queue[i].w

Busy == {"me", "row", "sent", "reply"}
DrainOK(t) ==
    /\ drain[t].pc \in Busy => lock = t /\ Ordered(drain[t].rows)
    /\ drain[t].pc \in {"me", "sent", "reply"} => drain[t].rows # <<>>
    /\ drain[t].pc = "reply" /\ drain[t].reply \in {"ok", "409"} => Took(Head(drain[t].rows).w)
    /\ \A k \in DOMAIN drain[t].rows : Held(drain[t].rows[k])

QueueInv ==
    /\ QueueTypes /\ RowsApart
    /\ \A w \in Write : WriteOK(w)
    /\ \A i \in DOMAIN queue : Held(queue[i])
    /\ \A t \in Tab : DrainOK(t)

-----------------------------------------------------------------------------
(* Rows and their order.                                                     *)

\* What a step leaves of the queue: some of its rows, in its order, none of
\* them pending that was not.
Thinned(rows) ==
    \E f \in [DOMAIN rows -> DOMAIN queue] :
        /\ \A i, j \in DOMAIN rows : i < j => f[i] < f[j]
        /\ \A i \in DOMAIN rows :
              /\ rows[i].w = queue[f[i]].w /\ rows[i].owner = queue[f[i]].owner
              /\ rows[i].status = "pending" => queue[f[i]].status = "pending"

LEMMA RowsAre ==
  ASSUME QueueTypes
  PROVE  /\ Len(queue) \in Nat /\ DOMAIN queue = 1..Len(queue)
         /\ \A i \in DOMAIN queue : queue[i] \in Row
BY DEF QueueTypes

\* Rows of which only the status or the backoff changes.
LEMMA SameRowsThin ==
  ASSUME QueueTypes, NEW rows, DOMAIN rows = DOMAIN queue, rows \in [DOMAIN queue -> Row],
         \A i \in DOMAIN queue : /\ rows[i].w = queue[i].w /\ rows[i].owner = queue[i].owner
                                 /\ rows[i].status = "pending" => queue[i].status = "pending"
  PROVE  rows \in Seq(Row) /\ Thinned(rows)
<1>1. rows \in Seq(Row)
  BY RowsAre, FunctionIsSeq
<1>2. [i \in DOMAIN rows |-> i] \in [DOMAIN rows -> DOMAIN queue]
  OBVIOUS
<1>3. Thinned(rows)
  BY <1>2 DEF Thinned
<1> QED BY <1>1, <1>3

LEMMA BackoffThins ==
  ASSUME QueueTypes, NEW w
  PROVE  Backoff(w) \in Seq(Row) /\ Thinned(Backoff(w))
<1> DEFINE rows == Backoff(w)
<1>1. \A i \in DOMAIN queue : queue[i] \in Row
  BY RowsAre
<1>2. \A i \in DOMAIN queue :
         /\ [queue[i] EXCEPT !.late = TRUE] \in Row
         /\ [queue[i] EXCEPT !.late = TRUE].w = queue[i].w
         /\ [queue[i] EXCEPT !.late = TRUE].owner = queue[i].owner
         /\ [queue[i] EXCEPT !.late = TRUE].status = queue[i].status
  BY <1>1 DEF Row
<1>3. /\ DOMAIN rows = DOMAIN queue /\ rows \in [DOMAIN queue -> Row]
      /\ \A i \in DOMAIN queue : /\ rows[i].w = queue[i].w /\ rows[i].owner = queue[i].owner
                                 /\ rows[i].status = "pending" => queue[i].status = "pending"
  BY <1>1, <1>2 DEF Backoff
<1> HIDE DEF rows
<1>4. rows \in Seq(Row) /\ Thinned(rows)
  BY <1>3, SameRowsThin
<1> QED BY <1>4 DEF rows

LEMMA ElapseThins ==
  ASSUME QueueTypes, NEW w, NEW rows,
         rows = [i \in DOMAIN queue |->
                    IF queue[i].w = w THEN [queue[i] EXCEPT !.late = FALSE] ELSE queue[i]]
  PROVE  rows \in Seq(Row) /\ Thinned(rows)
<1>1. \A i \in DOMAIN queue : queue[i] \in Row
  BY RowsAre
<1>2. \A i \in DOMAIN queue :
         /\ [queue[i] EXCEPT !.late = FALSE] \in Row
         /\ [queue[i] EXCEPT !.late = FALSE].w = queue[i].w
         /\ [queue[i] EXCEPT !.late = FALSE].owner = queue[i].owner
         /\ [queue[i] EXCEPT !.late = FALSE].status = queue[i].status
  BY <1>1 DEF Row
<1>3. /\ DOMAIN rows = DOMAIN queue /\ rows \in [DOMAIN queue -> Row]
      /\ \A i \in DOMAIN queue : /\ rows[i].w = queue[i].w /\ rows[i].owner = queue[i].owner
                                 /\ rows[i].status = "pending" => queue[i].status = "pending"
  BY <1>1, <1>2
<1> QED BY <1>3, SameRowsThin

\* No row of w waits any more.
LEMMA FailThins ==
  ASSUME QueueTypes, NEW w
  PROVE  /\ Fail(w) \in Seq(Row) /\ Thinned(Fail(w))
         /\ \A i \in DOMAIN Fail(w) : Fail(w)[i].status = "pending" => Fail(w)[i].w # w
<1> DEFINE rows == Fail(w)
<1>1. \A i \in DOMAIN queue : queue[i] \in Row
  BY RowsAre
<1>2. \A i \in DOMAIN queue :
         /\ [queue[i] EXCEPT !.status = "failed"] \in Row
         /\ [queue[i] EXCEPT !.status = "failed"].w = queue[i].w
         /\ [queue[i] EXCEPT !.status = "failed"].owner = queue[i].owner
         /\ [queue[i] EXCEPT !.status = "failed"].status = "failed"
  BY <1>1 DEF Row
<1>3. /\ DOMAIN rows = DOMAIN queue /\ rows \in [DOMAIN queue -> Row]
      /\ \A i \in DOMAIN queue : /\ rows[i].w = queue[i].w /\ rows[i].owner = queue[i].owner
                                 /\ rows[i].status = "pending" => queue[i].status = "pending"
      /\ \A i \in DOMAIN rows : rows[i].status = "pending" => rows[i].w # w
  BY <1>1, <1>2 DEF Fail
<1> HIDE DEF rows
<1>4. rows \in Seq(Row) /\ Thinned(rows)
  BY <1>3, SameRowsThin
<1> QED BY <1>3, <1>4 DEF rows

LEMMA RemoveThins ==
  ASSUME QueueTypes, NEW w
  PROVE  /\ Remove(w) \in Seq(Row) /\ Thinned(Remove(w))
         /\ \A i \in DOMAIN Remove(w) : Remove(w)[i].w # w
<1> DEFINE I == {i \in DOMAIN queue : queue[i].w # w}
           rows == Remove(w)
<1>1. queue \in Seq(Row) /\ DOMAIN queue = 1..Len(queue)
  BY RowsAre DEF QueueTypes
<1>2. rows = Subsequence(queue, I)
  BY DEF Remove
<1> HIDE DEF rows
<1>3. rows \in Seq(Row) /\ ChosenFrom(rows, queue, I, Len(queue))
  BY <1>1, <1>2, SubsequenceFacts
<1>4. PICK f \in [1..Len(rows) -> I \cap (1..Len(queue))] :
         /\ \A i, j \in 1..Len(rows) : i < j => f[i] < f[j]
         /\ \A i \in 1..Len(rows) : rows[i] = queue[f[i]]
  BY <1>3 DEF ChosenFrom
<1>5. DOMAIN rows = 1..Len(rows) /\ f \in [DOMAIN rows -> DOMAIN queue]
  BY <1>1, <1>3, <1>4
<1>6. Thinned(rows)
  BY <1>4, <1>5 DEF Thinned
<1>7. \A i \in DOMAIN rows : rows[i].w # w
  BY <1>4, <1>5
<1> QED BY <1>3, <1>6, <1>7 DEF rows

\* The rows a drain reads are the waiting ones, in their order.
LEMMA PendingOrdered ==
  ASSUME QueueTypes, RowsApart
  PROVE  /\ PendingRows \in Seq(Row) /\ Ordered(PendingRows)
         /\ \A k \in DOMAIN PendingRows : \E i \in DOMAIN queue : PendingRows[k] = queue[i]
<1> DEFINE I == {i \in DOMAIN queue : queue[i].status = "pending"}
           rows == PendingRows
<1>1. queue \in Seq(Row) /\ DOMAIN queue = 1..Len(queue) /\ Len(queue) \in Nat
  BY RowsAre DEF QueueTypes
<1>2. rows = Subsequence(queue, I)
  BY DEF PendingRows, Pending
<1> HIDE DEF rows
<1>3. rows \in Seq(Row) /\ ChosenFrom(rows, queue, I, Len(queue))
  BY <1>1, <1>2, SubsequenceFacts
<1>4. PICK f \in [1..Len(rows) -> I \cap (1..Len(queue))] :
         /\ \A i, j \in 1..Len(rows) : i < j => f[i] < f[j]
         /\ \A m \in I \cap (1..Len(queue)) : \E i \in 1..Len(rows) : f[i] = m
         /\ \A i \in 1..Len(rows) : rows[i] = queue[f[i]]
  BY <1>3 DEF ChosenFrom
<1>5. DOMAIN rows = 1..Len(rows) /\ Len(rows) \in Nat
  BY <1>3
<1>6. ASSUME NEW k \in DOMAIN rows, NEW i \in DOMAIN queue, NEW j \in DOMAIN queue,
             i < j, queue[i].status = "pending", queue[j].w = rows[k].w
      PROVE  \E m \in 1..(k - 1) : rows[m].w = queue[i].w
  <2>1. f[k] \in DOMAIN queue /\ rows[k] = queue[f[k]]
    BY <1>1, <1>4, <1>5
  <2>2. j = f[k]
    BY <1>6, <2>1 DEF RowsApart
  <2>3. PICK m \in 1..Len(rows) : f[m] = i
    BY <1>1, <1>4, <1>6
  <2>4. m \in Nat /\ k \in Nat /\ f[m] < f[k] /\ f[m] \in Nat /\ f[k] \in Nat
    BY <2>1, <2>2, <2>3, <1>1, <1>5, <1>6
  <2>5. ~(k < m) /\ k # m
    <3>1. k < m => f[k] < f[m]
      BY <1>4, <1>5
    <3> QED BY <2>4, <3>1
  <2>6. m \in 1..(k - 1)
    BY <2>4, <2>5
  <2> QED BY <2>3, <2>6, <1>4
<1>7. Ordered(rows)
  BY <1>6 DEF Ordered
<1>8. \A k \in DOMAIN rows : \E i \in DOMAIN queue : rows[k] = queue[i]
  BY <1>1, <1>4, <1>5
<1> QED BY <1>3, <1>7, <1>8 DEF rows
-----------------------------------------------------------------------------
(* What a step leaves as it was.                                             *)

LEMMA OrderedThin ==
  ASSUME NEW rows, Ordered(rows), Thinned(queue')
  PROVE  Ordered(rows)'
<1>1. PICK f \in [DOMAIN queue' -> DOMAIN queue] :
         /\ \A i, j \in DOMAIN queue' : i < j => f[i] < f[j]
         /\ \A i \in DOMAIN queue' :
               /\ queue'[i].w = queue[f[i]].w /\ queue'[i].owner = queue[f[i]].owner
               /\ queue'[i].status = "pending" => queue[f[i]].status = "pending"
  BY DEF Thinned
<1>2. ASSUME NEW k \in DOMAIN rows, NEW i \in DOMAIN queue', NEW j \in DOMAIN queue',
             i < j, queue'[i].status = "pending", queue'[j].w = rows[k].w
      PROVE  \E m \in 1..(k - 1) : rows[m].w = queue'[i].w
  <2>1. /\ f[i] \in DOMAIN queue /\ f[j] \in DOMAIN queue /\ f[i] < f[j]
        /\ queue[f[i]].status = "pending" /\ queue[f[j]].w = rows[k].w
    BY <1>1, <1>2
  <2>2. \E m \in 1..(k - 1) : rows[m].w = queue[f[i]].w
    BY <2>1 DEF Ordered
  <2> QED BY <2>2, <1>1
<1> QED BY <1>2 DEF Ordered

\* A drain is done with the first of its rows, which does not wait any more.
LEMMA OrderedTail ==
  ASSUME NEW rows \in Seq(Row), rows # <<>>, Ordered(rows)',
         \A i \in DOMAIN queue' : queue'[i].status = "pending" => queue'[i].w # Head(rows).w
  PROVE  Ordered(Tail(rows))'
<1> DEFINE rest == Tail(rows)
<1>1. /\ Len(rows) \in Nat /\ Len(rows) > 0 /\ Len(rest) = Len(rows) - 1
      /\ DOMAIN rest = 1..Len(rest) /\ DOMAIN rows = 1..Len(rows) /\ Head(rows) = rows[1]
      /\ \A k \in 1..Len(rest) : rest[k] = rows[k + 1]
  OBVIOUS
<1> HIDE DEF rest
<1>2. ASSUME NEW k \in DOMAIN rest, NEW i \in DOMAIN queue', NEW j \in DOMAIN queue',
             i < j, queue'[i].status = "pending", queue'[j].w = rest[k].w
      PROVE  \E m \in 1..(k - 1) : rest[m].w = queue'[i].w
  <2>1. k \in Nat /\ k + 1 \in DOMAIN rows /\ rest[k] = rows[k + 1]
    BY <1>1
  <2>2. PICK m \in 1..k : rows[m].w = queue'[i].w
    <3>1. \E m \in 1..((k + 1) - 1) : rows[m].w = queue'[i].w
      BY <2>1, <1>2 DEF Ordered
    <3> QED BY <2>1, <3>1
  <2>3. m # 1
    BY <2>2, <1>1, <1>2
  <2>4. m - 1 \in 1..(k - 1) /\ rest[m - 1] = rows[m]
    BY <2>1, <2>2, <2>3, <1>1
  <2> QED BY <2>2, <2>4
<1>3. Ordered(rest)'
  BY <1>2 DEF Ordered
<1> QED BY <1>3 DEF rest

\* A queued write stays queued until it is sent.
WritesGoOn ==
    \A w \in Write : write[w].state \in {"queued", "sent"} =>
                        write'[w] = write[w] \/ write'[w].state = "sent"

LEMMA HeldStays ==
  ASSUME WritesGoOn, NEW r \in Row, Held(r)
  PROVE  Held(r)'
<1>1. r.w \in Write
  BY DEF Row
<1> QED BY <1>1 DEF Held, WritesGoOn

\* A drain goes on with its rows or with the rest of them, or ends.
Continues(d, e) ==
    \/ e.rows = d.rows
    \/ /\ d.rows # <<>> /\ e.rows = Tail(d.rows)
       /\ \A i \in DOMAIN queue' : queue'[i].status = "pending" => queue'[i].w # Head(d.rows).w
DrainGoesOn(t) ==
    /\ drain'[t].pc \in Busy => drain[t].pc \in Busy /\ lock' = t
    /\ drain'[t].pc \in {"me", "sent", "reply"} => drain'[t].rows # <<>>
    /\ drain'[t].pc = "reply" /\ drain'[t].reply \in {"ok", "409"} => Took(Head(drain[t].rows).w)'
    /\ drain'[t].rows = <<>> \/ Continues(drain[t], drain'[t])

LEMMA DrainKeeps ==
  ASSUME QueueInv, WritesGoOn, NEW t \in Tab, DrainGoesOn(t),
         \A rows : Ordered(rows) => Ordered(rows)'
  PROVE  DrainOK(t)'
<1>1. PICK d : d = drain[t]
  OBVIOUS
<1>2. PICK e : e = drain'[t]
  OBVIOUS
<1>3. d \in Drain /\ d.rows \in Seq(Row) /\ DrainOK(t)
  BY <1>1 DEF QueueInv, QueueTypes, Drain
<1>4. PICK rows : rows = d.rows
  OBVIOUS
<1>5. \A k \in DOMAIN rows : rows[k] \in Row /\ Held(rows[k])'
  <2>1. \A k \in DOMAIN rows : rows[k] \in Row /\ Held(rows[k])
    BY <1>1, <1>3, <1>4 DEF DrainOK
  <2> QED BY <2>1, HeldStays
<1>6. d.pc \in Busy => Ordered(rows)'
  BY <1>1, <1>3, <1>4 DEF DrainOK
<1>7. PICK rest : rest = e.rows
  OBVIOUS
<1>8. /\ \A k \in DOMAIN rest : Held(rest[k])'
      /\ d.pc \in Busy => Ordered(rest)'
  <2>1. CASE rest = <<>>
    BY <2>1 DEF Ordered
  <2>2. CASE rest = rows
    BY <2>2, <1>5, <1>6
  <2>3. CASE /\ rows # <<>> /\ rest = Tail(rows)
             /\ \A i \in DOMAIN queue' : queue'[i].status = "pending" => queue'[i].w # Head(rows).w
    <3>1. \A k \in DOMAIN rest : k + 1 \in DOMAIN rows /\ rest[k] = rows[k + 1]
      BY <2>3, <1>3, <1>4
    <3>2. d.pc \in Busy => Ordered(rest)'
      <4>1. rows \in Seq(Row)
        BY <1>3, <1>4
      <4> QED BY <4>1, <2>3, <1>6, OrderedTail
    <3> QED BY <3>1, <3>2, <1>5
  <2> QED BY <2>1, <2>2, <2>3, <1>1, <1>2, <1>4, <1>7 DEF DrainGoesOn, Continues
<1>9. e.pc \in Busy => lock' = t /\ Ordered(rest)'
  BY <1>1, <1>2, <1>8 DEF DrainGoesOn
<1>10. e.pc \in Busy => lock' = t /\ Ordered(e.rows)'
  BY <1>7, <1>9
<1> QED BY <1>2, <1>7, <1>8, <1>10 DEF DrainOK, DrainGoesOn

\* No row comes to the queue.
LEMMA QueueKeeps ==
  ASSUME QueueInv, QueueTypes', \A w \in Write : WriteOK(w)', WritesGoOn, Thinned(queue'),
         \A t \in Tab : DrainGoesOn(t)
  PROVE  QueueInv'
<1>1. PICK f \in [DOMAIN queue' -> DOMAIN queue] :
         /\ \A i, j \in DOMAIN queue' : i < j => f[i] < f[j]
         /\ \A i \in DOMAIN queue' :
               /\ queue'[i].w = queue[f[i]].w /\ queue'[i].owner = queue[f[i]].owner
               /\ queue'[i].status = "pending" => queue[f[i]].status = "pending"
  BY DEF Thinned
<1>2. DOMAIN queue' = 1..Len(queue') /\ DOMAIN queue = 1..Len(queue) /\ Len(queue) \in Nat /\ Len(queue') \in Nat
  BY DEF QueueInv, QueueTypes
<1>3. RowsApart'
  <2> SUFFICES ASSUME NEW i \in DOMAIN queue', NEW j \in DOMAIN queue', queue'[i].w = queue'[j].w
               PROVE  i = j
    BY DEF RowsApart
  <2>1. f[i] = f[j]
    BY <1>1 DEF QueueInv, RowsApart
  <2>2. i \in Nat /\ j \in Nat /\ f[i] \in Nat /\ f[j] \in Nat
    BY <1>1, <1>2
  <2>3. ~(i < j) /\ ~(j < i)
    BY <2>1, <2>2, <1>1
  <2> QED BY <2>2, <2>3
<1>4. ASSUME NEW i \in DOMAIN queue' PROVE Held(queue[i])'
  <2>1. PICK r : r = queue[f[i]]
    OBVIOUS
  <2>2. r \in Row /\ Held(r)
    BY <2>1, <1>1 DEF QueueInv, QueueTypes
  <2>3. Held(r)'
    BY <2>2, HeldStays
  <2>4. queue'[i].w = r.w /\ queue'[i].owner = r.owner
    BY <2>1, <1>1
  <2> QED BY <2>3, <2>4 DEF Held
<1>5. \A t \in Tab : DrainOK(t)'
  BY OrderedThin, DrainKeeps
<1> QED BY <1>3, <1>4, <1>5 DEF QueueInv
-----------------------------------------------------------------------------
(* Pages, drains and writes as the steps change them.                        *)

LEMMA Names ==
  /\ NoAccount \in Who /\ Account \subseteq Who /\ NoAccount \notin Account
  /\ Key \subseteq Key \cup {NoKey} /\ NoKey \in Key \cup {NoKey} /\ NoTab \notin Tab
BY QueueAssumption DEF Who

LEMMA PageKinds ==
  ASSUME NEW p \in Page
  PROVE  /\ SignedOutPage(p) \in Page /\ SignedOutPage(p).mail = p.mail
         /\ [SignedOutPage(p) EXCEPT !.wiping = FALSE] \in Page
         /\ \A next \in Who : Forgotten(p, next) \in Page /\ Forgotten(p, next).mail = p.mail
         /\ \A k \in BOOLEAN : [p EXCEPT !.kick = k] \in Page /\ [p EXCEPT !.timer = k] \in Page
         /\ \A k \in Key \cup {NoKey} : [p EXCEPT !.key = k] \in Page
         /\ \A marks \in SUBSET {Target[w] : w \in Write}, k \in BOOLEAN :
               [p EXCEPT !.marks = marks] \in Page /\ [p EXCEPT !.marks = marks, !.kick = k] \in Page
         /\ \A mail \in SUBSET {"signedOut", "switched"} : [p EXCEPT !.mail = mail] \in Page
<1>1. SignedOutPage(p) \in Page /\ SignedOutPage(p).mail = p.mail
  BY Names DEF SignedOutPage, Page
<1>2. [SignedOutPage(p) EXCEPT !.wiping = FALSE] \in Page
  BY <1>1 DEF Page
<1>3. \A next \in Who : Forgotten(p, next) \in Page /\ Forgotten(p, next).mail = p.mail
  BY Names DEF Forgotten, Page
<1>4. \A k \in BOOLEAN : [p EXCEPT !.kick = k] \in Page /\ [p EXCEPT !.timer = k] \in Page
  BY DEF Page
<1>5. \A k \in Key \cup {NoKey} : [p EXCEPT !.key = k] \in Page
  BY DEF Page
<1>6. \A marks \in SUBSET {Target[w] : w \in Write}, k \in BOOLEAN :
         [p EXCEPT !.marks = marks] \in Page /\ [p EXCEPT !.marks = marks, !.kick = k] \in Page
  BY DEF Page
<1>7. \A mail \in SUBSET {"signedOut", "switched"} : [p EXCEPT !.mail = mail] \in Page
  BY DEF Page
<1> QED BY <1>1, <1>2, <1>3, <1>4, <1>5, <1>6, <1>7

LEMMA Fresh ==
  /\ FreshPage \in Page /\ NoDrain \in Drain /\ NoDrain.pc = "idle" /\ NoDrain.rows = <<>>
  /\ NoWrite \in Perform
<1>1. FreshPage \in Page
  BY Names DEF FreshPage, Page
<1>2. NoDrain \in Drain /\ NoDrain.pc = "idle" /\ NoDrain.rows = <<>>
  BY Names DEF NoDrain, Drain, Replies
<1>3. NoWrite \in Perform
  BY Names DEF NoWrite, Perform, Replies
<1> QED BY <1>1, <1>2, <1>3

LEMMA ReplayKeeps ==
  ASSUME NEW d \in Drain, NEW force \in BOOLEAN
  PROVE  LET e == Replay(d, force)
         IN  /\ e \in Drain /\ e.rows = d.rows /\ e.reply = d.reply
             /\ e.pc = d.pc \/ e.pc = "lock"
<1> DEFINE e == Replay(d, force)
<1>1. CASE d.pc = "idle"
  <2>1. e = [d EXCEPT !.pc = "lock", !.force = force]
    BY <1>1 DEF Replay
  <2> HIDE DEF e
  <2>2. e \in Drain /\ e.rows = d.rows /\ e.reply = d.reply /\ e.pc = "lock"
    BY <2>1 DEF Drain
  <2> QED BY <2>2 DEF e
<1>2. CASE d.pc # "idle"
  <2>1. e = [d EXCEPT !.rerun = d.rerun \/ force]
    BY <1>2 DEF Replay
  <2>2. d.rerun \/ force \in BOOLEAN
    BY DEF Drain
  <2> HIDE DEF e
  <2>3. e \in Drain /\ e.rows = d.rows /\ e.reply = d.reply /\ e.pc = d.pc
    BY <2>1, <2>2 DEF Drain
  <2> QED BY <2>3 DEF e
<1> QED BY <1>1, <1>2

\* A drain that only changes what else it knows, or that ends or waits.
Goes(t) ==
    \/ /\ drain'[t].pc = drain[t].pc \/ drain'[t].pc = "lock"
       /\ drain'[t].rows = drain[t].rows /\ drain'[t].reply = drain[t].reply
       /\ drain[t].pc \in Busy => lock' = t
    \/ drain'[t].pc \in {"idle", "lock"} /\ drain'[t].rows = <<>>

LEMMA GoesOn ==
  ASSUME QueueInv, NEW t \in Tab, Goes(t), \A w \in Write : Took(w) => Took(w)'
  PROVE  DrainGoesOn(t)
<1>1. drain[t] \in Drain /\ drain[t].rows \in Seq(Row) /\ DrainOK(t)
  BY DEF QueueInv, QueueTypes, Drain
<1>2. drain[t].rows # <<>> => Head(drain[t].rows).w \in Write
  <2>1. PICK rows \in Seq(Row) : rows = drain[t].rows
    BY <1>1
  <2>2. rows # <<>> => Head(rows) \in Row
    BY <2>1
  <2> QED BY <2>1, <2>2 DEF Row
<1>3. CASE /\ drain'[t].pc = drain[t].pc \/ drain'[t].pc = "lock"
           /\ drain'[t].rows = drain[t].rows /\ drain'[t].reply = drain[t].reply
           /\ drain[t].pc \in Busy => lock' = t
  <2>1. drain'[t].pc \in Busy => drain[t].pc \in Busy /\ lock' = t
    BY <1>3 DEF Busy
  <2>2. drain'[t].pc \in {"me", "sent", "reply"} => drain'[t].rows # <<>> /\ drain'[t].pc = drain[t].pc
    BY <1>1, <1>3 DEF DrainOK
  <2>3. ASSUME drain'[t].pc = "reply", drain'[t].reply \in {"ok", "409"}
        PROVE  Took(Head(drain[t].rows).w)'
    <3>1. PICK w \in Write : w = Head(drain[t].rows).w
      BY <1>2, <1>3, <2>2, <2>3
    <3>2. Took(w)'
      BY <3>1, <1>1, <1>3, <2>2, <2>3 DEF DrainOK
    <3>3. w = Head(drain'[t].rows).w
      BY <3>1, <1>3
    <3> QED BY <3>2, <3>3 DEF Took
  <2> QED BY <2>1, <2>2, <2>3, <1>3 DEF DrainGoesOn, Continues
<1>4. CASE drain'[t].pc \in {"idle", "lock"} /\ drain'[t].rows = <<>>
  BY <1>4 DEF DrainGoesOn, Busy
<1> QED BY <1>3, <1>4 DEF Goes

\* A write that is not queued goes on, and is not yet queued.
WriteGoes(w) ==
    /\ write[w].state \notin {"queued", "sent"} /\ write'[w].state \notin {"queued", "sent"}
    /\ write'[w].state \in Unsettled => write'[w].tab \in Tab
    /\ write'[w].state = "sealing" => write'[w].owner \in Account /\ write'[w].key \in Key

LEMMA WritesKeep ==
  ASSUME QueueInv, \A w \in Write : write'[w] = write[w] \/ WriteGoes(w),
         \A w \in Write : Took(w) => Took(w)'
  PROVE  WritesGoOn /\ \A w \in Write : WriteOK(w)'
<1>1. \A w \in Write : WriteOK(w)
  BY DEF QueueInv
<1>2. WritesGoOn
  BY DEF WritesGoOn, WriteGoes
<1>3. ASSUME NEW w \in Write PROVE WriteOK(w)'
  <2>1. CASE write'[w] = write[w]
    BY <2>1, <1>1 DEF WriteOK
  <2>2. CASE WriteGoes(w)
    BY <2>2 DEF WriteOK, WriteGoes
  <2> QED BY <2>1, <2>2
<1> QED BY <1>2, <1>3

LEMMA QueueThins ==
  ASSUME QueueTypes
  PROVE  Thinned(queue) /\ Thinned(<<>>) /\ <<>> \in Seq(Row)
<1>1. \A i \in DOMAIN queue : queue[i] \in Row
  BY RowsAre
<1>2. queue \in [DOMAIN queue -> Row]
  BY <1>1 DEF QueueTypes
<1>3. Thinned(queue)
  BY <1>2, SameRowsThin
<1>4. [i \in {} |-> 0] \in [DOMAIN <<>> -> DOMAIN queue]
  OBVIOUS
<1>5. Thinned(<<>>)
  BY <1>4 DEF Thinned
<1> QED BY <1>3, <1>5

\* What most steps are: the server's data stay, no row comes, drains and writes
\* go on.
LEMMA StepKeeps ==
  ASSUME QueueInv, UNCHANGED <<made, moved>>, session' \in Who, epoch' \in Key, me' \in Who,
         lock' \in Tab \cup {NoTab}, tab' \in [Tab -> Page],
         queue' = queue \/ (queue' \in Seq(Row) /\ Thinned(queue')),
         write' \in [Write -> Perform], \A w \in Write : write'[w] = write[w] \/ WriteGoes(w),
         drain' \in [Tab -> Drain], \A t \in Tab : Goes(t) \/ DrainGoesOn(t)
  PROVE  QueueInv'
<1>1. QueueTypes
  BY DEF QueueInv
<1>2. queue' \in Seq(Row) /\ Thinned(queue')
  <2>1. CASE queue' = queue
    BY <2>1, <1>1, QueueThins DEF QueueTypes, Thinned
  <2> QED BY <2>1
<1>3. QueueTypes'
  BY <1>1, <1>2 DEF QueueTypes
<1>4. \A w \in Write : Took(w) => Took(w)'
  BY DEF Took
<1>5. WritesGoOn /\ \A w \in Write : WriteOK(w)'
  BY <1>4, WritesKeep
<1>6. \A t \in Tab : DrainGoesOn(t)
  BY <1>4, GoesOn
<1> QED BY <1>2, <1>3, <1>5, <1>6, QueueKeeps
-----------------------------------------------------------------------------
(* Steps of pages and their surroundings.                                    *)

LEMMA DrainsRest ==
  ASSUME QueueInv, drain' = drain, lock' = lock
  PROVE  drain' \in [Tab -> Drain] /\ \A t \in Tab : Goes(t)
BY DEF QueueInv, QueueTypes, DrainOK, Goes

LEMMA TriggerKeeps ==
  ASSUME QueueInv, NEW t \in Tab, NEW force \in BOOLEAN, Trigger(t, force), lock' = lock
  PROVE  drain' \in [Tab -> Drain] /\ \A u \in Tab : Goes(u)
<1> DEFINE e == Replay(drain[t], force)
<1>1. drain \in [Tab -> Drain] /\ \A u \in Tab : DrainOK(u)
  BY DEF QueueInv, QueueTypes
<1>2. /\ e \in Drain /\ e.rows = drain[t].rows /\ e.reply = drain[t].reply
      /\ e.pc = drain[t].pc \/ e.pc = "lock"
  BY <1>1, ReplayKeeps
<1>3. drain' = [drain EXCEPT ![t] = e]
  BY DEF Trigger
<1> HIDE DEF e
<1>4. drain' \in [Tab -> Drain] /\ drain'[t] = e /\ \A u \in Tab \ {t} : drain'[u] = drain[u]
  BY <1>1, <1>2, <1>3
<1>5. \A u \in Tab : drain[u].pc \in Busy => lock' = u
  BY <1>1 DEF DrainOK
<1>6. \A u \in Tab : Goes(u)
  BY <1>2, <1>4, <1>5 DEF Goes
<1> QED BY <1>4, <1>6

LEMMA ForgetDrainKeeps ==
  ASSUME QueueInv, NEW t \in Tab, drain' = [drain EXCEPT ![t] = ForgetDrain(t)], lock' = lock
  PROVE  drain' \in [Tab -> Drain] /\ \A u \in Tab : Goes(u)
<1> DEFINE e == ForgetDrain(t)
<1>1. drain \in [Tab -> Drain] /\ \A u \in Tab : DrainOK(u)
  BY DEF QueueInv, QueueTypes
<1>2. e = [drain[t] EXCEPT !.stale = TRUE] /\ drain[t] \in Drain
  BY <1>1 DEF ForgetDrain
<1> HIDE DEF e
<1>3. e \in Drain /\ e.rows = drain[t].rows /\ e.reply = drain[t].reply /\ e.pc = drain[t].pc
  BY <1>2 DEF Drain
<1>4. drain' = [drain EXCEPT ![t] = e]
  BY DEF e
<1>5. drain' \in [Tab -> Drain] /\ drain'[t] = e /\ \A u \in Tab \ {t} : drain'[u] = drain[u]
  BY <1>1, <1>3, <1>4
<1>6. \A u \in Tab : drain[u].pc \in Busy => lock' = u
  BY <1>1 DEF DrainOK
<1>7. \A u \in Tab : Goes(u)
  BY <1>3, <1>5, <1>6 DEF Goes
<1> QED BY <1>5, <1>7

LEMMA ForgetWritesKeeps ==
  ASSUME QueueInv, NEW t \in Tab, write' = ForgetWrites(t)
  PROVE  write' \in [Write -> Perform] /\ \A w \in Write : write'[w] = write[w] \/ WriteGoes(w)
<1>1. write \in [Write -> Perform] /\ \A w \in Write : WriteOK(w)
  BY DEF QueueInv, QueueTypes
<1>2. ASSUME NEW w \in Write, write[w].state = "sealing"
      PROVE  LET p == [write[w] EXCEPT !.stale = TRUE]
             IN  p \in Perform /\ p.state = "sealing" /\ p.tab = write[w].tab
                 /\ p.owner = write[w].owner /\ p.key = write[w].key
  BY <1>1, <1>2 DEF Perform
<1>3. write' = [w \in Write |->
                  IF write[w].tab = t /\ write[w].state = "sealing" THEN [write[w] EXCEPT !.stale = TRUE]
                                                                    ELSE write[w]]
  BY DEF ForgetWrites
<1>4. write' \in [Write -> Perform]
  BY <1>1, <1>2, <1>3
<1>5. ASSUME NEW w \in Write PROVE write'[w] = write[w] \/ WriteGoes(w)
  <2>1. CASE write[w].tab = t /\ write[w].state = "sealing"
    <3>1. write'[w] = [write[w] EXCEPT !.stale = TRUE]
      BY <2>1, <1>3
    <3>2. write'[w].state = "sealing" /\ write'[w].tab = write[w].tab
          /\ write'[w].owner = write[w].owner /\ write'[w].key = write[w].key
      BY <2>1, <3>1, <1>2
    <3>3. write[w].tab \in Tab /\ write[w].owner \in Account /\ write[w].key \in Key
      BY <2>1, <1>1 DEF WriteOK, Unsettled
    <3> QED BY <2>1, <3>2, <3>3 DEF WriteGoes
  <2>2. CASE ~(write[w].tab = t /\ write[w].state = "sealing")
    BY <2>2, <1>3
  <2> QED BY <2>1, <2>2
<1> QED BY <1>4, <1>5

LEMMA KickKeeps ==
  ASSUME QueueInv, NEW t \in Tab, Kick(t)
  PROVE  QueueInv'
<1>1. tab' \in [Tab -> Page]
  <2>1. [tab[t] EXCEPT !.kick = FALSE] \in Page
    BY PageKinds DEF QueueInv, QueueTypes
  <2> QED BY <2>1 DEF Kick, QueueInv, QueueTypes
<1>2. drain' \in [Tab -> Drain] /\ \A u \in Tab : Goes(u)
  BY TriggerKeeps DEF Kick
<1> QED BY <1>1, <1>2, StepKeeps DEF Kick, server, QueueInv, QueueTypes

LEMMA RunKeeps ==
  ASSUME QueueInv, NEW t \in Tab, Run(t)
  PROVE  QueueInv'
<1>1. tab' \in [Tab -> Page]
  <2>1. [tab[t] EXCEPT !.timer = FALSE] \in Page
    BY PageKinds DEF QueueInv, QueueTypes
  <2> QED BY <2>1 DEF Run, QueueInv, QueueTypes
<1>2. drain' \in [Tab -> Drain] /\ \A u \in Tab : Goes(u)
  BY TriggerKeeps DEF Run
<1> QED BY <1>1, <1>2, StepKeeps DEF Run, server, QueueInv, QueueTypes

LEMMA ClearMarksKeeps ==
  ASSUME QueueInv, NEW t \in Tab, ClearMarks(t)
  PROVE  QueueInv'
<1>1. tab' \in [Tab -> Page]
  <2>1. [tab[t] EXCEPT !.marks = {}] \in Page
    BY PageKinds DEF QueueInv, QueueTypes
  <2> QED BY <2>1 DEF ClearMarks, QueueInv, QueueTypes
<1>2. drain' \in [Tab -> Drain] /\ \A u \in Tab : Goes(u)
  BY DrainsRest DEF ClearMarks
<1> QED BY <1>1, <1>2, StepKeeps DEF ClearMarks, server, QueueInv, QueueTypes

LEMMA PostKeeps ==
  ASSUME NEW t \in Tab, NEW pages \in [Tab -> Page], NEW message \in {"signedOut", "switched"}
  PROVE  Post(t, pages, message) \in [Tab -> Page]
<1>1. \A u \in Tab : pages[u].mail \cup {message} \in SUBSET {"signedOut", "switched"}
  BY DEF Page
<1>2. \A u \in Tab : [pages[u] EXCEPT !.mail = pages[u].mail \cup {message}] \in Page
  BY <1>1, PageKinds
<1> QED BY <1>2 DEF Post

LEMMA SignedInKeeps ==
  ASSUME QueueInv, NEW t \in Tab, NEW pages \in [Tab -> Page], NEW a \in Who, SignedIn(t, pages, a),
         lock' = lock
  PROVE  /\ tab' \in [Tab -> Page]
         /\ drain' \in [Tab -> Drain] /\ \A u \in Tab : Goes(u)
<1>1. tab' \in [Tab -> Page]
  <2>1. [pages[t] EXCEPT !.status = "in", !.reading = FALSE, !.wiping = FALSE, !.who = a,
                         !.next = NoAccount] \in Page
    BY Names DEF Page
  <2>2. tab' = [pages EXCEPT ![t] = [pages[t] EXCEPT !.status = "in", !.reading = FALSE,
                                                     !.wiping = FALSE, !.who = a, !.next = NoAccount]]
    BY DEF SignedIn
  <2> QED BY <2>1, <2>2
<1>2. drain' \in [Tab -> Drain] /\ \A u \in Tab : Goes(u)
  BY TriggerKeeps, DrainsRest DEF SignedIn
<1> QED BY <1>1, <1>2

LEMMA ReadMeKeeps ==
  ASSUME QueueInv, NEW t \in Tab, ReadMe(t)
  PROVE  QueueInv'
<1>1. /\ tab \in [Tab -> Page] /\ session \in Who /\ UNCHANGED <<server, online, queue, epoch, lock>>
      /\ QueueTypes
  BY DEF ReadMe, QueueInv, QueueTypes
<1>2. CASE tab' = [tab EXCEPT ![t] = SignedOutPage(tab[t])] /\ UNCHANGED <<me, drain, write>>
  <2>1. tab' \in [Tab -> Page]
    BY <1>1, <1>2, PageKinds
  <2>2. drain' \in [Tab -> Drain] /\ \A u \in Tab : Goes(u)
    BY <1>1, <1>2, DrainsRest
  <2> QED BY <1>1, <1>2, <2>1, <2>2, StepKeeps DEF server, QueueTypes
<1>3. CASE Forget(t) /\ tab' = [tab EXCEPT ![t] = Forgotten(tab[t], session)] /\ UNCHANGED me
  <2>1. tab' \in [Tab -> Page]
    BY <1>1, <1>3, PageKinds
  <2>2. drain' \in [Tab -> Drain] /\ \A u \in Tab : Goes(u)
    BY <1>1, <1>3, ForgetDrainKeeps DEF Forget
  <2>3. write' \in [Write -> Perform] /\ \A w \in Write : write'[w] = write[w] \/ WriteGoes(w)
    BY <1>3, ForgetWritesKeeps DEF Forget
  <2> QED BY <1>1, <1>3, <2>1, <2>2, <2>3, StepKeeps DEF server, QueueTypes
<1>4. CASE SignedIn(t, tab, session) /\ me' = session /\ UNCHANGED write
  <2>1. tab' \in [Tab -> Page] /\ drain' \in [Tab -> Drain] /\ \A u \in Tab : Goes(u)
    BY <1>1, <1>4, SignedInKeeps
  <2> QED BY <1>1, <1>4, <2>1, StepKeeps DEF server, QueueTypes
<1> QED BY <1>2, <1>3, <1>4 DEF ReadMe

LEMMA ReadMeFailsKeeps ==
  ASSUME QueueInv, NEW t \in Tab, ReadMeFails(t)
  PROVE  QueueInv'
<1>1. /\ tab \in [Tab -> Page] /\ me \in Who /\ UNCHANGED <<server, online, queue, epoch, me, lock, write>>
      /\ QueueTypes
  BY DEF ReadMeFails, QueueInv, QueueTypes
<1>2. CASE tab' = [tab EXCEPT ![t] = SignedOutPage(tab[t])] /\ UNCHANGED drain
  <2>1. tab' \in [Tab -> Page]
    BY <1>1, <1>2, PageKinds
  <2>2. drain' \in [Tab -> Drain] /\ \A u \in Tab : Goes(u)
    BY <1>1, <1>2, DrainsRest
  <2> QED BY <1>1, <2>1, <2>2, StepKeeps DEF server, QueueTypes
<1>3. CASE SignedIn(t, tab, me)
  <2>1. tab' \in [Tab -> Page] /\ drain' \in [Tab -> Drain] /\ \A u \in Tab : Goes(u)
    BY <1>1, <1>3, SignedInKeeps
  <2> QED BY <1>1, <2>1, StepKeeps DEF server, QueueTypes
<1> QED BY <1>2, <1>3 DEF ReadMeFails

LEMMA SignOutKeeps ==
  ASSUME QueueInv, NEW t \in Tab, SignOut(t)
  PROVE  QueueInv'
<1>1. /\ tab \in [Tab -> Page] /\ session' \in Who /\ UNCHANGED <<made, moved, online, queue, epoch, me, lock>>
      /\ QueueTypes /\ Forget(t)
      /\ tab' = Post(t, [tab EXCEPT ![t] = Forgotten(tab[t], NoAccount)], "signedOut")
  BY Names DEF SignOut, QueueInv, QueueTypes
<1>2. tab' \in [Tab -> Page]
  <2>1. [tab EXCEPT ![t] = Forgotten(tab[t], NoAccount)] \in [Tab -> Page]
    BY <1>1, Names, PageKinds
  <2> QED BY <1>1, <2>1, PostKeeps
<1>3. drain' \in [Tab -> Drain] /\ \A u \in Tab : Goes(u)
  BY <1>1, ForgetDrainKeeps DEF Forget
<1>4. write' \in [Write -> Perform] /\ \A w \in Write : write'[w] = write[w] \/ WriteGoes(w)
  BY <1>1, ForgetWritesKeeps DEF Forget
<1> QED BY <1>1, <1>2, <1>3, <1>4, StepKeeps DEF QueueTypes

LEMMA WipedKeeps ==
  ASSUME QueueInv, NEW t \in Tab, Wiped(t)
  PROVE  QueueInv'
<1> DEFINE owner == tab[t].next
<1>1. /\ tab \in [Tab -> Page] /\ UNCHANGED <<server, online, lock, write>> /\ QueueTypes
      /\ queue' = <<>> /\ epoch' = epoch + 1 /\ epoch < MaxEpoch /\ me' = owner
  BY DEF Wiped, QueueInv, QueueTypes
<1>2. owner \in Who /\ epoch' \in Key
  BY <1>1, QueueAssumption DEF Page, QueueTypes, Key
<1>3. queue' \in Seq(Row) /\ Thinned(queue')
  BY <1>1, QueueThins
<1>4. CASE tab' = [tab EXCEPT ![t] = [SignedOutPage(tab[t]) EXCEPT !.wiping = FALSE]] /\ UNCHANGED drain
  <2>1. tab' \in [Tab -> Page]
    BY <1>1, <1>4, PageKinds
  <2>2. drain' \in [Tab -> Drain] /\ \A u \in Tab : Goes(u)
    BY <1>1, <1>4, DrainsRest
  <2> QED BY <1>1, <1>2, <1>3, <2>1, <2>2, StepKeeps DEF server, QueueTypes
<1>5. CASE SignedIn(t, Post(t, tab, "switched"), owner)
  <2>1. Post(t, tab, "switched") \in [Tab -> Page]
    BY <1>1, PostKeeps
  <2>2. tab' \in [Tab -> Page] /\ drain' \in [Tab -> Drain] /\ \A u \in Tab : Goes(u)
    BY <1>1, <1>2, <1>5, <2>1, SignedInKeeps
  <2> QED BY <1>1, <1>2, <1>3, <2>2, StepKeeps DEF server, QueueTypes
<1> QED BY <1>4, <1>5 DEF Wiped

LEMMA HearKeeps ==
  ASSUME QueueInv, NEW t \in Tab, NEW message \in tab[t].mail, Hear(t, message)
  PROVE  QueueInv'
<1> DEFINE p == [tab[t] EXCEPT !.key = NoKey, !.mail = tab[t].mail \ {message}]
<1>1. /\ tab \in [Tab -> Page] /\ UNCHANGED <<server, online, queue, epoch, me, lock>> /\ QueueTypes
      /\ drain' = [drain EXCEPT ![t] = ForgetDrain(t)] /\ write' = ForgetWrites(t)
      /\ tab' = [tab EXCEPT ![t] = IF message = "switched" THEN [p EXCEPT !.reading = TRUE]
                                                           ELSE SignedOutPage(p)]
  BY DEF Hear, QueueInv, QueueTypes
<1>2. p \in Page
  BY <1>1, Names DEF Page
<1> HIDE DEF p
<1>3. tab' \in [Tab -> Page]
  <2>1. [p EXCEPT !.reading = TRUE] \in Page
    BY <1>2 DEF Page
  <2>2. SignedOutPage(p) \in Page
    BY <1>2, PageKinds
  <2> QED BY <1>1, <2>1, <2>2
<1>4. drain' \in [Tab -> Drain] /\ \A u \in Tab : Goes(u)
  BY <1>1, ForgetDrainKeeps
<1>5. write' \in [Write -> Perform] /\ \A w \in Write : write'[w] = write[w] \/ WriteGoes(w)
  BY <1>1, ForgetWritesKeeps
<1> QED BY <1>1, <1>3, <1>4, <1>5, StepKeeps DEF server, QueueTypes

\* A page load, whoever is signed in then.
LEMMA LoadKeeps ==
  ASSUME QueueInv, NEW t \in Tab, Load(t), session' \in Who,
         UNCHANGED <<made, moved, online, queue, epoch, me>>
  PROVE  QueueInv'
<1>1. /\ QueueTypes /\ tab' = [tab EXCEPT ![t] = FreshPage] /\ drain' = [drain EXCEPT ![t] = NoDrain]
      /\ lock' = (IF lock = t THEN NoTab ELSE lock)
      /\ write' = [w \in Write |-> IF write[w].tab = t /\ write[w].state \in Unsettled
                                   THEN [NoWrite EXCEPT !.state = "lost"] ELSE write[w]]
  BY DEF Load, QueueInv
<1>2. tab' \in [Tab -> Page] /\ lock' \in Tab \cup {NoTab}
  BY <1>1, Fresh DEF QueueTypes
<1>3. drain' \in [Tab -> Drain] /\ \A u \in Tab : Goes(u)
  <2>1. drain' \in [Tab -> Drain]
    BY <1>1, Fresh DEF QueueTypes
  <2>2. ASSUME NEW u \in Tab PROVE Goes(u)
    <3>1. CASE u = t
      BY <3>1, <1>1, Fresh DEF Goes, QueueTypes
    <3>2. CASE u # t
      <4>1. drain'[u] = drain[u] /\ (drain[u].pc \in Busy => lock = u)
        BY <3>2, <1>1 DEF QueueInv, QueueTypes, DrainOK
      <4> QED BY <3>2, <4>1, <1>1 DEF Goes
    <3> QED BY <3>1, <3>2
  <2> QED BY <2>1, <2>2
<1>4. write' \in [Write -> Perform] /\ \A w \in Write : write'[w] = write[w] \/ WriteGoes(w)
  <2>1. [NoWrite EXCEPT !.state = "lost"] \in Perform /\ [NoWrite EXCEPT !.state = "lost"].state = "lost"
    BY Fresh DEF Perform
  <2>2. write' \in [Write -> Perform]
    BY <1>1, <2>1 DEF QueueTypes
  <2>3. ASSUME NEW w \in Write PROVE write'[w] = write[w] \/ WriteGoes(w)
    BY <1>1, <2>1 DEF WriteGoes, Unsettled
  <2> QED BY <2>2, <2>3
<1> QED BY <1>1, <1>2, <1>3, <1>4, StepKeeps DEF QueueTypes

LEMMA PageStepKeeps ==
  ASSUME QueueInv, NEW t \in Tab, PageStep(t)
  PROVE  QueueInv'
<1>1. CASE Kick(t) \/ TimerFires(t) \/ Visit(t) \/ ClearMarks(t)
  BY <1>1, KickKeeps, RunKeeps, ClearMarksKeeps DEF TimerFires, Visit
<1>2. CASE ReadMe(t) \/ ReadMeFails(t) \/ SignOut(t) \/ Wiped(t)
  BY <1>2, ReadMeKeeps, ReadMeFailsKeeps, SignOutKeeps, WipedKeeps
<1>3. CASE \E message \in tab[t].mail : Hear(t, message)
  BY <1>3, HearKeeps
<1>4. CASE Reload(t)
  BY <1>4, LoadKeeps DEF Reload, QueueInv, QueueTypes
<1>5. CASE \E a \in Account : SignIn(t, a)
  BY <1>5, LoadKeeps, Names DEF SignIn
<1> QED BY <1>1, <1>2, <1>3, <1>4, <1>5 DEF PageStep
-----------------------------------------------------------------------------
(* What the surroundings do.                                                 *)

LEMMA ElapseKeeps ==
  ASSUME QueueInv, NEW w \in Write, Elapse(w)
  PROVE  QueueInv'
<1>1. QueueTypes /\ UNCHANGED <<server, online, epoch, me, tab, drain, lock, write>>
  BY DEF Elapse, QueueInv
<1>2. queue' \in Seq(Row) /\ Thinned(queue')
  BY <1>1, ElapseThins DEF Elapse
<1>3. drain' \in [Tab -> Drain] /\ \A u \in Tab : Goes(u)
  BY <1>1, DrainsRest
<1> QED BY <1>1, <1>2, <1>3, StepKeeps DEF server, QueueTypes

LEMMA GoOnlineKeeps ==
  ASSUME QueueInv, GoOnline
  PROVE  QueueInv'
<1>1. /\ QueueTypes /\ UNCHANGED <<server, queue, epoch, me, lock, write>>
      /\ drain' = [t \in Tab |-> IF Mounted(t) THEN Replay(drain[t], TRUE) ELSE drain[t]]
      /\ tab' = [t \in Tab |-> IF Mounted(t) THEN [tab[t] EXCEPT !.timer = FALSE] ELSE tab[t]]
  BY DEF GoOnline, QueueInv
<1>2. tab' \in [Tab -> Page]
  <2>1. \A t \in Tab : tab[t] \in Page /\ [tab[t] EXCEPT !.timer = FALSE] \in Page
    BY <1>1, PageKinds DEF QueueTypes
  <2> QED BY <1>1, <2>1
<1>3. ASSUME NEW t \in Tab PROVE drain'[t] \in Drain /\ Goes(t)
  <2>1. drain[t] \in Drain /\ (drain[t].pc \in Busy => lock' = t)
    BY <1>1 DEF QueueInv, QueueTypes, DrainOK
  <2>2. CASE Mounted(t)
    <3>1. PICK e : e = Replay(drain[t], TRUE)
      OBVIOUS
    <3>2. /\ e \in Drain /\ e.rows = drain[t].rows /\ e.reply = drain[t].reply
          /\ e.pc = drain[t].pc \/ e.pc = "lock"
      BY <2>1, <3>1, ReplayKeeps
    <3>3. drain'[t] = e
      BY <1>1, <2>2, <3>1
    <3> QED BY <2>1, <3>2, <3>3 DEF Goes
  <2>3. CASE ~Mounted(t)
    BY <1>1, <2>1, <2>3 DEF Goes
  <2> QED BY <2>2, <2>3
<1>4. drain' \in [Tab -> Drain]
  <2>1. drain' = [t \in Tab |-> drain'[t]]
    BY <1>1
  <2> QED BY <1>3, <2>1
<1> QED BY <1>1, <1>2, <1>3, <1>4, StepKeeps DEF server, QueueTypes

\* Whoever else acts, what took effect once stays so.
LEMMA PartnerMovesKeeps ==
  ASSUME QueueInv, NEW w \in Write, PartnerMoves(w)
  PROVE  QueueInv'
<1>1. /\ QueueTypes /\ moved' = moved \cup {w}
      /\ UNCHANGED <<session, made, online, queue, epoch, me, tab, drain, lock, write>>
  BY DEF PartnerMoves, QueueInv
<1>2. \A v \in Write : Took(v) => Took(v)'
  BY <1>1 DEF Took
<1>3. WritesGoOn /\ \A v \in Write : WriteOK(v)'
  BY <1>1, <1>2, WritesKeep
<1>4. \A t \in Tab : DrainGoesOn(t)
  BY <1>1, <1>2, DrainsRest, GoesOn
<1>5. Thinned(queue')
  BY <1>1, QueueThins DEF Thinned
<1> QED BY <1>1, <1>3, <1>4, <1>5, QueueKeeps DEF QueueTypes

LEMMA WorldKeeps ==
  ASSUME QueueInv, World
  PROVE  QueueInv'
<1>1. CASE Expire \/ GoOffline
  <2>1. /\ QueueTypes /\ session' \in Who
        /\ UNCHANGED <<made, moved, queue, epoch, me, tab, drain, lock, write>>
    BY <1>1, Names DEF Expire, GoOffline, QueueInv, QueueTypes
  <2>2. drain' \in [Tab -> Drain] /\ \A u \in Tab : Goes(u)
    BY <2>1, DrainsRest
  <2> QED BY <2>1, <2>2, StepKeeps DEF QueueTypes
<1> QED BY <1>1, GoOnlineKeeps, PartnerMovesKeeps DEF World

-----------------------------------------------------------------------------
(* perform(), step by step.                                                  *)

\* The steps that only change a write which is not queued, and a page.
LEMMA PerformKeeps ==
  ASSUME QueueInv, NEW w \in Write, NEW p \in Perform, write' = [write EXCEPT ![w] = p],
         write[w].state \notin {"queued", "sent"}, p.state \notin {"queued", "sent"},
         p.state \in Unsettled => p.tab \in Tab,
         p.state = "sealing" => p.owner \in Account /\ p.key \in Key,
         tab' \in [Tab -> Page], UNCHANGED <<server, online, queue, epoch, me, drain, lock>>
  PROVE  QueueInv'
<1>1. QueueTypes
  BY DEF QueueInv
<1>2. write' \in [Write -> Perform] /\ write'[w] = p /\ \A v \in Write \ {w} : write'[v] = write[v]
  BY <1>1 DEF QueueTypes
<1>3. WriteGoes(w)
  BY <1>2 DEF WriteGoes
<1>4. \A v \in Write : write'[v] = write[v] \/ WriteGoes(v)
  BY <1>2, <1>3
<1>5. drain' \in [Tab -> Drain] /\ \A u \in Tab : Goes(u)
  BY DrainsRest
<1> QED BY <1>1, <1>2, <1>4, <1>5, StepKeeps DEF server, QueueTypes

LEMMA EndedKeeps ==
  ASSUME QueueInv, NEW w \in Write, NEW state \in {"done", "rejected"}, write' = Ended(w, state),
         write[w].state \notin {"queued", "sent"}, tab' \in [Tab -> Page],
         UNCHANGED <<server, online, queue, epoch, me, drain, lock>>
  PROVE  QueueInv'
<1> DEFINE p == [NoWrite EXCEPT !.state = state]
<1>1. p \in Perform /\ p.state = state
  BY Fresh DEF Perform
<1>2. write' = [write EXCEPT ![w] = p]
  BY DEF Ended
<1> HIDE DEF p
<1>3. state \notin {"queued", "sent", "sealing"} /\ state \notin Unsettled
  BY DEF Unsettled
<1> QED BY <1>1, <1>2, <1>3, PerformKeeps

LEMMA SealKeeps ==
  ASSUME QueueInv, NEW w \in Write, NEW t \in Tab, NEW viaSend \in BOOLEAN, Seal(w, t, viaSend),
         write[w].state \notin {"queued", "sent"},
         UNCHANGED <<server, online, queue, epoch, me, drain, lock>>
  PROVE  QueueInv'
<1>1. QueueTypes /\ tab \in [Tab -> Page] /\ tab[t] \in Page /\ write[w] \in Perform
  BY DEF QueueInv, QueueTypes
<1>2. CASE tab[t].who = NoAccount
  BY <1>1, <1>2, EndedKeeps DEF Seal
<1>3. CASE tab[t].who # NoAccount
  <2>1. PICK k : k = KeyOf(t)
    OBVIOUS
  <2>2. k \in Key
    BY <1>1, <2>1 DEF KeyOf, Page, QueueTypes
  <2>3. tab[t].who \in Account
    BY <1>1, <1>3 DEF Page, Who
  <2>4. PICK p : p = [write[w] EXCEPT !.state = "sealing", !.tab = t, !.owner = tab[t].who,
                                      !.key = k, !.online = viaSend, !.reply = "ok"]
    OBVIOUS
  <2>5. p \in Perform /\ p.state = "sealing" /\ p.tab = t /\ p.owner = tab[t].who /\ p.key = k
    BY <1>1, <2>2, <2>3, <2>4, Names DEF Perform, Replies
  <2>6. write' = [write EXCEPT ![w] = p] /\ tab' = [tab EXCEPT ![t] = [tab[t] EXCEPT !.key = k]]
    BY <1>3, <2>1, <2>4 DEF Seal
  <2>7. tab' \in [Tab -> Page]
    BY <1>1, <2>2, <2>6, Names, PageKinds
  <2> QED BY <2>2, <2>3, <2>5, <2>6, <2>7, PerformKeeps
<1> QED BY <1>2, <1>3

LEMMA MakeKeeps ==
  ASSUME QueueInv, NEW w \in Write, NEW t \in Tab, Make(w, t)
  PROVE  QueueInv'
<1>1. /\ QueueTypes /\ write[w].state = "none"
      /\ UNCHANGED <<server, online, queue, epoch, me, drain, lock>>
  BY DEF Make, QueueInv
<1>2. CASE online
  <2>1. PICK p : p = [NoWrite EXCEPT !.state = "lane", !.tab = t, !.lane = TRUE]
    OBVIOUS
  <2>2. p \in Perform /\ p.state = "lane" /\ p.tab = t
    BY <2>1, Fresh DEF Perform
  <2>3. write' = [write EXCEPT ![w] = p] /\ tab' \in [Tab -> Page]
    BY <1>1, <1>2, <2>1 DEF Make, QueueTypes
  <2> QED BY <1>1, <2>2, <2>3, PerformKeeps
<1>3. CASE ~online
  BY <1>1, <1>3, SealKeeps DEF Make
<1> QED BY <1>2, <1>3

LEMMA LeaveLaneKeeps ==
  ASSUME QueueInv, NEW w \in Write, LeaveLane(w)
  PROVE  QueueInv'
<1> DEFINE t == write[w].tab
<1>1. /\ QueueTypes /\ write[w].state = "lane" /\ t \in Tab /\ write[w] \in Perform
      /\ UNCHANGED <<server, online, queue, epoch, me, drain, lock>>
  BY DEF LeaveLane, QueueInv, QueueTypes, WriteOK, Unsettled
<1>2. CASE Seal(w, t, FALSE) \/ Seal(w, t, TRUE)
  BY <1>1, <1>2, SealKeeps
<1>3. CASE write' = [write EXCEPT ![w].state = "sending"] /\ UNCHANGED tab
  <2>1. PICK p : p = [write[w] EXCEPT !.state = "sending"]
    OBVIOUS
  <2>2. p \in Perform /\ p.state = "sending" /\ p.tab = t
    BY <1>1, <2>1 DEF Perform
  <2>3. write' = [write EXCEPT ![w] = p] /\ tab' \in [Tab -> Page]
    BY <1>1, <1>3, <2>1 DEF QueueTypes
  <2> QED BY <1>1, <2>2, <2>3, PerformKeeps
<1> QED BY <1>2, <1>3 DEF LeaveLane

LEMMA SettleKeeps ==
  ASSUME QueueInv, NEW w \in Write, Settle(w)
  PROVE  QueueInv'
<1> DEFINE t == write[w].tab
<1>1. /\ QueueTypes /\ write[w].state = "answered" /\ t \in Tab /\ write[w] \in Perform
      /\ UNCHANGED <<server, online, queue, epoch, me, drain, lock>>
  BY DEF Settle, QueueInv, QueueTypes, WriteOK, Unsettled
<1>2. CASE Seal(w, t, TRUE)
  BY <1>1, <1>2, SealKeeps
<1>3. CASE /\ write' = Ended(w, IF write[w].reply = "ok" THEN "done" ELSE "rejected")
           /\ tab' = [tab EXCEPT ![t] = IF write[w].reply = "401" THEN SignedOutPage(tab[t]) ELSE tab[t]]
  <2>1. tab' \in [Tab -> Page]
    BY <1>1, <1>3, PageKinds DEF QueueTypes
  <2>2. PICK state \in {"done", "rejected"} : write' = Ended(w, state)
    BY <1>3
  <2> QED BY <1>1, <2>1, <2>2, EndedKeeps
<1> QED BY <1>2, <1>3 DEF Settle
\* What a reply says of the write.
LEMMA ServeSays ==
  ASSUME QueueTypes, NEW w \in Write, NEW expected, NEW reply \in Replies, Serve(w, expected, reply)
  PROVE  /\ made' \in [Write -> 0..2] /\ UNCHANGED <<session, moved>>
         /\ \A v \in Write : Took(v) => Took(v)'
         /\ reply \in {"ok", "409"} => Took(w)'
<1>1. made \in [Write -> 0..2] /\ UNCHANGED <<session, moved>>
  BY DEF Serve, QueueTypes
<1>2. CASE UNCHANGED made /\ reply \in {"later", "401", "412"}
  BY <1>1, <1>2 DEF Took
<1>3. CASE Carry(w, reply)
  <2>1. CASE made' = [made EXCEPT ![w] = IF made[w] < 2 THEN made[w] + 1 ELSE 2]
    <3>1. made'[w] \in 1..2 /\ \A v \in Write \ {w} : made'[v] = made[v]
      BY <1>1, <2>1
    <3>2. made' \in [Write -> 0..2]
      BY <1>1, <2>1
    <3>3. made'[w] > 0
      BY <3>1
    <3> QED BY <1>1, <3>1, <3>2, <3>3 DEF Took
  <2>2. CASE Conflict(w) /\ UNCHANGED made
    <3>1. Took(w)
      BY <1>1, <2>2 DEF Conflict, Takes, Took
    <3> QED BY <1>1, <2>2, <3>1 DEF Took
  <2>3. CASE ~Takes(w) /\ ~Conflict(w) /\ UNCHANGED made
    <3>1. Took(w)
      BY <1>1, <2>3 DEF Conflict, Takes, Took
    <3> QED BY <1>1, <2>3, <3>1 DEF Took
  <2>4. CASE reply = "refused" /\ UNCHANGED made
    BY <1>1, <2>4 DEF Took
  <2> QED BY <1>3, <2>1, <2>2, <2>3, <2>4 DEF Carry
<1> QED BY <1>2, <1>3 DEF Serve

LEMMA ServeOnlineKeeps ==
  ASSUME QueueInv, NEW w \in Write, NEW reply \in Replies, ServeOnline(w, reply)
  PROVE  QueueInv'
<1>1. /\ QueueTypes /\ write[w].state = "sending" /\ write[w].tab \in Tab /\ write[w] \in Perform
      /\ Serve(w, NoAccount, reply) /\ UNCHANGED <<online, queue, epoch, me, tab, drain, lock>>
  BY DEF ServeOnline, QueueInv, QueueTypes, WriteOK, Unsettled
<1>2. made' \in [Write -> 0..2] /\ UNCHANGED <<session, moved>> /\ \A v \in Write : Took(v) => Took(v)'
  BY <1>1, ServeSays
<1>3. PICK p : p = [write[w] EXCEPT !.state = "answered", !.reply = reply]
  OBVIOUS
<1>4. p \in Perform /\ p.state = "answered" /\ p.tab = write[w].tab
  BY <1>1, <1>3 DEF Perform
<1>5. write' = [write EXCEPT ![w] = p]
  BY <1>3 DEF ServeOnline
<1>6. write' \in [Write -> Perform] /\ write'[w] = p /\ \A v \in Write \ {w} : write'[v] = write[v]
  BY <1>1, <1>4, <1>5 DEF QueueTypes
<1>7. WriteGoes(w)
  BY <1>1, <1>4, <1>6 DEF WriteGoes
<1>8. WritesGoOn /\ \A v \in Write : WriteOK(v)'
  BY <1>2, <1>6, <1>7, WritesKeep
<1>9. \A t \in Tab : DrainGoesOn(t)
  BY <1>1, <1>2, DrainsRest, GoesOn
<1>10. QueueTypes'
  BY <1>1, <1>2, <1>6 DEF QueueTypes
<1>11. Thinned(queue')
  BY <1>1, QueueThins DEF Thinned
<1> QED BY <1>8, <1>9, <1>10, <1>11, QueueKeeps

\* A row comes to the end of the queue; no drain has it, nor has the queue.
LEMMA AddKeeps ==
  ASSUME QueueInv, NEW w \in Write, Add(w)
  PROVE  QueueInv'
<1> DEFINE p == write[w]
<1>1. /\ QueueTypes /\ p.state = "sealing" /\ p.tab \in Tab /\ p.owner \in Account /\ p.key \in Key
      /\ p \in Perform /\ tab \in [Tab -> Page] /\ UNCHANGED <<server, online, epoch, me, drain, lock>>
  BY DEF Add, QueueInv, QueueTypes, WriteOK, Unsettled
<1>2. CASE write' = Ended(w, "rejected") /\ UNCHANGED <<queue, tab>>
  BY <1>1, <1>2, EndedKeeps
<1>3. CASE ~p.stale
  <2>1. PICK row : row = [w |-> w, owner |-> p.owner, key |-> p.key, status |-> "pending", late |-> FALSE]
    OBVIOUS
  <2>2. row \in Row /\ row.w = w /\ row.owner = p.owner
    BY <1>1, <2>1 DEF Row
  <2>3. PICK q : q = [NoWrite EXCEPT !.state = "queued", !.owner = p.owner]
    OBVIOUS
  <2>4. q \in Perform /\ q.state = "queued" /\ q.owner = p.owner
    BY <1>1, <2>3, Fresh, Names DEF Perform
  <2>5. write' = [write EXCEPT ![w] = q] /\ queue' = Append(queue, row)
    BY <1>3, <2>1, <2>3 DEF Add
  <2>6. write' \in [Write -> Perform] /\ write'[w] = q /\ \A v \in Write \ {w} : write'[v] = write[v]
    BY <1>1, <2>4, <2>5 DEF QueueTypes
  <2>7. tab' \in [Tab -> Page]
    <3>1. PICK marks : marks = tab[p.tab].marks \cup {Target[w]}
      OBVIOUS
    <3>2. marks \in SUBSET {Target[v] : v \in Write}
      BY <1>1, <3>1 DEF Page
    <3>3. PICK k : k = (tab[p.tab].kick \/ p.online)
      OBVIOUS
    <3>4. k \in BOOLEAN
      BY <1>1, <3>3 DEF Page, Perform
    <3>5. PICK page : page = [tab[p.tab] EXCEPT !.marks = marks, !.kick = k]
      OBVIOUS
    <3>6. page \in Page
      BY <1>1, <3>2, <3>4, <3>5, PageKinds
    <3>7. tab' = [tab EXCEPT ![p.tab] = page]
      BY <1>1, <1>3, <3>1, <3>3, <3>5 DEF Add
    <3> QED BY <1>1, <3>6, <3>7
  <2>8. WritesGoOn
    BY <1>1, <2>6 DEF WritesGoOn
  <2>9. ASSUME NEW v \in Write PROVE WriteOK(v)'
    <3>1. CASE v = w
      BY <3>1, <2>4, <2>6 DEF WriteOK, Unsettled
    <3>2. CASE v # w
      BY <3>2, <1>1, <2>6 DEF QueueInv, WriteOK, Took, server
    <3> QED BY <3>1, <3>2
  <2>10. \A r : Held(r) => r.w # w
    BY <1>1 DEF Held
  <2>11. /\ queue' \in Seq(Row) /\ Len(queue) \in Nat /\ Len(queue') = Len(queue) + 1
         /\ DOMAIN queue = 1..Len(queue) /\ DOMAIN queue' = 1..(Len(queue) + 1)
         /\ \A i \in DOMAIN queue : queue'[i] = queue[i] /\ queue[i] \in Row
         /\ queue'[Len(queue) + 1] = row
    BY <1>1, <2>2, <2>5 DEF QueueTypes
  <2>12. \A i \in DOMAIN queue : Held(queue[i]) /\ queue[i].w # w
    BY <2>10 DEF QueueInv
  <2>13. RowsApart'
    <3>1. ASSUME NEW i \in DOMAIN queue', NEW j \in DOMAIN queue', queue'[i].w = queue'[j].w
          PROVE  i = j
      <4>1. CASE i \in DOMAIN queue /\ j \in DOMAIN queue
        BY <3>1, <4>1, <2>11 DEF QueueInv, RowsApart
      <4>2. i \notin DOMAIN queue => i = Len(queue) + 1
        BY <2>11
      <4>3. j \notin DOMAIN queue => j = Len(queue) + 1
        BY <2>11
      <4> QED BY <3>1, <4>1, <4>2, <4>3, <2>2, <2>11, <2>12
    <3> QED BY <3>1 DEF RowsApart
  <2>14. ASSUME NEW i \in DOMAIN queue' PROVE Held(queue[i])'
    <3>1. CASE i \in DOMAIN queue
      <4>1. PICK r \in Row : r = queue[i]
        BY <3>1, <2>11
      <4>2. Held(r)'
        BY <3>1, <4>1, <2>8, <2>12, HeldStays
      <4> QED BY <3>1, <4>1, <4>2, <2>11
    <3>2. CASE i = Len(queue) + 1
      BY <3>2, <2>2, <2>4, <2>6, <2>11 DEF Held
    <3> QED BY <3>1, <3>2, <2>11
  <2>15. ASSUME NEW t \in Tab PROVE DrainOK(t)'
    <3>1. PICK d : d = drain[t]
      OBVIOUS
    <3>2. d \in Drain /\ d.rows \in Seq(Row) /\ DrainOK(t) /\ drain'[t] = d /\ lock' = lock
      BY <1>1, <3>1 DEF QueueInv, QueueTypes, Drain
    <3>3. PICK rows : rows = d.rows
      OBVIOUS
    <3>4. \A k \in DOMAIN rows : rows[k] \in Row /\ Held(rows[k]) /\ rows[k].w # w
      BY <3>1, <3>2, <3>3, <2>10 DEF DrainOK
    <3>5. \A k \in DOMAIN rows : Held(rows[k])'
      BY <3>4, <2>8, HeldStays
    <3>6. ASSUME Ordered(rows) PROVE Ordered(rows)'
      <4>1. ASSUME NEW k \in DOMAIN rows, NEW i \in DOMAIN queue', NEW j \in DOMAIN queue',
                   i < j, queue'[i].status = "pending", queue'[j].w = rows[k].w
            PROVE  \E m \in 1..(k - 1) : rows[m].w = queue'[i].w
        <5>1. j \in DOMAIN queue
          BY <4>1, <3>4, <2>2, <2>11
        <5>2. i \in DOMAIN queue
          BY <4>1, <5>1, <2>11
        <5> QED BY <3>6, <4>1, <5>1, <5>2, <2>11 DEF Ordered
      <4> QED BY <4>1 DEF Ordered
    <3>7. d.pc = "reply" /\ d.reply \in {"ok", "409"} => Took(Head(d.rows).w)'
      BY <1>1, <3>1, <3>2 DEF DrainOK, Took, server
    <3>8. d.pc \in Busy => lock' = t /\ Ordered(d.rows)'
      BY <3>1, <3>2, <3>3, <3>6 DEF DrainOK
    <3> QED BY <3>1, <3>2, <3>3, <3>5, <3>7, <3>8 DEF DrainOK
  <2>16. QueueTypes'
    BY <1>1, <2>6, <2>7, <2>11 DEF QueueTypes, server
  <2> QED BY <2>9, <2>13, <2>14, <2>15, <2>16 DEF QueueInv
<1> QED BY <1>2, <1>3 DEF Add

LEMMA WriteStepKeeps ==
  ASSUME QueueInv, NEW w \in Write, WriteStep(w)
  PROVE  QueueInv'
<1>1. CASE \E t \in Tab : Make(w, t)
  BY <1>1, MakeKeeps
<1>2. CASE \E reply \in Replies : ServeOnline(w, reply)
  BY <1>2, ServeOnlineKeeps
<1> QED BY <1>1, <1>2, LeaveLaneKeeps, SettleKeeps, AddKeeps, ElapseKeeps DEF WriteStep
-----------------------------------------------------------------------------
(* replay(), step by step.                                                   *)

\* A drain that ends frees the lock; nobody else is draining.
LEMMA ReturnKeeps ==
  ASSUME QueueInv, NEW t \in Tab, NEW rows, NEW auth \in BOOLEAN, Return(t, rows, auth),
         lock \in {t, NoTab}, rows = queue \/ (rows \in Seq(Row) /\ Thinned(rows)),
         UNCHANGED <<server, epoch, me, write>>
  PROVE  QueueInv'
<1>1. QueueTypes /\ lock' = NoTab /\ queue' = rows /\ tab \in [Tab -> Page]
  BY DEF Return, QueueInv, QueueTypes
<1>2. tab' \in [Tab -> Page]
  <2>1. CASE UNCHANGED tab
    BY <1>1, <2>1
  <2>2. CASE tab' = [tab EXCEPT ![t].timer = tab[t].timer \/ (~auth /\ Mounted(t) /\ Arms(rows))]
    <3>1. PICK k : k = (tab[t].timer \/ (~auth /\ Mounted(t) /\ Arms(rows)))
      OBVIOUS
    <3>2. k \in BOOLEAN
      BY <1>1, <3>1 DEF Page
    <3>3. [tab[t] EXCEPT !.timer = k] \in Page
      BY <1>1, <3>2, PageKinds
    <3>4. tab' = [tab EXCEPT ![t] = [tab[t] EXCEPT !.timer = k]]
      BY <1>1, <2>2, <3>1
    <3> QED BY <1>1, <3>3, <3>4
  <2> QED BY <2>1, <2>2 DEF Return
<1>3. PICK d : d = IF drain[t].rerun /\ ~auth THEN [NoDrain EXCEPT !.pc = "lock", !.force = TRUE] ELSE NoDrain
  OBVIOUS
<1>4. d \in Drain /\ d.pc \in {"idle", "lock"} /\ d.rows = <<>>
  BY <1>3, Fresh DEF Drain
<1>5. drain' = [drain EXCEPT ![t] = d]
  BY <1>3 DEF Return
<1>6. drain' \in [Tab -> Drain] /\ drain'[t] = d /\ \A u \in Tab \ {t} : drain'[u] = drain[u]
  BY <1>1, <1>4, <1>5 DEF QueueTypes
<1>7. ASSUME NEW u \in Tab PROVE Goes(u)
  <2>1. CASE u = t
    BY <2>1, <1>4, <1>6 DEF Goes
  <2>2. CASE u # t
    <3>1. drain[u].pc \notin Busy
      BY <2>2, Names DEF QueueInv, DrainOK
    <3> QED BY <2>2, <3>1, <1>6 DEF Goes
  <2> QED BY <2>1, <2>2
<1>8. lock' \in Tab \cup {NoTab} /\ session' \in Who /\ epoch' \in Key /\ me' \in Who
  BY <1>1 DEF QueueTypes, server
<1> QED BY <1>1, <1>2, <1>6, <1>7, <1>8, StepKeeps DEF server, QueueTypes

\* One drain changes, and the lock does not.
LEMMA DrainMoves ==
  ASSUME QueueInv, NEW t \in Tab, NEW e \in Drain, drain' = [drain EXCEPT ![t] = e], lock' = lock
  PROVE  /\ drain' \in [Tab -> Drain] /\ drain'[t] = e
         /\ \A u \in Tab \ {t} : Goes(u)
<1>1. drain' \in [Tab -> Drain] /\ drain'[t] = e /\ \A u \in Tab \ {t} : drain'[u] = drain[u]
  BY DEF QueueInv, QueueTypes
<1>2. \A u \in Tab : drain[u].pc \in Busy => lock = u
  BY DEF QueueInv, DrainOK
<1> QED BY <1>1, <1>2 DEF Goes

LEMMA NextRowKeeps ==
  ASSUME QueueInv, NEW t \in Tab, drain[t].pc \in Busy, drain[t].rows # <<>>,
         drain' = NextRow(t), lock' = lock,
         \A i \in DOMAIN queue' : queue'[i].status = "pending" => queue'[i].w # Head(drain[t].rows).w
  PROVE  drain' \in [Tab -> Drain] /\ DrainGoesOn(t) /\ \A u \in Tab \ {t} : Goes(u)
<1>1. drain[t] \in Drain /\ drain[t].rows \in Seq(Row) /\ lock = t
  BY DEF QueueInv, QueueTypes, Drain, DrainOK
<1>2. PICK rows \in Seq(Row) : rows = drain[t].rows
  BY <1>1
<1>3. Tail(rows) \in Seq(Row)
  BY <1>2
<1>4. PICK e : e = [drain[t] EXCEPT !.pc = "row", !.rows = Tail(rows), !.first = FALSE, !.reply = "ok"]
  OBVIOUS
<1>5. e \in Drain /\ e.pc = "row" /\ e.rows = Tail(rows)
  BY <1>1, <1>3, <1>4 DEF Drain, Replies
<1>6. drain' = [drain EXCEPT ![t] = e]
  BY <1>2, <1>4 DEF NextRow
<1>7. drain' \in [Tab -> Drain] /\ drain'[t] = e /\ \A u \in Tab \ {t} : Goes(u)
  BY <1>5, <1>6, DrainMoves
<1>8. DrainGoesOn(t)
  BY <1>1, <1>2, <1>5, <1>7 DEF DrainGoesOn, Continues
<1> QED BY <1>7, <1>8

LEMMA TakeLockKeeps ==
  ASSUME QueueInv, NEW t \in Tab, TakeLock(t)
  PROVE  QueueInv'
<1>1. QueueTypes /\ lock = NoTab /\ UNCHANGED <<server, online, epoch, me, write>>
  BY DEF TakeLock, QueueInv
<1>2. CASE Return(t, queue, FALSE)
  BY <1>1, <1>2, ReturnKeeps
<1>3. CASE /\ PendingRows # <<>> /\ lock' = t /\ UNCHANGED <<queue, tab>>
           /\ drain' = [drain EXCEPT ![t] = [drain[t] EXCEPT !.pc = "me", !.rows = PendingRows,
                                                             !.first = TRUE, !.stale = FALSE]]
  <2>1. PICK rows : rows = PendingRows
    OBVIOUS
  <2>2. /\ rows \in Seq(Row) /\ rows # <<>> /\ Ordered(rows)
        /\ \A k \in DOMAIN rows : \E i \in DOMAIN queue : rows[k] = queue[i]
    BY <1>1, <1>3, <2>1, PendingOrdered DEF QueueInv
  <2>3. PICK e : e = [drain[t] EXCEPT !.pc = "me", !.rows = rows, !.first = TRUE, !.stale = FALSE]
    OBVIOUS
  <2>4. e \in Drain /\ e.pc = "me" /\ e.rows = rows
    BY <1>1, <2>2, <2>3 DEF Drain, QueueTypes
  <2>5. drain' \in [Tab -> Drain] /\ drain'[t] = e /\ \A u \in Tab \ {t} : drain'[u] = drain[u]
    BY <1>1, <1>3, <2>1, <2>3, <2>4 DEF QueueTypes
  <2>6. QueueTypes'
    BY <1>1, <1>3, <2>5 DEF QueueTypes, server
  <2>7. \A r : Held(r)' <=> Held(r)
    BY <1>1 DEF Held
  <2>8. RowsApart' /\ (\A w \in Write : WriteOK(w)') /\ \A i \in DOMAIN queue' : Held(queue[i])'
    <3>1. RowsApart' /\ \A i \in DOMAIN queue' : Held(queue[i])'
      BY <1>3, <2>7 DEF QueueInv, RowsApart
    <3>2. \A w \in Write : WriteOK(w)'
      BY <1>1 DEF QueueInv, WriteOK, Took, server
    <3> QED BY <3>1, <3>2
  <2>9. DrainOK(t)'
    <3>1. Ordered(rows)'
      BY <1>3, <2>2 DEF Ordered
    <3>2. \A k \in DOMAIN rows : Held(rows[k])'
      BY <2>2, <2>7 DEF QueueInv
    <3> QED BY <1>3, <2>2, <2>4, <2>5, <3>1, <3>2 DEF DrainOK
  <2>10. ASSUME NEW u \in Tab \ {t} PROVE DrainOK(u)'
    <3>1. drain'[u] = drain[u] /\ drain[u].pc \notin Busy /\ DrainOK(u)
      BY <1>1, <2>5, Names DEF QueueInv, DrainOK
    <3>2. drain[u].pc \notin {"me", "sent", "reply"}
      BY <3>1 DEF Busy
    <3>3. \A k \in DOMAIN drain[u].rows : Held(drain[u].rows[k])'
      BY <3>1, <2>7 DEF DrainOK
    <3> QED BY <3>1, <3>2, <3>3 DEF DrainOK
  <2> QED BY <2>6, <2>8, <2>9, <2>10 DEF QueueInv
<1> QED BY <1>2, <1>3 DEF TakeLock

LEMMA WhoAmIKeeps ==
  ASSUME QueueInv, NEW t \in Tab, WhoAmI(t)
  PROVE  QueueInv'
<1>1. /\ QueueTypes /\ drain[t].pc = "me" /\ lock = t /\ drain[t] \in Drain
      /\ UNCHANGED <<server, online, epoch, me, write>>
  BY DEF WhoAmI, QueueInv, QueueTypes, DrainOK, Busy
<1>2. CASE Return(t, queue, TRUE)
  BY <1>1, <1>2, ReturnKeeps
<1>3. CASE /\ drain' = [drain EXCEPT ![t].pc = "row", ![t].as = session]
           /\ UNCHANGED <<queue, tab, lock>>
  <2>1. PICK e : e = [drain[t] EXCEPT !.pc = "row", !.as = session]
    OBVIOUS
  <2>2. e \in Drain /\ e.pc = "row" /\ e.rows = drain[t].rows
    BY <1>1, <2>1 DEF Drain, QueueTypes
  <2>3. drain' = [drain EXCEPT ![t] = e]
    BY <1>1, <1>3, <2>1 DEF QueueTypes
  <2>4. drain' \in [Tab -> Drain] /\ drain'[t] = e /\ \A u \in Tab \ {t} : Goes(u)
    BY <1>3, <2>2, <2>3, DrainMoves
  <2>5. DrainGoesOn(t)
    BY <1>1, <1>3, <2>2, <2>4 DEF DrainGoesOn, Continues, Busy
  <2> QED BY <1>1, <1>3, <2>4, <2>5, StepKeeps DEF server, QueueTypes
<1> QED BY <1>2, <1>3 DEF WhoAmI

LEMMA WhoAmIFailsKeeps ==
  ASSUME QueueInv, NEW t \in Tab, WhoAmIFails(t)
  PROVE  QueueInv'
<1>1. /\ QueueTypes /\ lock = t /\ UNCHANGED <<server, online, epoch, me, write>>
      /\ Return(t, Backoff(Head(drain[t].rows).w), FALSE)
  BY DEF WhoAmIFails, QueueInv, DrainOK, Busy
<1>2. PICK w : w = Head(drain[t].rows).w
  OBVIOUS
<1>3. Backoff(w) \in Seq(Row) /\ Thinned(Backoff(w))
  BY <1>1, BackoffThins
<1> QED BY <1>1, <1>2, <1>3, ReturnKeeps

LEMMA DrainRowKeeps ==
  ASSUME QueueInv, NEW t \in Tab, DrainRow(t)
  PROVE  QueueInv'
<1>1. /\ QueueTypes /\ drain[t].pc = "row" /\ lock = t /\ drain[t] \in Drain
      /\ UNCHANGED <<server, online, epoch, me, write>>
  BY DEF DrainRow, QueueInv, QueueTypes, DrainOK, Busy
<1>2. CASE Return(t, queue, FALSE)
  BY <1>1, <1>2, ReturnKeeps
<1>3. PICK w : w = Head(drain[t].rows).w
  OBVIOUS
<1>4. CASE ~Return(t, queue, FALSE)
  <2>1. /\ drain[t].rows # <<>> /\ lock' = lock /\ tab' = [tab EXCEPT ![t].key = KeyOf(t)]
        /\ \/ queue' = Fail(w) /\ drain' = NextRow(t)
           \/ queue' = Remove(w) /\ drain' = NextRow(t)
           \/ drain' = [drain EXCEPT ![t].pc = "sent"] /\ UNCHANGED queue
    BY <1>3, <1>4 DEF DrainRow
  <2>2. tab' \in [Tab -> Page]
    <3>1. PICK k : k = KeyOf(t)
      OBVIOUS
    <3>2. k \in Key \cup {NoKey} /\ tab \in [Tab -> Page]
      BY <1>1, <3>1 DEF KeyOf, Page, QueueTypes
    <3>3. tab' = [tab EXCEPT ![t] = [tab[t] EXCEPT !.key = k]]
      BY <2>1, <3>1, <3>2
    <3>4. [tab[t] EXCEPT !.key = k] \in Page
      BY <3>2, PageKinds
    <3> QED BY <3>2, <3>3, <3>4
  <2>3. CASE \/ queue' = Fail(w) /\ drain' = NextRow(t)
             \/ queue' = Remove(w) /\ drain' = NextRow(t)
    <3>1. queue' \in Seq(Row) /\ Thinned(queue')
      BY <1>1, <2>3, FailThins, RemoveThins
    <3>2. \A i \in DOMAIN queue' : queue'[i].status = "pending" => queue'[i].w # w
      BY <1>1, <2>3, FailThins, RemoveThins
    <3>3. drain[t].pc \in Busy
      BY <1>1 DEF Busy
    <3>4. drain' \in [Tab -> Drain] /\ DrainGoesOn(t) /\ \A u \in Tab \ {t} : Goes(u)
      BY <1>3, <2>1, <2>3, <3>2, <3>3, NextRowKeeps
    <3> QED BY <1>1, <2>1, <2>2, <3>1, <3>4, StepKeeps DEF server, QueueTypes
  <2>4. CASE drain' = [drain EXCEPT ![t].pc = "sent"] /\ UNCHANGED queue
    <3>1. PICK e : e = [drain[t] EXCEPT !.pc = "sent"]
      OBVIOUS
    <3>2. e \in Drain /\ e.pc = "sent" /\ e.rows = drain[t].rows
      BY <1>1, <3>1 DEF Drain
    <3>3. drain' = [drain EXCEPT ![t] = e]
      BY <1>1, <2>4, <3>1 DEF QueueTypes
    <3>4. drain' \in [Tab -> Drain] /\ drain'[t] = e /\ \A u \in Tab \ {t} : Goes(u)
      BY <2>1, <3>2, <3>3, DrainMoves
    <3>5. DrainGoesOn(t)
      BY <1>1, <2>1, <3>2, <3>4 DEF DrainGoesOn, Continues, Busy
    <3> QED BY <1>1, <2>1, <2>2, <2>4, <3>4, <3>5, StepKeeps DEF server, QueueTypes
  <2> QED BY <2>1, <2>3, <2>4
<1> QED BY <1>2, <1>4

\* The row a drain has at its head is of a write.
LEMMA HeadIsWrite ==
  ASSUME QueueInv, NEW t \in Tab, drain[t].pc \in {"sent", "reply"}
  PROVE  /\ drain[t].rows # <<>> /\ drain[t].rows \in Seq(Row) /\ Head(drain[t].rows) \in Row
         /\ Head(drain[t].rows).w \in Write /\ lock = t /\ Held(Head(drain[t].rows))
         /\ Head(drain[t].rows) = drain[t].rows[1] /\ 1 \in DOMAIN drain[t].rows
<1>1. /\ drain[t].rows # <<>> /\ drain[t].rows \in Seq(Row) /\ lock = t
      /\ \A k \in DOMAIN drain[t].rows : Held(drain[t].rows[k])
  BY DEF QueueInv, QueueTypes, Drain, DrainOK, Busy
<1>2. PICK rows \in Seq(Row) : rows = drain[t].rows
  BY <1>1
<1>3. rows # <<>> => Head(rows) \in Row /\ Head(rows) = rows[1] /\ 1 \in DOMAIN rows
  BY <1>2
<1> QED BY <1>1, <1>2, <1>3 DEF Row

LEMMA ServeRowKeeps ==
  ASSUME QueueInv, NEW t \in Tab, NEW reply \in Replies, ServeRow(t, reply)
  PROVE  QueueInv'
<1>1. PICK r : r = Head(drain[t].rows)
  OBVIOUS
<1>2. /\ QueueTypes /\ drain[t].pc = "sent" /\ lock = t /\ drain[t] \in Drain
      /\ drain[t].rows # <<>> /\ r.w \in Write /\ Serve(r.w, r.owner, reply)
      /\ UNCHANGED <<online, queue, epoch, me, tab, lock, write>>
      /\ drain' = [drain EXCEPT ![t].pc = "reply", ![t].reply = reply]
  BY <1>1, HeadIsWrite DEF ServeRow, QueueInv, QueueTypes
<1>3. /\ made' \in [Write -> 0..2] /\ UNCHANGED <<session, moved>>
      /\ \A v \in Write : Took(v) => Took(v)'
      /\ reply \in {"ok", "409"} => Took(r.w)'
  BY <1>2, ServeSays
<1>4. PICK e : e = [drain[t] EXCEPT !.pc = "reply", !.reply = reply]
  OBVIOUS
<1>5. e \in Drain /\ e.pc = "reply" /\ e.reply = reply /\ e.rows = drain[t].rows
  BY <1>2, <1>4 DEF Drain
<1>6. drain' = [drain EXCEPT ![t] = e]
  BY <1>2, <1>4 DEF QueueTypes
<1>7. drain' \in [Tab -> Drain] /\ drain'[t] = e /\ \A u \in Tab \ {t} : Goes(u)
  BY <1>2, <1>5, <1>6, DrainMoves
<1>8. DrainGoesOn(t)
  <2>1. e.reply \in {"ok", "409"} => Took(Head(drain[t].rows).w)'
    <3>1. Head(drain'[t].rows).w = r.w
      BY <1>1, <1>5, <1>7
    <3> QED BY <1>3, <1>5, <3>1 DEF Took
  <2> QED BY <1>2, <1>5, <1>7, <2>1 DEF DrainGoesOn, Continues, Busy
<1>9. \A u \in Tab : DrainGoesOn(u)
  BY <1>3, <1>7, <1>8, GoesOn
<1>10. WritesGoOn /\ \A w \in Write : WriteOK(w)'
  BY <1>2, <1>3, WritesKeep
<1>11. QueueTypes' /\ Thinned(queue')
  BY <1>2, <1>3, <1>7, QueueThins DEF QueueTypes, Thinned
<1> QED BY <1>9, <1>10, <1>11, QueueKeeps

\* A row that is gone from the drain, failed or removed.
LEMMA ReactKeeps ==
  ASSUME QueueInv, NEW t \in Tab, React(t)
  PROVE  QueueInv'
<1>1. PICK w : w = Head(drain[t].rows).w
  OBVIOUS
<1> DEFINE reply == drain[t].reply
<1>2. /\ QueueTypes /\ drain[t].pc = "reply" /\ drain[t].pc \in Busy /\ lock = t /\ drain[t] \in Drain
      /\ drain[t].rows # <<>> /\ w \in Write
      /\ UNCHANGED <<server, online, epoch, me>>
      /\ write' = IF reply \in Finished THEN Ended(w, "sent") ELSE write
  BY <1>1, HeadIsWrite DEF React, QueueInv, QueueTypes, Busy
<1>3. /\ Backoff(w) \in Seq(Row) /\ Thinned(Backoff(w))
      /\ Remove(w) \in Seq(Row) /\ Thinned(Remove(w))
      /\ \A i \in DOMAIN Remove(w) : Remove(w)[i].w # w
      /\ Fail(w) \in Seq(Row) /\ Thinned(Fail(w))
      /\ \A i \in DOMAIN Fail(w) : Fail(w)[i].status = "pending" => Fail(w)[i].w # w
  BY <1>2, BackoffThins, RemoveThins, FailThins
<1>4. CASE reply \in {"401", "later"}
  <2>1. UNCHANGED write
    BY <1>2, <1>4 DEF Finished
  <2>2. \/ Return(t, queue, TRUE)
        \/ Return(t, Backoff(w), FALSE)
    <3>1. CASE reply = "401"
      BY <3>1 DEF React, Retried, Finished
    <3>2. CASE reply = "later"
      BY <1>1, <3>2 DEF React, Retried, Finished
    <3> QED BY <1>4, <3>1, <3>2
  <2> QED BY <1>2, <1>3, <2>1, <2>2, ReturnKeeps
<1>5. CASE reply \notin {"401", "later"}
  <2>1. /\ \/ reply \in Finished \cup {"412"} /\ queue' = Remove(w)
           \/ reply \notin Finished \cup {"412"} /\ queue' = Fail(w)
        /\ drain' = NextRow(t) /\ UNCHANGED <<tab, lock>>
    BY <1>1, <1>5 DEF React, Retried, Finished
  <2>2. queue' \in Seq(Row) /\ Thinned(queue')
    BY <1>3, <2>1
  <2>3. \A i \in DOMAIN queue' : queue'[i].status = "pending" => queue'[i].w # w
    BY <1>3, <2>1
  <2>4. drain' \in [Tab -> Drain] /\ DrainGoesOn(t) /\ \A u \in Tab \ {t} : Goes(u)
    BY <1>1, <1>2, <2>1, <2>3, NextRowKeeps
  <2>5. CASE reply \notin Finished
    BY <1>2, <2>1, <2>2, <2>4, <2>5, StepKeeps DEF server, QueueTypes
  <2>6. CASE reply \in Finished
    <3>1. PICK p : p = [NoWrite EXCEPT !.state = "sent"]
      OBVIOUS
    <3>2. p \in Perform /\ p.state = "sent"
      BY <3>1, Fresh DEF Perform
    <3>3. write' = [write EXCEPT ![w] = p]
      BY <1>2, <2>6, <3>1 DEF Ended
    <3>4. write' \in [Write -> Perform] /\ write'[w] = p /\ \A v \in Write \ {w} : write'[v] = write[v]
      BY <1>2, <3>2, <3>3 DEF QueueTypes
    <3>5. WritesGoOn
      BY <3>2, <3>4 DEF WritesGoOn
    <3>6. Took(w)
      BY <1>1, <1>2, <2>6 DEF QueueInv, DrainOK, Finished
    <3>7. \A v \in Write : Took(v) => Took(v)'
      BY <1>2 DEF Took, server
    <3>8. ASSUME NEW v \in Write PROVE WriteOK(v)'
      <4>1. CASE v = w
        BY <4>1, <3>2, <3>4, <3>6, <3>7 DEF WriteOK, Unsettled
      <4>2. CASE v # w
        BY <4>2, <3>4, <3>7 DEF QueueInv, WriteOK
      <4> QED BY <4>1, <4>2
    <3>9. \A u \in Tab : DrainGoesOn(u)
      BY <2>4, <3>7, GoesOn
    <3>10. QueueTypes'
      BY <1>2, <2>1, <2>2, <2>4, <3>4 DEF QueueTypes, server
    <3> QED BY <2>2, <3>5, <3>8, <3>9, <3>10, QueueKeeps
  <2> QED BY <2>5, <2>6
<1> QED BY <1>4, <1>5

LEMMA DrainStepKeeps ==
  ASSUME QueueInv, NEW t \in Tab, DrainStep(t)
  PROVE  QueueInv'
<1>1. CASE \E reply \in Replies : ServeRow(t, reply)
  BY <1>1, ServeRowKeeps
<1> QED BY <1>1, TakeLockKeeps, WhoAmIKeeps, WhoAmIFailsKeeps, DrainRowKeeps, ReactKeeps DEF DrainStep
-----------------------------------------------------------------------------
(* The invariant, and who is served.                                         *)

LEMMA QueueInvInit == Init => QueueInv
<1> SUFFICES ASSUME Init PROVE QueueInv
  OBVIOUS
<1>1. QueueTypes
  <2>1. epoch \in Key
    BY QueueAssumption DEF Init, Key
  <2>2. made \in [Write -> 0..2] /\ queue \in Seq(Row)
    BY DEF Init
  <2> QED BY <2>1, <2>2, Names, Fresh DEF Init, QueueTypes
<1>2. RowsApart /\ \A i \in DOMAIN queue : Held(queue[i])
  BY DEF Init, RowsApart
<1>3. \A w \in Write : WriteOK(w)
  BY DEF Init, NoWrite, WriteOK, Unsettled
<1>4. \A t \in Tab : DrainOK(t)
  BY DEF Init, NoDrain, DrainOK, Busy
<1> QED BY <1>1, <1>2, <1>3, <1>4 DEF QueueInv

LEMMA QueueInvNext == QueueInv /\ [Next]_vars => QueueInv'
<1> SUFFICES ASSUME QueueInv, [Next]_vars PROVE QueueInv'
  OBVIOUS
<1>1. CASE Next
  BY <1>1, DrainStepKeeps, PageStepKeeps, WriteStepKeeps, WorldKeeps DEF Next
<1>2. CASE UNCHANGED vars
  <2>1. QueueTypes /\ UNCHANGED <<made, moved, session, epoch, me, lock, tab, queue, write, drain>>
    BY <1>2 DEF QueueInv, vars, server
  <2>2. drain' \in [Tab -> Drain] /\ \A u \in Tab : Goes(u)
    BY <2>1, DrainsRest
  <2> QED BY <2>1, <2>2, StepKeeps DEF QueueTypes
<1> QED BY <1>1, <1>2

LEMMA QueueInvAlways == Spec => []QueueInv
BY QueueInvInit, QueueInvNext, PTL DEF Spec

\* The server carries out what perform() or a drain sends, and nothing else.
LEMMA OnlySent ==
  ASSUME [Next]_vars, made' # made
  PROVE  \/ \E w \in Write, reply \in Replies : ServeOnline(w, reply)
         \/ \E t \in Tab, reply \in Replies : ServeRow(t, reply)
<1>1. ~UNCHANGED vars
  BY DEF vars, server
<1>2. ASSUME NEW t \in Tab, DrainStep(t) PROVE \E reply \in Replies : ServeRow(t, reply)
  BY <1>2 DEF DrainStep, TakeLock, WhoAmI, WhoAmIFails, DrainRow, React, server
<1>3. ASSUME NEW t \in Tab, PageStep(t) PROVE FALSE
  BY <1>3 DEF PageStep, Kick, TimerFires, Visit, Run, ClearMarks, ReadMe, ReadMeFails, SignOut,
              Wiped, Hear, Reload, SignIn, server
<1>4. ASSUME NEW w \in Write, WriteStep(w) PROVE \E reply \in Replies : ServeOnline(w, reply)
  BY <1>4 DEF WriteStep, Make, LeaveLane, Settle, Add, Elapse, server
<1>5. ~World
  BY DEF World, Expire, GoOffline, GoOnline, PartnerMoves, server
<1> QED BY <1>1, <1>2, <1>3, <1>4, <1>5 DEF Next

\* One write at a time, for the account of the session and the one expected.
LEMMA OneServed ==
  ASSUME QueueInv, [Next]_vars, NEW w \in Write, made'[w] # made[w]
  PROVE  \/ write[w].state = "sending"
         \/ \E t \in Tab : LET r == Head(drain[t].rows)
                           IN  drain[t].pc = "sent" /\ w = r.w /\ r.owner = session
<1>1. made \in [Write -> 0..2] /\ made' # made
  BY DEF QueueInv, QueueTypes
<1>2. ASSUME NEW v \in Write, NEW expected, NEW reply \in Replies, Serve(v, expected, reply)
      PROVE  v = w /\ expected \in {NoAccount, session}
  <2>1. Carry(v, reply) /\ expected \in {NoAccount, session}
    BY <1>1, <1>2 DEF Serve
  <2>2. made' = [made EXCEPT ![v] = IF made[v] < 2 THEN made[v] + 1 ELSE 2]
    BY <1>1, <2>1 DEF Carry
  <2> QED BY <1>1, <2>1, <2>2
<1>3. ASSUME NEW v \in Write, NEW reply \in Replies, ServeOnline(v, reply)
      PROVE  write[w].state = "sending"
  BY <1>2, <1>3 DEF ServeOnline
<1>4. ASSUME NEW t \in Tab, NEW reply \in Replies, ServeRow(t, reply)
      PROVE  LET r == Head(drain[t].rows)
             IN  drain[t].pc = "sent" /\ w = r.w /\ r.owner = session
  <2>1. PICK r : r = Head(drain[t].rows)
    OBVIOUS
  <2>2. drain[t].pc = "sent" /\ r \in Row /\ r.w \in Write /\ Serve(r.w, r.owner, reply)
    BY <1>4, <2>1, HeadIsWrite DEF ServeRow
  <2>3. w = r.w /\ r.owner \in {NoAccount, session}
    BY <1>2, <2>2
  <2>4. r.owner # NoAccount
    BY <2>2, Names DEF Row
  <2> QED BY <2>1, <2>2, <2>3, <2>4
<1> QED BY <1>1, <1>3, <1>4, OnlySent

-----------------------------------------------------------------------------

(* replay.ts sends a row with the account its owner stamp names, and the      *)
(* server compares: whatever happens to the cookie between a drain's look at  *)
(* /auth/me and its requests, in however many tabs, a replayed write is       *)
(* carried out only for the account that made it.                             *)
THEOREM ReplaysAreTheOwners == Spec => ReplayedForItsOwner
<1>1. QueueInv /\ [Next]_vars =>
        [\A w \in Write : made'[w] # made[w] /\ write[w].state = "queued" => session = write[w].owner]_vars
  <2> SUFFICES ASSUME QueueInv, [Next]_vars, NEW w \in Write, made'[w] # made[w],
                      write[w].state = "queued"
               PROVE  session = write[w].owner
    OBVIOUS
  <2>1. PICK t \in Tab : /\ drain[t].pc = "sent" /\ w = Head(drain[t].rows).w
                         /\ Head(drain[t].rows).owner = session
    BY OneServed
  <2> QED BY <2>1, HeadIsWrite DEF Held
<1> QED BY <1>1, QueueInvAlways, PTL DEF Spec, ReplayedForItsOwner

(* The rows leave in the order of the queue: nothing is carried out while a   *)
(* row queued before it waits, whatever the backoffs, forced replays, tabs    *)
(* that take the lock over, reloads and wipes.                                *)
THEOREM RowsGoInOrder == Spec => QueueOrder
<1>1. QueueInv /\ [Next]_vars =>
        [\A v, w \in Write : made'[w] # made[w] => ~WaitsBefore(v, w)]_vars
  <2> SUFFICES ASSUME QueueInv, [Next]_vars, NEW v \in Write, NEW w \in Write, made'[w] # made[w],
                      NEW i \in DOMAIN queue, NEW j \in DOMAIN queue,
                      i < j, queue[i].w = v, queue[i].status = "pending", queue[j].w = w
               PROVE  FALSE
    BY DEF WaitsBefore
  <2>1. CASE write[w].state = "sending"
    BY <2>1 DEF QueueInv, Held
  <2>2. ASSUME NEW t \in Tab, drain[t].pc = "sent", w = Head(drain[t].rows).w
        PROVE  FALSE
    <3>1. PICK rows : rows = drain[t].rows
      OBVIOUS
    <3>2. 1 \in DOMAIN rows /\ w = rows[1].w /\ Ordered(rows)
      BY <2>2, <3>1, HeadIsWrite DEF QueueInv, DrainOK, Busy
    <3>3. \E m \in 1..(1 - 1) : rows[m].w = queue[i].w
      BY <3>2 DEF Ordered
    <3> QED BY <3>3
  <2> QED BY <2>1, <2>2, OneServed
<1> QED BY <1>1, QueueInvAlways, PTL DEF Spec, QueueOrder

(* A write that leaves the queue as sent has taken effect: neither a lost     *)
(* reply nor a refusal, an expired session or a drain taken over removes the  *)
(* row of a write that the server has not carried out.                        *)
THEOREM SentWritesTook == Spec => []SentTookEffect
<1>1. QueueInv => SentTookEffect
  BY DEF QueueInv, WriteOK, Took, SentTookEffect
<1> QED BY <1>1, QueueInvAlways, PTL

(* However often a reply is lost, a tab reloaded or the replay taken over, a  *)
(* create that carries a client_id takes effect once.  (A create without one, *)
(* POST /recurring, may take effect twice: it is not meant.)                  *)
THEOREM CreatesTakeEffectOnce == (\A w \in Write : Kind[w] # "item") => (Spec => []CreatedOnce)
<1> SUFFICES ASSUME \A w \in Write : Kind[w] # "item" PROVE Spec => []CreatedOnce
  OBVIOUS
<1>1. Init => CreatedOnce
  BY DEF Init, CreatedOnce
<1>2. QueueInv /\ [Next]_vars /\ CreatedOnce => CreatedOnce'
  <2> SUFFICES ASSUME QueueInv, [Next]_vars, CreatedOnce, NEW w \in Write, Kind[w] = "create"
               PROVE  made'[w] <= 1
    BY DEF CreatedOnce
  <2>1. made \in [Write -> 0..2] /\ made[w] <= 1
    BY DEF QueueInv, QueueTypes, CreatedOnce
  <2>2. CASE made' = made
    BY <2>1, <2>2
  <2>3. ASSUME NEW v \in Write, NEW expected, NEW reply, Serve(v, expected, reply)
        PROVE  made'[w] <= 1
    <3>1. CASE UNCHANGED made
      BY <2>1, <3>1
    <3>2. CASE Takes(v) /\ made' = [made EXCEPT ![v] = IF made[v] < 2 THEN made[v] + 1 ELSE 2]
      BY <2>1, <3>2 DEF Takes
    <3> QED BY <2>3, <3>1, <3>2 DEF Serve, Carry
  <2>4. CASE \E v \in Write, reply \in Replies : ServeOnline(v, reply)
    BY <2>3, <2>4 DEF ServeOnline
  <2>5. CASE \E t \in Tab, reply \in Replies : ServeRow(t, reply)
    BY <2>3, <2>5, HeadIsWrite DEF ServeRow
  <2> QED BY <2>2, <2>4, <2>5, OnlySent
<1> QED BY <1>1, <1>2, QueueInvAlways, PTL DEF Spec
=============================================================================
