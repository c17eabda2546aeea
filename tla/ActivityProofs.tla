--------------------------- MODULE ActivityProofs ---------------------------
(***************************************************************************)
(* Theorems about the changes made from Activity: Bulk on the server, for  *)
(* any number of transactions, changes, edits and requests at a time, and  *)
(* ActivityRows and ActivityBulk in the app, for any number of rows,       *)
(* writes, answers and faults.                                             *)
(***************************************************************************)
EXTENDS Bulk, ActivityBulk, ActivityRows, DataLemmas

RowsSet == UNION {[S -> RowSet] : S \in SUBSET Txn}
BatchRow == [old : RowSet, new : RowSet, follows : BOOLEAN, oldEntry : Member \cup {None}, was : Nat]
BatchRows == UNION {[S -> BatchRow] : S \in SUBSET Txn}
BatchRec == [fields : SUBSET Fields, rows : BatchRows, moved : BOOLEAN,
             oldItem : Bucket \cup {None}, newItem : Bucket \cup {None},
             undone : BOOLEAN, old : BOOLEAN]
ApplyReq == [pc : {"apply"}, locks : SUBSET Txn, changed : SUBSET Txn, ch : ChangeSet,
             moves : BOOLEAN, item : Bucket \cup {None}]
UndoReq == [pc : {"undo"}, batch : Nat, locks : SUBSET Txn, restores : SUBSET Txn, item : BOOLEAN]
EditReq == [pc : {"edit"}, txn : Txn, was : RowSet, new : RowSet]
DropReq == [pc : {"drop"}, bucket : Bucket]
ReqSet == {Open} \cup ApplyReq \cup UndoReq \cup EditReq \cup DropReq

BulkTypes ==
    /\ rows \in RowsSet
    /\ entry \in [Txn -> [linked : BOOLEAN, payer : Member \cup {None}]]
    /\ item \in Bucket \cup {None} /\ batches \in Seq(BatchRec)
    /\ breq \in [Req -> ReqSet]
    /\ writer \in [Txn -> Nat] /\ crossed \in BOOLEAN

\* Two rows that differ at most in whether an entry of the item is linked.
Same(x, y) ==
    /\ x.live = y.live /\ x.type = y.type /\ x.bucket = y.bucket /\ x.category = y.category
    /\ x.payer = y.payer /\ x.mode = y.mode /\ x.method = y.method
    /\ x.covered = y.covered /\ x.litres = y.litres /\ x.take = y.take

\* A batch holds rows that were live and in order, and leads back to them; the
\* batch whose values such a row held is there too.
BatchRowOK(b, t) ==
    LET R == batches[b].rows[t]
    IN  /\ R.old.live /\ TakeKept(R.old) /\ (~crossed => SharesKept(R.old))
        /\ Restored(R.new, R.old, batches[b].fields) = R.old
        /\ t \in DOMAIN rows => R.old.type = rows[t].type
        /\ R.was # 0 => /\ R.was \in Batch /\ t \in DOMAIN batches[R.was].rows
                        /\ Same(R.old, batches[R.was].rows[t].new)
BatchesOK == \A b \in Batch : \A t \in DOMAIN batches[b].rows : BatchRowOK(b, t)

\* A row holds the values of the batch that wrote it last.
WriterOK ==
    \A t \in DOMAIN rows : writer[t] # 0 =>
        /\ writer[t] \in Batch /\ t \in DOMAIN batches[writer[t]].rows
        /\ Same(rows[t], batches[writer[t]].rows[t].new)

\* What was found under the locks still holds.
ApplyOK(q) ==
    /\ q.changed \subseteq q.locks /\ q.locks \subseteq DOMAIN rows
    /\ \A t \in q.changed : ~Skipped(rows[t], q.ch)

Exact(b, t) ==
    /\ writer[t] = b /\ ~crossed
    /\ \A f \in batches[b].fields : batches[b].rows[t].old[f] \notin gone
    /\ batches[b].rows[t].old.bucket = None => rows[t].item \/ rows[t].type = "income"
Restorable(b, t) ==
    LET R == batches[b].rows[t]
        fields == batches[b].fields
    IN  /\ rows[t].live /\ Holds(rows[t], R.new, fields) /\ ~BucketLost(rows[t], R.old, fields)
        /\ ~TakeLost(rows[t], R.old, fields) /\ ~SharesLost(rows[t], R.old, fields)
UndoOK(q) ==
    /\ q.batch \in Batch /\ q.locks = DOMAIN batches[q.batch].rows \cap DOMAIN rows
    /\ q.restores \subseteq q.locks
    /\ \A t \in q.restores : Restorable(q.batch, t)
    /\ \A t \in q.locks : Exact(q.batch, t) => t \in q.restores

\* What an edit decided on, and what can have changed under it since.
EditOK(q) ==
    /\ q.new.take \in {None, q.was.take}
    /\ q.new.take # None => /\ q.new.mode = q.was.mode /\ q.new.payer = q.was.payer
                            /\ q.new.method = q.was.method
    /\ q.new.bucket = None /\ q.was.type # "income" => q.was.bucket = None
    /\ SharesKept(q.new) /\ q.new.type = q.was.type
    /\ q.txn \in DOMAIN rows =>
          /\ rows[q.txn].type = q.was.type /\ rows[q.txn].take \in {None, q.was.take}
          /\ ~crossed => /\ q.txn \notin Locked
                         /\ rows[q.txn].mode = q.was.mode /\ rows[q.txn].payer = q.was.payer

RequestOK(q) ==
    /\ q.pc = "apply" => ApplyOK(q)
    /\ q.pc = "undo" => UndoOK(q)
    /\ q.pc = "edit" => EditOK(q)
RequestsOK == \A r \in Req : RequestOK(breq[r])
LocksApart == \A r, o \in Req : r # o => Locks(r) \cap Locks(o) = {}

BulkInv ==
    /\ BulkTypes /\ BatchesOK /\ WriterOK /\ RequestsOK /\ LocksApart
    /\ TakeStays /\ CheckNeverHit /\ OwnShareCovered


-----------------------------------------------------------------------------
(* What a change, an undo and an edit make of a row.                         *)

\* A change that is not refused leaves the row in order, and can be taken back.
LEMMA NewRow ==
  ASSUME NEW row \in RowSet, NEW ch \in ChangeSet, ~Skipped(row, ch), TakeKept(row), Bucketed(row)
  PROVE  /\ New(row, ch) \in RowSet /\ row.live
         /\ TakeKept(New(row, ch)) /\ Bucketed(New(row, ch))
         /\ SharesKept(row) => SharesKept(New(row, ch))
         /\ New(row, ch).type = row.type /\ New(row, ch).take = row.take
         /\ Restored(New(row, ch), row, ch.fields) = row
<1> DEFINE bucket == Takes(row, "bucket", ch)
           category == Takes(row, "category", ch)
           method == Takes(row, "method", ch)
           mode == IF "payer" \in ch.fields THEN ch.mode ELSE row.mode
           payer == IF "payer" \notin ch.fields THEN row.payer
                    ELSE IF ch.mode = "own" THEN None ELSE ch.payer
           new == New(row, ch)
<1>1. new = [row EXCEPT !.bucket = bucket, !.category = category, !.method = method,
                        !.mode = mode, !.payer = payer]
  BY DEF New
<1>2. /\ bucket = IF "bucket" \in ch.fields THEN ch.bucket ELSE row.bucket
      /\ category = IF "category" \in ch.fields THEN ch.category ELSE row.category
      /\ method = IF "method" \in ch.fields THEN ch.method ELSE row.method
  BY DEF Takes
<1>3. /\ bucket \in Bucket \cup {None} /\ category \in Category \cup {None}
      /\ method \in {"card", "cash"} /\ mode \in {"single", "own"} /\ payer \in Member \cup {None}
  BY <1>2 DEF RowSet, ChangeSet
<1> HIDE DEF bucket, category, method, new
<1>4. /\ new \in RowSet /\ new.bucket = bucket /\ new.category = category /\ new.method = method
      /\ new.mode = mode /\ new.payer = payer /\ new.live = row.live /\ new.type = row.type
      /\ new.item = row.item /\ new.covered = row.covered /\ new.litres = row.litres
      /\ new.take = row.take
  <2> HIDE DEF mode, payer
  <2> QED BY <1>1, <1>3 DEF RowSet
<1>5. /\ row.live /\ ~NeedsBucket(row, ch) /\ ~PayerRefused(row, ch) /\ ~MethodRefused(row, ch)
  BY DEF Skipped
<1>6. TakeKept(new)
  <2> SUFFICES ASSUME row.take # None
               PROVE  method = "cash" /\ mode = "single" /\ payer = row.take
    BY <1>4 DEF TakeKept
  <2>1. method = "cash"
    BY <1>2, <1>5 DEF MethodRefused, TakeKept
  <2>2. mode = "single" /\ payer = row.take
    BY <1>5 DEF PayerRefused, TakeKept, ChangeSet
  <2> QED BY <2>1, <2>2
<1>7. Bucketed(new)
  BY <1>2, <1>4, <1>5 DEF Bucketed, NeedsBucket
<1>8. SharesKept(row) => SharesKept(new)
  BY <1>4, <1>5 DEF SharesKept, PayerRefused, OwnShareProblem, RowSet
<1>9. Restored(new, row, ch.fields) = row
  <2>1. Restored(new, row, ch.fields)
          = [new EXCEPT !.bucket = IF "bucket" \in ch.fields THEN row.bucket ELSE new.bucket,
                        !.category = IF "category" \in ch.fields THEN row.category ELSE new.category,
                        !.payer = IF "payer" \in ch.fields THEN row.payer ELSE new.payer,
                        !.mode = IF "payer" \in ch.fields THEN row.mode ELSE new.mode,
                        !.method = IF "method" \in ch.fields THEN row.method ELSE new.method]
    BY DEF Restored
  <2>2. /\ (IF "bucket" \in ch.fields THEN row.bucket ELSE new.bucket) = row.bucket
        /\ (IF "category" \in ch.fields THEN row.category ELSE new.category) = row.category
        /\ (IF "method" \in ch.fields THEN row.method ELSE new.method) = row.method
        /\ (IF "payer" \in ch.fields THEN row.payer ELSE new.payer) = row.payer
        /\ (IF "payer" \in ch.fields THEN row.mode ELSE new.mode) = row.mode
    BY <1>2, <1>4
  <2>3. [new EXCEPT !.bucket = row.bucket, !.category = row.category, !.payer = row.payer,
                    !.mode = row.mode, !.method = row.method] = row
    BY <1>4 DEF RowSet
  <2> QED BY <2>1, <2>2, <2>3
<1> QED BY <1>4, <1>5, <1>6, <1>7, <1>8, <1>9 DEF new

\* What an undo writes, field by field.
LEMMA RestoredFields ==
  ASSUME NEW row \in RowSet, NEW old \in RowSet, NEW fields
  PROVE  LET s == Restored(row, old, fields)
         IN  /\ s \in RowSet
             /\ s.bucket = (IF "bucket" \in fields THEN old.bucket ELSE row.bucket)
             /\ s.category = (IF "category" \in fields THEN old.category ELSE row.category)
             /\ s.payer = (IF "payer" \in fields THEN old.payer ELSE row.payer)
             /\ s.mode = (IF "payer" \in fields THEN old.mode ELSE row.mode)
             /\ s.method = (IF "method" \in fields THEN old.method ELSE row.method)
             /\ s.live = row.live /\ s.type = row.type /\ s.item = row.item
             /\ s.covered = row.covered /\ s.litres = row.litres /\ s.take = row.take
<1> DEFINE bucket == IF "bucket" \in fields THEN old.bucket ELSE row.bucket
           category == IF "category" \in fields THEN old.category ELSE row.category
           payer == IF "payer" \in fields THEN old.payer ELSE row.payer
           mode == IF "payer" \in fields THEN old.mode ELSE row.mode
           method == IF "method" \in fields THEN old.method ELSE row.method
           s == Restored(row, old, fields)
<1>1. s = [row EXCEPT !.bucket = bucket, !.category = category, !.payer = payer,
                      !.mode = mode, !.method = method]
  BY DEF Restored
<1>2. /\ bucket \in Bucket \cup {None} /\ category \in Category \cup {None}
      /\ method \in {"card", "cash"} /\ mode \in {"single", "own"} /\ payer \in Member \cup {None}
  BY DEF RowSet
<1>3. /\ s \in RowSet /\ s.bucket = bucket /\ s.category = category /\ s.payer = payer
      /\ s.mode = mode /\ s.method = method /\ s.live = row.live /\ s.type = row.type
      /\ s.item = row.item /\ s.covered = row.covered /\ s.litres = row.litres /\ s.take = row.take
  <2> HIDE DEF s, bucket, category, payer, mode, method
  <2> QED BY <1>1, <1>2 DEF RowSet
<1> QED BY <1>3

LEMMA RestoredLeaves ==
  ASSUME NEW row \in RowSet, NEW old \in RowSet, NEW fields, Restored(row, old, fields) = old
  PROVE  old.live = row.live /\ old.take = row.take /\ old.covered = row.covered
<1> DEFINE s == Restored(row, old, fields)
<1>1. s.live = row.live /\ s.covered = row.covered /\ s.take = row.take
  BY RestoredFields
<1> QED BY <1>1

\* An undo that is not refused leaves the row in order.
LEMMA RestoredRow ==
  ASSUME NEW row \in RowSet, NEW old \in RowSet, NEW fields, TakeKept(row), Bucketed(row),
         old.type = row.type, ~BucketLost(row, old, fields), ~TakeLost(row, old, fields),
         ~SharesLost(row, old, fields)
  PROVE  /\ TakeKept(Restored(row, old, fields)) /\ Bucketed(Restored(row, old, fields))
         /\ SharesKept(row) /\ SharesKept(old) => SharesKept(Restored(row, old, fields))
<1> DEFINE s == Restored(row, old, fields)
<1>1. /\ s.bucket = (IF "bucket" \in fields THEN old.bucket ELSE row.bucket)
      /\ s.payer = (IF "payer" \in fields THEN old.payer ELSE row.payer)
      /\ s.mode = (IF "payer" \in fields THEN old.mode ELSE row.mode)
      /\ s.method = (IF "method" \in fields THEN old.method ELSE row.method)
      /\ s.live = row.live /\ s.type = row.type /\ s.item = row.item
      /\ s.covered = row.covered /\ s.take = row.take
  BY RestoredFields
<1> HIDE DEF s
<1>2. TakeKept(s)
  BY <1>1 DEF TakeKept, TakeLost, RowSet
<1>3. Bucketed(s)
  BY <1>1 DEF Bucketed, BucketLost
<1>4. SharesKept(row) /\ SharesKept(old) => SharesKept(s)
  BY <1>1 DEF SharesKept, SharesLost, OwnShareProblem, RowSet
<1> QED BY <1>2, <1>3, <1>4 DEF s

\* Where the row still holds what the batch set, it gets back what it held.
LEMMA RestoredSame ==
  ASSUME NEW row \in RowSet, NEW old \in RowSet, NEW new \in RowSet, NEW fields,
         Same(row, new), Restored(new, old, fields) = old
  PROVE  Same(Restored(row, old, fields), old)
<1> DEFINE s == Restored(row, old, fields)
           n == Restored(new, old, fields)
<1>1. /\ s.bucket = (IF "bucket" \in fields THEN old.bucket ELSE row.bucket)
      /\ s.category = (IF "category" \in fields THEN old.category ELSE row.category)
      /\ s.payer = (IF "payer" \in fields THEN old.payer ELSE row.payer)
      /\ s.mode = (IF "payer" \in fields THEN old.mode ELSE row.mode)
      /\ s.method = (IF "method" \in fields THEN old.method ELSE row.method)
      /\ s.live = row.live /\ s.type = row.type
      /\ s.covered = row.covered /\ s.litres = row.litres /\ s.take = row.take
  BY RestoredFields
<1>2. /\ n.bucket = (IF "bucket" \in fields THEN old.bucket ELSE new.bucket)
      /\ n.category = (IF "category" \in fields THEN old.category ELSE new.category)
      /\ n.payer = (IF "payer" \in fields THEN old.payer ELSE new.payer)
      /\ n.mode = (IF "payer" \in fields THEN old.mode ELSE new.mode)
      /\ n.method = (IF "method" \in fields THEN old.method ELSE new.method)
      /\ n.live = new.live /\ n.type = new.type
      /\ n.covered = new.covered /\ n.litres = new.litres /\ n.take = new.take
  BY RestoredFields
<1> HIDE DEF s, n
<1>3. n = old
  BY DEF n
<1>4. Same(s, old)
  BY <1>1, <1>2, <1>3 DEF Same
<1> QED BY <1>4 DEF s

LEMMA SameFacts ==
  /\ \A x : Same(x, x)
  /\ \A x, y : Same(x, y) => Same(y, x)
  /\ \A x, y, z : Same(x, y) /\ Same(y, z) => Same(x, z)
BY DEF Same

LEMMA RowsOpen ==
  /\ \A f \in RowsSet : DOMAIN f \subseteq Txn /\ \A t \in DOMAIN f : f[t] \in RowSet
  /\ \A S \in SUBSET Txn : \A f \in [S -> RowSet] : f \in RowsSet
  /\ \A g \in BatchRows : DOMAIN g \subseteq Txn /\ \A t \in DOMAIN g : g[t] \in BatchRow
  /\ \A S \in SUBSET Txn : \A g \in [S -> BatchRow] : g \in BatchRows
BY DEF RowsSet, BatchRows
-----------------------------------------------------------------------------
(* What a step leaves as it was.                                             *)

\* No batch is taken away, and none changes but for its state.
BatchesStay ==
    /\ Batch \subseteq Batch' /\ DOMAIN rows' \subseteq DOMAIN rows
    /\ \A b \in Batch : batches'[b].rows = batches[b].rows /\ batches'[b].fields = batches[b].fields
    /\ \A t \in DOMAIN rows' : rows'[t].type = rows[t].type
    /\ gone \subseteq gone' /\ (crossed => crossed')

LEMMA BatchRowStays ==
  ASSUME BulkInv, BatchesStay, NEW b \in Batch, NEW t \in DOMAIN batches[b].rows
  PROVE  BatchRowOK(b, t)'
<1> DEFINE R == batches[b].rows[t]
<1>1. BatchRowOK(b, t)
  BY DEF BulkInv, BatchesOK
<1>2. batches'[b].rows[t] = R /\ batches'[b].fields = batches[b].fields
  BY DEF BatchesStay
<1>3. /\ R.old.live /\ TakeKept(R.old) /\ (~crossed => SharesKept(R.old))
      /\ Restored(R.new, R.old, batches[b].fields) = R.old
      /\ t \in DOMAIN rows => R.old.type = rows[t].type
      /\ R.was # 0 => /\ R.was \in Batch /\ t \in DOMAIN batches[R.was].rows
                      /\ Same(R.old, batches[R.was].rows[t].new)
  BY <1>1 DEF BatchRowOK
<1> HIDE DEF R
<1>4. t \in DOMAIN rows' => R.old.type = rows'[t].type
  BY <1>3 DEF BatchesStay
<1>5. R.was # 0 => /\ R.was \in Batch' /\ t \in DOMAIN batches'[R.was].rows
                   /\ Same(R.old, batches'[R.was].rows[t].new)
  BY <1>3 DEF BatchesStay
<1>6. ~crossed' => SharesKept(R.old)
  BY <1>3 DEF BatchesStay
<1> QED BY <1>2, <1>3, <1>4, <1>5, <1>6 DEF BatchRowOK

LEMMA BatchesKeep ==
  ASSUME BulkInv, BatchesStay, Batch' = Batch
  PROVE  BatchesOK'
<1>1. ASSUME NEW b \in Batch', NEW t \in DOMAIN batches'[b].rows PROVE BatchRowOK(b, t)'
  <2>1. b \in Batch /\ t \in DOMAIN batches[b].rows
    BY DEF BatchesStay
  <2> QED BY <2>1, BatchRowStays
<1> QED BY <1>1 DEF BatchesOK

\* A row is written by no batch, or as it was.
LEMMA WritersKeep ==
  ASSUME BulkInv, BatchesStay,
         \A t \in DOMAIN rows' : writer'[t] # 0 => writer'[t] = writer[t] /\ Same(rows'[t], rows[t])
  PROVE  WriterOK'
<1> SUFFICES ASSUME NEW t \in DOMAIN rows', writer'[t] # 0
             PROVE  /\ writer'[t] \in Batch' /\ t \in DOMAIN batches'[writer'[t]].rows
                    /\ Same(rows'[t], batches'[writer'[t]].rows[t].new)
  BY DEF WriterOK, Same
<1>1. writer'[t] = writer[t] /\ Same(rows'[t], rows[t]) /\ t \in DOMAIN rows
  BY DEF BatchesStay
<1>2. /\ writer[t] \in Batch /\ t \in DOMAIN batches[writer[t]].rows
      /\ Same(rows[t], batches[writer[t]].rows[t].new)
  BY <1>1 DEF BulkInv, WriterOK
<1> QED BY <1>1, <1>2, SameFacts DEF BatchesStay

\* The rows that a request holds are left alone by the others.
Keeps(t) == t \in DOMAIN rows' /\ rows'[t] = rows[t] /\ writer'[t] = writer[t]

LEMMA ApplyStays ==
  ASSUME NEW p, ApplyOK(p), \A t \in p.locks : Keeps(t)
  PROVE  ApplyOK(p)'
BY DEF ApplyOK, Keeps

LEMMA UndoStays ==
  ASSUME BulkInv, BatchesStay, NEW p, UndoOK(p), \A t \in p.locks : Keeps(t)
  PROVE  UndoOK(p)'
<1> DEFINE b == p.batch
<1>1. /\ b \in Batch /\ p.locks = DOMAIN batches[b].rows \cap DOMAIN rows
      /\ p.restores \subseteq p.locks
      /\ \A t \in p.restores : Restorable(b, t)
      /\ \A t \in p.locks : Exact(b, t) => t \in p.restores
  BY DEF UndoOK
<1> HIDE DEF b
<1>2. b \in Batch' /\ batches'[b].rows = batches[b].rows /\ batches'[b].fields = batches[b].fields
  BY <1>1 DEF BatchesStay
<1>3. p.locks = DOMAIN batches'[b].rows \cap DOMAIN rows'
  BY <1>1, <1>2 DEF BatchesStay, Keeps
<1>4. ASSUME NEW t \in p.restores PROVE Restorable(b, t)'
  <2>1. rows'[t] = rows[t] /\ Restorable(b, t)
    BY <1>1 DEF Keeps
  <2> QED BY <2>1, <1>2 DEF Restorable
<1>5. ASSUME NEW t \in p.locks, Exact(b, t)' PROVE t \in p.restores
  <2>1. rows'[t] = rows[t] /\ writer'[t] = writer[t]
    BY DEF Keeps
  <2>2. Exact(b, t)
    BY <2>1, <1>2, <1>5 DEF Exact, BatchesStay
  <2> QED BY <2>2, <1>1
<1> QED BY <1>1, <1>2, <1>3, <1>4, <1>5 DEF UndoOK, b

\* An edit relies on no more than the kind of its row, and on nothing where it
\* was overlapped.
EditStays(p) ==
    p.txn \in DOMAIN rows' =>
        /\ rows'[p.txn].take \in {None, rows[p.txn].take}
        /\ ~crossed' => /\ p.txn \notin Locked'
                        /\ rows'[p.txn].mode = rows[p.txn].mode
                        /\ rows'[p.txn].payer = rows[p.txn].payer

LEMMA EditKeeps ==
  ASSUME BulkInv, BatchesStay, NEW p, EditOK(p), EditStays(p)
  PROVE  EditOK(p)'
<1> DEFINE t == p.txn
<1>1. ASSUME t \in DOMAIN rows'
      PROVE  /\ rows'[t].type = p.was.type /\ rows'[t].take \in {None, p.was.take}
             /\ ~crossed' => /\ t \notin Locked'
                             /\ rows'[t].mode = p.was.mode /\ rows'[t].payer = p.was.payer
  BY <1>1 DEF EditOK, EditStays, BatchesStay
<1> HIDE DEF t
<1>2. t = p.txn
  BY DEF t
<1> QED BY <1>1, <1>2 DEF EditOK

LEMMA RequestStays ==
  ASSUME BulkInv, BatchesStay, NEW p, RequestOK(p),
         p.pc \in {"apply", "undo"} => \A t \in p.locks : Keeps(t),
         p.pc = "edit" => EditStays(p)
  PROVE  RequestOK(p)'
<1>1. p.pc = "apply" => ApplyOK(p)'
  BY ApplyStays DEF RequestOK
<1>2. p.pc = "undo" => UndoOK(p)'
  BY UndoStays DEF RequestOK
<1>3. p.pc = "edit" => EditOK(p)'
  BY EditKeeps DEF RequestOK
<1> QED BY <1>1, <1>2, <1>3 DEF RequestOK

\* The requests in Q begin or end, the others go on.
LEMMA OthersKeep ==
  ASSUME BulkInv, BatchesStay, NEW Q \in SUBSET Req,
         \A o \in Req \ Q : /\ breq'[o] = breq[o]
                            /\ \A t \in Locks(o) : Keeps(t)
                            /\ breq[o].pc = "edit" => EditStays(breq[o]),
         \A o \in Q : RequestOK(breq[o])',
         \A o \in Q, s \in Req : o # s => Locks(o)' \cap Locks(s)' = {}
  PROVE  RequestsOK' /\ LocksApart'
<1>1. ASSUME NEW o \in Req \ Q PROVE RequestOK(breq[o])' /\ Locks(o)' = Locks(o)
  <2>1. PICK p : p = breq[o]
    OBVIOUS
  <2>2. RequestOK(p)
    BY <2>1 DEF BulkInv, RequestsOK
  <2>3. p.pc \in {"apply", "undo"} => \A t \in p.locks : Keeps(t)
    BY <2>1 DEF Locks
  <2>4. RequestOK(p)'
    BY <2>1, <2>2, <2>3, RequestStays
  <2>5. breq'[o] = p
    BY <2>1
  <2>6. RequestOK(breq[o])'
    BY <2>4, <2>5
  <2> QED BY <2>6 DEF Locks
<1>2. RequestsOK'
  BY <1>1 DEF RequestsOK
<1>3. LocksApart'
  <2> SUFFICES ASSUME NEW o \in Req, NEW s \in Req, o # s PROVE Locks(o)' \cap Locks(s)' = {}
    BY DEF LocksApart
  <2>1. CASE o \in Q \/ s \in Q
    BY <2>1
  <2>2. CASE o \notin Q /\ s \notin Q
    BY <2>2, <1>1 DEF BulkInv, LocksApart
  <2> QED BY <2>1, <2>2
<1> QED BY <1>2, <1>3
-----------------------------------------------------------------------------
(* Each step keeps the invariant.                                            *)

LEMMA ReqKinds ==
  /\ Open.pc = "idle"
  /\ \A q \in ApplyReq : q.pc = "apply"
  /\ \A q \in UndoReq : q.pc = "undo"
  /\ \A q \in EditReq : q.pc = "edit"
  /\ \A q \in DropReq : q.pc = "drop"
BY DEF Open, ApplyReq, UndoReq, EditReq, DropReq

\* Each kind of request is told by its pc.
LEMMA ReqOpen ==
  ASSUME BulkTypes, NEW r \in Req
  PROVE  /\ breq[r].pc = "apply" => breq[r] \in ApplyReq
         /\ breq[r].pc = "undo" => breq[r] \in UndoReq
         /\ breq[r].pc = "edit" => breq[r] \in EditReq
         /\ breq[r].pc = "drop" => breq[r] \in DropReq
<1>1. breq[r] \in ReqSet
  BY DEF BulkTypes
<1>2. /\ Open.pc = "idle" /\ \A q \in ApplyReq : q.pc = "apply"
      /\ \A q \in UndoReq : q.pc = "undo"
      /\ \A q \in EditReq : q.pc = "edit"
      /\ \A q \in DropReq : q.pc = "drop"
  BY DEF Open, ApplyReq, UndoReq, EditReq, DropReq
<1> QED BY <1>1, <1>2 DEF ReqSet

\* Requests begin or end; no row is written.
LEMMA RowsRest ==
  ASSUME BulkInv, rows' = rows, writer' = writer, entry' = entry, item' = item,
         batches' \in Seq(BatchRec), Len(batches') = Len(batches),
         \A b \in Batch : batches'[b].rows = batches[b].rows /\ batches'[b].fields = batches[b].fields,
         gone \subseteq gone', crossed => crossed', crossed' \in BOOLEAN,
         NEW Q \in SUBSET Req, breq' \in [Req -> ReqSet], \A o \in Req \ Q : breq'[o] = breq[o],
         \A o \in Q : RequestOK(breq[o])',
         \A o \in Q, s \in Req : o # s => Locks(o)' \cap Locks(s)' = {},
         \A o \in Req \ Q : breq[o].pc = "edit" /\ ~crossed' => breq[o].txn \notin Locked'
  PROVE  BulkInv'
<1>1. BulkTypes
  BY DEF BulkInv
<1>2. BulkTypes'
  BY <1>1 DEF BulkTypes
<1>3. Batch' = Batch
  BY <1>1 DEF BulkTypes, Batch
<1>4. BatchesStay
  BY <1>3 DEF BatchesStay
<1>5. BatchesOK'
  BY <1>3, <1>4, BatchesKeep
<1>6. WriterOK'
  <2>1. \A t \in DOMAIN rows' : Same(rows'[t], rows[t])
    BY SameFacts
  <2> QED BY <2>1, <1>4, WritersKeep
<1>7. RequestsOK' /\ LocksApart'
  <2>1. ASSUME NEW o \in Req \ Q
        PROVE  /\ breq'[o] = breq[o]
               /\ \A t \in Locks(o) : Keeps(t)
               /\ breq[o].pc = "edit" => EditStays(breq[o])
    <3>1. \A t \in Locks(o) : t \in DOMAIN rows
      <4>1. RequestOK(breq[o])
        BY DEF BulkInv, RequestsOK
      <4> QED BY <4>1 DEF Locks, RequestOK, ApplyOK, UndoOK
    <3> QED BY <3>1 DEF Keeps, EditStays
  <2> QED BY <2>1, <1>4, OthersKeep
<1>8. TakeStays' /\ CheckNeverHit' /\ OwnShareCovered'
  BY DEF BulkInv, TakeStays, CheckNeverHit, OwnShareCovered, Live
<1> QED BY <1>2, <1>5, <1>6, <1>7, <1>8 DEF BulkInv

\* What an edit under way relies on; the locked rows are there.
LEMMA UnderWay ==
  ASSUME BulkInv, NEW o \in Req
  PROVE  /\ breq[o].pc = "edit" => EditOK(breq[o]) /\ breq[o] \in EditReq
         /\ breq[o].pc = "apply" => ApplyOK(breq[o]) /\ breq[o] \in ApplyReq
         /\ breq[o].pc = "undo" => UndoOK(breq[o]) /\ breq[o] \in UndoReq
         /\ \A t \in Locks(o) : t \in DOMAIN rows
         /\ breq[o].pc = "edit" /\ breq[o].txn \in DOMAIN rows /\ ~crossed => breq[o].txn \notin Locked
<1>1. RequestOK(breq[o])
  BY DEF BulkInv, RequestsOK
<1> QED BY <1>1, ReqOpen DEF BulkInv, RequestOK, EditOK, ApplyOK, UndoOK, Locks

\* A request that ends without a commit, or begins without locks.
LEMMA LocklessKeeps ==
  ASSUME BulkInv, rows' = rows, writer' = writer, entry' = entry, item' = item, batches' = batches,
         gone \subseteq gone', crossed => crossed', crossed' \in BOOLEAN,
         NEW r \in Req, NEW q \in ReqSet, breq' = [breq EXCEPT ![r] = q],
         q.pc \notin {"apply", "undo"},
         \A p : p = q /\ q.pc = "edit" => EditOK(p)'
  PROVE  BulkInv'
<1>1. BulkTypes
  BY DEF BulkInv
<1>2. breq' \in [Req -> ReqSet] /\ breq'[r] = q /\ \A o \in Req \ {r} : breq'[o] = breq[o]
  BY <1>1 DEF BulkTypes
<1>3. Locks(r)' = {} /\ \A o \in Req \ {r} : Locks(o)' = Locks(o)
  BY <1>2 DEF Locks
<1>4. Locked' \subseteq Locked
  BY <1>3 DEF Locked
<1>5. RequestOK(breq[r])'
  <2>1. breq'[r].pc = "edit" => EditOK(breq[r])'
    <3>1. PICK p : p = q
      OBVIOUS
    <3> QED BY <3>1, <1>2 DEF EditOK
  <2> QED BY <2>1, <1>2 DEF RequestOK
<1>6. \A o \in Req \ {r} : breq[o].pc = "edit" /\ ~crossed' => breq[o].txn \notin Locked'
  BY <1>4, UnderWay DEF Locked
<1>7. PICK Q \in SUBSET Req : Q = {r}
  OBVIOUS
<1>8. batches' \in Seq(BatchRec)
  BY <1>1 DEF BulkTypes
<1>9. \A o \in Q, s \in Req : o # s => Locks(o)' \cap Locks(s)' = {}
  BY <1>3, <1>7
<1>10. \A o \in Q : RequestOK(breq[o])'
  BY <1>5, <1>7
<1> QED BY <1>2, <1>6, <1>7, <1>8, <1>9, <1>10, RowsRest

LEMMA FailKeeps ==
  ASSUME BulkInv, NEW r \in Req, Fail(r)
  PROVE  BulkInv'
<1>1. Open \in ReqSet /\ Open.pc = "idle" /\ crossed' \in BOOLEAN
  BY DEF ReqSet, Open, Fail, BulkInv, BulkTypes
<1> QED BY <1>1, LocklessKeeps DEF Fail

\* What an edit makes of the row it loaded.
LEMMA FormedRow ==
  ASSUME NEW row \in RowSet, NEW u \in Member, NEW e \in EditSet, TakeKept(row),
         ~EditRefused(row, Formed(row, u, e))
  PROVE  LET new == Formed(row, u, e)
         IN  /\ new \in RowSet /\ new.type = row.type /\ new.take \in {None, row.take}
             /\ new.take # None => /\ new.mode = row.mode /\ new.payer = row.payer
                                   /\ new.method = row.method
             /\ new.bucket = None /\ row.type # "income" => row.bucket = None
             /\ SharesKept(new)
<1> DEFINE needed == row.type = "expense" /\ (e.method = "cash" \/ e.covered)
           payer == IF e.mode = "own" THEN None
                    ELSE IF e.payer # None \/ ~needed THEN e.payer
                    ELSE IF row.payer # None THEN row.payer ELSE u
           litres == e.litres /\ row.type = "expense" /\ e.category = Fuel
           take == IF e.method = "cash" THEN row.take ELSE None
           new == Formed(row, u, e)
<1>1. new = [row EXCEPT !.bucket = e.bucket, !.category = e.category, !.method = e.method,
                        !.mode = e.mode, !.covered = e.covered, !.payer = payer,
                        !.litres = litres, !.take = take]
  BY DEF Formed
<1>2. /\ payer \in Member \cup {None} /\ take \in Member \cup {None} /\ litres \in BOOLEAN
      /\ e.bucket \in Bucket \cup {None} /\ e.category \in Category \cup {None}
      /\ e.method \in {"card", "cash"} /\ e.mode \in {"single", "own"} /\ e.covered \in BOOLEAN
  BY DEF EditSet, RowSet
<1>3. e.mode = "own" => payer = None
  OBVIOUS
<1> HIDE DEF payer, litres, take, new
<1>4. /\ new \in RowSet /\ new.bucket = e.bucket /\ new.method = e.method /\ new.mode = e.mode
      /\ new.covered = e.covered /\ new.payer = payer /\ new.take = take /\ new.type = row.type
  BY <1>1, <1>2 DEF RowSet
<1>5. ~EditRefused(row, new)
  BY DEF new
<1>6. take \in {None, row.take} /\ (take # None => e.method = "cash" /\ take = row.take)
  BY DEF take
<1>7. new.take # None => new.mode = row.mode /\ new.payer = row.payer /\ new.method = row.method
  BY <1>2, <1>4, <1>5, <1>6 DEF EditRefused, TakeKept
<1>8. new.bucket = None /\ row.type # "income" => row.bucket = None
  BY <1>4, <1>5 DEF EditRefused
<1>9. SharesKept(new)
  BY <1>3, <1>4, <1>5 DEF EditRefused, SharesKept, OwnShareProblem, RowSet
<1> QED BY <1>4, <1>6, <1>7, <1>8, <1>9 DEF new

LEMMA BeginEditKeeps ==
  ASSUME BulkInv, NEW r \in Req, NEW u \in Member, NEW t \in DOMAIN rows, NEW e \in Edits,
         BeginEdit(r, u, t, e)
  PROVE  BulkInv'
<1> DEFINE new == Formed(rows[t], u, e)
           q == [pc |-> "edit", txn |-> t, was |-> rows[t], new |-> new]
<1>1. /\ ~EditRefused(rows[t], new) /\ breq' = [breq EXCEPT ![r] = q] /\ breq[r] = Open
      /\ crossed' = (crossed \/ t \in Locked)
      /\ UNCHANGED <<rows, entry, item, gone, batches, writer>>
  BY DEF BeginEdit
<1>2. t \in Txn /\ rows[t] \in RowSet /\ e \in EditSet /\ TakeKept(rows[t])
  BY RowsOpen, BulkAssumption DEF BulkInv, BulkTypes, TakeStays
<1>3. /\ new \in RowSet /\ new.type = rows[t].type /\ new.take \in {None, rows[t].take}
      /\ new.take # None => /\ new.mode = rows[t].mode /\ new.payer = rows[t].payer
                            /\ new.method = rows[t].method
      /\ new.bucket = None /\ rows[t].type # "income" => rows[t].bucket = None
      /\ SharesKept(new)
  BY <1>1, <1>2, FormedRow
<1> HIDE DEF new
<1>4. q \in EditReq /\ q \in ReqSet /\ q.pc = "edit" /\ q.txn = t /\ q.was = rows[t] /\ q.new = new
  BY <1>2, <1>3 DEF EditReq, ReqSet
<1> HIDE DEF q
<1>5. Locked' = Locked
  <2>1. breq'[r] = q /\ \A o \in Req \ {r} : breq'[o] = breq[o]
    BY <1>1 DEF BulkInv, BulkTypes
  <2>2. \A o \in Req : Locks(o)' = Locks(o)
    BY <2>1, <1>1, <1>4 DEF Locks, Open
  <2> QED BY <2>2 DEF Locked
<1>6. ASSUME NEW p, p = q PROVE EditOK(p)'
  BY <1>1, <1>3, <1>4, <1>5, <1>6 DEF EditOK
<1>7. crossed' \in BOOLEAN /\ (crossed => crossed')
  BY <1>1 DEF BulkInv, BulkTypes
<1> QED BY <1>1, <1>4, <1>6, <1>7, LocklessKeeps

LEMMA BeginDeleteBucketKeeps ==
  ASSUME BulkInv, NEW r \in Req, NEW b \in Bucket, BeginDeleteBucket(r, b)
  PROVE  BulkInv'
<1> DEFINE q == [pc |-> "drop", bucket |-> b]
<1>1. q \in ReqSet /\ q.pc = "drop"
  BY DEF ReqSet, DropReq
<1> HIDE DEF q
<1>2. /\ breq' = [breq EXCEPT ![r] = q] /\ UNCHANGED <<rows, entry, item, gone, batches, writer, crossed>>
      /\ crossed' \in BOOLEAN
  BY DEF BeginDeleteBucket, q, BulkInv, BulkTypes
<1> QED BY <1>1, <1>2, LocklessKeeps

\* No request changes, and no row.
LEMMA QuietKeeps ==
  ASSUME BulkInv, UNCHANGED <<rows, writer, entry, item, breq, crossed>>, gone \subseteq gone',
         batches' \in Seq(BatchRec), Len(batches') = Len(batches),
         \A b \in Batch : batches'[b].rows = batches[b].rows /\ batches'[b].fields = batches[b].fields
  PROVE  BulkInv'
<1>1. PICK Q \in SUBSET Req : Q = {}
  OBVIOUS
<1>2. breq' \in [Req -> ReqSet] /\ crossed' \in BOOLEAN /\ crossed' = crossed
  BY DEF BulkInv, BulkTypes
<1>3. Locked' = Locked
  BY DEF Locked, Locks
<1>4. \A o \in Req \ Q : breq[o].pc = "edit" /\ ~crossed' => breq[o].txn \notin Locked'
  BY <1>2, <1>3, UnderWay DEF Locked
<1>5. /\ \A o \in Req \ Q : breq'[o] = breq[o]
      /\ \A o \in Q : RequestOK(breq[o])'
      /\ \A o \in Q, s \in Req : o # s => Locks(o)' \cap Locks(s)' = {}
  BY <1>1
<1> QED BY <1>2, <1>4, <1>5, RowsRest

LEMMA ExpireKeeps ==
  ASSUME BulkInv, NEW b \in Batch, Expire(b)
  PROVE  BulkInv'
<1>1. batches \in Seq(BatchRec) /\ batches' = [batches EXCEPT ![b].old = TRUE] /\ b \in DOMAIN batches
  BY DEF Expire, BulkInv, BulkTypes, Batch
<1>2. batches[b] \in BatchRec
  BY <1>1
<1>3. PICK x \in BatchRec : x = [batches[b] EXCEPT !.old = TRUE] /\ x.rows = batches[b].rows
                            /\ x.fields = batches[b].fields
  <2> DEFINE x == [batches[b] EXCEPT !.old = TRUE]
  <2>1. x \in BatchRec
    BY <1>2 DEF BatchRec
  <2>2. x.rows = batches[b].rows /\ x.fields = batches[b].fields
    BY <1>2 DEF BatchRec
  <2> QED BY <2>1, <2>2
<1>4. batches' = [batches EXCEPT ![b] = x]
  BY <1>1, <1>3
<1>5. batches' \in Seq(BatchRec) /\ Len(batches') = Len(batches)
      /\ \A a \in Batch : batches'[a].rows = batches[a].rows /\ batches'[a].fields = batches[a].fields
  BY <1>1, <1>3, <1>4 DEF Batch
<1> QED BY <1>5, QuietKeeps DEF Expire

LEMMA RemoveMemberKeeps ==
  ASSUME BulkInv, NEW u \in Member, RemoveMember(u)
  PROVE  BulkInv'
<1>1. batches' = batches /\ gone \subseteq gone' /\ UNCHANGED <<rows, writer, entry, item, breq, crossed>>
  BY DEF RemoveMember
<1> QED BY <1>1, QuietKeeps DEF BulkInv, BulkTypes

\* A bulk change or an undo locks rows that nobody holds.
LEMMA LockingKeeps ==
  ASSUME BulkInv, UNCHANGED <<rows, entry, item, gone, batches, writer>>,
         NEW r \in Req, NEW q \in ApplyReq \cup UndoReq, breq' = [breq EXCEPT ![r] = q],
         q.locks \cap Locked = {}, q.locks \subseteq DOMAIN rows,
         crossed' = (crossed \/ \E t \in q.locks : Editing(t)),
         \A p : p = q => RequestOK(p)'
  PROVE  BulkInv'
<1>1. BulkTypes
  BY DEF BulkInv
<1>2. breq' \in [Req -> ReqSet] /\ breq'[r] = q /\ \A o \in Req \ {r} : breq'[o] = breq[o]
  BY <1>1 DEF BulkTypes, ReqSet
<1>3. q.pc \in {"apply", "undo"}
  BY ReqKinds
<1>4. Locks(r)' = q.locks /\ \A o \in Req \ {r} : Locks(o)' = Locks(o)
  BY <1>2, <1>3 DEF Locks
<1>5. Locked' \subseteq Locked \cup q.locks
  BY <1>4 DEF Locked
<1>6. PICK Q \in SUBSET Req : Q = {r}
  OBVIOUS
<1>7. \A o \in Q : RequestOK(breq[o])'
  <2>1. PICK p : p = q
    OBVIOUS
  <2>2. RequestOK(p)'
    BY <2>1
  <2>3. p = breq'[r]
    BY <2>1, <1>2
  <2>4. RequestOK(breq[r])'
    BY <2>2, <2>3
  <2> QED BY <2>4, <1>6
<1>8. \A o \in Q, s \in Req : o # s => Locks(o)' \cap Locks(s)' = {}
  BY <1>4, <1>6 DEF Locked
<1>9. ASSUME NEW o \in Req \ Q, breq[o].pc = "edit", ~crossed' PROVE breq[o].txn \notin Locked'
  <2>1. ~crossed /\ breq[o].txn \notin q.locks
    BY <1>9 DEF Editing
  <2>2. breq[o].txn \notin Locked
    BY <1>9, <2>1, UnderWay DEF Locked
  <2> QED BY <2>1, <2>2, <1>5
<1>10. crossed' \in BOOLEAN /\ (crossed => crossed') /\ batches' \in Seq(BatchRec)
  BY <1>1 DEF BulkTypes
<1>11. \A o \in Req \ Q : breq'[o] = breq[o]
  BY <1>2, <1>6
<1> QED BY <1>2, <1>7, <1>8, <1>9, <1>10, <1>11, RowsRest

LEMMA BeginBulkKeeps ==
  ASSUME BulkInv, NEW r \in Req, NEW S \in SUBSET DOMAIN rows, NEW ch \in Changes,
         NEW moveBill \in BOOLEAN, BeginBulk(r, S, ch, moveBill)
  PROVE  BulkInv'
<1> DEFINE changed == {t \in S : ~Skipped(rows[t], ch) /\ New(rows[t], ch) # rows[t]}
           moves == moveBill /\ item # ch.bucket
           q == [pc |-> "apply", locks |-> S, changed |-> changed, ch |-> ch,
                 moves |-> moves, item |-> item]
<1>1. /\ S \cap Locked = {} /\ breq' = [breq EXCEPT ![r] = q]
      /\ crossed' = (crossed \/ \E t \in S : Editing(t))
      /\ UNCHANGED <<rows, entry, item, gone, batches, writer>>
  BY DEF BeginBulk
<1>2. /\ DOMAIN rows \subseteq Txn /\ ch \in ChangeSet /\ changed \subseteq S
      /\ moves \in BOOLEAN /\ item \in Bucket \cup {None} /\ \A t \in changed : ~Skipped(rows[t], ch)
  BY RowsOpen, BulkAssumption DEF BulkInv, BulkTypes
<1> HIDE DEF changed, moves
<1>3. /\ q \in ApplyReq /\ q.pc = "apply" /\ q.locks = S /\ q.changed = changed /\ q.ch = ch
  BY <1>2 DEF ApplyReq
<1> HIDE DEF q
<1>4. ASSUME NEW p, p = q PROVE RequestOK(p)'
  BY <1>1, <1>2, <1>3, <1>4 DEF RequestOK, ApplyOK
<1> QED BY <1>1, <1>3, <1>4, LockingKeeps

\* An undo puts back every row that nothing else has written since.
LEMMA BeginUndoKeeps ==
  ASSUME BulkInv, NEW r \in Req, NEW b \in Batch, BeginUndo(r, b)
  PROVE  BulkInv'
<1> DEFINE touched == DOMAIN batches[b].rows \cap DOMAIN rows
           restores == {t \in touched : ~UndoProblem(rows[t], batches[b].rows[t].old,
                                                     batches[b].rows[t].new, batches[b].fields)}
           puts == batches[b].moved /\ item = batches[b].newItem /\ batches[b].oldItem \notin gone
           q == [pc |-> "undo", batch |-> b, locks |-> touched, restores |-> restores, item |-> puts]
<1>1. /\ touched \cap Locked = {} /\ breq' = [breq EXCEPT ![r] = q]
      /\ crossed' = (crossed \/ \E t \in touched : Editing(t))
      /\ UNCHANGED <<rows, entry, item, gone, batches, writer>>
  BY DEF BeginUndo
<1>2. /\ b \in Nat /\ DOMAIN rows \subseteq Txn /\ batches[b] \in BatchRec
      /\ batches[b].fields \subseteq Fields
  <2>1. batches \in Seq(BatchRec) /\ rows \in RowsSet
    BY DEF BulkInv, BulkTypes
  <2>2. b \in 1..Len(batches) /\ batches[b] \in BatchRec
    BY <2>1 DEF Batch
  <2> QED BY <2>1, <2>2, RowsOpen DEF BatchRec
<1>3. puts \in BOOLEAN
  BY <1>2 DEF BatchRec
<1>4. ASSUME NEW t \in touched, Exact(b, t) PROVE t \in restores
  <2> DEFINE R == batches[b].rows[t]
             fields == batches[b].fields
  <2>1. BatchRowOK(b, t) /\ t \in DOMAIN rows /\ t \in DOMAIN batches[b].rows
    BY DEF BulkInv, BatchesOK
  <2>2. Same(rows[t], R.new)
    <3>1. writer[t] = b /\ b # 0
      BY <1>4 DEF Exact, BulkInv, BulkTypes, Batch
    <3> QED BY <2>1, <3>1 DEF BulkInv, WriterOK
  <2>3. R \in BatchRow
    BY <1>2, <2>1, RowsOpen DEF BatchRec
  <2>4. R.old \in RowSet /\ R.new \in RowSet
    BY <2>3 DEF BatchRow
  <2>5. /\ R.old.live /\ TakeKept(R.old) /\ SharesKept(R.old)
        /\ Restored(R.new, R.old, fields) = R.old
    BY <2>1, <1>4 DEF BatchRowOK, Exact
  <2>6. /\ R.old.live = R.new.live /\ R.old.take = R.new.take /\ R.old.covered = R.new.covered
    BY <2>4, <2>5, RestoredLeaves
  <2>7. /\ \A f \in fields : R.old[f] \notin gone
        /\ R.old.bucket = None => rows[t].item \/ rows[t].type = "income"
    BY <1>4 DEF Exact
  <2> HIDE DEF R, fields
  <2>8. rows[t].live
    BY <2>2, <2>5, <2>6 DEF Same
  <2>9. Holds(rows[t], R.new, fields)
    <3>1. fields \subseteq Fields
      BY <1>2 DEF fields
    <3>2. \A f \in fields \ {"payer"} : f = "bucket" \/ f = "category" \/ f = "method"
      BY <3>1 DEF Fields
    <3> QED BY <2>2, <3>2 DEF Same, Holds
  <2>10. ~BucketLost(rows[t], R.old, fields)
    BY <2>7 DEF BucketLost
  <2>11. ~TakeLost(rows[t], R.old, fields)
    BY <2>2, <2>5, <2>6 DEF TakeLost, TakeKept, Same
  <2>12. ~SharesLost(rows[t], R.old, fields)
    BY <2>2, <2>5, <2>6 DEF SharesLost, SharesKept, Same, OwnShareProblem
  <2>13. ~UndoProblem(rows[t], R.old, R.new, fields)
    BY <2>7, <2>8, <2>9, <2>10, <2>11, <2>12 DEF UndoProblem
  <2> QED BY <2>13 DEF R, fields
<1>5. \A t \in restores : t \in touched /\ Restorable(b, t)
  BY DEF UndoProblem, Restorable
<1> HIDE DEF restores, puts
<1>6. q \in UndoReq /\ q.pc = "undo" /\ q.batch = b /\ q.locks = touched /\ q.restores = restores
  BY <1>2, <1>3, <1>5 DEF UndoReq
<1> HIDE DEF q
<1>7. ASSUME NEW p, p = q PROVE RequestOK(p)'
  <2>1. \A t \in restores : Restorable(b, t)'
    BY <1>1, <1>5 DEF Restorable
  <2>2. \A t \in touched : Exact(b, t)' => t \in restores
    BY <1>1, <1>4 DEF Exact
  <2>3. b \in Batch' /\ touched = DOMAIN batches'[b].rows \cap DOMAIN rows'
    BY <1>1 DEF Batch
  <2>4. UndoOK(p)'
    BY <1>5, <1>6, <1>7, <2>1, <2>2, <2>3 DEF UndoOK
  <2> QED BY <1>6, <1>7, <2>4 DEF RequestOK
<1> QED BY <1>1, <1>6, <1>7, LockingKeeps

\* Rows are written: each stays in order, and no request that goes on minds.
LEMMA WritesKeep ==
  ASSUME BulkInv, BulkTypes', BatchesStay, BatchesOK', WriterOK',
         NEW Q \in SUBSET Req, \A o \in Q : breq'[o] = Open,
         \A o \in Req \ Q : breq'[o] = breq[o] /\ \A t \in Locks(o) : Keeps(t),
         \A t \in DOMAIN rows' :
            /\ TakeKept(rows'[t]) /\ Bucketed(rows'[t]) /\ rows'[t].take \in {None, rows[t].take}
            /\ ~crossed' /\ rows'[t].live => SharesKept(rows'[t]),
         \A o \in Req \ Q : breq[o].pc = "edit" /\ breq[o].txn \in DOMAIN rows' /\ ~crossed' =>
            /\ rows'[breq[o].txn].mode = rows[breq[o].txn].mode
            /\ rows'[breq[o].txn].payer = rows[breq[o].txn].payer
  PROVE  BulkInv'
<1>1. \A o \in Q : Locks(o)' = {} /\ RequestOK(breq[o])'
  BY ReqKinds DEF Locks, RequestOK
<1>2. \A o \in Req \ Q : Locks(o)' = Locks(o)
  BY DEF Locks
<1>3. Locked' \subseteq Locked
  BY <1>1, <1>2 DEF Locked
<1>4. ASSUME NEW o \in Req \ Q, breq[o].pc = "edit" PROVE EditStays(breq[o])
  <2> SUFFICES ASSUME breq[o].txn \in DOMAIN rows'
               PROVE  /\ rows'[breq[o].txn].take \in {None, rows[breq[o].txn].take}
                      /\ ~crossed' => /\ breq[o].txn \notin Locked'
                                      /\ rows'[breq[o].txn].mode = rows[breq[o].txn].mode
                                      /\ rows'[breq[o].txn].payer = rows[breq[o].txn].payer
    BY DEF EditStays
  <2>1. breq[o].txn \in DOMAIN rows /\ (crossed => crossed')
    BY DEF BatchesStay
  <2>2. ~crossed' => breq[o].txn \notin Locked
    BY <1>4, <2>1, UnderWay
  <2> QED BY <1>3, <1>4, <2>2
<1>5. \A o \in Q, s \in Req : o # s => Locks(o)' \cap Locks(s)' = {}
  BY <1>1
<1>6. RequestsOK' /\ LocksApart'
  BY <1>1, <1>4, <1>5, OthersKeep
<1>7. TakeStays' /\ CheckNeverHit' /\ OwnShareCovered'
  BY DEF TakeStays, CheckNeverHit, OwnShareCovered, Live
<1> QED BY <1>6, <1>7 DEF BulkInv

\* A row is in order, whoever looks.
LEMMA RowIs ==
  ASSUME BulkInv, NEW t \in DOMAIN rows
  PROVE  /\ t \in Txn /\ rows[t] \in RowSet /\ TakeKept(rows[t]) /\ Bucketed(rows[t])
         /\ ~crossed /\ rows[t].live => SharesKept(rows[t])
BY RowsOpen DEF BulkInv, BulkTypes, TakeStays, CheckNeverHit, OwnShareCovered, Live

\* A batch is committed.
LEMMA CommitBulkKeeps ==
  ASSUME BulkInv, NEW r \in Req, CommitBulk(r)
  PROVE  BulkInv'
<1> DEFINE q == breq[r]
           b == Cardinality(Batch) + 1
           followed == {t \in q.changed : "payer" \in q.ch.fields /\ q.ch.mode = "single" /\ entry[t].linked}
           Row(t) == [old |-> rows[t], new |-> New(rows[t], q.ch), follows |-> t \in followed,
                      oldEntry |-> entry[t].payer, was |-> writer[t]]
           rec == [fields |-> q.ch.fields, rows |-> [t \in q.changed |-> Row(t)],
                   moved |-> q.moves, oldItem |-> q.item, newItem |-> q.ch.bucket,
                   undone |-> FALSE, old |-> FALSE]
<1>1. /\ q.pc = "apply" /\ batches' = Append(batches, rec)
      /\ rows' = [t \in DOMAIN rows |-> IF t \in q.changed THEN New(rows[t], q.ch) ELSE rows[t]]
      /\ entry' = [t \in DOMAIN entry |->
                      IF t \in followed THEN [entry[t] EXCEPT !.payer = q.ch.payer] ELSE entry[t]]
      /\ item' = (IF q.moves THEN q.ch.bucket ELSE item)
      /\ writer' = [t \in DOMAIN writer |-> IF t \in q.changed THEN b ELSE writer[t]]
      /\ breq' = [breq EXCEPT ![r] = Open]
      /\ UNCHANGED <<gone, crossed>>
  BY DEF CommitBulk
<1>2. /\ q \in ApplyReq /\ q.changed \subseteq q.locks /\ q.locks \subseteq DOMAIN rows
      /\ \A t \in q.changed : ~Skipped(rows[t], q.ch)
  BY <1>1, UnderWay DEF ApplyOK
<1>3. /\ q.ch \in ChangeSet /\ q.ch.fields \subseteq Fields /\ q.ch.payer \in Member \cup {None}
      /\ q.ch.bucket \in Bucket \cup {None} /\ q.moves \in BOOLEAN /\ q.item \in Bucket \cup {None}
  BY <1>2 DEF ApplyReq, ChangeSet
<1>4. /\ batches \in Seq(BatchRec) /\ writer \in [Txn -> Nat] /\ breq \in [Req -> ReqSet]
      /\ entry \in [Txn -> [linked : BOOLEAN, payer : Member \cup {None}]]
      /\ item \in Bucket \cup {None} /\ crossed \in BOOLEAN /\ DOMAIN rows \subseteq Txn
  BY RowsOpen DEF BulkInv, BulkTypes
<1>5. Batch = 1..Len(batches) /\ Len(batches) \in Nat /\ b = Len(batches) + 1
  <2>1. Batch = 1..Len(batches) /\ Len(batches) \in Nat
    BY <1>4 DEF Batch
  <2>2. Cardinality(1..Len(batches)) = IF 1 > Len(batches) THEN 0 ELSE Len(batches) - 1 + 1
    BY <2>1, FS_Interval
  <2> QED BY <2>1, <2>2
<1>6. ASSUME NEW t \in q.changed
      PROVE  LET new == New(rows[t], q.ch)
             IN  /\ new \in RowSet /\ rows[t].live /\ TakeKept(new) /\ Bucketed(new)
                 /\ SharesKept(rows[t]) => SharesKept(new)
                 /\ new.type = rows[t].type /\ new.take = rows[t].take
                 /\ Restored(new, rows[t], q.ch.fields) = rows[t]
  <2>1. t \in DOMAIN rows /\ ~Skipped(rows[t], q.ch)
    BY <1>2
  <2> QED BY <2>1, <1>3, RowIs, NewRow
<1>7. ASSUME NEW t \in q.changed PROVE Row(t) \in BatchRow
  <2>1. t \in DOMAIN rows /\ t \in Txn
    BY <1>2, <1>4
  <2>2. /\ rows[t] \in RowSet /\ New(rows[t], q.ch) \in RowSet
        /\ entry[t].payer \in Member \cup {None} /\ writer[t] \in Nat
    BY <2>1, <1>4, <1>6, RowIs
  <2> QED BY <2>2 DEF BatchRow
<1>8. rec \in BatchRec
  <2>1. q.changed \in SUBSET Txn
    BY <1>2, <1>4
  <2>2. [t \in q.changed |-> Row(t)] \in BatchRows
    <3>1. [t \in q.changed |-> Row(t)] \in [q.changed -> BatchRow]
      BY <1>7
    <3> QED BY <2>1, <3>1, RowsOpen
  <2> QED BY <1>3, <2>2 DEF BatchRec
<1>9. /\ rec.fields = q.ch.fields /\ DOMAIN rec.rows = q.changed
      /\ \A t \in q.changed : /\ rec.rows[t].old = rows[t] /\ rec.rows[t].new = New(rows[t], q.ch)
                              /\ rec.rows[t].was = writer[t]
  OBVIOUS
<1> HIDE DEF rec, followed, b, Row
<1>10. /\ batches' \in Seq(BatchRec) /\ Len(batches') = b /\ batches'[b] = rec
       /\ Batch' = 1..b /\ \A a \in Batch : batches'[a] = batches[a]
  BY <1>1, <1>4, <1>5, <1>8 DEF Batch
<1>11. /\ DOMAIN rows' = DOMAIN rows
       /\ \A t \in q.changed : t \in DOMAIN rows /\ rows'[t] = New(rows[t], q.ch) /\ writer'[t] = b
       /\ \A t \in DOMAIN rows \ q.changed : rows'[t] = rows[t] /\ writer'[t] = writer[t]
  <2>1. \A t \in DOMAIN rows : t \in DOMAIN writer
    BY <1>4
  <2> QED BY <2>1, <1>1, <1>2
<1>12. BulkTypes'
  <2>1. rows' \in RowsSet
    <3>1. \A t \in DOMAIN rows' : rows'[t] \in RowSet
      BY <1>6, <1>11, RowIs
    <3>2. rows' \in [DOMAIN rows -> RowSet]
      BY <1>1, <1>11, <3>1
    <3> QED BY <1>4, <3>2, RowsOpen
  <2>2. entry' \in [Txn -> [linked : BOOLEAN, payer : Member \cup {None}]]
    <3>1. \A t \in Txn : entry[t] \in [linked : BOOLEAN, payer : Member \cup {None}]
      BY <1>4
    <3>2. \A t \in Txn : [entry[t] EXCEPT !.payer = q.ch.payer] \in [linked : BOOLEAN, payer : Member \cup {None}]
      BY <1>3, <3>1
    <3> QED BY <1>1, <1>4, <3>1, <3>2
  <2>3. item' \in Bucket \cup {None} /\ writer' \in [Txn -> Nat]
    BY <1>1, <1>3, <1>4, <1>5
  <2>4. breq' \in [Req -> ReqSet]
    BY <1>1, <1>4 DEF ReqSet
  <2> QED BY <1>1, <1>4, <1>10, <2>1, <2>2, <2>3, <2>4 DEF BulkTypes
<1>13. BatchesStay
  BY <1>1, <1>5, <1>6, <1>10, <1>11 DEF BatchesStay
<1>14. BatchesOK'
  <2>1. ASSUME NEW a \in Batch', NEW t \in DOMAIN batches'[a].rows PROVE BatchRowOK(a, t)'
    <3>1. CASE a \in Batch
      <4>1. t \in DOMAIN batches[a].rows
        BY <3>1, <1>10
      <4> QED BY <3>1, <4>1, <1>13, BatchRowStays
    <3>2. CASE a \notin Batch
      <4>1. a = b /\ batches'[a] = rec /\ t \in q.changed
        BY <3>2, <1>5, <1>9, <1>10
      <4>2. t \in DOMAIN rows /\ rows[t].live /\ TakeKept(rows[t]) /\ (~crossed => SharesKept(rows[t]))
        BY <4>1, <1>2, <1>6, RowIs
      <4>3. Restored(New(rows[t], q.ch), rows[t], q.ch.fields) = rows[t]
        BY <4>1, <1>6
      <4>4. rows'[t].type = rows[t].type
        BY <4>1, <1>6, <1>11
      <4>5. writer[t] # 0 => /\ writer[t] \in Batch' /\ t \in DOMAIN batches'[writer[t]].rows
                             /\ Same(rows[t], batches'[writer[t]].rows[t].new)
        BY <4>2, <1>5, <1>10 DEF BulkInv, WriterOK
      <4> QED BY <4>1, <4>2, <4>3, <4>4, <4>5, <1>1, <1>9 DEF BatchRowOK
    <3> QED BY <3>1, <3>2
  <2> QED BY <2>1 DEF BatchesOK
<1>15. WriterOK'
  <2> SUFFICES ASSUME NEW t \in DOMAIN rows', writer'[t] # 0
               PROVE  /\ writer'[t] \in Batch' /\ t \in DOMAIN batches'[writer'[t]].rows
                      /\ Same(rows'[t], batches'[writer'[t]].rows[t].new)
    BY DEF WriterOK, Same
  <2>1. CASE t \in q.changed
    <3>1. writer'[t] = b /\ rows'[t] = New(rows[t], q.ch) /\ b \in Batch' /\ batches'[b] = rec
      BY <2>1, <1>5, <1>10, <1>11
    <3>2. rec.rows[t].new = New(rows[t], q.ch) /\ t \in DOMAIN rec.rows
      BY <2>1, <1>9
    <3> QED BY <3>1, <3>2, SameFacts
  <2>2. CASE t \notin q.changed
    <3>1. t \in DOMAIN rows /\ rows'[t] = rows[t] /\ writer'[t] = writer[t]
      BY <2>2, <1>11
    <3>2. /\ writer[t] \in Batch /\ t \in DOMAIN batches[writer[t]].rows
          /\ Same(rows[t], batches[writer[t]].rows[t].new)
      BY <3>1 DEF BulkInv, WriterOK
    <3> QED BY <3>1, <3>2, <1>5, <1>10
  <2> QED BY <2>1, <2>2
<1>16. breq'[r] = Open /\ \A o \in Req \ {r} : breq'[o] = breq[o]
  BY <1>1, <1>4
<1>17. Locks(r) = q.locks
  BY <1>1 DEF Locks
<1>18. ASSUME NEW o \in Req \ {r}, NEW t \in Locks(o) PROVE Keeps(t)
  <2>1. t \in DOMAIN rows /\ t \notin q.changed
    BY <1>2, <1>17, UnderWay DEF BulkInv, LocksApart
  <2> QED BY <2>1, <1>11 DEF Keeps
<1>19. ASSUME NEW t \in DOMAIN rows'
       PROVE  /\ TakeKept(rows'[t]) /\ Bucketed(rows'[t]) /\ rows'[t].take \in {None, rows[t].take}
              /\ ~crossed' /\ rows'[t].live => SharesKept(rows'[t])
  BY <1>1, <1>6, <1>11, RowIs
<1>20. ASSUME NEW o \in Req \ {r}, breq[o].pc = "edit", breq[o].txn \in DOMAIN rows', ~crossed'
       PROVE  rows'[breq[o].txn] = rows[breq[o].txn]
  <2>1. breq[o].txn \notin q.locks
    BY <1>1, <1>11, <1>17, <1>20, UnderWay DEF Locked
  <2> QED BY <2>1, <1>2, <1>11, <1>20
<1>21. PICK Q \in SUBSET Req : Q = {r}
  OBVIOUS
<1>22. /\ \A o \in Q : breq'[o] = Open
       /\ \A o \in Req \ Q : breq'[o] = breq[o] /\ \A t \in Locks(o) : Keeps(t)
       /\ \A o \in Req \ Q : breq[o].pc = "edit" /\ breq[o].txn \in DOMAIN rows' /\ ~crossed' =>
            /\ rows'[breq[o].txn].mode = rows[breq[o].txn].mode
            /\ rows'[breq[o].txn].payer = rows[breq[o].txn].payer
  BY <1>16, <1>18, <1>20, <1>21
<1> HIDE DEF q
<1> QED BY <1>12, <1>13, <1>14, <1>15, <1>19, <1>22, WritesKeep

\* A row of a batch.
LEMMA BatchRowIs ==
  ASSUME BulkInv, NEW b \in Batch, NEW t \in DOMAIN batches[b].rows
  PROVE  /\ batches[b] \in BatchRec /\ batches[b].rows[t] \in BatchRow /\ BatchRowOK(b, t)
         /\ batches[b].rows[t].old \in RowSet /\ batches[b].rows[t].new \in RowSet
<1>1. batches[b] \in BatchRec
  BY DEF BulkInv, BulkTypes, Batch
<1>2. batches[b].rows \in BatchRows
  BY <1>1 DEF BatchRec
<1>3. batches[b].rows[t] \in BatchRow
  BY <1>2, RowsOpen
<1> QED BY <1>1, <1>3 DEF BatchRow, BulkInv, BatchesOK

\* A batch is taken back.
LEMMA CommitUndoKeeps ==
  ASSUME BulkInv, NEW r \in Req, CommitUndo(r)
  PROVE  BulkInv'
<1> DEFINE q == breq[r]
           b == q.batch
           R(t) == batches[b].rows[t]
           fields == batches[b].fields
           follows(t) == t \in q.restores /\ R(t).follows /\ entry[t].linked
<1>1. /\ q.pc = "undo"
      /\ rows' = [t \in DOMAIN rows |-> IF t \in q.restores THEN Restored(rows[t], R(t).old, fields)
                                        ELSE rows[t]]
      /\ entry' = [t \in DOMAIN entry |-> IF follows(t) THEN [entry[t] EXCEPT !.payer = R(t).oldEntry]
                                          ELSE entry[t]]
      /\ item' = (IF q.item THEN batches[b].oldItem ELSE item)
      /\ batches' = [batches EXCEPT ![b].undone = TRUE]
      /\ writer' = [t \in DOMAIN writer |-> IF t \notin q.restores THEN writer[t]
                                            ELSE IF writer[t] = b THEN R(t).was ELSE 0]
      /\ breq' = [breq EXCEPT ![r] = Open]
      /\ UNCHANGED <<gone, crossed>>
  BY DEF CommitUndo
<1>2. /\ q \in UndoReq /\ b \in Batch /\ q.locks = DOMAIN batches[b].rows \cap DOMAIN rows
      /\ q.restores \subseteq q.locks /\ \A t \in q.restores : Restorable(b, t)
  BY <1>1, UnderWay DEF UndoOK
<1>3. /\ batches \in Seq(BatchRec) /\ writer \in [Txn -> Nat] /\ breq \in [Req -> ReqSet]
      /\ entry \in [Txn -> [linked : BOOLEAN, payer : Member \cup {None}]]
      /\ item \in Bucket \cup {None} /\ crossed \in BOOLEAN /\ DOMAIN rows \subseteq Txn
  BY RowsOpen DEF BulkInv, BulkTypes
<1>4. batches[b] \in BatchRec
  BY <1>2, <1>3 DEF Batch
<1>5. ASSUME NEW t \in q.restores
      PROVE  /\ t \in DOMAIN rows /\ t \in DOMAIN batches[b].rows /\ R(t) \in BatchRow
             /\ BatchRowOK(b, t) /\ R(t).old \in RowSet /\ R(t).new \in RowSet
  BY <1>2, BatchRowIs
<1>6. ASSUME NEW t \in q.restores
      PROVE  LET s == Restored(rows[t], R(t).old, fields)
             IN  /\ s \in RowSet /\ TakeKept(s) /\ Bucketed(s) /\ (~crossed => SharesKept(s))
                 /\ s.type = rows[t].type /\ s.take = rows[t].take
  <2>1. /\ rows[t] \in RowSet /\ TakeKept(rows[t]) /\ Bucketed(rows[t])
        /\ ~crossed /\ rows[t].live => SharesKept(rows[t])
    BY <1>5, RowIs
  <2>2. R(t).old \in RowSet /\ (~crossed => SharesKept(R(t).old)) /\ R(t).old.type = rows[t].type
    BY <1>5 DEF BatchRowOK
  <2>3. /\ rows[t].live /\ ~BucketLost(rows[t], R(t).old, fields)
        /\ ~TakeLost(rows[t], R(t).old, fields) /\ ~SharesLost(rows[t], R(t).old, fields)
    BY <1>2 DEF Restorable
  <2> HIDE DEF R, fields
  <2>4. /\ Restored(rows[t], R(t).old, fields) \in RowSet
        /\ Restored(rows[t], R(t).old, fields).type = rows[t].type
        /\ Restored(rows[t], R(t).old, fields).take = rows[t].take
    BY <2>1, <2>2, RestoredFields
  <2> QED BY <2>1, <2>2, <2>3, <2>4, RestoredRow
<1>7. PICK x \in BatchRec : /\ x = [batches[b] EXCEPT !.undone = TRUE]
                            /\ x.rows = batches[b].rows /\ x.fields = batches[b].fields
  <2> DEFINE x == [batches[b] EXCEPT !.undone = TRUE]
  <2>1. x \in BatchRec
    BY <1>4 DEF BatchRec
  <2>2. x.rows = batches[b].rows /\ x.fields = batches[b].fields
    BY <1>4 DEF BatchRec
  <2> QED BY <2>1, <2>2
<1> HIDE DEF follows, R, fields, b
<1>8. batches' = [batches EXCEPT ![b] = x]
  BY <1>1, <1>7
<1>9. /\ batches' \in Seq(BatchRec) /\ Batch' = Batch
      /\ \A a \in Batch : batches'[a].rows = batches[a].rows /\ batches'[a].fields = batches[a].fields
  BY <1>2, <1>3, <1>7, <1>8 DEF Batch
<1>10. /\ DOMAIN rows' = DOMAIN rows
       /\ \A t \in q.restores : /\ t \in DOMAIN rows /\ rows'[t] = Restored(rows[t], R(t).old, fields)
                                /\ writer'[t] = IF writer[t] = b THEN R(t).was ELSE 0
       /\ \A t \in DOMAIN rows \ q.restores : rows'[t] = rows[t] /\ writer'[t] = writer[t]
  <2>1. \A t \in DOMAIN rows : t \in DOMAIN writer
    BY <1>3
  <2> QED BY <2>1, <1>1, <1>2
<1>11. BulkTypes'
  <2>1. rows' \in RowsSet
    <3>1. \A t \in DOMAIN rows' : rows'[t] \in RowSet
      BY <1>6, <1>10, RowIs
    <3>2. rows' \in [DOMAIN rows -> RowSet]
      BY <1>1, <1>10, <3>1
    <3> QED BY <1>3, <3>2, RowsOpen
  <2>2. entry' \in [Txn -> [linked : BOOLEAN, payer : Member \cup {None}]]
    <3>1. ASSUME NEW t \in Txn, follows(t) PROVE R(t).oldEntry \in Member \cup {None}
      BY <3>1, <1>5 DEF follows, BatchRow
    <3>2. ASSUME NEW t \in Txn, follows(t)
          PROVE  [entry[t] EXCEPT !.payer = R(t).oldEntry] \in [linked : BOOLEAN, payer : Member \cup {None}]
      <4>1. R(t).oldEntry \in Member \cup {None}
        BY <3>1, <3>2
      <4>2. entry[t] \in [linked : BOOLEAN, payer : Member \cup {None}]
        BY <1>3
      <4> QED BY <4>1, <4>2
    <3>3. \A t \in Txn : entry[t] \in [linked : BOOLEAN, payer : Member \cup {None}]
      BY <1>3
    <3> QED BY <1>1, <1>3, <3>2, <3>3
  <2>3. item' \in Bucket \cup {None}
    BY <1>1, <1>3, <1>4 DEF BatchRec
  <2>4. writer' \in [Txn -> Nat]
    <3>1. \A t \in q.restores : R(t).was \in Nat
      BY <1>5 DEF BatchRow
    <3> QED BY <1>1, <1>3, <3>1
  <2>5. breq' \in [Req -> ReqSet]
    BY <1>1, <1>3 DEF ReqSet
  <2> QED BY <1>1, <1>3, <1>9, <2>1, <2>2, <2>3, <2>4, <2>5 DEF BulkTypes
<1>12. BatchesStay
  BY <1>1, <1>6, <1>9, <1>10 DEF BatchesStay
<1>13. BatchesOK'
  BY <1>9, <1>12, BatchesKeep
<1>14. WriterOK'
  <2> SUFFICES ASSUME NEW t \in DOMAIN rows', writer'[t] # 0
               PROVE  /\ writer'[t] \in Batch /\ t \in DOMAIN batches[writer'[t]].rows
                      /\ Same(rows'[t], batches[writer'[t]].rows[t].new)
    BY <1>9 DEF WriterOK, Same
  <2>1. CASE t \in q.restores
    <3>1. writer[t] = b /\ writer'[t] = R(t).was /\ R(t).was # 0
      BY <2>1, <1>10
    <3>2. /\ Restored(R(t).new, R(t).old, fields) = R(t).old
          /\ R(t).was \in Batch /\ t \in DOMAIN batches[R(t).was].rows
          /\ Same(R(t).old, batches[R(t).was].rows[t].new)
      BY <2>1, <3>1, <1>5 DEF BatchRowOK, R, fields
    <3>3. b # 0 /\ t \in DOMAIN rows
      BY <2>1, <1>2, <1>3, <1>5 DEF Batch
    <3>4. Same(rows[t], R(t).new)
      BY <3>1, <3>3 DEF BulkInv, WriterOK, R
    <3>5. rows[t] \in RowSet /\ R(t).old \in RowSet /\ R(t).new \in RowSet
      BY <2>1, <1>5, RowIs
    <3>6. Same(Restored(rows[t], R(t).old, fields), R(t).old)
      BY <3>2, <3>4, <3>5, RestoredSame
    <3>7. rows'[t] = Restored(rows[t], R(t).old, fields)
      BY <2>1, <1>10
    <3> QED BY <3>1, <3>2, <3>6, <3>7, SameFacts
  <2>2. CASE t \notin q.restores
    <3>1. t \in DOMAIN rows /\ rows'[t] = rows[t] /\ writer'[t] = writer[t]
      BY <2>2, <1>10
    <3> QED BY <3>1 DEF BulkInv, WriterOK
  <2> QED BY <2>1, <2>2
<1>15. breq'[r] = Open /\ \A o \in Req \ {r} : breq'[o] = breq[o]
  BY <1>1, <1>3
<1>16. Locks(r) = q.locks
  BY <1>1 DEF Locks
<1>17. ASSUME NEW o \in Req \ {r}, NEW t \in Locks(o) PROVE Keeps(t)
  <2>1. t \in DOMAIN rows /\ t \notin q.restores
    BY <1>2, <1>16, UnderWay DEF BulkInv, LocksApart
  <2> QED BY <2>1, <1>10 DEF Keeps
<1>18. ASSUME NEW t \in DOMAIN rows'
       PROVE  /\ TakeKept(rows'[t]) /\ Bucketed(rows'[t]) /\ rows'[t].take \in {None, rows[t].take}
              /\ ~crossed' /\ rows'[t].live => SharesKept(rows'[t])
  <2>1. CASE t \in q.restores
    BY <2>1, <1>1, <1>6, <1>10
  <2>2. CASE t \notin q.restores
    BY <2>2, <1>1, <1>10, RowIs
  <2> QED BY <2>1, <2>2
<1>19. ASSUME NEW o \in Req \ {r}, breq[o].pc = "edit", breq[o].txn \in DOMAIN rows', ~crossed'
       PROVE  rows'[breq[o].txn] = rows[breq[o].txn]
  <2>1. breq[o].txn \notin q.locks
    BY <1>1, <1>10, <1>16, <1>19, UnderWay DEF Locked
  <2> QED BY <2>1, <1>2, <1>10, <1>19
<1>20. PICK Q \in SUBSET Req : Q = {r}
  OBVIOUS
<1>21. /\ \A o \in Q : breq'[o] = Open
       /\ \A o \in Req \ Q : breq'[o] = breq[o] /\ \A t \in Locks(o) : Keeps(t)
       /\ \A o \in Req \ Q : breq[o].pc = "edit" /\ breq[o].txn \in DOMAIN rows' /\ ~crossed' =>
            /\ rows'[breq[o].txn].mode = rows[breq[o].txn].mode
            /\ rows'[breq[o].txn].payer = rows[breq[o].txn].payer
  BY <1>15, <1>17, <1>19, <1>20
<1> HIDE DEF q
<1> QED BY <1>11, <1>12, <1>13, <1>14, <1>18, <1>21, WritesKeep

With(row, bucket, category, payer, mode, method, litres, take, covered) ==
    [row EXCEPT !.bucket = bucket, !.category = category, !.payer = payer, !.mode = mode,
                !.method = method, !.litres = litres, !.take = take, !.covered = covered]
Changed(row, was, new, f) == IF new[f] # was[f] THEN new[f] ELSE row[f]
AfterEdit(row, was, new) ==
    With(row, Changed(row, was, new, "bucket"), Changed(row, was, new, "category"),
         Changed(row, was, new, "payer"), Changed(row, was, new, "mode"),
         Changed(row, was, new, "method"), Changed(row, was, new, "litres"),
         Changed(row, was, new, "take"), new.covered)

LEMMA RowWith ==
  ASSUME NEW row \in RowSet, NEW bucket, NEW category, NEW payer, NEW mode, NEW method, NEW litres,
         NEW take, NEW covered,
         bucket \in Bucket \cup {None}, category \in Category \cup {None}, payer \in Member \cup {None},
         mode \in {"single", "own"}, method \in {"card", "cash"}, litres \in BOOLEAN,
         take \in Member \cup {None}, covered \in BOOLEAN
  PROVE  LET x == With(row, bucket, category, payer, mode, method, litres, take, covered)
         IN  /\ x \in RowSet /\ x.bucket = bucket /\ x.payer = payer /\ x.mode = mode
             /\ x.method = method /\ x.take = take /\ x.covered = covered
             /\ x.live = row.live /\ x.type = row.type /\ x.item = row.item
<1>0. PICK x : x = With(row, bucket, category, payer, mode, method, litres, take, covered)
  OBVIOUS
<1>1. x = [live |-> row.live, type |-> row.type, bucket |-> bucket, category |-> category,
           payer |-> payer, mode |-> mode, method |-> method, item |-> row.item,
           covered |-> covered, litres |-> litres, take |-> take]
  BY <1>0 DEF With, RowSet
<1>2. row.live \in BOOLEAN /\ row.type \in {"expense", "income"} /\ row.item \in BOOLEAN
  BY DEF RowSet
<1>3. /\ x \in RowSet /\ x.bucket = bucket /\ x.payer = payer /\ x.mode = mode
      /\ x.method = method /\ x.take = take /\ x.covered = covered
      /\ x.live = row.live /\ x.type = row.type /\ x.item = row.item
  BY <1>1, <1>2 DEF RowSet
<1> QED BY <1>0, <1>3

\* An edit writes what differs from what it loaded over what is there now.
LEMMA EditedRow ==
  ASSUME NEW row \in RowSet, NEW was \in RowSet, NEW new \in RowSet,
         TakeKept(row), Bucketed(row), SharesKept(new),
         new.take \in {None, was.take}, row.take \in {None, was.take},
         new.take # None => new.mode = was.mode /\ new.payer = was.payer /\ new.method = was.method,
         new.bucket = None /\ was.type # "income" => was.bucket = None,
         row.type = was.type, new.type = was.type
  PROVE  LET after == AfterEdit(row, was, new)
         IN  /\ after \in RowSet /\ after.type = row.type /\ after.take \in {None, row.take}
             /\ TakeKept(after) /\ Bucketed(after)
             /\ row.mode = was.mode /\ row.payer = was.payer => SharesKept(after)
<1> DEFINE bucket == Changed(row, was, new, "bucket")
           category == Changed(row, was, new, "category")
           payer == Changed(row, was, new, "payer")
           mode == Changed(row, was, new, "mode")
           method == Changed(row, was, new, "method")
           litres == Changed(row, was, new, "litres")
           take == Changed(row, was, new, "take")
           after == AfterEdit(row, was, new)
<1>1. /\ bucket = (IF new.bucket # was.bucket THEN new.bucket ELSE row.bucket)
      /\ payer = (IF new.payer # was.payer THEN new.payer ELSE row.payer)
      /\ mode = (IF new.mode # was.mode THEN new.mode ELSE row.mode)
      /\ method = (IF new.method # was.method THEN new.method ELSE row.method)
      /\ take = (IF new.take # was.take THEN new.take ELSE row.take)
  BY DEF Changed
<1>2. /\ bucket \in Bucket \cup {None} /\ category \in Category \cup {None}
      /\ payer \in Member \cup {None} /\ mode \in {"single", "own"} /\ method \in {"card", "cash"}
      /\ litres \in BOOLEAN /\ take \in Member \cup {None} /\ new.covered \in BOOLEAN
  BY DEF RowSet, Changed
<1>3. after = With(row, bucket, category, payer, mode, method, litres, take, new.covered)
  BY DEF AfterEdit
<1> HIDE DEF bucket, category, payer, mode, method, litres, take, after
<1>4. /\ after \in RowSet /\ after.bucket = bucket /\ after.payer = payer /\ after.mode = mode
      /\ after.method = method /\ after.take = take /\ after.covered = new.covered
      /\ after.live = row.live /\ after.type = row.type /\ after.item = row.item
  BY <1>2, <1>3, RowWith
<1>5. after.take \in {None, row.take}
  BY <1>1, <1>4
<1>6. TakeKept(after)
  BY <1>1, <1>4 DEF TakeKept
<1>7. Bucketed(after)
  BY <1>1, <1>4 DEF Bucketed
<1>8. row.mode = was.mode /\ row.payer = was.payer => SharesKept(after)
  BY <1>1, <1>4 DEF SharesKept
<1> QED BY <1>4, <1>5, <1>6, <1>7, <1>8 DEF after

LEMMA CommitEditKeeps ==
  ASSUME BulkInv, NEW r \in Req, CommitEdit(r)
  PROVE  BulkInv'
<1> DEFINE q == breq[r]
           t == q.txn
           Column(f) == IF q.new[f] # q.was[f] THEN q.new[f] ELSE rows[t][f]
           after == [rows[t] EXCEPT !.bucket = Column("bucket"), !.category = Column("category"),
                                    !.payer = Column("payer"), !.mode = Column("mode"),
                                    !.method = Column("method"), !.litres = Column("litres"),
                                    !.take = Column("take"), !.covered = q.new.covered]
<1>1. /\ q.pc = "edit" /\ t \in DOMAIN rows /\ t \notin Locked
      /\ breq' = [breq EXCEPT ![r] = Open] /\ rows' = [rows EXCEPT ![t] = after]
      /\ writer' = [writer EXCEPT ![t] = 0]
      /\ crossed' = (crossed \/ \E o \in Req \ {r} : breq[o].pc = "edit" /\ breq[o].txn = t)
      /\ UNCHANGED <<entry, item, gone, batches>>
  BY DEF CommitEdit
<1>2. EditOK(q) /\ q \in EditReq /\ q.was \in RowSet /\ q.new \in RowSet
  BY <1>1, UnderWay DEF EditReq
<1>3. /\ q.new.take \in {None, q.was.take}
      /\ q.new.take # None => /\ q.new.mode = q.was.mode /\ q.new.payer = q.was.payer
                              /\ q.new.method = q.was.method
      /\ q.new.bucket = None /\ q.was.type # "income" => q.was.bucket = None
      /\ SharesKept(q.new) /\ q.new.type = q.was.type
      /\ rows[t].type = q.was.type /\ rows[t].take \in {None, q.was.take}
      /\ ~crossed => rows[t].mode = q.was.mode /\ rows[t].payer = q.was.payer
  BY <1>1, <1>2 DEF EditOK
<1>4. /\ rows[t] \in RowSet /\ TakeKept(rows[t]) /\ Bucketed(rows[t]) /\ t \in Txn
  BY <1>1, RowIs
<1>5. /\ after \in RowSet /\ after.type = rows[t].type /\ after.take \in {None, rows[t].take}
      /\ TakeKept(after) /\ Bucketed(after) /\ (~crossed => SharesKept(after))
  <2>1. after = AfterEdit(rows[t], q.was, q.new)
    BY DEF AfterEdit, Changed, With
  <2> HIDE DEF after, q, t
  <2> QED BY <2>1, <1>2, <1>3, <1>4, EditedRow
<1> HIDE DEF after
<1>6. /\ DOMAIN rows' = DOMAIN rows /\ rows'[t] = after /\ writer'[t] = 0
      /\ \A s \in DOMAIN rows \ {t} : rows'[s] = rows[s] /\ writer'[s] = writer[s]
  BY <1>1, <1>4 DEF BulkInv, BulkTypes
<1>7. BulkTypes'
  <2>1. rows \in RowsSet /\ breq \in [Req -> ReqSet] /\ writer \in [Txn -> Nat] /\ crossed \in BOOLEAN
    BY DEF BulkInv, BulkTypes
  <2>2. rows' \in RowsSet
    <3>1. \A s \in DOMAIN rows : rows'[s] \in RowSet
      BY <1>5, <1>6, RowIs
    <3>2. rows' \in [DOMAIN rows -> RowSet] /\ DOMAIN rows \in SUBSET Txn
      BY <1>1, <2>1, <3>1, RowsOpen
    <3> QED BY <3>2, RowsOpen
  <2>3. breq' \in [Req -> ReqSet] /\ writer' \in [Txn -> Nat] /\ crossed' \in BOOLEAN
    BY <1>1, <2>1 DEF ReqSet
  <2> QED BY <1>1, <2>2, <2>3 DEF BulkInv, BulkTypes
<1>8. BatchesStay
  BY <1>1, <1>5, <1>6 DEF BatchesStay, Batch
<1>9. BatchesOK'
  BY <1>1, <1>8, BatchesKeep DEF Batch
<1>10. WriterOK'
  <2>1. ASSUME NEW s \in DOMAIN rows', writer'[s] # 0
        PROVE  writer'[s] = writer[s] /\ Same(rows'[s], rows[s])
    BY <1>6, <2>1, SameFacts
  <2> QED BY <2>1, <1>8, WritersKeep
<1>11. breq'[r] = Open /\ \A o \in Req \ {r} : breq'[o] = breq[o]
  BY <1>1 DEF BulkInv, BulkTypes
<1>12. ASSUME NEW o \in Req \ {r}, NEW s \in Locks(o) PROVE Keeps(s)
  <2>1. s \in DOMAIN rows /\ s # t
    BY <1>1, UnderWay DEF Locked
  <2> QED BY <2>1, <1>6 DEF Keeps
<1>13. ASSUME NEW s \in DOMAIN rows'
       PROVE  /\ TakeKept(rows'[s]) /\ Bucketed(rows'[s]) /\ rows'[s].take \in {None, rows[s].take}
              /\ ~crossed' /\ rows'[s].live => SharesKept(rows'[s])
  <2>1. CASE s = t
    BY <2>1, <1>1, <1>5, <1>6
  <2>2. CASE s # t
    BY <2>2, <1>1, <1>6, RowIs
  <2> QED BY <2>1, <2>2
<1>14. ASSUME NEW o \in Req \ {r}, breq[o].pc = "edit", breq[o].txn \in DOMAIN rows', ~crossed'
       PROVE  rows'[breq[o].txn] = rows[breq[o].txn]
  BY <1>1, <1>6, <1>14
<1>15. PICK Q \in SUBSET Req : Q = {r}
  OBVIOUS
<1>16. /\ \A o \in Q : breq'[o] = Open
       /\ \A o \in Req \ Q : breq'[o] = breq[o] /\ \A s \in Locks(o) : Keeps(s)
       /\ \A o \in Req \ Q : breq[o].pc = "edit" /\ breq[o].txn \in DOMAIN rows' /\ ~crossed' =>
            /\ rows'[breq[o].txn].mode = rows[breq[o].txn].mode
            /\ rows'[breq[o].txn].payer = rows[breq[o].txn].payer
  BY <1>11, <1>12, <1>14, <1>15
<1> HIDE DEF q, t
<1> QED BY <1>7, <1>8, <1>9, <1>10, <1>13, <1>16, WritesKeep

\* One row that nobody holds is written; its payer and the requests stay.
LEMMA OneRowKeeps ==
  ASSUME BulkInv, NEW t \in DOMAIN rows, t \notin Locked, NEW after \in RowSet,
         rows' = [rows EXCEPT ![t] = after], UNCHANGED <<item, gone, batches, breq>>,
         entry' = [entry EXCEPT ![t] = [linked |-> FALSE, payer |-> None]],
         \/ writer' = [writer EXCEPT ![t] = 0]
         \/ writer' = writer /\ Same(after, rows[t]),
         crossed' \in BOOLEAN, crossed => crossed',
         TakeKept(after), Bucketed(after), after.type = rows[t].type,
         after.take \in {None, rows[t].take}, after.mode = rows[t].mode, after.payer = rows[t].payer,
         after.live => rows[t].live /\ after.covered = rows[t].covered
  PROVE  BulkInv'
<1>1. t \in Txn /\ (~crossed /\ rows[t].live => SharesKept(rows[t]))
  BY RowIs
<1>2. /\ DOMAIN rows' = DOMAIN rows /\ rows'[t] = after
      /\ \A s \in DOMAIN rows \ {t} : rows'[s] = rows[s] /\ writer'[s] = writer[s]
      /\ writer' \in [Txn -> Nat] /\ (writer'[t] # 0 => writer'[t] = writer[t] /\ Same(after, rows[t]))
  <2>1. writer \in [Txn -> Nat] /\ DOMAIN rows \subseteq Txn
    BY RowsOpen DEF BulkInv, BulkTypes
  <2>2. DOMAIN rows' = DOMAIN rows /\ rows'[t] = after /\ \A s \in DOMAIN rows \ {t} : rows'[s] = rows[s]
    OBVIOUS
  <2>3. CASE writer' = [writer EXCEPT ![t] = 0]
    BY <1>1, <2>1, <2>2, <2>3
  <2>4. CASE writer' = writer /\ Same(after, rows[t])
    BY <2>1, <2>2, <2>4
  <2> QED BY <2>3, <2>4
<1>3. BulkTypes'
  <2>1. rows \in RowsSet /\ entry \in [Txn -> [linked : BOOLEAN, payer : Member \cup {None}]]
    BY DEF BulkInv, BulkTypes
  <2>2. rows' \in RowsSet
    <3>1. \A s \in DOMAIN rows : rows'[s] \in RowSet
      BY <1>2, RowIs
    <3>2. rows' \in [DOMAIN rows -> RowSet] /\ DOMAIN rows \in SUBSET Txn
      BY <2>1, <3>1, RowsOpen
    <3> QED BY <3>2, RowsOpen
  <2>3. entry' \in [Txn -> [linked : BOOLEAN, payer : Member \cup {None}]]
    BY <2>1
  <2> QED BY <1>2, <2>2, <2>3 DEF BulkInv, BulkTypes
<1>4. BatchesStay
  BY <1>2 DEF BatchesStay, Batch
<1>5. BatchesOK'
  BY <1>4, BatchesKeep DEF Batch
<1>6. WriterOK'
  <2>1. ASSUME NEW s \in DOMAIN rows', writer'[s] # 0
        PROVE  writer'[s] = writer[s] /\ Same(rows'[s], rows[s])
    BY <1>2, <2>1, SameFacts
  <2> QED BY <2>1, <1>4, WritersKeep
<1>7. ASSUME NEW o \in Req, NEW s \in Locks(o) PROVE Keeps(s)
  <2>1. s \in DOMAIN rows /\ s # t
    BY UnderWay DEF Locked
  <2> QED BY <2>1, <1>2 DEF Keeps
<1>8. ASSUME NEW s \in DOMAIN rows'
      PROVE  /\ TakeKept(rows'[s]) /\ Bucketed(rows'[s]) /\ rows'[s].take \in {None, rows[s].take}
             /\ ~crossed' /\ rows'[s].live => SharesKept(rows'[s])
             /\ rows'[s].mode = rows[s].mode /\ rows'[s].payer = rows[s].payer
  <2>1. CASE s = t
    BY <2>1, <1>1, <1>2 DEF SharesKept
  <2>2. CASE s # t
    BY <2>2, <1>2, RowIs
  <2> QED BY <2>1, <2>2
<1>9. PICK Q \in SUBSET Req : Q = {}
  OBVIOUS
<1>10. /\ \A o \in Q : breq'[o] = Open
       /\ \A o \in Req \ Q : breq'[o] = breq[o] /\ \A s \in Locks(o) : Keeps(s)
       /\ \A o \in Req \ Q : breq[o].pc = "edit" /\ breq[o].txn \in DOMAIN rows' /\ ~crossed' =>
            /\ rows'[breq[o].txn].mode = rows[breq[o].txn].mode
            /\ rows'[breq[o].txn].payer = rows[breq[o].txn].payer
  BY <1>7, <1>8, <1>9
<1> QED BY <1>3, <1>4, <1>5, <1>6, <1>8, <1>10, WritesKeep

LEMMA DeleteKeeps ==
  ASSUME BulkInv, NEW t \in DOMAIN rows, Delete(t)
  PROVE  BulkInv'
<1>1. rows[t] \in RowSet /\ TakeKept(rows[t]) /\ Bucketed(rows[t]) /\ crossed \in BOOLEAN
  BY RowIs DEF BulkInv, BulkTypes
<1>2. PICK after : after = [rows[t] EXCEPT !.live = FALSE, !.take = None]
  OBVIOUS
<1>3. after \in RowSet
  BY <1>1, <1>2 DEF RowSet
<1>4. /\ ~after.live /\ after.take = None /\ after.type = rows[t].type /\ after.bucket = rows[t].bucket
      /\ after.item = rows[t].item /\ after.mode = rows[t].mode /\ after.payer = rows[t].payer
  BY <1>1, <1>2 DEF RowSet
<1>5. TakeKept(after) /\ Bucketed(after)
  BY <1>1, <1>4 DEF TakeKept, Bucketed
<1>6. rows' = [rows EXCEPT ![t] = after]
  <2>1. rows' = [rows EXCEPT ![t] = [@ EXCEPT !.live = FALSE, !.take = None]]
    BY DEF Delete
  <2> QED BY <2>1, <1>2
<1>7. /\ t \notin Locked /\ UNCHANGED <<item, gone, batches, breq>>
      /\ entry' = [entry EXCEPT ![t] = [linked |-> FALSE, payer |-> None]]
      /\ writer' = [writer EXCEPT ![t] = 0] /\ crossed' \in BOOLEAN /\ (crossed => crossed')
  BY <1>1 DEF Delete
<1> QED BY <1>3, <1>4, <1>5, <1>6, <1>7, OneRowKeeps

LEMMA UnlinkKeeps ==
  ASSUME BulkInv, NEW t \in DOMAIN rows, Unlink(t)
  PROVE  BulkInv'
<1>1. rows[t] \in RowSet /\ TakeKept(rows[t]) /\ Bucketed(rows[t]) /\ crossed \in BOOLEAN
  BY RowIs DEF BulkInv, BulkTypes
<1>2. PICK after : after = [rows[t] EXCEPT !.item = FALSE]
  OBVIOUS
<1>3. after \in RowSet
  BY <1>1, <1>2 DEF RowSet
<1>4. /\ after.live = rows[t].live /\ after.take = rows[t].take /\ after.type = rows[t].type
      /\ after.bucket = rows[t].bucket /\ after.mode = rows[t].mode /\ after.payer = rows[t].payer
      /\ after.method = rows[t].method /\ after.covered = rows[t].covered
      /\ after.category = rows[t].category /\ after.litres = rows[t].litres
  BY <1>1, <1>2 DEF RowSet
<1>5. TakeKept(after) /\ Bucketed(after) /\ Same(after, rows[t])
  <2>1. ~(rows[t].bucket = None /\ rows[t].type = "expense")
    BY DEF Unlink
  <2>2. rows[t].type \in {"expense", "income"}
    BY <1>1 DEF RowSet
  <2> QED BY <2>1, <2>2, <1>1, <1>4 DEF TakeKept, Bucketed, Same
<1>6. rows' = [rows EXCEPT ![t] = after]
  <2>1. rows' = [rows EXCEPT ![t] = [@ EXCEPT !.item = FALSE]]
    BY DEF Unlink
  <2> QED BY <2>1, <1>2
<1>7. /\ t \notin Locked /\ UNCHANGED <<item, gone, batches, breq>> /\ writer' = writer
      /\ entry' = [entry EXCEPT ![t] = [linked |-> FALSE, payer |-> None]]
      /\ crossed' \in BOOLEAN /\ (crossed => crossed')
  BY <1>1 DEF Unlink
<1> QED BY <1>3, <1>4, <1>5, <1>6, <1>7, OneRowKeeps

\* The rows of a deleted bucket go; nobody holds one of them.
LEMMA CommitDeleteBucketKeeps ==
  ASSUME BulkInv, NEW r \in Req, CommitDeleteBucket(r)
  PROVE  BulkInv'
<1> DEFINE kept == {t \in DOMAIN rows : rows[t].bucket # breq[r].bucket}
<1>1. /\ breq[r].pc = "drop" /\ Locked \subseteq kept /\ rows' = [t \in kept |-> rows[t]]
      /\ gone' = gone \cup {breq[r].bucket} /\ breq' = [breq EXCEPT ![r] = Open]
      /\ UNCHANGED <<entry, item, batches, writer, crossed>>
  BY DEF CommitDeleteBucket
<1>2. kept \subseteq DOMAIN rows
  OBVIOUS
<1> HIDE DEF kept
<1>3. DOMAIN rows' = kept /\ \A t \in kept : rows'[t] = rows[t]
  BY <1>1
<1>4. BulkTypes'
  <2>1. rows \in RowsSet /\ breq \in [Req -> ReqSet]
    BY DEF BulkInv, BulkTypes
  <2>2. kept \in SUBSET Txn /\ \A t \in kept : rows[t] \in RowSet
    BY <1>2, <2>1, RowsOpen
  <2>3. rows' \in RowsSet
    <3>1. rows' \in [kept -> RowSet]
      BY <1>1, <2>2
    <3> QED BY <2>2, <3>1, RowsOpen
  <2>4. breq' \in [Req -> ReqSet]
    BY <1>1, <2>1 DEF ReqSet
  <2> QED BY <1>1, <2>3, <2>4 DEF BulkInv, BulkTypes
<1>5. BatchesStay
  BY <1>1, <1>2, <1>3 DEF BatchesStay, Batch
<1>6. BatchesOK'
  BY <1>1, <1>5, BatchesKeep DEF Batch
<1>7. WriterOK'
  <2>1. \A t \in DOMAIN rows' : writer'[t] = writer[t] /\ Same(rows'[t], rows[t])
    BY <1>1, <1>3, SameFacts
  <2> QED BY <2>1, <1>5, WritersKeep
<1>8. breq'[r] = Open /\ \A o \in Req \ {r} : breq'[o] = breq[o]
  BY <1>1 DEF BulkInv, BulkTypes
<1>9. ASSUME NEW o \in Req, NEW t \in Locks(o) PROVE Keeps(t)
  <2>1. t \in kept
    BY <1>1 DEF Locked
  <2> QED BY <2>1, <1>1, <1>3 DEF Keeps
<1>10. ASSUME NEW t \in DOMAIN rows'
       PROVE  /\ TakeKept(rows'[t]) /\ Bucketed(rows'[t]) /\ rows'[t].take \in {None, rows[t].take}
              /\ ~crossed' /\ rows'[t].live => SharesKept(rows'[t])
              /\ rows'[t].mode = rows[t].mode /\ rows'[t].payer = rows[t].payer
  <2>1. t \in DOMAIN rows /\ rows'[t] = rows[t]
    BY <1>2, <1>3
  <2> QED BY <2>1, <1>1, RowIs
<1>11. PICK Q \in SUBSET Req : Q = {r}
  OBVIOUS
<1>12. /\ \A o \in Q : breq'[o] = Open
       /\ \A o \in Req \ Q : breq'[o] = breq[o] /\ \A t \in Locks(o) : Keeps(t)
       /\ \A o \in Req \ Q : breq[o].pc = "edit" /\ breq[o].txn \in DOMAIN rows' /\ ~crossed' =>
            /\ rows'[breq[o].txn].mode = rows[breq[o].txn].mode
            /\ rows'[breq[o].txn].payer = rows[breq[o].txn].payer
  BY <1>8, <1>9, <1>10, <1>11
<1> QED BY <1>4, <1>5, <1>6, <1>7, <1>10, <1>12, WritesKeep

\* The rows of a deleted category lose it.
LEMMA DeleteCategoryKeeps ==
  ASSUME BulkInv, NEW c \in Category, DeleteCategory(c)
  PROVE  BulkInv'
<1> DEFINE Its(t) == rows[t].category = c
           Without(t) == [rows[t] EXCEPT !.category = None]
<1>1. /\ \A t \in DOMAIN rows : Its(t) => t \notin Locked
      /\ rows' = [t \in DOMAIN rows |-> IF Its(t) THEN Without(t) ELSE rows[t]]
      /\ writer' = [t \in DOMAIN writer |-> IF t \in DOMAIN rows /\ Its(t) THEN 0 ELSE writer[t]]
      /\ gone' = gone \cup {c} /\ UNCHANGED <<entry, item, batches, breq, crossed>>
  BY DEF DeleteCategory
<1>2. ASSUME NEW t \in DOMAIN rows
      PROVE  /\ Without(t) \in RowSet
             /\ Without(t).live = rows[t].live /\ Without(t).take = rows[t].take
             /\ Without(t).type = rows[t].type /\ Without(t).bucket = rows[t].bucket
             /\ Without(t).mode = rows[t].mode /\ Without(t).payer = rows[t].payer
             /\ Without(t).method = rows[t].method /\ Without(t).covered = rows[t].covered
             /\ Without(t).item = rows[t].item
  <2>1. rows[t] \in RowSet
    BY RowIs
  <2> QED BY <2>1 DEF RowSet
<1> HIDE DEF Its, Without
<1>3. /\ DOMAIN rows' = DOMAIN rows
      /\ \A t \in DOMAIN rows : IF Its(t) THEN rows'[t] = Without(t) /\ writer'[t] = 0
                                ELSE rows'[t] = rows[t] /\ writer'[t] = writer[t]
  <2>1. \A t \in DOMAIN rows : t \in DOMAIN writer
    BY RowIs DEF BulkInv, BulkTypes
  <2> QED BY <2>1, <1>1
<1>4. BulkTypes'
  <2>1. rows \in RowsSet /\ writer \in [Txn -> Nat]
    BY DEF BulkInv, BulkTypes
  <2>2. rows' \in RowsSet
    <3>1. \A t \in DOMAIN rows : rows'[t] \in RowSet
      BY <1>2, <1>3, RowIs
    <3>2. rows' \in [DOMAIN rows -> RowSet] /\ DOMAIN rows \in SUBSET Txn
      BY <1>1, <2>1, <3>1, RowsOpen
    <3> QED BY <3>2, RowsOpen
  <2>3. writer' \in [Txn -> Nat]
    BY <1>1, <2>1
  <2> QED BY <1>1, <2>2, <2>3 DEF BulkInv, BulkTypes
<1>5. BatchesStay
  BY <1>1, <1>2, <1>3 DEF BatchesStay, Batch
<1>6. BatchesOK'
  BY <1>1, <1>5, BatchesKeep DEF Batch
<1>7. WriterOK'
  <2>1. ASSUME NEW t \in DOMAIN rows', writer'[t] # 0
        PROVE  writer'[t] = writer[t] /\ Same(rows'[t], rows[t])
    BY <1>3, <2>1, SameFacts
  <2> QED BY <2>1, <1>5, WritersKeep
<1>8. ASSUME NEW o \in Req, NEW t \in Locks(o) PROVE Keeps(t)
  <2>1. t \in DOMAIN rows /\ ~Its(t)
    BY <1>1, UnderWay DEF Locked
  <2> QED BY <2>1, <1>3 DEF Keeps
<1>9. ASSUME NEW t \in DOMAIN rows'
      PROVE  /\ TakeKept(rows'[t]) /\ Bucketed(rows'[t]) /\ rows'[t].take \in {None, rows[t].take}
             /\ ~crossed' /\ rows'[t].live => SharesKept(rows'[t])
             /\ rows'[t].mode = rows[t].mode /\ rows'[t].payer = rows[t].payer
  <2>1. t \in DOMAIN rows
    BY <1>3
  <2>2. /\ TakeKept(rows[t]) /\ Bucketed(rows[t]) /\ (~crossed /\ rows[t].live => SharesKept(rows[t]))
    BY <2>1, RowIs
  <2>3. CASE Its(t)
    BY <2>1, <2>2, <2>3, <1>1, <1>2, <1>3 DEF TakeKept, Bucketed, SharesKept
  <2>4. CASE ~Its(t)
    BY <2>1, <2>2, <2>4, <1>1, <1>3
  <2> QED BY <2>3, <2>4
<1>10. PICK Q \in SUBSET Req : Q = {}
  OBVIOUS
<1>11. /\ \A o \in Q : breq'[o] = Open
       /\ \A o \in Req \ Q : breq'[o] = breq[o] /\ \A t \in Locks(o) : Keeps(t)
       /\ \A o \in Req \ Q : breq[o].pc = "edit" /\ breq[o].txn \in DOMAIN rows' /\ ~crossed' =>
            /\ rows'[breq[o].txn].mode = rows[breq[o].txn].mode
            /\ rows'[breq[o].txn].payer = rows[breq[o].txn].payer
  BY <1>1, <1>8, <1>9, <1>10
<1> QED BY <1>4, <1>5, <1>6, <1>7, <1>9, <1>11, WritesKeep

LEMMA BulkInvInit ==
  ASSUME BulkInit
  PROVE  BulkInv
<1>1. /\ rows \in [Txn -> Rows] /\ batches = << >> /\ gone = {} /\ crossed = FALSE
      /\ breq = [r \in Req |-> Open] /\ writer = [t \in Txn |-> 0] /\ item \in Bucket
      /\ entry = [t \in Txn |-> [linked |-> rows[t].item,
                                 payer |-> IF rows[t].item THEN rows[t].payer ELSE None]]
  BY DEF BulkInit
<1>2. \A t \in Txn : rows[t] \in RowSet /\ TakeKept(rows[t]) /\ Bucketed(rows[t]) /\ SharesKept(rows[t])
  BY <1>1, BulkAssumption
<1>3. BulkTypes
  <2>1. rows \in RowsSet
    <3>1. rows \in [Txn -> RowSet] /\ Txn \in SUBSET Txn
      BY <1>1, <1>2
    <3> QED BY <3>1, RowsOpen
  <2>2. entry \in [Txn -> [linked : BOOLEAN, payer : Member \cup {None}]]
    <3>1. \A t \in Txn : /\ rows[t].item \in BOOLEAN
                         /\ (IF rows[t].item THEN rows[t].payer ELSE None) \in Member \cup {None}
      BY <1>2 DEF RowSet
    <3> QED BY <1>1, <3>1
  <2>3. batches \in Seq(BatchRec) /\ breq \in [Req -> ReqSet] /\ writer \in [Txn -> Nat]
    BY <1>1 DEF ReqSet
  <2> QED BY <1>1, <2>1, <2>2, <2>3 DEF BulkTypes
<1>4. Batch = {} /\ \A r \in Req : breq[r].pc = "idle"
  BY <1>1, ReqKinds DEF Batch
<1>5. BatchesOK /\ WriterOK /\ RequestsOK /\ LocksApart
  BY <1>1, <1>4 DEF BatchesOK, WriterOK, RequestsOK, RequestOK, LocksApart, Locks
<1>6. TakeStays /\ CheckNeverHit /\ OwnShareCovered
  BY <1>1, <1>2 DEF TakeStays, CheckNeverHit, OwnShareCovered, Live
<1> QED BY <1>3, <1>5, <1>6 DEF BulkInv

LEMMA BulkInvNext ==
  ASSUME BulkInv, [BulkNext]_bvars
  PROVE  BulkInv'
<1>1. CASE UNCHANGED bvars
  <2>1. UNCHANGED <<rows, writer, entry, item, breq, crossed, gone, batches>>
    BY <1>1 DEF bvars
  <2> QED BY <2>1, QuietKeeps DEF BulkInv, BulkTypes
<1>2. ASSUME NEW r \in Req, NEW S \in SUBSET DOMAIN rows, NEW ch \in Changes,
             NEW moveBill \in BOOLEAN, BeginBulk(r, S, ch, moveBill)
      PROVE  BulkInv'
  BY <1>2, BeginBulkKeeps
<1>3. ASSUME NEW r \in Req, CommitBulk(r) PROVE BulkInv'
  BY <1>3, CommitBulkKeeps
<1>4. ASSUME NEW r \in Req, Fail(r) PROVE BulkInv'
  BY <1>4, FailKeeps
<1>5. ASSUME NEW r \in Req, NEW b \in Batch, BeginUndo(r, b) PROVE BulkInv'
  BY <1>5, BeginUndoKeeps
<1>6. ASSUME NEW r \in Req, CommitUndo(r) PROVE BulkInv'
  BY <1>6, CommitUndoKeeps
<1>7. ASSUME NEW r \in Req, NEW u \in Member, NEW t \in DOMAIN rows, NEW e \in Edits,
             BeginEdit(r, u, t, e)
      PROVE  BulkInv'
  BY <1>7, BeginEditKeeps
<1>8. ASSUME NEW r \in Req, CommitEdit(r) PROVE BulkInv'
  BY <1>8, CommitEditKeeps
<1>9. ASSUME NEW r \in Req, NEW b \in Bucket, BeginDeleteBucket(r, b) PROVE BulkInv'
  BY <1>9, BeginDeleteBucketKeeps
<1>10. ASSUME NEW r \in Req, CommitDeleteBucket(r) PROVE BulkInv'
  BY <1>10, CommitDeleteBucketKeeps
<1>11. ASSUME NEW b \in Batch, Expire(b) PROVE BulkInv'
  BY <1>11, ExpireKeeps
<1>12. ASSUME NEW t \in DOMAIN rows, Delete(t) \/ Unlink(t) PROVE BulkInv'
  BY <1>12, DeleteKeeps, UnlinkKeeps
<1>13. ASSUME NEW c \in Category, DeleteCategory(c) PROVE BulkInv'
  BY <1>13, DeleteCategoryKeeps
<1>14. ASSUME NEW u \in Member, RemoveMember(u) PROVE BulkInv'
  BY <1>14, RemoveMemberKeeps
<1>15. CASE BulkNext
  BY <1>2, <1>3, <1>4, <1>5, <1>6, <1>7, <1>8, <1>9, <1>10, <1>11, <1>12, <1>13, <1>14, <1>15
  DEF BulkNext
<1> QED BY <1>1, <1>15

LEMMA BulkInvHolds == BulkSpec => []BulkInv
BY BulkInvInit, BulkInvNext, PTL DEF BulkSpec

-----------------------------------------------------------------------------
(* The theorems.                                                             *)

\* Cash taken for an expense stays with it, whatever bulk changes, undos and
\* edits come together (R13, R14, U5 and sync_linked_take).
THEOREM TakesStay == BulkSpec => []TakeStays
BY BulkInvHolds, PTL DEF BulkInv

\* The CHECK on a row's bucket is never hit (R6, R7, U4).
THEOREM ChecksAreNeverHit == BulkSpec => []CheckNeverHit
BY BulkInvHolds, PTL DEF BulkInv

\* "Each paid their own share" is only for expenses whose shares cover the
\* amount, and nobody is their payer (R16, R17, U5).
THEOREM OwnSharesCovered == BulkSpec => []OwnShareCovered
BY BulkInvHolds, PTL DEF BulkInv

\* What an undo writes over a row that nothing else has written since.
LEMMA ExactIsRestored ==
  ASSUME BulkInv, NEW r \in Req, CommitUndo(r), NEW t \in DOMAIN batches[breq[r].batch].rows,
         t \in DOMAIN rows
  PROVE  LET b == breq[r].batch
             R == batches[b].rows[t]
         IN  /\ b \in Batch
             /\ Exact(b, t) => /\ Same(rows'[t], R.old)
                               /\ R.follows /\ entry[t].linked => entry'[t].payer = R.oldEntry
             /\ ~Holds(rows[t], R.new, batches[b].fields) => rows'[t] = rows[t]
<1> DEFINE q == breq[r]
           b == q.batch
           R == batches[b].rows[t]
           fields == batches[b].fields
<1>1. /\ q.pc = "undo"
      /\ rows'[t] = IF t \in q.restores THEN Restored(rows[t], R.old, fields) ELSE rows[t]
      /\ t \in DOMAIN entry => entry'[t] = IF t \in q.restores /\ R.follows /\ entry[t].linked
                                           THEN [entry[t] EXCEPT !.payer = R.oldEntry] ELSE entry[t]
  BY DEF CommitUndo
<1>2. /\ b \in Batch /\ q.locks = DOMAIN batches[b].rows \cap DOMAIN rows
      /\ \A s \in q.restores : Restorable(b, s)
      /\ \A s \in q.locks : Exact(b, s) => s \in q.restores
  BY <1>1, UnderWay DEF UndoOK
<1>3. R.old \in RowSet /\ R.new \in RowSet /\ rows[t] \in RowSet /\ t \in Txn /\ BatchRowOK(b, t)
  BY <1>2, BatchRowIs, RowIs
<1>4. Restored(R.new, R.old, fields) = R.old
  BY <1>3 DEF BatchRowOK
<1>5. b # 0
  BY <1>2 DEF BulkInv, BulkTypes, Batch
<1>6. entry[t] \in [linked : BOOLEAN, payer : Member \cup {None}] /\ t \in DOMAIN entry
  BY <1>3 DEF BulkInv, BulkTypes
<1>7. t \in q.locks
  BY <1>2
<1> HIDE DEF b, q
<1>8. ASSUME Exact(b, t) PROVE Same(rows'[t], R.old)
  <2>1. t \in q.restores /\ writer[t] = b
    BY <1>2, <1>8, <1>7 DEF Exact
  <2>2. Same(rows[t], R.new)
    BY <2>1, <1>5 DEF BulkInv, WriterOK
  <2>3. Same(Restored(rows[t], R.old, fields), R.old)
    <3> HIDE DEF R, fields
    <3> QED BY <2>2, <1>3, <1>4, RestoredSame
  <2> QED BY <2>1, <2>3, <1>1
<1>9. ASSUME Exact(b, t), R.follows, entry[t].linked PROVE entry'[t].payer = R.oldEntry
  <2>1. t \in q.restores
    BY <1>2, <1>9, <1>7
  <2> HIDE DEF R
  <2> QED BY <2>1, <1>1, <1>6, <1>9
<1>10. ASSUME ~Holds(rows[t], R.new, fields) PROVE rows'[t] = rows[t]
  BY <1>1, <1>2, <1>10 DEF Restorable
<1> QED BY <1>2, <1>8, <1>9, <1>10 DEF b, q

\* An undo gives back exactly what the row held before the batch, and the payer
\* its entry had, when nothing else has written the row since; a row in which
\* another write changed what the batch had set is left alone.
THEOREM UndosAreExact == BulkSpec => UndoIsExact
<1> DEFINE Restores(b, t) ==
             LET R == batches[b].rows[t]
             IN  /\ /\ writer[t] = b /\ ~crossed
                    /\ \A f \in batches[b].fields : R.old[f] \notin gone
                    /\ R.old.bucket = None => rows[t].item \/ rows[t].type = "income"
                    => /\ \A f \in Fields \cup {"mode"} : rows'[t][f] = R.old[f]
                       /\ R.follows /\ entry[t].linked => entry'[t].payer = R.oldEntry
                 /\ ~Holds(rows[t], R.new, batches[b].fields) => rows'[t] = rows[t]
           Step == \A b \in Batch : batches'[b].undone /\ ~batches[b].undone =>
                      \A t \in DOMAIN batches[b].rows \cap DOMAIN rows : Restores(b, t)
<1>1. ASSUME BulkInv, [BulkNext]_bvars PROVE [Step]_bvars
  <2> SUFFICES ASSUME BulkNext, NEW b \in Batch, batches'[b].undone, ~batches[b].undone,
                      NEW t \in DOMAIN batches[b].rows \cap DOMAIN rows
               PROVE  Restores(b, t)
    BY <1>1
  <2>1. batches \in Seq(BatchRec)
    BY <1>1 DEF BulkInv, BulkTypes
  <2>2. b \in DOMAIN batches /\ b \in 1..Len(batches) /\ batches[b] \in BatchRec
    BY <2>1 DEF Batch
  <2>3. batches' # batches
    OBVIOUS
  <2>4. ASSUME NEW r \in Req, CommitBulk(r) PROVE FALSE
    <3>1. PICK rec : batches' = Append(batches, rec)
      BY <2>4 DEF CommitBulk
    <3> QED BY <3>1, <2>1, <2>2
  <2>5. ASSUME NEW c \in Batch, Expire(c) PROVE FALSE
    <3>1. batches' = [batches EXCEPT ![c].old = TRUE] /\ c \in DOMAIN batches
      BY <2>5 DEF Expire, Batch
    <3>2. batches'[b].undone = batches[b].undone
      BY <3>1, <2>2 DEF BatchRec
    <3> QED BY <3>2
  <2>6. PICK r \in Req : CommitUndo(r)
    <3>1. ASSUME NEW r \in Req PROVE ~Fail(r) /\ ~CommitEdit(r) /\ ~CommitDeleteBucket(r)
      BY <2>3 DEF Fail, CommitEdit, CommitDeleteBucket
    <3>2. ASSUME NEW r \in Req, NEW S, NEW ch, NEW moveBill PROVE ~BeginBulk(r, S, ch, moveBill)
      BY <2>3 DEF BeginBulk
    <3>3. ASSUME NEW r \in Req, NEW c PROVE ~BeginUndo(r, c) /\ ~BeginDeleteBucket(r, c)
      BY <2>3 DEF BeginUndo, BeginDeleteBucket
    <3>4. ASSUME NEW r \in Req, NEW u, NEW s, NEW e PROVE ~BeginEdit(r, u, s, e)
      BY <2>3 DEF BeginEdit
    <3>5. ASSUME NEW s PROVE ~Delete(s) /\ ~Unlink(s) /\ ~DeleteCategory(s) /\ ~RemoveMember(s)
      BY <2>3 DEF Delete, Unlink, DeleteCategory, RemoveMember
    <3> QED BY <2>4, <2>5, <3>1, <3>2, <3>3, <3>4, <3>5 DEF BulkNext
  <2>7. b = breq[r].batch
    <3>1. batches' = [batches EXCEPT ![breq[r].batch].undone = TRUE]
      BY <2>6 DEF CommitUndo
    <3> QED BY <3>1, <2>2
  <2>8. LET R == batches[b].rows[t]
        IN  /\ Exact(b, t) => /\ Same(rows'[t], R.old)
                              /\ R.follows /\ entry[t].linked => entry'[t].payer = R.oldEntry
            /\ ~Holds(rows[t], R.new, batches[b].fields) => rows'[t] = rows[t]
    BY <1>1, <2>6, <2>7, ExactIsRestored
  <2>9. \A x, y : Same(x, y) => \A f \in Fields \cup {"mode"} : x[f] = y[f]
    <3>1. \A f \in Fields \cup {"mode"} : f = "bucket" \/ f = "category" \/ f = "payer"
                                          \/ f = "method" \/ f = "mode"
      BY DEF Fields
    <3> QED BY <3>1 DEF Same
  <2> QED BY <2>8, <2>9 DEF Exact
<1> QED BY <1>1, BulkInvHolds, PTL DEF BulkSpec, UndoIsExact

(***************************************************************************)
(* The device, and what is kept of it.                                     *)
(***************************************************************************)
Parts == {"cache", "fetch", "writes", "queue", "held", "toast", "online", "owed"}
Toasts == [row : RowIds \cup {None}, paused : BOOLEAN]

\* The columns that the holds need; the queue is a sequence of something.
IsDevice(d) ==
    /\ d = [p \in Parts |-> d[p]]
    /\ d.held \in [RowIds -> {"no", "held", "due"}]
    /\ d.owed \in [RowIds -> Int]
    /\ d.toast \in {None} \cup Toasts
    /\ \E S : d.queue \in Seq(S)

HoldsOK(d) == \A r \in RowIds : d.owed[r] = IF d.held[r] = "no" THEN 0 ELSE 1
ToastOK(d) == d.toast # None /\ d.toast.row # None => d.held[d.toast.row] # "no"

\* What is under way: a write, a row of the queue, a refetch that will see the server as it is.
Busy(d) == d.writes # {} \/ d.queue # <<>>
Truthful(d, real) ==
    \/ Busy(d)
    \/ d.fetch.at = "asked"
    \/ d.fetch.at = "read" /\ d.fetch.rows = real
    \/ d.fetch = Idle /\ d.cache = real

RowsInv == IsDevice(dev) /\ HoldsOK(dev) /\ ToastOK(dev) /\ Truthful(dev, server)

(***************************************************************************)
(* What the helpers do to a device.                                        *)
(***************************************************************************)
LEMMA AppendKeepsSeq ==
  ASSUME NEW S, NEW q \in Seq(S), NEW x
  PROVE  Append(q, x) \in Seq(S \cup {x}) /\ Append(q, x) # <<>>
<1>1. q \in Seq(S \cup {x}) /\ x \in S \cup {x}
  OBVIOUS
<1> QED BY <1>1

LEMMA TailIsSeq ==
  ASSUME NEW S, NEW q \in Seq(S), q # <<>>
  PROVE  Tail(q) \in Seq(S)
OBVIOUS

\* The columns a helper does not name stay.
SameHolds(d, e) == e.held = d.held /\ e.owed = d.owed /\ e.toast = d.toast

LEMMA EnqueuedIs ==
  ASSUME NEW d, IsDevice(d), NEW r, NEW kind, NEW body
  PROVE  LET e == Enqueued(d, r, kind, body) IN IsDevice(e) /\ SameHolds(d, e) /\ Busy(e)
<1> DEFINE q == [row |-> r, kind |-> kind, body |-> body]
           e == [d EXCEPT !.queue = Append(@, q)]
<1>1. PICK S : d.queue \in Seq(S)
  BY DEF IsDevice
<1>2. e = [p \in Parts |-> IF p = "queue" THEN Append(d.queue, q) ELSE d[p]]
  BY DEF IsDevice, Parts
<1> HIDE DEF e, q
<1>3. e.queue = Append(d.queue, q) /\ e = [p \in Parts |-> e[p]] /\ \A p \in Parts \ {"queue"} : e[p] = d[p]
  BY <1>2 DEF Parts
<1>4. e.queue \in Seq(S \cup {q}) /\ e.queue # <<>>
  BY <1>1, <1>3, AppendKeepsSeq
<1>5. SameHolds(d, e)
  BY <1>3 DEF SameHolds, Parts
<1>6. IsDevice(e) /\ Busy(e)
  BY <1>3, <1>4, <1>5 DEF IsDevice, Busy, SameHolds
<1> QED BY <1>5, <1>6 DEF Enqueued, e, q

LEMMA SentIs ==
  ASSUME NEW d, IsDevice(d), NEW r, NEW kind, NEW body, NEW way, NEW snap
  PROVE  LET e == Sent(d, r, kind, body, way, snap) IN IsDevice(e) /\ SameHolds(d, e) /\ Busy(e)
<1> DEFINE w == [n |-> FreeNumber(d.writes), row |-> r, kind |-> kind, body |-> body, way |-> way,
                 snap |-> snap, stage |-> "sent"]
           e == [d EXCEPT !.writes = @ \cup {w}]
<1> HIDE DEF w
<1>1. e = [p \in Parts |-> IF p = "writes" THEN d.writes \cup {w} ELSE d[p]]
  BY DEF IsDevice, Parts
<1> HIDE DEF e
<1>2. e.writes = d.writes \cup {w} /\ e = [p \in Parts |-> e[p]] /\ \A p \in Parts \ {"writes"} : e[p] = d[p]
  BY <1>1 DEF Parts
<1>3. SameHolds(d, e) /\ e.queue = d.queue
  BY <1>2 DEF SameHolds, Parts
<1>4. IsDevice(e) /\ Busy(e)
  BY <1>2, <1>3 DEF IsDevice, Busy, SameHolds
<1> QED BY <1>3, <1>4 DEF Sent, e, w

\* The optimistic patch, and a refetch cancelled.
LEMMA PatchedIs ==
  ASSUME NEW d, IsDevice(d), NEW r, NEW kind, NEW body
  PROVE  /\ IsDevice(Patched(d, r, kind, body)) /\ SameHolds(d, Patched(d, r, kind, body))
         /\ IsDevice([Patched(d, r, kind, body) EXCEPT !.fetch = Idle])
         /\ SameHolds(d, [Patched(d, r, kind, body) EXCEPT !.fetch = Idle])
<1> DEFINE c == [d.cache EXCEPT ![r] = IF kind = "delete" \/ @ = None THEN None ELSE body]
           e == Patched(d, r, kind, body)
           f == [e EXCEPT !.fetch = Idle]
<1>1. e = [d EXCEPT !.cache = c]
  BY DEF Patched
<1> HIDE DEF c, e
<1>2. \A p \in Parts \ {"cache"} : e[p] = d[p]
  BY <1>1 DEF IsDevice, Parts
<1>3. e = [p \in Parts |-> e[p]]
  BY <1>1 DEF IsDevice, Parts
<1>4. SameHolds(d, e) /\ e.queue = d.queue
  BY <1>2 DEF SameHolds, Parts
<1>5. IsDevice(e)
  BY <1>3, <1>4 DEF IsDevice, SameHolds
<1>6. f = [p \in Parts |-> f[p]] /\ \A p \in Parts \ {"fetch"} : f[p] = e[p]
  BY <1>3 DEF Parts
<1> HIDE DEF f
<1>7. SameHolds(d, f) /\ f.queue = e.queue
  BY <1>6, <1>4 DEF SameHolds, Parts
<1>8. IsDevice(f)
  BY <1>5, <1>6, <1>7, <1>4 DEF IsDevice, SameHolds
<1> QED BY <1>4, <1>5, <1>7, <1>8 DEF e, f

LEMMA PerformIs ==
  ASSUME NEW d, IsDevice(d), NEW r, NEW kind, NEW body
  PROVE  LET e == Perform(d, r, kind, body) IN IsDevice(e) /\ SameHolds(d, e) /\ Busy(e)
<1> DEFINE p == [Patched(d, r, kind, body) EXCEPT !.fetch = Idle]
<1>1. IsDevice(p) /\ SameHolds(d, p)
  BY PatchedIs
<1>2. Perform(d, r, kind, body) = IF d.online THEN Sent(p, r, kind, body, "action", d.cache) ELSE Enqueued(p, r, kind, body)
  BY DEF Perform
<1> HIDE DEF p
<1>3. LET e == Sent(p, r, kind, body, "action", d.cache) IN IsDevice(e) /\ SameHolds(p, e) /\ Busy(e)
  BY <1>1, SentIs
<1>4. LET e == Enqueued(p, r, kind, body) IN IsDevice(e) /\ SameHolds(p, e) /\ Busy(e)
  BY <1>1, EnqueuedIs
<1> QED BY <1>1, <1>2, <1>3, <1>4 DEF SameHolds

LEMMA SendOnTeardownIs ==
  ASSUME NEW d, IsDevice(d), NEW r
  PROVE  LET e == SendOnTeardown(d, r) IN IsDevice(e) /\ SameHolds(d, e) /\ Busy(e)
<1> DEFINE p == Patched(d, r, "delete", None)
<1>1. IsDevice(p) /\ SameHolds(d, p)
  BY PatchedIs
<1> HIDE DEF p
<1>2. LET e == Sent(p, r, "delete", None, "teardown", d.cache) IN IsDevice(e) /\ SameHolds(p, e) /\ Busy(e)
  BY <1>1, SentIs
<1> QED BY <1>1, <1>2 DEF SendOnTeardown, SameHolds, p

\* A hold that ends, and one that begins.
Released(d, r) == [d EXCEPT !.held[r] = "no", !.owed[r] = @ - 1]
Taken(d, r) == [d EXCEPT !.held[r] = "held", !.owed[r] = @ + 1]

LEMMA ReleasedIs ==
  ASSUME NEW d, IsDevice(d), HoldsOK(d), NEW r \in RowIds, d.held[r] # "no"
  PROVE  LET e == Released(d, r) IN
         /\ IsDevice(e) /\ HoldsOK(e) /\ e.held = [d.held EXCEPT ![r] = "no"] /\ e.toast = d.toast
         /\ e.writes = d.writes /\ e.queue = d.queue /\ e.fetch = d.fetch /\ e.cache = d.cache
<1> DEFINE e == Released(d, r)
<1>1. e = [p \in Parts |-> IF p = "held" THEN [d.held EXCEPT ![r] = "no"]
                           ELSE IF p = "owed" THEN [d.owed EXCEPT ![r] = @ - 1] ELSE d[p]]
  BY DEF IsDevice, Parts, Released
<1> HIDE DEF e
<1>2. /\ e.held = [d.held EXCEPT ![r] = "no"] /\ e.owed = [d.owed EXCEPT ![r] = @ - 1]
      /\ e.toast = d.toast /\ e.writes = d.writes /\ e.queue = d.queue /\ e.fetch = d.fetch /\ e.cache = d.cache
      /\ e = [p \in Parts |-> e[p]]
  BY <1>1 DEF Parts
<1>3. IsDevice(e)
  BY <1>2 DEF IsDevice
<1>4. HoldsOK(e)
  <2> SUFFICES ASSUME NEW x \in RowIds PROVE e.owed[x] = IF e.held[x] = "no" THEN 0 ELSE 1
    BY DEF HoldsOK
  <2>1. d.owed[x] = (IF d.held[x] = "no" THEN 0 ELSE 1) /\ d.owed[r] = (IF d.held[r] = "no" THEN 0 ELSE 1)
    BY DEF HoldsOK
  <2>2. CASE x = r
    BY <2>1, <2>2, <1>2 DEF IsDevice
  <2>3. CASE x # r
    BY <2>1, <2>3, <1>2 DEF IsDevice
  <2> QED BY <2>2, <2>3
<1> QED BY <1>2, <1>3, <1>4 DEF e

LEMMA TakenIs ==
  ASSUME NEW d, IsDevice(d), HoldsOK(d), NEW r \in RowIds, d.held[r] = "no"
  PROVE  LET e == Taken(d, r) IN
         /\ IsDevice(e) /\ HoldsOK(e) /\ e.held = [d.held EXCEPT ![r] = "held"] /\ e.toast = d.toast
         /\ e.writes = d.writes /\ e.queue = d.queue /\ e.fetch = d.fetch /\ e.cache = d.cache
<1> DEFINE e == Taken(d, r)
<1>1. e = [p \in Parts |-> IF p = "held" THEN [d.held EXCEPT ![r] = "held"]
                           ELSE IF p = "owed" THEN [d.owed EXCEPT ![r] = @ + 1] ELSE d[p]]
  BY DEF IsDevice, Parts, Taken
<1> HIDE DEF e
<1>2. /\ e.held = [d.held EXCEPT ![r] = "held"] /\ e.owed = [d.owed EXCEPT ![r] = @ + 1]
      /\ e.toast = d.toast /\ e.writes = d.writes /\ e.queue = d.queue /\ e.fetch = d.fetch /\ e.cache = d.cache
      /\ e = [p \in Parts |-> e[p]]
  BY <1>1 DEF Parts
<1>3. IsDevice(e)
  BY <1>2 DEF IsDevice
<1>4. HoldsOK(e)
  <2> SUFFICES ASSUME NEW x \in RowIds PROVE e.owed[x] = IF e.held[x] = "no" THEN 0 ELSE 1
    BY DEF HoldsOK
  <2>1. d.owed[x] = (IF d.held[x] = "no" THEN 0 ELSE 1) /\ d.owed[r] = (IF d.held[r] = "no" THEN 0 ELSE 1)
    BY DEF HoldsOK
  <2>2. CASE x = r
    BY <2>1, <2>2, <1>2 DEF IsDevice
  <2>3. CASE x # r
    BY <2>1, <2>3, <1>2 DEF IsDevice
  <2> QED BY <2>2, <2>3
<1> QED BY <1>2, <1>3, <1>4 DEF e

\* Truthful says nothing of the holds.
SameRows(d, e) == e.writes = d.writes /\ e.queue = d.queue /\ e.fetch = d.fetch /\ e.cache = d.cache

\* Ending a hold: it is sent, and only it ends.
Ends(d, e, r) ==
    IsDevice(e) /\ HoldsOK(e) /\ e.held = [d.held EXCEPT ![r] = "no"] /\ Busy(e)

LEMMA FlushOnTimerIs ==
  ASSUME NEW d, IsDevice(d), HoldsOK(d), NEW r \in RowIds, d.held[r] # "no"
  PROVE  LET e == FlushOnTimer(d, r) IN Ends(d, e, r) /\ e.toast = d.toast
<1> DEFINE g == Released(d, r)
<1>1. IsDevice(g) /\ HoldsOK(g) /\ g.held = [d.held EXCEPT ![r] = "no"] /\ g.toast = d.toast
  BY ReleasedIs
<1>2. FlushOnTimer(d, r) = Perform(g, r, "delete", None)
  BY DEF FlushOnTimer, Released
<1> HIDE DEF g
<1> DEFINE e == Perform(g, r, "delete", None)
<1>3. IsDevice(e) /\ SameHolds(g, e) /\ Busy(e)
  BY <1>1, PerformIs
<1> HIDE DEF e
<1>4. HoldsOK(e) /\ e.held = [d.held EXCEPT ![r] = "no"] /\ e.toast = d.toast
  BY <1>1, <1>3 DEF SameHolds, HoldsOK
<1> QED BY <1>2, <1>3, <1>4 DEF Ends, e

\* Another toast, or none: nothing is held that was not, what its Undo could bring back is sent if its time is over.
Toasted(d, e, t) ==
    /\ IsDevice(e) /\ HoldsOK(e) /\ e.toast = t
    /\ \A r \in RowIds : e.held[r] = d.held[r] \/ (d.toast # None /\ d.toast.row = r)
    /\ SameRows(d, e) \/ Busy(e)

LEMMA SettleIs ==
  ASSUME NEW d, IsDevice(d), HoldsOK(d), NEW t \in {None} \cup Toasts, NEW r \in RowIds \cup {None},
         r # None => d.toast # None /\ d.toast.row = r, None \notin RowIds
  PROVE  LET e == Settle([d EXCEPT !.toast = t], r) IN
         Toasted(d, e, t) /\ \A x \in RowIds : x # r => e.held[x] = d.held[x]
<1> DEFINE g == [d EXCEPT !.toast = t]
<1>1. g = [p \in Parts |-> IF p = "toast" THEN t ELSE d[p]]
  BY DEF IsDevice, Parts
<1> HIDE DEF g
<1>2. /\ g.held = d.held /\ g.owed = d.owed /\ g.toast = t /\ SameRows(d, g) /\ g = [p \in Parts |-> g[p]]
  BY <1>1 DEF Parts, SameRows
<1>3. IsDevice(g) /\ HoldsOK(g)
  BY <1>2 DEF IsDevice, HoldsOK, SameRows
<1>4. CASE r # None /\ g.held[r] = "due"
  <2>1. r \in RowIds /\ g.held[r] # "no"
    BY <1>4
  <2>2. LET e == FlushOnTimer(g, r) IN Ends(g, e, r) /\ e.toast = g.toast
    BY <2>1, <1>3, FlushOnTimerIs
  <2>3. Settle(g, r) = FlushOnTimer(g, r)
    BY <1>4 DEF Settle
  <2>4. \A x \in RowIds : x # r => FlushOnTimer(g, r).held[x] = d.held[x]
    BY <2>2, <1>2 DEF Ends, IsDevice
  <2> QED BY <1>4, <1>2, <2>2, <2>3, <2>4 DEF Toasted, Ends, g
<1>5. CASE ~(r # None /\ g.held[r] = "due")
  <2>1. Settle(g, r) = g
    BY <1>5 DEF Settle
  <2> QED BY <2>1, <1>2, <1>3 DEF Toasted, g
<1> QED BY <1>4, <1>5

LEMMA ShowIs ==
  ASSUME NEW d, IsDevice(d), HoldsOK(d), NEW r \in RowIds \cup {None}, None \notin RowIds
  PROVE  Toasted(d, Show(d, r), [row |-> r, paused |-> FALSE])
<1> DEFINE t == [row |-> r, paused |-> FALSE]
           old == IF d.toast = None THEN None ELSE d.toast.row
<1>1. t \in {None} \cup Toasts
  BY DEF Toasts
<1>2. old \in RowIds \cup {None} /\ (old # None => d.toast # None /\ d.toast.row = old)
  BY DEF IsDevice, Toasts
<1>3. Show(d, r) = Settle([d EXCEPT !.toast = t], old)
  BY DEF Show
<1> HIDE DEF t, old
<1>4. Toasted(d, Settle([d EXCEPT !.toast = t], old), t)
  BY <1>1, <1>2, SettleIs
<1> QED BY <1>3, <1>4 DEF t

LEMMA ClosedIs ==
  ASSUME NEW d, IsDevice(d), HoldsOK(d), None \notin RowIds
  PROVE  Toasted(d, Closed(d), None)
<1>1. CASE d.toast = None
  BY <1>1 DEF Closed, Toasted, SameRows
<1>2. CASE d.toast # None
  <2>1. d.toast.row \in RowIds \cup {None} /\ None \in {None} \cup Toasts
    BY <1>2 DEF IsDevice, Toasts
  <2>2. Toasted(d, Settle([d EXCEPT !.toast = None], d.toast.row), None)
    BY <1>2, <2>1, SettleIs
  <2> QED BY <2>2, <1>2 DEF Closed
<1> QED BY <1>1, <1>2

\* Hiding the page: the hold ends and is sent, and the toast goes.
AfterHiding(d, e) ==
    /\ IsDevice(e) /\ HoldsOK(e) /\ ToastOK(e)
    /\ e = d \/ Busy(e)

LEMMA FlushOnHideIs ==
  ASSUME NEW d, IsDevice(d), HoldsOK(d), ToastOK(d), NEW r \in RowIds, None \notin RowIds
  PROVE  AfterHiding(d, FlushOnHide(d, r))
<1>1. CASE d.held[r] = "no"
  BY <1>1 DEF FlushOnHide, AfterHiding
<1>2. CASE d.held[r] # "no"
  <2> DEFINE g == Closed(Released(d, r))
  <2>1. IsDevice(Released(d, r)) /\ HoldsOK(Released(d, r))
    BY <1>2, ReleasedIs
  <2>2. IsDevice(g) /\ HoldsOK(g) /\ g.toast = None
    <3>1. Toasted(Released(d, r), g, None)
      BY <2>1, ClosedIs
    <3> QED BY <3>1 DEF Toasted
  <2>3. FlushOnHide(d, r) = IF g.online THEN SendOnTeardown(g, r) ELSE Perform(g, r, "delete", None)
    BY <1>2 DEF FlushOnHide, Released
  <2> HIDE DEF g
  <2>4. LET e == SendOnTeardown(g, r) IN IsDevice(e) /\ SameHolds(g, e) /\ Busy(e)
    BY <2>2, SendOnTeardownIs
  <2>5. LET e == Perform(g, r, "delete", None) IN IsDevice(e) /\ SameHolds(g, e) /\ Busy(e)
    BY <2>2, PerformIs
  <2> QED BY <2>2, <2>3, <2>4, <2>5 DEF SameHolds, AfterHiding, HoldsOK, ToastOK
<1> QED BY <1>1, <1>2

(***************************************************************************)
(* The page is hidden: every hold is flushed, one after the other.  The    *)
(* recursive function inside FoldSet, and that it exists.                  *)
(***************************************************************************)
IsHiding(h, d, S) ==
    h = [s \in SUBSET S |-> IF s = {} THEN d ELSE FlushOnHide(h[s \ {Some(s)}], Some(s))]

LEMMA HidingAgrees ==
  ASSUME NEW d, NEW S, NEW h, IsHiding(h, d, S), NEW T, NEW k, IsHiding(k, d, T),
         NEW U, IsFiniteSet(U), U \subseteq S, U \subseteq T
  PROVE  h[U] = k[U]
<1> DEFINE Bad == {s \in SUBSET U : h[s] # k[s]}
<1>1. SUFFICES ASSUME Bad # {} PROVE FALSE
  OBVIOUS
<1>2. \A s \in SUBSET U : IsFiniteSet(s)
  BY FS_Subset
<1>3. PICK s \in Bad : \A t \in Bad : Cardinality(s) <= Cardinality(t)
  <2>1. \A t \in Bad : IsFiniteSet(t)
    BY <1>2
  <2> HIDE DEF Bad
  <2> QED BY <1>1, <2>1, SmallestSet
<1>4. /\ h[s] = IF s = {} THEN d ELSE FlushOnHide(h[s \ {Some(s)}], Some(s))
      /\ k[s] = IF s = {} THEN d ELSE FlushOnHide(k[s \ {Some(s)}], Some(s))
  <2>1. s \in SUBSET S /\ s \in SUBSET T
    OBVIOUS
  <2>2. \A x \in SUBSET S : h[x] = IF x = {} THEN d ELSE FlushOnHide(h[x \ {Some(x)}], Some(x))
    BY Zenon DEF IsHiding
  <2>3. \A x \in SUBSET T : k[x] = IF x = {} THEN d ELSE FlushOnHide(k[x \ {Some(x)}], Some(x))
    BY Zenon DEF IsHiding
  <2> QED BY <2>1, <2>2, <2>3
<1>5. s # {}
  BY <1>4
<1>6. /\ Some(s) \in s
      /\ ~(Cardinality(s) <= Cardinality(s \ {Some(s)}))
  BY <1>2, <1>5, OneLess
<1>7. s \ {Some(s)} \in SUBSET U /\ s \ {Some(s)} \notin Bad
  BY <1>3, <1>6
<1> QED BY <1>4, <1>5, <1>6, <1>7

LEMMA HidingExists ==
  ASSUME NEW d, NEW S, IsFiniteSet(S)
  PROVE  \E h : IsHiding(h, d, S)
<1> DEFINE Bad == {s \in SUBSET S : ~\E h : IsHiding(h, d, s)}
<1>1. SUFFICES ASSUME Bad # {} PROVE FALSE
  OBVIOUS
<1>2. \A s \in SUBSET S : IsFiniteSet(s)
  BY FS_Subset
<1>3. PICK s \in Bad : \A t \in Bad : Cardinality(s) <= Cardinality(t)
  <2>1. \A t \in Bad : IsFiniteSet(t)
    BY <1>2
  <2> HIDE DEF Bad
  <2> QED BY <1>1, <2>1, SmallestSet
<1> DEFINE Fn(t) == CHOOSE h : IsHiding(h, d, t)
           Val(t) == Fn(t)[t]
           new == [t \in SUBSET s |-> IF t = {} THEN d ELSE FlushOnHide(Val(t \ {Some(t)}), Some(t))]
\* A smaller set has its function.
<1>4. ASSUME NEW t \in SUBSET s, t # s PROVE IsHiding(Fn(t), d, t)
  <2>1. Cardinality(t) < Cardinality(s)
    <3>1. IsFiniteSet(s) /\ Cardinality(s) \in Nat /\ IsFiniteSet(t) /\ Cardinality(t) \in Nat
      BY <1>2, FS_CardinalityType
    <3> QED BY <3>1, <1>4, FS_Subset
  <2>2. t \notin Bad
    <3>1. Cardinality(s) \in Nat /\ Cardinality(t) \in Nat
      BY <1>2, FS_CardinalityType
    <3> HIDE DEF Bad
    <3> QED BY <2>1, <1>3, <3>1
  <2>3. \E h : IsHiding(h, d, t)
    BY <2>2
  <2> QED BY <2>3
<1>5. ASSUME NEW t \in SUBSET s, t # {} PROVE new[t \ {Some(t)}] = Val(t \ {Some(t)})
  <2> DEFINE u == t \ {Some(t)}
  <2>1. Some(t) \in t /\ u \in SUBSET s /\ u # s
    BY <1>5, <1>2, OneLess
  <2>2. IsHiding(Fn(u), d, u)
    BY <2>1, <1>4
  <2>3. Fn(u)[u] = IF u = {} THEN d ELSE FlushOnHide(Fn(u)[u \ {Some(u)}], Some(u))
    <3> HIDE DEF u, Fn
    <3>1. u \in SUBSET u
      OBVIOUS
    <3>2. \A x \in SUBSET u : Fn(u)[x] = IF x = {} THEN d ELSE FlushOnHide(Fn(u)[x \ {Some(x)}], Some(x))
      BY <2>2, Zenon DEF IsHiding
    <3> QED BY <3>1, <3>2
  <2>new. new[u] = IF u = {} THEN d ELSE FlushOnHide(Val(u \ {Some(u)}), Some(u))
    <3> HIDE DEF u, Val
    <3> QED BY <2>1
  <2>val. Val(u) = Fn(u)[u]
    OBVIOUS
  <2>4. CASE u = {}
    <3>1. new[u] = Val(u)
      <4> HIDE DEF u, Fn, Val, new
      <4> QED BY <2>new, <2>val, <2>3, <2>4
    <3> QED BY <3>1
  <2>5. CASE u # {}
    <3> DEFINE v == u \ {Some(u)}
    <3>1. IsFiniteSet(u) /\ IsFiniteSet(v) /\ v \in SUBSET s /\ v # s /\ v \subseteq u
      BY <2>1, <2>5, <1>2, OneLess
    <3>2. IsHiding(Fn(v), d, v)
      BY <3>1, <1>4
    <3>3. Fn(u)[v] = Fn(v)[v]
      <4> HIDE DEF u, v, Fn
      <4> QED BY <3>1, <3>2, <2>2, HidingAgrees
    <3>4. Val(v) = Fn(v)[v]
      OBVIOUS
    <3>5. new[u] = Val(u)
      <4> HIDE DEF u, Fn, Val, new
      <4> QED BY <2>new, <2>val, <2>3, <2>5, <3>3, <3>4
    <3> QED BY <3>5
  <2> QED BY <2>4, <2>5
<1>6. IsHiding(new, d, s)
  <2>1. \A t \in SUBSET s :
           (IF t = {} THEN d ELSE FlushOnHide(Val(t \ {Some(t)}), Some(t)))
             = (IF t = {} THEN d ELSE FlushOnHide(new[t \ {Some(t)}], Some(t)))
    <3> HIDE DEF Val, new
    <3> QED BY <1>5
  <2>2. new = [t \in SUBSET s |-> IF t = {} THEN d ELSE FlushOnHide(new[t \ {Some(t)}], Some(t))]
    <3> HIDE DEF Val
    <3> QED BY <2>1
  <2> HIDE DEF new
  <2> QED BY <2>2 DEF IsHiding
<1> QED BY <1>6

\* The fold of Hide is that function, at the set.
LEMMA HidingIs ==
  ASSUME NEW d, NEW S, IsFiniteSet(S)
  PROVE  \E h : IsHiding(h, d, S) /\ FoldSet(LAMBDA r, e : FlushOnHide(e, r), d, S) = h[S]
<1> DEFINE k == CHOOSE h : IsHiding(h, d, S)
<1>1. IsHiding(k, d, S)
  BY HidingExists
<1>2. FoldSet(LAMBDA r, e : FlushOnHide(e, r), d, S) = k[S]
  BY DEF FoldSet, MapThenFoldSet, IsHiding, Some
<1> QED BY <1>1, <1>2

\* Whatever the order, every hold ends once, and something is under way if there was one.
LEMMA AllHidden ==
  ASSUME NEW d, IsDevice(d), HoldsOK(d), ToastOK(d), NEW S \in SUBSET RowIds, IsFiniteSet(S), None \notin RowIds
  PROVE  AfterHiding(d, FoldSet(LAMBDA r, e : FlushOnHide(e, r), d, S))
<1>1. PICK h : IsHiding(h, d, S) /\ FoldSet(LAMBDA r, e : FlushOnHide(e, r), d, S) = h[S]
  BY HidingIs
<1> DEFINE Bad == {s \in SUBSET S : ~AfterHiding(d, h[s])}
<1>2. SUFFICES ASSUME Bad # {} PROVE FALSE
  BY <1>1
<1>3. \A s \in SUBSET S : IsFiniteSet(s)
  BY FS_Subset
<1>4. PICK s \in Bad : \A t \in Bad : Cardinality(s) <= Cardinality(t)
  <2>1. \A t \in Bad : IsFiniteSet(t)
    BY <1>3
  <2> HIDE DEF Bad
  <2> QED BY <1>2, <2>1, SmallestSet
<1>5. h[s] = IF s = {} THEN d ELSE FlushOnHide(h[s \ {Some(s)}], Some(s))
  <2>1. \A x \in SUBSET S : h[x] = IF x = {} THEN d ELSE FlushOnHide(h[x \ {Some(x)}], Some(x))
    BY <1>1, Zenon DEF IsHiding
  <2> QED BY <2>1
<1>6. s # {}
  BY <1>5 DEF AfterHiding
<1>7. Some(s) \in s /\ ~(Cardinality(s) <= Cardinality(s \ {Some(s)}))
  BY <1>3, <1>6, OneLess
<1>8. AfterHiding(d, h[s \ {Some(s)}])
  <2>1. s \ {Some(s)} \in SUBSET S /\ s \ {Some(s)} \notin Bad
    BY <1>4, <1>7
  <2> QED BY <2>1
<1> DEFINE g == h[s \ {Some(s)}]
<1>9. IsDevice(g) /\ HoldsOK(g) /\ ToastOK(g)
  BY <1>8 DEF AfterHiding
<1>10. Some(s) \in RowIds
  BY <1>7
<1> HIDE DEF g
<1>11. AfterHiding(g, FlushOnHide(g, Some(s)))
  BY <1>9, <1>10, FlushOnHideIs
<1>12. AfterHiding(d, FlushOnHide(g, Some(s)))
  BY <1>8, <1>11 DEF AfterHiding, g
<1> QED BY <1>12, <1>5, <1>6 DEF g

(***************************************************************************)
(* The steps.                                                              *)
(***************************************************************************)
LEMMA NoneIsNoRow == None \notin RowIds /\ IsFiniteSet(RowIds)
BY ActivityRowsAssumption

LEMMA RowsInitInv == RowsInit => RowsInv
<1> SUFFICES ASSUME RowsInit PROVE RowsInv
  OBVIOUS
<1> USE DEF RowsInit
<1>1. /\ dev = [p \in Parts |-> dev[p]]
      /\ dev.held = [r \in RowIds |-> "no"] /\ dev.owed = [r \in RowIds |-> 0] /\ dev.toast = None
      /\ dev.queue = <<>> /\ dev.fetch = Idle /\ dev.cache = server
  BY DEF Parts
<1>2. IsDevice(dev)
  <2>1. dev.queue \in Seq({})
    BY <1>1
  <2>2. dev.held \in [RowIds -> {"no", "held", "due"}] /\ dev.owed \in [RowIds -> Int]
    BY <1>1
  <2>3. dev.toast \in {None} \cup Toasts
    BY <1>1
  <2>4. \E S : dev.queue \in Seq(S)
    BY <2>1
  <2> QED BY <1>1, <2>2, <2>3, <2>4 DEF IsDevice
<1>3. HoldsOK(dev) /\ ToastOK(dev) /\ Truthful(dev, server)
  BY <1>1 DEF HoldsOK, ToastOK, Truthful
<1> QED BY <1>2, <1>3 DEF RowsInv

\* What a step leaves to be shown: the device in order, and something under way, or the rows as they were.
LEMMA BusyIsTruthful == ASSUME NEW d, Busy(d), NEW real PROVE Truthful(d, real)
BY DEF Truthful

\* A shown row is not held.
LEMMA ShownIsFree == ASSUME RowsInv, NEW r \in RowIds, Shown(r) # None PROVE dev.held[r] = "no"
BY DEF Shown, Hidden

\* A toast that replaces another, or the end of one: Undo works on the row it names.
LEMMA ToastedIsOK ==
  ASSUME NEW d, NEW e, NEW t, Toasted(d, e, t), t # None => t.row = None \/ e.held[t.row] # "no"
  PROVE  IsDevice(e) /\ HoldsOK(e) /\ ToastOK(e) /\ (SameRows(d, e) \/ Busy(e))
BY DEF Toasted, ToastOK

LEMMA DeleteRowStep == ASSUME RowsInv, NEW r \in RowIds, DeleteRow(r) PROVE RowsInv'
<1> DEFINE g == Taken(dev, r)
           e == Show(g, r)
<1>1. dev.held[r] = "no" /\ dev' = e /\ server' = server
  BY ShownIsFree DEF DeleteRow, Taken
<1>2. IsDevice(dev) /\ HoldsOK(dev) /\ ToastOK(dev) /\ Truthful(dev, server)
  BY DEF RowsInv
<1>3. /\ IsDevice(g) /\ HoldsOK(g) /\ g.held = [dev.held EXCEPT ![r] = "held"] /\ g.toast = dev.toast
      /\ SameRows(dev, g)
  BY <1>1, <1>2, TakenIs DEF SameRows
<1> HIDE DEF g
<1> DEFINE t == [row |-> r, paused |-> FALSE]
<1>4. Toasted(g, e, t)
  BY <1>3, ShowIs, NoneIsNoRow
<1> HIDE DEF e
<1>5. e.held[r] # "no"
  <2>1. ~(dev.toast # None /\ dev.toast.row = r)
    BY <1>1, <1>2, NoneIsNoRow DEF ToastOK
  <2>2. g.held[r] = "held"
    BY <1>2, <1>3 DEF IsDevice
  <2> QED BY <2>1, <2>2, <1>3, <1>4 DEF Toasted
<1>6. IsDevice(e) /\ HoldsOK(e) /\ ToastOK(e) /\ (SameRows(g, e) \/ Busy(e))
  <2>1. t.row = r
    OBVIOUS
  <2> HIDE DEF t
  <2> QED BY <1>4, <1>5, <2>1, ToastedIsOK
<1>7. Truthful(e, server)
  BY <1>2, <1>3, <1>6 DEF Truthful, SameRows, Busy
<1> QED BY <1>1, <1>6, <1>7 DEF RowsInv

LEMMA UndoStep == ASSUME RowsInv, Undo PROVE RowsInv'
<1> DEFINE r == dev.toast.row
           g == Released(dev, r)
           e == Closed(g)
<1>1. IsDevice(dev) /\ HoldsOK(dev) /\ ToastOK(dev) /\ Truthful(dev, server)
  BY DEF RowsInv
<1>2. dev.toast # None /\ r \in RowIds /\ dev.held[r] # "no"
  BY <1>1 DEF Undo, ToastOK, IsDevice, Toasts
<1>3. dev' = e /\ server' = server
  BY <1>2 DEF Undo, Moved, Released
<1>4. IsDevice(g) /\ HoldsOK(g) /\ SameRows(dev, g)
  BY <1>1, <1>2, ReleasedIs DEF SameRows
<1> HIDE DEF g, r
<1>5. Toasted(g, e, None)
  BY <1>4, ClosedIs, NoneIsNoRow
<1> HIDE DEF e
<1>6. IsDevice(e) /\ HoldsOK(e) /\ ToastOK(e) /\ (SameRows(g, e) \/ Busy(e))
  BY <1>5, ToastedIsOK
<1>7. Truthful(e, server)
  BY <1>1, <1>4, <1>6 DEF Truthful, SameRows, Busy
<1> QED BY <1>3, <1>6, <1>7 DEF RowsInv

\* A finger on the toast.
LEMMA FingerStep == ASSUME RowsInv, Touch \/ LetGo PROVE RowsInv'
<1>1. IsDevice(dev) /\ HoldsOK(dev) /\ ToastOK(dev) /\ Truthful(dev, server)
  BY DEF RowsInv
<1>2. PICK b \in BOOLEAN : dev.toast # None /\ dev' = [dev EXCEPT !.toast.paused = b] /\ server' = server
  BY DEF Touch, LetGo, Moved
<1> DEFINE t == [dev.toast EXCEPT !.paused = b]
<1>3. t \in Toasts /\ t.row = dev.toast.row
  BY <1>1, <1>2 DEF IsDevice, Toasts
<1>4. dev' = [dev EXCEPT !.toast = t]
  BY <1>2
<1> HIDE DEF t
<1>5. /\ dev'.held = dev.held /\ dev'.owed = dev.owed /\ dev'.toast = t /\ dev' = [p \in Parts |-> dev'[p]]
      /\ SameRows(dev, dev')
  BY <1>1, <1>4 DEF IsDevice, Parts, SameRows
<1> QED BY <1>1, <1>2, <1>3, <1>5 DEF RowsInv, IsDevice, HoldsOK, ToastOK, Truthful, SameRows, Busy

LEMMA ToastEndsStep == ASSUME RowsInv, ToastEnds PROVE RowsInv'
<1> DEFINE e == Closed(dev)
<1>1. IsDevice(dev) /\ HoldsOK(dev) /\ ToastOK(dev) /\ Truthful(dev, server)
  BY DEF RowsInv
<1>2. dev' = e /\ server' = server
  BY DEF ToastEnds, Moved
<1>3. Toasted(dev, e, None)
  BY <1>1, ClosedIs, NoneIsNoRow
<1> HIDE DEF e
<1>4. IsDevice(e) /\ HoldsOK(e) /\ ToastOK(e) /\ (SameRows(dev, e) \/ Busy(e))
  BY <1>3, ToastedIsOK
<1>5. Truthful(e, server)
  BY <1>1, <1>4 DEF Truthful, SameRows, Busy
<1> QED BY <1>2, <1>4, <1>5 DEF RowsInv

LEMMA ExpireHoldStep == ASSUME RowsInv, NEW r \in RowIds, ExpireHold(r) PROVE RowsInv'
<1>1. IsDevice(dev) /\ HoldsOK(dev) /\ ToastOK(dev) /\ Truthful(dev, server)
  BY DEF RowsInv
<1>2. dev.held[r] = "held" /\ server' = server
  BY DEF ExpireHold, Moved
<1>3. CASE OnScreen(dev, r)
  <2>1. dev' = [dev EXCEPT !.held[r] = "due"]
    BY <1>3 DEF ExpireHold, Moved
  <2>2. /\ dev'.held = [dev.held EXCEPT ![r] = "due"] /\ dev'.owed = dev.owed /\ dev'.toast = dev.toast
        /\ dev' = [p \in Parts |-> dev'[p]] /\ SameRows(dev, dev')
    BY <1>1, <2>1 DEF IsDevice, Parts, SameRows
  <2>3. IsDevice(dev')
    BY <1>1, <2>2 DEF IsDevice, SameRows
  <2>4. HoldsOK(dev')
    BY <1>1, <1>2, <2>2 DEF IsDevice, HoldsOK
  <2>5. ToastOK(dev')
    BY <1>1, <1>2, <2>2 DEF IsDevice, ToastOK, Toasts
  <2>6. Truthful(dev', server')
    BY <1>1, <1>2, <2>2 DEF Truthful, SameRows, Busy
  <2> QED BY <2>3, <2>4, <2>5, <2>6 DEF RowsInv
<1>4. CASE ~OnScreen(dev, r)
  <2>1. dev' = FlushOnTimer(dev, r)
    BY <1>4 DEF ExpireHold, Moved
  <2>2. Ends(dev, dev', r) /\ dev'.toast = dev.toast
    BY <1>1, <1>2, <2>1, FlushOnTimerIs
  <2>3. ToastOK(dev')
    BY <1>1, <1>4, <2>2 DEF IsDevice, ToastOK, Toasts, OnScreen, Ends
  <2> QED BY <2>2, <2>3, BusyIsTruthful DEF RowsInv, Ends
<1> QED BY <1>3, <1>4

LEMMA HideStep == ASSUME RowsInv, Hide PROVE RowsInv'
<1>1. IsDevice(dev) /\ HoldsOK(dev) /\ ToastOK(dev) /\ Truthful(dev, server)
  BY DEF RowsInv
<1>2. Holding(dev) \in SUBSET RowIds /\ IsFiniteSet(Holding(dev))
  BY NoneIsNoRow, FS_Subset DEF Holding
<1>3. AfterHiding(dev, FoldSet(LAMBDA r, e : FlushOnHide(e, r), dev, Holding(dev)))
  BY <1>1, <1>2, AllHidden, NoneIsNoRow
<1>4. AfterHiding(dev, dev') /\ server' = server
  BY <1>3 DEF Hide, Moved
<1> QED BY <1>1, <1>4, BusyIsTruthful DEF RowsInv, AfterHiding

LEMMA EditStep ==
  ASSUME RowsInv, NEW r \in RowIds, NEW f \in EditFields, NEW v \in Values, Edit(r, f, v) PROVE RowsInv'
<1> DEFINE body == [Shown(r) EXCEPT ![f] = v]
<1>1. IsDevice(dev) /\ HoldsOK(dev) /\ ToastOK(dev)
  BY DEF RowsInv
<1>2. dev' = Perform(dev, r, "edit", body) /\ server' = server
  BY DEF Edit
<1> HIDE DEF body
<1>3. IsDevice(dev') /\ SameHolds(dev, dev') /\ Busy(dev')
  BY <1>1, <1>2, PerformIs
<1> QED BY <1>1, <1>3, BusyIsTruthful DEF RowsInv, SameHolds, HoldsOK, ToastOK

\* A write with another stage, and one less.
LEMMA WithWrites ==
  ASSUME NEW d, IsDevice(d), NEW ws
  PROVE  LET e == [d EXCEPT !.writes = ws] IN
         IsDevice(e) /\ SameHolds(d, e) /\ e.writes = ws /\ e.queue = d.queue /\ e.cache = d.cache /\ e.fetch = d.fetch
<1> DEFINE e == [d EXCEPT !.writes = ws]
<1>1. /\ e = [p \in Parts |-> e[p]] /\ SameHolds(d, e) /\ e.writes = ws
      /\ e.queue = d.queue /\ e.cache = d.cache /\ e.fetch = d.fetch
  BY DEF IsDevice, Parts, SameHolds
<1> HIDE DEF e
<1>2. IsDevice(e)
  BY <1>1 DEF IsDevice, SameHolds
<1> QED BY <1>1, <1>2 DEF e

LEMMA ServeStep == ASSUME RowsInv, NEW w \in dev.writes, Serve(w) \/ Refuse(w) PROVE RowsInv'
<1>1. IsDevice(dev) /\ HoldsOK(dev) /\ ToastOK(dev)
  BY DEF RowsInv
<1>2. PICK stage : dev' = WithStage(w, stage)
  BY DEF Serve, Refuse
<1> DEFINE ws == (dev.writes \ {w}) \cup {[w EXCEPT !.stage = stage]}
<1>3. dev' = [dev EXCEPT !.writes = ws]
  BY <1>2 DEF WithStage
<1>4. ws # {}
  OBVIOUS
<1> HIDE DEF ws
<1>5. IsDevice(dev') /\ SameHolds(dev, dev') /\ dev'.writes = ws
  BY <1>1, <1>3, WithWrites
<1>6. Busy(dev')
  BY <1>4, <1>5 DEF Busy
<1> QED BY <1>1, <1>5, <1>6, BusyIsTruthful DEF RowsInv, SameHolds, HoldsOK, ToastOK

\* A refetch is asked for: whatever the rows are, it will see them.
Asking(d, e) == IsDevice(e) /\ HoldsOK(e) /\ ToastOK(e) /\ (Busy(e) \/ e.fetch.at = "asked")

LEMMA RefetchedIs ==
  ASSUME NEW d, IsDevice(d), HoldsOK(d), ToastOK(d)
  PROVE  Asking(d, Refetched(d))
<1> DEFINE e == Refetched(d)
<1>1. /\ e = [p \in Parts |-> e[p]] /\ SameHolds(d, e) /\ e.queue = d.queue /\ e.fetch.at = "asked"
  BY DEF IsDevice, Parts, SameHolds, Refetched
<1> HIDE DEF e
<1>2. IsDevice(e)
  BY <1>1 DEF IsDevice, SameHolds
<1>3. HoldsOK(e) /\ ToastOK(e)
  BY <1>1 DEF SameHolds, HoldsOK, ToastOK
<1> QED BY <1>1, <1>2, <1>3 DEF e, Asking

LEMMA RolledBackIs ==
  ASSUME NEW d, IsDevice(d), HoldsOK(d), ToastOK(d), NEW w
  PROVE  Asking(d, RolledBack(d, w))
<1> DEFINE g == [d EXCEPT !.cache = w.snap]
           e == Show(g, None)
<1>1. /\ g = [p \in Parts |-> g[p]] /\ SameHolds(d, g) /\ g.queue = d.queue
  BY DEF IsDevice, Parts, SameHolds
<1> HIDE DEF g
<1>2. IsDevice(g) /\ HoldsOK(g)
  BY <1>1 DEF IsDevice, SameHolds, HoldsOK
<1> DEFINE t == [row |-> None, paused |-> FALSE]
<1>3. Toasted(g, e, t) /\ t.row = None
  BY <1>2, ShowIs, NoneIsNoRow
<1> HIDE DEF e, t
<1>4. IsDevice(e) /\ HoldsOK(e) /\ ToastOK(e)
  BY <1>3, ToastedIsOK
<1>5. RolledBack(d, w) = Refetched(e)
  BY DEF RolledBack, e, g
<1>6. Asking(e, Refetched(e))
  BY <1>4, RefetchedIs
<1> QED BY <1>5, <1>6 DEF Asking

LEMMA UnansweredIs ==
  ASSUME NEW d, IsDevice(d), HoldsOK(d), ToastOK(d), NEW w
  PROVE  Asking(d, Unanswered(d, w))
<1>1. CASE w.kind = "edit" \/ w.way = "teardown"
  <2>1. Unanswered(d, w) = Enqueued(d, w.row, w.kind, w.body)
    BY <1>1 DEF Unanswered
  <2>2. LET e == Enqueued(d, w.row, w.kind, w.body) IN IsDevice(e) /\ SameHolds(d, e) /\ Busy(e)
    BY EnqueuedIs
  <2> QED BY <2>1, <2>2 DEF Asking, SameHolds, HoldsOK, ToastOK
<1>2. CASE ~(w.kind = "edit" \/ w.way = "teardown")
  BY <1>2, RolledBackIs DEF Unanswered
<1> QED BY <1>1, <1>2

LEMMA WriteAnswered == ASSUME RowsInv, NEW w \in dev.writes, Answer(w) \/ Lose(w) PROVE RowsInv'
<1> DEFINE g == RowAnswered(w)
<1>1. IsDevice(dev) /\ HoldsOK(dev) /\ ToastOK(dev)
  BY DEF RowsInv
<1>2. IsDevice(g) /\ SameHolds(dev, g)
  <2> DEFINE ws == dev.writes \ {w}
  <2>1. g = [dev EXCEPT !.writes = ws]
    BY DEF RowAnswered
  <2> HIDE DEF ws, g
  <2> QED BY <1>1, <2>1, WithWrites
<1>3. HoldsOK(g) /\ ToastOK(g)
  BY <1>1, <1>2 DEF SameHolds, HoldsOK, ToastOK
<1>4. dev' \in {Refetched(g), RolledBack(g, w), Unanswered(g, w)}
  BY DEF Answer, Lose, Moved
<1> HIDE DEF g
<1>5. Asking(g, dev')
  BY <1>2, <1>3, <1>4, RefetchedIs, RolledBackIs, UnansweredIs
<1> QED BY <1>5 DEF RowsInv, Asking, Truthful

LEMMA FetchStep == ASSUME RowsInv, Refetch \/ ReadRows \/ LandRows PROVE RowsInv'
<1>1. IsDevice(dev) /\ HoldsOK(dev) /\ ToastOK(dev) /\ Truthful(dev, server)
  BY DEF RowsInv
<1>2. CASE Refetch
  <2>1. Asking(dev, dev')
    BY <1>1, <1>2, RefetchedIs DEF Refetch, Moved
  <2> QED BY <2>1 DEF RowsInv, Asking, Truthful
<1>3. CASE ReadRows \/ LandRows
  <2>1. /\ dev' = [p \in Parts |-> dev'[p]] /\ SameHolds(dev, dev') /\ dev'.queue = dev.queue /\ dev'.writes = dev.writes
        /\ server' = server
    BY <1>1, <1>3 DEF IsDevice, Parts, SameHolds, ReadRows, LandRows, Moved
  <2>2. IsDevice(dev') /\ HoldsOK(dev') /\ ToastOK(dev')
    BY <1>1, <2>1 DEF IsDevice, SameHolds, HoldsOK, ToastOK
  <2>3. Truthful(dev', server')
    <3>1. CASE ReadRows
      <4>1. dev'.fetch = [at |-> "read", rows |-> server]
        BY <1>1, <3>1 DEF IsDevice, Parts, ReadRows, Moved
      <4> QED BY <4>1, <2>1 DEF Truthful
    <3>2. CASE LandRows
      <4>1. dev'.fetch = Idle /\ dev'.cache = dev.fetch.rows /\ dev.fetch.at = "read"
        BY <1>1, <3>2 DEF IsDevice, Parts, LandRows, Moved
      <4> QED BY <4>1, <2>1, <1>1 DEF Truthful, Busy, Idle
    <3> QED BY <1>3, <3>1, <3>2
  <2> QED BY <2>2, <2>3 DEF RowsInv
<1> QED BY <1>2, <1>3

LEMMA ReplayRowStep == ASSUME RowsInv, ReplayRow PROVE RowsInv'
<1> DEFINE g == [dev EXCEPT !.queue = Tail(@)]
<1>1. IsDevice(dev) /\ HoldsOK(dev) /\ ToastOK(dev)
  BY DEF RowsInv
<1>2. dev.queue # <<>> /\ dev' = Refetched(g)
  BY DEF ReplayRow
<1>3. /\ g = [p \in Parts |-> g[p]] /\ SameHolds(dev, g) /\ g.queue = Tail(dev.queue)
  BY <1>1 DEF IsDevice, Parts, SameHolds
<1> HIDE DEF g
<1>4. IsDevice(g)
  <2>1. PICK S : dev.queue \in Seq(S)
    BY <1>1 DEF IsDevice
  <2>2. g.queue \in Seq(S)
    BY <1>2, <1>3, <2>1, TailIsSeq
  <2> QED BY <1>1, <1>3, <2>2 DEF IsDevice, SameHolds
<1>5. HoldsOK(g) /\ ToastOK(g)
  BY <1>1, <1>3 DEF SameHolds, HoldsOK, ToastOK
<1>6. Asking(g, dev')
  BY <1>2, <1>4, <1>5, RefetchedIs
<1> QED BY <1>6 DEF RowsInv, Asking, Truthful

LEMMA OnlineStep == ASSUME RowsInv, GoOffline \/ GoOnline PROVE RowsInv'
<1>1. IsDevice(dev) /\ HoldsOK(dev) /\ ToastOK(dev) /\ Truthful(dev, server)
  BY DEF RowsInv
<1>2. /\ dev' = [p \in Parts |-> dev'[p]] /\ SameHolds(dev, dev') /\ SameRows(dev, dev') /\ server' = server
  BY <1>1 DEF IsDevice, Parts, SameHolds, SameRows, GoOffline, GoOnline, Moved
<1> QED BY <1>1, <1>2 DEF RowsInv, IsDevice, SameHolds, SameRows, HoldsOK, ToastOK, Truthful, Busy

LEMMA RowsStep == RowsInv /\ [RowsNext]_rowsVars => RowsInv'
<1> SUFFICES ASSUME RowsInv, [RowsNext]_rowsVars PROVE RowsInv'
  OBVIOUS
<1>1. CASE UNCHANGED rowsVars
  BY <1>1 DEF rowsVars, RowsInv
<1>2. ASSUME NEW r \in RowIds, DeleteRow(r) \/ ExpireHold(r) PROVE RowsInv'
  BY <1>2, DeleteRowStep, ExpireHoldStep
<1>3. ASSUME NEW r \in RowIds, NEW f \in EditFields, NEW v \in Values, Edit(r, f, v) PROVE RowsInv'
  BY <1>3, EditStep
<1>4. ASSUME NEW w \in dev.writes, Serve(w) \/ Refuse(w) \/ Answer(w) \/ Lose(w) PROVE RowsInv'
  BY <1>4, ServeStep, WriteAnswered
<1>5. CASE Undo \/ Touch \/ LetGo \/ ToastEnds \/ Hide
  BY <1>5, UndoStep, FingerStep, ToastEndsStep, HideStep
<1>6. CASE Refetch \/ ReadRows \/ LandRows \/ ReplayRow \/ GoOffline \/ GoOnline
  BY <1>6, FetchStep, ReplayRowStep, OnlineStep
<1> QED BY <1>1, <1>2, <1>3, <1>4, <1>5, <1>6 DEF RowsNext

\* A press of Delete ends in one send or in one Undo, never in both and never in two sends, whatever timers, toasts,
\* errors and hidden pages end the hold, for any number of rows, deletions and edits.
THEOREM HoldsEndOnce == RowsSpec => []HoldEndsOnce
<1>1. RowsInv => HoldEndsOnce
  BY DEF RowsInv, HoldsOK, HoldEndsOnce
<1> QED BY <1>1, RowsInitInv, RowsStep, PTL DEF RowsSpec

\* An Undo on screen always has a deletion to take back.
THEOREM UndosWork == RowsSpec => []UndoOnScreenWorks
<1>1. RowsInv => UndoOnScreenWorks
  BY DEF RowsInv, ToastOK, UndoOnScreenWorks
<1> QED BY <1>1, RowsInitInv, RowsStep, PTL DEF RowsSpec

\* With nothing under way the rows of the device are the server's, through rollbacks, cancelled refetches and
\* refetches that began before a write landed.
THEOREM QuietRowsAreTrue == RowsSpec => []QuietIsTrue
<1>1. RowsInv => QuietIsTrue
  BY DEF RowsInv, Truthful, Busy, QuietIsTrue, Idle
<1> QED BY <1>1, RowsInitInv, RowsStep, PTL DEF RowsSpec

(***************************************************************************)
(* The bulk sheet: what it says it will change, and what it changes.       *)
(***************************************************************************)
SelFields == {"kind", "ids", "filter", "count", "n", "all"}
SheetFields == {"open", "bucket", "move", "preview"}
JobFields == {"kind", "n", "select", "bucket", "move", "expected", "shown", "answer", "result", "carried"}

IsSelection(s) ==
    /\ DOMAIN s = SelFields /\ s.n \in Nat /\ s.kind \in {"off", "picked", "filter", "bill"}
    /\ s.ids \in SUBSET ListRows

\* An open sheet has a selection, and a preview is a number of rows.
SheetOK ==
    /\ sheet = [f \in SheetFields |-> sheet[f]]
    /\ sheet.open = TRUE => Selecting
    /\ sheet.preview # None => sheet.preview.matched \in Nat

\* A request with the number of the selection carries the selection.
OfSelection(j) == j.n \in Nat /\ j.n <= sel.n /\ (j.n = sel.n /\ Selecting => j.select = Content(sel))

\* An apply on its way expects the number that was shown, unless its rows are named one by one.
ExpectsShown(j) ==
    j.kind = "apply" /\ j.answer = "none" =>
        /\ j.carried = FALSE
        /\ j.select.kind = "picked" \/ (j.expected = j.shown /\ j.shown \in Nat)
JobOK ==
    job # None =>
        /\ job = [f \in JobFields |-> job[f]] /\ OfSelection(job) /\ ExpectsShown(job)
        /\ job.select.ids \in SUBSET ListRows
        /\ job.kind = "preview" /\ job.answer = "ok" => job.result.matched \in Nat

SelectionInv ==
    /\ IsSelection(sel) /\ SheetOK /\ JobOK
    /\ list # None => list = [rows |-> list.rows, total |-> list.total] /\ list.rows \in SUBSET ListRows
    /\ previewed # None /\ Selecting => previewed = Content(sel)
    /\ wrong = [count |-> FALSE, told |-> wrong.told]

picking == <<list, sel, sheet, job, previewed, wrong>>

LEMMA SheetInitInv == SheetInit => SelectionInv
<1> SUFFICES ASSUME SheetInit PROVE SelectionInv
  OBVIOUS
<1>1. IsSelection(sel)
  BY DEF SheetInit, IsSelection, SelFields
<1>2. SheetOK
  BY DEF SheetInit, SheetOK, SheetFields, Shut, Fresh
<1> QED BY <1>1, <1>2 DEF SheetInit, SelectionInv, JobOK, Selecting

\* What neither the selection, the sheet nor a request is part of.
LEMMA RestStep == ASSUME SelectionInv, UNCHANGED picking PROVE SelectionInv'
BY DEF picking, SelectionInv, IsSelection, SheetOK, JobOK, Selecting, Content, OfSelection, ExpectsShown

\* The list is loaded anew, or loses a row or all of them.
LEMMA ListStep ==
  ASSUME SelectionInv, UNCHANGED <<sel, sheet, job, previewed, wrong>>,
         list' # None => list' = [rows |-> list'.rows, total |-> list'.total] /\ list'.rows \in SUBSET ListRows
  PROVE  SelectionInv'
BY DEF SelectionInv, IsSelection, SheetOK, JobOK, Selecting, Content, OfSelection, ExpectsShown

\* Another selection, while the sheet is closed.
LEMMA OtherSelection ==
  ASSUME SelectionInv, sheet.open # TRUE, list' \in {list, None}, UNCHANGED <<sheet, job, wrong>>, previewed' = None,
         IsSelection(sel'), sel'.n = sel.n + 1 \/ (sel'.n = sel.n /\ sel'.kind = "off")
  PROVE  SelectionInv'
<1>1. SheetOK'
  BY DEF SelectionInv, SheetOK
<1>2. ASSUME job # None PROVE OfSelection(job)'
  <2>1. job.n \in Nat /\ job.n <= sel.n /\ sel.n \in Nat /\ sel'.n \in Nat
    BY <1>2 DEF SelectionInv, JobOK, OfSelection, IsSelection
  <2> QED BY <2>1 DEF OfSelection, Selecting
<1>3. JobOK'
  BY <1>2 DEF SelectionInv, JobOK, ExpectsShown
<1> QED BY <1>1, <1>3 DEF SelectionInv

\* The selections a new one is made from: nothing, with some fields changed.
LEMMA ChangedSelection ==
  ASSUME sel.n \in Nat
  PROVE  /\ \A ids \in SUBSET ListRows :
              LET s == [Off EXCEPT !.kind = "picked", !.ids = ids, !.n = sel.n + 1]
              IN  IsSelection(s) /\ s.n = sel.n + 1
         /\ \A kind \in {"bill", "filter"} : \A f, total :
              LET s == [Off EXCEPT !.kind = kind, !.filter = f, !.count = total, !.n = sel.n + 1]
              IN  IsSelection(s) /\ s.n = sel.n + 1
<1>1. /\ DOMAIN Off = SelFields /\ Off.ids = {}
  BY DEF Off, SelFields
<1> HIDE DEF Off
<1>2. ASSUME NEW ids \in SUBSET ListRows
      PROVE  LET s == [Off EXCEPT !.kind = "picked", !.ids = ids, !.n = sel.n + 1]
             IN  IsSelection(s) /\ s.n = sel.n + 1
  BY <1>1 DEF IsSelection, SelFields
<1>3. ASSUME NEW kind \in {"bill", "filter"}, NEW f, NEW total
      PROVE  LET s == [Off EXCEPT !.kind = kind, !.filter = f, !.count = total, !.n = sel.n + 1]
             IN  IsSelection(s) /\ s.n = sel.n + 1
  BY <1>1 DEF IsSelection, SelFields
<1> QED BY <1>2, <1>3

LEMMA SelectionForms ==
  ASSUME SelectionInv
  PROVE  /\ IsSelection(Off) /\ Off.n = sel.n /\ Off.kind = "off"
         /\ \A ids \in SUBSET ListRows : IsSelection(Picked(ids)) /\ Picked(ids).n = sel.n + 1
         /\ \A f, total : IsSelection(ByFilter(f, total)) /\ ByFilter(f, total).n = sel.n + 1
<1>1. sel.n \in Nat
  BY DEF SelectionInv, IsSelection
<1>2. IsSelection(Off) /\ Off.n = sel.n /\ Off.kind = "off"
  BY <1>1 DEF Off, IsSelection, SelFields
<1>3. ASSUME NEW ids \in SUBSET ListRows PROVE IsSelection(Picked(ids)) /\ Picked(ids).n = sel.n + 1
  <2>1. Picked(ids) = [Off EXCEPT !.kind = "picked", !.ids = ids, !.n = sel.n + 1]
    BY DEF Picked
  <2> QED BY <1>1, <2>1, ChangedSelection
<1>4. ASSUME NEW f, NEW total PROVE IsSelection(ByFilter(f, total)) /\ ByFilter(f, total).n = sel.n + 1
  <2> DEFINE kind == IF f = "bill" THEN "bill" ELSE "filter"
             s == [Off EXCEPT !.kind = kind, !.filter = f, !.count = total, !.n = sel.n + 1]
  <2>1. ByFilter(f, total) = s
    BY DEF ByFilter
  <2>2. kind \in {"bill", "filter"}
    OBVIOUS
  <2> HIDE DEF kind
  <2>3. IsSelection(s) /\ s.n = sel.n + 1
    BY <1>1, <2>2, ChangedSelection
  <2> HIDE DEF s
  <2> QED BY <2>1, <2>3
<1> QED BY <1>2, <1>3, <1>4

LEMMA SelectableRows == ASSUME SelectionInv PROVE Selectable \in SUBSET ListRows
BY DEF SelectionInv, Selectable, LoadedRows

LEMMA PickStep ==
  ASSUME SelectionInv,
         \/ (\E ids : Enter(ids)) \/ (\E r \in ListRows : Toggle(r)) \/ SelectAll \/ CancelSelection
  PROVE  SelectionInv'
<1>1. sheet.open # TRUE /\ UNCHANGED <<list, sheet, job, wrong>> /\ previewed' = None
  BY DEF Enter, Toggle, SelectAll, CancelSelection, Chosen
<1>2. IsSelection(sel') /\ (sel'.n = sel.n + 1 \/ (sel'.n = sel.n /\ sel'.kind = "off"))
  <2>1. CASE \E ids : Enter(ids)
    BY <2>1, SelectionForms, SelectableRows DEF Enter, Chosen
  <2>2. CASE \E r \in ListRows : Toggle(r)
    <3>1. PICK r \in ListRows : Toggle(r)
      BY <2>2
    <3> DEFINE ids == CASE sel.kind # "picked" -> Selectable \ {r}
                        [] sel.kind = "picked" /\ r \in sel.ids -> sel.ids \ {r}
                        [] OTHER -> sel.ids \cup {r}
    <3>2. ids \in SUBSET ListRows
      BY SelectableRows DEF SelectionInv, IsSelection
    <3>3. sel' = Picked(ids)
      BY <3>1 DEF Toggle, Chosen
    <3> HIDE DEF ids
    <3> QED BY <3>2, <3>3, SelectionForms
  <2>3. CASE CancelSelection
    BY <2>3, SelectionForms DEF CancelSelection, Chosen
  <2>4. CASE SelectAll
    <3> DEFINE s == IF AllMode = "ids" THEN Picked(Selectable) ELSE ByFilter(filter, ListTotal)
    <3>1. IsSelection(s) /\ s.n = sel.n + 1
      BY SelectionForms, SelectableRows
    <3>2. sel' = [s EXCEPT !.all = TRUE]
      BY <2>4 DEF SelectAll, Chosen
    <3> HIDE DEF s
    <3> QED BY <3>1, <3>2 DEF IsSelection, SelFields
  <2> QED BY <2>1, <2>2, <2>3, <2>4
<1> QED BY <1>1, <1>2, OtherSelection

LEMMA FilterStep == ASSUME SelectionInv, NEW f \in Filters, SetFilter(f) \/ FollowLink(f) PROVE SelectionInv'
<1>1. CASE SetFilter(f)
  BY <1>1, OtherSelection, SelectionForms DEF SetFilter, NewList
<1>2. CASE FollowLink(f)
  BY <1>2, ListStep DEF FollowLink, NewList
<1> QED BY <1>1, <1>2

\* The fields of the sheet.
LEMMA FieldStep ==
  ASSUME SelectionInv,
         OpenSheet \/ CloseSheet \/ (\E b : SetBucket(b)) \/ (\E on \in BOOLEAN : SetMove(on))
  PROVE  SelectionInv'
<1>1. UNCHANGED <<list, sel, job, previewed, wrong>>
  BY DEF OpenSheet, CloseSheet, SetBucket, SetMove, SheetStep
<1>2. SheetOK'
  <2>1. CASE OpenSheet
    BY <2>1, <1>1 DEF OpenSheet, SheetStep, SheetOK, SheetFields, Fresh, Selecting
  <2>2. CASE CloseSheet
    BY <2>2 DEF CloseSheet, SheetStep, SheetOK, SheetFields, Fresh, Shut
  <2>3. CASE (\E b : SetBucket(b)) \/ (\E on \in BOOLEAN : SetMove(on))
    <3>1. sheet = [f \in SheetFields |-> sheet[f]] /\ (sheet.open = TRUE => Selecting)
      BY DEF SelectionInv, SheetOK
    <3>2. /\ sheet' = [f \in SheetFields |-> sheet'[f]] /\ sheet'.open = sheet.open /\ sheet'.preview = None
      BY <2>3, <3>1 DEF SetBucket, SetMove, SheetStep, SheetFields
    <3> QED BY <3>1, <3>2, <1>1 DEF SheetOK, Selecting
  <2> QED BY <2>1, <2>2, <2>3
<1> QED BY <1>1, <1>2 DEF SelectionInv, IsSelection, JobOK, Selecting, Content, OfSelection, ExpectsShown

LEMMA RequestForm ==
  ASSUME NEW kind, NEW expected, NEW j, j = Request(kind, expected)
  PROVE  /\ j = [f \in JobFields |-> j[f]] /\ j.kind = kind /\ j.n = sel.n /\ j.select = Content(sel) /\ j.answer = "none"
         /\ j.expected = expected /\ j.carried = FALSE
         /\ j.shown = IF sheet.preview = None THEN None ELSE sheet.preview.matched
BY DEF Request, JobFields

LEMMA AskStep == ASSUME SelectionInv, Preview \/ Apply PROVE SelectionInv'
<1>1. UNCHANGED <<list, sel, sheet, previewed, wrong>> /\ (sheet.open = TRUE => Selecting)
  BY DEF Preview, Apply, Asked, SelectionInv, SheetOK
<1>2. sel.n \in Nat
  BY DEF SelectionInv, IsSelection
<1>3. CASE Preview
  <2>1. job' = Request("preview", None)
    BY <1>3 DEF Preview, Asked
  <2>2. /\ job' = [f \in JobFields |-> job'[f]] /\ job'.kind = "preview" /\ job'.n = sel.n /\ job'.select = Content(sel)
        /\ job'.answer = "none"
    BY <2>1 DEF Request, JobFields
  <2>3. OfSelection(job)' /\ ExpectsShown(job)'
    BY <1>1, <1>2, <2>2 DEF OfSelection, ExpectsShown, Content, Selecting
  <2> QED BY <1>1, <2>2, <2>3 DEF SelectionInv, IsSelection, SheetOK, JobOK, Content, Selecting
<1>4. CASE Apply
  <2>1. job' = Request("apply", ExpectedCount) /\ sheet.preview # None /\ sheet.open
    BY <1>4 DEF Apply, Asked
  <2> DEFINE m == sheet.preview.matched
  <2>2. m \in Nat
    BY <2>1 DEF SelectionInv, SheetOK
  <2>3. Selecting
    BY <2>1 DEF SelectionInv, SheetOK
  <2>4. /\ job' = [f \in JobFields |-> job'[f]] /\ job'.kind = "apply" /\ job'.n = sel.n /\ job'.select = Content(sel)
        /\ job'.answer = "none" /\ job'.expected = ExpectedCount /\ job'.carried = FALSE /\ job'.shown = m
    BY <2>1 DEF Request, JobFields
  <2>5. OfSelection(job)'
    BY <1>1, <1>2, <2>4 DEF OfSelection, Content, Selecting
  <2>6. sel.kind = "picked" \/ ExpectedCount = m
    BY <2>3 DEF ExpectedCount, Selecting, SelectionInv, IsSelection
  <2>7. ExpectsShown(job)'
    BY <2>2, <2>4, <2>6 DEF ExpectsShown, Content
  <2> QED BY <1>1, <2>4, <2>5, <2>7 DEF SelectionInv, IsSelection, SheetOK, JobOK, Content, Selecting
<1> QED BY <1>3, <1>4

LEMMA MatchedIsNumber ==
  ASSUME NEW s, s.ids \in SUBSET ListRows PROVE Cardinality(SelectedRows(s)) \in Nat
<1>1. SelectedRows(s) \subseteq ListRows
  BY DEF SelectedRows, Matching
<1> QED BY <1>1, ActivityBulkAssumption, FS_Subset, FS_CardinalityType

\* A request that is worked on keeps what it asked.
SameRequest(i, j) ==
    /\ j.n = i.n /\ j.select = i.select /\ j.expected = i.expected /\ j.shown = i.shown
    /\ j = [f \in JobFields |-> j[f]]

LEMMA SameRequestOK ==
  ASSUME SelectionInv, UNCHANGED <<list, sel, sheet, previewed>>, wrong' = [count |-> FALSE, told |-> wrong'.told],
         job # None, SameRequest(job, job'),
         ExpectsShown(job'), job'.kind = "preview" /\ job'.answer = "ok" => job'.result.matched \in Nat
  PROVE  SelectionInv'
<1>1. OfSelection(job)' /\ (job.select.ids \in SUBSET ListRows)'
  BY DEF SelectionInv, JobOK, OfSelection, SameRequest, Selecting, Content
<1>2. ExpectsShown(job)'
  BY DEF ExpectsShown
<1>3. JobOK'
  BY <1>1, <1>2 DEF JobOK, SameRequest
<1> QED BY <1>3 DEF SelectionInv, IsSelection, SheetOK, Selecting, Content

LEMMA PreviewServed == ASSUME SelectionInv, ServePreview PROVE SelectionInv'
<1>1. UNCHANGED <<list, sel, sheet, previewed, wrong>> /\ job # None /\ job.kind = "preview"
  BY DEF ServePreview
<1>2. job = [f \in JobFields |-> job[f]] /\ job.select.ids \in SUBSET ListRows
  BY <1>1 DEF SelectionInv, JobOK
<1> DEFINE res == Result(job)
<1>3. job' = [job EXCEPT !.answer = "ok", !.result = res]
  BY DEF ServePreview
<1>4. res.matched \in Nat
  BY <1>2, MatchedIsNumber DEF Result
<1> HIDE DEF res
<1>5. SameRequest(job, job') /\ job'.kind = "preview" /\ job'.result = res
  BY <1>1, <1>2, <1>3 DEF SameRequest, JobFields
<1>6. ExpectsShown(job')
  BY <1>5 DEF ExpectsShown
<1>7. wrong' = [count |-> FALSE, told |-> wrong'.told]
  BY <1>1 DEF SelectionInv
<1> QED BY <1>1, <1>4, <1>5, <1>6, <1>7, SameRequestOK

LEMMA ApplyServed == ASSUME SelectionInv, ServeApply PROVE SelectionInv'
<1> DEFINE m == Cardinality(SelectedRows(job.select))
           wr == job'.carried /\ job.select.kind # "picked" /\ job.shown # m
<1>1. UNCHANGED <<list, sel, sheet, previewed>> /\ job # None /\ job.kind = "apply" /\ job.answer = "none"
  BY DEF ServeApply
<1>2. job = [f \in JobFields |-> job[f]] /\ ExpectsShown(job)
  BY <1>1 DEF SelectionInv, JobOK
<1>3. /\ job.carried = FALSE
      /\ job.select.kind = "picked" \/ (job.expected = job.shown /\ job.shown # None)
  BY <1>1, <1>2, ActivityBulkAssumption DEF ExpectsShown
<1>4. SameRequest(job, job') /\ job'.kind = "apply" /\ job'.answer # "none" /\ ~wr
  <2>1. CASE job' = [job EXCEPT !.answer = "refused"] \/ job' = [job EXCEPT !.answer = "drifted"]
    <3>1. /\ SameRequest(job, job') /\ job'.kind = "apply" /\ job'.answer \in {"refused", "drifted"}
          /\ job'.carried = FALSE
      BY <1>1, <1>2, <1>3, <2>1 DEF SameRequest, JobFields
    <3> QED BY <3>1
  <2>2. CASE ~(job' = [job EXCEPT !.answer = "refused"] \/ job' = [job EXCEPT !.answer = "drifted"])
    <3>1. ~(job.expected # None /\ job.expected # m)
      BY <2>2 DEF ServeApply
    <3> DEFINE res == Result(job)
    <3>2. job' = [job EXCEPT !.answer = "ok", !.result = res, !.carried = TRUE]
      BY <2>2 DEF ServeApply
    <3> HIDE DEF res
    <3>3. SameRequest(job, job') /\ job'.kind = "apply" /\ job'.answer = "ok"
      BY <1>1, <1>2, <3>2 DEF SameRequest, JobFields
    <3> HIDE DEF m
    <3>4. ~wr
      BY <1>3, <3>1
    <3> QED BY <3>3, <3>4
  <2> QED BY <2>1, <2>2
<1>5. wrong' = [count |-> FALSE, told |-> wrong'.told]
  <2>1. wrong' = [wrong EXCEPT !.count = @ \/ wr]
    BY DEF ServeApply
  <2> HIDE DEF wr
  <2>2. wrong = [count |-> FALSE, told |-> wrong.told]
    BY DEF SelectionInv
  <2>3. (wrong.count \/ wr) = FALSE
    BY <1>4, <2>2
  <2> QED BY <2>1, <2>2, <2>3
<1>6. ExpectsShown(job')
  BY <1>4 DEF ExpectsShown
<1> QED BY <1>1, <1>4, <1>5, <1>6, SameRequestOK

\* The request is over.
LEMMA JobAnswered ==
  ASSUME SelectionInv,
         Answered(PreviewAnswered) \/ Answered(ApplyAnswered) \/ Answered(ApplyRefused) \/ Answered(LoseJob)
  PROVE  SelectionInv'
<1>1. job' = None /\ job # None /\ list' = list
  BY DEF Answered, PreviewAnswered, ApplyAnswered, ApplyRefused, LoseJob
<1>2. JobOK'
  BY <1>1 DEF JobOK
<1>3. CASE Answered(PreviewAnswered)
  <2>1. UNCHANGED <<sel, wrong>>
    BY <1>3 DEF Answered, PreviewAnswered
  <2>2. SheetOK'
    <3>1. CASE sheet' = sheet
      BY <2>1, <3>1 DEF SelectionInv, SheetOK, Selecting
    <3>2. CASE sheet' # sheet
      <4>1. sheet' = [sheet EXCEPT !.preview = job.result] /\ job.result.matched \in Nat
        BY <1>3, <3>2 DEF Answered, PreviewAnswered, SelectionInv, JobOK
      <4>2. sheet = [f \in SheetFields |-> sheet[f]] /\ (sheet.open = TRUE => Selecting)
        BY DEF SelectionInv, SheetOK
      <4>3. /\ sheet' = [f \in SheetFields |-> sheet'[f]] /\ sheet'.open = sheet.open
            /\ sheet'.preview = job.result
        BY <4>1, <4>2 DEF SheetFields
      <4> QED BY <4>1, <4>2, <4>3, <2>1 DEF SheetOK, Selecting
    <3> QED BY <3>1, <3>2
  <2>3. (previewed # None /\ Selecting => previewed = Content(sel))'
    <3>1. previewed' = IF job.n = sel.n THEN job.select ELSE previewed
      BY <1>3 DEF Answered, PreviewAnswered
    <3> QED BY <1>1, <2>1, <3>1 DEF SelectionInv, JobOK, OfSelection, Selecting, Content
  <2> QED BY <1>1, <1>2, <2>1, <2>2, <2>3 DEF SelectionInv, IsSelection
<1>4. CASE Answered(ApplyAnswered)
  <2>1. sel' = Off /\ sheet' = Shut /\ previewed' = None /\ wrong' = wrong
    BY <1>4 DEF Answered, ApplyAnswered
  <2>2. IsSelection(sel')
    BY <2>1, SelectionForms
  <2>3. SheetOK'
    BY <2>1 DEF SheetOK, Shut, Fresh, SheetFields
  <2> QED BY <1>1, <1>2, <2>1, <2>2, <2>3 DEF SelectionInv
<1>5. CASE Answered(ApplyRefused) \/ Answered(LoseJob)
  <2>1. UNCHANGED <<sel, sheet, previewed>>
    BY <1>5 DEF Answered, ApplyRefused, LoseJob
  <2>2. wrong' = [count |-> FALSE, told |-> wrong'.told]
    BY <1>5 DEF Answered, ApplyRefused, LoseJob, SelectionInv
  <2> QED BY <1>1, <1>2, <2>1, <2>2 DEF SelectionInv, IsSelection, SheetOK, Selecting, Content
<1> QED BY <1>3, <1>4, <1>5

LEMMA DriftStep == ASSUME SelectionInv, Answered(ApplyDrifted) PROVE SelectionInv'
<1>1. UNCHANGED <<list, sel, sheet, previewed, wrong>> /\ job # None
  BY DEF Answered, ApplyDrifted
<1>2. job' = [job EXCEPT !.kind = "preview", !.answer = "none"]
  BY DEF Answered, ApplyDrifted
<1>3. job = [f \in JobFields |-> job[f]]
  BY <1>1 DEF SelectionInv, JobOK
<1>4. SameRequest(job, job') /\ job'.kind = "preview" /\ job'.answer = "none"
  BY <1>2, <1>3 DEF SameRequest, JobFields
<1>5. wrong' = [count |-> FALSE, told |-> wrong'.told]
  BY <1>1 DEF SelectionInv
<1>6. ExpectsShown(job')
  BY <1>4 DEF ExpectsShown
<1> QED BY <1>1, <1>4, <1>5, <1>6, SameRequestOK

LEMMA SheetStepKeeps == SelectionInv /\ [SheetNext]_bulkVars => SelectionInv'
<1> SUFFICES ASSUME SelectionInv, [SheetNext]_bulkVars PROVE SelectionInv'
  OBVIOUS
<1>1. CASE UNCHANGED bulkVars
  BY <1>1, RestStep DEF bulkVars, picking
<1>2. CASE (\E ids : Enter(ids)) \/ (\E r \in ListRows : Toggle(r)) \/ SelectAll \/ CancelSelection
  BY <1>2, PickStep
<1>3. ASSUME NEW f \in Filters, SetFilter(f) \/ FollowLink(f) PROVE SelectionInv'
  BY <1>3, FilterStep
<1>4. CASE Load
  <2>1. list' = [rows |-> FirstOf(Matching(filter), pages * PageSize), total |-> Cardinality(Matching(filter))]
    BY <1>4 DEF Load
  <2>2. FirstOf(Matching(filter), pages * PageSize) \in SUBSET ListRows
    BY DEF FirstOf, Matching
  <2>3. UNCHANGED <<sel, sheet, job, previewed, wrong>>
    BY <1>4 DEF Load
  <2> QED BY <2>1, <2>2, <2>3, ListStep
<1>5. CASE LoadMore \/ \E i \in 1..Len(written) : UndoBatch(i)
  BY <1>5, RestStep DEF LoadMore, UndoBatch, picking
<1>6. CASE OpenSheet \/ CloseSheet \/ (\E b : SetBucket(b)) \/ (\E on \in BOOLEAN : SetMove(on))
  BY <1>6, FieldStep
<1>7. CASE Preview \/ Apply
  BY <1>7, AskStep
<1>8. CASE ServePreview \/ ServeApply
  BY <1>8, PreviewServed, ApplyServed
<1>9. CASE Answered(PreviewAnswered) \/ Answered(ApplyAnswered) \/ Answered(ApplyRefused) \/ Answered(LoseJob)
  BY <1>9, JobAnswered
<1>10. CASE Answered(ApplyDrifted)
  BY <1>10, DriftStep
<1>11. ASSUME NEW r \in ListRows, NEW b, PartnerMoves(r, b) \/ Replay(r) PROVE SelectionInv'
  BY <1>11, RestStep DEF PartnerMoves, Replay, picking
<1>12. ASSUME NEW r \in ListRows, NEW kind, NEW b, Wait(r, kind, b) PROVE SelectionInv'
  <2>1. UNCHANGED <<sel, sheet, job, previewed, wrong>>
    BY <1>12 DEF Wait
  <2>2. list' = list \/ (list # None /\ list' = [list EXCEPT !.rows = @ \ {r}])
    BY <1>12 DEF Wait
  <2>3. list' # None => list' = [rows |-> list'.rows, total |-> list'.total] /\ list'.rows \in SUBSET ListRows
    BY <2>2 DEF SelectionInv
  <2> QED BY <2>1, <2>3, ListStep
<1> QED BY <1>1, <1>2, <1>3, <1>4, <1>5, <1>6, <1>7, <1>8, <1>9, <1>10, <1>11, <1>12 DEF SheetNext

\* An apply of a filter or a bill changes as many rows as its preview said, whatever becomes of the rows, the selection
\* and the sheet meanwhile, for any number of rows and requests.
THEOREM AppliesAreAsShown == SheetSpec => []AppliedAsShown
<1>1. SelectionInv => AppliedAsShown
  BY DEF SelectionInv, AppliedAsShown
<1> QED BY <1>1, SheetInitInv, SheetStepKeeps, PTL DEF SheetSpec

\* The total shown is of the rows selected, though previews are answered late.
THEOREM TotalsAreOfSelection == SheetSpec => []TotalIsOfSelection
<1>1. SelectionInv => TotalIsOfSelection
  BY DEF SelectionInv, TotalIsOfSelection
<1> QED BY <1>1, SheetInitInv, SheetStepKeeps, PTL DEF SheetSpec
=============================================================================
