--------------------------------- MODULE Bulk ---------------------------------
(* Bulk changes of transactions and their undo, beside single edits,          *)
(* deletions, entries taken back, and the deletion of buckets, categories and *)
(* members.                                                                   *)
(*                                                                            *)
(* A bulk change and an undo lock the rows they write from the read to the    *)
(* commit (and an undo its batch).  An edit loads its row, decides, and       *)
(* writes the columns that differ from what it loaded.  Amounts are left out: *)
(* of the shares it matters whether they cover the amount.                    *)
EXTENDS Base, Integers, FiniteSets, Sequences

CONSTANTS
    Txn, Member,
    Bucket, Category, Fuel, \* Fuel \in Category, the household's fuel category
    TakesIncome,            \* buckets with "Track income" on
    Rows,                   \* the transactions there may be at first
    Changes, Edits,         \* what the forms may send, see MCBulk
    Deletes,                \* what may be deleted or leave: buckets, categories, members
    Req, MaxBatches, MaxEdits,
    CascadeRace             \* TRUE: a bucket's deletion overlaps other requests

Fields == {"bucket", "category", "payer", "method"}
RowSet == [live : BOOLEAN, type : {"expense", "income"}, bucket : Bucket \cup {None},
           category : Category \cup {None}, payer : Member \cup {None}, mode : {"single", "own"},
           method : {"card", "cash"}, item : BOOLEAN, covered : BOOLEAN, litres : BOOLEAN,
           take : Member \cup {None}]
ChangeSet == [fields : SUBSET Fields, bucket : Bucket \cup {None}, category : Category \cup {None},
              mode : {"single", "own"}, payer : Member \cup {None}, method : {"card", "cash"}]
EditSet == [bucket : Bucket \cup {None}, category : Category \cup {None}, payer : Member \cup {None},
            mode : {"single", "own"}, method : {"card", "cash"}, covered : BOOLEAN, litres : BOOLEAN]

\* What create_transaction and the database see to, row by row.
TakeKept(row) ==
    row.take # None => /\ row.live /\ row.type = "expense" /\ row.method = "cash"
                       /\ row.mode = "single" /\ row.payer = row.take
Bucketed(row) == row.bucket # None \/ row.type = "income" \/ row.item
SharesKept(row) ==
    row.mode = "own" => row.type = "expense" /\ row.covered /\ row.payer = None

ASSUME BulkAssumption ==
    /\ None \notin Member \cup Bucket \cup Category /\ Fuel \in Category
    /\ TakesIncome \subseteq Bucket /\ Deletes \subseteq Bucket \cup Category \cup Member
    /\ Rows \subseteq RowSet /\ Changes \subseteq ChangeSet /\ Edits \subseteq EditSet
    /\ \A row \in Rows : TakeKept(row) /\ Bucketed(row) /\ SharesKept(row)
    /\ MaxBatches \in Nat /\ MaxEdits \in Nat /\ CascadeRace \in BOOLEAN

Open == [pc |-> "idle"]

VARIABLES
    rows,       \* transactions
    entry,      \* the recurring entry a row pays: linked or not, and its payer
    item,       \* the bucket of the recurring item all those entries belong to
    gone,       \* deleted buckets and categories, members who left
    batches,    \* bulk_batches with their bulk_batch_rows, in order
    breq,       \* the open requests
    edits,      \* requests of the single kinds so far (bound)
    writer,     \* history: the batch whose values a row holds, 0 after any other write
    crossed     \* history: an edit and a bulk request of one row overlapped

bvars == <<rows, entry, item, gone, batches, breq, edits, writer, crossed>>

Live == {t \in DOMAIN rows : rows[t].live}
Batch == DOMAIN batches
Locks(r) == IF breq[r].pc \in {"apply", "undo"} THEN breq[r].locks ELSE {}
Locked == UNION {Locks(r) : r \in Req}
BatchLocked == {breq[r].batch : r \in {q \in Req : breq[q].pc = "undo"}}
Editing(t) == \E r \in Req : breq[r].pc = "edit" /\ breq[r].txn = t
OwnShareProblem(row) == ~row.covered

\* ------------------------------------------------------------- the row rules
Takes(row, field, ch) == IF field \in ch.fields THEN ch[field] ELSE row[field]

New(row, ch) ==
    [row EXCEPT !.bucket = Takes(row, "bucket", ch), !.category = Takes(row, "category", ch),
                !.method = Takes(row, "method", ch),
                !.mode = IF "payer" \in ch.fields THEN ch.mode ELSE row.mode,
                !.payer = IF "payer" \notin ch.fields THEN row.payer
                          ELSE IF ch.mode = "own" THEN None ELSE ch.payer]

\* R6, R7: only income, and a Fixed cost that has none already, go without a bucket.
NeedsBucket(row, ch) ==
    /\ "bucket" \in ch.fields /\ ch.bucket = None /\ row.type # "income"
    /\ ~(row.item /\ row.bucket = None)
IncomeBucket(row, ch) ==
    /\ "bucket" \in ch.fields /\ row.type = "income"
    /\ ch.bucket \notin {None, row.bucket} /\ ch.bucket \notin TakesIncome
FuelData(row, ch) == "category" \in ch.fields /\ row.litres /\ ch.category # Fuel
\* mutant: no R13
PayerRefusedTaken(row, ch) ==
    /\ "payer" \in ch.fields /\ ch.mode = "own"
    /\ (row.type # "expense" \/ (row.mode # "own" /\ OwnShareProblem(row)))

\* R13, R16, R17
PayerRefused(row, ch) ==
    /\ "payer" \in ch.fields
    /\ IF ch.mode = "own"
       THEN \/ row.type # "expense" \/ row.take # None
            \/ row.mode # "own" /\ OwnShareProblem(row)
       ELSE row.take \notin {None, ch.payer}
\* R14, R15
MethodRefused(row, ch) ==
    /\ "method" \in ch.fields
    /\ \/ row.take # None /\ ch.method # "cash"
       \/ /\ ch.method = "cash" /\ row.method # "cash"
          /\ New(row, ch).mode = "single" /\ New(row, ch).payer = None

Skipped(row, ch) ==
    \/ ~row.live
    \/ NeedsBucket(row, ch) \/ IncomeBucket(row, ch) \/ FuelData(row, ch)
    \/ PayerRefused(row, ch) \/ MethodRefused(row, ch)

\* ---------------------------------------------------------------------- bulk
\* What a foreign key checks at the flush.
Named(ch) == {ch[f] : f \in ch.fields \cap {"bucket", "category"}}

\* POST /transactions/bulk: the selection is locked and planned; move_bill reads
\* the item.  A preview, or a change of nothing, writes nothing.
BeginBulk(r, S, ch, moveBill) ==
    LET changed == {t \in S : ~Skipped(rows[t], ch) /\ New(rows[t], ch) # rows[t]}
        moves == moveBill /\ item # ch.bucket
    IN  /\ breq[r] = Open
        /\ Cardinality(Batch) + Cardinality({q \in Req : breq[q].pc = "apply"}) < MaxBatches
        /\ S \cap Locked = {} /\ (changed # {} \/ moves)
        /\ Named(ch) \cap gone = {}
        /\ "payer" \in ch.fields => ch.payer \notin gone
        /\ moveBill => "bucket" \in ch.fields /\ S = {t \in Live : rows[t].item}
        /\ breq' = [breq EXCEPT ![r] =
                      [pc |-> "apply", locks |-> S, changed |-> changed, ch |-> ch,
                       moves |-> moves, item |-> item]]
        /\ crossed' = (crossed \/ \E t \in S : Editing(t))
        /\ UNCHANGED <<rows, entry, item, gone, batches, edits, writer>>

\* The batch, its rows with old and new values, the rows, the payer of a paid
\* entry (R18), the item: one commit.
CommitBulk(r) ==
    LET q == breq[r]
        b == Cardinality(Batch) + 1
        followed == {t \in q.changed : /\ "payer" \in q.ch.fields /\ q.ch.mode = "single"
                                       /\ entry[t].linked}
        Row(t) == [old |-> rows[t], new |-> New(rows[t], q.ch), follows |-> t \in followed,
                   oldEntry |-> entry[t].payer, was |-> writer[t]]
    IN  /\ q.pc = "apply" /\ Named(q.ch) \cap gone = {}
        /\ batches' = Append(batches,
               [fields |-> q.ch.fields, rows |-> [t \in q.changed |-> Row(t)],
                moved |-> q.moves, oldItem |-> q.item, newItem |-> q.ch.bucket,
                undone |-> FALSE, old |-> FALSE])
        /\ rows' = [t \in DOMAIN rows |->
                       IF t \in q.changed THEN New(rows[t], q.ch) ELSE rows[t]]
        /\ entry' = [t \in DOMAIN entry |->
                        IF t \in followed THEN [entry[t] EXCEPT !.payer = q.ch.payer] ELSE entry[t]]
        /\ item' = IF q.moves THEN q.ch.bucket ELSE item
        /\ writer' = [t \in DOMAIN writer |-> IF t \in q.changed THEN b ELSE writer[t]]
        /\ breq' = [breq EXCEPT ![r] = Open]
        /\ UNCHANGED <<gone, edits, crossed>>

\* The process dies, or a foreign key refuses the flush: all of it is undone.
Fail(r) ==
    /\ breq[r] # Open
    /\ breq' = [breq EXCEPT ![r] = Open]
    /\ UNCHANGED <<rows, entry, item, gone, batches, edits, writer, crossed>>

\* ---------------------------------------------------------------------- undo
Holds(row, new, fields) ==
    /\ \A f \in fields \ {"payer"} : row[f] = new[f]
    /\ "payer" \in fields => row.payer = new.payer /\ row.mode = new.mode

\* U4: nothing but income and a recurring payment is left without a bucket.
BucketLostNever(row, old, fields) == FALSE \* mutant
BucketLost(row, old, fields) ==
    "bucket" \in fields /\ old.bucket = None /\ row.type # "income" /\ ~row.item

\* U5, with R13, R14 and R17
TakeLost(row, old, fields) ==
    /\ row.take # None
    /\ \/ "payer" \in fields /\ (old.mode = "own" \/ old.payer # row.take)
       \/ "method" \in fields /\ old.method # "cash"
SharesLostNever(row, old, fields) == FALSE \* mutant
SharesLost(row, old, fields) ==
    "payer" \in fields /\ old.mode = "own" /\ row.mode # "own" /\ OwnShareProblem(row)

\* U1 - U5
UndoProblem(row, old, new, fields) ==
    \/ ~row.live
    \/ ~Holds(row, new, fields)
    \/ \E f \in fields \cap {"bucket", "category", "payer"} : old[f] \in gone
    \/ BucketLost(row, old, fields)
    \/ TakeLost(row, old, fields)
    \/ SharesLost(row, old, fields)

\* mutant: the mode stays
RestoredPayer(row, old, fields) ==
    [row EXCEPT !.bucket = IF "bucket" \in fields THEN old.bucket ELSE row.bucket,
                !.category = IF "category" \in fields THEN old.category ELSE row.category,
                !.payer = IF "payer" \in fields THEN old.payer ELSE row.payer,
                !.method = IF "method" \in fields THEN old.method ELSE row.method]
Restored(row, old, fields) ==
    [row EXCEPT !.bucket = IF "bucket" \in fields THEN old.bucket ELSE row.bucket,
                !.category = IF "category" \in fields THEN old.category ELSE row.category,
                !.payer = IF "payer" \in fields THEN old.payer ELSE row.payer,
                !.mode = IF "payer" \in fields THEN old.mode ELSE row.mode,
                !.method = IF "method" \in fields THEN old.method ELSE row.method]

MayUndo(b) == ~batches[b].undone /\ ~batches[b].old

\* POST /transactions/bulk/{id}/undo: the batch row is locked first, then its
\* transactions.
BeginUndo(r, b) ==
    LET touched == DOMAIN batches[b].rows \cap DOMAIN rows
    IN  /\ breq[r] = Open
        /\ b \notin BatchLocked /\ MayUndo(b)
        /\ touched \cap Locked = {}
        /\ breq' = [breq EXCEPT ![r] =
                      [pc |-> "undo", batch |-> b, locks |-> touched,
                       restores |-> {t \in touched : ~UndoProblem(rows[t], batches[b].rows[t].old,
                                             batches[b].rows[t].new, batches[b].fields)},
                       item |-> batches[b].moved /\ item = batches[b].newItem
                                  /\ batches[b].oldItem \notin gone]]
        /\ crossed' = (crossed \/ \E t \in touched : Editing(t))
        /\ UNCHANGED <<rows, entry, item, gone, batches, edits, writer>>

CommitUndo(r) ==
    LET q == breq[r]
        b == q.batch
        old(t) == batches[b].rows[t].old
        follows(t) == t \in q.restores /\ batches[b].rows[t].follows /\ entry[t].linked
    IN  /\ q.pc = "undo"
        /\ \A t \in q.restores, f \in batches[b].fields \cap {"bucket", "category"} :
              old(t)[f] \notin gone
        /\ rows' = [t \in DOMAIN rows |-> IF t \in q.restores
                                          THEN Restored(rows[t], old(t), batches[b].fields)
                                          ELSE rows[t]]
        /\ entry' = [t \in DOMAIN entry |->
                        IF follows(t) THEN [entry[t] EXCEPT !.payer = batches[b].rows[t].oldEntry]
                        ELSE entry[t]]
        /\ item' = IF q.item THEN batches[b].oldItem ELSE item
        /\ batches' = [batches EXCEPT ![b].undone = TRUE]
        /\ writer' = [t \in DOMAIN writer |->
                         IF t \notin q.restores THEN writer[t]
                         ELSE IF writer[t] = b THEN batches[b].rows[t].was ELSE 0]
        /\ breq' = [breq EXCEPT ![r] = Open]
        /\ UNCHANGED <<gone, edits, crossed>>

\* The 24 hours of a batch are over.
Expire(b) ==
    /\ ~batches[b].old
    /\ batches' = [batches EXCEPT ![b].old = TRUE]
    /\ UNCHANGED <<rows, entry, item, gone, breq, edits, writer, crossed>>

\* ------------------------------------------------------- one row at a time
MayEdit == edits < MaxEdits /\ edits' = edits + 1

\* PUT /transactions/{id}: the form over the loaded row, with the payer that
\* cash falls back to, and what is refused.
Formed(row, u, e) ==
    LET needed == row.type = "expense" /\ (e.method = "cash" \/ e.covered)
        payer == IF e.mode = "own" THEN None
                 ELSE IF e.payer # None \/ ~needed THEN e.payer
                 ELSE IF row.payer # None THEN row.payer ELSE u
    IN  [row EXCEPT !.bucket = e.bucket, !.category = e.category, !.method = e.method,
                    !.mode = e.mode, !.covered = e.covered, !.payer = payer,
                    !.litres = e.litres /\ row.type = "expense" /\ e.category = Fuel,
                    !.take = IF e.method = "cash" THEN row.take ELSE None]

EditRefused(row, new) ==
    \/ new.mode = "own" /\ (row.type # "expense" \/ OwnShareProblem(new))
    \/ new.bucket = None /\ row.type # "income" /\ ~(row.item /\ row.bucket = None)
    \/ row.type = "income" /\ new.bucket \notin {None, row.bucket} /\ new.bucket \notin TakesIncome
    \/ new.take # None /\ (new.mode = "own" \/ new.payer # new.take)
    \/ {new.bucket, new.category, new.payer} \cap gone # {}

BeginEdit(r, u, t, e) ==
    /\ breq[r] = Open /\ MayEdit /\ u \notin gone
    /\ rows[t].live /\ ~EditRefused(rows[t], Formed(rows[t], u, e))
    /\ breq' = [breq EXCEPT ![r] = [pc |-> "edit", txn |-> t, was |-> rows[t],
                                    new |-> Formed(rows[t], u, e)]]
    /\ crossed' = (crossed \/ t \in Locked)
    /\ UNCHANGED <<rows, entry, item, gone, batches, writer>>

\* The flush waits for the row lock and writes the columns that differ; the
\* shares are written again whatever they were.
CommitEdit(r) ==
    LET q == breq[r]
        Column(f) == IF q.new[f] # q.was[f] THEN q.new[f] ELSE rows[q.txn][f]
    IN  /\ q.pc = "edit" /\ q.txn \in DOMAIN rows \ Locked
        /\ {Column("bucket"), Column("category")} \cap gone = {}
        /\ breq' = [breq EXCEPT ![r] = Open]
        /\ rows' = [rows EXCEPT ![q.txn] =
                      [rows[q.txn] EXCEPT
                          !.bucket = Column("bucket"), !.category = Column("category"),
                          !.payer = Column("payer"), !.mode = Column("mode"),
                          !.method = Column("method"), !.litres = Column("litres"),
                          !.take = Column("take"), !.covered = q.new.covered]]
        /\ writer' = [writer EXCEPT ![q.txn] = 0]
        /\ crossed' = (crossed \/ \E o \in Req \ {r} : breq[o].pc = "edit" /\ breq[o].txn = q.txn)
        /\ UNCHANGED <<entry, item, gone, batches, edits>>

\* DELETE /transactions/{id}: the take goes with it and the entry is expected again.
Delete(t) ==
    /\ MayEdit /\ rows[t].live /\ t \notin Locked
    /\ rows' = [rows EXCEPT ![t].live = FALSE, ![t].take = None]
    /\ entry' = [entry EXCEPT ![t] = [linked |-> FALSE, payer |-> None]]
    /\ writer' = [writer EXCEPT ![t] = 0]
    /\ crossed' = (crossed \/ Editing(t))
    /\ UNCHANGED <<item, gone, batches, breq>>

\* The entry is taken back and its payment kept: refused for a bucket-less expense.
Unlink(t) ==
    /\ MayEdit /\ t \notin Locked
    /\ rows[t].live /\ entry[t].linked
    /\ ~(rows[t].bucket = None /\ rows[t].type = "expense")
    /\ rows' = [rows EXCEPT ![t].item = FALSE]
    /\ entry' = [entry EXCEPT ![t] = [linked |-> FALSE, payer |-> None]]
    /\ crossed' = (crossed \/ Editing(t))
    /\ UNCHANGED <<item, gone, batches, breq, writer>>

\* ------------------------------------------------ buckets, categories, members
\* DELETE /buckets/{id} looks for transactions and items first; what got into
\* the bucket since goes with it (ON DELETE CASCADE).
BeginDeleteBucket(r, b) ==
    /\ breq[r] = Open /\ MayEdit /\ b \in (Deletes \cap Bucket) \ gone
    /\ CascadeRace \/ \A q \in Req : breq[q] = Open
    /\ \A t \in DOMAIN rows : rows[t].bucket # b
    /\ item # b
    /\ breq' = [breq EXCEPT ![r] = [pc |-> "drop", bucket |-> b]]
    /\ UNCHANGED <<rows, entry, item, gone, batches, writer, crossed>>

CommitDeleteBucket(r) ==
    LET b == breq[r].bucket
        kept == {t \in DOMAIN rows : rows[t].bucket # b}
    IN  /\ breq[r].pc = "drop"
        /\ Locked \subseteq kept
        /\ item # b
        /\ rows' = [t \in kept |-> rows[t]]
        /\ gone' = gone \cup {b}
        /\ breq' = [breq EXCEPT ![r] = Open]
        /\ UNCHANGED <<entry, item, batches, edits, writer, crossed>>

\* Transactions in the category go without one; a member's payments stay theirs.
DeleteCategory(c) ==
    /\ MayEdit /\ c \in (Deletes \cap Category) \ (gone \cup {Fuel})
    /\ \A t \in DOMAIN rows : rows[t].category = c => t \notin Locked
    /\ rows' = [t \in DOMAIN rows |->
                   IF rows[t].category = c THEN [rows[t] EXCEPT !.category = None] ELSE rows[t]]
    /\ writer' = [t \in DOMAIN writer |->
                     IF t \in DOMAIN rows /\ rows[t].category = c THEN 0 ELSE writer[t]]
    /\ gone' = gone \cup {c}
    /\ UNCHANGED <<entry, item, batches, breq, crossed>>

RemoveMember(u) ==
    /\ MayEdit /\ u \in (Deletes \cap Member) \ gone
    /\ gone' = gone \cup {u}
    /\ UNCHANGED <<rows, entry, item, batches, breq, writer, crossed>>

\* ------------------------------------------------------------- specification
BulkInit ==
    /\ rows \in [Txn -> Rows]
    /\ entry = [t \in Txn |-> [linked |-> rows[t].item,
                               payer |-> IF rows[t].item THEN rows[t].payer ELSE None]]
    /\ \E b \in Bucket : item = b
    /\ gone = {} /\ batches = << >> /\ edits = 0
    /\ breq = [r \in Req |-> Open]
    /\ writer = [t \in Txn |-> 0] /\ crossed = FALSE

BulkNext ==
    \/ \E r \in Req :
          \/ \E S \in SUBSET DOMAIN rows, ch \in Changes, moveBill \in BOOLEAN :
                BeginBulk(r, S, ch, moveBill)
          \/ CommitBulk(r) \/ Fail(r)
          \/ \E b \in Batch : BeginUndo(r, b)
          \/ CommitUndo(r)
          \/ \E u \in Member, t \in DOMAIN rows, e \in Edits : BeginEdit(r, u, t, e)
          \/ CommitEdit(r)
          \/ \E b \in Bucket : BeginDeleteBucket(r, b)
          \/ CommitDeleteBucket(r)
    \/ \E b \in Batch : Expire(b)
    \/ \E t \in DOMAIN rows : Delete(t) \/ Unlink(t)
    \/ \E c \in Category : DeleteCategory(c)
    \/ \E u \in Member : RemoveMember(u)

BulkSpec == BulkInit /\ [][BulkNext]_bvars

\* ---------------------------------------------------------------- properties
\* Rows and batches keep their columns' domains and every lock has a holder.
BulkTypeOK ==
    /\ \A t \in DOMAIN rows :
          /\ t \in Txn /\ rows[t].bucket \in Bucket \cup {None} /\ rows[t].type \in {"expense", "income"}
          /\ rows[t].category \in Category \cup {None} /\ rows[t].payer \in Member \cup {None}
          /\ rows[t].mode \in {"single", "own"} /\ rows[t].method \in {"card", "cash"}
    /\ \A b \in Batch : batches[b].fields \subseteq Fields /\ writer \in [Txn -> {0} \cup Batch]

\* Cash taken for an expense stays with it: whatever bulk changes, undos and
\* edits come together, the expense of a live take is live, paid in cash, by one
\* payer, the taker (R13, R14, U5 and sync_linked_take).
TakeStays == \A t \in DOMAIN rows : TakeKept(rows[t])

\* "the CHECK is never hit" (R6, R7, U4): without the database looking, no
\* sequence of changes, undos, edits and entries taken back leaves a row without
\* a bucket that is neither income nor a recurring payment.
CheckNeverHit == \A t \in DOMAIN rows : Bucketed(rows[t])

\* "Each paid their own share" is only for expenses whose shares cover the
\* amount, and nobody is their payer (R16, R17, U5), unless an edit, which
\* replaces the shares, overlapped a bulk request of the same row.
OwnShareCovered == ~crossed => \A t \in Live : SharesKept(rows[t])

\* An undo gives back exactly what the row held before the batch, and the payer
\* its entry had, when nothing else has written the row since (later batches
\* that were undone do not count; an edit that overlapped a bulk request does),
\* and leaves alone a row in which another write changed what the batch had set.
UndoIsExact ==
    [][\A b \in Batch : batches'[b].undone /\ ~batches[b].undone =>
          \A t \in DOMAIN batches[b].rows \cap DOMAIN rows :
             LET R == batches[b].rows[t]
             IN  /\ /\ writer[t] = b /\ ~crossed
                    /\ \A f \in batches[b].fields : R.old[f] \notin gone
                    /\ R.old.bucket = None => rows[t].item \/ rows[t].type = "income"
                    => /\ \A f \in Fields \cup {"mode"} : rows'[t][f] = R.old[f]
                       /\ R.follows /\ entry[t].linked => entry'[t].payer = R.oldEntry
                 /\ ~Holds(rows[t], R.new, batches[b].fields) => rows'[t] = rows[t]]_bvars

\* "Cash likewise: it has to come out of someone's wallet" (create_transaction;
\* R15: "Method -> cash needs a payer"): a cash expense with one payer has one.
CashHasPayer ==
    \A t \in Live : rows[t].type = "expense" /\ rows[t].method = "cash" /\ rows[t].mode = "single"
                    => rows[t].payer # None

\* "This bucket has transactions or recurring bills and cannot be deleted"
\* (delete_bucket): deleting a bucket removes no transaction.
NothingCascades == [][DOMAIN rows \subseteq DOMAIN rows']_bvars
=============================================================================
