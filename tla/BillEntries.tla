----------------------------- MODULE BillEntries -----------------------------
(***************************************************************************)
(* The life of the expected entries of recurring items (bill_occurrences)  *)
(* and of the transactions that settle them, under concurrent requests.    *)
(*                                                                         *)
(* The store is PostgreSQL at READ COMMITTED.  A handler first loads the   *)
(* rows it looks at and raises if they are in the wrong state (a Begin     *)
(* action: the rows it loaded stay in its slot), and later writes and      *)
(* commits (a Commit action, atomic: its first UPDATE takes the row lock   *)
(* and the lock is held to the commit).  Anything may commit in between.   *)
(* Two kinds of write exist: a conditional UPDATE that looks at the row    *)
(* again (claim_occurrence), and an ORM flush, which writes the columns    *)
(* the handler changed without looking (OrmEntry, OrmTxn).                 *)
(***************************************************************************)
EXTENDS Naturals, FiniteSets

CONSTANTS
    Item,       \* recurring items (recurring_bills)
    Entry,      \* expected entries (bill_occurrences)
    Txn,        \* ids transactions can have; a row is never removed
    ItemOf,     \* the item of an entry
    Income,     \* items of direction "in"
    Bucketed,   \* items with a bucket
    Variable,   \* items without an amount of their own
    AutoPay,    \* active items with is_auto_pay
    Due,        \* entries due today or in the AUTO_PAY_WINDOW_DAYS before
    Req,        \* HTTP requests in flight at once
    Pass,       \* runs of the auto-pay stage in flight at once
    Kinds,      \* the requests the household's clients send
    MaxCrashes, \* bound: how often an auto-pay run dies half way
    NoTxn, NoItem, NoEntry

Slot == Req \cup Pass

ASSUME EntriesAssumption ==
    /\ ItemOf \in [Entry -> Item]
    /\ Income \subseteq Item
    /\ Bucketed \subseteq Item
    /\ Variable \subseteq Item
    /\ AutoPay \subseteq Item
    /\ Due \subseteq Entry
    /\ MaxCrashes \in Nat
    /\ NoTxn \notin Txn
    /\ NoItem \notin Item
    /\ NoEntry \notin Entry

VARIABLES
    entry,      \* the rows of bill_occurrences
    txn,        \* the rows of transactions
    suggestion, \* the rows of match_suggestions
    req,        \* what each slot is doing, with the rows it loaded
    refused,    \* history: the database's CHECK has refused a commit
    crashes     \* auto-pay runs that died half way

store == <<entry, txn>>
vars == <<entry, txn, suggestion, req, refused, crashes>>

EntryRow == [status : {"unpaid", "paid", "skipped"}, txn : Txn \cup {NoTxn},
             autoPaid : BOOLEAN, amount : BOOLEAN]
TxnRow == [state : {"absent", "live", "deleted"}, item : Item \cup {NoItem},
           bucket : BOOLEAN, type : {"expense", "income"}]

FreshEntry == [status |-> "unpaid", txn |-> NoTxn, autoPaid |-> FALSE, amount |-> FALSE]
AbsentTxn == [state |-> "absent", item |-> NoItem, bucket |-> FALSE, type |-> "expense"]

Op == {"done", "pay", "undo", "skip", "amount", "link", "delete", "edit"}

\* "given" is the flag a request carries: an explicit amount (done, pay),
\* delete_transaction (undo).  "occ" and "row" are the rows it loaded.
Request == [op : Op \cup {"idle", "pass"}, entry : Entry \cup {NoEntry}, txn : Txn \cup {NoTxn},
            given : BOOLEAN, occ : EntryRow, row : TxnRow, to : TxnRow, pending : SUBSET Entry]

Idle == [op |-> "idle", entry |-> NoEntry, txn |-> NoTxn, given |-> FALSE,
         occ |-> FreshEntry, row |-> AbsentTxn, to |-> AbsentTxn, pending |-> {}]

Init ==
    /\ entry = [e \in Entry |-> FreshEntry]
    /\ txn = [t \in Txn |-> AbsentTxn]
    /\ suggestion = [p \in Txn \X Entry |-> "none"]
    /\ req = [r \in Slot |-> Idle]
    /\ refused = FALSE
    /\ crashes = 0

-----------------------------------------------------------------------------
(* What the store does.                                                    *)

\* A flush writes the columns whose value differs from the loaded one.
Column(now, loaded, new) == IF new # loaded THEN new ELSE now

OrmEntry(now, loaded, new) ==
    [status   |-> Column(now.status, loaded.status, new.status),
     txn      |-> Column(now.txn, loaded.txn, new.txn),
     autoPaid |-> Column(now.autoPaid, loaded.autoPaid, new.autoPaid),
     amount   |-> Column(now.amount, loaded.amount, new.amount)]

OrmTxn(now, loaded, new) ==
    [state  |-> Column(now.state, loaded.state, new.state),
     item   |-> Column(now.item, loaded.item, new.item),
     bucket |-> Column(now.bucket, loaded.bucket, new.bucket),
     type   |-> Column(now.type, loaded.type, new.type)]

\* CHECK ck_transactions_bucket_unless_income: only income and the payment
\* of a recurring item may go without a bucket.
CheckHolds(row) == row.bucket \/ row.type = "income" \/ row.item # NoItem

Absent == {t \in Txn : txn[t].state = "absent"}
Linked(t) == txn[t].item # NoItem \/ \E e \in Entry : entry[e].txn = t

\* Mutant: the claim has no row filter.
ClaimableAnyway(e) == TRUE

\* The row filter of the conditional UPDATE.
Claimable(e) == entry[e].status = "unpaid" /\ entry[e].txn = NoTxn

\* Mutant: the API's word for unpaid gets into the column.
ReopenedAsExpected(row) == [row EXCEPT !.status = "expected", !.txn = NoTxn]
Reopened(row) == [row EXCEPT !.status = "unpaid", !.txn = NoTxn]

AmountKnown(e, given) == given \/ entry[e].amount \/ ItemOf[e] \notin Variable

-----------------------------------------------------------------------------
(* Settling an entry.                                                      *)

Claimed(row, t, stored, auto) ==
    [status |-> "paid", txn |-> t, autoPaid |-> row.autoPaid \/ auto,
     amount |-> row.amount \/ stored]

Payment(e) ==
    [state |-> "live", item |-> ItemOf[e], bucket |-> ItemOf[e] \in Bucketed \ Income,
     type |-> IF ItemOf[e] \in Income THEN "income" ELSE "expense"]

\* pay_occurrence and receive_occurrence after a won claim.
PayWith(e, stored, auto) ==
    \E t \in Absent :
        /\ txn' = [txn EXCEPT ![t] = Payment(e)]
        /\ entry' = [entry EXCEPT ![e] = Claimed(@, t, stored, auto)]

\* Mutant: a bucket-less bill is not claimed.
SettleWithBucket(e, stored, auto) ==
    IF ItemOf[e] \in Bucketed THEN PayWith(e, stored, auto) ELSE UNCHANGED store

\* settle_occurrence: an item without a bucket only gets the claim.
Settle(e, stored, auto) ==
    IF ItemOf[e] \in Bucketed
      THEN PayWith(e, stored, auto)
      ELSE /\ entry' = [entry EXCEPT ![e] = Claimed(@, NoTxn, stored, auto)]
           /\ UNCHANGED txn

\* Mutant: the entry is not reopened.
SoftDeleteAlone(t) == txn' = [txn EXCEPT ![t].state = "deleted"] /\ UNCHANGED entry

\* delete_transaction: soft-delete, and every entry it settled is expected again.
SoftDelete(t) ==
    /\ txn' = [txn EXCEPT ![t].state = "deleted"]
    /\ entry' = [e \in Entry |-> IF entry[e].txn = t THEN Reopened(entry[e]) ELSE entry[e]]

\* Commit row t changed to "new", unless the CHECK refuses the transaction.
Checked(t, new, newEntry) ==
    IF CheckHolds(new)
      THEN /\ txn' = [txn EXCEPT ![t] = new]
           /\ entry' = newEntry
           /\ UNCHANGED refused
      ELSE /\ refused' = TRUE
           /\ UNCHANGED store

-----------------------------------------------------------------------------
(* Requests: what a handler loads and the checks it makes on it.           *)

Begin(r, q) ==
    /\ r \in Req
    /\ req[r].op = "idle"
    /\ q.op \in Kinds
    /\ req' = [req EXCEPT ![r] = q]
    /\ UNCHANGED <<entry, txn, suggestion, refused, crashes>>

\* Done in the new app: complete_entry.
BeginDone(r, e, given) ==
    /\ entry[e].status = "unpaid"
    /\ AmountKnown(e, given)
    /\ Begin(r, [Idle EXCEPT !.op = "done", !.entry = e, !.given = given])

\* Pay in the old app: only bills; a skipped entry passes the check.
BeginPay(r, e, given) ==
    /\ ItemOf[e] \notin Income
    /\ entry[e].status # "paid"
    /\ AmountKnown(e, given)
    /\ Begin(r, [Idle EXCEPT !.op = "pay", !.entry = e, !.given = given])

LoadedTxn(e) == IF entry[e].txn = NoTxn THEN AbsentTxn ELSE txn[entry[e].txn]

\* Mutant: no Fixed-cost guard.
BeginUndoUnguarded(r, e, deleteToo) ==
    /\ entry[e].status # "unpaid"
    /\ Begin(r, [Idle EXCEPT !.op = "undo", !.entry = e, !.given = deleteToo,
                             !.occ = entry[e], !.row = LoadedTxn(e)])

BeginUndo(r, e, deleteToo) ==
    /\ entry[e].status # "unpaid"
    /\ LET row == LoadedTxn(e) IN
         /\ ~ /\ entry[e].status = "paid"
              /\ row.state = "live"
              /\ ~deleteToo
              /\ ~row.bucket
              /\ row.type = "expense"
         /\ Begin(r, [Idle EXCEPT !.op = "undo", !.entry = e, !.given = deleteToo,
                                  !.occ = entry[e], !.row = row])

\* Mutant: a done entry can be skipped.
BeginSkipPaid(r, e) ==
    Begin(r, [Idle EXCEPT !.op = "skip", !.entry = e, !.occ = entry[e]])

BeginSkip(r, e) ==
    /\ entry[e].status # "paid"
    /\ Begin(r, [Idle EXCEPT !.op = "skip", !.entry = e, !.occ = entry[e]])

BeginAmount(r, e) ==
    /\ entry[e].status = "unpaid"
    /\ Begin(r, [Idle EXCEPT !.op = "amount", !.entry = e, !.occ = entry[e]])

BeginLink(r, t, e) ==
    /\ suggestion[<<t, e>>] = "offered"
    /\ txn[t].state = "live"
    /\ ~Linked(t)
    /\ Begin(r, [Idle EXCEPT !.op = "link", !.entry = e, !.txn = t])

BeginDelete(r, t) ==
    /\ txn[t].state = "live"
    /\ Begin(r, [Idle EXCEPT !.op = "delete", !.txn = t])

\* update_transaction: a bill payment without a bucket may stay without one.
BeginEdit(r, t, bucket, type) ==
    /\ txn[t].state = "live"
    /\ \/ bucket
       \/ type = "income"
       \/ txn[t].item # NoItem /\ ~txn[t].bucket
    /\ Begin(r, [Idle EXCEPT !.op = "edit", !.txn = t, !.row = txn[t],
                             !.to = [txn[t] EXCEPT !.bucket = bucket, !.type = type]])

-----------------------------------------------------------------------------
(* Requests: the writes and the commit.                                    *)

Commit(r, op) ==
    /\ r \in Req
    /\ req[r].op = op
    /\ req' = [req EXCEPT ![r] = Idle]
    /\ UNCHANGED <<suggestion, crashes>>

\* A lost claim is answered with 409 and writes nothing.
CommitDone(r) ==
    LET e == req[r].entry IN
    /\ Commit(r, "done")
    /\ IF Claimable(e) THEN PayWith(e, req[r].given \/ ItemOf[e] \in Variable, FALSE)
                       ELSE UNCHANGED store
    /\ UNCHANGED refused

CommitPay(r) ==
    LET e == req[r].entry IN
    /\ Commit(r, "pay")
    /\ IF Claimable(e) THEN Settle(e, req[r].given, FALSE)
                       ELSE UNCHANGED store
    /\ UNCHANGED refused

CommitUndo(r) ==
    LET q == req[r]
        t == q.occ.txn
        reopened == [entry EXCEPT ![q.entry] = OrmEntry(@, q.occ, Reopened(q.occ))]
    IN
    /\ Commit(r, "undo")
    /\ IF q.occ.status = "skipped" \/ q.row.state # "live"
         THEN entry' = reopened /\ UNCHANGED <<txn, refused>>
         ELSE IF q.given
           THEN SoftDelete(t) /\ UNCHANGED refused
           ELSE Checked(t, OrmTxn(txn[t], q.row, [q.row EXCEPT !.item = NoItem]), reopened)

CommitSkip(r) ==
    LET q == req[r] IN
    /\ Commit(r, "skip")
    /\ entry' = [entry EXCEPT ![q.entry] = OrmEntry(@, q.occ, [q.occ EXCEPT !.status = "skipped"])]
    /\ UNCHANGED <<txn, refused>>

CommitAmount(r) ==
    LET q == req[r] IN
    /\ Commit(r, "amount")
    /\ entry' = [entry EXCEPT ![q.entry] = OrmEntry(@, q.occ, [q.occ EXCEPT !.amount = TRUE])]
    /\ UNCHANGED <<txn, refused>>

CommitLink(r) ==
    LET e == req[r].entry
        t == req[r].txn
    IN
    /\ Commit(r, "link")
    /\ IF Claimable(e)
         THEN /\ entry' = [entry EXCEPT ![e] = Claimed(@, t, ItemOf[e] \in Variable, FALSE)]
              /\ txn' = [txn EXCEPT ![t].item = ItemOf[e]]
         ELSE UNCHANGED <<entry, txn>>
    /\ UNCHANGED refused

CommitDelete(r) ==
    /\ Commit(r, "delete")
    /\ SoftDelete(req[r].txn)
    /\ UNCHANGED refused

CommitEdit(r) ==
    LET q == req[r] IN
    /\ Commit(r, "edit")
    /\ Checked(q.txn, OrmTxn(txn[q.txn], q.row, q.to), entry)

\* The request dies before its commit; the database rolls back.
Abort(r) ==
    /\ r \in Req
    /\ req[r].op \in Op
    /\ req' = [req EXCEPT ![r] = Idle]
    /\ UNCHANGED <<entry, txn, suggestion, refused, crashes>>

-----------------------------------------------------------------------------
(* Transactions logged by hand, and match suggestions for them.            *)

LogTransaction(t, bucket, type) ==
    /\ "create" \in Kinds
    /\ t \in Absent
    /\ bucket \/ type = "income"
    /\ txn' = [txn EXCEPT ![t] = [state |-> "live", item |-> NoItem,
                                  bucket |-> bucket, type |-> type]]
    /\ UNCHANGED <<entry, suggestion, req, refused, crashes>>

OpenSuggestion(t, e) ==
    suggestion[<<t, e>>] = "offered" /\ txn[t].state = "live" /\ txn[t].item = NoItem /\ Claimable(e)

\* After a save and in the daily pass.  Which fitting entry is closest (dates,
\* amounts, names) is left open; a pair offered before is never offered again.
Suggest(t, e) ==
    /\ txn[t].state = "live"
    /\ ~Linked(t)
    /\ \A f \in Entry : ~OpenSuggestion(t, f)
    /\ Claimable(e)
    /\ (txn[t].type = "income") = (ItemOf[e] \in Income)
    /\ suggestion[<<t, e>>] = "none"
    /\ suggestion' = [suggestion EXCEPT ![<<t, e>>] = "offered"]
    /\ UNCHANGED <<entry, txn, req, refused, crashes>>

Dismiss(t, e) ==
    /\ "dismiss" \in Kinds
    /\ suggestion[<<t, e>>] = "offered"
    /\ suggestion' = [suggestion EXCEPT ![<<t, e>>] = "dismissed"]
    /\ UNCHANGED <<entry, txn, req, refused, crashes>>

-----------------------------------------------------------------------------
(* The auto-pay stage of the scheduler's daily job.                        *)

\* Mutant: auto_paid_at is not looked at.
AutoPayableAgain(e) ==
    /\ Claimable(e)
    /\ e \in Due
    /\ ItemOf[e] \in AutoPay \ Income
    /\ AmountKnown(e, FALSE)

AutoPayable(e) ==
    /\ Claimable(e)
    /\ e \in Due
    /\ ~entry[e].autoPaid
    /\ ItemOf[e] \in AutoPay \ Income
    /\ AmountKnown(e, FALSE)

\* The query at the start of the stage: what to pay is decided here ...
BeginPass(p) ==
    LET due == {e \in Entry : AutoPayable(e)} IN
    /\ p \in Pass
    /\ req[p].op = "idle"
    /\ due # {}
    /\ req' = [req EXCEPT ![p] = [Idle EXCEPT !.op = "pass", !.pending = due]]
    /\ UNCHANGED <<entry, txn, suggestion, refused, crashes>>

\* ... and paid one by one, each with its own commit, by the claim alone.
PassStep(p, e) ==
    /\ p \in Pass
    /\ req[p].op = "pass"
    /\ e \in req[p].pending
    /\ IF Claimable(e) THEN Settle(e, FALSE, TRUE) ELSE UNCHANGED store
    /\ req' = [req EXCEPT ![p] = IF req[p].pending = {e} THEN Idle
                                 ELSE [req[p] EXCEPT !.pending = req[p].pending \ {e}]]
    /\ UNCHANGED <<suggestion, refused, crashes>>

\* The process stops, or an exception ends the stage.
PassCrash(p) ==
    /\ p \in Pass
    /\ req[p].op = "pass"
    /\ crashes < MaxCrashes
    /\ crashes' = crashes + 1
    /\ req' = [req EXCEPT ![p] = Idle]
    /\ UNCHANGED <<entry, txn, suggestion, refused>>

-----------------------------------------------------------------------------

RequestStep(r) ==
    \/ \E e \in Entry, g \in BOOLEAN : BeginDone(r, e, g)
    \/ \E e \in Entry, g \in BOOLEAN : BeginPay(r, e, g)
    \/ \E e \in Entry, g \in BOOLEAN : BeginUndo(r, e, g)
    \/ \E e \in Entry : BeginSkip(r, e)
    \/ \E e \in Entry : BeginAmount(r, e)
    \/ \E t \in Txn, e \in Entry : BeginLink(r, t, e)
    \/ \E t \in Txn : BeginDelete(r, t)
    \/ \E t \in Txn, b \in BOOLEAN, k \in {"expense", "income"} : BeginEdit(r, t, b, k)
    \/ CommitDone(r)
    \/ CommitPay(r)
    \/ CommitUndo(r)
    \/ CommitSkip(r)
    \/ CommitAmount(r)
    \/ CommitLink(r)
    \/ CommitDelete(r)
    \/ CommitEdit(r)
    \/ Abort(r)

MatchStep ==
    \/ \E t \in Txn, b \in BOOLEAN, k \in {"expense", "income"} : LogTransaction(t, b, k)
    \/ \E t \in Txn, e \in Entry : Suggest(t, e)
    \/ \E t \in Txn, e \in Entry : Dismiss(t, e)

SchedulerStep(p) ==
    \/ BeginPass(p)
    \/ \E e \in Entry : PassStep(p, e)
    \/ PassCrash(p)

Next ==
    \/ \E r \in Req : RequestStep(r)
    \/ MatchStep
    \/ \E p \in Pass : SchedulerStep(p)

Spec == Init /\ [][Next]_vars

\* The job runs again every day and at every start of the server, and a run
\* that does not die goes on to its next entry.
Fairness ==
    \A p \in Pass : WF_vars(BeginPass(p)) /\ WF_vars(\E e \in Entry : PassStep(p, e))

FairSpec == Spec /\ Fairness

-----------------------------------------------------------------------------
(* Properties.                                                             *)

\* Every row, loaded row and counter has its type.
TypeOK ==
    /\ entry \in [Entry -> EntryRow]
    /\ txn \in [Txn -> TxnRow]
    /\ suggestion \in [Txn \X Entry -> {"none", "offered", "dismissed"}]
    /\ req \in [Slot -> Request]
    /\ refused \in BOOLEAN
    /\ crashes \in 0..MaxCrashes

Live(t) == txn[t].state = "live"

\* A live transaction that counts as a payment of an item settles one of the
\* item's entries.  An entry holds one transaction, so no entry is ever paid
\* twice, whoever raced for it (two members, the old and the new app, auto-pay
\* and its reruns), and no payment is orphaned by overwriting the entry's link.
NoOrphanPayment ==
    \A t \in Txn : Live(t) /\ txn[t].item # NoItem =>
        \E e \in Entry : entry[e].txn = t /\ ItemOf[e] = txn[t].item

\* Auto-pay never settles an entry it has settled before, so an auto-payment
\* the user undid or deleted stays undone, across reruns and crashed runs.
AutoSettles(e) == Claimable(e) /\ \E p \in Pass : PassStep(p, e)
NeverAutoPaidAgain == [][\A e \in Entry : entry[e].autoPaid => ~AutoSettles(e)]_vars

\* A skipped entry has no payment behind it.
SkippedHasNoPayment ==
    \A e \in Entry : entry[e].status = "skipped" => entry[e].txn = NoTxn

\* Link, pay, undo and delete keep both ends of the link: an entry with a
\* transaction is paid, the transaction is live and belongs to the entry's
\* item, and it settles no other entry.
LinkIsMutual ==
    \A e \in Entry : LET t == entry[e].txn IN t # NoTxn =>
        /\ entry[e].status = "paid"
        /\ Live(t)
        /\ txn[t].item = ItemOf[e]
        /\ \A f \in Entry \ {e} : entry[f].txn # t

\* The handlers' own checks keep a bucket-less expense with its item: the
\* database's CHECK never has to refuse a commit (a 500 to the user).
CheckNeverRefuses == ~refused

\* An entry auto-pay should pay does not stay so for ever, however often a
\* run dies: it is paid, or someone settles, skips or reserves it first
\* (or the bounded pool of transaction ids is used up).
AutoPayHappens ==
    \A e \in Entry : AutoPayable(e) ~> (~AutoPayable(e) \/ Absent = {})
=============================================================================
