-------------------------- MODULE BillEntriesProofs --------------------------
(***************************************************************************)
(* Theorems about recurring items: BillEntries, for any number of items,   *)
(* entries, transactions, concurrent requests and auto-pay runs, and the   *)
(* item as the plan's sheet edits it, for any rows and texts (PlanItem).   *)
(***************************************************************************)
EXTENDS BillEntriesRefinement, PlanItem, DataLemmas

\* The rows and the slots a system starts with have their types.
LEMMA FreshTypes == FreshEntry \in EntryRow /\ AbsentTxn \in TxnRow /\ Idle \in Request
  BY DEF FreshEntry, EntryRow, AbsentTxn, TxnRow, Idle, Request

\* A flush of two rows of the table's type leaves a row of the table's type.
LEMMA OrmEntryType ==
  ASSUME NEW a \in EntryRow, NEW b \in EntryRow, NEW c \in EntryRow
  PROVE  OrmEntry(a, b, c) \in EntryRow
  BY DEF OrmEntry, Column, EntryRow

\* The same for a flushed transaction.
LEMMA OrmTxnType ==
  ASSUME NEW a \in TxnRow, NEW b \in TxnRow, NEW c \in TxnRow
  PROVE  OrmTxn(a, b, c) \in TxnRow
  BY DEF OrmTxn, Column, TxnRow

\* A claimed entry is a row of its table.
LEMMA ClaimedType ==
  ASSUME NEW row \in EntryRow, NEW t \in Txn \cup {NoTxn},
         NEW stored \in BOOLEAN, NEW auto \in BOOLEAN
  PROVE  Claimed(row, t, stored, auto) \in EntryRow
  BY DEF Claimed, EntryRow

\* So is the transaction a payment inserts.
LEMMA PaymentType ==
  ASSUME NEW e \in Entry
  PROVE  Payment(e) \in TxnRow
  BY EntriesAssumption DEF Payment, TxnRow

\* The store keeps its type whatever settles an entry or deletes a transaction.
LEMMA PayWithType ==
  ASSUME TypeOK, NEW e \in Entry, NEW stored \in BOOLEAN, NEW auto \in BOOLEAN,
         PayWith(e, stored, auto)
  PROVE  entry' \in [Entry -> EntryRow] /\ txn' \in [Txn -> TxnRow]
  <1>1. PICK t \in Absent :
            /\ txn' = [txn EXCEPT ![t] = Payment(e)]
            /\ entry' = [entry EXCEPT ![e] = Claimed(@, t, stored, auto)]
    BY DEF PayWith
  <1>2. t \in Txn
    BY DEF Absent
  <1>3. Claimed(entry[e], t, stored, auto) \in EntryRow
    BY <1>2, ClaimedType DEF TypeOK
  <1>4. QED
    BY <1>1, <1>2, <1>3, PaymentType DEF TypeOK

\* The bare claim of a bucket-less bill keeps the types too.
LEMMA SettleType ==
  ASSUME TypeOK, NEW e \in Entry, NEW stored \in BOOLEAN, NEW auto \in BOOLEAN,
         Settle(e, stored, auto)
  PROVE  entry' \in [Entry -> EntryRow] /\ txn' \in [Txn -> TxnRow]
  <1>1. CASE ItemOf[e] \in Bucketed
    BY <1>1, PayWithType DEF Settle
  <1>2. CASE ItemOf[e] \notin Bucketed
    <2>1. Claimed(entry[e], NoTxn, stored, auto) \in EntryRow
      BY ClaimedType DEF TypeOK
    <2>2. QED
      BY <1>2, <2>1 DEF Settle, TypeOK
  <1>3. QED
    BY <1>1, <1>2

\* A deletion with the entries it reopens.
LEMMA SoftDeleteType ==
  ASSUME TypeOK, NEW t, SoftDelete(t)
  PROVE  entry' \in [Entry -> EntryRow] /\ txn' \in [Txn -> TxnRow]
  <1>1. \A e \in Entry : Reopened(entry[e]) \in EntryRow
    BY DEF TypeOK, Reopened, EntryRow
  <1>2. entry' \in [Entry -> EntryRow]
    BY <1>1 DEF SoftDelete, TypeOK
  <1>3. txn' \in [Txn -> TxnRow]
    BY DEF SoftDelete, TypeOK, TxnRow
  <1>4. QED
    BY <1>2, <1>3

\* A commit that the CHECK may refuse.
LEMMA CheckedType ==
  ASSUME TypeOK, NEW t, NEW new \in TxnRow, NEW newEntry \in [Entry -> EntryRow],
         Checked(t, new, newEntry)
  PROVE  /\ entry' \in [Entry -> EntryRow]
         /\ txn' \in [Txn -> TxnRow]
         /\ refused' \in BOOLEAN
  <1>1. CASE CheckHolds(new)
    BY <1>1 DEF Checked, TypeOK
  <1>2. CASE ~CheckHolds(new)
    BY <1>2 DEF Checked, TypeOK, store
  <1>3. QED
    BY <1>1, <1>2

\* A slot that carries out a Begin keeps the requests' type.
LEMMA BeginType ==
  ASSUME TypeOK, NEW r, NEW q \in Request, Begin(r, q)
  PROVE  TypeOK'
  BY DEF Begin, TypeOK

\* Every handler loads rows of the tables, and its slot holds a request.
LEMMA BeginsType ==
  ASSUME TypeOK, NEW r \in Req,
         \/ \E e \in Entry, g \in BOOLEAN : BeginDone(r, e, g)
         \/ \E e \in Entry, g \in BOOLEAN : BeginPay(r, e, g)
         \/ \E e \in Entry, g \in BOOLEAN : BeginUndo(r, e, g)
         \/ \E e \in Entry : BeginSkip(r, e)
         \/ \E e \in Entry : BeginAmount(r, e)
         \/ \E t \in Txn, e \in Entry : BeginLink(r, t, e)
         \/ \E t \in Txn : BeginDelete(r, t)
         \/ \E t \in Txn, b \in BOOLEAN, k \in {"expense", "income"} : BeginEdit(r, t, b, k)
  PROVE  TypeOK'
  <1>1. \A e \in Entry, g \in BOOLEAN :
           /\ [Idle EXCEPT !.op = "done", !.entry = e, !.given = g] \in Request
           /\ [Idle EXCEPT !.op = "pay", !.entry = e, !.given = g] \in Request
    BY FreshTypes DEF Idle, Request, Op
  <1>2. \A e \in Entry :
           /\ [Idle EXCEPT !.op = "skip", !.entry = e, !.occ = entry[e]] \in Request
           /\ [Idle EXCEPT !.op = "amount", !.entry = e, !.occ = entry[e]] \in Request
    BY FreshTypes DEF Idle, Request, Op, TypeOK
  <1>3. \A t \in Txn :
           /\ [Idle EXCEPT !.op = "delete", !.txn = t] \in Request
           /\ \A e \in Entry : [Idle EXCEPT !.op = "link", !.entry = e, !.txn = t] \in Request
    BY FreshTypes DEF Idle, Request, Op
  <1>4. ASSUME NEW e \in Entry, NEW g \in BOOLEAN, BeginUndo(r, e, g)
        PROVE  TypeOK'
    <2>1. LoadedTxn(e) \in TxnRow
      <3>1. entry[e].txn \in Txn \cup {NoTxn}
        BY DEF TypeOK, EntryRow
      <3>2. QED
        BY <3>1, FreshTypes DEF LoadedTxn, TypeOK
    <2>2. [Idle EXCEPT !.op = "undo", !.entry = e, !.given = g, !.occ = entry[e],
                       !.row = LoadedTxn(e)] \in Request
      BY <2>1, FreshTypes DEF Idle, Request, Op, TypeOK
    <2>3. QED
      BY <1>4, <2>2, BeginType DEF BeginUndo
  <1>5. ASSUME NEW t \in Txn, NEW b \in BOOLEAN, NEW k \in {"expense", "income"},
               BeginEdit(r, t, b, k)
        PROVE  TypeOK'
    <2>1. [txn[t] EXCEPT !.bucket = b, !.type = k] \in TxnRow
      BY DEF TypeOK, TxnRow
    <2>2. [Idle EXCEPT !.op = "edit", !.txn = t, !.row = txn[t],
                       !.to = [txn[t] EXCEPT !.bucket = b, !.type = k]] \in Request
      BY <2>1, FreshTypes DEF Idle, Request, Op, TypeOK
    <2>3. QED
      BY <1>5, <2>2, BeginType DEF BeginEdit
  <1>6. ASSUME NEW e \in Entry, NEW g \in BOOLEAN, BeginDone(r, e, g) \/ BeginPay(r, e, g)
        PROVE  TypeOK'
    BY <1>1, <1>6, BeginType DEF BeginDone, BeginPay
  <1>7. ASSUME NEW e \in Entry, BeginSkip(r, e) \/ BeginAmount(r, e)
        PROVE  TypeOK'
    BY <1>2, <1>7, BeginType DEF BeginSkip, BeginAmount
  <1>8. ASSUME NEW t \in Txn, BeginDelete(r, t) \/ \E e \in Entry : BeginLink(r, t, e)
        PROVE  TypeOK'
    BY <1>3, <1>8, BeginType DEF BeginDelete, BeginLink
  <1>9. QED
    BY <1>4, <1>5, <1>6, <1>7, <1>8

\* What every Commit does beside the store.
LEMMA CommitType ==
  ASSUME TypeOK, NEW r, NEW op, Commit(r, op),
         entry' \in [Entry -> EntryRow], txn' \in [Txn -> TxnRow], refused' \in BOOLEAN
  PROVE  TypeOK'
  BY FreshTypes DEF Commit, TypeOK

-----------------------------------------------------------------------------
(* Type correctness.                                                       *)

\* What a busy slot carries: the rows its handler was asked about.
SlotOK ==
    \A r \in Slot :
        /\ req[r].op \in Kinds \cup {"idle", "pass"}
        /\ req[r].op \in {"done", "pay", "undo", "skip", "amount", "link"} => req[r].entry \in Entry
        /\ req[r].op \in {"link", "delete", "edit"} => req[r].txn \in Txn
        /\ req[r].op = "edit" => /\ req[r].to.state = req[r].row.state
                                 /\ req[r].to.item = req[r].row.item

TypeInv == TypeOK /\ SlotOK

\* The strengthened invariant holds before the first request ...
LEMMA TypeInvInit == Init => TypeInv
  <1>1. Init => TypeOK
    <2>1. SUFFICES ASSUME Init PROVE TypeOK
      OBVIOUS
    <2>2. entry \in [Entry -> EntryRow] /\ txn \in [Txn -> TxnRow] /\ req \in [Slot -> Request]
      BY <2>1, FreshTypes DEF Init
    <2>3. suggestion \in [Txn \X Entry -> {"none", "offered", "dismissed"}]
      BY <2>1 DEF Init
    <2>4. refused \in BOOLEAN
      BY <2>1 DEF Init
    <2>5. crashes \in 0..MaxCrashes
      BY <2>1, EntriesAssumption DEF Init
    <2>6. QED
      BY <2>2, <2>3, <2>4, <2>5 DEF TypeOK
  <1>2. Init => SlotOK
    BY DEF Init, SlotOK, Idle
  <1>3. QED
    BY <1>1, <1>2 DEF TypeInv

\* A Begin fills the slot with a request of the kind that was sent.
LEMMA BeginsSlotOK ==
  ASSUME TypeInv, NEW r \in Req,
         \/ \E e \in Entry, g \in BOOLEAN : BeginDone(r, e, g)
         \/ \E e \in Entry, g \in BOOLEAN : BeginPay(r, e, g)
         \/ \E e \in Entry, g \in BOOLEAN : BeginUndo(r, e, g)
         \/ \E e \in Entry : BeginSkip(r, e)
         \/ \E e \in Entry : BeginAmount(r, e)
         \/ \E t \in Txn, e \in Entry : BeginLink(r, t, e)
         \/ \E t \in Txn : BeginDelete(r, t)
         \/ \E t \in Txn, b \in BOOLEAN, k \in {"expense", "income"} : BeginEdit(r, t, b, k)
  PROVE  SlotOK'
  <1>1. ASSUME NEW q, Begin(r, q),
               q.op \in {"done", "pay", "undo", "skip", "amount", "link"} => q.entry \in Entry,
               q.op \in {"link", "delete", "edit"} => q.txn \in Txn,
               q.op = "edit" => q.to.state = q.row.state /\ q.to.item = q.row.item
        PROVE  SlotOK'
    BY <1>1 DEF Begin, SlotOK, TypeInv, TypeOK
  <1>2. ASSUME NEW e \in Entry, NEW g \in BOOLEAN, BeginDone(r, e, g)
        PROVE  SlotOK'
    BY <1>1, <1>2 DEF BeginDone, Idle
  <1>3. ASSUME NEW e \in Entry, NEW g \in BOOLEAN, BeginPay(r, e, g)
        PROVE  SlotOK'
    BY <1>1, <1>3 DEF BeginPay, Idle
  <1>4. ASSUME NEW e \in Entry, NEW g \in BOOLEAN, BeginUndo(r, e, g)
        PROVE  SlotOK'
    BY <1>1, <1>4 DEF BeginUndo, Idle
  <1>5. ASSUME NEW e \in Entry, BeginSkip(r, e)
        PROVE  SlotOK'
    BY <1>1, <1>5 DEF BeginSkip, Idle
  <1>6. ASSUME NEW e \in Entry, BeginAmount(r, e)
        PROVE  SlotOK'
    BY <1>1, <1>6 DEF BeginAmount, Idle
  <1>7. ASSUME NEW t \in Txn, NEW e \in Entry, BeginLink(r, t, e)
        PROVE  SlotOK'
    BY <1>1, <1>7 DEF BeginLink, Idle
  <1>8. ASSUME NEW t \in Txn, BeginDelete(r, t)
        PROVE  SlotOK'
    BY <1>1, <1>8 DEF BeginDelete, Idle
  <1>9. ASSUME NEW t \in Txn, NEW b \in BOOLEAN, NEW k \in {"expense", "income"},
               BeginEdit(r, t, b, k)
        PROVE  SlotOK'
    <2>1. /\ [txn[t] EXCEPT !.bucket = b, !.type = k].state = txn[t].state
          /\ [txn[t] EXCEPT !.bucket = b, !.type = k].item = txn[t].item
      BY DEF TypeInv, TypeOK, TxnRow
    <2>2. QED
      BY <1>1, <1>9, <2>1 DEF BeginEdit, Idle
  <1>10. QED
    BY <1>2, <1>3, <1>4, <1>5, <1>6, <1>7, <1>8, <1>9

\* A slot that becomes idle, or stays as it is, is well-formed.
LEMMA IdleSlotOK ==
  ASSUME TypeInv, NEW r, req' = [req EXCEPT ![r] = Idle]
  PROVE  SlotOK'
  BY DEF TypeInv, TypeOK, SlotOK, Idle

\* Every commit keeps the strengthened invariant: what SlotOK says of the slot
\* is what the writes need to keep the tables typed.
LEMMA CommitsType ==
  ASSUME TypeInv, NEW r \in Req,
         \/ CommitDone(r) \/ CommitPay(r) \/ CommitUndo(r) \/ CommitSkip(r)
         \/ CommitAmount(r) \/ CommitLink(r) \/ CommitDelete(r) \/ CommitEdit(r)
  PROVE  TypeInv'
  <1> DEFINE q == req[r]
  <1>1. TypeOK /\ SlotOK /\ r \in Slot /\ q \in Request
    BY DEF TypeInv, TypeOK, Slot
  <1>2. /\ q.entry \in Entry \cup {NoEntry} /\ q.txn \in Txn \cup {NoTxn}
        /\ q.given \in BOOLEAN /\ q.occ \in EntryRow /\ q.row \in TxnRow /\ q.to \in TxnRow
    BY <1>1 DEF Request
  <1>3. UNCHANGED store => entry' \in [Entry -> EntryRow] /\ txn' \in [Txn -> TxnRow]
    BY <1>1 DEF store, TypeOK
  <1>4. CASE CommitDone(r)
    <2>1. q.entry \in Entry /\ q.op = "done"
      BY <1>1, <1>4 DEF CommitDone, Commit, SlotOK
    <2>2. (q.given \/ ItemOf[q.entry] \in Variable) \in BOOLEAN
      BY <1>2
    <2>3. entry' \in [Entry -> EntryRow] /\ txn' \in [Txn -> TxnRow]
      BY <1>1, <1>3, <1>4, <2>1, <2>2, PayWithType DEF CommitDone
    <2>4. TypeOK'
      BY <1>1, <1>4, <2>3, CommitType DEF CommitDone, TypeOK
    <2>5. QED
      BY <1>4, <2>4, IdleSlotOK DEF CommitDone, Commit, TypeInv
  <1>5. CASE CommitPay(r)
    <2>1. q.entry \in Entry
      BY <1>1, <1>5 DEF CommitPay, Commit, SlotOK
    <2>2. entry' \in [Entry -> EntryRow] /\ txn' \in [Txn -> TxnRow]
      BY <1>1, <1>2, <1>3, <1>5, <2>1, SettleType DEF CommitPay
    <2>3. TypeOK'
      BY <1>1, <1>5, <2>2, CommitType DEF CommitPay, TypeOK
    <2>4. QED
      BY <1>5, <2>3, IdleSlotOK DEF CommitPay, Commit, TypeInv
  <1>6. CASE CommitUndo(r)
    <2> DEFINE reopened == [entry EXCEPT ![q.entry] = OrmEntry(@, q.occ, Reopened(q.occ))]
               unlinked == OrmTxn(txn[q.occ.txn], q.row, [q.row EXCEPT !.item = NoItem])
    <2>0. Commit(r, "undo")
      BY <1>6 DEF CommitUndo
    <2>a. SlotOK'
      BY <2>0, IdleSlotOK DEF Commit
    <2>1. q.entry \in Entry
      BY <1>1, <2>0 DEF Commit, SlotOK
    <2>2. Reopened(q.occ) \in EntryRow
      BY <1>2 DEF Reopened, EntryRow
    <2>3. OrmEntry(entry[q.entry], q.occ, Reopened(q.occ)) \in EntryRow
      BY <1>1, <1>2, <2>1, <2>2, OrmEntryType DEF TypeOK
    <2>4. reopened \in [Entry -> EntryRow]
      BY <1>1, <2>3 DEF TypeOK
    <2>5. CASE q.occ.status = "skipped" \/ q.row.state # "live"
      <3>1. entry' = reopened /\ txn' = txn /\ refused' = refused
        BY <1>6, <2>5 DEF CommitUndo
      <3>2. entry' \in [Entry -> EntryRow] /\ txn' \in [Txn -> TxnRow] /\ refused' \in BOOLEAN
        BY <1>1, <2>4, <3>1 DEF TypeOK
      <3>3. QED
        BY <1>1, <2>0, <2>a, <3>2, CommitType DEF TypeInv
    <2>6. CASE ~(q.occ.status = "skipped" \/ q.row.state # "live") /\ q.given
      <3>1. SoftDelete(q.occ.txn) /\ refused' = refused
        BY <1>6, <2>6 DEF CommitUndo
      <3>2. entry' \in [Entry -> EntryRow] /\ txn' \in [Txn -> TxnRow]
        BY <1>1, <3>1, SoftDeleteType
      <3>3. refused' \in BOOLEAN
        BY <1>1, <3>1 DEF TypeOK
      <3>4. QED
        BY <1>1, <2>0, <2>a, <3>2, <3>3, CommitType DEF TypeInv
    <2>7. CASE ~(q.occ.status = "skipped" \/ q.row.state # "live") /\ ~q.given
      <3>1. Checked(q.occ.txn, unlinked, reopened)
        BY <1>6, <2>7 DEF CommitUndo
      <3>2. CASE q.occ.txn \in Txn
        <4>1. [q.row EXCEPT !.item = NoItem] \in TxnRow
          BY <1>2 DEF TxnRow
        <4>2. unlinked \in TxnRow
          BY <1>1, <1>2, <3>2, <4>1, OrmTxnType DEF TypeOK
        <4>3. entry' \in [Entry -> EntryRow] /\ txn' \in [Txn -> TxnRow] /\ refused' \in BOOLEAN
          BY <1>1, <2>4, <3>1, <4>2, CheckedType
        <4>4. QED
          BY <1>1, <2>0, <2>a, <4>3, CommitType DEF TypeInv
      <3>3. CASE q.occ.txn \notin Txn
        <4>1. txn' \in [Txn -> TxnRow]
          BY <1>1, <3>1, <3>3 DEF Checked, TypeOK, store
        <4>2. entry' \in [Entry -> EntryRow] /\ refused' \in BOOLEAN
          BY <1>1, <2>4, <3>1 DEF Checked, TypeOK, store
        <4>3. QED
          BY <1>1, <2>0, <2>a, <4>1, <4>2, CommitType DEF TypeInv
      <3>4. QED
        BY <3>2, <3>3
    <2>8. QED
      BY <2>5, <2>6, <2>7
  <1>7. CASE CommitSkip(r)
    <2>1. [q.occ EXCEPT !.status = "skipped"] \in EntryRow
      BY <1>2 DEF EntryRow
    <2>2. entry' \in [Entry -> EntryRow]
      BY <1>1, <1>2, <1>7, <2>1, OrmEntryType DEF CommitSkip, TypeOK
    <2>3. TypeOK'
      BY <1>1, <1>7, <2>2, CommitType DEF CommitSkip, TypeOK
    <2>4. QED
      BY <1>7, <2>3, IdleSlotOK DEF CommitSkip, Commit, TypeInv
  <1>8. CASE CommitAmount(r)
    <2>1. [q.occ EXCEPT !.amount = TRUE] \in EntryRow
      BY <1>2 DEF EntryRow
    <2>2. entry' \in [Entry -> EntryRow]
      BY <1>1, <1>2, <1>8, <2>1, OrmEntryType DEF CommitAmount, TypeOK
    <2>3. TypeOK'
      BY <1>1, <1>8, <2>2, CommitType DEF CommitAmount, TypeOK
    <2>4. QED
      BY <1>8, <2>3, IdleSlotOK DEF CommitAmount, Commit, TypeInv
  <1>9. CASE CommitLink(r)
    <2>1. q.entry \in Entry /\ q.txn \in Txn
      BY <1>1, <1>9 DEF CommitLink, Commit, SlotOK
    <2>2. Claimed(entry[q.entry], q.txn, ItemOf[q.entry] \in Variable, FALSE) \in EntryRow
      <3>1. (ItemOf[q.entry] \in Variable) \in BOOLEAN
        OBVIOUS
      <3>2. entry[q.entry] \in EntryRow
        BY <1>1, <2>1 DEF TypeOK
      <3>3. QED
        BY <2>1, <3>1, <3>2, ClaimedType
    <2>3. [txn[q.txn] EXCEPT !.item = ItemOf[q.entry]] \in TxnRow
      <3>1. ItemOf[q.entry] \in Item
        BY <2>1, EntriesAssumption
      <3>2. txn[q.txn] \in TxnRow
        BY <1>1, <2>1 DEF TypeOK
      <3>3. QED
        BY <3>1, <3>2 DEF TxnRow
    <2>4. entry' \in [Entry -> EntryRow] /\ txn' \in [Txn -> TxnRow]
      BY <1>1, <1>9, <2>1, <2>2, <2>3 DEF CommitLink, TypeOK
    <2>5. TypeOK'
      BY <1>1, <1>9, <2>4, CommitType DEF CommitLink, TypeOK
    <2>6. QED
      BY <1>9, <2>5, IdleSlotOK DEF CommitLink, Commit, TypeInv
  <1>10. CASE CommitDelete(r)
    <2>1. entry' \in [Entry -> EntryRow] /\ txn' \in [Txn -> TxnRow]
      BY <1>1, <1>10, SoftDeleteType DEF CommitDelete
    <2>2. TypeOK'
      BY <1>1, <1>10, <2>1, CommitType DEF CommitDelete, TypeOK
    <2>3. QED
      BY <1>10, <2>2, IdleSlotOK DEF CommitDelete, Commit, TypeInv
  <1>11. CASE CommitEdit(r)
    <2>1. q.txn \in Txn
      BY <1>1, <1>11 DEF CommitEdit, Commit, SlotOK
    <2>2. OrmTxn(txn[q.txn], q.row, q.to) \in TxnRow
      BY <1>1, <1>2, <2>1, OrmTxnType DEF TypeOK
    <2>3. Checked(q.txn, OrmTxn(txn[q.txn], q.row, q.to), entry) /\ entry \in [Entry -> EntryRow]
      BY <1>1, <1>11 DEF CommitEdit, TypeOK
    <2>4. TypeOK'
      BY <1>1, <1>11, <2>2, <2>3, CheckedType, CommitType DEF CommitEdit
    <2>5. QED
      BY <1>11, <2>4, IdleSlotOK DEF CommitEdit, Commit, TypeInv
  <1>12. QED
    BY <1>4, <1>5, <1>6, <1>7, <1>8, <1>9, <1>10, <1>11

\* The other steps: aborts, the log and its suggestions, the auto-pay runs.
LEMMA OthersType ==
  ASSUME TypeInv,
         \/ \E r \in Req : Abort(r)
         \/ MatchStep
         \/ \E p \in Pass : SchedulerStep(p)
  PROVE  TypeInv'
  <1>1. TypeOK /\ SlotOK
    BY DEF TypeInv
  <1>2. ASSUME NEW r \in Req, Abort(r)
        PROVE  TypeInv'
    <2>1. TypeOK'
      BY <1>1, <1>2, FreshTypes DEF Abort, TypeOK
    <2>2. QED
      BY <1>2, <2>1, IdleSlotOK DEF Abort, TypeInv
  <1>3. CASE MatchStep
    <2>1. req' = req => SlotOK'
      BY <1>1 DEF SlotOK
    <2>2. ASSUME NEW t \in Txn, NEW b \in BOOLEAN, NEW k \in {"expense", "income"},
                 LogTransaction(t, b, k)
          PROVE  TypeInv'
      <3>1. [state |-> "live", item |-> NoItem, bucket |-> b, type |-> k] \in TxnRow
        BY DEF TxnRow
      <3>2. TypeOK'
        BY <1>1, <2>2, <3>1 DEF LogTransaction, TypeOK
      <3>3. QED
        BY <2>1, <2>2, <3>2 DEF LogTransaction, TypeInv
    <2>3. ASSUME NEW t \in Txn, NEW e \in Entry, Suggest(t, e) \/ Dismiss(t, e)
          PROVE  TypeInv'
      <3>1. TypeOK'
        BY <1>1, <2>3 DEF Suggest, Dismiss, TypeOK
      <3>2. QED
        BY <2>1, <2>3, <3>1 DEF Suggest, Dismiss, TypeInv
    <2>4. QED
      BY <1>3, <2>2, <2>3 DEF MatchStep
  <1>4. ASSUME NEW p \in Pass, BeginPass(p)
        PROVE  TypeInv'
    <2> DEFINE due == {e \in Entry : AutoPayable(e)}
               q == [Idle EXCEPT !.op = "pass", !.pending = due]
    <2>1. q \in Request /\ q.op = "pass"
      BY FreshTypes DEF Idle, Request
    <2>2. req' = [req EXCEPT ![p] = q]
      BY <1>4 DEF BeginPass
    <2>3. TypeOK'
      BY <1>1, <1>4, <2>1, <2>2 DEF BeginPass, TypeOK
    <2>4. SlotOK'
      BY <1>1, <2>1, <2>2 DEF SlotOK, TypeOK
    <2>5. QED
      BY <2>3, <2>4 DEF TypeInv
  <1>5. ASSUME NEW p \in Pass, NEW e \in Entry, PassStep(p, e)
        PROVE  TypeInv'
    <2> DEFINE rest == [req[p] EXCEPT !.pending = req[p].pending \ {e}]
    <2>1. p \in Slot /\ req[p] \in Request
      BY <1>1 DEF Slot, TypeOK
    <2>2. req' = [req EXCEPT ![p] = IF req[p].pending = {e} THEN Idle ELSE rest]
      BY <1>5 DEF PassStep
    <2>3. rest \in Request /\ rest.op = "pass"
      BY <1>5, <2>1 DEF Request, PassStep
    <2>4. req' \in [Slot -> Request]
      BY <1>1, <2>2, <2>3, FreshTypes DEF TypeOK
    <2>5. entry' \in [Entry -> EntryRow] /\ txn' \in [Txn -> TxnRow]
      <3>1. CASE Claimable(e)
        BY <1>1, <1>5, <3>1, SettleType DEF PassStep
      <3>2. CASE ~Claimable(e)
        BY <1>1, <1>5, <3>2 DEF PassStep, store, TypeOK
      <3>3. QED
        BY <3>1, <3>2
    <2>6. TypeOK'
      BY <1>1, <1>5, <2>4, <2>5 DEF PassStep, TypeOK
    <2>7. SlotOK'
      BY <1>1, <2>1, <2>2, <2>3 DEF SlotOK, TypeOK, Idle
    <2>8. QED
      BY <2>6, <2>7 DEF TypeInv
  <1>6. ASSUME NEW p \in Pass, PassCrash(p)
        PROVE  TypeInv'
    <2>1. crashes' \in 0..MaxCrashes
      BY <1>1, <1>6, EntriesAssumption DEF PassCrash, TypeOK
    <2>2. TypeOK'
      BY <1>1, <1>6, <2>1, FreshTypes DEF PassCrash, TypeOK
    <2>3. QED
      BY <1>6, <2>2, IdleSlotOK DEF PassCrash, TypeInv
  <1>7. QED
    BY <1>2, <1>3, <1>4, <1>5, <1>6 DEF SchedulerStep

\* ... and every step keeps it.
LEMMA TypeInvNext == TypeInv /\ [Next]_vars => TypeInv'
  <1>1. SUFFICES ASSUME TypeInv, [Next]_vars
                 PROVE  TypeInv'
    OBVIOUS
  <1>2. CASE UNCHANGED vars
    BY <1>1, <1>2 DEF vars, TypeInv, TypeOK, SlotOK
  <1>3. ASSUME NEW r \in Req, RequestStep(r)
        PROVE  TypeInv'
    BY <1>1, <1>3, BeginsType, BeginsSlotOK, CommitsType, OthersType DEF RequestStep, TypeInv
  <1>4. QED
    BY <1>1, <1>2, <1>3, OthersType DEF Next

\* In every reachable state the tables, the rows the handlers loaded and the
\* requests in flight have the types of the schema and of the handlers'
\* parameters, whatever requests arrive and however they interleave.
THEOREM TypeCorrect == Spec => []TypeOK
  <1>1. TypeInv => TypeOK
    BY DEF TypeInv
  <1>2. QED
    BY <1>1, TypeInvInit, TypeInvNext, PTL DEF Spec

-----------------------------------------------------------------------------
(* No orphan payment.                                                      *)

\* A step that leaves every live payment as it was, and every entry that
\* holds a live payment with the same transaction.
LEMMA KeepsPayments ==
  ASSUME NoOrphanPayment,
         \A u \in Txn : Live(u)' => Live(u) /\ txn'[u].item = txn[u].item,
         \A u \in Txn, f \in Entry :
            Live(u)' /\ txn'[u].item # NoItem /\ entry[f].txn = u => entry'[f].txn = u
  PROVE  NoOrphanPayment'
  BY DEF NoOrphanPayment

\* A won claim overwrites no link, and the new payment has its entry.
LEMMA PayWithKeeps ==
  ASSUME TypeOK, NoOrphanPayment, NEW e \in Entry, Claimable(e),
         NEW stored, NEW auto, PayWith(e, stored, auto)
  PROVE  NoOrphanPayment'
  <1>1. PICK t \in Absent :
            /\ txn' = [txn EXCEPT ![t] = Payment(e)]
            /\ entry' = [entry EXCEPT ![e] = Claimed(@, t, stored, auto)]
    BY DEF PayWith
  <1>2. t \in Txn /\ entry[e].txn = NoTxn
    BY DEF Absent, Claimable
  <1>3. entry'[e].txn = t /\ \A f \in Entry \ {e} : entry'[f] = entry[f]
    BY <1>1 DEF TypeOK, Claimed
  <1>4. txn'[t].item = ItemOf[e] /\ \A u \in Txn \ {t} : txn'[u] = txn[u]
    BY <1>1, <1>2 DEF TypeOK, Payment
  <1>5. SUFFICES ASSUME NEW u \in Txn, Live(u)', txn'[u].item # NoItem
                 PROVE  \E f \in Entry : entry'[f].txn = u /\ ItemOf[f] = txn'[u].item
    BY DEF NoOrphanPayment
  <1>6. CASE u = t
    BY <1>3, <1>4, <1>6
  <1>7. CASE u # t
    <2>1. PICK f \in Entry : entry[f].txn = u /\ ItemOf[f] = txn[u].item
      BY <1>4, <1>5, <1>7 DEF NoOrphanPayment, Live
    <2>2. f # e
      BY <1>2, <2>1, EntriesAssumption
    <2>3. QED
      BY <1>3, <1>4, <1>7, <2>1, <2>2
  <1>8. QED
    BY <1>6, <1>7

\* The same with the bare claim, which inserts nothing.
LEMMA SettleKeeps ==
  ASSUME TypeOK, NoOrphanPayment, NEW e \in Entry, Claimable(e),
         NEW stored, NEW auto, Settle(e, stored, auto)
  PROVE  NoOrphanPayment'
  <1>1. CASE ItemOf[e] \in Bucketed
    BY <1>1, PayWithKeeps DEF Settle
  <1>2. CASE ItemOf[e] \notin Bucketed
    <2>1. txn' = txn /\ \A f \in Entry : entry'[f].txn = entry[f].txn
      BY <1>2 DEF Settle, TypeOK, Claimed, Claimable
    <2>2. QED
      BY <2>1, KeepsPayments DEF Live
  <1>3. QED
    BY <1>1, <1>2

\* A deletion reopens only entries whose payment is no longer live.
LEMMA SoftDeleteKeeps ==
  ASSUME TypeOK, NoOrphanPayment, NEW t, SoftDelete(t)
  PROVE  NoOrphanPayment'
  <1>1. \A u \in Txn : u # t => txn'[u] = txn[u]
    BY DEF SoftDelete, TypeOK
  <1>2. \A u \in Txn : u = t => ~Live(u)'
    BY DEF SoftDelete, TypeOK, TxnRow, Live
  <1>3. \A f \in Entry : entry[f].txn # t => entry'[f] = entry[f]
    BY DEF SoftDelete, TypeOK
  <1>4. QED
    BY <1>1, <1>2, <1>3, KeepsPayments DEF Live

\* A flush that does not change the link of the loaded row leaves the link.
LEMMA FlushKeeps ==
  ASSUME TypeOK, NoOrphanPayment, NEW e, NEW loaded \in EntryRow, NEW new \in EntryRow,
         new.txn = loaded.txn, txn' = txn,
         entry' = [entry EXCEPT ![e] = OrmEntry(@, loaded, new)]
  PROVE  NoOrphanPayment'
  <1>1. \A f \in Entry : entry'[f].txn = entry[f].txn
    BY DEF OrmEntry, Column, TypeOK
  <1>2. QED
    BY <1>1, KeepsPayments DEF Live

\* No commit but an undo orphans a payment.
LEMMA CommitsKeep ==
  ASSUME TypeInv, NoOrphanPayment, "undo" \notin Kinds, NEW r \in Req,
         \/ CommitDone(r) \/ CommitPay(r) \/ CommitUndo(r) \/ CommitSkip(r)
         \/ CommitAmount(r) \/ CommitLink(r) \/ CommitDelete(r) \/ CommitEdit(r)
  PROVE  NoOrphanPayment'
  <1> DEFINE q == req[r]
  <1>1. TypeOK /\ SlotOK /\ r \in Slot
    BY DEF TypeInv, Slot
  <1>2. q.occ \in EntryRow /\ q.row \in TxnRow /\ q.to \in TxnRow
    BY <1>1 DEF TypeOK, Request
  <1>3. UNCHANGED store => NoOrphanPayment'
    BY KeepsPayments DEF store, Live
  <1>4. CASE CommitDone(r)
    <2>1. q.entry \in Entry
      BY <1>1, <1>4 DEF CommitDone, Commit, SlotOK
    <2>2. QED
      BY <1>1, <1>3, <1>4, <2>1, PayWithKeeps DEF CommitDone
  <1>5. CASE CommitPay(r)
    <2>1. q.entry \in Entry
      BY <1>1, <1>5 DEF CommitPay, Commit, SlotOK
    <2>2. QED
      BY <1>1, <1>3, <1>5, <2>1, SettleKeeps DEF CommitPay
  <1>6. CASE CommitUndo(r)
    <2>1. q.op = "undo"
      BY <1>6 DEF CommitUndo, Commit
    <2>2. QED
      BY <1>1, <2>1 DEF SlotOK
  <1>7. CASE CommitSkip(r)
    <2>1. LET new == [q.occ EXCEPT !.status = "skipped"] IN new \in EntryRow /\ new.txn = q.occ.txn
      BY <1>2 DEF EntryRow
    <2>2. QED
      BY <1>1, <1>2, <1>7, <2>1, FlushKeeps DEF CommitSkip
  <1>8. CASE CommitAmount(r)
    <2>1. LET new == [q.occ EXCEPT !.amount = TRUE] IN new \in EntryRow /\ new.txn = q.occ.txn
      BY <1>2 DEF EntryRow
    <2>2. QED
      BY <1>1, <1>2, <1>8, <2>1, FlushKeeps DEF CommitAmount
  <1>9. CASE CommitLink(r)
    <2>1. q.entry \in Entry /\ q.txn \in Txn
      BY <1>1, <1>9 DEF CommitLink, Commit, SlotOK
    <2>2. CASE ~Claimable(q.entry)
      BY <1>3, <1>9, <2>2 DEF CommitLink, store
    <2>3. CASE Claimable(q.entry)
      <3>1. /\ entry'[q.entry].txn = q.txn
            /\ \A f \in Entry \ {q.entry} : entry'[f] = entry[f]
        BY <1>1, <1>9, <2>1, <2>3 DEF CommitLink, Claimed, TypeOK
      <3>2. /\ txn'[q.txn].item = ItemOf[q.entry]
            /\ \A u \in Txn \ {q.txn} : txn'[u] = txn[u]
        BY <1>1, <1>9, <2>1, <2>3 DEF CommitLink, TypeOK, TxnRow
      <3>3. SUFFICES ASSUME NEW u \in Txn, Live(u)', txn'[u].item # NoItem
                     PROVE  \E f \in Entry : entry'[f].txn = u /\ ItemOf[f] = txn'[u].item
        BY DEF NoOrphanPayment
      <3>4. CASE u = q.txn
        BY <2>1, <3>1, <3>2, <3>4
      <3>5. CASE u # q.txn
        <4>1. PICK f \in Entry : entry[f].txn = u /\ ItemOf[f] = txn[u].item
          BY <3>2, <3>3, <3>5 DEF NoOrphanPayment, Live
        <4>2. f # q.entry
          BY <2>3, <4>1, EntriesAssumption DEF Claimable
        <4>3. QED
          BY <3>1, <3>2, <3>5, <4>1, <4>2
      <3>6. QED
        BY <3>4, <3>5
    <2>4. QED
      BY <2>2, <2>3
  <1>10. CASE CommitDelete(r)
    BY <1>1, <1>10, SoftDeleteKeeps DEF CommitDelete
  <1>11. CASE CommitEdit(r)
    <2> DEFINE new == OrmTxn(txn[q.txn], q.row, q.to)
    <2>1. q.txn \in Txn /\ q.to.state = q.row.state /\ q.to.item = q.row.item
      BY <1>1, <1>11 DEF CommitEdit, Commit, SlotOK
    <2>2. new.state = txn[q.txn].state /\ new.item = txn[q.txn].item
      BY <2>1 DEF OrmTxn, Column
    <2>3. Checked(q.txn, new, entry)
      BY <1>11 DEF CommitEdit
    <2>4. entry' = entry
      BY <2>3 DEF Checked, store
    <2>5. \A u \in Txn : txn'[u].state = txn[u].state /\ txn'[u].item = txn[u].item
      BY <1>1, <2>1, <2>2, <2>3 DEF Checked, store, TypeOK
    <2>6. QED
      BY <2>4, <2>5, KeepsPayments DEF Live
  <1>12. QED
    BY <1>4, <1>5, <1>6, <1>7, <1>8, <1>9, <1>10, <1>11

\* No step does, when nobody undoes.
LEMMA NoOrphanNext ==
  ASSUME "undo" \notin Kinds
  PROVE  TypeInv /\ NoOrphanPayment /\ [Next]_vars => NoOrphanPayment'
  <1>1. SUFFICES ASSUME TypeInv, NoOrphanPayment, [Next]_vars
                 PROVE  NoOrphanPayment'
    OBVIOUS
  <1>2. TypeOK
    BY <1>1 DEF TypeInv
  <1>3. UNCHANGED store => NoOrphanPayment'
    BY <1>1, KeepsPayments DEF store, Live
  <1>4. CASE UNCHANGED vars
    BY <1>3, <1>4 DEF vars, store
  <1>5. ASSUME NEW r \in Req, RequestStep(r)
        PROVE  NoOrphanPayment'
    <2>1. \/ UNCHANGED store
          \/ CommitDone(r) \/ CommitPay(r) \/ CommitUndo(r) \/ CommitSkip(r)
          \/ CommitAmount(r) \/ CommitLink(r) \/ CommitDelete(r) \/ CommitEdit(r)
      BY <1>5 DEF RequestStep, store, Begin, BeginDone, BeginPay, BeginUndo, BeginSkip,
                  BeginAmount, BeginLink, BeginDelete, BeginEdit, Abort
    <2>2. QED
      BY <1>1, <1>3, <2>1, CommitsKeep
  <1>6. CASE MatchStep
    <2>1. ASSUME NEW t \in Txn, NEW b \in BOOLEAN, NEW k \in {"expense", "income"},
                 LogTransaction(t, b, k)
          PROVE  NoOrphanPayment'
      <3>1. txn'[t].item = NoItem /\ \A u \in Txn \ {t} : txn'[u] = txn[u]
        BY <1>2, <2>1 DEF LogTransaction, TypeOK
      <3>2. entry' = entry
        BY <2>1 DEF LogTransaction
      <3>3. QED
        BY <1>1, <3>1, <3>2 DEF NoOrphanPayment, Live
    <2>2. ASSUME NEW t \in Txn, NEW e \in Entry, Suggest(t, e) \/ Dismiss(t, e)
          PROVE  NoOrphanPayment'
      BY <1>3, <2>2 DEF Suggest, Dismiss, store
    <2>3. QED
      BY <1>6, <2>1, <2>2 DEF MatchStep
  <1>7. ASSUME NEW p \in Pass, SchedulerStep(p)
        PROVE  NoOrphanPayment'
    <2>1. ASSUME NEW e \in Entry, PassStep(p, e)
          PROVE  NoOrphanPayment'
      BY <1>1, <1>2, <1>3, <2>1, SettleKeeps DEF PassStep
    <2>2. CASE BeginPass(p) \/ PassCrash(p)
      BY <1>3, <2>2 DEF BeginPass, PassCrash, store
    <2>3. QED
      BY <1>7, <2>1, <2>2 DEF SchedulerStep
  <1>8. QED
    BY <1>1, <1>4, <1>5, <1>6, <1>7 DEF Next

\* No household whose clients do not undo ever pays an entry twice or orphans
\* a payment, however many members, old and new clients and auto-pay runs race
\* for the same entries: the claim is enough.  (With undo it takes requests
\* that do not overlap; see the runs.)
THEOREM ClaimPreventsOrphans ==
  ASSUME "undo" \notin Kinds
  PROVE  Spec => []NoOrphanPayment
  <1>1. Init => NoOrphanPayment
    BY DEF Init, NoOrphanPayment, Live, AbsentTxn
  <1>2. QED
    BY <1>1, TypeInvInit, TypeInvNext, NoOrphanNext, PTL DEF Spec

-----------------------------------------------------------------------------
(* Auto-pay settles an entry once.                                         *)

\* What a run has still to pay was never auto-paid.
PendingFresh == \A p \in Pass : \A e \in req[p].pending : ~entry[e].autoPaid

KeepsAutoPaid == \A e \in Entry : entry'[e].autoPaid = entry[e].autoPaid

\* A payment by a member does not mark the entry as auto-paid.
LEMMA SettleAutoPaid ==
  ASSUME TypeOK, NEW e \in Entry, NEW stored, Settle(e, stored, FALSE) \/ PayWith(e, stored, FALSE)
  PROVE  KeepsAutoPaid
  BY DEF Settle, PayWith, Claimed, TypeOK, EntryRow, KeepsAutoPaid

\* An auto-payment writes the row of one entry.
LEMMA AutoSettleOthers ==
  ASSUME TypeOK, NEW e \in Entry, NEW stored, NEW auto, Settle(e, stored, auto)
  PROVE  \A f \in Entry \ {e} : entry'[f] = entry[f]
  BY DEF Settle, PayWith, TypeOK

\* Nor does a flush that leaves auto_paid_at as it was loaded.
LEMMA FlushAutoPaid ==
  ASSUME TypeOK, NEW e, NEW loaded \in EntryRow, NEW new \in EntryRow,
         new.autoPaid = loaded.autoPaid,
         entry' = [entry EXCEPT ![e] = OrmEntry(@, loaded, new)]
  PROVE  KeepsAutoPaid
  BY DEF OrmEntry, Column, TypeOK, KeepsAutoPaid

\* A deletion keeps the mark: the entry is not auto-paid again.
LEMMA SoftDeleteAutoPaid ==
  ASSUME TypeOK, NEW t, SoftDelete(t)
  PROVE  KeepsAutoPaid
  BY DEF SoftDelete, Reopened, TypeOK, EntryRow, KeepsAutoPaid

\* No commit of a request sets or clears a mark.
LEMMA CommitsAutoPaid ==
  ASSUME TypeInv, NEW r \in Req,
         \/ CommitDone(r) \/ CommitPay(r) \/ CommitUndo(r) \/ CommitSkip(r)
         \/ CommitAmount(r) \/ CommitLink(r) \/ CommitDelete(r) \/ CommitEdit(r)
  PROVE  KeepsAutoPaid
  <1> DEFINE q == req[r]
  <1>1. TypeOK /\ SlotOK /\ r \in Slot
    BY DEF TypeInv, Slot
  <1>2. q.occ \in EntryRow
    BY <1>1 DEF TypeOK, Request
  <1>3. entry' = entry => KeepsAutoPaid
    BY DEF KeepsAutoPaid
  <1>4. CASE CommitDone(r) \/ CommitPay(r)
    <2>1. q.entry \in Entry
      BY <1>1, <1>4 DEF CommitDone, CommitPay, Commit, SlotOK
    <2>2. QED
      BY <1>1, <1>3, <1>4, <2>1, SettleAutoPaid DEF CommitDone, CommitPay, store
  <1>5. CASE CommitUndo(r)
    <2> DEFINE new == Reopened(q.occ)
    <2>1. new \in EntryRow /\ new.autoPaid = q.occ.autoPaid
      BY <1>2 DEF Reopened, EntryRow
    <2>2. \/ entry' = [entry EXCEPT ![q.entry] = OrmEntry(@, q.occ, new)]
          \/ entry' = entry
          \/ SoftDelete(q.occ.txn)
      BY <1>5 DEF CommitUndo, Checked, store
    <2>3. QED
      BY <1>1, <1>2, <1>3, <2>1, <2>2, FlushAutoPaid, SoftDeleteAutoPaid
  <1>6. CASE CommitSkip(r)
    <2>1. LET new == [q.occ EXCEPT !.status = "skipped"] IN
            new \in EntryRow /\ new.autoPaid = q.occ.autoPaid
      BY <1>2 DEF EntryRow
    <2>2. QED
      BY <1>1, <1>2, <1>6, <2>1, FlushAutoPaid DEF CommitSkip
  <1>7. CASE CommitAmount(r)
    <2>1. LET new == [q.occ EXCEPT !.amount = TRUE] IN
            new \in EntryRow /\ new.autoPaid = q.occ.autoPaid
      BY <1>2 DEF EntryRow
    <2>2. QED
      BY <1>1, <1>2, <1>7, <2>1, FlushAutoPaid DEF CommitAmount
  <1>8. CASE CommitLink(r)
    BY <1>1, <1>3, <1>8 DEF CommitLink, Claimed, TypeOK, EntryRow, KeepsAutoPaid
  <1>9. CASE CommitDelete(r)
    BY <1>1, <1>9, SoftDeleteAutoPaid DEF CommitDelete
  <1>10. CASE CommitEdit(r)
    BY <1>3, <1>10 DEF CommitEdit, Checked, store
  <1>11. QED
    BY <1>4, <1>5, <1>6, <1>7, <1>8, <1>9, <1>10

\* No request leaves anything pending in its slot.
LEMMA RequestPending ==
  ASSUME TypeOK, NEW r \in Req, RequestStep(r)
  PROVE  \A p \in Slot : req'[p].pending \subseteq req[p].pending
  <1> DEFINE Empties == \A p \in Slot : req'[p] = req[p] \/ req'[p].pending = {}
  <1>1. ASSUME NEW q, q.pending = {}, req' = [req EXCEPT ![r] = q]
        PROVE  Empties
    BY <1>1 DEF TypeOK
  <1>2. Idle.pending = {}
    BY DEF Idle
  <1>3. ASSUME NEW op, Commit(r, op)
        PROVE  Empties
    BY <1>1, <1>2, <1>3 DEF Commit
  <1>4. ASSUME \/ CommitDone(r) \/ CommitPay(r) \/ CommitUndo(r) \/ CommitSkip(r)
               \/ CommitAmount(r) \/ CommitLink(r) \/ CommitDelete(r) \/ CommitEdit(r)
        PROVE  Empties
    BY <1>3, <1>4 DEF CommitDone, CommitPay, CommitUndo, CommitSkip, CommitAmount, CommitLink,
                      CommitDelete, CommitEdit
  <1>5. ASSUME Abort(r)
        PROVE  Empties
    BY <1>1, <1>2, <1>5 DEF Abort
  <1>6. ASSUME NEW q, Begin(r, q), q.pending = {}
        PROVE  Empties
    BY <1>1, <1>6 DEF Begin
  <1>7. ASSUME NEW e \in Entry, NEW g \in BOOLEAN,
               BeginDone(r, e, g) \/ BeginPay(r, e, g) \/ BeginUndo(r, e, g)
        PROVE  Empties
    BY <1>6, <1>7 DEF BeginDone, BeginPay, BeginUndo, Idle
  <1>8. ASSUME NEW e \in Entry, BeginSkip(r, e) \/ BeginAmount(r, e)
        PROVE  Empties
    BY <1>6, <1>8 DEF BeginSkip, BeginAmount, Idle
  <1>9. ASSUME NEW t \in Txn, NEW e \in Entry, BeginLink(r, t, e)
        PROVE  Empties
    BY <1>6, <1>9 DEF BeginLink, Idle
  <1>10. ASSUME NEW t \in Txn, BeginDelete(r, t)
         PROVE  Empties
    BY <1>6, <1>10 DEF BeginDelete, Idle
  <1>11. ASSUME NEW t \in Txn, NEW b \in BOOLEAN, NEW k \in {"expense", "income"}, BeginEdit(r, t, b, k)
         PROVE  Empties
    BY <1>6, <1>11 DEF BeginEdit, Idle
  <1>12. Empties
    BY <1>4, <1>5, <1>7, <1>8, <1>9, <1>10, <1>11 DEF RequestStep
  <1>13. QED
    BY <1>12

\* No step of a request does.
LEMMA RequestAutoPaid ==
  ASSUME TypeInv, NEW r \in Req, RequestStep(r)
  PROVE  KeepsAutoPaid
  <1>1. \/ entry' = entry
        \/ CommitDone(r) \/ CommitPay(r) \/ CommitUndo(r) \/ CommitSkip(r)
        \/ CommitAmount(r) \/ CommitLink(r) \/ CommitDelete(r) \/ CommitEdit(r)
    BY DEF RequestStep, Begin, BeginDone, BeginPay, BeginUndo, BeginSkip,
           BeginAmount, BeginLink, BeginDelete, BeginEdit, Abort
  <1>2. QED
    BY <1>1, CommitsAutoPaid DEF KeepsAutoPaid

\* With one run at a time, nothing marks an entry the run has still to pay.
LEMMA PendingFreshNext ==
  ASSUME \A p, q \in Pass : p = q
  PROVE  TypeInv /\ PendingFresh /\ [Next]_vars => PendingFresh'
  <1>1. SUFFICES ASSUME TypeInv, PendingFresh, [Next]_vars
                 PROVE  PendingFresh'
    OBVIOUS
  <1>2. TypeOK /\ Pass \subseteq Slot /\ \A p \in Pass : req[p].pending \subseteq Entry
    BY <1>1 DEF TypeInv, TypeOK, Slot, Request
  <1>3. KeepsAutoPaid /\ (\A p \in Pass : req'[p].pending \subseteq req[p].pending) => PendingFresh'
    BY <1>1, <1>2 DEF PendingFresh, KeepsAutoPaid
  <1>4. UNCHANGED <<entry, req>> => PendingFresh'
    BY <1>3 DEF KeepsAutoPaid
  <1>5. CASE UNCHANGED vars
    BY <1>4, <1>5 DEF vars
  <1>6. ASSUME NEW r \in Req, RequestStep(r)
        PROVE  PendingFresh'
    BY <1>1, <1>2, <1>3, <1>6, RequestPending, RequestAutoPaid
  <1>7. CASE MatchStep
    BY <1>4, <1>7 DEF MatchStep, LogTransaction, Suggest, Dismiss
  <1>8. ASSUME NEW p \in Pass, SchedulerStep(p)
        PROVE  PendingFresh'
    <2>1. CASE BeginPass(p)
      <3> DEFINE due == {e \in Entry : AutoPayable(e)}
      <3>1. entry' = entry /\ req'[p].pending = due
        BY <1>2, <2>1 DEF BeginPass, TypeOK, Idle
      <3>2. \A e \in due : ~entry[e].autoPaid
        BY DEF AutoPayable
      <3>3. QED
        BY <3>1, <3>2 DEF PendingFresh
    <2>2. ASSUME NEW e \in Entry, PassStep(p, e)
          PROVE  PendingFresh'
      <3>1. \A f \in Entry \ {e} : entry'[f] = entry[f]
        BY <1>2, <2>2, AutoSettleOthers DEF PassStep, store
      <3>2. req'[p].pending \subseteq req[p].pending \ {e}
        BY <1>2, <2>2 DEF PassStep, TypeOK, Request, Idle
      <3>3. QED
        BY <1>1, <1>2, <3>1, <3>2 DEF PendingFresh
    <2>3. CASE PassCrash(p)
      <3>1. entry' = entry /\ req'[p].pending = {}
        BY <1>2, <2>3 DEF PassCrash, TypeOK, Idle
      <3>2. QED
        BY <3>1 DEF PendingFresh
    <2>4. QED
      BY <1>8, <2>1, <2>2, <2>3 DEF SchedulerStep
  <1>9. QED
    BY <1>1, <1>5, <1>6, <1>7, <1>8 DEF Next

\* With one run of the stage at a time, auto-pay never settles an entry it has
\* settled before, whatever the members do in between (an undo, a deletion, a
\* skip that is taken back) and however often a run dies half way.
THEOREM AutoPayOnce ==
  ASSUME \A p, q \in Pass : p = q
  PROVE  Spec => NeverAutoPaidAgain
  <1>1. Init => PendingFresh
    BY DEF Init, PendingFresh, Slot, Idle
  <1>2. PendingFresh => \A e \in Entry : entry[e].autoPaid => ~AutoSettles(e)
    BY DEF PendingFresh, AutoSettles, PassStep
  <1>3. QED
    BY <1>1, <1>2, TypeInvInit, TypeInvNext, PendingFreshNext, PTL DEF Spec, NeverAutoPaidAgain

(***************************************************************************)
(* While requests do not overlap, the handlers of BillEntries keep entry   *)
(* and transaction consistent and implement EntryLedger, for any number of *)
(* items, entries and transactions and any sequence of requests.           *)
(***************************************************************************)
\* One request, or one auto-pay run, at a time.
Serial == \A r, s \in Slot : r = s

\* What a handler has loaded is still so, and what it has checked.
SnapshotOf(q) ==
    /\ q.op \in {"undo", "skip", "amount"} => q.occ = entry[q.entry]
    /\ q.op = "undo" => /\ q.occ.status # "unpaid"
                        /\ q.row = LoadedTxn(q.entry)
                        /\ q.occ.status = "paid" /\ q.row.state = "live" /\ ~q.given =>
                              q.row.bucket \/ q.row.type = "income"
    /\ q.op = "skip" => q.occ.status # "paid"
    /\ q.op = "link" => Live(q.txn) /\ ~Linked(q.txn)
    /\ q.op = "delete" => Live(q.txn)
    /\ q.op = "edit" => Live(q.txn) /\ q.row = txn[q.txn] /\ CheckHolds(q.to)

Snapshot == \A r \in Slot : SnapshotOf(req[r])

SerialInv == TypeInv /\ LinkIsMutual /\ ~refused /\ Snapshot

-----------------------------------------------------------------------------
(* The rows as the ledger has them.                                          *)

LedgerVars == <<LedgerState, LedgerPays, LedgerUsed, LedgerLive>>

StateOf(status) == CASE status = "unpaid"  -> "expected"
                     [] status = "paid"    -> "done"
                     [] status = "skipped" -> "skipped"

LEMMA StatesAre ==
  /\ StateOf("unpaid") = "expected" /\ StateOf("paid") = "done" /\ StateOf("skipped") = "skipped"
BY DEF StateOf

LEMMA LedgerIs ==
  /\ LedgerState = [e \in Entry |-> StateOf(entry[e].status)]
  /\ LedgerPays = [e \in Entry |-> entry[e].txn]
BY DEF LedgerState, LedgerPays, StateOf

LEMMA LedgerIsNext ==
  /\ LedgerState' = [e \in Entry |-> StateOf(entry'[e].status)]
  /\ LedgerPays' = [e \in Entry |-> entry'[e].txn]
BY DEF LedgerState, LedgerPays, StateOf

\* The ledger's step when one entry changes, or none.
LEMMA LedgerChanges ==
  ASSUME NEW e \in Entry, NEW status, \A f \in Entry \ {e} : entry'[f] = entry[f],
         entry'[e].status = status
  PROVE  /\ LedgerState' = [LedgerState EXCEPT ![e] = StateOf(status)]
         /\ LedgerPays' = [LedgerPays EXCEPT ![e] = entry'[e].txn]
<1>1. PICK g : g = [f \in Entry |-> StateOf(entry[f].status)]
  OBVIOUS
<1>2. PICK h : h = [f \in Entry |-> StateOf(entry'[f].status)]
  OBVIOUS
<1>3. h = [g EXCEPT ![e] = StateOf(status)]
  BY <1>1, <1>2
<1>4. [f \in Entry |-> entry'[f].txn] = [[f \in Entry |-> entry[f].txn] EXCEPT ![e] = entry'[e].txn]
  OBVIOUS
<1> QED BY <1>1, <1>2, <1>3, <1>4, LedgerIs, LedgerIsNext

LEMMA LedgerStays ==
  ASSUME \A e \in Entry : entry'[e].status = entry[e].status /\ entry'[e].txn = entry[e].txn
  PROVE  LedgerState' = LedgerState /\ LedgerPays' = LedgerPays
<1>1. [e \in Entry |-> StateOf(entry'[e].status)] = [e \in Entry |-> StateOf(entry[e].status)]
  OBVIOUS
<1>2. [e \in Entry |-> entry'[e].txn] = [e \in Entry |-> entry[e].txn]
  OBVIOUS
<1> QED BY <1>1, <1>2, LedgerIs, LedgerIsNext

LEMMA LedgerTxnsStay ==
  ASSUME \A t \in Txn : txn'[t].state = txn[t].state
  PROVE  LedgerUsed' = LedgerUsed /\ LedgerLive' = LedgerLive
BY DEF LedgerUsed, LedgerLive, Absent, Live

\* A transaction is inserted.
LEMMA LedgerInserts ==
  ASSUME NEW t \in Absent, txn'[t].state = "live", \A u \in Txn \ {t} : txn'[u] = txn[u]
  PROVE  /\ t \in Txn \ LedgerUsed
         /\ LedgerUsed' = LedgerUsed \cup {t} /\ LedgerLive' = LedgerLive \cup {t}
BY DEF LedgerUsed, LedgerLive, Absent, Live
-----------------------------------------------------------------------------
(* What the steps do to the store: each keeps the link mutual and is a step  *)
(* of the ledger, or none.                                                   *)

Promised == LinkIsMutual' /\ [Ledger!Next]_(Ledger!vars)

\* Both ends of a link, without names for what they are.
LEMMA LinkNow ==
  ASSUME TypeOK, LinkIsMutual, NEW e \in Entry, entry[e].txn # NoTxn
  PROVE  /\ entry[e].txn \in Txn /\ entry[e].status = "paid"
         /\ txn[entry[e].txn].state = "live" /\ txn[entry[e].txn].item = ItemOf[e]
         /\ \A f \in Entry \ {e} : entry[f].txn # entry[e].txn
BY DEF LinkIsMutual, Live, TypeOK, EntryRow

LEMMA LinkNext ==
  ASSUME \A e \in Entry : entry'[e].txn # NoTxn =>
           /\ entry'[e].status = "paid"
           /\ txn'[entry'[e].txn].state = "live" /\ txn'[entry'[e].txn].item = ItemOf[e]
           /\ \A f \in Entry \ {e} : entry'[f].txn # entry'[e].txn
  PROVE  LinkIsMutual'
BY DEF LinkIsMutual, Live

LEMMA StoreStays ==
  ASSUME TypeOK, LinkIsMutual, \A t \in Txn : txn'[t].state = txn[t].state /\ txn'[t].item = txn[t].item,
         \A e \in Entry : entry'[e].status = entry[e].status /\ entry'[e].txn = entry[e].txn
  PROVE  Promised
<1>1. LinkIsMutual'
  BY LinkNow, LinkNext
<1>2. UNCHANGED Ledger!vars
  BY LedgerStays, LedgerTxnsStay DEF Ledger!vars
<1> QED BY <1>1, <1>2 DEF Promised

\* Done, by a transaction of its own.
LEMMA PayPromised ==
  ASSUME TypeOK, LinkIsMutual, NEW e \in Entry, Claimable(e), NEW stored, NEW auto,
         PayWith(e, stored, auto)
  PROVE  Promised
<1>1. PICK t \in Absent : /\ txn' = [txn EXCEPT ![t] = Payment(e)]
                          /\ entry' = [entry EXCEPT ![e] = Claimed(@, t, stored, auto)]
  BY DEF PayWith
<1>2. /\ t \in Txn /\ txn'[t] = Payment(e) /\ \A u \in Txn \ {t} : txn'[u] = txn[u]
      /\ entry'[e] = Claimed(entry[e], t, stored, auto) /\ \A f \in Entry \ {e} : entry'[f] = entry[f]
  BY <1>1 DEF TypeOK, Absent
<1>3. /\ txn'[t].state = "live" /\ txn'[t].item = ItemOf[e]
      /\ entry'[e].status = "paid" /\ entry'[e].txn = t
  BY <1>2 DEF Payment, Claimed
<1>4. \A f \in Entry : entry[f].txn # t
  BY <1>1, EntriesAssumption DEF LinkIsMutual, Live, Absent
<1>5. LinkIsMutual'
  BY <1>2, <1>3, <1>4, LinkNow, LinkNext
<1>6. Ledger!Pay(e, t)
  <2>1. LedgerState[e] = "expected"
    BY LedgerIs, StatesAre DEF Claimable
  <2>2. LedgerState' = [LedgerState EXCEPT ![e] = "done"] /\ LedgerPays' = [LedgerPays EXCEPT ![e] = t]
    BY <1>2, <1>3, LedgerChanges, StatesAre
  <2>3. t \in Txn \ LedgerUsed /\ LedgerUsed' = LedgerUsed \cup {t} /\ LedgerLive' = LedgerLive \cup {t}
    BY <1>2, <1>3, LedgerInserts
  <2> QED BY <2>1, <2>2, <2>3 DEF Ledger!Pay
<1> QED BY <1>2, <1>5, <1>6 DEF Promised, Ledger!Next

\* Done, by a bare claim of an item without a bucket.
LEMMA SettlePromised ==
  ASSUME TypeOK, LinkIsMutual, NEW e \in Entry, Claimable(e), NEW stored, NEW auto,
         Settle(e, stored, auto)
  PROVE  Promised
<1>1. CASE ItemOf[e] \in Bucketed
  BY <1>1, PayPromised DEF Settle
<1>2. CASE ItemOf[e] \notin Bucketed
  <2>1. /\ txn' = txn /\ entry'[e].status = "paid" /\ entry'[e].txn = NoTxn
        /\ \A f \in Entry \ {e} : entry'[f] = entry[f]
    BY <1>2 DEF Settle, Claimed, TypeOK
  <2>2. LinkIsMutual'
    BY <2>1 DEF LinkIsMutual, Live
  <2>3. Ledger!Claim(e)
    <3>1. LedgerState[e] = "expected" /\ LedgerPays[e] = NoTxn
      BY LedgerIs, StatesAre DEF Claimable
    <3>2. LedgerState' = [LedgerState EXCEPT ![e] = "done"]
      BY <2>1, LedgerChanges, StatesAre
    <3>3. LedgerPays' = LedgerPays
      <4>1. \A f \in Entry : entry'[f].txn = entry[f].txn
        BY <2>1 DEF Claimable
      <4> QED BY <4>1, LedgerIs, LedgerIsNext
    <3>4. LedgerUsed' = LedgerUsed /\ LedgerLive' = LedgerLive
      BY <2>1, LedgerTxnsStay
    <3> QED BY <3>1, <3>2, <3>3, <3>4 DEF Ledger!Claim
  <2> QED BY <2>2, <2>3 DEF Promised, Ledger!Next
<1> QED BY <1>1, <1>2

\* A deleted transaction reopens the entry it settled.
LEMMA DeletePromised ==
  ASSUME TypeOK, LinkIsMutual, NEW t \in Txn, Live(t), SoftDelete(t)
  PROVE  Promised
<1>1. /\ txn'[t].state = "deleted" /\ \A u \in Txn \ {t} : txn'[u] = txn[u]
      /\ entry' = [e \in Entry |-> IF entry[e].txn = t THEN Reopened(entry[e]) ELSE entry[e]]
  BY DEF SoftDelete, TypeOK, TxnRow
<1>2. \A e \in Entry : /\ entry[e].txn = t => entry'[e].status = "unpaid" /\ entry'[e].txn = NoTxn
                       /\ entry[e].txn # t => entry'[e] = entry[e]
  BY <1>1 DEF Reopened, TypeOK, EntryRow
<1>3. LinkIsMutual'
  BY <1>1, <1>2, LinkNow, LinkNext
<1>4. Ledger!Delete(t)
  <2>1. t \in LedgerLive /\ LedgerLive' = LedgerLive \ {t}
    BY <1>1 DEF LedgerLive, Live
  <2>2. LedgerUsed' = LedgerUsed
    BY <1>1 DEF LedgerUsed, Absent, Live
  <2>3. LedgerState' = [e \in Entry |-> IF LedgerPays[e] = t THEN "expected" ELSE LedgerState[e]]
    BY <1>2, LedgerIs, LedgerIsNext, StatesAre
  <2>4. LedgerPays' = [e \in Entry |-> IF LedgerPays[e] = t THEN NoTxn ELSE LedgerPays[e]]
    BY <1>2, LedgerIs, LedgerIsNext
  <2> QED BY <2>1, <2>2, <2>3, <2>4 DEF Ledger!Delete
<1> QED BY <1>3, <1>4 DEF Promised, Ledger!Next

\* An entry is expected again, and its transaction stays without it.
LEMMA ReopenPromised ==
  ASSUME TypeOK, LinkIsMutual, NEW e \in Entry, entry[e].status # "unpaid",
         entry' = [entry EXCEPT ![e] = Reopened(entry[e])],
         \A u \in Txn : txn'[u].state = txn[u].state,
         \A u \in Txn : u # entry[e].txn => txn'[u] = txn[u]
  PROVE  Promised
<1>1. /\ entry'[e].status = "unpaid" /\ entry'[e].txn = NoTxn
      /\ \A f \in Entry \ {e} : entry'[f] = entry[f]
  BY DEF Reopened, TypeOK, EntryRow
<1>2. LinkIsMutual'
  <2> SUFFICES ASSUME NEW f \in Entry, entry'[f].txn # NoTxn
               PROVE  /\ entry'[f].status = "paid" /\ txn'[entry'[f].txn].state = "live"
                      /\ txn'[entry'[f].txn].item = ItemOf[f]
                      /\ \A g \in Entry \ {f} : entry'[g].txn # entry'[f].txn
    BY LinkNext
  <2>1. f # e /\ entry'[f] = entry[f] /\ entry[f].txn \in Txn
    BY <1>1 DEF TypeOK, EntryRow
  <2>2. entry[e].txn # entry[f].txn
    BY <2>1 DEF LinkIsMutual
  <2> QED BY <1>1, <2>1, <2>2, LinkNow
<1>3. LedgerState' = [LedgerState EXCEPT ![e] = "expected"] /\ LedgerPays' = [LedgerPays EXCEPT ![e] = NoTxn]
  BY <1>1, LedgerChanges, StatesAre
<1>4. LedgerUsed' = LedgerUsed /\ LedgerLive' = LedgerLive
  BY LedgerTxnsStay
<1>5. CASE entry[e].status = "paid"
  <2>1. LedgerState[e] = "done"
    BY <1>5, LedgerIs, StatesAre
  <2>2. Ledger!Undo(e)
    BY <1>3, <1>4, <2>1 DEF Ledger!Undo
  <2> QED BY <1>2, <2>2 DEF Promised, Ledger!Next
<1>6. CASE entry[e].status = "skipped"
  <2>1. LedgerState[e] = "skipped" /\ entry[e].txn = NoTxn
    BY <1>6, LedgerIs, StatesAre DEF LinkIsMutual
  <2>2. LedgerPays' = LedgerPays
    BY <1>3, <2>1, LedgerIs
  <2>3. Ledger!Unskip(e)
    BY <1>3, <1>4, <2>1, <2>2 DEF Ledger!Unskip
  <2> QED BY <1>2, <2>3 DEF Promised, Ledger!Next
<1>7. entry[e].status \in {"paid", "skipped"}
  BY DEF TypeOK, EntryRow
<1> QED BY <1>5, <1>6, <1>7

LEMMA SkipPromised ==
  ASSUME TypeOK, LinkIsMutual, NEW e \in Entry, entry[e].status # "paid", txn' = txn,
         entry' = [entry EXCEPT ![e] = [entry[e] EXCEPT !.status = "skipped"]]
  PROVE  Promised
<1>1. /\ entry'[e].status = "skipped" /\ entry'[e].txn = entry[e].txn /\ entry[e].txn = NoTxn
      /\ \A f \in Entry \ {e} : entry'[f] = entry[f]
  BY DEF TypeOK, EntryRow, LinkIsMutual
<1>2. LinkIsMutual'
  BY <1>1 DEF LinkIsMutual, Live
<1>3. CASE entry[e].status = "skipped"
  BY <1>1, <1>3, StoreStays
<1>4. CASE entry[e].status = "unpaid"
  <2>1. LedgerState[e] = "expected"
    BY <1>4, LedgerIs, StatesAre
  <2>2. LedgerState' = [LedgerState EXCEPT ![e] = "skipped"]
    BY <1>1, LedgerChanges, StatesAre
  <2>3. LedgerPays' = LedgerPays
    <3>1. \A f \in Entry : entry'[f].txn = entry[f].txn
      BY <1>1
    <3> QED BY <3>1, LedgerIs, LedgerIsNext
  <2>4. LedgerUsed' = LedgerUsed /\ LedgerLive' = LedgerLive
    BY LedgerTxnsStay
  <2>5. Ledger!Skip(e)
    BY <2>1, <2>2, <2>3, <2>4 DEF Ledger!Skip
  <2> QED BY <1>2, <2>5 DEF Promised, Ledger!Next
<1> QED BY <1>3, <1>4 DEF TypeOK, EntryRow

LEMMA LinkPromised ==
  ASSUME TypeOK, LinkIsMutual, NEW e \in Entry, NEW t \in Txn, Claimable(e), Live(t), ~Linked(t),
         NEW stored, entry' = [entry EXCEPT ![e] = Claimed(@, t, stored, FALSE)],
         txn' = [txn EXCEPT ![t].item = ItemOf[e]]
  PROVE  Promised
<1>1. /\ entry'[e].status = "paid" /\ entry'[e].txn = t /\ \A f \in Entry \ {e} : entry'[f] = entry[f]
      /\ txn'[t].item = ItemOf[e] /\ \A u \in Txn : txn'[u].state = txn[u].state
      /\ \A u \in Txn \ {t} : txn'[u] = txn[u]
  BY DEF TypeOK, TxnRow, Claimed
<1>2. \A f \in Entry : entry[f].txn # t
  BY DEF Linked
<1>3. LinkIsMutual'
  <2> SUFFICES ASSUME NEW f \in Entry, entry'[f].txn # NoTxn
               PROVE  /\ entry'[f].status = "paid" /\ txn'[entry'[f].txn].state = "live"
                      /\ txn'[entry'[f].txn].item = ItemOf[f]
                      /\ \A g \in Entry \ {f} : entry'[g].txn # entry'[f].txn
    BY LinkNext
  <2>1. CASE f = e
    <3>1. txn'[t].state = "live"
      BY <1>1 DEF Live
    <3> QED BY <2>1, <3>1, <1>1, <1>2
  <2>2. CASE f # e
    <3>1. entry'[f] = entry[f] /\ entry[f].txn # t
      BY <2>2, <1>1, <1>2
    <3>2. /\ entry[f].txn \in Txn \ {t} /\ entry[f].status = "paid"
          /\ txn[entry[f].txn].state = "live" /\ txn[entry[f].txn].item = ItemOf[f]
          /\ \A g \in Entry \ {f} : entry[g].txn # entry[f].txn
      BY <3>1, LinkNow
    <3>3. \A g \in Entry \ {f} : entry'[g].txn # entry[f].txn
      BY <1>1, <3>1, <3>2
    <3> QED BY <1>1, <3>1, <3>2, <3>3
  <2> QED BY <2>1, <2>2
<1>4. LedgerState[e] = "expected" /\ t \in LedgerLive /\ \A f \in Entry : LedgerPays[f] # t
  BY <1>2, LedgerIs, StatesAre DEF Claimable, LedgerLive
<1>5. LedgerState' = [LedgerState EXCEPT ![e] = "done"] /\ LedgerPays' = [LedgerPays EXCEPT ![e] = t]
  <2>1. \A f \in Entry \ {e} : entry'[f] = entry[f]
    BY <1>1
  <2>2. LedgerState' = [LedgerState EXCEPT ![e] = StateOf("paid")]
    BY <1>1, <2>1, LedgerChanges
  <2>3. LedgerPays' = [LedgerPays EXCEPT ![e] = entry'[e].txn]
    BY <1>1, <2>1, LedgerChanges
  <2> QED BY <1>1, <2>2, <2>3, StatesAre
<1>6. LedgerUsed' = LedgerUsed /\ LedgerLive' = LedgerLive
  BY <1>1, LedgerTxnsStay
<1>7. Ledger!Link(e, t)
  BY <1>4, <1>5, <1>6 DEF Ledger!Link
<1> QED BY <1>3, <1>7 DEF Promised, Ledger!Next

LEMMA RecordPromised ==
  ASSUME TypeOK, LinkIsMutual, NEW t \in Absent, entry' = entry, NEW row \in TxnRow, row.state = "live",
         txn' = [txn EXCEPT ![t] = row]
  PROVE  Promised
<1>1. t \in Txn /\ txn'[t].state = "live" /\ \A u \in Txn \ {t} : txn'[u] = txn[u]
  BY DEF TypeOK, Absent
<1>2. \A f \in Entry : entry[f].txn # t
  BY EntriesAssumption DEF LinkIsMutual, Live, Absent
<1>3. LinkIsMutual'
  BY <1>1, <1>2, LinkNow, LinkNext
<1>4. LedgerState' = LedgerState /\ LedgerPays' = LedgerPays
  BY LedgerStays
<1>5. t \in Txn \ LedgerUsed /\ LedgerUsed' = LedgerUsed \cup {t} /\ LedgerLive' = LedgerLive \cup {t}
  BY <1>1, LedgerInserts
<1>6. Ledger!Record(t)
  BY <1>4, <1>5 DEF Ledger!Record
<1> QED BY <1>1, <1>3, <1>6 DEF Promised, Ledger!Next
-----------------------------------------------------------------------------
(* The handlers.                                                             *)

\* A flush of a row that nobody has changed writes the row.
LEMMA FlushOfFresh ==
  ASSUME NEW a \in EntryRow, NEW c \in EntryRow
  PROVE  OrmEntry(a, a, c) = c
BY DEF OrmEntry, Column, EntryRow

LEMMA FlushOfFreshTxn ==
  ASSUME NEW a \in TxnRow, NEW c \in TxnRow
  PROVE  OrmTxn(a, a, c) = c
BY DEF OrmTxn, Column, TxnRow

Kept == LinkIsMutual' /\ refused' = refused /\ Snapshot' /\ [Ledger!Next]_(Ledger!vars)

\* The only slot there is has nothing loaded.
LEMMA IdleSnapshot ==
  ASSUME Serial, TypeOK, NEW r \in Slot, req' = [req EXCEPT ![r] = Idle]
  PROVE  Snapshot'
<1>1. \A s \in Slot : req'[s] = Idle
  BY DEF Serial, TypeOK
<1>2. \A s \in Slot : req'[s].op = "idle"
  BY <1>1 DEF Idle
<1> QED BY <1>2 DEF Snapshot, SnapshotOf

LEMMA CommitsKeepLink ==
  ASSUME Serial, SerialInv, NEW r \in Req,
         \/ CommitDone(r) \/ CommitPay(r) \/ CommitUndo(r) \/ CommitSkip(r)
         \/ CommitAmount(r) \/ CommitLink(r) \/ CommitDelete(r) \/ CommitEdit(r)
  PROVE  Kept
<1> DEFINE q == req[r]
<1>1. /\ TypeOK /\ SlotOK /\ LinkIsMutual /\ ~refused /\ r \in Slot /\ q \in Request
      /\ entry \in [Entry -> EntryRow] /\ txn \in [Txn -> TxnRow]
  BY DEF SerialInv, TypeInv, TypeOK, Slot
<1>2. /\ q.op \in {"done", "pay", "undo", "skip", "amount", "link"} => q.entry \in Entry
      /\ q.op \in {"link", "delete", "edit"} => q.txn \in Txn
      /\ q.op = "edit" => q.to.state = q.row.state /\ q.to.item = q.row.item
  BY <1>1 DEF SlotOK
<1>3. /\ q.op \in {"undo", "skip", "amount"} => q.occ = entry[q.entry]
      /\ q.op = "undo" => /\ q.occ.status # "unpaid"
                          /\ q.row = LoadedTxn(q.entry)
                          /\ q.occ.status = "paid" /\ q.row.state = "live" /\ ~q.given =>
                                q.row.bucket \/ q.row.type = "income"
      /\ q.op = "skip" => q.occ.status # "paid"
      /\ q.op = "link" => Live(q.txn) /\ ~Linked(q.txn)
      /\ q.op = "delete" => Live(q.txn)
      /\ q.op = "edit" => Live(q.txn) /\ q.row = txn[q.txn] /\ CheckHolds(q.to)
  BY <1>1 DEF SerialInv, Snapshot, SnapshotOf
<1>4. ASSUME NEW op, Commit(r, op) PROVE req' = [req EXCEPT ![r] = Idle] /\ q.op = op
  BY <1>4 DEF Commit
<1>5. Snapshot'
  <2>1. req' = [req EXCEPT ![r] = Idle]
    BY DEF CommitDone, CommitPay, CommitUndo, CommitSkip, CommitAmount, CommitLink, CommitDelete,
           CommitEdit, Commit
  <2> QED BY <1>1, <2>1, IdleSnapshot
<1>6. CASE UNCHANGED store /\ refused' = refused
  BY <1>1, <1>5, <1>6, StoreStays DEF Kept, Promised, store
<1>7. CASE CommitDone(r)
  <2>1. q.op = "done" /\ refused' = refused
    BY <1>7 DEF CommitDone, Commit
  <2>2. CASE Claimable(q.entry)
    <3>1. PayWith(q.entry, q.given \/ ItemOf[q.entry] \in Variable, FALSE)
      BY <1>7, <2>2 DEF CommitDone
    <3>2. Promised
      BY <1>1, <1>2, <2>1, <2>2, <3>1, PayPromised
    <3> QED BY <1>5, <2>1, <3>2 DEF Kept, Promised
  <2>3. CASE ~Claimable(q.entry)
    BY <1>6, <1>7, <2>1, <2>3 DEF CommitDone
  <2> QED BY <2>2, <2>3
<1>8. CASE CommitPay(r)
  <2>1. q.op = "pay" /\ refused' = refused
    BY <1>8 DEF CommitPay, Commit
  <2>2. CASE Claimable(q.entry)
    <3>1. Settle(q.entry, q.given, FALSE)
      BY <1>8, <2>2 DEF CommitPay
    <3>2. Promised
      BY <1>1, <1>2, <2>1, <2>2, <3>1, SettlePromised
    <3> QED BY <1>5, <2>1, <3>2 DEF Kept, Promised
  <2>3. CASE ~Claimable(q.entry)
    BY <1>6, <1>8, <2>1, <2>3 DEF CommitPay
  <2> QED BY <2>2, <2>3
<1>9. CASE CommitUndo(r)
  <2>1. q.op = "undo"
    BY <1>9 DEF CommitUndo, Commit
  <2>2. PICK e \in Entry : e = q.entry
    BY <1>2, <2>1
  <2>3. /\ q.occ = entry[e] /\ entry[e] \in EntryRow /\ entry[e].status # "unpaid"
        /\ Reopened(entry[e]) \in EntryRow
    <3>1. q.occ = entry[e] /\ entry[e] \in EntryRow /\ entry[e].status # "unpaid"
      BY <1>1, <1>3, <2>1, <2>2
    <3>2. Reopened(entry[e]) \in EntryRow
      BY <3>1 DEF Reopened, EntryRow
    <3> QED BY <3>1, <3>2
  <2>4. PICK reopened : reopened = [entry EXCEPT ![e] = Reopened(entry[e])]
    OBVIOUS
  <2>5. reopened = [entry EXCEPT ![q.entry] = OrmEntry(@, q.occ, Reopened(q.occ))]
    BY <2>2, <2>3, <2>4, FlushOfFresh
  <2>6. CASE q.occ.status = "skipped" \/ q.row.state # "live"
    <3>1. entry' = reopened /\ txn' = txn /\ refused' = refused
      BY <1>9, <2>5, <2>6 DEF CommitUndo
    <3>2. Promised
      BY <1>1, <2>3, <2>4, <3>1, ReopenPromised
    <3> QED BY <1>5, <3>1, <3>2 DEF Kept, Promised
  <2>7. CASE ~(q.occ.status = "skipped" \/ q.row.state # "live")
    <3>1. PICK t : t = q.occ.txn
      OBVIOUS
    <3>2. /\ q.row = txn[t] /\ t \in Txn /\ Live(t) /\ q.row \in TxnRow /\ q.occ.status = "paid"
          /\ t = entry[e].txn /\ txn[t] \in TxnRow
      <4>1. q.row = LoadedTxn(e) /\ q.row.state = "live"
        BY <1>3, <2>1, <2>2, <2>7
      <4>2. entry[e].txn # NoTxn
        BY <4>1 DEF LoadedTxn, AbsentTxn
      <4> QED BY <1>1, <2>3, <2>7, <3>1, <4>1, <4>2 DEF LoadedTxn, Live, EntryRow
    <3>3. CASE q.given
      <4>1. SoftDelete(t) /\ refused' = refused
        BY <1>9, <2>7, <3>1, <3>3 DEF CommitUndo
      <4>2. Promised
        BY <1>1, <3>2, <4>1, DeletePromised
      <4> QED BY <1>5, <4>1, <4>2 DEF Kept, Promised
    <3>4. CASE ~q.given
      <4>1. PICK new : new = [q.row EXCEPT !.item = NoItem]
        OBVIOUS
      <4>2. new \in TxnRow /\ new.state = q.row.state /\ new.bucket = q.row.bucket /\ new.type = q.row.type
        BY <3>2, <4>1 DEF TxnRow
      <4>3. OrmTxn(txn[t], q.row, new) = new
        BY <3>2, <4>2, FlushOfFreshTxn
      <4>4. Checked(t, new, reopened)
        BY <1>9, <2>5, <2>7, <3>1, <3>4, <4>1, <4>3 DEF CommitUndo
      <4>5. CheckHolds(new)
        BY <1>3, <2>1, <2>7, <3>2, <3>4, <4>2 DEF CheckHolds
      <4>6. txn' = [txn EXCEPT ![t] = new] /\ entry' = reopened /\ refused' = refused
        BY <4>4, <4>5 DEF Checked
      <4>7. /\ \A u \in Txn : txn'[u].state = txn[u].state
            /\ \A u \in Txn : u # entry[e].txn => txn'[u] = txn[u]
        BY <1>1, <3>2, <4>2, <4>6
      <4>8. Promised
        BY <1>1, <2>3, <2>4, <4>6, <4>7, ReopenPromised
      <4> QED BY <1>5, <4>6, <4>8 DEF Kept, Promised
    <3> QED BY <3>3, <3>4
  <2> QED BY <2>6, <2>7
<1>10. CASE CommitSkip(r)
  <2>1. q.op = "skip" /\ txn' = txn /\ refused' = refused
    BY <1>10 DEF CommitSkip, Commit
  <2>2. PICK e \in Entry : e = q.entry
    BY <1>2, <2>1
  <2>3. q.occ = entry[e] /\ entry[e] \in EntryRow /\ entry[e].status # "paid"
    BY <1>1, <1>3, <2>1, <2>2
  <2>4. [entry[e] EXCEPT !.status = "skipped"] \in EntryRow
    BY <2>3 DEF EntryRow
  <2>5. entry' = [entry EXCEPT ![e] = [entry[e] EXCEPT !.status = "skipped"]]
    BY <1>10, <2>2, <2>3, <2>4, FlushOfFresh DEF CommitSkip
  <2>6. Promised
    BY <1>1, <2>1, <2>3, <2>5, SkipPromised
  <2> QED BY <1>5, <2>1, <2>6 DEF Kept, Promised
<1>11. CASE CommitAmount(r)
  <2>1. q.op = "amount" /\ txn' = txn /\ refused' = refused
    BY <1>11 DEF CommitAmount, Commit
  <2>2. PICK e \in Entry : e = q.entry
    BY <1>2, <2>1
  <2>3. q.occ = entry[e] /\ entry[e] \in EntryRow
    BY <1>1, <1>3, <2>1, <2>2
  <2>4. [entry[e] EXCEPT !.amount = TRUE] \in EntryRow
    BY <2>3 DEF EntryRow
  <2>5. entry' = [entry EXCEPT ![e] = [entry[e] EXCEPT !.amount = TRUE]]
    BY <1>11, <2>2, <2>3, <2>4, FlushOfFresh DEF CommitAmount
  <2>6. \A f \in Entry : entry'[f].status = entry[f].status /\ entry'[f].txn = entry[f].txn
    BY <1>1, <2>3, <2>5 DEF EntryRow
  <2>7. Promised
    BY <1>1, <2>1, <2>6, StoreStays
  <2> QED BY <1>5, <2>1, <2>7 DEF Kept, Promised
<1>12. CASE CommitLink(r)
  <2>1. q.op = "link" /\ refused' = refused
    BY <1>12 DEF CommitLink, Commit
  <2>2. CASE Claimable(q.entry)
    <3>1. /\ entry' = [entry EXCEPT ![q.entry] = Claimed(@, q.txn, ItemOf[q.entry] \in Variable, FALSE)]
          /\ txn' = [txn EXCEPT ![q.txn].item = ItemOf[q.entry]]
      BY <1>12, <2>2 DEF CommitLink
    <3>2. Promised
      BY <1>1, <1>2, <1>3, <2>1, <2>2, <3>1, LinkPromised
    <3> QED BY <1>5, <2>1, <3>2 DEF Kept, Promised
  <2>3. CASE ~Claimable(q.entry)
    BY <1>6, <1>12, <2>1, <2>3 DEF CommitLink, store
  <2> QED BY <2>2, <2>3
<1>13. CASE CommitDelete(r)
  <2>1. q.op = "delete" /\ refused' = refused /\ SoftDelete(q.txn)
    BY <1>13 DEF CommitDelete, Commit
  <2>2. Promised
    BY <1>1, <1>2, <1>3, <2>1, DeletePromised
  <2> QED BY <1>5, <2>1, <2>2 DEF Kept, Promised
<1>14. CASE CommitEdit(r)
  <2>1. q.op = "edit"
    BY <1>14 DEF CommitEdit, Commit
  <2>2. PICK t \in Txn : t = q.txn
    BY <1>2, <2>1
  <2>3. q.row = txn[t] /\ txn[t] \in TxnRow /\ q.to \in TxnRow /\ CheckHolds(q.to)
    BY <1>1, <1>3, <2>1, <2>2 DEF Request
  <2>4. Checked(t, q.to, entry)
    BY <1>14, <2>2, <2>3, FlushOfFreshTxn DEF CommitEdit
  <2>5. txn' = [txn EXCEPT ![t] = q.to] /\ entry' = entry /\ refused' = refused
    BY <2>3, <2>4 DEF Checked
  <2>6. \A u \in Txn : txn'[u].state = txn[u].state /\ txn'[u].item = txn[u].item
    BY <1>1, <1>2, <2>1, <2>3, <2>5
  <2>7. Promised
    BY <1>1, <2>5, <2>6, StoreStays
  <2> QED BY <1>5, <2>5, <2>7 DEF Kept, Promised
<1> QED BY <1>7, <1>8, <1>9, <1>10, <1>11, <1>12, <1>13, <1>14
\* A handler that only loads and checks.
LEMMA BeginKeepsLink ==
  ASSUME Serial, SerialInv, NEW r \in Req, NEW q, Begin(r, q), SnapshotOf(q)
  PROVE  Kept
<1>1. /\ TypeOK /\ LinkIsMutual /\ entry' = entry /\ txn' = txn /\ refused' = refused
      /\ req' = [req EXCEPT ![r] = q] /\ r \in Slot
  BY DEF SerialInv, TypeInv, Begin, Slot
<1>2. \A s \in Slot : req'[s] = q
  BY <1>1 DEF Serial, TypeOK
<1>3. SnapshotOf(q)'
  BY <1>1 DEF SnapshotOf, LoadedTxn, Live, Linked, CheckHolds
<1>4. Snapshot'
  BY <1>2, <1>3 DEF Snapshot, SnapshotOf
<1>5. Promised
  BY <1>1, StoreStays
<1> QED BY <1>1, <1>4, <1>5 DEF Kept, Promised

LEMMA BeginsKeepLink ==
  ASSUME Serial, SerialInv, NEW r \in Req,
         \/ \E e \in Entry, g \in BOOLEAN : BeginDone(r, e, g)
         \/ \E e \in Entry, g \in BOOLEAN : BeginPay(r, e, g)
         \/ \E e \in Entry, g \in BOOLEAN : BeginUndo(r, e, g)
         \/ \E e \in Entry : BeginSkip(r, e)
         \/ \E e \in Entry : BeginAmount(r, e)
         \/ \E t \in Txn, e \in Entry : BeginLink(r, t, e)
         \/ \E t \in Txn : BeginDelete(r, t)
         \/ \E t \in Txn, b \in BOOLEAN, k \in {"expense", "income"} : BeginEdit(r, t, b, k)
  PROVE  Kept
<1>1. TypeOK /\ txn \in [Txn -> TxnRow] /\ entry \in [Entry -> EntryRow]
  BY DEF SerialInv, TypeInv, TypeOK
<1>2. ASSUME NEW e \in Entry, NEW g \in BOOLEAN, BeginDone(r, e, g) \/ BeginPay(r, e, g)
      PROVE  Kept
  <2>1. PICK op \in {"done", "pay"} : Begin(r, [Idle EXCEPT !.op = op, !.entry = e, !.given = g])
    BY <1>2 DEF BeginDone, BeginPay
  <2>2. PICK q : q = [Idle EXCEPT !.op = op, !.entry = e, !.given = g]
    OBVIOUS
  <2>3. SnapshotOf(q)
    BY <2>2 DEF SnapshotOf, Idle
  <2> QED BY <2>1, <2>2, <2>3, BeginKeepsLink
<1>3. ASSUME NEW e \in Entry, NEW g \in BOOLEAN, BeginUndo(r, e, g)
      PROVE  Kept
  <2>1. PICK q : q = [Idle EXCEPT !.op = "undo", !.entry = e, !.given = g,
                                  !.occ = entry[e], !.row = LoadedTxn(e)]
    OBVIOUS
  <2>2. q.op = "undo" /\ q.entry = e /\ q.given = g /\ q.occ = entry[e] /\ q.row = LoadedTxn(e)
    BY <2>1 DEF Idle
  <2>3. LoadedTxn(e) \in TxnRow
    BY <1>1, FreshTypes DEF LoadedTxn, EntryRow
  <2>4. /\ Begin(r, q) /\ entry[e].status # "unpaid"
        /\ entry[e].status = "paid" /\ LoadedTxn(e).state = "live" /\ ~g =>
              LoadedTxn(e).bucket \/ LoadedTxn(e).type = "income"
    BY <1>3, <2>1, <2>3 DEF BeginUndo, TxnRow
  <2>5. SnapshotOf(q)
    BY <2>2, <2>4 DEF SnapshotOf
  <2> QED BY <2>4, <2>5, BeginKeepsLink
<1>4. ASSUME NEW e \in Entry, BeginSkip(r, e) \/ BeginAmount(r, e)
      PROVE  Kept
  <2>1. PICK q : /\ Begin(r, q) /\ q.op \in {"skip", "amount"} /\ q.entry = e /\ q.occ = entry[e]
                 /\ q.op = "skip" => entry[e].status # "paid"
    <3>1. CASE BeginSkip(r, e)
      BY <3>1 DEF BeginSkip, Idle
    <3>2. CASE BeginAmount(r, e)
      BY <3>2 DEF BeginAmount, Idle
    <3> QED BY <1>4, <3>1, <3>2
  <2>2. SnapshotOf(q)
    BY <2>1 DEF SnapshotOf
  <2> QED BY <2>1, <2>2, BeginKeepsLink
<1>5. ASSUME NEW t \in Txn, NEW e \in Entry, BeginLink(r, t, e) PROVE Kept
  <2>1. PICK q : Begin(r, q) /\ q.op = "link" /\ q.txn = t /\ Live(t) /\ ~Linked(t)
    BY <1>5 DEF BeginLink, Idle, Live
  <2>2. SnapshotOf(q)
    BY <2>1 DEF SnapshotOf
  <2> QED BY <2>1, <2>2, BeginKeepsLink
<1>6. ASSUME NEW t \in Txn, BeginDelete(r, t) PROVE Kept
  <2>1. PICK q : Begin(r, q) /\ q.op = "delete" /\ q.txn = t /\ Live(t)
    BY <1>6 DEF BeginDelete, Idle, Live
  <2>2. SnapshotOf(q)
    BY <2>1 DEF SnapshotOf
  <2> QED BY <2>1, <2>2, BeginKeepsLink
<1>7. ASSUME NEW t \in Txn, NEW b \in BOOLEAN, NEW k \in {"expense", "income"}, BeginEdit(r, t, b, k)
      PROVE  Kept
  <2>1. PICK to : to = [txn[t] EXCEPT !.bucket = b, !.type = k]
    OBVIOUS
  <2>2. to.bucket = b /\ to.type = k /\ to.item = txn[t].item
    BY <1>1, <2>1 DEF TxnRow
  <2>3. PICK q : q = [Idle EXCEPT !.op = "edit", !.txn = t, !.row = txn[t], !.to = to]
    OBVIOUS
  <2>6. Begin(r, q) /\ q.op = "edit" /\ q.txn = t /\ q.row = txn[t] /\ q.to = to
    BY <1>7, <2>1, <2>3 DEF BeginEdit, Idle
  <2>4. Live(t) /\ CheckHolds(to)
    BY <1>7, <2>2 DEF BeginEdit, CheckHolds, Live
  <2>5. SnapshotOf(q)
    BY <2>4, <2>6 DEF SnapshotOf
  <2> QED BY <2>5, <2>6, BeginKeepsLink
<1> QED BY <1>2, <1>3, <1>4, <1>5, <1>6, <1>7

\* Requests that die, and the auto-pay stage, which pays one entry at a time.
LEMMA OthersKeepLink ==
  ASSUME Serial, SerialInv,
         \/ \E r \in Req : Abort(r)
         \/ \E t \in Txn, e \in Entry : Suggest(t, e) \/ Dismiss(t, e)
         \/ \E p \in Pass : SchedulerStep(p)
  PROVE  Kept
<1>1. TypeOK /\ LinkIsMutual /\ Snapshot /\ \A p \in Slot : req[p].op = "pass" => req[p].pending \subseteq Entry
  BY DEF SerialInv, TypeInv, TypeOK, Request
<1>2. ASSUME NEW r \in Slot, req'[r].op \in {"idle", "pass"}, DOMAIN req' = DOMAIN req
      PROVE  Snapshot'
  <2>1. \A s \in Slot : req'[s].op \in {"idle", "pass"}
    BY <1>2 DEF Serial
  <2> QED BY <2>1 DEF Snapshot, SnapshotOf
<1>3. CASE \E r \in Req : Abort(r)
  <2>1. PICK r \in Req : Abort(r)
    BY <1>3
  <2>2. req' = [req EXCEPT ![r] = Idle] /\ r \in Slot
    BY <2>1 DEF Abort, Slot
  <2>4. req'[r].op = "idle" /\ DOMAIN req' = DOMAIN req
    BY <1>1, <2>2 DEF Idle, TypeOK
  <2>5. Snapshot'
    BY <1>2, <2>2, <2>4
  <2>3. Promised
    BY <1>1, <2>1, StoreStays DEF Abort
  <2> QED BY <2>1, <2>3, <2>5 DEF Kept, Promised, Abort
<1>4. CASE \E t \in Txn, e \in Entry : Suggest(t, e) \/ Dismiss(t, e)
  <2>1. UNCHANGED <<entry, txn, req, refused>>
    BY <1>4 DEF Suggest, Dismiss
  <2>2. Snapshot'
    BY <1>1, <2>1 DEF Snapshot, SnapshotOf, LoadedTxn, Live, Linked, CheckHolds
  <2>3. Promised
    BY <1>1, <2>1, StoreStays
  <2> QED BY <2>1, <2>2, <2>3 DEF Kept, Promised
<1>5. ASSUME NEW p \in Pass, BeginPass(p) \/ PassCrash(p)
      PROVE  Kept
  <2>1. entry' = entry /\ txn' = txn /\ refused' = refused
    BY <1>5 DEF BeginPass, PassCrash
  <2>2. p \in Slot /\ req'[p].op \in {"idle", "pass"} /\ DOMAIN req' = DOMAIN req
    <3>1. p \in Slot /\ req \in [Slot -> Request]
      BY <1>1 DEF TypeOK, Slot
    <3>2. CASE BeginPass(p)
      <4>1. PICK due : due = {f \in Entry : AutoPayable(f)}
        OBVIOUS
      <4>2. PICK q : q = [Idle EXCEPT !.op = "pass", !.pending = due]
        OBVIOUS
      <4>3. q.op = "pass"
        BY <4>2 DEF Idle
      <4>4. req' = [req EXCEPT ![p] = q]
        BY <3>2, <4>1, <4>2 DEF BeginPass
      <4> QED BY <3>1, <4>3, <4>4
    <3>3. CASE PassCrash(p)
      BY <3>1, <3>3 DEF PassCrash, Idle
    <3> QED BY <1>5, <3>2, <3>3
  <2>3. Snapshot'
    BY <1>2, <2>2
  <2>4. Promised
    BY <1>1, <2>1, StoreStays
  <2> QED BY <2>1, <2>3, <2>4 DEF Kept, Promised
<1>6. ASSUME NEW p \in Pass, NEW e \in Entry, PassStep(p, e)
      PROVE  Kept
  <2>1. /\ refused' = refused
        /\ IF Claimable(e) THEN Settle(e, FALSE, TRUE) ELSE UNCHANGED store
    BY <1>6 DEF PassStep
  <2>2. p \in Slot /\ req'[p].op \in {"idle", "pass"} /\ DOMAIN req' = DOMAIN req
    <3>1. p \in Slot /\ req[p] \in Request /\ req[p].op = "pass"
      BY <1>1, <1>6 DEF PassStep, TypeOK, Slot
    <3>2. [req[p] EXCEPT !.pending = req[p].pending \ {e}].op = "pass" /\ Idle.op = "idle"
      BY <3>1 DEF Request, Idle
    <3> QED BY <1>1, <1>6, <3>1, <3>2 DEF PassStep, TypeOK
  <2>3. Snapshot'
    BY <1>2, <2>2
  <2>4. Promised
    BY <1>1, <2>1, SettlePromised, StoreStays DEF store
  <2> QED BY <2>1, <2>3, <2>4 DEF Kept, Promised
<1> QED BY <1>3, <1>4, <1>5, <1>6 DEF SchedulerStep

\* A transaction logged by hand: a new id, which no handler has loaded.
LEMMA LogKeepsLink ==
  ASSUME Serial, SerialInv, NEW t \in Txn, NEW b \in BOOLEAN, NEW k \in {"expense", "income"},
         LogTransaction(t, b, k)
  PROVE  Kept
<1>1. /\ TypeOK /\ SlotOK /\ LinkIsMutual /\ Snapshot /\ t \in Absent
      /\ UNCHANGED <<entry, suggestion, req, refused, crashes>>
  BY DEF SerialInv, TypeInv, LogTransaction
<1>2. PICK row : row = [state |-> "live", item |-> NoItem, bucket |-> b, type |-> k]
  OBVIOUS
<1>3. row \in TxnRow /\ row.state = "live" /\ txn' = [txn EXCEPT ![t] = row]
  BY <1>2 DEF TxnRow, LogTransaction
<1>4. Promised
  BY <1>1, <1>3, RecordPromised
<1>5. \A u \in Txn : Live(u) => u # t
  BY <1>1 DEF Live, Absent
<1>6. \A u \in Txn : u # t => txn'[u] = txn[u]
  BY <1>1, <1>3 DEF TypeOK
<1>7. \A e \in Entry : LoadedTxn(e)' = LoadedTxn(e)
  BY <1>1, <1>5, <1>6, LinkNow DEF LoadedTxn, Live
<1>8. \A r \in Slot : SnapshotOf(req[r])'
  <2> SUFFICES ASSUME NEW r \in Slot PROVE SnapshotOf(req[r])'
    OBVIOUS
  <2>1. PICK q : q = req[r]
    OBVIOUS
  <2>2. /\ SnapshotOf(q) /\ req' = req
        /\ q.op \in {"done", "pay", "undo", "skip", "amount", "link"} => q.entry \in Entry
        /\ q.op \in {"link", "delete", "edit"} => q.txn \in Txn
    BY <1>1, <2>1 DEF Snapshot, SlotOK
  <2>3. /\ q.op \in {"undo", "skip", "amount"} => q.occ = entry'[q.entry]
        /\ q.op = "undo" => /\ q.occ.status # "unpaid"
                            /\ q.row = LoadedTxn(q.entry)'
                            /\ q.occ.status = "paid" /\ q.row.state = "live" /\ ~q.given =>
                                  q.row.bucket \/ q.row.type = "income"
        /\ q.op = "skip" => q.occ.status # "paid"
    BY <1>1, <1>7, <2>2 DEF SnapshotOf
  <2>4. /\ q.op = "link" => Live(q.txn)' /\ ~Linked(q.txn)'
        /\ q.op = "delete" => Live(q.txn)'
        /\ q.op = "edit" => Live(q.txn)' /\ q.row = txn'[q.txn] /\ CheckHolds(q.to)
    <3>1. ASSUME NEW u \in Txn, Live(u) PROVE txn'[u] = txn[u] /\ Live(u)' /\ (Linked(u)' <=> Linked(u))
      BY <1>1, <1>5, <1>6, <3>1 DEF Live, Linked
    <3> QED BY <2>2, <3>1 DEF SnapshotOf
  <2>5. SnapshotOf(q)'
    BY <2>3, <2>4 DEF SnapshotOf, CheckHolds
  <2> QED BY <2>1, <2>2, <2>5 DEF SnapshotOf
<1> QED BY <1>1, <1>4, <1>8 DEF Kept, Promised, Snapshot

LEMMA SerialStep ==
  ASSUME Serial, SerialInv, [Next]_vars
  PROVE  SerialInv' /\ [Ledger!Next]_(Ledger!vars)
<1>1. TypeInv'
  BY TypeInvNext DEF SerialInv
<1>2. CASE UNCHANGED vars
  <2>1. UNCHANGED <<entry, txn, req, refused>> /\ TypeOK /\ LinkIsMutual /\ Snapshot
    BY <1>2 DEF vars, SerialInv, TypeInv
  <2>2. Snapshot'
    BY <2>1 DEF Snapshot, SnapshotOf, LoadedTxn, Live, Linked, CheckHolds
  <2>3. Promised
    BY <2>1, StoreStays
  <2> QED BY <1>1, <2>1, <2>2, <2>3 DEF SerialInv, Promised
<1>3. ASSUME NEW r \in Req, RequestStep(r) PROVE Kept
  BY <1>3, BeginsKeepLink, CommitsKeepLink, OthersKeepLink DEF RequestStep
<1>4. ASSUME MatchStep PROVE Kept
  BY <1>4, LogKeepsLink, OthersKeepLink DEF MatchStep
<1>5. ASSUME NEW p \in Pass, SchedulerStep(p) PROVE Kept
  BY <1>5, OthersKeepLink
<1>6. CASE Kept
  BY <1>1, <1>6 DEF Kept, SerialInv
<1> QED BY <1>2, <1>3, <1>4, <1>5, <1>6 DEF Next

LEMMA SerialInvInit == Init => SerialInv /\ Ledger!Init
<1> SUFFICES ASSUME Init PROVE SerialInv /\ Ledger!Init
  OBVIOUS
<1>1. TypeInv
  BY TypeInvInit
<1>2. LinkIsMutual /\ ~refused
  BY DEF Init, FreshEntry, LinkIsMutual
<1>3. \A r \in Slot : req[r].op = "idle"
  BY DEF Init, Idle
<1>4. Snapshot
  BY <1>3 DEF Snapshot, SnapshotOf
<1>5. Ledger!Init
  <2>1. \A e \in Entry : entry[e].status = "unpaid" /\ entry[e].txn = NoTxn
    BY DEF Init, FreshEntry
  <2>2. LedgerState = [e \in Entry |-> "expected"] /\ LedgerPays = [e \in Entry |-> NoTxn]
    BY <2>1, LedgerIs, StatesAre
  <2>3. LedgerUsed = {} /\ LedgerLive = {}
    BY DEF Init, AbsentTxn, LedgerUsed, LedgerLive, Absent, Live
  <2> QED BY <2>2, <2>3 DEF Ledger!Init
<1> QED BY <1>1, <1>2, <1>4, <1>5 DEF SerialInv

-----------------------------------------------------------------------------

(* Any sequence of done, pay, undo, skip, link, delete, edit and auto-pay,    *)
(* one after the other, leaves both ends of every link consistent: an entry   *)
(* with a transaction is paid, and the transaction lives and pays no other.   *)
THEOREM LinksAreMutual == Serial => (Spec => []LinkIsMutual)
<1> SUFFICES ASSUME Serial PROVE Spec => []LinkIsMutual
  OBVIOUS
<1>1. SerialInv /\ [Next]_vars => SerialInv'
  BY SerialStep
<1>2. SerialInv => LinkIsMutual
  BY DEF SerialInv
<1> QED BY <1>1, <1>2, SerialInvInit, PTL DEF Spec

(* The handlers' checks before a write keep a bucket-less expense with its    *)
(* item: ck_transactions_bucket_unless_income never refuses a commit.         *)
THEOREM ChecksAreEnough == Serial => (Spec => []CheckNeverRefuses)
<1> SUFFICES ASSUME Serial PROVE Spec => []CheckNeverRefuses
  OBVIOUS
<1>1. SerialInv /\ [Next]_vars => SerialInv'
  BY SerialStep
<1>2. SerialInv => CheckNeverRefuses
  BY DEF SerialInv, CheckNeverRefuses
<1> QED BY <1>1, <1>2, SerialInvInit, PTL DEF Spec

(* Every commit of every handler is one step of the ledger, or none.          *)
THEOREM HandlersImplementLedger == Serial => (Spec => ImplementsLedger)
<1> SUFFICES ASSUME Serial PROVE Spec => ImplementsLedger
  OBVIOUS
<1>1. SerialInv /\ [Next]_vars => SerialInv' /\ [Ledger!Next]_(Ledger!vars)
  BY SerialStep
<1> QED BY <1>1, SerialInvInit, PTL DEF Spec, ImplementsLedger, Ledger!Spec

(***************************************************************************)
(* The item, as the plan's sheet shows and edits it (PlanItem).            *)
(***************************************************************************)
\* The sum of the shares is the sum over their places, in whichever order it is taken.
LEMMA LastPlace ==
  ASSUME NEW n \in Nat, NEW t \in SUBSET (1 .. n), t # {}
  PROVE  Max(t) \in t
<1> DEFINE S == {n - x : x \in t}
<1>1. S \in SUBSET Nat /\ S # {}
  <2>1. \A x \in t : x \in 1 .. n
    OBVIOUS
  <2>2. \A x \in 1 .. n : n - x \in Nat
    OBVIOUS
  <2> QED BY <2>1, <2>2
<1> HIDE DEF S
<1>2. PICK m \in S : \A k \in S : m <= k
  BY <1>1, LeastNumber
<1>3. PICK x \in t : m = n - x
  BY DEF S
<1>4. \A y \in t : x >= y
  <2> TAKE y \in t
  <2>1. n - y \in S
    BY DEF S
  <2> QED BY <2>1, <1>2, <1>3
<1>5. \E z \in t : \A y \in t : z >= y
  BY <1>3, <1>4
<1> QED BY <1>5 DEF Max

LEMMA SharesSum ==
  ASSUME NEW s \in Seq(Int)
  PROVE  SumShares(s) = SumOver(s, DOMAIN s)
<1> DEFINE S == DOMAIN s
           Eq(h) == h = [t \in SUBSET S |-> IF t = {} THEN 0 ELSE h[t \ {Max(t)}] + s[Max(t)]]
           k == CHOOSE h : Eq(h)
           sum == [t \in SUBSET S |-> SumOver(s, t)]
<1>1. SumShares(s) = k[S]
  BY DEF SumShares, FoldLeft, MapThenFoldSet
<1>2. S = 1 .. Len(s) /\ Len(s) \in Nat /\ IsFiniteSet(S) /\ \A x \in S : s[x] \in Int
  BY FS_Interval
<1>3. \A t \in SUBSET S : IsFiniteSet(t)
  BY <1>2, FS_Subset
<1>4. ASSUME NEW t \in SUBSET S, t # {}
      PROVE  /\ Max(t) \in t /\ t \ {Max(t)} \in SUBSET S
             /\ SumOver(s, t) = SumOver(s, t \ {Max(t)}) + s[Max(t)]
  <2> HIDE DEF S
  <2>1. Max(t) \in t
    BY <1>2, <1>4, LastPlace
  <2>2. IsFiniteSet(t) /\ \A x \in t : s[x] \in Int
    BY <1>2, <1>3
  <2>3. SumOver(s, t) = s[Max(t)] + SumOver(s, t \ {Max(t)})
    BY <2>1, <2>2, SumStep
  <2>4. SumOver(s, t \ {Max(t)}) \in Int
    <3>1. IsFiniteSet(t \ {Max(t)})
      BY <1>3
    <3>2. \A x \in t \ {Max(t)} : s[x] \in Int
      BY <2>2
    <3> QED BY <3>1, <3>2, SumInt
  <2> QED BY <2>1, <2>2, <2>3, <2>4
<1>5. Eq(sum)
  <2>1. \A t \in SUBSET S : SumOver(s, t) = IF t = {} THEN 0 ELSE sum[t \ {Max(t)}] + s[Max(t)]
    BY <1>4, SumEmpty
  <2> HIDE DEF S
  <2> QED BY <2>1
<1>6. Eq(k)
  <2> HIDE DEF sum
  <2> QED BY <1>5
<1>7. ASSUME k[S] # SumOver(s, S) PROVE FALSE
  <2> HIDE DEF k
  <2> DEFINE Bad == {t \in SUBSET S : k[t] # SumOver(s, t)}
  <2>1. S \in Bad
    BY <1>7
  <2>2. PICK t \in Bad : \A u \in Bad : Cardinality(t) <= Cardinality(u)
    <3>1. Bad # {} /\ \A u \in Bad : IsFiniteSet(u)
      BY <1>3, <2>1
    <3> HIDE DEF Bad
    <3> QED BY <3>1, SmallestSet
  <2>3. \A u \in SUBSET S : k[u] = IF u = {} THEN 0 ELSE k[u \ {Max(u)}] + s[Max(u)]
    <3> HIDE DEF S
    <3> QED BY <1>6
  <2>4. t # {}
    BY <2>3, SumEmpty
  <2>5. ~(Cardinality(t) <= Cardinality(t \ {Max(t)}))
    <3>1. IsFiniteSet(t) /\ Max(t) \in t
      BY <1>3, <1>4, <2>4
    <3>2. Cardinality(t \ {Max(t)}) = Cardinality(t) - 1 /\ Cardinality(t) \in Nat
      BY <3>1, FS_RemoveElement, FS_CardinalityType
    <3> QED BY <3>2
  <2>6. t \ {Max(t)} \in SUBSET S /\ t \ {Max(t)} \notin Bad
    BY <2>2, <2>5
  <2> QED BY <1>4, <2>3, <2>4, <2>6
<1> QED BY <1>1, <1>7

LEMMA SharesInt == ASSUME NEW s \in Seq(Int) PROVE SumShares(s) \in Int
<1>1. DOMAIN s = 1 .. Len(s) /\ Len(s) \in Nat /\ \A x \in DOMAIN s : s[x] \in Int
  OBVIOUS
<1>2. IsFiniteSet(DOMAIN s)
  BY <1>1, FS_Interval
<1> QED BY <1>1, <1>2, SumInt, SharesSum

LEMMA SharesPositive == ASSUME NEW s \in Seq(Nat \ {0}), s # <<>> PROVE SumShares(s) \in Nat \ {0}
<1> DEFINE S == 1 .. Len(s)
<1>1. s \in Seq(Int) /\ DOMAIN s = S /\ Len(s) \in Nat /\ 1 \in S /\ \A x \in S : s[x] \in Nat /\ s[x] \in Int /\ s[x] > 0
  OBVIOUS
<1>0. IsFiniteSet(S)
  BY <1>1, FS_Interval
<1> HIDE DEF S
<1>2. IsFiniteSet(S \ {1})
  BY <1>0, FS_RemoveElement
<1>3. SumOver(s, S) = s[1] + SumOver(s, S \ {1})
  BY <1>0, <1>1, <1>2, SumStep
<1>4. \A x \in S \ {1} : s[x] \in Nat
  BY <1>1
<1>5. SumOver(s, S \ {1}) \in Nat
  BY <1>2, <1>4, SumNat
<1> QED BY <1>1, <1>3, <1>5, SharesSum

\* Scaled shares add up to the new amount, whatever was rounded.
LEMMA ScaledAddsUp ==
  ASSUME NEW s \in Seq(Int), SumShares(s) \in Nat \ {0}, NEW total \in Nat, s # <<>>, SumShares(s) # total
  PROVE  ScaleSplits(s, total) \in Seq(Int) /\ SumShares(ScaleSplits(s, total)) = total
<1> DEFINE whole == SumShares(s)
           scaled == [i \in DOMAIN s |-> Rounded(s[i], whole, total)]
           rest == total - SumShares(scaled)
           out == [scaled EXCEPT ![1] = @ + rest]
<1>1. ScaleSplits(s, total) = out
  BY DEF ScaleSplits
<1>2. DOMAIN s = 1 .. Len(s) /\ Len(s) \in Nat /\ Len(s) >= 1 /\ \A i \in DOMAIN s : s[i] \in Int
  OBVIOUS
<1>3. \A i \in DOMAIN s : Rounded(s[i], whole, total) \in Int
  <2> TAKE i \in DOMAIN s
  <2> DEFINE a == 2 * s[i] * total + whole
             b == 2 * whole
  <2>1. s[i] \in Int /\ whole \in Nat /\ whole # 0
    BY <1>2
  <2> HIDE DEF whole
  <2>2. a \in Int
    BY <2>1
  <2>3. b \in Int /\ b > 0
    BY <2>1
  <2> HIDE DEF a, b
  <2>4. a \div b \in Int
    BY <2>2, <2>3
  <2> QED BY <2>4 DEF a, b, Rounded
<1> HIDE DEF whole
<1>4. scaled \in [1 .. Len(s) -> Int]
  BY <1>2, <1>3
<1>5. scaled \in Seq(Int) /\ Len(scaled) = Len(s)
  BY <1>2, <1>4, FunctionIsSeq
<1> HIDE DEF scaled
<1>6. SumShares(scaled) \in Int
  BY <1>5, SharesInt
<1>7. rest \in Int
  BY <1>6
<1> HIDE DEF rest
<1>8. out \in [1 .. Len(s) -> Int] /\ out[1] = scaled[1] + rest /\ \A i \in 1 .. Len(s) : i # 1 => out[i] = scaled[i]
  BY <1>2, <1>4, <1>7
<1> HIDE DEF out
<1>9. out \in Seq(Int) /\ Len(out) = Len(s)
  BY <1>2, <1>8, FunctionIsSeq
<1>10. SumOver(out, 1 .. Len(s)) = SumOver(scaled, 1 .. Len(s)) + out[1] - scaled[1]
  <2> DEFINE D == 1 .. Len(s)
  <2>1. IsFiniteSet(D) /\ 1 \in D
    BY <1>2, FS_Interval
  <2>2. \A i \in D : scaled[i] \in Int /\ out[i] \in Int
    BY <1>4, <1>8
  <2>3. \A i \in D \ {1} : scaled[i] = out[i]
    BY <1>8
  <2> HIDE DEF D
  <2>4. SumOver(out, D) = SumOver(scaled, D) + out[1] - scaled[1]
    BY <2>1, <2>2, <2>3, SumChange
  <2> QED BY <2>4 DEF D
<1>11. SumShares(out) = SumOver(out, 1 .. Len(s)) /\ SumShares(scaled) = SumOver(scaled, 1 .. Len(s))
  <2>1. DOMAIN out = 1 .. Len(s) /\ DOMAIN scaled = 1 .. Len(s)
    BY <1>4, <1>8
  <2> QED BY <1>5, <1>9, <2>1, SharesSum
<1>12. scaled[1] \in Int
  BY <1>2, <1>4
<1> QED BY <1>1, <1>6, <1>8, <1>9, <1>10, <1>11, <1>12 DEF rest

-----------------------------------------------------------------------------
RowFields == {"direction", "amount", "bucket", "auto", "method", "payer", "active", "mode", "shares"}
FormFields == {"direction", "amount", "bucket", "auto", "method", "payer", "active", "keep"}
SheetFields == {"n", "id", "item", "form", "busy", "problem", "blocked"}
HandFields == {"list", "asked", "sheet", "queue", "online", "next"}
WriteFields == {"n", "sheet", "kind", "id", "body", "online", "opened", "form", "stage", "snap"}

\* A row whose shares add up to its amount, and which has nothing that its direction or its payer mode excludes: the
\* server's rows, and those that the list shows for a write on its way.
SharesOK(s) == s \in Seq(Int) /\ (s # <<>> => SumShares(s) \in Nat \ {0})
FairRow(row) ==
    /\ DOMAIN row = RowFields
    /\ row.direction \in {"in", "out"} /\ row.amount \in (Nat \ {0}) \cup {None} /\ row.auto \in BOOLEAN /\ SharesOK(row.shares)
    /\ row.amount # None => row.shares = <<>> \/ SumShares(row.shares) = row.amount
    /\ row.direction = "in" => row.bucket = None /\ row.auto = FALSE /\ row.mode = "single" /\ row.shares = <<>>
    /\ row.mode = "own_share" => row.payer = None
    /\ row.direction = "out" => row.method # None
FairForm(f) ==
    /\ DOMAIN f = FormFields
    /\ f.direction \in {"in", "out"} /\ f.amount \in (Nat \ {0}) \cup {None} /\ f.auto \in BOOLEAN /\ f.method # None
    /\ DOMAIN f.keep = {"mode", "shares"} /\ SharesOK(f.keep.shares)

\* What each change made of a row: "c" has it by number.  A copy of a row that has the number of a change has what that
\* change made, all but the method of income, which a body leaves out.
Agree(a, b) == /\ \A f \in RowFields \ {"method"} : a[f] = b[f]
               /\ a.direction = "out" => a.method = b.method
Copied(x, c) == FairRow(x.row) /\ x.row.method # None /\ x.rev \in DOMAIN c /\ Agree(c[x.rev], x.row)
FairBook(items, c) == \A id \in DOMAIN items : DOMAIN items[id] = {"row", "paid", "press", "rev"} /\ Copied(items[id], c)
FairList(list, c) == \A id \in DOMAIN list : DOMAIN list[id] = {"row", "paid", "rev"} /\ Copied(list[id], c)

\* What a form keeps without showing it is the item's, as it was when the sheet opened.
KeptOf(row, f) == f.keep.mode = row.mode /\ f.keep.shares = row.shares
FairSheet(sheet, next, c) ==
    /\ DOMAIN sheet = SheetFields /\ sheet.n \in Nat /\ sheet.n < next /\ FairForm(sheet.form)
    /\ sheet.id # None => Copied(sheet.item, c) /\ KeptOf(sheet.item.row, sheet.form)
    /\ sheet.blocked => sheet.id # None
FairWrite(w, next, c) ==
    /\ DOMAIN w = WriteFields /\ w.kind \in {"create", "update", "delete"} /\ w.sheet \in Nat /\ w.sheet < next /\ FairList(w.snap, c)
    /\ w.kind # "delete" => FairForm(w.form) /\ w.body = FormToBody(w.form) /\ w.n \in DOMAIN c /\ c[w.n] = w.body
    /\ w.kind = "update" => Copied(w.opened, c) /\ KeptOf(w.opened.row, w.form)

\* A sheet that can offer "Pause instead" is an item's: an answer finds only the sheet it was pressed on.
Asked(h, w) == w.kind = "delete" /\ h.sheet # None /\ h.sheet.n = w.sheet => h.sheet.id # None
FairHand(h, c) ==
    /\ DOMAIN h = HandFields /\ h.next \in Nat
    /\ h.list # None => FairList(h.list, c)
    /\ h.sheet # None => FairSheet(h.sheet, h.next, c) /\ FairList(h.list, c)
    /\ IsList(h.queue) /\ \A i \in 1 .. Len(h.queue) : FairWrite(h.queue[i], h.next, c)
FairSends(h, ws, c) == \A w \in ws : FairWrite(w, h.next, c) /\ Asked(h, w)

\* Numbers that are still to come have made nothing.
Numbers(c, next, low) == \A k \in DOMAIN c : k \in Int /\ k < next /\ -k <= low
Known(c) == FairBook(book, c) /\ FairHand(hand, c) /\ FairSends(hand, sends, c) /\ faults \in Nat
ItemsAre(c) == Known(c) /\ Numbers(c, hand.next, faults)
ItemsInv == \E c : ItemsAre(c)

Extends(c, e) == DOMAIN c \subseteq DOMAIN e /\ \A k \in DOMAIN c : e[k] = c[k]

-----------------------------------------------------------------------------
\* What a form makes is such a row, whatever method it ends with.
LEMMA BodyIs ==
  ASSUME NEW f, FairForm(f)
  PROVE  /\ DOMAIN FormToBody(f) = RowFields
         /\ FormToBody(f).direction = f.direction /\ FormToBody(f).amount = f.amount
         /\ FormToBody(f).bucket = (IF f.direction = "out" THEN f.bucket ELSE None)
         /\ FormToBody(f).auto = (f.direction = "out" /\ f.auto)
         /\ FormToBody(f).method = (IF f.direction = "out" THEN f.method ELSE None)
         /\ FormToBody(f).payer = (IF f.keep.mode = "own_share" THEN None ELSE f.payer)
         /\ FormToBody(f).active = f.active
         /\ FormToBody(f).mode = (IF f.direction = "out" THEN f.keep.mode ELSE "single")
         /\ FormToBody(f).shares = (IF f.direction # "out" THEN <<>> ELSE IF f.amount = None THEN f.keep.shares
                                    ELSE ScaleSplits(f.keep.shares, f.amount))
BY DEF FormToBody, RowFields

LEMMA NoShares == SharesOK(<<>>)
BY DEF SharesOK

LEMMA ScaledIs ==
  ASSUME NEW s, SharesOK(s), NEW total \in Nat \ {0}
  PROVE  /\ SharesOK(ScaleSplits(s, total))
         /\ ScaleSplits(s, total) = <<>> \/ SumShares(ScaleSplits(s, total)) = total
<1>1. CASE s = <<>> \/ SumShares(s) = total
  <2>1. ScaleSplits(s, total) = s
    BY <1>1 DEF ScaleSplits
  <2> QED BY <1>1, <2>1
<1>2. CASE ~(s = <<>> \/ SumShares(s) = total)
  BY <1>2, ScaledAddsUp DEF SharesOK
<1> QED BY <1>1, <1>2

LEMMA BodyIsFair == ASSUME NEW f, FairForm(f) PROVE FairRow(FormToBody(f))
<1> DEFINE b == FormToBody(f)
<1>1. SharesOK(b.shares) /\ (b.amount # None => b.shares = <<>> \/ SumShares(b.shares) = b.amount)
  <2>1. CASE f.direction # "out"
    BY <2>1, BodyIs, NoShares
  <2>2. CASE f.direction = "out" /\ f.amount = None
    BY <2>2, BodyIs DEF FairForm
  <2>3. CASE f.direction = "out" /\ f.amount # None
    <3>1. f.amount \in Nat \ {0} /\ SharesOK(f.keep.shares)
      BY <2>3 DEF FairForm
    <3>2. b.shares = ScaleSplits(f.keep.shares, f.amount) /\ b.amount = f.amount
      BY <2>3, BodyIs
    <3> HIDE DEF b
    <3> QED BY <3>1, <3>2, ScaledIs
  <2> QED BY <2>1, <2>2, <2>3
<1>2. DOMAIN b = RowFields /\ b.direction \in {"in", "out"} /\ b.amount \in (Nat \ {0}) \cup {None} /\ b.auto \in BOOLEAN
  BY BodyIs DEF FairForm
<1>3. b.direction = "in" => b.bucket = None /\ b.auto = FALSE /\ b.mode = "single" /\ b.shares = <<>>
  BY BodyIs
<1>4. (b.mode = "own_share" => b.payer = None) /\ (b.direction = "out" => b.method # None)
  BY BodyIs DEF FairForm
<1> HIDE DEF b
<1>5. FairRow(b)
  BY <1>1, <1>2, <1>3, <1>4 DEF FairRow
<1> QED BY <1>5 DEF b

LEMMA OtherMethod ==
  ASSUME NEW b, FairRow(b), NEW m, m # None, b.direction = "out" => m = b.method
  PROVE  LET row == [b EXCEPT !.method = m]
         IN FairRow(row) /\ row.method # None /\ Agree(b, row)
<1> DEFINE row == [b EXCEPT !.method = m]
<1>1. DOMAIN row = RowFields /\ (\A x \in RowFields \ {"method"} : row[x] = b[x]) /\ row.method = m
  BY DEF FairRow, RowFields
<1> HIDE DEF row
<1>2. /\ row.direction = b.direction /\ row.amount = b.amount /\ row.auto = b.auto /\ row.shares = b.shares
      /\ row.bucket = b.bucket /\ row.mode = b.mode /\ row.payer = b.payer
  BY <1>1 DEF RowFields
<1>3. FairRow(row)
  BY <1>1, <1>2 DEF FairRow
<1>4. Agree(b, row)
  BY <1>1 DEF Agree
<1> QED BY <1>1, <1>3, <1>4 DEF row

\* What the server stores and what the list shows of a body, whatever was stored.
LEMMA MadeIsFair ==
  ASSUME NEW b, FairRow(b)
  PROVE  /\ FairRow(Made(b)) /\ Made(b).method # None /\ Agree(b, Made(b))
         /\ FairRow(PendingItem(b)) /\ PendingItem(b).method # None /\ Agree(b, PendingItem(b))
         /\ \A row : row.method # None =>
               FairRow(Applied(row, b)) /\ Applied(row, b).method # None /\ Agree(b, Applied(row, b))
<1> DEFINE m == Or(b.method, DefaultMethod(b.direction))
<1>1. m # None /\ (b.direction = "out" => m = b.method)
  BY PlanItemAssumption DEF FairRow, Or, DefaultMethod
<1>2. Made(b) = [b EXCEPT !.method = m] /\ PendingItem(b) = [b EXCEPT !.method = m]
  BY DEF Made, PendingItem
<1> HIDE DEF m
<1>3. /\ FairRow(Made(b)) /\ Made(b).method # None /\ Agree(b, Made(b))
      /\ FairRow(PendingItem(b)) /\ PendingItem(b).method # None /\ Agree(b, PendingItem(b))
  BY <1>1, <1>2, OtherMethod
<1>4. ASSUME NEW row, row.method # None
      PROVE  FairRow(Applied(row, b)) /\ Applied(row, b).method # None /\ Agree(b, Applied(row, b))
  <2>1. CASE row.direction # b.direction
    BY <1>3, <2>1 DEF Applied
  <2>2. CASE row.direction = b.direction
    <3> DEFINE old == Or(b.method, row.method)
    <3>1. old # None /\ (b.direction = "out" => old = b.method)
      BY <1>4 DEF FairRow, Or
    <3>2. Applied(row, b) = [b EXCEPT !.method = old]
      BY <2>2 DEF Applied
    <3> HIDE DEF old
    <3> QED BY <3>1, <3>2, OtherMethod
  <2> QED BY <2>1, <2>2
<1> QED BY <1>3, <1>4

\* An edit that left the direction alone keeps what it did not touch.
LEMMA UntouchedIsKept ==
  ASSUME NEW c, NEW w, NEW next, FairWrite(w, next, c), w.kind = "update", w.form.direction = w.opened.row.direction
  PROVE  LET row == w.opened.row
             made == Applied(row, w.body)
         IN /\ \A f \in {"direction", "amount", "bucket", "auto", "method", "payer", "active"} :
                  w.form[f] = row[f] => made[f] = row[f]
            /\ made.mode = row.mode
            /\ w.form.amount = row.amount => made.shares = row.shares
<1> DEFINE row == w.opened.row
           b == w.body
           f == w.form
           made == Applied(row, b)
<1>1. FairForm(f) /\ b = FormToBody(f) /\ FairRow(row) /\ f.keep.mode = row.mode /\ f.keep.shares = row.shares /\ f.direction = row.direction
  BY DEF FairWrite, KeptOf, Copied
<1> HIDE DEF row, b, f
<1>2. FairRow(b) /\ b.direction = f.direction
  BY <1>1, BodyIsFair, BodyIs
<1>3. made = [b EXCEPT !.method = Or(@, row.method)]
  BY <1>1, <1>2 DEF Applied
<1>4. /\ made.direction = b.direction /\ made.amount = b.amount /\ made.bucket = b.bucket /\ made.auto = b.auto
      /\ made.payer = b.payer /\ made.active = b.active /\ made.mode = b.mode /\ made.shares = b.shares
      /\ made.method = Or(b.method, row.method)
  BY <1>2, <1>3 DEF FairRow, RowFields
<1> HIDE DEF made
<1>5. made.direction = row.direction
  BY <1>1, <1>2, <1>4
<1>6. f.amount = row.amount => made.amount = row.amount
  BY <1>1, <1>4, BodyIs
<1>7. f.bucket = row.bucket => made.bucket = row.bucket
  BY <1>1, <1>4, BodyIs DEF FairRow
<1>8. f.auto = row.auto => made.auto = row.auto
  BY <1>1, <1>4, BodyIs DEF FairRow
<1>9. f.method = row.method => made.method = row.method
  BY <1>1, <1>4, BodyIs DEF Or
<1>10. f.payer = row.payer => made.payer = row.payer
  BY <1>1, <1>4, BodyIs DEF FairRow
<1>11. f.active = row.active => made.active = row.active
  BY <1>1, <1>4, BodyIs
<1>12. made.mode = row.mode
  BY <1>1, <1>4, BodyIs DEF FairRow
<1>13. ASSUME f.amount = row.amount PROVE made.shares = row.shares
  <2>1. made.shares = b.shares /\ f.direction \in {"in", "out"}
    BY <1>1, <1>4 DEF FairRow
  <2>2. CASE f.direction = "in"
    BY <1>1, <2>1, <2>2, BodyIs DEF FairRow
  <2>3. CASE f.direction = "out" /\ f.amount = None
    BY <1>1, <2>1, <2>3, BodyIs
  <2>4. CASE f.direction = "out" /\ f.amount # None
    <3>1. b.shares = ScaleSplits(row.shares, row.amount)
      BY <1>1, <1>13, <2>4, BodyIs
    <3>2. row.shares = <<>> \/ SumShares(row.shares) = row.amount
      BY <1>1, <1>13, <2>4 DEF FairRow
    <3>3. ScaleSplits(row.shares, row.amount) = row.shares
      BY <3>2 DEF ScaleSplits
    <3> QED BY <2>1, <3>1, <3>3
  <2> QED BY <2>1, <2>2, <2>3, <2>4
<1>14. \A x \in {"direction", "amount", "bucket", "auto", "method", "payer", "active"} : f[x] = row[x] => made[x] = row[x]
  BY <1>5, <1>6, <1>7, <1>8, <1>9, <1>10, <1>11
<1> QED BY <1>12, <1>13, <1>14 DEF made, row, b, f

\* And so it does on the server, where the row is of the same number as the one the sheet opened.
LEMMA UntouchedOnServer ==
  ASSUME NEW c, NEW w, NEW next, FairWrite(w, next, c), w.kind = "update", w.form.direction = w.opened.row.direction,
         NEW x, Copied(x, c), x.rev = w.opened.rev
  PROVE  LET made == Applied(x.row, w.body)
         IN /\ \A f \in {"direction", "amount", "bucket", "auto", "method", "payer", "active"} :
                  w.form[f] = w.opened.row[f] => made[f] = x.row[f]
            /\ made.mode = x.row.mode
            /\ w.form.amount = w.opened.row.amount => made.shares = x.row.shares
<1> DEFINE row == x.row
           read == w.opened.row
           b == w.body
           f == w.form
           made == Applied(row, b)
           first == Applied(read, b)
           Fields == {"direction", "amount", "bucket", "auto", "payer", "active", "mode", "shares"}
<1>1. FairForm(f) /\ b = FormToBody(f) /\ Copied(w.opened, c)
  BY DEF FairWrite
<1>2. \A field \in Fields : row[field] = read[field]
  BY <1>1 DEF Copied, Agree, RowFields
<1>3. row.direction = "out" => row.method = read.method
  BY <1>1 DEF Copied, Agree, RowFields
<1>4. FairRow(b) /\ row.method # None /\ read.method # None
  BY <1>1, BodyIsFair DEF Copied
<1>5. Agree(b, made) /\ Agree(b, first)
  BY <1>4, MadeIsFair
<1>6. \A field \in Fields : made[field] = first[field]
  BY <1>5 DEF Agree, RowFields
<1>7. /\ \A field \in {"direction", "amount", "bucket", "auto", "method", "payer", "active"} :
             f[field] = read[field] => first[field] = read[field]
      /\ first.mode = read.mode
      /\ f.amount = read.amount => first.shares = read.shares
  BY UntouchedIsKept
<1>8. ASSUME f.method = read.method PROVE made.method = row.method
  <2>1. b.direction = f.direction /\ b.method = (IF f.direction = "out" THEN f.method ELSE None)
    BY <1>1, BodyIs
  <2>2. f.direction = read.direction /\ read.direction = row.direction
    BY <1>2
  <2>3. made = [b EXCEPT !.method = Or(@, row.method)] /\ DOMAIN b = RowFields
    BY <1>4, <2>1, <2>2 DEF Applied, FairRow
  <2>4. made.method = Or(b.method, row.method)
    BY <2>3 DEF RowFields
  <2> HIDE DEF made, b, f, row, read
  <2> QED BY <1>3, <1>8, <2>1, <2>2, <2>4 DEF Or
<1> HIDE DEF made, first, row, read, b, f
<1>9. \A field \in {"direction", "amount", "bucket", "auto", "method", "payer", "active"} :
          f[field] = read[field] => made[field] = row[field]
  BY <1>2, <1>6, <1>7, <1>8
<1>10. made.mode = row.mode /\ (f.amount = read.amount => made.shares = row.shares)
  BY <1>2, <1>6, <1>7
<1> QED BY <1>9, <1>10 DEF made, row, read, f, b

\* More numbers change nothing of what is known.
LEMMA ExtendedWrite == ASSUME NEW c, NEW e, Extends(c, e), NEW w, NEW n, FairWrite(w, n, c) PROVE FairWrite(w, n, e)
BY DEF FairWrite, FairList, Copied, Extends

LEMMA ExtendedHand ==
  ASSUME NEW c, NEW e, Extends(c, e), Known(c)
  PROVE  Known(e)
<1>1. FairBook(book, e)
  BY DEF Known, FairBook, Copied, Extends
<1>2. /\ hand.list # None => FairList(hand.list, e)
      /\ hand.sheet # None => FairSheet(hand.sheet, hand.next, e) /\ FairList(hand.list, e)
  BY DEF Known, FairHand, FairSheet, FairList, Copied, Extends
<1>3. FairHand(hand, e)
  BY <1>2, ExtendedWrite DEF Known, FairHand
<1>4. FairSends(hand, sends, e)
  BY ExtendedWrite DEF Known, FairSends
<1> QED BY <1>1, <1>3, <1>4 DEF Known

-----------------------------------------------------------------------------
LEMMA LaterWrite == ASSUME NEW c, NEW n \in Nat, NEW k \in Nat, n <= k, NEW w, FairWrite(w, n, c) PROVE FairWrite(w, k, c)
BY DEF FairWrite

LEMMA LaterSheet == ASSUME NEW c, NEW n \in Nat, NEW k \in Nat, n <= k, NEW s, FairSheet(s, n, c) PROVE FairSheet(s, k, c)
BY DEF FairSheet

LEMMA HandIs ==
  ASSUME NEW c, NEW h, FairHand(h, c)
  PROVE  /\ DOMAIN h = HandFields /\ h.next \in Nat /\ IsList(h.queue)
         /\ \A i \in 1 .. Len(h.queue) : FairWrite(h.queue[i], h.next, c)
         /\ (h.list # None => FairList(h.list, c)) /\ (h.sheet # None => FairSheet(h.sheet, h.next, c) /\ FairList(h.list, c))
BY DEF FairHand

\* A write that is added to the queue, and the first that leaves it.
LEMMA QueueGrows ==
  ASSUME NEW c, NEW q, NEW n, IsList(q), \A i \in 1 .. Len(q) : FairWrite(q[i], n, c), NEW w, FairWrite(w, n, c)
  PROVE  IsList(Append(q, w)) /\ \A i \in 1 .. Len(Append(q, w)) : FairWrite(Append(q, w)[i], n, c)
<1>1. /\ IsList(Append(q, w)) /\ Len(Append(q, w)) = Len(q) + 1 /\ Len(q) \in Nat
      /\ (\A i \in 1 .. Len(q) : Append(q, w)[i] = q[i]) /\ Append(q, w)[Len(q) + 1] = w
  BY AppendIs, ListIs
<1> DEFINE p == Append(q, w)
<1> HIDE DEF p
<1>2. ASSUME NEW i \in 1 .. Len(p) PROVE FairWrite(p[i], n, c)
  <2>1. i \in 1 .. Len(q) \/ i = Len(q) + 1
    BY <1>1 DEF p
  <2>2. (p[i] = q[i] /\ i \in 1 .. Len(q)) \/ p[i] = w
    BY <1>1, <2>1 DEF p
  <2> QED BY <2>2
<1> QED BY <1>1, <1>2 DEF p

LEMMA QueueShrinks ==
  ASSUME NEW c, NEW q, NEW n, IsList(q), q # <<>>, \A i \in 1 .. Len(q) : FairWrite(q[i], n, c)
  PROVE  IsList(Tail(q)) /\ (\A i \in 1 .. Len(Tail(q)) : FairWrite(Tail(q)[i], n, c)) /\ FairWrite(Head(q), n, c)
<1>1. /\ IsList(Tail(q)) /\ Len(Tail(q)) = Len(q) - 1 /\ Len(q) \in Nat /\ Len(q) >= 1
      /\ Head(q) = q[1] /\ \A i \in 1 .. Len(q) - 1 : Tail(q)[i] = q[i + 1]
  BY TailIs
<1>2. FairWrite(Head(q), n, c)
  BY <1>1
<1>3. ASSUME NEW i \in 1 .. Len(Tail(q)) PROVE FairWrite(Tail(q)[i], n, c)
  <2>1. i \in 1 .. Len(q) - 1 /\ i + 1 \in 1 .. Len(q)
    BY <1>1
  <2>2. Tail(q)[i] = q[i + 1]
    BY <1>1, <2>1
  <2> QED BY <2>1, <2>2
<1> QED BY <1>1, <1>2, <1>3

\* The server after a write, and what a member's list shows of it.
LEMMA ServedIsFair ==
  ASSUME NEW c, NEW items, FairBook(items, c), NEW w, NEW n, FairWrite(w, n, c)
  PROVE  FairBook(ItemServed(items, w), c)
<1>1. CASE ~Takes(items, w)
  BY <1>1 DEF ItemServed
<1>2. CASE Takes(items, w)
  <2> DEFINE out == Result(items, w)
  <2>1. ItemServed(items, w) = out
    BY <1>2 DEF ItemServed
  <2>2. /\ w.kind \in {"create", "update", "delete"}
        /\ w.kind # "delete" => FairRow(w.body) /\ w.n \in DOMAIN c /\ c[w.n] = w.body
    BY BodyIsFair DEF FairWrite
  <2>3. CASE w.kind = "create"
    <3> DEFINE id == NewId(items)
               new == [row |-> Made(w.body), paid |-> FALSE, press |-> IF w.online THEN w.n ELSE None, rev |-> w.n]
    <3>1. out = [x \in DOMAIN items \cup {id} |-> IF x = id THEN new ELSE items[x]]
      BY <2>3 DEF Result
    <3>2. DOMAIN new = {"row", "paid", "press", "rev"} /\ Copied(new, c)
      BY <2>2, <2>3, MadeIsFair DEF Copied
    <3> HIDE DEF out, id, new
    <3>3. FairBook(out, c)
      BY <3>1, <3>2 DEF FairBook
    <3> QED BY <2>1, <3>3
  <2>4. CASE w.kind = "update"
    <3>1. w.id \in DOMAIN items
      BY <1>2, <2>4 DEF Takes
    <3> DEFINE old == items[w.id]
               new == [old EXCEPT !.row = Applied(old.row, w.body), !.rev = w.n]
    <3>2. out = [items EXCEPT ![w.id] = new]
      BY <2>4 DEF Result
    <3>3. DOMAIN new = {"row", "paid", "press", "rev"} /\ new.row = Applied(old.row, w.body) /\ new.rev = w.n /\ old.row.method # None
      BY <3>1 DEF FairBook, Copied
    <3>4. Copied(new, c)
      BY <2>2, <2>4, <3>3, MadeIsFair DEF Copied
    <3> HIDE DEF out, old, new
    <3>5. FairBook(out, c)
      BY <3>1, <3>2, <3>3, <3>4 DEF FairBook
    <3> QED BY <2>1, <3>5
  <2>5. CASE w.kind = "delete"
    <3>1. out = [x \in DOMAIN items \ {w.id} |-> items[x]]
      BY <2>5 DEF Result
    <3> HIDE DEF out
    <3>2. FairBook(out, c)
      BY <3>1 DEF FairBook
    <3> QED BY <2>1, <3>2
  <2> QED BY <2>2, <2>3, <2>4, <2>5
<1> QED BY <1>1, <1>2

LEMMA EditedIsFair ==
  ASSUME NEW c, NEW list, FairList(list, c), NEW w, NEW n, FairWrite(w, n, c)
  PROVE  FairList(Edited(list, w), c)
<1> DEFINE out == Edited(list, w)
<1>1. /\ w.kind \in {"create", "update", "delete"}
      /\ w.kind # "delete" => /\ FairRow(PendingItem(w.body)) /\ PendingItem(w.body).method # None
                              /\ w.n \in DOMAIN c /\ Agree(c[w.n], PendingItem(w.body))
  BY BodyIsFair, MadeIsFair DEF FairWrite
<1>2. CASE w.kind = "create"
  <2> DEFINE new == [row |-> PendingItem(w.body), paid |-> FALSE, rev |-> w.n]
             id == -w.n
  <2>1. out = [x \in DOMAIN list \cup {id} |-> IF x = id THEN new ELSE list[x]]
    BY <1>2 DEF Edited
  <2>2. DOMAIN new = {"row", "paid", "rev"} /\ Copied(new, c)
    BY <1>1, <1>2 DEF Copied
  <2> HIDE DEF out, new, id
  <2>3. FairList(out, c)
    BY <2>1, <2>2 DEF FairList
  <2> QED BY <2>3 DEF out
<1>3. CASE w.kind = "update"
  <2> DEFINE body == PendingItem(w.body)
  <2>1. out = [x \in DOMAIN list |-> IF x = w.id THEN [list[x] EXCEPT !.row = body, !.rev = w.n] ELSE list[x]]
    BY <1>3 DEF Edited
  <2>2. FairRow(body) /\ body.method # None /\ w.n \in DOMAIN c /\ Agree(c[w.n], body)
    BY <1>1, <1>3
  <2> HIDE DEF out, body
  <2>3. DOMAIN out = DOMAIN list
    BY <2>1
  <2>4. ASSUME NEW x \in DOMAIN list PROVE DOMAIN out[x] = {"row", "paid", "rev"} /\ Copied(out[x], c)
    <3>1. DOMAIN list[x] = {"row", "paid", "rev"} /\ Copied(list[x], c)
      BY DEF FairList
    <3>2. CASE x = w.id
      <4>1. out[x] = [list[x] EXCEPT !.row = body, !.rev = w.n]
        BY <2>1, <3>2
      <4>2. DOMAIN out[x] = {"row", "paid", "rev"} /\ out[x].row = body /\ out[x].rev = w.n
        BY <3>1, <4>1
      <4> QED BY <2>2, <4>2 DEF Copied
    <3>3. CASE x # w.id
      BY <2>1, <3>1, <3>3
    <3> QED BY <3>2, <3>3
  <2>5. FairList(out, c)
    BY <2>3, <2>4 DEF FairList
  <2> QED BY <2>5 DEF out
<1>4. CASE w.kind = "delete"
  <2>1. out = [x \in DOMAIN list \ {w.id} |-> list[x]]
    BY <1>4 DEF Edited
  <2> HIDE DEF out
  <2>2. FairList(out, c)
    BY <2>1 DEF FairList
  <2> QED BY <2>2 DEF out
<1> QED BY <1>1, <1>2, <1>3, <1>4

LEMMA RowsAreFair == ASSUME NEW c, NEW items, FairBook(items, c) PROVE FairList(Rows(items), c)
BY DEF Rows, FairBook, FairList, Copied

LEMMA SendsStay ==
  ASSUME NEW c, NEW h, NEW k, NEW ws, FairSends(h, ws, c), h.next \in Nat, k.next \in Nat, h.next <= k.next,
         k.sheet = None \/ (h.sheet # None /\ k.sheet.n = h.sheet.n /\ k.sheet.id = h.sheet.id) \/ k.sheet.n = h.next
  PROVE  FairSends(k, ws, c)
<1> SUFFICES ASSUME NEW w \in ws PROVE FairWrite(w, k.next, c) /\ Asked(k, w)
  BY DEF FairSends
<1>1. FairWrite(w, h.next, c) /\ Asked(h, w)
  BY DEF FairSends
<1>2. FairWrite(w, k.next, c)
  BY <1>1, LaterWrite
<1>3. w.sheet \in Nat /\ w.sheet < h.next
  BY <1>1 DEF FairWrite
<1>4. Asked(k, w)
  BY <1>1, <1>3 DEF Asked
<1> QED BY <1>2, <1>4

\* A step on the phone that sends nothing and whose sheet is the one there was, none or a new one.
LEMMA HandStep ==
  ASSUME NEW c, Known(c), faults' \in Nat, UNCHANGED <<book, sends>>, FairHand(hand', c), hand.next <= hand'.next,
         \/ hand'.sheet = None
         \/ hand.sheet # None /\ hand'.sheet.n = hand.sheet.n /\ hand'.sheet.id = hand.sheet.id
         \/ hand'.sheet.n = hand.next
  PROVE  Known(c)' /\ hand.next <= hand'.next
<1> DEFINE h == hand
           k == hand'
<1>1. FairSends(h, sends, c) /\ h.next \in Nat /\ k.next \in Nat /\ h.next <= k.next
  BY HandIs DEF Known
<1>2. k.sheet = None \/ (h.sheet # None /\ k.sheet.n = h.sheet.n /\ k.sheet.id = h.sheet.id) \/ k.sheet.n = h.next
  OBVIOUS
<1> HIDE DEF h, k
<1>3. FairSends(k, sends, c)
  BY <1>1, <1>2, SendsStay
<1> QED BY <1>3 DEF Known, k

LEMMA ListStep ==
  ASSUME NEW c, Known(c), faults' \in Nat, ReadList \/ ReadFails \/ CloseSheet \/ Disconnect \/ Reconnect
  PROVE  Known(c)' /\ hand.next <= hand'.next
<1>1. FairHand(hand, c) /\ FairBook(book, c) /\ UNCHANGED <<book, sends>>
  BY DEF Known, ReadList, ReadFails, CloseSheet, Disconnect, Reconnect, Shifts
<1>2. /\ DOMAIN hand' = HandFields /\ hand'.next = hand.next /\ hand'.queue = hand.queue
      /\ hand'.list = hand.list \/ hand'.list = Rows(book)
      /\ hand'.sheet = hand.sheet \/ hand'.sheet = None
  BY <1>1, HandIs DEF ReadList, ReadFails, CloseSheet, Disconnect, Reconnect, Shifts, HandFields
<1>3. FairList(Rows(book), c)
  BY <1>1, RowsAreFair
<1>4. FairHand(hand', c)
  BY <1>1, <1>2, <1>3, HandIs DEF FairHand
<1>5. hand.next <= hand'.next
  BY <1>1, <1>2, HandIs
<1> QED BY <1>1, <1>2, <1>4, <1>5, HandStep

LEMMA OpenStep ==
  ASSUME NEW c, Known(c), faults' \in Nat, NEW sheet, OpenSheet(sheet),
         DOMAIN sheet = SheetFields, sheet.n = hand.next, FairForm(sheet.form), sheet.blocked = FALSE,
         sheet.id # None => Copied(sheet.item, c) /\ KeptOf(sheet.item.row, sheet.form)
  PROVE  Known(c)' /\ hand.next <= hand'.next
<1>1. FairHand(hand, c) /\ UNCHANGED <<book, sends>> /\ FairList(hand.list, c)
  BY HandIs DEF Known, OpenSheet
<1>2. /\ DOMAIN hand' = HandFields /\ hand'.next = hand.next + 1 /\ hand'.queue = hand.queue
      /\ hand'.list = hand.list /\ hand'.sheet = sheet
  BY <1>1, HandIs DEF OpenSheet, HandFields
<1>3. hand.next \in Nat /\ hand'.next \in Nat /\ hand.next <= hand'.next
  BY <1>1, <1>2, HandIs
<1>4. FairSheet(sheet, hand'.next, c)
  BY <1>2, <1>3 DEF FairSheet
<1>5. \A i \in 1 .. Len(hand.queue) : FairWrite(hand.queue[i], hand'.next, c)
  BY <1>1, <1>3, HandIs, LaterWrite
<1>6. FairHand(hand', c)
  BY <1>1, <1>2, <1>3, <1>4, <1>5, HandIs DEF FairHand
<1> QED BY <1>1, <1>2, <1>3, <1>6, HandStep

LEMMA FormIsFair == ASSUME NEW row, FairRow(row), row.method # None PROVE FairForm(ItemToForm(row)) /\ KeptOf(row, ItemToForm(row))
BY DEF FairRow, FairForm, KeptOf, ItemToForm, FormFields

LEMMA SheetsStep == ASSUME NEW c, Known(c), faults' \in Nat, NewItem \/ EditItem PROVE Known(c)' /\ hand.next <= hand'.next
<1>1. CASE NewItem
  <2> DEFINE sheet == SheetOf(None, None, EmptyForm)
  <2>1. OpenSheet(sheet) /\ DOMAIN sheet = SheetFields /\ sheet.n = hand.next /\ sheet.form = EmptyForm /\ sheet.blocked = FALSE /\ sheet.id = None
    BY <1>1 DEF NewItem, SheetOf, SheetFields
  <2>2. FairForm(EmptyForm)
    BY NoShares, PlanItemAssumption DEF FairForm, EmptyForm, FormFields
  <2> HIDE DEF sheet
  <2> QED BY <2>1, <2>2, OpenStep
<1>2. CASE EditItem
  <2>1. PICK id \in DOMAIN Or(hand.list, <<>>) \cap Nat : OpenSheet(SheetOf(id, hand.list[id], ItemToForm(hand.list[id].row)))
    BY <1>2 DEF EditItem
  <2>2. hand.list # None /\ FairList(hand.list, c) /\ id \in DOMAIN hand.list
    BY <2>1, HandIs DEF OpenSheet, Known, Or
  <2>3. Copied(hand.list[id], c) /\ FairRow(hand.list[id].row) /\ hand.list[id].row.method # None
    BY <2>2 DEF FairList, Copied
  <2> DEFINE sheet == SheetOf(id, hand.list[id], ItemToForm(hand.list[id].row))
  <2>4. /\ OpenSheet(sheet) /\ DOMAIN sheet = SheetFields /\ sheet.n = hand.next /\ sheet.blocked = FALSE
        /\ sheet.form = ItemToForm(hand.list[id].row) /\ sheet.item = hand.list[id]
    BY <2>1 DEF SheetOf, SheetFields
  <2> HIDE DEF sheet
  <2> QED BY <2>3, <2>4, FormIsFair, OpenStep
<1> QED BY <1>1, <1>2

LEMMA FillStep ==
  ASSUME NEW c, Known(c), faults' \in Nat, NEW field, NEW value, Fill(field, value),
         \/ field = "direction" /\ value \in {"in", "out"}
         \/ field = "amount" /\ value \in (Nat \ {0}) \cup {None}
         \/ field = "bucket"
  PROVE  Known(c)' /\ hand.next <= hand'.next
<1> DEFINE old == hand.sheet
           form == old.form
           new == hand'.sheet
<1>1. FairHand(hand, c) /\ UNCHANGED <<book, sends>> /\ old # None /\ FairSheet(old, hand.next, c) /\ FairList(hand.list, c)
  BY HandIs DEF Known, Fill, Shown, Shifts
<1>2. hand' = [hand EXCEPT !.sheet.form[field] = value]
  BY DEF Fill, Shifts
<1>3. /\ DOMAIN hand' = HandFields /\ hand'.next = hand.next /\ hand'.queue = hand.queue /\ hand'.list = hand.list
      /\ new = [old EXCEPT !.form[field] = value]
  BY <1>1, <1>2, HandIs DEF HandFields
<1>4. DOMAIN old = SheetFields /\ FairForm(form)
  BY <1>1 DEF FairSheet
<1>5. /\ DOMAIN new = SheetFields /\ new.n = old.n /\ new.id = old.id /\ new.item = old.item /\ new.blocked = old.blocked
      /\ new.form = [form EXCEPT ![field] = value]
  BY <1>3, <1>4 DEF SheetFields
<1>6. DOMAIN form = FormFields
  BY <1>4 DEF FairForm
<1>7. /\ DOMAIN new.form = FormFields /\ new.form.keep = form.keep /\ new.form.auto = form.auto
      /\ new.form.method = form.method
      /\ new.form.direction = (IF field = "direction" THEN value ELSE form.direction)
      /\ new.form.amount = (IF field = "amount" THEN value ELSE form.amount)
  BY <1>5, <1>6 DEF FormFields
<1> HIDE DEF old, new, form
<1>8. FairForm(new.form)
  BY <1>4, <1>7 DEF FairForm
<1>9. old.form.keep = new.form.keep
  BY <1>7 DEF form
<1>10. FairSheet(new, hand.next, c)
  BY <1>1, <1>5, <1>8, <1>9 DEF FairSheet, KeptOf
<1>11. FairHand(hand', c)
  BY <1>1, <1>3, <1>10, HandIs DEF FairHand, new
<1>12. hand.next <= hand'.next
  BY <1>1, <1>3, HandIs
<1> QED BY <1>1, <1>5, <1>11, <1>12, HandStep DEF old, new

\* A write takes a fresh number; what it makes of the row is its body.
LEMMA PressStep ==
  ASSUME NEW c, Known(c), faults' \in Nat, NEW w, PerformItem(w), FairWrite(w, hand.next, c), w.sheet = hand.sheet.n,
         w.kind = "delete" => hand.sheet.id # None
  PROVE  Known(c)' /\ hand'.next = hand.next + 1
<1> DEFINE old == hand.sheet
           p == [hand EXCEPT !.list = Edited(@, w), !.asked = FALSE, !.next = @ + 1]
<1>1. FairHand(hand, c) /\ FairSends(hand, sends, c) /\ old # None /\ FairSheet(old, hand.next, c) /\ FairList(hand.list, c) /\ book' = book
  BY HandIs DEF Known, PerformItem, Shown
<1>2. DOMAIN p = HandFields /\ p.next = hand.next + 1 /\ p.queue = hand.queue /\ p.list = Edited(hand.list, w) /\ p.sheet = old
  BY <1>1, HandIs DEF HandFields
<1>3. hand.next \in Nat /\ p.next \in Nat /\ hand.next <= p.next
  BY <1>1, <1>2, HandIs
<1>4. FairList(p.list, c)
  BY <1>1, <1>2, EditedIsFair
<1>5. FairSheet(old, p.next, c) /\ FairWrite(w, p.next, c)
  BY <1>1, <1>3, LaterSheet, LaterWrite
<1>6. IsList(p.queue) /\ \A i \in 1 .. Len(p.queue) : FairWrite(p.queue[i], p.next, c)
  BY <1>1, <1>2, <1>3, HandIs, LaterWrite
<1>7. CASE hand.online
  <2>1. sends' = sends \cup {w} /\ hand' = [p EXCEPT !.sheet.busy = TRUE, !.sheet.problem = FALSE]
    BY <1>7 DEF PerformItem
  <2> HIDE DEF p
  <2>2. /\ DOMAIN hand' = HandFields /\ hand'.next = p.next /\ hand'.queue = p.queue /\ hand'.list = p.list
        /\ hand'.sheet = [old EXCEPT !.busy = TRUE, !.problem = FALSE]
    BY <1>2, <2>1 DEF HandFields
  <2>3. DOMAIN old = SheetFields
    BY <1>1 DEF FairSheet
  <2> DEFINE new == hand'.sheet
  <2>4. /\ DOMAIN new = SheetFields /\ new.n = old.n /\ new.id = old.id /\ new.item = old.item /\ new.form = old.form
        /\ new.blocked = old.blocked
    BY <2>2, <2>3 DEF SheetFields
  <2> HIDE DEF old, new
  <2>5. FairSheet(new, p.next, c)
    BY <1>5, <2>4 DEF FairSheet
  <2>6. FairHand(hand', c)
    BY <1>3, <1>4, <1>6, <2>2, <2>5 DEF FairHand, new
  <2> DEFINE k == hand'
             h == hand
  <2>7. FairSends(h, sends, c) /\ h.next \in Nat /\ k.next \in Nat /\ h.next <= k.next
        /\ h.sheet # None /\ k.sheet.n = h.sheet.n /\ k.sheet.id = h.sheet.id
    BY <1>1, <1>3, <2>2, <2>4 DEF old, new
  <2> HIDE DEF k, h
  <2>8. FairSends(k, sends, c)
    BY <2>7, SendsStay
  <2>9. FairWrite(w, k.next, c) /\ Asked(k, w)
    <3>1. FairWrite(w, k.next, c)
      BY <1>5, <2>2 DEF k
    <3>2. w.kind = "delete" => k.sheet.id # None
      BY <2>7 DEF h
    <3> QED BY <3>1, <3>2 DEF Asked
  <2>10. FairSends(hand', sends', c)
    BY <2>1, <2>8, <2>9 DEF FairSends, k
  <2> QED BY <1>1, <1>2, <2>2, <2>6, <2>10 DEF Known
<1>8. CASE ~hand.online
  <2>1. UNCHANGED sends /\ hand' = [p EXCEPT !.queue = Append(@, w), !.sheet = None]
    BY <1>8 DEF PerformItem
  <2> HIDE DEF p
  <2>2. /\ DOMAIN hand' = HandFields /\ hand'.next = p.next /\ hand'.queue = Append(p.queue, w) /\ hand'.list = p.list
        /\ hand'.sheet = None
    BY <1>2, <2>1 DEF HandFields
  <2>3. FairHand(hand', c)
    BY <1>3, <1>4, <1>5, <1>6, <2>2, QueueGrows DEF FairHand
  <2>4. hand.next <= hand'.next
    BY <1>3, <2>2
  <2>5. UNCHANGED <<book, sends>>
    BY <1>1, <2>1
  <2> QED BY <1>2, <2>2, <2>3, <2>4, <2>5, HandStep
<1> QED BY <1>7, <1>8

WriteOf(w, kind, body, f) == w = [ItemWrite(kind, body) EXCEPT !.form = f]
LEMMA WriteIsFair ==
  ASSUME NEW c, Known(c), hand.sheet # None, NEW kind \in {"create", "update", "delete"}, NEW f, NEW body,
         kind # "delete" => FairForm(f) /\ body = FormToBody(f) /\ hand.next \in DOMAIN c /\ c[hand.next] = body,
         kind = "update" => hand.sheet.id # None /\ KeptOf(hand.sheet.item.row, f),
         NEW w, WriteOf(w, kind, body, f)
  PROVE  FairWrite(w, hand.next, c) /\ w.sheet = hand.sheet.n /\ w.kind = kind
<1>1. /\ DOMAIN w = WriteFields /\ w.sheet = hand.sheet.n /\ w.kind = kind /\ w.body = body /\ w.form = f
      /\ w.opened = hand.sheet.item /\ w.snap = hand.list /\ w.n = hand.next
  BY DEF ItemWrite, WriteFields, WriteOf
<1>2. FairSheet(hand.sheet, hand.next, c) /\ FairList(hand.list, c)
  BY HandIs DEF Known
<1>3. hand.sheet.n \in Nat /\ hand.sheet.n < hand.next /\ (hand.sheet.id # None => Copied(hand.sheet.item, c))
  BY <1>2 DEF FairSheet
<1> QED BY <1>1, <1>2, <1>3 DEF FairWrite

\* Any body can be what the next number makes.
LEMMA NextNumber ==
  ASSUME NEW c, ItemsAre(c), NEW body
  PROVE  \E e : /\ Known(e) /\ hand.next \in DOMAIN e /\ e[hand.next] = body
                /\ \A k \in DOMAIN e : k \in Int /\ k <= hand.next /\ -k <= faults
<1> DEFINE e == [k \in DOMAIN c \cup {hand.next} |-> IF k = hand.next THEN body ELSE c[k]]
<1>1. hand.next \in Nat /\ faults \in Nat /\ Known(c) /\ Numbers(c, hand.next, faults)
  BY HandIs DEF ItemsAre, Known
<1>2. DOMAIN e = DOMAIN c \cup {hand.next} /\ e[hand.next] = body /\ \A k \in DOMAIN c : e[k] = c[k]
  BY <1>1 DEF Numbers
<1> HIDE DEF e
<1>3. Extends(c, e)
  BY <1>2 DEF Extends
<1>4. Known(e)
  BY <1>1, <1>3, ExtendedHand
<1>5. \A k \in DOMAIN e : k \in Int /\ k <= hand.next /\ -k <= faults
  BY <1>1, <1>2 DEF Numbers
<1> QED BY <1>2, <1>4, <1>5

\* Saving, pausing instead and deleting.
LEMMA WritesStep ==
  ASSUME NEW c, ItemsAre(c), faults' = faults, Save \/ Delete \/ Pause
  PROVE  ItemsInv'
<1>0. Known(c) /\ faults \in Nat /\ faults' \in Nat
  BY DEF ItemsAre, Known
<1>1. hand.sheet # None /\ FairSheet(hand.sheet, hand.next, c) /\ hand.next \in Nat
  BY <1>0, HandIs DEF Known, Save, Delete, Pause, Shown
<1>2. /\ FairForm(hand.sheet.form)
      /\ hand.sheet.id # None => Copied(hand.sheet.item, c) /\ KeptOf(hand.sheet.item.row, hand.sheet.form)
  BY <1>1 DEF FairSheet
<1>form. \A kind, body : ItemWrite(kind, body) = [ItemWrite(kind, body) EXCEPT !.form = hand.sheet.form]
  BY DEF ItemWrite
<1>ends. ASSUME NEW e, Known(e), \A k \in DOMAIN e : k \in Int /\ k <= hand.next /\ -k <= faults,
                NEW w, PerformItem(w), FairWrite(w, hand.next, e), w.sheet = hand.sheet.n, w.kind = "delete" => hand.sheet.id # None
         PROVE  ItemsInv'
  <2>1. Known(e)' /\ hand'.next = hand.next + 1
    BY <1>0, <1>ends, PressStep
  <2>2. Numbers(e, hand'.next, faults')
    BY <1>0, <1>1, <1>ends, <2>1 DEF Numbers
  <2> QED BY <2>1, <2>2 DEF ItemsInv, ItemsAre
<1>3. CASE Save
  <2> DEFINE kind == IF hand.sheet.id = None THEN "create" ELSE "update"
             f == hand.sheet.form
             body == FormToBody(f)
             w == [ItemWrite(kind, body) EXCEPT !.form = f]
  <2>1. PerformItem(w)
    BY <1>3, <1>form DEF Save
  <2>2. PICK e : /\ Known(e) /\ hand.next \in DOMAIN e /\ e[hand.next] = body
                 /\ \A k \in DOMAIN e : k \in Int /\ k <= hand.next /\ -k <= faults
    BY NextNumber
  <2>w. /\ w = [ItemWrite(kind, body) EXCEPT !.form = f] /\ FairForm(f) /\ body = FormToBody(f)
        /\ hand.sheet.id # None => KeptOf(hand.sheet.item.row, f)
        /\ kind = "create" \/ (kind = "update" /\ hand.sheet.id # None)
    BY <1>2
  <2> HIDE DEF kind, w, f, body
  <2>3. ASSUME kind = "create" PROVE FairWrite(w, hand.next, e) /\ w.sheet = hand.sheet.n /\ w.kind = "create"
    <3> DEFINE v == [ItemWrite("create", body) EXCEPT !.form = f]
    <3>0. WriteOf(v, "create", body, f)
      BY DEF WriteOf
    <3>v. v = [ItemWrite("create", body) EXCEPT !.form = f]
      OBVIOUS
    <3> HIDE DEF v
    <3>1. FairWrite(v, hand.next, e) /\ v.sheet = hand.sheet.n /\ v.kind = "create"
      <4>1. /\ hand.sheet # None /\ Known(e)
            /\ FairForm(f) /\ body = FormToBody(f) /\ hand.next \in DOMAIN e /\ e[hand.next] = body
        BY <1>1, <2>2, <2>w
      <4> QED BY <4>1, <3>0, WriteIsFair
    <3> QED BY <2>w, <2>3, <3>v, <3>1
  <2>4. ASSUME kind = "update" PROVE FairWrite(w, hand.next, e) /\ w.sheet = hand.sheet.n /\ w.kind = "update"
    <3> DEFINE v == [ItemWrite("update", body) EXCEPT !.form = f]
    <3>0. WriteOf(v, "update", body, f)
      BY DEF WriteOf
    <3>v. v = [ItemWrite("update", body) EXCEPT !.form = f]
      OBVIOUS
    <3> HIDE DEF v
    <3>1. hand.sheet.id # None
      BY <2>4, <2>w
    <3>2. FairWrite(v, hand.next, e) /\ v.sheet = hand.sheet.n /\ v.kind = "update"
      <4>1. /\ hand.sheet # None /\ Known(e)
            /\ FairForm(f) /\ body = FormToBody(f) /\ hand.next \in DOMAIN e /\ e[hand.next] = body
            /\ hand.sheet.id # None /\ KeptOf(hand.sheet.item.row, f)
        BY <1>1, <2>2, <2>w, <3>1
      <4> QED BY <4>1, <3>0, WriteIsFair
    <3> QED BY <2>w, <2>4, <3>v, <3>2
  <2> QED BY <2>1, <2>2, <2>w, <2>3, <2>4, <1>ends
<1>4. CASE Delete
  <2> DEFINE f == hand.sheet.form
             w == [ItemWrite("delete", None) EXCEPT !.form = f]
  <2>1. PerformItem(w) /\ hand.sheet.id # None
    BY <1>4, <1>form DEF Delete
  <2>w. w = [ItemWrite("delete", None) EXCEPT !.form = f]
    OBVIOUS
  <2> HIDE DEF w, f
  <2>2. PICK e : Known(e) /\ \A k \in DOMAIN e : k \in Int /\ k <= hand.next /\ -k <= faults
    BY NextNumber
  <2>3. FairWrite(w, hand.next, e) /\ w.sheet = hand.sheet.n /\ w.kind = "delete"
    BY <1>1, <2>2, <2>w, WriteIsFair DEF WriteOf
  <2> QED BY <2>1, <2>2, <2>3, <1>ends
<1>5. CASE Pause
  <2> DEFINE row == hand.sheet.item.row
             f == [ItemToForm(row) EXCEPT !.active = FALSE]
             body == FormToBody(f)
             w == [ItemWrite("update", body) EXCEPT !.form = f]
  <2>1. PerformItem(w) /\ hand.sheet.blocked
    BY <1>5 DEF Pause
  <2>2. hand.sheet.id # None /\ FairRow(row) /\ row.method # None
    BY <1>1, <1>2, <2>1 DEF FairSheet, Copied
  <2>3. FairForm(f) /\ KeptOf(row, f)
    BY <2>2, FormIsFair DEF FairForm, KeptOf, FormFields
  <2>w. w = [ItemWrite("update", body) EXCEPT !.form = f] /\ body = FormToBody(f)
    OBVIOUS
  <2>4. PICK e : /\ Known(e) /\ hand.next \in DOMAIN e /\ e[hand.next] = body
                 /\ \A k \in DOMAIN e : k \in Int /\ k <= hand.next /\ -k <= faults
    BY NextNumber
  <2> HIDE DEF f, row, body, w
  <2>k. KeptOf(hand.sheet.item.row, f)
    BY <2>3 DEF row
  <2>5. FairWrite(w, hand.next, e) /\ w.sheet = hand.sheet.n /\ w.kind = "update"
    <3>1. /\ hand.sheet # None /\ Known(e)
          /\ FairForm(f) /\ body = FormToBody(f) /\ hand.next \in DOMAIN e /\ e[hand.next] = body
          /\ hand.sheet.id # None /\ KeptOf(hand.sheet.item.row, f)
      BY <1>1, <2>2, <2>3, <2>4, <2>k, <2>w
    <3>2. WriteOf(w, "update", body, f)
      BY <2>w DEF WriteOf
    <3> QED BY <3>1, <3>2, WriteIsFair
  <2> QED BY <2>1, <2>4, <2>5, <1>ends
<1> QED BY <1>3, <1>4, <1>5

LEMMA ReceiveStep == ASSUME NEW c, Known(c), faults' \in Nat, NEW w \in sends, Receive(w) PROVE Known(c)' /\ hand.next <= hand'.next
<1> DEFINE v == [w EXCEPT !.stage = IF Takes(book, w) THEN "ok" ELSE "refused"]
<1>1. FairWrite(w, hand.next, c) /\ Asked(hand, w) /\ FairBook(book, c) /\ FairHand(hand, c) /\ FairSends(hand, sends, c)
      /\ hand.next \in Nat
  BY HandIs DEF Known, FairSends
<1>2. book' = ItemServed(book, w) /\ sends' = (sends \ {w}) \cup {v} /\ hand' = hand
  BY DEF Receive
<1>3. /\ DOMAIN v = WriteFields /\ v.kind = w.kind /\ v.sheet = w.sheet /\ v.body = w.body /\ v.form = w.form
      /\ v.opened = w.opened /\ v.snap = w.snap /\ v.n = w.n
  BY <1>1 DEF FairWrite, WriteFields
<1> HIDE DEF v
<1>4. FairWrite(v, hand.next, c) /\ Asked(hand, v)
  BY <1>1, <1>3 DEF FairWrite, Asked
<1>5. FairBook(book', c)
  BY <1>1, <1>2, ServedIsFair
<1>6. FairSends(hand, sends', c)
  BY <1>1, <1>2, <1>4 DEF FairSends
<1> QED BY <1>1, <1>2, <1>5, <1>6 DEF Known

\* What an answer leaves of the sheet.
LEMMA ToldIs ==
  ASSUME NEW c, NEW p, DOMAIN p = HandFields, p.next \in Nat, NEW w, p.sheet # None => FairSheet(p.sheet, p.next, c), Asked(p, w)
  PROVE  /\ DOMAIN Told(p, w) = HandFields
         /\ Told(p, w).next = p.next /\ Told(p, w).queue = p.queue /\ Told(p, w).list = p.list
         /\ \/ Told(p, w).sheet = p.sheet
            \/ /\ p.sheet # None /\ FairSheet(Told(p, w).sheet, p.next, c)
               /\ Told(p, w).sheet.n = p.sheet.n /\ Told(p, w).sheet.id = p.sheet.id
<1> DEFINE q == Told(p, w)
           old == p.sheet
<1>1. CASE old = None \/ old.n # w.sheet
  BY <1>1 DEF Told
<1>2. CASE old # None /\ old.n = w.sheet
  <2>1. q = [p EXCEPT !.sheet.busy = FALSE, !.sheet.problem = (w.kind # "delete"), !.sheet.blocked = @ \/ w.kind = "delete"]
    BY <1>2 DEF Told
  <2> HIDE DEF q
  <2>2. /\ DOMAIN q = HandFields /\ q.next = p.next /\ q.queue = p.queue /\ q.list = p.list
        /\ q.sheet = [old EXCEPT !.busy = FALSE, !.problem = (w.kind # "delete"), !.blocked = @ \/ w.kind = "delete"]
    BY <2>1 DEF HandFields
  <2>3. DOMAIN old = SheetFields /\ FairSheet(old, p.next, c)
    BY <1>2 DEF FairSheet
  <2> DEFINE new == q.sheet
  <2>4. /\ DOMAIN new = SheetFields /\ new.n = old.n /\ new.id = old.id /\ new.item = old.item /\ new.form = old.form
        /\ (new.blocked <=> old.blocked \/ w.kind = "delete")
    BY <2>2, <2>3 DEF SheetFields
  <2>5. w.kind = "delete" => old.id # None
    BY <1>2 DEF Asked
  <2> HIDE DEF new, old
  <2>6. FairSheet(new, p.next, c)
    BY <2>3, <2>4, <2>5 DEF FairSheet
  <2> QED BY <1>2, <2>2, <2>4, <2>6 DEF new, old, q
<1> QED BY <1>1, <1>2

\* A write leaves the lane, whatever became of it.
LEMMA SettledStep ==
  ASSUME NEW c, Known(c), faults' \in Nat, NEW w, sends' = sends \ {w}, book' = book, FairHand(hand', c), hand.next <= hand'.next,
         hand'.sheet = None \/ (hand.sheet # None /\ hand'.sheet.n = hand.sheet.n /\ hand'.sheet.id = hand.sheet.id)
  PROVE  Known(c)' /\ hand.next <= hand'.next
<1> DEFINE h == hand
           k == hand'
<1>1. FairSends(h, sends, c) /\ h.next \in Nat /\ k.next \in Nat /\ h.next <= k.next
  BY HandIs DEF Known
<1>2. k.sheet = None \/ (h.sheet # None /\ k.sheet.n = h.sheet.n /\ k.sheet.id = h.sheet.id)
  OBVIOUS
<1> HIDE DEF h, k
<1>3. FairSends(k, sends, c)
  BY <1>1, <1>2, SendsStay
<1>4. FairSends(k, sends', c)
  BY <1>3 DEF FairSends
<1> QED BY <1>4 DEF Known, k

LEMMA AnswerItemStep == ASSUME NEW c, Known(c), faults' \in Nat, NEW w \in sends, Saved(w) \/ Rejected(w) \/ Lost(w) PROVE Known(c)' /\ hand.next <= hand'.next
<1>1. FairWrite(w, hand.next, c) /\ Asked(hand, w) /\ FairHand(hand, c) /\ sends' = sends \ {w} /\ book' = book
  BY DEF Known, FairSends, Saved, Rejected, Lost
<1>2. FairList(w.snap, c) /\ hand.next \in Nat /\ hand.next <= hand.next /\ DOMAIN hand = HandFields
  BY <1>1, HandIs DEF FairWrite
<1>3. CASE hand' = [hand EXCEPT !.asked = TRUE, !.sheet = None]
  <2>1. DOMAIN hand' = HandFields /\ hand'.next = hand.next /\ hand'.queue = hand.queue /\ hand'.list = hand.list /\ hand'.sheet = None
    BY <1>2, <1>3 DEF HandFields
  <2>2. FairHand(hand', c)
    BY <1>1, <2>1, HandIs DEF FairHand
  <2> QED BY <1>1, <1>2, <2>1, <2>2, SettledStep
<1>4. CASE hand' = [hand EXCEPT !.queue = Append(@, w), !.sheet = None]
  <2>1. /\ DOMAIN hand' = HandFields /\ hand'.next = hand.next /\ hand'.queue = Append(hand.queue, w)
        /\ hand'.list = hand.list /\ hand'.sheet = None
    BY <1>2, <1>4 DEF HandFields
  <2>2. FairHand(hand', c)
    BY <1>1, <2>1, HandIs, QueueGrows DEF FairHand
  <2> QED BY <1>1, <1>2, <2>1, <2>2, SettledStep
<1>5. CASE hand' = Told(ItemRolledBack(w), w)
  <2> DEFINE p == ItemRolledBack(w)
             k == hand'
  <2>1. DOMAIN p = HandFields /\ p.next = hand.next /\ p.queue = hand.queue /\ p.list = w.snap /\ p.sheet = hand.sheet
    BY <1>2 DEF ItemRolledBack, HandFields
  <2> HIDE DEF p
  <2>2. p.next \in Nat /\ (p.sheet # None => FairSheet(p.sheet, p.next, c)) /\ Asked(p, w)
    BY <1>1, <2>1, HandIs DEF Asked
  <2>3. k = Told(p, w)
    BY <1>5 DEF p
  <2> HIDE DEF k
  <2>4. /\ DOMAIN k = HandFields /\ k.next = p.next /\ k.queue = p.queue /\ k.list = p.list
        /\ k.sheet = p.sheet \/ (p.sheet # None /\ FairSheet(k.sheet, p.next, c) /\ k.sheet.n = p.sheet.n /\ k.sheet.id = p.sheet.id)
    BY <2>1, <2>2, <2>3, ToldIs
  <2>5. FairHand(k, c)
    BY <1>1, <1>2, <2>1, <2>2, <2>4, HandIs DEF FairHand
  <2>6. k.sheet = None \/ (hand.sheet # None /\ k.sheet.n = hand.sheet.n /\ k.sheet.id = hand.sheet.id)
    BY <2>1, <2>4
  <2>7. hand.next <= k.next
    BY <1>2, <2>1, <2>4
  <2> QED BY <1>1, <2>5, <2>6, <2>7, SettledStep DEF k
<1> QED BY <1>3, <1>4, <1>5 DEF Saved, Rejected, Lost, Unconfirmed

LEMMA ReplayedStep == ASSUME NEW c, Known(c), faults' \in Nat, NEW heard \in BOOLEAN, ReplayItem(heard) PROVE Known(c)' /\ hand.next <= hand'.next
<1>1. FairHand(hand, c) /\ hand.queue # <<>> /\ FairBook(book, c) /\ FairSends(hand, sends, c) /\ sends' = sends
      /\ book' = ItemServed(book, Head(hand.queue)) /\ hand.next \in Nat
  BY HandIs DEF Known, ReplayItem
<1>2. FairWrite(Head(hand.queue), hand.next, c) /\ IsList(Tail(hand.queue)) /\ \A i \in 1 .. Len(Tail(hand.queue)) : FairWrite(Tail(hand.queue)[i], hand.next, c)
  BY <1>1, HandIs, QueueShrinks
<1>3. FairBook(book', c)
  BY <1>1, <1>2, ServedIsFair
<1>4. hand' = hand \/ hand' = [hand EXCEPT !.queue = Tail(@), !.asked = TRUE]
  BY DEF ReplayItem
<1>5. CASE hand' = hand
  BY <1>1, <1>3, <1>5 DEF Known
<1>6. CASE hand' = [hand EXCEPT !.queue = Tail(@), !.asked = TRUE]
  <2>1. DOMAIN hand' = HandFields /\ hand'.next = hand.next /\ hand'.queue = Tail(hand.queue) /\ hand'.list = hand.list /\ hand'.sheet = hand.sheet
    BY <1>1, <1>6, HandIs DEF HandFields
  <2>2. FairHand(hand', c)
    BY <1>1, <1>2, <2>1, HandIs DEF FairHand
  <2>3. FairSends(hand', sends', c)
    BY <1>1, <2>1 DEF FairSends, Asked
  <2> QED BY <1>1, <1>3, <2>1, <2>2, <2>3 DEF Known
<1> QED BY <1>4, <1>5, <1>6

\* Another member's pause takes a fresh number as well.
LEMMA OthersStep ==
  ASSUME NEW c, ItemsAre(c), Others
  PROVE  ItemsInv'
<1>1. FairBook(book, c) /\ UNCHANGED <<hand, sends>> /\ faults \in Nat /\ faults' = faults + 1 /\ Known(c)
      /\ Numbers(c, hand.next, faults) /\ hand.next \in Nat
  BY HandIs DEF ItemsAre, Known, Others, Fault
<1>2. PICK id \in DOMAIN book :
         book' \in {[book EXCEPT ![id].row.active = ~@, ![id].rev = -faults'], [book EXCEPT ![id].paid = TRUE],
                    [x \in DOMAIN book \ {id} |-> book[x]]}
  BY DEF Others
<1> DEFINE old == book[id]
<1>3. DOMAIN old = {"row", "paid", "press", "rev"} /\ Copied(old, c) /\ FairRow(old.row) /\ old.row.method # None
  BY <1>1 DEF FairBook, Copied
<1>same. Numbers(c, hand'.next, faults')
  BY <1>1 DEF Numbers
<1>4. CASE book' = [book EXCEPT ![id].row.active = ~@, ![id].rev = -faults']
  <2> DEFINE row == [old.row EXCEPT !.active = ~@]
             n == -faults'
             new == [old EXCEPT !.row = row, !.rev = n]
  <2>1. book' = [book EXCEPT ![id] = new]
    BY <1>4
  <2>2. /\ DOMAIN row = RowFields /\ row.direction = old.row.direction /\ row.amount = old.row.amount /\ row.auto = old.row.auto
        /\ row.shares = old.row.shares /\ row.bucket = old.row.bucket /\ row.mode = old.row.mode /\ row.payer = old.row.payer
        /\ row.method = old.row.method
    BY <1>3 DEF FairRow, RowFields
  <2>n. n \in Int /\ -n <= faults' /\ n < hand.next /\ n \notin DOMAIN c
    BY <1>1 DEF Numbers
  <2>4. DOMAIN new = {"row", "paid", "press", "rev"} /\ new.row = row /\ new.rev = n
    BY <1>3
  <2> HIDE DEF row, n
  <2>3. FairRow(row) /\ row.method # None
    BY <1>3, <2>2 DEF FairRow
  <2>5. PICK e : DOMAIN e = DOMAIN c \cup {n} /\ e[n] = row /\ \A k \in DOMAIN c : e[k] = c[k]
    <3> DEFINE d == [k \in DOMAIN c \cup {n} |-> IF k = n THEN row ELSE c[k]]
    <3>1. DOMAIN d = DOMAIN c \cup {n} /\ d[n] = row /\ \A k \in DOMAIN c : d[k] = c[k]
      BY <2>n
    <3> HIDE DEF d
    <3> QED BY <3>1
  <2> HIDE DEF new, old
  <2>6. Known(e) /\ Copied(new, e)
    <3>1. Extends(c, e)
      BY <2>5 DEF Extends
    <3>2. Known(e)
      BY <1>1, <3>1, ExtendedHand
    <3> QED BY <2>3, <2>4, <2>5, <3>2 DEF Copied, Agree
  <2>7. FairBook(book', e)
    BY <2>1, <2>4, <2>6 DEF FairBook, Known
  <2>8. Numbers(e, hand'.next, faults')
    BY <1>same, <2>n, <2>5, <1>1 DEF Numbers
  <2>9. Known(e)'
    BY <1>1, <2>6, <2>7 DEF Known
  <2> QED BY <2>8, <2>9 DEF ItemsInv, ItemsAre
<1>5. CASE book' = [book EXCEPT ![id].paid = TRUE]
  <2> DEFINE new == [old EXCEPT !.paid = TRUE]
  <2>1. book' = [book EXCEPT ![id] = new]
    BY <1>5
  <2>2. DOMAIN new = {"row", "paid", "press", "rev"} /\ new.row = old.row /\ new.rev = old.rev
    BY <1>3
  <2> HIDE DEF new, old
  <2>3. FairBook(book', c)
    BY <1>1, <1>3, <2>1, <2>2 DEF FairBook, Copied
  <2> QED BY <1>1, <1>same, <2>3 DEF ItemsInv, ItemsAre, Known
<1>6. CASE book' = [x \in DOMAIN book \ {id} |-> book[x]]
  <2>1. FairBook(book', c)
    BY <1>1, <1>6 DEF FairBook
  <2> QED BY <1>1, <1>same, <2>1 DEF ItemsInv, ItemsAre, Known
<1> QED BY <1>2, <1>4, <1>5, <1>6

LEMMA ItemsInvNext == ItemsInv /\ [PlanItemNext]_itemVars => ItemsInv'
<1> SUFFICES ASSUME ItemsInv, [PlanItemNext]_itemVars PROVE ItemsInv'
  OBVIOUS
<1>0. PICK c : ItemsAre(c)
  BY DEF ItemsInv
<1>c. Known(c) /\ Numbers(c, hand.next, faults) /\ faults \in Nat /\ hand.next \in Nat
  BY <1>0, HandIs DEF ItemsAre, Known
<1>later. ASSUME Known(c)', hand.next <= hand'.next, faults <= faults' PROVE ItemsInv'
  <2>1. hand'.next \in Nat /\ faults' \in Nat
    BY <1>later DEF Known, FairHand
  <2>2. Numbers(c, hand'.next, faults')
    BY <1>c, <1>later, <2>1 DEF Numbers
  <2> QED BY <1>later, <2>2 DEF ItemsInv, ItemsAre
<1>1. CASE UNCHANGED itemVars
  BY <1>0, <1>1 DEF itemVars, ItemsInv, ItemsAre, Known
<1>2. CASE \E d \in {"out", "in"} : Fill("direction", d)
  <2>1. faults' = faults
    BY <1>2 DEF Fill, Shifts
  <2> QED BY <1>2, <1>c, <1>later, <2>1, FillStep
<1>3. CASE \E a \in ItemAmounts \cup {None} : Fill("amount", a)
  <2>1. PICK a \in ItemAmounts \cup {None} : Fill("amount", a)
    BY <1>3
  <2>2. a \in (Nat \ {0}) \cup {None} /\ faults' = faults
    BY <2>1, PlanItemAssumption DEF Fill, Shifts
  <2> QED BY <2>1, <2>2, <1>c, <1>later, FillStep
<1>4. CASE Fill("bucket", None)
  <2>1. faults' = faults
    BY <1>4 DEF Fill, Shifts
  <2> QED BY <1>4, <1>c, <1>later, <2>1, FillStep
<1>5. ASSUME NEW w \in sends, Receive(w) \/ Saved(w) \/ Rejected(w) \/ Lost(w) PROVE ItemsInv'
  <2>1. faults' \in Nat /\ faults <= faults'
    BY <1>5, <1>c DEF Receive, Saved, Rejected, Lost, Fault
  <2>2. CASE Receive(w)
    BY <2>1, <2>2, <1>c, <1>later, ReceiveStep
  <2>3. CASE Saved(w) \/ Rejected(w) \/ Lost(w)
    BY <2>1, <2>3, <1>c, <1>later, AnswerItemStep
  <2> QED BY <1>5, <2>2, <2>3
<1>6. ASSUME NEW heard \in BOOLEAN, ReplayItem(heard) PROVE ItemsInv'
  <2>1. faults' \in Nat /\ faults <= faults'
    BY <1>6, <1>c DEF ReplayItem, Fault
  <2> QED BY <1>6, <2>1, <1>c, <1>later, ReplayedStep
<1>7. CASE NewItem \/ EditItem
  <2>1. faults' = faults
    BY <1>7 DEF NewItem, EditItem, OpenSheet
  <2> QED BY <1>7, <1>c, <1>later, <2>1, SheetsStep
<1>8. CASE Save \/ Delete \/ Pause
  <2>1. faults' = faults
    BY <1>8 DEF Save, Delete, Pause, PerformItem
  <2> QED BY <1>0, <1>8, <2>1, WritesStep
<1>9. CASE ReadList \/ ReadFails \/ CloseSheet \/ Disconnect \/ Reconnect
  <2>1. faults' \in Nat /\ faults <= faults'
    BY <1>9, <1>c DEF ReadList, ReadFails, CloseSheet, Disconnect, Reconnect, Shifts, Fault
  <2> QED BY <1>9, <1>c, <1>later, <2>1, ListStep
<1>10. CASE Others
  BY <1>0, <1>10, OthersStep
<1> QED BY <1>1, <1>2, <1>3, <1>4, <1>5, <1>6, <1>7, <1>8, <1>9, <1>10 DEF PlanItemNext

LEMMA StoredIsFair == ASSUME NEW row \in Stored PROVE FairRow(row)
<1>1. row.shares \in Seq(Nat \ {0})
  BY StoredAssumption
<1>2. row.shares \in Seq(Int)
  BY <1>1
<1>3. SharesOK(row.shares)
  BY <1>1, <1>2, SharesPositive DEF SharesOK
<1> QED BY <1>3, StoredAssumption DEF FairRow, RowFields

LEMMA ItemsInvInit == PlanItemInit => ItemsInv
<1> SUFFICES ASSUME PlanItemInit PROVE ItemsInv
  OBVIOUS
<1>1. PICK row \in Stored, paid \in BOOLEAN :
          book = [id \in {0} |-> [row |-> row, paid |-> paid, press |-> None, rev |-> 0]]
  BY DEF PlanItemInit
<1> DEFINE c == [k \in {0} |-> row]
<1>c. DOMAIN c = {0} /\ c[0] = row
  OBVIOUS
<1> HIDE DEF c
<1>r. FairRow(row) /\ row.method # None
  BY StoredIsFair, StoredAssumption
<1>2. FairBook(book, c)
  <2>1. ASSUME NEW id \in DOMAIN book PROVE DOMAIN book[id] = {"row", "paid", "press", "rev"} /\ book[id].row = row /\ book[id].rev = 0
    BY <1>1
  <2>2. Agree(c[0], row)
    BY <1>c DEF Agree
  <2> QED BY <1>c, <1>r, <2>1, <2>2 DEF FairBook, Copied
<1>3. /\ DOMAIN hand = HandFields /\ hand.next = 1 /\ hand.queue = <<>> /\ hand.list = None /\ hand.sheet = None /\ sends = {}
      /\ faults = 0
  BY DEF PlanItemInit, HandFields
<1>4. IsList(hand.queue) /\ Len(hand.queue) = 0
  <2>1. <<>> \in Seq({}) /\ Len(<<>>) = 0
    OBVIOUS
  <2> QED BY <1>3, <2>1 DEF IsList
<1>5. FairHand(hand, c) /\ FairSends(hand, sends, c)
  BY <1>3, <1>4 DEF FairHand, FairSends
<1>6. Numbers(c, hand.next, faults)
  BY <1>3, <1>c DEF Numbers
<1> QED BY <1>2, <1>3, <1>5, <1>6 DEF Known, ItemsAre, ItemsInv

LEMMA PendingIsFair == ASSUME NEW c, Known(c), NEW w \in Pending PROVE FairWrite(w, hand.next, c)
<1>1. \A v \in sends : FairWrite(v, hand.next, c)
  BY DEF Known, FairSends
<1>2. DOMAIN hand.queue = 1 .. Len(hand.queue) /\ \A i \in 1 .. Len(hand.queue) : FairWrite(hand.queue[i], hand.next, c)
  BY HandIs, ListIs DEF Known
<1> QED BY <1>1, <1>2 DEF Pending

\* An edit changes on the server's row no field that the member left as it was when the sheet opened, as long as the server
\* still has that row as the sheet had it (itemToForm, formToBody, update_item): for any stored rows and amounts, any shares and
\* however they are rounded, through pauses, lost answers and edits of this phone before it.  An edit of a row that somebody
\* else changed since writes over the change: EditsSpareOthers, which a run refutes.
THEOREM EditsKeepTheRest == PlanItemSpec => []OnlyWhatWasTyped
<1>1. ItemsInv => OnlyWhatWasTyped
  <2> SUFFICES ASSUME ItemsInv, NEW w \in Pending, w.kind = "update", Takes(book, w), book[w.id].rev = w.opened.rev
               PROVE  KeepsRest(w)
    BY DEF OnlyWhatWasTyped
  <2>1. PICK c : ItemsAre(c)
    BY DEF ItemsInv
  <2> DEFINE x == book[w.id]
             row == x.row
             read == w.opened.row
             made == Applied(row, w.body)
             All == {"direction", "amount", "bucket", "auto", "method", "payer", "active"}
  <2>2. Known(c) /\ FairWrite(w, hand.next, c) /\ w.id \in DOMAIN book
    BY <2>1, PendingIsFair DEF ItemsAre, Takes
  <2>3. Copied(x, c) /\ DOMAIN x = {"row", "paid", "press", "rev"}
    BY <2>2 DEF Known, FairBook
  <2>4. ItemServed(book, w)[w.id].row = made
    <3>1. ItemServed(book, w) = [book EXCEPT ![w.id].row = Applied(@, w.body), ![w.id].rev = w.n]
      BY DEF ItemServed, Result
    <3> HIDE DEF made
    <3>2. [book EXCEPT ![w.id].row = Applied(@, w.body), ![w.id].rev = w.n][w.id].row = made
      BY <2>2, <2>3 DEF made
    <3> QED BY <3>1, <3>2
  <2>5. Untouched(w) = {f \in All : w.form[f] = read[f]}
    BY DEF Untouched, ItemToForm
  <2>6. ASSUME w.form.direction = read.direction
        PROVE  (\A f \in All : w.form[f] = read[f] => made[f] = row[f]) /\ made.mode = row.mode
               /\ (w.form.amount = read.amount => made.shares = row.shares)
    BY <2>2, <2>3, <2>6, UntouchedOnServer
  <2> HIDE DEF made, row, read
  <2>7. /\ "direction" \in Untouched(w) => \A f \in Untouched(w) : made[f] = row[f]
        /\ "direction" \in Untouched(w) => made.mode = row.mode
        /\ {"direction", "amount"} \subseteq Untouched(w) => made.shares = row.shares
    BY <2>5, <2>6
  <2> QED BY <2>4, <2>7 DEF KeepsRest, row
<1> QED BY <1>1, ItemsInvInit, ItemsInvNext, PTL DEF PlanItemSpec

\* No edit is refused because its shares do not add up to its amount (scaleSplits, check_split_sum), whatever amounts are typed
\* and cleared: the form scales the shares it keeps, and the cents that rounding leaves go to the first.
THEOREM ScaledSharesAddUp == PlanItemSpec => []SharesAddUp
<1>1. ItemsInv => SharesAddUp
  <2> SUFFICES ASSUME ItemsInv, NEW w \in Pending, w.kind = "update" PROVE AddsUp(w.body)
    BY DEF SharesAddUp
  <2>0. PICK c : ItemsAre(c)
    BY DEF ItemsInv
  <2>1. FairWrite(w, hand.next, c)
    BY <2>0, PendingIsFair DEF ItemsAre
  <2>2. FairRow(w.body)
    BY <2>1, BodyIsFair DEF FairWrite
  <2> QED BY <2>2 DEF FairRow, AddsUp
<1> QED BY <1>1, ItemsInvInit, ItemsInvNext, PTL DEF PlanItemSpec
=============================================================================
