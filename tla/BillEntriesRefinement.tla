------------------------ MODULE BillEntriesRefinement ------------------------
(***************************************************************************)
(* The handlers of BillEntries implement EntryLedger when requests do not  *)
(* overlap.                                                                *)
(***************************************************************************)
EXTENDS BillEntries

\* The rows, as the household sees them.
LedgerState == [e \in Entry |-> CASE entry[e].status = "unpaid"  -> "expected"
                                 [] entry[e].status = "paid"    -> "done"
                                 [] entry[e].status = "skipped" -> "skipped"]
LedgerPays == [e \in Entry |-> entry[e].txn]
LedgerUsed == Txn \ Absent
LedgerLive == {t \in Txn : Live(t)}

Ledger == INSTANCE EntryLedger WITH
    state <- LedgerState, pays <- LedgerPays, used <- LedgerUsed, live <- LedgerLive

\* Every commit of every handler is one step of the ledger, or none: a done
\* entry is undone before it is skipped or paid again, a transaction settles
\* one entry at a time, a deleted payment reopens its entry in the same step.
ImplementsLedger == Ledger!Spec
=============================================================================
