------------------------------ MODULE MCActivity ------------------------------
(* Three machines that share nothing, in one run: bulk changes on the server  *)
(* (a transaction of each kind, two buckets, two members), the selection of   *)
(* rows on a phone, and single rows that are edited and deleted there.        *)
(* "part" says which one moves; the others rest in an initial state.          *)
EXTENDS Bulk, ActivityBulk, ActivityRows, TLC

CONSTANTS t1, t2, ann, bob, b1, b2, fun, u1, u2, food, trip

Plain == [live |-> TRUE, type |-> "expense", bucket |-> b1, category |-> fun, payer |-> ann,
          mode |-> "single", method |-> "card", item |-> FALSE, covered |-> FALSE,
          litres |-> FALSE, take |-> None]

MCRows == {[Plain EXCEPT !.bucket = None, !.item = TRUE],
           [Plain EXCEPT !.method = "cash", !.take = ann],
           [Plain EXCEPT !.mode = "own", !.payer = None, !.covered = TRUE],
           [Plain EXCEPT !.type = "income", !.bucket = None, !.payer = None],
           [Plain EXCEPT !.payer = None],
           [Plain EXCEPT !.category = Fuel, !.litres = TRUE]}

Change(fields) == [fields |-> fields, bucket |-> b1, category |-> fun, mode |-> "single",
                   payer |-> ann, method |-> "cash"]

MCChanges == {Change({"bucket"}), [Change({"bucket"}) EXCEPT !.bucket = None],
              [Change({"bucket", "category"}) EXCEPT !.bucket = b2],
              Change({"payer"}), [Change({"payer", "category"}) EXCEPT !.payer = bob],
              [Change({"payer"}) EXCEPT !.mode = "own"],
              Change({"method"}), [Change({"method"}) EXCEPT !.method = "card"]}

Form == [bucket |-> b1, category |-> Fuel, payer |-> ann, mode |-> "single", method |-> "card",
         covered |-> FALSE, litres |-> TRUE]
MCEdits == {Form, [Form EXCEPT !.mode = "own", !.payer = None, !.covered = TRUE, !.category = fun],
            [Form EXCEPT !.payer = None, !.method = "cash", !.bucket = b2]}
MCSym == Permutations(Req)

VARIABLE part

BulkRests == BulkInit /\ item = b1 /\ \A t \in Txn : rows[t] = [Plain EXCEPT !.payer = None]
MCInit ==
    \/ part = "bulk" /\ BulkInit /\ SheetInit /\ RowsInit
    \/ part = "sheet" /\ SheetInit /\ BulkRests /\ RowsInit
    \/ part = "rows" /\ RowsInit /\ BulkRests /\ SheetInit
MCNext ==
    \/ part = "bulk" /\ BulkNext /\ UNCHANGED <<part, bulkVars, rowsVars>>
    \/ part = "sheet" /\ SheetNext /\ UNCHANGED <<part, bvars, rowsVars>>
    \/ part = "rows" /\ RowsNext /\ UNCHANGED <<part, bvars, bulkVars>>
MCSpec == MCInit /\ [][MCNext]_<<part, bvars, bulkVars, rowsVars>>
===============================================================================
