---------------------------- MODULE MCBillEntries ----------------------------
(* Small instances of BillEntries for TLC.                                  *)
EXTENDS BillEntriesRefinement, TLC

CONSTANTS e1, e2, rent, phone, salary, t1, t2, t3, r1, r2, p1, p2

\* One month each of two items, out of a fixed item with a bucket (rent), a
\* bucket-less bill (phone) and an income (salary).
RentAndPhone == e1 :> rent @@ e2 :> phone
PhoneAndSalary == e1 :> phone @@ e2 :> salary

Ids == Permutations(Txn) \cup Permutations(Req)
IdsOnly == Permutations(Txn)
=============================================================================
