----------------------------- MODULE EntryLedger -----------------------------
(***************************************************************************)
(* What the household is promised about an item's entries: an entry is     *)
(* expected, done or skipped; it becomes done by exactly one transaction   *)
(* (or by a bare claim, for a bucket-less bill of the old app), and it is  *)
(* expected again only by undoing it or deleting that transaction.  Every  *)
(* change is one atomic step.  The states and the steps are the ones of    *)
(* OccurrenceStatus and of the entry lifecycle in app/services/bills.py,   *)
(* without requests, snapshots and flags.                                  *)
(***************************************************************************)
CONSTANTS Entry, Txn, NoTxn

VARIABLES
    state,   \* "expected", "done" or "skipped", for each entry
    pays,    \* the transaction that made the entry done
    used,    \* transactions recorded so far
    live     \* those not deleted

vars == <<state, pays, used, live>>

Init ==
    /\ state = [e \in Entry |-> "expected"]
    /\ pays = [e \in Entry |-> NoTxn]
    /\ used = {}
    /\ live = {}

\* Someone logs a transaction that settles nothing.
Record(t) ==
    /\ t \in Txn \ used
    /\ used' = used \cup {t}
    /\ live' = live \cup {t}
    /\ UNCHANGED <<state, pays>>

\* Done: the entry's own transaction is recorded in the same step.
Pay(e, t) ==
    /\ state[e] = "expected"
    /\ t \in Txn \ used
    /\ state' = [state EXCEPT ![e] = "done"]
    /\ pays' = [pays EXCEPT ![e] = t]
    /\ used' = used \cup {t}
    /\ live' = live \cup {t}

\* Done without a transaction.
Claim(e) ==
    /\ state[e] = "expected"
    /\ state' = [state EXCEPT ![e] = "done"]
    /\ UNCHANGED <<pays, used, live>>

\* Link: a live transaction that settles no entry settles this one.
Link(e, t) ==
    /\ state[e] = "expected"
    /\ t \in live
    /\ \A f \in Entry : pays[f] # t
    /\ state' = [state EXCEPT ![e] = "done"]
    /\ pays' = [pays EXCEPT ![e] = t]
    /\ UNCHANGED <<used, live>>

\* Undo: the transaction is kept.
Undo(e) ==
    /\ state[e] = "done"
    /\ state' = [state EXCEPT ![e] = "expected"]
    /\ pays' = [pays EXCEPT ![e] = NoTxn]
    /\ UNCHANGED <<used, live>>

\* Delete: the entry it settled, if any, is expected again.
Delete(t) ==
    /\ t \in live
    /\ live' = live \ {t}
    /\ state' = [e \in Entry |-> IF pays[e] = t THEN "expected" ELSE state[e]]
    /\ pays' = [e \in Entry |-> IF pays[e] = t THEN NoTxn ELSE pays[e]]
    /\ UNCHANGED used

Skip(e) ==
    /\ state[e] = "expected"
    /\ state' = [state EXCEPT ![e] = "skipped"]
    /\ UNCHANGED <<pays, used, live>>

Unskip(e) ==
    /\ state[e] = "skipped"
    /\ state' = [state EXCEPT ![e] = "expected"]
    /\ UNCHANGED <<pays, used, live>>

Next ==
    \/ \E t \in Txn : Record(t) \/ Delete(t)
    \/ \E e \in Entry : Claim(e) \/ Undo(e) \/ Skip(e) \/ Unskip(e)
    \/ \E e \in Entry, t \in Txn : Pay(e, t) \/ Link(e, t)

Spec == Init /\ [][Next]_vars
=============================================================================
