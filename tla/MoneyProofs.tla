---------------------------- MODULE MoneyProofs ----------------------------
(***************************************************************************)
(* Theorems about Cash, for any number of members, requests, movements and *)
(* expenses.                                                               *)
(***************************************************************************)
EXTENDS Cash, CashForms, DataLemmas

\* Tables are numbered from 1 as they grow.
Numbers == {1 .. n : n \in Nat}

MoveRow == [kind : Kinds, user : Member, owner : Member \cup {NoOne}, amount : Int, month : Months, txn : Nat,
            live : BOOLEAN, key : Key \cup {NoOne}, aged : BOOLEAN, at : Nat, for : Key \cup {NoOne}]
TxnRow == [payer : Member \cup {NoOne}, amount : Nat, month : Months, cash : BOOLEAN, live : BOOLEAN,
           key : Key \cup {NoOne}, at : Nat]
SaveReq == [pc : {"save"}, user : Member, locked : BOOLEAN, kind : Kinds, owner : Member \cup {NoOne}, amount : Int,
            counted : Nat, month : Months, expense : BOOLEAN, key : Key \cup {NoOne}, via : Vias, relies : BOOLEAN,
            upset : BOOLEAN]
TagReq == [pc : {"tag"}, user : Member, row : Nat, key : Key]
UnsaveReq == [pc : {"unsave"}, user : Member, row : Nat, locked : {FALSE}, relies : BOOLEAN]
EditReq == [pc : {"edit"}, user : Member, txn : Nat, old : TxnRow, new : TxnRow]
SyncedReq == [pc : {"synced"}, user : Member, txn : Nat, old : TxnRow, new : TxnRow, takes : SUBSET Nat,
              was : UNION {[S -> Int] : S \in SUBSET Nat}, locked : {FALSE}, relies : BOOLEAN]
Sent == Member \X Saves \X Vias

Types ==
    /\ Rows \in Numbers /\ mvs \in [Rows -> MoveRow]
    /\ Txns \in Numbers /\ txns \in [Txns -> TxnRow]
    /\ stamp \in Nat /\ raced \in BOOLEAN /\ begun \in Nat
    /\ sent \in [Key -> Sent \cup {NoOne}]
    /\ req \in [Req -> {Idle} \cup SaveReq \cup TagReq \cup UnsaveReq \cup EditReq \cup SyncedReq]

\* Only a take names a stash or an expense, only a recount may be negative, and an expense has one take.
RowOK(m) ==
    /\ mvs[m].owner # NoOne \/ mvs[m].txn # 0 => mvs[m].kind = "take"
    /\ mvs[m].kind # "stash_count" => mvs[m].amount >= 0
    /\ mvs[m].txn \in {0} \cup Txns
RowsOK ==
    /\ \A m \in Rows : RowOK(m)
    /\ \A m, n \in Rows : mvs[m].txn # 0 /\ mvs[m].txn = mvs[n].txn => m = n

\* What a request carries and relies on, given the tables M of rows and X of expenses, and what was sent.
SaveOK(q, S) ==
    /\ q.relies <=> q.kind = "stash_count" \/ (q.kind = "take" /\ q.owner = q.user)
    /\ q.locked <=> q.via = "api"
    /\ q.owner # NoOne \/ q.expense => q.kind = "take"
    /\ q.kind # "stash_count" => q.amount >= 0
    /\ q.key # NoOne => /\ S[q.key] # NoOne /\ S[q.key][1] = q.user
                        /\ S[q.key][2].expense = q.expense /\ S[q.key][3] = q.via
                        /\ ~q.expense => q.via = "api"
TagOK(q, M) == q.row \in DOMAIN M /\ M[q.row].txn # 0
Adds(M, m) == M[m].kind \in {"stash_in", "put_back", "stash_count"} /\ M[m].amount > 0
UnsaveOK(q, M) == q.row \in DOMAIN M /\ M[q.row].user = q.user /\ (q.relies <=> Adds(M, q.row))
EditOK(q, X) == q.txn \in DOMAIN X /\ q.new.amount >= 0
Linked(M, t) == {m \in DOMAIN M : M[m].live /\ M[m].txn = t}
SyncedOK(q, M, X) ==
    /\ q.txn \in DOMAIN X /\ q.new.amount >= 0
    /\ q.takes \subseteq DOMAIN M /\ Linked(M, q.txn) \subseteq q.takes /\ \A m \in q.takes : M[m].txn = q.txn
    /\ q.was \in [q.takes -> Int]
    /\ q.new.cash => \A m \in q.takes :
          /\ q.new.payer = M[m].user
          /\ M[m].owner # NoOne /\ q.new.amount # q.was[m] => q.user = M[m].owner
    /\ q.relies <=> q.new.cash /\ \E m \in q.takes : M[m].owner # NoOne /\ q.new.amount > q.was[m]
ReqOK(q, M, X, S) ==
    /\ q.pc = "save" => SaveOK(q, S)
    /\ q.pc = "tag" => TagOK(q, M)
    /\ q.pc = "unsave" => UnsaveOK(q, M)
    /\ q.pc = "edit" => EditOK(q, X)
    /\ q.pc = "synced" => SyncedOK(q, M, X)
ReqsOK == \A r \in Req : ReqOK(req[r], mvs, txns, sent)
\* The lock: two saves of one member's are not both under it.
LockOK ==
    \A r, o \in Req : /\ r # o /\ req[r].pc = "save" /\ req[o].pc = "save"
                      /\ req[r].user = req[o].user /\ req[r].locked
                      => ~req[o].locked

\* While no edits of one expense overlapped, what an edit loaded is still so.
Fresh(q, M, X) ==
    /\ q.pc \in {"edit", "synced"} =>
          q.old.amount = X[q.txn].amount /\ q.old.cash = X[q.txn].cash /\ q.old.payer = X[q.txn].payer
    /\ q.pc = "synced" => \A m \in q.takes : q.was[m] = M[m].amount
EditsFresh == ~raced => \A r \in Req : Fresh(req[r], mvs, txns)

\* Keys.
KeysOK ==
    /\ \A m \in Rows : mvs[m].for # NoOne =>
          /\ sent[mvs[m].for] # NoOne
          /\ sent[mvs[m].for][2].expense = (mvs[m].txn # 0)
          /\ mvs[m].txn = 0 => mvs[m].key = mvs[m].for
          /\ mvs[m].txn # 0 => txns[mvs[m].txn].key = mvs[m].for
    /\ \A t, o \in Txns : txns[t].key # NoOne /\ txns[t].key = txns[o].key => t = o
    /\ \A r \in Req : req[r].pc = "save" /\ req[r].key # NoOne /\ ~req[r].expense =>
          \A m \in Rows : mvs[m].for = req[r].key => mvs[m].aged

\* What a member's stash holds, others' takes given back.
OwnStash(u) ==
    StashBalance(u) + Total({m \in Rows : InStash(u, m) /\ mvs[m].kind = "take" /\ mvs[m].user # u})

(***************************************************************************)
(* Tables and balances.                                                    *)
(***************************************************************************)
LEMMA NextNumber ==
  ASSUME NEW S \in Numbers
  PROVE  /\ IsFiniteSet(S) /\ S \subseteq Nat /\ 0 \notin S
         /\ Cardinality(S) + 1 \in Nat /\ Cardinality(S) + 1 # 0 /\ Cardinality(S) + 1 \notin S
         /\ S \cup {Cardinality(S) + 1} \in Numbers
<1>1. PICK n \in Nat : S = 1 .. n
  BY DEF Numbers
<1>2. IsFiniteSet(S) /\ Cardinality(S) = n
  BY <1>1, FS_Interval
<1>3. S \cup {n + 1} = 1 .. n + 1
  BY <1>1
<1>4. S \cup {n + 1} \in Numbers
  BY <1>3 DEF Numbers
<1>5. Cardinality(S) + 1 = n + 1 /\ n + 1 \in Nat /\ n + 1 # 0 /\ n + 1 \notin S /\ S \subseteq Nat /\ 0 \notin S
  BY <1>1, <1>2
<1> QED BY <1>2, <1>4, <1>5

\* The stash as a sum over the whole table.
Worth(M, m) == IF M[m].kind = "take" THEN 0 - M[m].amount ELSE M[m].amount
InStashOf(M, u, m) ==
    /\ M[m].live
    /\ \/ M[m].user = u /\ M[m].kind \in {"stash_in", "put_back", "stash_count"}
       \/ M[m].kind = "take" /\ M[m].owner = u
Others(M, u, m) == InStashOf(M, u, m) /\ M[m].kind = "take" /\ M[m].user # u
StashFn(M, u) == [m \in DOMAIN M |-> IF InStashOf(M, u, m) THEN Worth(M, m) ELSE 0]
OthersFn(M, u) == [m \in DOMAIN M |-> IF Others(M, u, m) THEN M[m].amount ELSE 0]
OwnFn(M, u) == [m \in DOMAIN M |-> IF InStashOf(M, u, m) /\ ~Others(M, u, m) THEN Worth(M, m) ELSE 0]
Balance(M, u) == SumOver(StashFn(M, u), DOMAIN M)
OwnBalance(M, u) == SumOver(OwnFn(M, u), DOMAIN M)

LEMMA SumOfWorth ==
  ASSUME NEW M, NEW S, IsFiniteSet(S)
  PROVE  MapThenSumSet(LAMBDA m : IF M[m].kind = "take" THEN 0 - M[m].amount ELSE M[m].amount, S)
           = SumOver([m \in S |-> Worth(M, m)], S)
<1> DEFINE g == [m \in S |-> Worth(M, m)]
           Body(k) == [s \in SUBSET S |-> IF s = {} THEN 0
                        ELSE (IF M[Some(s)].kind = "take" THEN 0 - M[Some(s)].amount ELSE M[Some(s)].amount)
                             + k[s \ {Some(s)}]]
           k == CHOOSE x : x = Body(x)
<1>1. ASSUME NEW h PROVE IsSum(h, g, S) <=> h = Body(h)
  <2>1. \A s \in SUBSET S : s # {} => g[Some(s)] = (IF M[Some(s)].kind = "take" THEN 0 - M[Some(s)].amount ELSE M[Some(s)].amount)
    <3> TAKE s \in SUBSET S
    <3> HAVE s # {}
    <3>1. Some(s) \in S
      BY DEF Some
    <3> QED BY <3>1 DEF Worth
  <2>2. [s \in SUBSET S |-> IF s = {} THEN 0 ELSE g[Some(s)] + h[s \ {Some(s)}]] = Body(h)
    <3> HIDE DEF g
    <3> QED BY <2>1
  <2> HIDE DEF g, Body
  <2> QED BY <2>2 DEF IsSum
<1>2. PICK h : IsSum(h, g, S) /\ SumOver(g, S) = h[S]
  <2> HIDE DEF g
  <2> QED BY SumIs
<1>3. k = Body(k)
  <2>1. \E x : x = Body(x)
    BY <1>1, <1>2
  <2> HIDE DEF Body
  <2> QED BY <2>1
<1>4. IsSum(k, g, S)
  BY <1>1, <1>3
<1>5. h[S] = k[S]
  <2> HIDE DEF k, g
  <2> QED BY <1>2, <1>4, SumAgrees
<1>6. MapThenSumSet(LAMBDA m : IF M[m].kind = "take" THEN 0 - M[m].amount ELSE M[m].amount, S) = k[S]
  BY DEF MapThenSumSet, MapThenFoldSet, Some
<1> QED BY <1>2, <1>5, <1>6

LEMMA SumOfAmounts ==
  ASSUME NEW M, NEW S, IsFiniteSet(S)
  PROVE  MapThenSumSet(LAMBDA m : M[m].amount, S) = SumOver([m \in S |-> M[m].amount], S)
<1> DEFINE g == [m \in S |-> M[m].amount]
           Body(k) == [s \in SUBSET S |-> IF s = {} THEN 0 ELSE M[Some(s)].amount + k[s \ {Some(s)}]]
           k == CHOOSE x : x = Body(x)
<1>1. ASSUME NEW h PROVE IsSum(h, g, S) <=> h = Body(h)
  <2>1. \A s \in SUBSET S : s # {} => g[Some(s)] = M[Some(s)].amount
    BY DEF Some
  <2>2. [s \in SUBSET S |-> IF s = {} THEN 0 ELSE g[Some(s)] + h[s \ {Some(s)}]] = Body(h)
    <3> HIDE DEF g
    <3> QED BY <2>1
  <2> HIDE DEF g, Body
  <2> QED BY <2>2 DEF IsSum
<1>2. PICK h : IsSum(h, g, S) /\ SumOver(g, S) = h[S]
  <2> HIDE DEF g
  <2> QED BY SumIs
<1>3. k = Body(k)
  <2>1. \E x : x = Body(x)
    BY <1>1, <1>2
  <2> HIDE DEF Body
  <2> QED BY <2>1
<1>4. IsSum(k, g, S)
  BY <1>1, <1>3
<1>5. h[S] = k[S]
  <2> HIDE DEF k, g
  <2> QED BY <1>2, <1>4, SumAgrees
<1>6. MapThenSumSet(LAMBDA m : M[m].amount, S) = k[S]
  BY DEF MapThenSumSet, MapThenFoldSet, Some
<1> QED BY <1>2, <1>5, <1>6

Table(M) == DOMAIN M \in Numbers /\ M \in [DOMAIN M -> MoveRow]

LEMMA FnTypes ==
  ASSUME NEW M, Table(M), NEW u
  PROVE  \A m \in DOMAIN M : StashFn(M, u)[m] \in Int /\ OthersFn(M, u)[m] \in Int /\ OwnFn(M, u)[m] \in Int
<1> TAKE m \in DOMAIN M
<1>1. M[m].amount \in Int
  BY DEF Table, MoveRow
<1> QED BY <1>1 DEF StashFn, OthersFn, OwnFn, Worth

\* A stash, others' takes given back.
LEMMA OwnIsRest ==
  ASSUME NEW M, Table(M), NEW u
  PROVE  /\ OwnBalance(M, u) = Balance(M, u) + SumOver(OthersFn(M, u), DOMAIN M)
         /\ Balance(M, u) \in Int /\ OwnBalance(M, u) \in Int
<1>1. IsFiniteSet(DOMAIN M)
  BY NextNumber DEF Table
<1>2. \A m \in DOMAIN M : /\ StashFn(M, u)[m] \in Int /\ OthersFn(M, u)[m] \in Int
                          /\ OwnFn(M, u)[m] = StashFn(M, u)[m] + OthersFn(M, u)[m]
  <2> TAKE m \in DOMAIN M
  <2>1. M[m].amount \in Int
    BY DEF Table, MoveRow
  <2> QED BY <2>1 DEF StashFn, OthersFn, OwnFn, Worth, Others
<1>3. OwnBalance(M, u) = Balance(M, u) + SumOver(OthersFn(M, u), DOMAIN M)
  BY <1>1, <1>2, SumPlus DEF OwnBalance, Balance
<1>4. Balance(M, u) \in Int /\ OwnBalance(M, u) \in Int
  BY <1>1, FnTypes, SumInt DEF OwnBalance, Balance
<1> QED BY <1>3, <1>4

LEMMA OwnIsMore ==
  ASSUME NEW M, Table(M), NEW u, \A m \in DOMAIN M : M[m].kind # "stash_count" => M[m].amount >= 0
  PROVE  Balance(M, u) <= OwnBalance(M, u)
<1>1. IsFiniteSet(DOMAIN M)
  BY NextNumber DEF Table
<1>2. \A m \in DOMAIN M : OthersFn(M, u)[m] \in Nat
  <2> TAKE m \in DOMAIN M
  <2>1. M[m].amount \in Int
    BY DEF Table, MoveRow
  <2> QED BY <2>1 DEF OthersFn, Others
<1>3. SumOver(OthersFn(M, u), DOMAIN M) \in Nat
  BY <1>1, <1>2, SumNat
<1> QED BY <1>3, OwnIsRest

\* What the model computes are these sums, before and after a step.

LEMMA StashIs ==
  ASSUME Table(mvs), NEW u
  PROVE  StashBalance(u) = Balance(mvs, u)
<1> DEFINE S == {m \in DOMAIN mvs : InStashOf(mvs, u, m)}
           all == [m \in DOMAIN mvs |-> Worth(mvs, m)]
<1>1. IsFiniteSet(DOMAIN mvs) /\ S \in SUBSET (DOMAIN mvs) /\ IsFiniteSet(S)
  BY NextNumber, FS_Subset DEF Table
<1>2. \A m \in DOMAIN mvs : all[m] \in Int
  BY DEF Table, MoveRow, Worth
<1>3. StashBalance(u) = MapThenSumSet(LAMBDA m : IF mvs[m].kind = "take" THEN 0 - mvs[m].amount ELSE mvs[m].amount, S)
  BY DEF StashBalance, Signed, InStash, InStashOf, Rows, MapThenSumSet, MapThenFoldSet
<1>4. StashBalance(u) = SumOver([m \in S |-> Worth(mvs, m)], S)
  <2> HIDE DEF S
  <2> QED BY <1>1, <1>3, SumOfWorth
<1>5. SumOver([m \in S |-> Worth(mvs, m)], S) = SumOver(all, S)
  <2>1. \A m \in S : [x \in S |-> Worth(mvs, x)][m] = all[m]
    OBVIOUS
  <2> HIDE DEF S, all
  <2> QED BY <1>1, <2>1, SumCongruent
<1>6. SumOver(all, S) = SumOver([m \in DOMAIN mvs |-> IF m \in S THEN all[m] ELSE 0], DOMAIN mvs)
  <2> HIDE DEF S, all
  <2> QED BY <1>1, <1>2, SumWhere
<1>7. [m \in DOMAIN mvs |-> IF m \in S THEN all[m] ELSE 0] = StashFn(mvs, u)
  BY DEF StashFn
<1> QED BY <1>4, <1>5, <1>6, <1>7 DEF Balance

LEMMA OwnIs ==
  ASSUME Table(mvs), NEW u
  PROVE  OwnStash(u) = OwnBalance(mvs, u)
<1> DEFINE S == {m \in DOMAIN mvs : Others(mvs, u, m)}
           all == [m \in DOMAIN mvs |-> mvs[m].amount]
<1>1. IsFiniteSet(DOMAIN mvs) /\ S \in SUBSET (DOMAIN mvs) /\ IsFiniteSet(S)
  BY NextNumber, FS_Subset DEF Table
<1>2. \A m \in DOMAIN mvs : all[m] \in Int
  BY DEF Table, MoveRow
<1>3. Total({m \in Rows : InStash(u, m) /\ mvs[m].kind = "take" /\ mvs[m].user # u}) = MapThenSumSet(LAMBDA m : mvs[m].amount, S)
  BY DEF Total, InStash, InStashOf, Others, Rows, MapThenSumSet, MapThenFoldSet
<1>4. MapThenSumSet(LAMBDA m : mvs[m].amount, S) = SumOver([m \in S |-> mvs[m].amount], S)
  <2> HIDE DEF S
  <2> QED BY <1>1, <1>3, SumOfAmounts
<1>5. SumOver([m \in S |-> mvs[m].amount], S) = SumOver(all, S)
  <2>1. \A m \in S : [x \in S |-> mvs[x].amount][m] = all[m]
    OBVIOUS
  <2> HIDE DEF S, all
  <2> QED BY <1>1, <2>1, SumCongruent
<1>6. SumOver(all, S) = SumOver([m \in DOMAIN mvs |-> IF m \in S THEN all[m] ELSE 0], DOMAIN mvs)
  <2> HIDE DEF S, all
  <2> QED BY <1>1, <1>2, SumWhere
<1>7. [m \in DOMAIN mvs |-> IF m \in S THEN all[m] ELSE 0] = OthersFn(mvs, u)
  BY DEF OthersFn
<1>8. Total({m \in Rows : InStash(u, m) /\ mvs[m].kind = "take" /\ mvs[m].user # u}) = SumOver(OthersFn(mvs, u), DOMAIN mvs)
  BY <1>3, <1>4, <1>5, <1>6, <1>7
<1>9. StashBalance(u) = Balance(mvs, u)
  BY StashIs
<1> QED BY <1>8, <1>9, OwnIsRest DEF OwnStash

LEMMA StashIsNext ==
  ASSUME Table(mvs'), NEW u
  PROVE  StashBalance(u)' = Balance(mvs', u)
<1> DEFINE S == {m \in DOMAIN mvs' : InStashOf(mvs', u, m)}
           all == [m \in DOMAIN mvs' |-> Worth(mvs', m)]
<1>1. IsFiniteSet(DOMAIN mvs') /\ S \in SUBSET (DOMAIN mvs') /\ IsFiniteSet(S)
  BY NextNumber, FS_Subset DEF Table
<1>2. \A m \in DOMAIN mvs' : all[m] \in Int
  BY DEF Table, MoveRow, Worth
<1>3. StashBalance(u)' = MapThenSumSet(LAMBDA m : IF mvs'[m].kind = "take" THEN 0 - mvs'[m].amount ELSE mvs'[m].amount, S)
  BY DEF StashBalance, Signed, InStash, InStashOf, Rows, MapThenSumSet, MapThenFoldSet
<1>4. StashBalance(u)' = SumOver([m \in S |-> Worth(mvs', m)], S)
  <2> HIDE DEF S
  <2> QED BY <1>1, <1>3, SumOfWorth
<1>5. SumOver([m \in S |-> Worth(mvs', m)], S) = SumOver(all, S)
  <2>1. \A m \in S : [x \in S |-> Worth(mvs', x)][m] = all[m]
    OBVIOUS
  <2> HIDE DEF S, all
  <2> QED BY <1>1, <2>1, SumCongruent
<1>6. SumOver(all, S) = SumOver([m \in DOMAIN mvs' |-> IF m \in S THEN all[m] ELSE 0], DOMAIN mvs')
  <2> HIDE DEF S, all
  <2> QED BY <1>1, <1>2, SumWhere
<1>7. [m \in DOMAIN mvs' |-> IF m \in S THEN all[m] ELSE 0] = StashFn(mvs', u)
  BY DEF StashFn
<1> QED BY <1>4, <1>5, <1>6, <1>7 DEF Balance

(***************************************************************************)
(* What every step keeps of the tables, and what is under way beside it.   *)
(***************************************************************************)
Basic == Types /\ RowsOK /\ ReqsOK /\ LockOK

Requests == {Idle} \cup SaveReq \cup TagReq \cup UnsaveReq \cup EditReq \cup SyncedReq

LEMMA ReqKinds ==
  ASSUME NEW q \in Requests
  PROVE  /\ q.pc \in {"idle", "save", "tag", "unsave", "edit", "synced"}
         /\ q.pc = "idle" <=> q = Idle
         /\ q.pc = "save" => q \in SaveReq
         /\ q.pc = "tag" => q \in TagReq
         /\ q.pc = "unsave" => q \in UnsaveReq
         /\ q.pc = "edit" => q \in EditReq
         /\ q.pc = "synced" => q \in SyncedReq
<1>1. CASE q = Idle
  BY <1>1 DEF Idle
<1>2. CASE q \in SaveReq
  BY <1>2 DEF SaveReq, Idle
<1>3. CASE q \in TagReq
  BY <1>3 DEF TagReq, Idle
<1>4. CASE q \in UnsaveReq
  <2>1. q.pc = "unsave"
    BY <1>4 DEF UnsaveReq
  <2>2. q # Idle
    BY <2>1 DEF Idle
  <2> QED BY <1>4, <2>1, <2>2
<1>5. CASE q \in EditReq
  BY <1>5 DEF EditReq, Idle
<1>6. CASE q \in SyncedReq
  <2>1. q.pc = "synced"
    BY <1>6 DEF SyncedReq
  <2>2. q # Idle
    BY <2>1 DEF Idle
  <2> QED BY <1>6, <2>1, <2>2
<1> QED BY <1>1, <1>2, <1>3, <1>4, <1>5, <1>6 DEF Requests

\* A request beside the step: as it was, or marked as upset.
Same(q, p) == p = q \/ (q.pc = "save" /\ p = [q EXCEPT !.upset = TRUE])

LEMMA SameFields ==
  ASSUME NEW q \in Requests, NEW p, Same(q, p)
  PROVE  /\ p \in Requests /\ p.pc = q.pc
         /\ q.pc # "save" => p = q
         /\ q.pc = "save" =>
               /\ p.user = q.user /\ p.locked = q.locked /\ p.kind = q.kind /\ p.owner = q.owner
               /\ p.amount = q.amount /\ p.counted = q.counted /\ p.month = q.month /\ p.expense = q.expense
               /\ p.key = q.key /\ p.via = q.via /\ p.relies = q.relies
<1>1. CASE p = q
  BY <1>1
<1>2. CASE q.pc = "save" /\ p = [q EXCEPT !.upset = TRUE]
  <2>1. q \in SaveReq
    BY <1>2, ReqKinds
  <2>2. p \in SaveReq
    BY <1>2, <2>1 DEF SaveReq
  <2>3. /\ p.pc = q.pc /\ p.user = q.user /\ p.locked = q.locked /\ p.kind = q.kind /\ p.owner = q.owner
        /\ p.amount = q.amount /\ p.counted = q.counted /\ p.month = q.month /\ p.expense = q.expense
        /\ p.key = q.key /\ p.via = q.via /\ p.relies = q.relies
    BY <1>2, <2>1 DEF SaveReq
  <2> QED BY <1>2, <2>2, <2>3 DEF Requests
<1> QED BY <1>1, <1>2 DEF Same

LEMMA UpsetSame ==
  ASSUME Types, NEW r \in Req, NEW u, NEW after, after \in Requests,
         req' = Upset(r, u, [req EXCEPT ![r] = after])
  PROVE  /\ req'[r] = after
         /\ \A o \in Req \ {r} : Same(req[o], req'[o])
         /\ \A o \in Req \ {r} : req[o].pc = "save" /\ req[o].user = u
                                 /\ ~(req[o].locked /\ req[r].locked /\ req[r].user = u)
                                 => req'[o].upset
         /\ req' \in [Req -> Requests]
<1>1. req'[r] = after
  BY DEF Upset, Types
<1>2. \A o \in Req \ {r} : Same(req[o], req'[o])
  BY DEF Upset, Types, Same
<1>3. ASSUME NEW o \in Req \ {r}, req[o].pc = "save", req[o].user = u,
             ~(req[o].locked /\ req[r].locked /\ req[r].user = u)
      PROVE  req'[o].upset
  <2>1. req'[o] = [req[o] EXCEPT !.upset = TRUE]
    BY <1>3 DEF Upset, Types
  <2>2. req[o] \in SaveReq
    BY <1>3, ReqKinds DEF Types, Requests
  <2> QED BY <2>1, <2>2 DEF SaveReq
<1>4. req' \in [Req -> Requests]
  <2>1. \A o \in Req : req[o] \in Requests
    BY DEF Types, Requests
  <2>2. \A o \in Req : req'[o] \in Requests
    BY <1>1, <1>2, <2>1, SameFields
  <2>3. DOMAIN req' = Req /\ req' = [o \in Req |-> req'[o]]
    BY DEF Upset
  <2> QED BY <2>2, <2>3
<1> QED BY <1>1, <1>2, <1>3, <1>4

\* Rows and expenses stay; of a row its state, its tags and a take's amount change.
Evolves(M, X, S, M2, X2, S2) ==
    /\ DOMAIN M \subseteq DOMAIN M2 /\ DOMAIN X \subseteq DOMAIN X2
    /\ \A m \in DOMAIN M :
          /\ M2[m].user = M[m].user /\ M2[m].kind = M[m].kind /\ M2[m].owner = M[m].owner
          /\ M2[m].txn = M[m].txn /\ M2[m].for = M[m].for
          /\ M2[m].live => M[m].live
          /\ M[m].kind # "take" => M2[m].amount = M[m].amount
    /\ \A m \in DOMAIN M2 \ DOMAIN M : M2[m].txn \notin DOMAIN X
    /\ \A k \in Key : S[k] # NoOne => S2[k] = S[k]

LEMMA BesideOK ==
  ASSUME NEW M, NEW X, NEW S, NEW M2, NEW X2, NEW S2, Evolves(M, X, S, M2, X2, S2),
         NEW q \in Requests, NEW p, Same(q, p), ReqOK(q, M, X, S)
  PROVE  ReqOK(p, M2, X2, S2)
<1>f. /\ p \in Requests /\ p.pc = q.pc
      /\ q.pc # "save" => p = q
      /\ q.pc = "save" =>
               /\ p.user = q.user /\ p.locked = q.locked /\ p.kind = q.kind /\ p.owner = q.owner
               /\ p.amount = q.amount /\ p.counted = q.counted /\ p.month = q.month /\ p.expense = q.expense
               /\ p.key = q.key /\ p.via = q.via /\ p.relies = q.relies
  BY SameFields
<1>2. CASE q.pc = "save"
  <2>1. SaveOK(q, S) /\ q \in SaveReq
    BY <1>2, ReqKinds DEF ReqOK
  <2>2. SaveOK(p, S2)
    <3>1. q.key # NoOne => q.key \in Key /\ S2[q.key] = S[q.key]
      BY <2>1 DEF SaveReq, SaveOK, Evolves
    <3> QED BY <1>2, <1>f, <2>1, <3>1 DEF SaveOK
  <2> QED BY <1>2, <1>f, <2>2 DEF ReqOK
<1>3. CASE q.pc = "tag"
  BY <1>3, <1>f DEF ReqOK, TagOK, Evolves
<1>4. CASE q.pc = "unsave"
  BY <1>4, <1>f DEF ReqOK, UnsaveOK, Evolves, Adds
<1>5. CASE q.pc = "edit"
  BY <1>5, <1>f DEF ReqOK, EditOK, Evolves
<1>6. CASE q.pc = "synced"
  <2>1. SyncedOK(q, M, X) /\ p = q
    BY <1>6, <1>f DEF ReqOK
  <2>2. SyncedOK(q, M2, X2)
    <3>1. q.txn \in DOMAIN X2 /\ q.takes \subseteq DOMAIN M2 /\ \A m \in q.takes : m \in DOMAIN M /\ M2[m].txn = q.txn
      BY <2>1 DEF SyncedOK, Evolves
    <3>2. Linked(M2, q.txn) \subseteq q.takes
      <4> SUFFICES ASSUME NEW m \in DOMAIN M2, M2[m].live, M2[m].txn = q.txn PROVE m \in q.takes
        BY DEF Linked
      <4>1. m \in DOMAIN M
        BY <2>1 DEF SyncedOK, Evolves
      <4>2. M[m].live /\ M[m].txn = q.txn
        BY <4>1 DEF Evolves
      <4> QED BY <2>1, <4>1, <4>2 DEF SyncedOK, Linked
    <3>3. \A m \in q.takes : M2[m].user = M[m].user /\ M2[m].owner = M[m].owner
      BY <3>1 DEF Evolves
    <3> QED BY <2>1, <3>1, <3>2, <3>3 DEF SyncedOK
  <2> QED BY <1>6, <2>1, <2>2 DEF ReqOK
<1>7. CASE q.pc = "idle"
  BY <1>7, <1>f DEF ReqOK
<1>8. q.pc \in {"idle", "save", "tag", "unsave", "edit", "synced"}
  BY ReqKinds
<1> QED BY <1>2, <1>3, <1>4, <1>5, <1>6, <1>7, <1>8

Step == Evolves(mvs, txns, sent, mvs', txns', sent')

LEMMA ReqTypes == Types => \A r \in Req : req[r] \in Requests
BY DEF Types, Requests

\* A request r that moves, the others beside it.
LEMMA RequestsKept ==
  ASSUME Basic, Step, NEW r \in Req,
         \A o \in Req \ {r} : Same(req[o], req'[o]), ReqOK(req'[r], mvs', txns', sent'),
         req'[r].pc = "save" /\ req'[r].locked => ~LockHeld(req'[r].user)
  PROVE  ReqsOK' /\ LockOK'
<1>0. \A o \in Req : req[o] \in Requests
  BY ReqTypes DEF Basic
<1>1. \A o \in Req : ReqOK(req'[o], mvs', txns', sent')
  BY <1>0, BesideOK DEF Step, Basic, ReqsOK
<1>3. LockOK'
  <2> SUFFICES ASSUME NEW a \in Req, NEW o \in Req, a # o, req'[a].pc = "save", req'[o].pc = "save",
                      req'[a].user = req'[o].user, req'[a].locked, req'[o].locked
               PROVE  FALSE
    BY DEF LockOK
  <2>1. \A x \in Req \ {r} : req'[x].pc = "save" => /\ req[x].pc = "save" /\ req'[x].user = req[x].user
                                                     /\ req'[x].locked = req[x].locked
    BY <1>0, SameFields
  <2>2. CASE a # r /\ o # r
    BY <2>1, <2>2 DEF Basic, LockOK
  <2>3. CASE a = r
    <3>1. LockHeld(req'[r].user)
      BY <2>1, <2>3 DEF LockHeld, Open
    <3> QED BY <2>3, <3>1
  <2>4. CASE o = r
    <3>1. LockHeld(req'[r].user)
      BY <2>1, <2>4 DEF LockHeld, Open
    <3> QED BY <2>4, <3>1
  <2> QED BY <2>2, <2>3, <2>4
<1> QED BY <1>1, <1>3 DEF ReqsOK

LEMMA RequestsStay ==
  ASSUME Basic, Step, \A o \in Req : Same(req[o], req'[o])
  PROVE  ReqsOK' /\ LockOK'
<1>0. \A o \in Req : req[o] \in Requests
  BY ReqTypes DEF Basic
<1>1. \A o \in Req : ReqOK(req'[o], mvs', txns', sent')
  BY <1>0, BesideOK DEF Step, Basic, ReqsOK
<1>2. \A x \in Req : req'[x].pc = "save" => /\ req[x].pc = "save" /\ req'[x].user = req[x].user
                                             /\ req'[x].locked = req[x].locked
  BY <1>0, SameFields
<1> QED BY <1>1, <1>2 DEF ReqsOK, LockOK, Basic

(***************************************************************************)
(* The types, the tables and the requests, action by action.               *)
(***************************************************************************)
LEMMA Tables == Types => Table(mvs) /\ DOMAIN txns \in Numbers /\ txns \in [DOMAIN txns -> TxnRow]
BY DEF Types, Table, Rows, Txns

\* Tables that a step leaves alone.
LEMMA SameTables ==
  ASSUME Basic, UNCHANGED <<mvs, txns>>, \A k \in Key : sent[k] # NoOne => sent'[k] = sent[k]
  PROVE  Step /\ RowsOK'
BY DEF Step, Evolves, Basic, RowsOK, RowOK, Rows, Txns

LEMMA BeginSaveBasic ==
  ASSUME Basic, NEW r \in Req, NEW u \in Member, NEW s \in Saves, NEW key \in Key \cup {NoOne}, NEW via \in Vias,
         BeginSave(r, u, s, key, via), key # NoOne /\ ~s.expense => via = "api"
  PROVE  Basic' /\ Step
<1> DEFINE amount == IF s.kind = "stash_count" THEN s.amount - StashBalance(u) ELSE s.amount
           new == [pc |-> "save", user |-> u, locked |-> via = "api", kind |-> s.kind,
                       owner |-> s.owner, amount |-> amount, counted |-> s.amount,
                       month |-> s.month, expense |-> s.expense, key |-> key, via |-> via,
                       relies |-> s.kind = "stash_count" \/ (s.kind = "take" /\ s.owner = u),
                       upset |-> FALSE]
<1>1. /\ s.kind \in Kinds /\ s.owner \in Member \cup {NoOne} /\ s.amount \in Nat /\ s.month \in Months
      /\ s.expense \in BOOLEAN /\ (s.expense \/ s.owner # NoOne => s.kind = "take")
  BY FormsAssumption, CashAssumption
<1>2. StashBalance(u) \in Int
  BY Tables, StashIs, OwnIsRest DEF Basic
<1>3. amount \in Int /\ (s.kind # "stash_count" => amount >= 0)
  BY <1>1, <1>2
<1>4. /\ UNCHANGED <<mvs, txns, stamp, raced>>
      /\ begun' \in Nat
      /\ req' = [req EXCEPT ![r] = new]
      /\ sent' = IF key = NoOne THEN sent ELSE [sent EXCEPT ![key] = <<u, s, via>>]
      /\ key # NoOne => sent[key] \in {NoOne, <<u, s, via>>}
      /\ via = "api" => ~LockHeld(u)
  BY DEF BeginSave, Begins, Basic, Types
<1> HIDE DEF amount
<1>5. new \in SaveReq
  BY <1>1, <1>3 DEF SaveReq
<1>6. <<u, s, via>> \in Sent /\ <<u, s, via>> # NoOne
  BY FormsAssumption DEF Sent
<1> HIDE DEF new
<1>7. req' \in [Req -> Requests] /\ req'[r] = new /\ \A o \in Req \ {r} : req'[o] = req[o]
  BY <1>4, <1>5, ReqTypes DEF Basic, Types, Requests
<1>8. sent' \in [Key -> Sent \cup {NoOne}] /\ (key # NoOne => sent'[key] = <<u, s, via>>)
      /\ \A k \in Key : sent[k] # NoOne => sent'[k] = sent[k]
  BY <1>4, <1>6 DEF Basic, Types
<1>9. Types'
  BY <1>4, <1>7, <1>8 DEF Basic, Types, Rows, Txns, Requests
<1>10. Step /\ RowsOK'
  BY <1>4, <1>8, SameTables
<1>11. ReqOK(new, mvs', txns', sent')
  <2>1. /\ new.pc = "save" /\ new.user = u /\ new.kind = s.kind /\ new.owner = s.owner /\ new.amount = amount
        /\ new.expense = s.expense /\ new.key = key /\ new.via = via
    BY DEF new
  <2>2. (new.locked <=> via = "api") /\ (new.relies <=> s.kind = "stash_count" \/ (s.kind = "take" /\ s.owner = u))
    BY DEF new
  <2>3. key # NoOne => /\ sent'[key] # NoOne /\ sent'[key][1] = u /\ sent'[key][2] = s /\ sent'[key][3] = via
    BY <1>6, <1>8
  <2>4. SaveOK(new, sent')
    BY <1>1, <1>3, <2>1, <2>2, <2>3 DEF SaveOK
  <2> QED BY <2>1, <2>4 DEF ReqOK
<1>12. new.user = u /\ (new.locked <=> via = "api")
  BY DEF new
<1>13. ReqsOK' /\ LockOK'
  <2>1. \A o \in Req \ {r} : Same(req[o], req'[o])
    BY <1>7 DEF Same
  <2>2. req'[r].locked => ~LockHeld(req'[r].user)
    BY <1>4, <1>7, <1>12
  <2> QED BY <1>7, <1>10, <1>11, <2>1, <2>2, RequestsKept
<1> QED BY <1>9, <1>10, <1>13 DEF Basic

\* The row a save inserts.
NewRow(q) ==
    [kind |-> q.kind, user |-> q.user, owner |-> q.owner, amount |-> q.amount, month |-> q.month,
     txn |-> IF q.expense THEN Cardinality(Txns) + 1 ELSE 0, live |-> TRUE,
     key |-> IF q.expense THEN NoOne ELSE q.key, aged |-> FALSE, at |-> stamp + 1, for |-> q.key]
NewTxn(q) == [payer |-> q.user, amount |-> q.amount, month |-> q.month, cash |-> TRUE, live |-> TRUE,
              key |-> q.key, at |-> stamp]
NextRow == Cardinality(Rows) + 1
NextTxn == Cardinality(Txns) + 1
LostRace(q) == q.expense /\ q.key # NoOne /\ HasExpense(q.key)
After(q) == IF q.expense /\ q.key # NoOne /\ q.via = "api" /\ ~LostRace(q)
            THEN [pc |-> "tag", user |-> q.user, row |-> NextRow, key |-> q.key] ELSE Idle
StashOf(q) == IF q.kind = "take" THEN q.owner ELSE q.user

\* What the commit of a save does to the tables.
LEMMA CommitSaveShape ==
  ASSUME Basic, NEW r \in Req, CommitSave(r)
  PROVE  /\ req[r] \in SaveReq /\ SaveOK(req[r], sent)
         /\ req'[r] = After(req[r]) /\ (\A o \in Req \ {r} : Same(req[o], req'[o]))
         /\ \A o \in Req \ {r} : req[o].pc = "save" /\ req[o].user = StashOf(req[r]) => req'[o].upset
         /\ raced' = (raced \/ (Lowers(req[r]) /\ Races(r, req[r].user)))
         /\ sent' = sent
         /\ LostRace(req[r]) => mvs' = mvs /\ txns' = txns
         /\ ~LostRace(req[r]) =>
               /\ NextRow \notin Rows /\ NextTxn \notin Txns /\ NextTxn # 0
               /\ DOMAIN mvs' = Rows \cup {NextRow} /\ mvs'[NextRow] = NewRow(req[r])
               /\ \A m \in Rows : mvs'[m] = mvs[m]
               /\ ~req[r].expense => txns' = txns
               /\ req[r].expense => /\ DOMAIN txns' = Txns \cup {NextTxn} /\ txns'[NextTxn] = NewTxn(req[r])
                                    /\ \A t \in Txns : txns'[t] = txns[t]
         /\ Types'
<1> DEFINE q == req[r]
<1>1. q.pc = "save" /\ q \in Requests
  BY ReqTypes DEF CommitSave, Basic
<1>2. q \in SaveReq
  <2> HIDE DEF q
  <2> QED BY <1>1, ReqKinds
<1>3. SaveOK(q, sent)
  BY <1>1 DEF Basic, ReqsOK, ReqOK
<1>4. /\ req' = Upset(r, StashOf(q), [req EXCEPT ![r] = After(q)])
      /\ raced' = (raced \/ (Lowers(q) /\ Races(r, q.user)))
      /\ UNCHANGED <<sent, begun>>
  BY DEF CommitSave, StashOf, After, LostRace, NextRow
<1>r. /\ NextRow \in Nat /\ NextRow \notin Rows /\ Rows \cup {NextRow} \in Numbers
      /\ NextTxn \in Nat /\ NextTxn \notin Txns /\ Txns \cup {NextTxn} \in Numbers /\ NextTxn # 0
  BY NextNumber DEF Basic, Types, NextRow, NextTxn
<1>6. /\ LostRace(q) => mvs' = mvs /\ txns' = txns /\ stamp' = stamp
      /\ ~LostRace(q) =>
            /\ mvs' = [x \in Rows \cup {NextRow} |-> IF x = NextRow THEN NewRow(q) ELSE mvs[x]]
            /\ txns' = IF ~q.expense THEN txns
                       ELSE [x \in Txns \cup {NextTxn} |-> IF x = NextTxn THEN NewTxn(q) ELSE txns[x]]
            /\ stamp' = stamp + 2
  BY DEF CommitSave, LostRace, NextRow, NextTxn, NewRow, NewTxn
<1> HIDE DEF q
<1>7. After(q) \in Requests
  <2>1. CASE q.expense /\ q.key # NoOne /\ q.via = "api" /\ ~LostRace(q)
    <3>1. [pc |-> "tag", user |-> q.user, row |-> NextRow, key |-> q.key] \in TagReq
      BY <1>2, <1>r, <2>1 DEF TagReq, SaveReq
    <3> QED BY <2>1, <3>1 DEF After, Requests
  <2> QED BY <2>1 DEF After, Requests
<1>8. /\ req'[r] = After(q) /\ (\A o \in Req \ {r} : Same(req[o], req'[o]))
      /\ \A o \in Req \ {r} : req[o].pc = "save" /\ req[o].user = StashOf(q)
                              /\ ~(req[o].locked /\ req[r].locked /\ req[r].user = StashOf(q))
                              => req'[o].upset
      /\ req' \in [Req -> Requests]
  BY <1>4, <1>7, UpsetSame DEF Basic
<1>9. \A o \in Req \ {r} : req[o].pc = "save" /\ req[r].locked /\ req[o].user = req[r].user => ~req[o].locked
  BY <1>1 DEF Basic, LockOK, q
<1>10. NewRow(q) \in MoveRow /\ (q.expense => NewTxn(q) \in TxnRow)
  <2>1. stamp \in Nat
    BY DEF Basic, Types
  <2>2. NewRow(q) \in MoveRow
    BY <1>2, <1>r, <2>1 DEF NewRow, MoveRow, SaveReq, NextTxn
  <2>3. ASSUME q.expense PROVE NewTxn(q) \in TxnRow
    <3>1. q.kind = "take" /\ q.amount >= 0
      BY <1>3, <2>3 DEF SaveOK
    <3> QED BY <1>2, <2>1, <3>1 DEF NewTxn, TxnRow, SaveReq
  <2> QED BY <2>2, <2>3
<1>11. Types'
  <2>1. CASE LostRace(q)
    BY <2>1, <1>4, <1>6, <1>8 DEF Basic, Types, Rows, Txns, Requests
  <2>2. CASE ~LostRace(q)
    <3>1. Rows' \in Numbers /\ mvs' \in [Rows' -> MoveRow]
      BY <2>2, <1>6, <1>r, <1>10 DEF Basic, Types, Rows
    <3>2. Txns' \in Numbers /\ txns' \in [Txns' -> TxnRow]
      BY <2>2, <1>6, <1>r, <1>10 DEF Basic, Types, Txns
    <3>3. stamp' \in Nat /\ raced' \in BOOLEAN /\ begun' \in Nat /\ sent' \in [Key -> Sent \cup {NoOne}]
      BY <2>2, <1>4, <1>6 DEF Basic, Types
    <3> QED BY <3>1, <3>2, <3>3, <1>8 DEF Types, Requests
  <2> QED BY <2>1, <2>2
<1>12. ~LostRace(q) =>
               /\ DOMAIN mvs' = Rows \cup {NextRow} /\ mvs'[NextRow] = NewRow(q)
               /\ \A m \in Rows : mvs'[m] = mvs[m]
               /\ ~q.expense => txns' = txns
               /\ q.expense => /\ DOMAIN txns' = Txns \cup {NextTxn} /\ txns'[NextTxn] = NewTxn(q)
                               /\ \A t \in Txns : txns'[t] = txns[t]
  BY <1>6, <1>r
<1> QED BY <1>2, <1>3, <1>4, <1>6, <1>8, <1>9, <1>11, <1>12, <1>r DEF q

LEMMA CommitSaveBasic ==
  ASSUME Basic, NEW r \in Req, CommitSave(r)
  PROVE  Basic' /\ Step
<1> DEFINE q == req[r]
<1>s. /\ q \in SaveReq /\ SaveOK(q, sent)
      /\ req'[r] = After(q) /\ (\A o \in Req \ {r} : Same(req[o], req'[o]))
      /\ sent' = sent
      /\ LostRace(q) => mvs' = mvs /\ txns' = txns
      /\ ~LostRace(q) =>
            /\ NextRow \notin Rows /\ NextTxn \notin Txns /\ NextTxn # 0
            /\ DOMAIN mvs' = Rows \cup {NextRow} /\ mvs'[NextRow] = NewRow(q)
            /\ \A m \in Rows : mvs'[m] = mvs[m]
            /\ ~q.expense => txns' = txns
            /\ q.expense => /\ DOMAIN txns' = Txns \cup {NextTxn} /\ txns'[NextTxn] = NewTxn(q)
                            /\ \A t \in Txns : txns'[t] = txns[t]
      /\ Types'
  BY CommitSaveShape
<1>a. After(q).pc \in {"tag", "idle"} /\ (After(q).pc = "tag" => ~LostRace(q) /\ q.expense /\ After(q).row = NextRow)
  BY DEF After, Idle
<1>n. /\ NewRow(q).kind = q.kind /\ NewRow(q).owner = q.owner /\ NewRow(q).amount = q.amount
      /\ NewRow(q).txn = IF q.expense THEN NextTxn ELSE 0
  BY DEF NewRow, NextTxn
<1>1. CASE LostRace(q)
  <2>1. Step /\ RowsOK'
    BY <1>1, <1>s, SameTables
  <2>2. ReqOK(req'[r], mvs', txns', sent')
    BY <1>1, <1>s, <1>a DEF ReqOK
  <2>3. req'[r].pc # "save"
    BY <1>s, <1>a
  <2>4. ReqsOK' /\ LockOK'
    BY <1>s, <2>1, <2>2, <2>3, RequestsKept
  <2> QED BY <1>s, <2>1, <2>4 DEF Basic
<1>2. CASE ~LostRace(q)
  <2>0. 0 \notin Txns
    BY NextNumber DEF Basic, Types
  <2>t. Txns \subseteq DOMAIN txns' /\ (q.expense => NextTxn \in DOMAIN txns')
    BY <1>2, <1>s DEF Txns
  <2>1. Step
    <3>1. \A m \in DOMAIN mvs' \ Rows : mvs'[m].txn \notin Txns
      BY <1>2, <1>s, <1>n, <2>0
    <3>2. Rows \subseteq DOMAIN mvs' /\ \A m \in Rows : mvs'[m] = mvs[m]
      BY <1>2, <1>s
    <3> QED BY <3>1, <3>2, <2>t, <1>s DEF Step, Evolves, Rows, Txns
  <2>2. RowsOK'
    <3>1. ASSUME NEW m \in Rows' PROVE RowOK(m)'
      <4>1. CASE m = NextRow
        <5>1. mvs'[m] = NewRow(q)
          BY <1>2, <1>s, <4>1
        <5>2. /\ NewRow(q).owner # NoOne \/ NewRow(q).txn # 0 => NewRow(q).kind = "take"
              /\ NewRow(q).kind # "stash_count" => NewRow(q).amount >= 0
              /\ NewRow(q).txn \in {0} \cup DOMAIN txns'
          BY <1>s, <1>n, <2>t DEF SaveOK
        <5> QED BY <5>1, <5>2 DEF RowOK, Txns
      <4>2. CASE m \in Rows
        <5>1. RowOK(m) /\ mvs'[m] = mvs[m]
          BY <4>2, <1>2, <1>s DEF Basic, RowsOK
        <5> QED BY <5>1, <2>t DEF RowOK, Txns
      <4> QED BY <1>2, <1>s, <3>1, <4>1, <4>2 DEF Rows
    <3>2. ASSUME NEW m \in Rows', NEW n \in Rows', mvs'[m].txn # 0, mvs'[m].txn = mvs'[n].txn PROVE m = n
      <4>1. \A x \in Rows : mvs'[x].txn \in {0} \cup Txns /\ mvs'[x] = mvs[x]
        BY <1>2, <1>s DEF Basic, RowsOK, RowOK
      <4>2. mvs'[NextRow].txn \notin Txns
        BY <1>2, <1>s, <1>n, <2>0
      <4>3. Rows' = Rows \cup {NextRow}
        BY <1>2, <1>s DEF Rows
      <4> QED BY <3>2, <4>1, <4>2, <4>3 DEF Basic, RowsOK
    <3> QED BY <3>1, <3>2 DEF RowsOK
  <2>3. ReqOK(req'[r], mvs', txns', sent')
    <3>1. After(q).pc = "tag" => TagOK(After(q), mvs')
      BY <1>2, <1>s, <1>a, <1>n DEF TagOK
    <3> QED BY <3>1, <1>s, <1>a DEF ReqOK
  <2>4. req'[r].pc # "save"
    BY <1>s, <1>a
  <2>5. ReqsOK' /\ LockOK'
    BY <1>s, <2>1, <2>3, <2>4, RequestsKept
  <2> QED BY <1>s, <2>1, <2>2, <2>5 DEF Basic
<1> QED BY <1>1, <1>2

LEMMA IdleOK == \A M, X, S : Idle \in Requests /\ Idle.pc = "idle" /\ ReqOK(Idle, M, X, S)
BY DEF Requests, Idle, ReqOK

LEMMA CommitTagBasic ==
  ASSUME Basic, NEW r \in Req, CommitTag(r)
  PROVE  Basic' /\ Step
<1> DEFINE q == req[r]
<1>1. q.pc = "tag" /\ q \in Requests
  BY ReqTypes DEF CommitTag, Basic
<1>2. q \in TagReq
  <2> HIDE DEF q
  <2> QED BY <1>1, ReqKinds
<1>3. TagOK(q, mvs)
  BY <1>1 DEF Basic, ReqsOK, ReqOK
<1>4. /\ req' = [req EXCEPT ![r] = Idle] /\ UNCHANGED <<txns, stamp, sent, begun, raced>>
      /\ mvs' = IF mvs[q.row].live THEN [mvs EXCEPT ![q.row].key = q.key] ELSE mvs
  BY DEF CommitTag
<1> HIDE DEF q
<1>5. q.row \in Rows /\ mvs[q.row] \in MoveRow /\ q.key \in Key
  BY <1>2, <1>3 DEF TagOK, TagReq, Basic, Types, Rows
<1>6. [mvs[q.row] EXCEPT !.key = q.key] \in MoveRow
  BY <1>5 DEF MoveRow
<1>7. /\ DOMAIN mvs' = Rows /\ mvs' \in [Rows -> MoveRow]
      /\ \A m \in Rows : mvs'[m] = mvs[m] \/ mvs'[m] = [mvs[m] EXCEPT !.key = q.key]
  BY <1>4, <1>5, <1>6 DEF Basic, Types
<1>8. \A m \in Rows :
          /\ mvs'[m].user = mvs[m].user /\ mvs'[m].kind = mvs[m].kind /\ mvs'[m].owner = mvs[m].owner
          /\ mvs'[m].txn = mvs[m].txn /\ mvs'[m].for = mvs[m].for /\ mvs'[m].live = mvs[m].live
          /\ mvs'[m].amount = mvs[m].amount
  <2> TAKE m \in Rows
  <2>1. mvs[m] \in MoveRow
    BY DEF Basic, Types
  <2> QED BY <2>1, <1>7 DEF MoveRow
<1>9. Types'
  <2>1. req' \in [Req -> Requests]
    BY <1>4, IdleOK, ReqTypes DEF Basic, Types, Requests
  <2> QED BY <2>1, <1>4, <1>7 DEF Basic, Types, Rows, Txns, Requests
<1>10. Step
  BY <1>4, <1>7, <1>8 DEF Step, Evolves, Rows
<1>11. RowsOK'
  BY <1>4, <1>7, <1>8 DEF Basic, RowsOK, RowOK, Rows, Txns
<1>12. /\ \A o \in Req \ {r} : Same(req[o], req'[o])
       /\ req'[r] = Idle
  BY <1>4 DEF Same, Basic, Types
<1>13. ReqsOK' /\ LockOK'
  BY <1>10, <1>12, IdleOK, RequestsKept
<1> QED BY <1>9, <1>10, <1>11, <1>13 DEF Basic

LEMMA AbandonBasic ==
  ASSUME Basic, NEW r \in Req, Abandon(r)
  PROVE  Basic' /\ Step
<1>4. /\ req' = [req EXCEPT ![r] = Idle] /\ UNCHANGED <<mvs, txns, stamp, sent, begun, raced>>
  BY DEF Abandon
<1>9. Types'
  <2>1. req' \in [Req -> Requests]
    BY <1>4, IdleOK, ReqTypes DEF Basic, Types, Requests
  <2> QED BY <2>1, <1>4 DEF Basic, Types, Rows, Txns, Requests
<1>10. Step /\ RowsOK'
  BY <1>4, SameTables
<1>12. /\ \A o \in Req \ {r} : Same(req[o], req'[o])
       /\ req'[r] = Idle
  BY <1>4 DEF Same, Basic, Types
<1>13. ReqsOK' /\ LockOK'
  BY <1>10, <1>12, IdleOK, RequestsKept
<1> QED BY <1>9, <1>10, <1>13 DEF Basic

LEMMA BeginUnsaveBasic ==
  ASSUME Basic, NEW r \in Req, NEW m \in Rows, BeginUnsave(r, m)
  PROVE  Basic' /\ Step
<1> DEFINE new == [pc |-> "unsave", user |-> mvs[m].user, row |-> m, locked |-> FALSE, relies |-> Adds(mvs, m)]
<1>4. /\ req' = [req EXCEPT ![r] = new] /\ UNCHANGED <<mvs, txns, stamp, sent, raced>> /\ begun' \in Nat
  BY DEF BeginUnsave, Begins, Adds, Basic, Types
<1>5. mvs[m] \in MoveRow /\ m \in Nat
  BY NextNumber DEF Basic, Types
<1>6. new \in UnsaveReq /\ new.pc = "unsave" /\ UnsaveOK(new, mvs)
  <2>1. Adds(mvs, m) \in BOOLEAN
    BY DEF Adds
  <2>2. new \in UnsaveReq
    BY <1>5, <2>1 DEF UnsaveReq, MoveRow
  <2>3. new.row = m /\ new.user = mvs[m].user /\ new.relies = Adds(mvs, m)
    OBVIOUS
  <2> HIDE DEF new
  <2> QED BY <2>2, <2>3 DEF UnsaveOK, UnsaveReq, Rows
<1> HIDE DEF new
<1>9. Types'
  <2>1. req' \in [Req -> Requests]
    BY <1>4, <1>6, ReqTypes DEF Basic, Types, Requests
  <2> QED BY <2>1, <1>4 DEF Basic, Types, Rows, Txns, Requests
<1>10. Step /\ RowsOK'
  BY <1>4, SameTables
<1>12. /\ \A o \in Req \ {r} : Same(req[o], req'[o])
       /\ req'[r] = new
  BY <1>4 DEF Same, Basic, Types
<1>13. ReqOK(req'[r], mvs', txns', sent')
  BY <1>4, <1>6, <1>12 DEF ReqOK
<1>14. ReqsOK' /\ LockOK'
  BY <1>6, <1>10, <1>12, <1>13, RequestsKept
<1> QED BY <1>9, <1>10, <1>14 DEF Basic

LEMMA CommitUnsaveShape ==
  ASSUME Basic, NEW r \in Req, CommitUnsave(r)
  PROVE  /\ req[r] \in UnsaveReq /\ UnsaveOK(req[r], mvs) /\ req[r].row \in Rows
         /\ req'[r] = Idle /\ (\A o \in Req \ {r} : Same(req[o], req'[o]))
         /\ \A o \in Req \ {r} : req[o].pc = "save" /\ req[o].user = StashOf(mvs[req[r].row]) => req'[o].upset
         /\ raced' = (raced \/ (req[r].relies /\ Races(r, req[r].user)))
         /\ UNCHANGED <<txns, stamp, sent, begun>>
         /\ mvs' = [mvs EXCEPT ![req[r].row].live = FALSE]
         /\ Types'
<1> DEFINE q == req[r]
<1>1. q.pc = "unsave" /\ q \in Requests
  BY ReqTypes DEF CommitUnsave, Basic
<1>2. q \in UnsaveReq
  <2> HIDE DEF q
  <2> QED BY <1>1, ReqKinds
<1>3. UnsaveOK(q, mvs)
  BY <1>1 DEF Basic, ReqsOK, ReqOK
<1>4. /\ req' = Upset(r, StashOf(mvs[q.row]), [req EXCEPT ![r] = Idle])
      /\ UNCHANGED <<txns, stamp, sent, begun>>
      /\ mvs' = [mvs EXCEPT ![q.row].live = FALSE]
      /\ raced' = (raced \/ (q.relies /\ Races(r, q.user)))
  BY DEF CommitUnsave, StashOf
<1>5. q.row \in Rows /\ mvs[q.row] \in MoveRow
  BY <1>3 DEF UnsaveOK, Basic, Types, Rows
<1>6. [mvs[q.row] EXCEPT !.live = FALSE] \in MoveRow
  BY <1>5 DEF MoveRow
<1>7. mvs' \in [Rows -> MoveRow]
  BY <1>4, <1>5, <1>6 DEF Basic, Types
<1>8. /\ req'[r] = Idle /\ (\A o \in Req \ {r} : Same(req[o], req'[o]))
      /\ \A o \in Req \ {r} : req[o].pc = "save" /\ req[o].user = StashOf(mvs[q.row])
                              /\ ~(req[o].locked /\ req[r].locked /\ req[r].user = StashOf(mvs[q.row]))
                              => req'[o].upset
      /\ req' \in [Req -> Requests]
  BY <1>4, IdleOK, UpsetSame DEF Basic
<1>9. ~req[r].locked
  BY <1>2 DEF UnsaveReq
<1>10. Types'
  <2>1. Rows' = Rows
    BY <1>7 DEF Rows
  <2> QED BY <2>1, <1>4, <1>7, <1>8 DEF Basic, Types, Rows, Txns, Requests
<1> QED BY <1>2, <1>3, <1>4, <1>5, <1>8, <1>9, <1>10

LEMMA CommitUnsaveBasic ==
  ASSUME Basic, NEW r \in Req, CommitUnsave(r)
  PROVE  Basic' /\ Step
<1>1. /\ req[r].row \in Rows
      /\ req'[r] = Idle /\ (\A o \in Req \ {r} : Same(req[o], req'[o]))
      /\ UNCHANGED <<txns, stamp, sent, begun>>
      /\ mvs' = [mvs EXCEPT ![req[r].row].live = FALSE]
      /\ Types'
  BY CommitUnsaveShape
<1>7. /\ DOMAIN mvs' = Rows
      /\ \A m \in Rows : mvs'[m] = mvs[m] \/ mvs'[m] = [mvs[m] EXCEPT !.live = FALSE]
  BY <1>1 DEF Rows, Basic, Types
<1>8. \A m \in Rows :
          /\ mvs'[m].user = mvs[m].user /\ mvs'[m].kind = mvs[m].kind /\ mvs'[m].owner = mvs[m].owner
          /\ mvs'[m].txn = mvs[m].txn /\ mvs'[m].for = mvs[m].for /\ (mvs'[m].live => mvs[m].live)
          /\ mvs'[m].amount = mvs[m].amount
  <2> TAKE m \in Rows
  <2>1. mvs[m] \in MoveRow
    BY DEF Basic, Types
  <2> QED BY <2>1, <1>7 DEF MoveRow
<1>10. Step
  BY <1>1, <1>7, <1>8 DEF Step, Evolves, Rows
<1>11. RowsOK'
  BY <1>1, <1>7, <1>8 DEF Basic, RowsOK, RowOK, Rows, Txns
<1>13. ReqsOK' /\ LockOK'
  BY <1>1, <1>10, IdleOK, RequestsKept
<1> QED BY <1>1, <1>10, <1>11, <1>13 DEF Basic

LEMMA BeginEditBasic ==
  ASSUME Basic, NEW r \in Req, NEW u \in Member, NEW t \in Txns, NEW e \in Edits, BeginEdit(r, u, t, e)
  PROVE  Basic' /\ Step
<1> DEFINE form == [txns[t] EXCEPT !.amount = e.amount, !.cash = e.cash, !.payer = e.payer]
           new == [pc |-> "edit", user |-> u, txn |-> t, old |-> txns[t], new |-> form]
<1>4. /\ req' = [req EXCEPT ![r] = new] /\ UNCHANGED <<mvs, txns, stamp, sent, raced>> /\ begun' \in Nat
  BY DEF BeginEdit, Begins, Basic, Types
<1>5. txns[t] \in TxnRow /\ t \in Nat
  BY NextNumber DEF Basic, Types
<1>e. e.amount \in Nat /\ e.cash \in BOOLEAN /\ e.payer \in Member \cup {NoOne}
  BY FormsAssumption, CashAssumption
<1>f. form \in TxnRow /\ form.amount = e.amount
  <2> DEFINE one == [txns[t] EXCEPT !.amount = e.amount]
             two == [one EXCEPT !.cash = e.cash]
  <2>1. one \in TxnRow /\ one.amount = e.amount
    BY <1>5, <1>e DEF TxnRow
  <2>2. form = [two EXCEPT !.payer = e.payer]
    OBVIOUS
  <2> HIDE DEF one
  <2>3. two \in TxnRow /\ two.amount = e.amount
    BY <2>1, <1>e DEF TxnRow
  <2> HIDE DEF two, form
  <2> QED BY <2>2, <2>3, <1>e DEF TxnRow
<1>6. new \in EditReq /\ new.pc = "edit" /\ EditOK(new, txns)
  <2> HIDE DEF form
  <2>2. new \in EditReq /\ new.pc = "edit" /\ new.txn = t /\ new.new = form
    BY <1>5, <1>f DEF EditReq
  <2> HIDE DEF new
  <2> QED BY <2>2, <1>e, <1>f DEF EditOK, Txns
<1> HIDE DEF new
<1>9. Types'
  <2>1. req' \in [Req -> Requests]
    BY <1>4, <1>6, ReqTypes DEF Basic, Types, Requests
  <2> QED BY <2>1, <1>4 DEF Basic, Types, Rows, Txns, Requests
<1>10. Step /\ RowsOK'
  BY <1>4, SameTables
<1>12. /\ \A o \in Req \ {r} : Same(req[o], req'[o])
       /\ req'[r] = new
  BY <1>4 DEF Same, Basic, Types
<1>13. ReqOK(req'[r], mvs', txns', sent')
  BY <1>4, <1>6, <1>12 DEF ReqOK
<1>14. ReqsOK' /\ LockOK'
  BY <1>6, <1>10, <1>12, <1>13, RequestsKept
<1> QED BY <1>9, <1>10, <1>14 DEF Basic

\* What the sync of an edit puts in its request.
Takes(q) == LinkedTakes(q.txn)
Grows(q) == \E m \in Takes(q) : mvs[m].owner # NoOne /\ q.new.amount > mvs[m].amount
Synced(q) == [pc |-> "synced", user |-> q.user, txn |-> q.txn, old |-> q.old, new |-> q.new, takes |-> Takes(q),
              was |-> [m \in Takes(q) |-> mvs[m].amount], locked |-> FALSE, relies |-> q.new.cash /\ Grows(q)]
RefusedTake(q, m) ==
    \/ q.new.payer # mvs[m].user
    \/ /\ mvs[m].owner # NoOne
       /\ \/ q.new.amount # mvs[m].amount /\ q.user # mvs[m].owner
          \/ q.new.amount > mvs[m].amount
             /\ ~StashCovers(mvs[m].owner, q.new.amount, q.user, mvs[m].amount)

LEMMA SyncEditShape ==
  ASSUME Basic, NEW r \in Req, SyncEdit(r)
  PROVE  /\ req[r] \in EditReq /\ EditOK(req[r], txns)
         /\ Takes(req[r]) \subseteq Rows /\ \A m \in Takes(req[r]) : mvs[m] \in MoveRow /\ mvs[m].txn = req[r].txn
         /\ UNCHANGED <<mvs, txns, stamp, sent, begun, raced>>
         /\ \A o \in Req \ {r} : req'[o] = req[o]
         /\ \/ req'[r] = Idle
            \/ /\ req'[r] = Synced(req[r]) /\ Synced(req[r]) \in SyncedReq
               /\ req[r].new.cash => \A m \in Takes(req[r]) : ~RefusedTake(req[r], m)
         /\ Types'
<1> DEFINE q == req[r]
<1>1. q.pc = "edit" /\ q \in Requests
  BY ReqTypes DEF SyncEdit, Basic
<1>2. q \in EditReq
  <2> HIDE DEF q
  <2> QED BY <1>1, ReqKinds
<1>3. EditOK(q, txns)
  BY <1>1 DEF Basic, ReqsOK, ReqOK
<1>4. /\ UNCHANGED <<mvs, txns, stamp, sent, begun, raced>>
      /\ IF q.new.cash /\ \E m \in Takes(q) : RefusedTake(q, m)
         THEN req' = [req EXCEPT ![r] = Idle]
         ELSE req' = [req EXCEPT ![r] = Synced(q)]
  BY DEF SyncEdit, Takes, RefusedTake, Synced, Grows
<1> HIDE DEF q
<1>5. Takes(q) \subseteq Rows /\ \A m \in Takes(q) : mvs[m] \in MoveRow /\ mvs[m].txn = q.txn
  BY DEF Takes, LinkedTakes, Basic, Types
<1>6. Synced(q) \in SyncedReq
  <2>1. Takes(q) \in SUBSET Nat
    BY <1>5, NextNumber DEF Basic, Types
  <2>2. [m \in Takes(q) |-> mvs[m].amount] \in [Takes(q) -> Int]
    BY <1>5 DEF MoveRow
  <2>3. [m \in Takes(q) |-> mvs[m].amount] \in UNION {[S -> Int] : S \in SUBSET Nat}
    BY <2>1, <2>2
  <2>4. (q.new.cash /\ Grows(q)) \in BOOLEAN
    OBVIOUS
  <2>5. q.user \in Member /\ q.txn \in Nat /\ q.old \in TxnRow /\ q.new \in TxnRow
    BY <1>2 DEF EditReq
  <2> QED BY <2>1, <2>3, <2>4, <2>5 DEF SyncedReq, Synced
<1>7. /\ req' \in [Req -> Requests]
      /\ \A o \in Req \ {r} : req'[o] = req[o]
      /\ req'[r] = Idle \/ (req'[r] = Synced(q) /\ (q.new.cash => \A m \in Takes(q) : ~RefusedTake(q, m)))
  BY <1>4, <1>6, IdleOK, ReqTypes DEF Basic, Types, Requests
<1>8. Types'
  BY <1>4, <1>7 DEF Basic, Types, Rows, Txns, Requests
<1> QED BY <1>2, <1>3, <1>4, <1>5, <1>6, <1>7, <1>8 DEF q

LEMMA SyncEditBasic ==
  ASSUME Basic, NEW r \in Req, SyncEdit(r)
  PROVE  Basic' /\ Step
<1> DEFINE q == req[r]
<1>1. /\ q \in EditReq /\ EditOK(q, txns)
      /\ Takes(q) \subseteq Rows /\ \A m \in Takes(q) : mvs[m] \in MoveRow /\ mvs[m].txn = q.txn
      /\ UNCHANGED <<mvs, txns, stamp, sent, begun, raced>>
      /\ \A o \in Req \ {r} : req'[o] = req[o]
      /\ \/ req'[r] = Idle
         \/ /\ req'[r] = Synced(q) /\ Synced(q) \in SyncedReq
            /\ q.new.cash => \A m \in Takes(q) : ~RefusedTake(q, m)
      /\ Types'
  BY SyncEditShape
<1> HIDE DEF q
<1>10. Step /\ RowsOK'
  BY <1>1, SameTables
<1>11. ReqOK(req'[r], mvs', txns', sent') /\ req'[r].pc # "save"
  <2>1. CASE req'[r] = Idle
    BY <2>1, IdleOK
  <2>2. CASE req'[r] = Synced(q) /\ (q.new.cash => \A m \in Takes(q) : ~RefusedTake(q, m))
    <3> DEFINE new == Synced(q)
    <3>1. /\ new.pc = "synced" /\ new.user = q.user /\ new.txn = q.txn /\ new.new = q.new /\ new.takes = Takes(q)
          /\ new.was = [m \in Takes(q) |-> mvs[m].amount] /\ (new.relies <=> q.new.cash /\ Grows(q))
      BY DEF Synced
    <3> HIDE DEF new
    <3>2. new.was \in [new.takes -> Int] /\ \A m \in new.takes : new.was[m] = mvs[m].amount
      BY <1>1, <3>1 DEF MoveRow
    <3>3. Linked(mvs, new.txn) \subseteq new.takes
      BY <3>1 DEF Linked, Takes, LinkedTakes, Rows
    <3>4. q.new.cash => \A m \in new.takes :
            /\ new.new.payer = mvs[m].user
            /\ mvs[m].owner # NoOne /\ new.new.amount # new.was[m] => new.user = mvs[m].owner
      BY <2>2, <3>1, <3>2 DEF RefusedTake
    <3>5. new.relies <=> q.new.cash /\ \E m \in new.takes : mvs[m].owner # NoOne /\ q.new.amount > new.was[m]
      BY <3>1, <3>2 DEF Grows
    <3>6. SyncedOK(new, mvs, txns)
      BY <1>1, <3>1, <3>2, <3>3, <3>4, <3>5 DEF SyncedOK, EditOK, Rows
    <3>7. req'[r] = new
      BY <2>2 DEF new
    <3> QED BY <1>1, <3>1, <3>6, <3>7 DEF ReqOK
  <2> QED BY <1>1, <2>1, <2>2
<1>13. ReqsOK' /\ LockOK'
  <2>1. \A o \in Req \ {r} : Same(req[o], req'[o])
    BY <1>1 DEF Same
  <2> QED BY <2>1, <1>10, <1>11, RequestsKept
<1> QED BY <1>1, <1>10, <1>13 DEF Basic

\* A row and the expense as an edit writes them.
EditedRow(q, m) ==
    IF m \notin q.takes THEN mvs[m]
    ELSE IF ~q.new.cash THEN [mvs[m] EXCEPT !.live = FALSE]
    ELSE IF q.new.amount # q.was[m] THEN [mvs[m] EXCEPT !.amount = q.new.amount]
    ELSE mvs[m]
Column(q, c) == IF q.new[c] # q.old[c] THEN q.new[c] ELSE txns[q.txn][c]
EditChanges(q) == q.takes # {} /\ ((\E m \in q.takes : q.new.amount # q.was[m]) \/ ~q.new.cash)

LEMMA CommitEditShape ==
  ASSUME Basic, NEW r \in Req, CommitEdit(r)
  PROVE  /\ req[r] \in SyncedReq /\ SyncedOK(req[r], mvs, txns)
         /\ req'[r] = Idle /\ (\A o \in Req \ {r} : Same(req[o], req'[o]))
         /\ \A o \in Req \ {r} : \A m \in req[r].takes :
               EditChanges(req[r]) /\ req[o].pc = "save" /\ req[o].user = mvs[m].owner => req'[o].upset
         /\ raced' = \/ raced
                     \/ req[r].relies /\ Races(r, req[r].user)
                     \/ \E o \in Req \ {r} : req[o].pc \in {"edit", "synced"} /\ req[o].txn = req[r].txn
         /\ UNCHANGED <<stamp, sent, begun>>
         /\ mvs' = [m \in Rows |-> EditedRow(req[r], m)] /\ \A m \in req[r].takes : mvs[m].kind = "take"
         /\ DOMAIN txns' = Txns /\ \A t \in Txns \ {req[r].txn} : txns'[t] = txns[t]
         /\ LET t == txns'[req[r].txn]
            IN  /\ t.amount = Column(req[r], "amount") /\ t.cash = Column(req[r], "cash")
                /\ t.payer = Column(req[r], "payer")
                /\ t.live = txns[req[r].txn].live /\ t.key = txns[req[r].txn].key
         /\ Types'
<1> DEFINE q == req[r]
           x == txns[q.txn]
           y == [x EXCEPT !.amount = Column(q, "amount")]
           z == [y EXCEPT !.cash = Column(q, "cash")]
           w == [z EXCEPT !.payer = Column(q, "payer")]
<1>1. q.pc = "synced" /\ q \in Requests
  BY ReqTypes DEF CommitEdit, Basic
<1>2. q \in SyncedReq
  <2> HIDE DEF q
  <2> QED BY <1>1, ReqKinds
<1>3. SyncedOK(q, mvs, txns)
  BY <1>1 DEF Basic, ReqsOK, ReqOK
<1>4. /\ UNCHANGED <<stamp, sent, begun>>
      /\ mvs' = [m \in Rows |-> EditedRow(q, m)]
      /\ raced' = \/ raced
                  \/ q.relies /\ Races(r, q.user)
                  \/ \E o \in Req \ {r} : req[o].pc \in {"edit", "synced"} /\ req[o].txn = q.txn
      /\ req' = IF EditChanges(q) THEN Upset(r, mvs[CHOOSE m \in q.takes : TRUE].owner, [req EXCEPT ![r] = Idle])
                ELSE [req EXCEPT ![r] = Idle]
  BY DEF CommitEdit, EditedRow, EditChanges
<1>5. txns' = [txns EXCEPT ![q.txn] = w]
  <2>1. txns' = [txns EXCEPT ![q.txn].amount = Column(q, "amount"), ![q.txn].cash = Column(q, "cash"),
                             ![q.txn].payer = Column(q, "payer")]
    BY DEF CommitEdit, Column
  <2> QED BY <2>1, <1>3 DEF SyncedOK
<1> HIDE DEF q
<1>6. q.txn \in Txns /\ x \in TxnRow /\ q.new \in TxnRow /\ q.old \in TxnRow
  BY <1>2, <1>3 DEF SyncedOK, Basic, Types, Txns, SyncedReq
<1>7. /\ Column(q, "amount") \in Nat /\ Column(q, "cash") \in BOOLEAN /\ Column(q, "payer") \in Member \cup {NoOne}
  BY <1>6 DEF Column, TxnRow
<1> HIDE DEF x
<1>8. y \in TxnRow /\ y.amount = Column(q, "amount") /\ y.live = x.live /\ y.key = x.key
  BY <1>6, <1>7 DEF TxnRow
<1> HIDE DEF y
<1>9. z \in TxnRow /\ z.amount = Column(q, "amount") /\ z.cash = Column(q, "cash") /\ z.live = x.live /\ z.key = x.key
  BY <1>7, <1>8 DEF TxnRow
<1> HIDE DEF z
<1>10. /\ w \in TxnRow /\ w.amount = Column(q, "amount") /\ w.cash = Column(q, "cash")
       /\ w.payer = Column(q, "payer") /\ w.live = x.live /\ w.key = x.key
  BY <1>7, <1>9 DEF TxnRow
<1> HIDE DEF w
<1>11. /\ txns' \in [Txns -> TxnRow] /\ DOMAIN txns' = Txns /\ txns'[q.txn] = w
       /\ \A t \in Txns \ {q.txn} : txns'[t] = txns[t]
  BY <1>5, <1>6, <1>10 DEF Basic, Types
<1>12. \A m \in q.takes : m \in Rows /\ mvs[m].kind = "take" /\ mvs[m].txn = q.txn
  <2>1. q.txn # 0
    BY <1>6, NextNumber DEF Basic, Types
  <2> QED BY <1>3, <2>1 DEF SyncedOK, Basic, RowsOK, RowOK, Rows
<1>13. \A m, n \in q.takes : m = n
  <2>1. q.txn # 0
    BY <1>6, NextNumber DEF Basic, Types
  <2> QED BY <1>12, <2>1 DEF Basic, RowsOK
<1>14. mvs' \in [Rows -> MoveRow]
  <2>1. ASSUME NEW m \in Rows PROVE EditedRow(q, m) \in MoveRow
    <3>1. mvs[m] \in MoveRow /\ q.new.amount \in Int
      BY <1>6 DEF Basic, Types, TxnRow
    <3>2. [mvs[m] EXCEPT !.live = FALSE] \in MoveRow
      BY <3>1 DEF MoveRow
    <3>3. [mvs[m] EXCEPT !.amount = q.new.amount] \in MoveRow
      BY <3>1 DEF MoveRow
    <3> QED BY <3>1, <3>2, <3>3 DEF EditedRow
  <2> QED BY <1>4, <2>1
<1>15. ~req[r].locked
  BY <1>2 DEF SyncedReq, q
<1>16. /\ req'[r] = Idle /\ (\A o \in Req \ {r} : Same(req[o], req'[o]))
       /\ \A o \in Req \ {r} : \A m \in q.takes :
               EditChanges(q) /\ req[o].pc = "save" /\ req[o].user = mvs[m].owner => req'[o].upset
       /\ req' \in [Req -> Requests]
  <2>1. CASE EditChanges(q)
    <3> DEFINE c == CHOOSE m \in q.takes : TRUE
    <3>1. \A m \in q.takes : m = c
      BY <1>13
    <3>2. req' = Upset(r, mvs[c].owner, [req EXCEPT ![r] = Idle])
      BY <1>4, <2>1
    <3> HIDE DEF c
    <3>3. /\ req'[r] = Idle
          /\ \A o \in Req \ {r} : Same(req[o], req'[o])
          /\ \A o \in Req \ {r} : req[o].pc = "save" /\ req[o].user = mvs[c].owner
                                  /\ ~(req[o].locked /\ req[r].locked /\ req[r].user = mvs[c].owner)
                                  => req'[o].upset
          /\ req' \in [Req -> Requests]
      BY <3>2, IdleOK, UpsetSame DEF Basic
    <3> QED BY <3>1, <3>3, <1>15
  <2>2. CASE ~EditChanges(q)
    BY <2>2, <1>4, IdleOK, ReqTypes DEF Same, Basic, Types, Requests
  <2> QED BY <2>1, <2>2
<1>17. Types'
  <2>1. Rows' = Rows /\ Txns' = Txns
    BY <1>14, <1>11 DEF Rows, Txns
  <2>2. raced' \in BOOLEAN
    BY <1>4 DEF Basic, Types
  <2> QED BY <2>1, <2>2, <1>4, <1>11, <1>14, <1>16 DEF Basic, Types, Requests
<1> QED BY <1>2, <1>3, <1>4, <1>10, <1>11, <1>12, <1>16, <1>17 DEF q, x

LEMMA CommitEditBasic ==
  ASSUME Basic, NEW r \in Req, CommitEdit(r)
  PROVE  Basic' /\ Step
<1> DEFINE q == req[r]
<1>1. /\ q \in SyncedReq /\ SyncedOK(q, mvs, txns)
      /\ req'[r] = Idle /\ (\A o \in Req \ {r} : Same(req[o], req'[o]))
      /\ UNCHANGED <<stamp, sent, begun>>
      /\ mvs' = [m \in Rows |-> EditedRow(q, m)] /\ \A m \in q.takes : mvs[m].kind = "take"
      /\ DOMAIN txns' = Txns
      /\ Types'
  BY CommitEditShape
<1> HIDE DEF q
<1>2. \A m \in Rows :
          /\ mvs'[m].user = mvs[m].user /\ mvs'[m].kind = mvs[m].kind /\ mvs'[m].owner = mvs[m].owner
          /\ mvs'[m].txn = mvs[m].txn /\ mvs'[m].for = mvs[m].for /\ (mvs'[m].live => mvs[m].live)
          /\ (mvs[m].kind # "take" => mvs'[m].amount = mvs[m].amount)
          /\ mvs'[m].amount \in {mvs[m].amount, q.new.amount}
  <2> TAKE m \in Rows
  <2>1. mvs[m] \in MoveRow
    BY DEF Basic, Types
  <2>2. mvs'[m] = EditedRow(q, m)
    BY <1>1
  <2>3. CASE mvs'[m] = mvs[m]
    BY <2>3
  <2>4. CASE mvs'[m] = [mvs[m] EXCEPT !.live = FALSE]
    BY <2>1, <2>4 DEF MoveRow
  <2>5. CASE m \in q.takes /\ mvs'[m] = [mvs[m] EXCEPT !.amount = q.new.amount]
    BY <2>1, <2>5, <1>1 DEF MoveRow
  <2> QED BY <2>2, <2>3, <2>4, <2>5 DEF EditedRow
<1>3. DOMAIN mvs' = Rows
  BY <1>1
<1>10. Step
  BY <1>1, <1>2, <1>3 DEF Step, Evolves, Rows, Txns
<1>11. RowsOK'
  <2>1. q.new.amount >= 0
    BY <1>1 DEF SyncedOK
  <2>2. \A m \in Rows : RowOK(m)'
    BY <1>1, <1>2, <2>1 DEF Basic, RowsOK, RowOK, Rows, Txns
  <2> QED BY <1>2, <1>3, <2>2 DEF Basic, RowsOK, Rows
<1>13. ReqsOK' /\ LockOK'
  BY <1>1, <1>10, IdleOK, RequestsKept
<1> QED BY <1>1, <1>10, <1>11, <1>13 DEF Basic

LEMMA DeleteExpenseShape ==
  ASSUME Basic, NEW t \in Txns, DeleteExpense(t)
  PROVE  /\ txns[t].live /\ (\A r \in Req : ~HoldsTxn(r, t))
         /\ mvs' = [m \in Rows |-> IF mvs[m].txn = t THEN [mvs[m] EXCEPT !.live = FALSE] ELSE mvs[m]]
         /\ txns' = [txns EXCEPT ![t].live = FALSE]
         /\ UNCHANGED <<stamp, sent, begun, raced>>
         /\ \A o \in Req : Same(req[o], req'[o])
         /\ \A o \in Req : \A m \in LinkedTakes(t) : req[o].pc = "save" /\ mvs[m].owner = req[o].user => req'[o].upset
         /\ Types'
<1>1. /\ txns[t].live /\ (\A r \in Req : ~HoldsTxn(r, t))
      /\ mvs' = [m \in Rows |-> IF mvs[m].txn = t THEN [mvs[m] EXCEPT !.live = FALSE] ELSE mvs[m]]
      /\ txns' = [txns EXCEPT ![t].live = FALSE]
      /\ UNCHANGED <<stamp, sent, begun, raced>>
      /\ req' = [q \in Req |->
                  IF /\ req[q].pc = "save"
                     /\ \E m \in LinkedTakes(t) : mvs[m].owner = req[q].user
                  THEN [req[q] EXCEPT !.upset = TRUE] ELSE req[q]]
  BY DEF DeleteExpense
<1>2. \A o \in Req : Same(req[o], req'[o])
  BY <1>1 DEF Same
<1>3. ASSUME NEW o \in Req, NEW m \in LinkedTakes(t), req[o].pc = "save", mvs[m].owner = req[o].user
      PROVE  req'[o].upset
  <2>1. req'[o] = [req[o] EXCEPT !.upset = TRUE]
    BY <1>1, <1>3
  <2>2. req[o] \in SaveReq
    BY <1>3, ReqTypes, ReqKinds DEF Basic
  <2> QED BY <2>1, <2>2 DEF SaveReq
<1>4. req' \in [Req -> Requests]
  <2>1. \A o \in Req : req'[o] \in Requests
    BY <1>2, ReqTypes, SameFields DEF Basic
  <2>2. req' = [o \in Req |-> req'[o]]
    BY <1>1
  <2> QED BY <2>1, <2>2
<1>5. mvs' \in [Rows -> MoveRow]
  <2>1. ASSUME NEW m \in Rows PROVE [mvs[m] EXCEPT !.live = FALSE] \in MoveRow /\ mvs[m] \in MoveRow
    BY DEF Basic, Types, MoveRow
  <2> QED BY <1>1, <2>1
<1>6. txns' \in [Txns -> TxnRow]
  <2>1. txns[t] \in TxnRow
    BY DEF Basic, Types
  <2>2. [txns[t] EXCEPT !.live = FALSE] \in TxnRow
    BY <2>1 DEF TxnRow
  <2> QED BY <1>1, <2>2 DEF Basic, Types
<1>7. Types'
  <2>1. Rows' = Rows /\ Txns' = Txns
    BY <1>5, <1>6 DEF Rows, Txns
  <2> QED BY <2>1, <1>1, <1>4, <1>5, <1>6 DEF Basic, Types, Requests
<1> QED BY <1>1, <1>2, <1>3, <1>7

LEMMA DeleteExpenseBasic ==
  ASSUME Basic, NEW t \in Txns, DeleteExpense(t)
  PROVE  Basic' /\ Step
<1>1. /\ mvs' = [m \in Rows |-> IF mvs[m].txn = t THEN [mvs[m] EXCEPT !.live = FALSE] ELSE mvs[m]]
      /\ txns' = [txns EXCEPT ![t].live = FALSE]
      /\ UNCHANGED <<stamp, sent, begun, raced>>
      /\ \A o \in Req : Same(req[o], req'[o])
      /\ Types'
  BY DeleteExpenseShape
<1>2. \A m \in Rows :
          /\ mvs'[m].user = mvs[m].user /\ mvs'[m].kind = mvs[m].kind /\ mvs'[m].owner = mvs[m].owner
          /\ mvs'[m].txn = mvs[m].txn /\ mvs'[m].for = mvs[m].for /\ (mvs'[m].live => mvs[m].live)
          /\ mvs'[m].amount = mvs[m].amount
  <2> TAKE m \in Rows
  <2>1. mvs[m] \in MoveRow
    BY DEF Basic, Types
  <2> QED BY <1>1, <2>1 DEF MoveRow
<1>3. DOMAIN mvs' = Rows /\ DOMAIN txns' = Txns
  BY <1>1 DEF Txns
<1>10. Step
  BY <1>1, <1>2, <1>3 DEF Step, Evolves, Rows, Txns
<1>11. RowsOK'
  BY <1>2, <1>3 DEF Basic, RowsOK, RowOK, Rows, Txns
<1>13. ReqsOK' /\ LockOK'
  BY <1>1, <1>10, RequestsStay
<1> QED BY <1>1, <1>10, <1>11, <1>13 DEF Basic

LEMMA AgeBasic ==
  ASSUME Basic, Age
  PROVE  Basic' /\ Step
<1>1. /\ mvs' = [m \in Rows |-> [mvs[m] EXCEPT !.aged = TRUE]]
      /\ UNCHANGED <<txns, stamp, req, sent, begun, raced>>
  BY DEF Age
<1>2. \A m \in Rows :
          /\ mvs'[m] \in MoveRow
          /\ mvs'[m].user = mvs[m].user /\ mvs'[m].kind = mvs[m].kind /\ mvs'[m].owner = mvs[m].owner
          /\ mvs'[m].txn = mvs[m].txn /\ mvs'[m].for = mvs[m].for /\ mvs'[m].live = mvs[m].live
          /\ mvs'[m].amount = mvs[m].amount
  <2> TAKE m \in Rows
  <2>1. mvs[m] \in MoveRow
    BY DEF Basic, Types
  <2> QED BY <1>1, <2>1 DEF MoveRow
<1>3. DOMAIN mvs' = Rows /\ mvs' \in [Rows -> MoveRow]
  BY <1>1, <1>2
<1>9. Types'
  BY <1>1, <1>3 DEF Basic, Types, Rows, Txns
<1>10. Step
  BY <1>1, <1>2, <1>3 DEF Step, Evolves, Rows
<1>11. RowsOK'
  BY <1>1, <1>2, <1>3 DEF Basic, RowsOK, RowOK, Rows, Txns
<1>13. ReqsOK' /\ LockOK'
  BY <1>1, <1>10, RequestsStay DEF Same
<1> QED BY <1>9, <1>10, <1>11, <1>13 DEF Basic

LEMMA InitBasic == CashInit => Basic
<1> SUFFICES ASSUME CashInit PROVE Basic
  OBVIOUS
<1>1. /\ mvs = << >> /\ txns = << >> /\ stamp = 1 /\ raced = FALSE /\ begun = 0
      /\ sent = [k \in Key |-> NoOne] /\ req = [r \in Req |-> Idle]
  BY DEF CashInit
<1>2. Rows = {} /\ Txns = {} /\ {} \in Numbers
  <2>1. 1 .. 0 = {}
    OBVIOUS
  <2> QED BY <1>1, <2>1 DEF Rows, Txns, Numbers
<1>3. Types
  <2>1. << >> \in [{} -> MoveRow] /\ << >> \in [{} -> TxnRow]
    OBVIOUS
  <2>2. mvs \in [Rows -> MoveRow] /\ txns \in [Txns -> TxnRow]
    BY <1>1, <1>2, <2>1
  <2>3. sent \in [Key -> Sent \cup {NoOne}]
    BY <1>1
  <2>4. req \in [Req -> {Idle} \cup SaveReq \cup TagReq \cup UnsaveReq \cup EditReq \cup SyncedReq]
    BY <1>1
  <2> QED BY <1>1, <1>2, <2>2, <2>3, <2>4 DEF Types
<1>4. RowsOK
  BY <1>2 DEF RowsOK
<1>5. \A r \in Req : req[r] = Idle
  BY <1>1
<1>6. ReqsOK /\ LockOK
  BY <1>5, IdleOK DEF ReqsOK, LockOK
<1> QED BY <1>3, <1>4, <1>6 DEF Basic

\* The steps of a request, and those of the household, as the proofs take them one by one.
Begin(r, u, s, key, via) == BeginSave(r, u, s, key, via) /\ (key # NoOne /\ ~s.expense => via = "api")
Begun == \E r \in Req, u \in Member, s \in Saves, key \in Key \cup {NoOne}, via \in Vias : Begin(r, u, s, key, via)

LEMMA Steps ==
  ASSUME CashNext
  PROVE  \/ Begun
         \/ \E r \in Req, u \in Member, t \in Txns, e \in Edits : BeginEdit(r, u, t, e)
         \/ \E r \in Req : CommitSave(r)
         \/ \E r \in Req : CommitTag(r)
         \/ \E r \in Req : Abandon(r)
         \/ \E r \in Req, m \in Rows : BeginUnsave(r, m)
         \/ \E r \in Req : CommitUnsave(r)
         \/ \E r \in Req : SyncEdit(r)
         \/ \E r \in Req : CommitEdit(r)
         \/ \E t \in Txns : DeleteExpense(t)
         \/ Age
<1>1. ASSUME NEW r \in Req, NEW u \in Member, NEW s \in Saves, SaveOnPage(r, u, s) PROVE Begun
  <2>1. Begin(r, u, s, NoOne, "page")
    BY <1>1 DEF SaveOnPage, Begin
  <2> QED BY <2>1 DEF Begun, Vias
<1>2. ASSUME NEW r \in Req, NEW u \in Member, NEW s \in Saves, NEW k \in Key \cup {NoOne},
             SaveMovement(r, u, s, k) \/ SaveExpense(r, u, s, k)
      PROVE  Begun
  <2>1. Begin(r, u, s, k, "api") \/ Begin(r, u, s, k, "expense")
    BY <1>2 DEF SaveMovement, SaveExpense, Begin
  <2> QED BY <2>1 DEF Begun, Vias
<1> QED BY <1>1, <1>2 DEF CashNext

LEMMA BasicNext ==
  ASSUME Basic, CashNext
  PROVE  Basic' /\ Step
<1>1. CASE Begun
  BY <1>1, BeginSaveBasic DEF Begun, Begin
<1>2. CASE \E r \in Req, u \in Member, t \in Txns, e \in Edits : BeginEdit(r, u, t, e)
  BY <1>2, BeginEditBasic
<1>3. CASE \E r \in Req : CommitSave(r)
  BY <1>3, CommitSaveBasic
<1>4. CASE \E r \in Req : CommitTag(r)
  BY <1>4, CommitTagBasic
<1>5. CASE \E r \in Req : Abandon(r)
  BY <1>5, AbandonBasic
<1>6. CASE \E r \in Req, m \in Rows : BeginUnsave(r, m)
  BY <1>6, BeginUnsaveBasic
<1>7. CASE \E r \in Req : CommitUnsave(r)
  BY <1>7, CommitUnsaveBasic
<1>8. CASE \E r \in Req : SyncEdit(r)
  BY <1>8, SyncEditBasic
<1>9. CASE \E r \in Req : CommitEdit(r)
  BY <1>9, CommitEditBasic
<1>10. CASE \E t \in Txns : DeleteExpense(t)
  BY <1>10, DeleteExpenseBasic
<1>11. CASE Age
  BY <1>11, AgeBasic
<1> QED BY <1>1, <1>2, <1>3, <1>4, <1>5, <1>6, <1>7, <1>8, <1>9, <1>10, <1>11, Steps

LEMMA BasicStutter ==
  ASSUME Basic, UNCHANGED cvars
  PROVE  Basic'
BY DEF Basic, Types, RowsOK, RowOK, ReqsOK, LockOK, Rows, Txns, cvars

(***************************************************************************)
(* Steps that neither insert nor edit.                                     *)
(***************************************************************************)
Quiet ==
    /\ DOMAIN mvs' = Rows /\ DOMAIN txns' = Txns /\ (raced => raced')
    /\ \A m \in Rows : /\ mvs'[m].amount = mvs[m].amount /\ (mvs[m].aged => mvs'[m].aged)
                       /\ mvs[m].txn = 0 => mvs'[m].key = mvs[m].key
    /\ \A t \in Txns : /\ txns'[t].amount = txns[t].amount /\ txns'[t].cash = txns[t].cash
                       /\ txns'[t].payer = txns[t].payer /\ txns'[t].key = txns[t].key
    /\ \A m \in Rows : mvs'[m].live /\ mvs[m].txn # 0 => txns'[mvs[m].txn].live = txns[mvs[m].txn].live

LEMMA QuietSame == UNCHANGED <<mvs, txns, raced>> => Quiet
BY DEF Quiet, Rows, Txns

LEMMA QuietTag ==
  ASSUME Basic, NEW r \in Req, CommitTag(r)
  PROVE  Quiet /\ req'[r] = Idle /\ \A o \in Req \ {r} : Same(req[o], req'[o])
<1>1. req[r].pc = "tag" /\ req' = [req EXCEPT ![r] = Idle] /\ UNCHANGED <<txns, raced>>
  BY DEF CommitTag
<1>2. req[r].row \in Rows /\ mvs[req[r].row].txn # 0
  BY <1>1 DEF Basic, ReqsOK, ReqOK, TagOK, Rows
<1>3. mvs' = mvs \/ mvs' = [mvs EXCEPT ![req[r].row].key = req[r].key]
  BY DEF CommitTag
<1>4. DOMAIN mvs' = Rows
  BY <1>3 DEF Rows
<1>5. \A m \in Rows : /\ mvs'[m].amount = mvs[m].amount /\ (mvs[m].aged => mvs'[m].aged)
                      /\ mvs[m].txn = 0 => mvs'[m].key = mvs[m].key
  <2> TAKE m \in Rows
  <2>1. mvs[m] \in MoveRow
    BY DEF Basic, Types
  <2>2. mvs'[m] = mvs[m] \/ (mvs[m].txn # 0 /\ mvs'[m] = [mvs[m] EXCEPT !.key = req[r].key])
    BY <1>2, <1>3 DEF Basic, Types
  <2> QED BY <2>1, <2>2 DEF MoveRow
<1>6. req'[r] = Idle /\ \A o \in Req \ {r} : Same(req[o], req'[o])
  BY <1>1 DEF Same, Basic, Types
<1>7. raced => raced'
  BY <1>1
<1>8. Quiet
  BY <1>1, <1>4, <1>5, <1>7 DEF Quiet, Txns
<1> QED BY <1>6, <1>8

LEMMA QuietUnsave ==
  ASSUME Basic, NEW r \in Req, CommitUnsave(r)
  PROVE  Quiet
<1>1. /\ req[r].row \in Rows /\ txns' = txns /\ (raced => raced')
      /\ mvs' = [mvs EXCEPT ![req[r].row].live = FALSE]
  BY CommitUnsaveShape
<1>2. DOMAIN mvs' = Rows
  BY <1>1 DEF Rows
<1>3. \A m \in Rows : mvs'[m].amount = mvs[m].amount /\ mvs'[m].aged = mvs[m].aged /\ mvs'[m].key = mvs[m].key
  <2> TAKE m \in Rows
  <2>1. mvs[m] \in MoveRow
    BY DEF Basic, Types
  <2>2. mvs'[m] = mvs[m] \/ mvs'[m] = [mvs[m] EXCEPT !.live = FALSE]
    BY <1>1 DEF Basic, Types
  <2> QED BY <2>1, <2>2 DEF MoveRow
<1> QED BY <1>1, <1>2, <1>3 DEF Quiet, Txns

LEMMA QuietDelete ==
  ASSUME Basic, NEW t \in Txns, DeleteExpense(t)
  PROVE  Quiet
<1>1. /\ mvs' = [m \in Rows |-> IF mvs[m].txn = t THEN [mvs[m] EXCEPT !.live = FALSE] ELSE mvs[m]]
      /\ txns' = [txns EXCEPT ![t].live = FALSE]
      /\ raced' = raced
  BY DeleteExpenseShape
<1>2. \A m \in Rows : /\ mvs'[m].amount = mvs[m].amount /\ (mvs[m].aged => mvs'[m].aged) /\ mvs'[m].key = mvs[m].key
                      /\ mvs[m].txn = t => mvs'[m].live = FALSE
  <2> TAKE m \in Rows
  <2>1. mvs[m] \in MoveRow
    BY DEF Basic, Types
  <2> QED BY <1>1, <2>1 DEF MoveRow
<1>3. \A x \in Txns : /\ txns'[x].amount = txns[x].amount /\ txns'[x].cash = txns[x].cash
                      /\ txns'[x].payer = txns[x].payer /\ txns'[x].key = txns[x].key
                      /\ x # t => txns'[x] = txns[x]
  <2> TAKE x \in Txns
  <2>1. txns[x] \in TxnRow
    BY DEF Basic, Types
  <2>2. txns'[x] = IF x = t THEN [txns[x] EXCEPT !.live = FALSE] ELSE txns[x]
    BY <1>1 DEF Basic, Types
  <2> QED BY <2>1, <2>2 DEF TxnRow
<1>4. DOMAIN mvs' = Rows /\ DOMAIN txns' = Txns
  BY <1>1 DEF Txns
<1>5. \A m \in Rows : mvs[m].txn \in {0} \cup Txns
  BY DEF Basic, RowsOK, RowOK
<1>6. raced => raced'
  BY <1>1
<1>7. ASSUME NEW m \in Rows, mvs'[m].live, mvs[m].txn # 0 PROVE txns'[mvs[m].txn].live = txns[mvs[m].txn].live
  <2>1. mvs[m].txn # t
    BY <1>2, <1>7
  <2>2. mvs[m].txn \in Txns
    BY <1>5, <1>7
  <2> QED BY <1>3, <2>1, <2>2
<1> QED BY <1>2, <1>3, <1>4, <1>6, <1>7 DEF Quiet

LEMMA QuietAge ==
  ASSUME Basic, Age
  PROVE  Quiet
<1>1. mvs' = [m \in Rows |-> [mvs[m] EXCEPT !.aged = TRUE]] /\ UNCHANGED <<txns, raced>>
  BY DEF Age
<1>2. \A m \in Rows : mvs'[m].amount = mvs[m].amount /\ mvs'[m].aged /\ mvs'[m].key = mvs[m].key
  <2> TAKE m \in Rows
  <2>1. mvs[m] \in MoveRow
    BY DEF Basic, Types
  <2> QED BY <1>1, <2>1 DEF MoveRow
<1> QED BY <1>1, <1>2 DEF Quiet, Txns

(***************************************************************************)
(* A linked take stays in step with its expense.                           *)
(***************************************************************************)
InStep(M, X, m) ==
    M[m].live /\ M[m].txn # 0 =>
        LET t == X[M[m].txn] IN t.live /\ t.cash /\ t.payer = M[m].user /\ t.amount = M[m].amount
StepOK == EditsFresh /\ TakeInStep

LEMMA StepQuiet ==
  ASSUME Basic, StepOK, Step, Quiet,
         \A o \in Req : Same(req[o], req'[o]) \/ (~raced => Fresh(req'[o], mvs', txns'))
  PROVE  StepOK'
<1> SUFFICES ASSUME ~raced' PROVE (\A o \in Req : Fresh(req'[o], mvs', txns')) /\ (\A m \in DOMAIN mvs' : InStep(mvs', txns', m))
  BY DEF StepOK, EditsFresh, TakeInStep, InStep, Rows
<1>1. ~raced /\ \A o \in Req : Fresh(req[o], mvs, txns)
  BY DEF Quiet, StepOK, EditsFresh
<1>2. ASSUME NEW o \in Req, Same(req[o], req'[o]) PROVE Fresh(req'[o], mvs', txns')
  <2> DEFINE q == req[o]
  <2>1. q \in Requests /\ ReqOK(q, mvs, txns, sent) /\ Fresh(q, mvs, txns)
    BY <1>1, ReqTypes DEF Basic, ReqsOK
  <2>2. req'[o].pc = q.pc /\ (q.pc # "save" => req'[o] = q)
    BY <1>2, <2>1, SameFields
  <2> HIDE DEF q
  <2>3. q.pc \in {"edit", "synced"} => q.txn \in Txns
    BY <2>1 DEF ReqOK, EditOK, SyncedOK, Txns
  <2>4. q.pc = "synced" => q.takes \subseteq Rows
    BY <2>1 DEF ReqOK, SyncedOK, Rows
  <2> QED BY <2>1, <2>2, <2>3, <2>4 DEF Fresh, Quiet
<1>3. ASSUME NEW m \in Rows PROVE InStep(mvs', txns', m)
  <2>1. InStep(mvs, txns, m)
    BY <1>1 DEF StepOK, TakeInStep, InStep
  <2>2. mvs'[m].txn = mvs[m].txn /\ mvs'[m].user = mvs[m].user /\ (mvs'[m].live => mvs[m].live)
    BY DEF Step, Evolves, Rows
  <2>3. mvs[m].txn \in {0} \cup Txns
    BY DEF Basic, RowsOK, RowOK
  <2> QED BY <2>1, <2>2, <2>3 DEF InStep, Quiet
<1> QED BY <1>1, <1>2, <1>3 DEF Quiet

LEMMA IdleFresh == \A M, X : Fresh(Idle, M, X)
BY DEF Idle, Fresh

LEMMA StepCommitSave ==
  ASSUME Basic, StepOK, NEW r \in Req, CommitSave(r)
  PROVE  StepOK'
<1> DEFINE q == req[r]
<1>s. /\ q \in SaveReq /\ SaveOK(q, sent)
      /\ req'[r] = After(q) /\ (\A o \in Req \ {r} : Same(req[o], req'[o]))
      /\ raced => raced'
      /\ LostRace(q) => mvs' = mvs /\ txns' = txns
      /\ ~LostRace(q) =>
            /\ NextRow \notin Rows /\ NextTxn \notin Txns /\ NextTxn # 0
            /\ DOMAIN mvs' = Rows \cup {NextRow} /\ mvs'[NextRow] = NewRow(q)
            /\ \A m \in Rows : mvs'[m] = mvs[m]
            /\ ~q.expense => txns' = txns
            /\ q.expense => /\ DOMAIN txns' = Txns \cup {NextTxn} /\ txns'[NextTxn] = NewTxn(q)
                            /\ \A t \in Txns : txns'[t] = txns[t]
  BY CommitSaveShape
<1>a. Fresh(After(q), mvs', txns')
  BY DEF After, Idle, Fresh
<1> HIDE DEF q
<1> SUFFICES ASSUME ~raced' PROVE (\A o \in Req : Fresh(req'[o], mvs', txns')) /\ (\A m \in DOMAIN mvs' : InStep(mvs', txns', m))
  BY DEF StepOK, EditsFresh, TakeInStep, InStep, Rows
<1>1. ~raced /\ \A o \in Req : Fresh(req[o], mvs, txns)
  BY <1>s DEF StepOK, EditsFresh
<1>k. (\A m \in Rows : mvs'[m] = mvs[m]) /\ (\A t \in Txns : txns'[t] = txns[t])
  BY <1>s
<1>2. ASSUME NEW o \in Req \ {r} PROVE Fresh(req'[o], mvs', txns')
  <2> DEFINE p == req[o]
  <2>1. p \in Requests /\ ReqOK(p, mvs, txns, sent) /\ Fresh(p, mvs, txns)
    BY <1>1, ReqTypes DEF Basic, ReqsOK
  <2>2. req'[o].pc = p.pc /\ (p.pc # "save" => req'[o] = p)
    BY <1>s, <2>1, SameFields
  <2> HIDE DEF p
  <2>3. p.pc \in {"edit", "synced"} => p.txn \in Txns
    BY <2>1 DEF ReqOK, EditOK, SyncedOK, Txns
  <2>4. p.pc = "synced" => p.takes \subseteq Rows
    BY <2>1 DEF ReqOK, SyncedOK, Rows
  <2> QED BY <2>1, <2>2, <2>3, <2>4, <1>k DEF Fresh
<1>3. ASSUME NEW m \in Rows PROVE InStep(mvs', txns', m)
  <2>1. InStep(mvs, txns, m)
    BY <1>1 DEF StepOK, TakeInStep, InStep
  <2>3. mvs[m].txn \in {0} \cup Txns
    BY DEF Basic, RowsOK, RowOK
  <2> QED BY <2>1, <2>3, <1>k DEF InStep
<1>4. ~LostRace(q) => InStep(mvs', txns', NextRow)
  <2>1. /\ NewRow(q).txn = IF q.expense THEN NextTxn ELSE 0
        /\ NewRow(q).user = q.user /\ NewRow(q).amount = q.amount
    BY DEF NewRow, NextTxn
  <2>2. NewTxn(q).live /\ NewTxn(q).cash /\ NewTxn(q).payer = q.user /\ NewTxn(q).amount = q.amount
    BY DEF NewTxn
  <2> QED BY <1>s, <2>1, <2>2 DEF InStep
<1> QED BY <1>s, <1>a, <1>2, <1>3, <1>4 DEF Rows

LEMMA StepCommitEdit ==
  ASSUME Basic, StepOK, NEW r \in Req, CommitEdit(r)
  PROVE  StepOK'
<1> DEFINE q == req[r]
           t == q.txn
<1>s. /\ q \in SyncedReq /\ SyncedOK(q, mvs, txns)
      /\ req'[r] = Idle /\ (\A o \in Req \ {r} : Same(req[o], req'[o]))
      /\ raced' = \/ raced
                  \/ q.relies /\ Races(r, q.user)
                  \/ \E o \in Req \ {r} : req[o].pc \in {"edit", "synced"} /\ req[o].txn = t
      /\ mvs' = [m \in Rows |-> EditedRow(q, m)]
      /\ DOMAIN txns' = Txns /\ \A x \in Txns \ {t} : txns'[x] = txns[x]
      /\ txns'[t].amount = Column(q, "amount") /\ txns'[t].cash = Column(q, "cash")
      /\ txns'[t].payer = Column(q, "payer")
      /\ txns'[t].live = txns[t].live
  BY CommitEditShape
<1> SUFFICES ASSUME ~raced' PROVE (\A o \in Req : Fresh(req'[o], mvs', txns')) /\ (\A m \in DOMAIN mvs' : InStep(mvs', txns', m))
  BY DEF StepOK, EditsFresh, TakeInStep, InStep, Rows
<1>1. ~raced /\ \A o \in Req : Fresh(req[o], mvs, txns)
  BY <1>s DEF StepOK, EditsFresh
<1>0. q.pc = "synced"
  BY <1>s DEF SyncedReq
<1>f. /\ q.old.amount = txns[t].amount /\ q.old.cash = txns[t].cash /\ q.old.payer = txns[t].payer
      /\ \A m \in q.takes : q.was[m] = mvs[m].amount
  BY <1>0, <1>1 DEF Fresh
<1> HIDE DEF q
<1>c. txns'[t].amount = q.new.amount /\ txns'[t].cash = q.new.cash /\ txns'[t].payer = q.new.payer
  BY <1>s, <1>f DEF Column
<1>2. ASSUME NEW o \in Req \ {r} PROVE Fresh(req'[o], mvs', txns')
  <2> DEFINE p == req[o]
  <2>1. p \in Requests /\ ReqOK(p, mvs, txns, sent) /\ Fresh(p, mvs, txns)
    BY <1>1, ReqTypes DEF Basic, ReqsOK
  <2>2. req'[o].pc = p.pc /\ (p.pc # "save" => req'[o] = p)
    BY <1>s, <2>1, SameFields
  <2>3. p.pc \in {"edit", "synced"} => p.txn \in Txns \ {t}
    BY <2>1, <1>s DEF ReqOK, EditOK, SyncedOK, Txns
  <2> HIDE DEF p
  <2>4. p.pc = "synced" => p.takes \subseteq Rows /\ \A m \in p.takes : m \notin q.takes
    BY <2>1, <2>3, <1>s DEF ReqOK, SyncedOK, Rows
  <2>5. p.pc = "synced" => \A m \in p.takes : mvs'[m] = mvs[m]
    BY <2>4, <1>s DEF EditedRow
  <2> QED BY <2>1, <2>2, <2>3, <2>5, <1>s DEF Fresh
<1>3. ASSUME NEW m \in Rows PROVE InStep(mvs', txns', m)
  <2>1. InStep(mvs, txns, m) /\ mvs[m] \in MoveRow
    BY <1>1 DEF StepOK, TakeInStep, InStep, Basic, Types
  <2>2. mvs'[m] = EditedRow(q, m)
    BY <1>s
  <2>3. mvs[m].txn \in {0} \cup Txns
    BY DEF Basic, RowsOK, RowOK
  <2>4. CASE m \notin q.takes
    <3>1. mvs'[m] = mvs[m]
      BY <2>2, <2>4 DEF EditedRow
    <3>2. mvs[m].live => mvs[m].txn # t
      BY <2>4, <1>s DEF SyncedOK, Linked, Rows
    <3> QED BY <2>1, <2>3, <3>1, <3>2, <1>s DEF InStep
  <2>5. CASE m \in q.takes
    <3>1. mvs[m].txn = t /\ q.was[m] = mvs[m].amount /\ (q.new.cash => q.new.payer = mvs[m].user)
      BY <2>5, <1>s, <1>f DEF SyncedOK
    <3>2. CASE ~q.new.cash
      <4>1. ~mvs'[m].live
        BY <2>1, <2>2, <2>5, <3>2 DEF EditedRow, MoveRow
      <4> QED BY <4>1 DEF InStep
    <3>3. CASE q.new.cash
      <4>1. /\ mvs'[m].live = mvs[m].live /\ mvs'[m].user = mvs[m].user /\ mvs'[m].txn = mvs[m].txn
            /\ mvs'[m].amount = q.new.amount
        BY <2>1, <2>2, <2>5, <3>1, <3>3 DEF EditedRow, MoveRow
      <4> QED BY <2>1, <3>1, <3>3, <4>1, <1>c, <1>s DEF InStep
    <3> QED BY <3>2, <3>3
  <2> QED BY <2>4, <2>5
<1> QED BY <1>s, <1>2, <1>3, IdleFresh

\* A request that begins or ends leaves the tables as they are.
LEMMA Began ==
  ASSUME Basic, NEW r \in Req, NEW u \in Member, NEW s \in Saves, NEW key \in Key \cup {NoOne}, NEW via \in Vias,
         Begin(r, u, s, key, via)
  PROVE  /\ UNCHANGED <<mvs, txns, raced>> /\ req'[r].pc = "save" /\ \A o \in Req \ {r} : req'[o] = req[o]
         /\ req'[r].key = key /\ req'[r].expense = s.expense /\ (key # NoOne => sent'[key] = <<u, s, via>>)
         /\ key # NoOne => sent[key] \in {NoOne, <<u, s, via>>}
         /\ key # NoOne /\ via = "api" => ~Replayed(key)
<1> DEFINE new == [pc |-> "save", user |-> u, locked |-> via = "api", kind |-> s.kind,
                   owner |-> s.owner, amount |-> IF s.kind = "stash_count" THEN s.amount - StashBalance(u) ELSE s.amount,
                   counted |-> s.amount, month |-> s.month, expense |-> s.expense, key |-> key, via |-> via,
                   relies |-> s.kind = "stash_count" \/ (s.kind = "take" /\ s.owner = u), upset |-> FALSE]
<1>1. /\ UNCHANGED <<mvs, txns, raced>> /\ req' = [req EXCEPT ![r] = new]
      /\ sent' = IF key = NoOne THEN sent ELSE [sent EXCEPT ![key] = <<u, s, via>>]
      /\ key # NoOne => sent[key] \in {NoOne, <<u, s, via>>}
      /\ key # NoOne /\ via = "api" => ~Replayed(key)
  BY DEF Begin, BeginSave
<1>2. new.pc = "save" /\ new.key = key /\ new.expense = s.expense
  OBVIOUS
<1> HIDE DEF new
<1> QED BY <1>1, <1>2 DEF Basic, Types

LEMMA EditBegan ==
  ASSUME Basic, NEW r \in Req, NEW u \in Member, NEW t \in Txns, NEW e \in Edits, BeginEdit(r, u, t, e)
  PROVE  /\ UNCHANGED <<mvs, txns, raced>> /\ (\A o \in Req \ {r} : req'[o] = req[o])
         /\ req'[r].pc = "edit" /\ req'[r].txn = t /\ req'[r].old = txns[t]
<1> DEFINE new == [pc |-> "edit", user |-> u, txn |-> t, old |-> txns[t],
                   new |-> [txns[t] EXCEPT !.amount = e.amount, !.cash = e.cash, !.payer = e.payer]]
<1>1. UNCHANGED <<mvs, txns, raced>> /\ req' = [req EXCEPT ![r] = new]
  BY DEF BeginEdit
<1>2. new.pc = "edit" /\ new.txn = t /\ new.old = txns[t]
  OBVIOUS
<1> HIDE DEF new
<1> QED BY <1>1, <1>2 DEF Basic, Types

LEMMA UnsaveBegan ==
  ASSUME Basic, NEW r \in Req, NEW m \in Rows, BeginUnsave(r, m)
  PROVE  /\ UNCHANGED <<mvs, txns, raced>> /\ (\A o \in Req \ {r} : req'[o] = req[o])
         /\ req'[r].pc = "unsave" /\ req'[r].row = m /\ req'[r].user = mvs[m].user
         /\ Adds(mvs, m) => StashBalance(mvs[m].user) >= mvs[m].amount
BY DEF BeginUnsave, Adds, Basic, Types

LEMMA StepNext ==
  ASSUME Basic, StepOK, CashNext
  PROVE  StepOK'
<1>0. Step
  BY BasicNext
<1>1. CASE Begun
  <2> PICK r \in Req, u \in Member, s \in Saves, key \in Key \cup {NoOne}, via \in Vias : Begin(r, u, s, key, via)
    BY <1>1 DEF Begun
  <2>1. UNCHANGED <<mvs, txns, raced>> /\ req'[r].pc = "save" /\ \A o \in Req \ {r} : req'[o] = req[o]
    BY Began
  <2>2. Quiet
    BY <2>1, QuietSame
  <2>3. \A o \in Req : Same(req[o], req'[o]) \/ Fresh(req'[o], mvs', txns')
    BY <2>1 DEF Same, Fresh
  <2> QED BY <1>0, <2>2, <2>3, StepQuiet
<1>2. CASE \E r \in Req, u \in Member, t \in Txns, e \in Edits : BeginEdit(r, u, t, e)
  <2> PICK r \in Req, u \in Member, t \in Txns, e \in Edits : BeginEdit(r, u, t, e)
    BY <1>2
  <2>1. /\ UNCHANGED <<mvs, txns, raced>> /\ (\A o \in Req \ {r} : req'[o] = req[o])
        /\ req'[r].pc = "edit" /\ req'[r].txn = t /\ req'[r].old = txns[t]
    BY EditBegan
  <2>2. Quiet
    BY <2>1, QuietSame
  <2>3. \A o \in Req : Same(req[o], req'[o]) \/ Fresh(req'[o], mvs', txns')
    BY <2>1 DEF Same, Fresh
  <2> QED BY <1>0, <2>2, <2>3, StepQuiet
<1>3. CASE \E r \in Req : CommitSave(r)
  BY <1>3, StepCommitSave
<1>4. CASE \E r \in Req : CommitTag(r)
  <2> PICK r \in Req : CommitTag(r)
    BY <1>4
  <2>1. Quiet /\ \A o \in Req : Same(req[o], req'[o]) \/ Fresh(req'[o], mvs', txns')
    BY QuietTag, IdleFresh
  <2> QED BY <1>0, <2>1, StepQuiet
<1>5. CASE \E r \in Req : Abandon(r)
  <2> PICK r \in Req : Abandon(r)
    BY <1>5
  <2>1. UNCHANGED <<mvs, txns, raced>> /\ req' = [req EXCEPT ![r] = Idle]
    BY DEF Abandon
  <2>2. Quiet
    BY <2>1, QuietSame
  <2>3. \A o \in Req : Same(req[o], req'[o]) \/ Fresh(req'[o], mvs', txns')
    BY <2>1, IdleFresh DEF Same, Basic, Types
  <2> QED BY <1>0, <2>2, <2>3, StepQuiet
<1>6. CASE \E r \in Req, m \in Rows : BeginUnsave(r, m)
  <2> PICK r \in Req, m \in Rows : BeginUnsave(r, m)
    BY <1>6
  <2>1. UNCHANGED <<mvs, txns, raced>> /\ (\A o \in Req \ {r} : req'[o] = req[o]) /\ req'[r].pc = "unsave"
    BY UnsaveBegan
  <2>2. Quiet
    BY <2>1, QuietSame
  <2>3. \A o \in Req : Same(req[o], req'[o]) \/ Fresh(req'[o], mvs', txns')
    BY <2>1 DEF Same, Fresh
  <2> QED BY <1>0, <2>2, <2>3, StepQuiet
<1>7. CASE \E r \in Req : CommitUnsave(r)
  <2> PICK r \in Req : CommitUnsave(r)
    BY <1>7
  <2>1. req'[r] = Idle /\ \A o \in Req \ {r} : Same(req[o], req'[o])
    BY CommitUnsaveShape
  <2>2. Quiet /\ \A o \in Req : Same(req[o], req'[o]) \/ Fresh(req'[o], mvs', txns')
    BY <2>1, QuietUnsave, IdleFresh
  <2> QED BY <1>0, <2>2, StepQuiet
<1>8. CASE \E r \in Req : SyncEdit(r)
  <2> PICK r \in Req : SyncEdit(r)
    BY <1>8
  <2>1. /\ Takes(req[r]) \subseteq Rows
        /\ UNCHANGED <<mvs, txns, raced>>
        /\ \A o \in Req \ {r} : req'[o] = req[o]
        /\ req'[r] = Idle \/ req'[r] = Synced(req[r])
    BY SyncEditShape
  <2>2. Quiet
    BY <2>1, QuietSame
  <2>3. ~raced => Fresh(req'[r], mvs', txns')
    <3>1. req[r].pc = "edit"
      BY DEF SyncEdit
    <3>2. ~raced => Fresh(req[r], mvs, txns)
      BY DEF StepOK, EditsFresh
    <3>3. ~raced => Fresh(Synced(req[r]), mvs, txns)
      BY <3>1, <3>2 DEF Fresh, Synced
    <3> QED BY <2>1, <3>3, IdleFresh
  <2>4. \A o \in Req : Same(req[o], req'[o]) \/ (~raced => Fresh(req'[o], mvs', txns'))
    BY <2>1, <2>3 DEF Same
  <2> QED BY <1>0, <2>2, <2>4, StepQuiet
<1>9. CASE \E r \in Req : CommitEdit(r)
  BY <1>9, StepCommitEdit
<1>10. CASE \E t \in Txns : DeleteExpense(t)
  BY <1>0, <1>10, QuietDelete, DeleteExpenseShape, StepQuiet
<1>11. CASE Age
  <2>1. Quiet /\ \A o \in Req : Same(req[o], req'[o])
    BY <1>11, QuietAge DEF Age, Same
  <2> QED BY <1>0, <2>1, StepQuiet
<1> QED BY <1>1, <1>2, <1>3, <1>4, <1>5, <1>6, <1>7, <1>8, <1>9, <1>10, <1>11, Steps

LEMMA StepStutter ==
  ASSUME Basic, StepOK, UNCHANGED cvars
  PROVE  StepOK'
<1>1. UNCHANGED <<mvs, txns, raced, req, sent>>
  BY DEF cvars
<1>2. Quiet /\ Step
  BY <1>1, QuietSame, SameTables
<1> QED BY <1>1, <1>2, StepQuiet DEF Same

\* The tables keep their types, only a take names a stash or an expense, what a request carries fits the tables it was
\* read from, and two saves of one member's are never both under the member's lock (lock_actor_cash).
THEOREM TablesAndRequests == CashSpec => []Basic
<1>1. CashInit => Basic
  BY InitBasic
<1>2. Basic /\ [CashNext]_cvars => Basic'
  BY BasicNext, BasicStutter
<1> QED BY <1>1, <1>2, PTL DEF CashSpec

\* While no two edits of one expense overlap, a live take linked to an expense stays in step with it: the expense lives, is
\* a cash expense of the taker, and for the amount of the take (sync_linked_take).
THEOREM TakesStayInStep == CashSpec => []TakeInStep
<1>1. CashInit => StepOK
  <2> SUFFICES ASSUME CashInit PROVE StepOK
    OBVIOUS
  <2>1. Rows = {} /\ \A r \in Req : req[r] = Idle
    BY DEF CashInit, Rows
  <2> QED BY <2>1, IdleFresh DEF StepOK, EditsFresh, TakeInStep
<1>2. Basic /\ StepOK /\ [CashNext]_cvars => StepOK'
  BY StepNext, StepStutter
<1>3. StepOK => TakeInStep
  BY DEF StepOK
<1> QED BY <1>1, <1>2, <1>3, TablesAndRequests, PTL DEF CashSpec

(***************************************************************************)
(* The wallet: every period of every member's rows adds up.                *)
(***************************************************************************)
\* The larger and the smaller of two numbers.
LEMMA LargerIs ==
  ASSUME NEW a \in Int, NEW b \in Int
  PROVE  /\ Larger(a, b) = IF a >= b THEN a ELSE b
         /\ Smaller(a, b) = IF a <= b THEN a ELSE b
<1>1. ASSUME NEW x \in Int, NEW y \in Int
      PROVE  Max({x, y}) = IF x >= y THEN x ELSE y
  <2> DEFINE m == IF x >= y THEN x ELSE y
             P(z) == \A o \in {x, y} : z >= o
  <2>1. m \in {x, y} /\ P(m)
    OBVIOUS
  <2>2. \A z \in {x, y} : P(z) => z = m
    OBVIOUS
  <2>3. (CHOOSE z \in {x, y} : P(z)) = m
    <3> HIDE DEF m, P
    <3> QED BY <2>1, <2>2
  <2> QED BY <2>3 DEF Max
<1>2. ASSUME NEW x \in Int, NEW y \in Int
      PROVE  Min({x, y}) = IF x <= y THEN x ELSE y
  <2> DEFINE m == IF x <= y THEN x ELSE y
             P(z) == \A o \in {x, y} : z =< o
  <2>1. m \in {x, y} /\ P(m)
    OBVIOUS
  <2>2. \A z \in {x, y} : P(z) => z = m
    OBVIOUS
  <2>3. (CHOOSE z \in {x, y} : P(z)) = m
    <3> HIDE DEF m, P
    <3> QED BY <2>1, <2>2
  <2> QED BY <2>3 DEF Min
<1> QED BY <1>1, <1>2 DEF Larger, Smaller

\* The months are 1 .. LastMonth.
LEMMA MonthsAre ==
  ASSUME NEW a \in Months
  PROVE  LastMonth \in Nat /\ Months = 1 .. LastMonth
<1> DEFINE n == Cardinality(Months)
           P(z) == \A o \in Months : z >= o
<1>1. IsFiniteSet(Months) /\ Months = 1 .. n /\ n \in Nat
  BY CashAssumption, FS_CardinalityType
<1>2. n \in Months /\ P(n) /\ \A z \in Months : P(z) => z = n
  <2> HIDE DEF n
  <2> QED BY <1>1
<1>3. (CHOOSE z \in Months : P(z)) = n
  <2> HIDE DEF n, P
  <2> QED BY <1>2
<1> QED BY <1>1, <1>3 DEF LastMonth, Max

\* Of some rows, one was made last.
LEMMA LatestRow ==
  ASSUME NEW M, Table(M), NEW S \in SUBSET DOMAIN M, S # {}
  PROVE  \E m \in S : \A o \in S : M[o].at <= M[m].at
<1> DEFINE Latest(T) == \E m \in T : \A o \in T : M[o].at <= M[m].at
           Bad == {T \in SUBSET S : T # {} /\ ~Latest(T)}
<1>1. SUFFICES ASSUME Bad # {} PROVE FALSE
  OBVIOUS
<1>2. \A T \in SUBSET S : IsFiniteSet(T)
  BY NextNumber, FS_Subset DEF Table
<1>3. PICK T \in Bad : \A U \in Bad : Cardinality(T) <= Cardinality(U)
  <2>1. \A U \in Bad : IsFiniteSet(U)
    BY <1>2
  <2> HIDE DEF Bad
  <2> QED BY <1>1, <2>1, SmallestSet
<1> DEFINE x == Some(T)
           U == T \ {x}
<1>4. x \in T /\ ~(Cardinality(T) <= Cardinality(U))
  BY <1>2, OneLess
<1>5. U = {} \/ Latest(U)
  <2>1. U \notin Bad
    <3> HIDE DEF Bad, U
    <3> QED BY <1>3, <1>4
  <2> QED BY <2>1
<1>6. \A o \in T : M[o].at \in Nat
  BY DEF Table, MoveRow
<1>7. CASE U = {}
  <2>1. \A o \in T : o = x
    BY <1>7
  <2> HIDE DEF x
  <2> QED BY <2>1, <1>4, <1>6
<1>8. CASE Latest(U)
  <2>1. PICK m \in U : \A o \in U : M[o].at <= M[m].at
    BY <1>8
  <2>2. \A o \in T : o = x \/ o \in U
    OBVIOUS
  <2> HIDE DEF x
  <2>3. CASE M[x].at <= M[m].at
    BY <2>1, <2>2, <2>3, <1>4
  <2>4. CASE ~(M[x].at <= M[m].at)
    <3>1. \A o \in T : M[o].at <= M[x].at
      BY <2>1, <2>2, <2>4, <1>4, <1>6
    <3> QED BY <3>1, <1>4
  <2> QED BY <2>3, <2>4
<1> QED BY <1>5, <1>7, <1>8

\* Totals of rows are numbers, and of rows that cannot be negative, natural ones.
LEMMA TotalsAre ==
  ASSUME Types, RowsOK
  PROVE  /\ \A S \in SUBSET Rows : Total(S) \in Int
         /\ \A S \in SUBSET Rows : (\A m \in S : mvs[m].kind # "stash_count") => Total(S) \in Nat
         /\ \A S \in SUBSET Txns : TotalLogged(S) \in Nat
<1>1. ASSUME NEW S \in SUBSET Rows
      PROVE  /\ IsFiniteSet(S) /\ Total(S) = SumOver([m \in S |-> mvs[m].amount], S)
             /\ \A m \in S : [x \in S |-> mvs[x].amount][m] \in Int
  <2>1. IsFiniteSet(S)
    BY NextNumber, FS_Subset DEF Types
  <2>2. Total(S) = MapThenSumSet(LAMBDA m : mvs[m].amount, S)
    BY DEF Total, MapThenSumSet, MapThenFoldSet
  <2>3. \A m \in S : mvs[m].amount \in Int
    BY DEF Types, MoveRow
  <2> QED BY <2>1, <2>2, <2>3, SumOfAmounts
<1>2. ASSUME NEW S \in SUBSET Txns
      PROVE  TotalLogged(S) \in Nat
  <2>1. IsFiniteSet(S)
    BY NextNumber, FS_Subset DEF Types
  <2>2. TotalLogged(S) = MapThenSumSet(LAMBDA m : txns[m].amount, S)
    BY DEF TotalLogged, MapThenSumSet, MapThenFoldSet
  <2>3. TotalLogged(S) = SumOver([m \in S |-> txns[m].amount], S)
    BY <2>1, <2>2, SumOfAmounts
  <2>4. \A m \in S : [x \in S |-> txns[x].amount][m] \in Nat
    BY DEF Types, TxnRow
  <2> QED BY <2>1, <2>3, <2>4, SumNat
<1>3. ASSUME NEW S \in SUBSET Rows PROVE Total(S) \in Int
  BY <1>1, SumInt
<1>4. ASSUME NEW S \in SUBSET Rows, \A m \in S : mvs[m].kind # "stash_count" PROVE Total(S) \in Nat
  <2>1. \A m \in S : [x \in S |-> mvs[x].amount][m] \in Nat
    <3> TAKE m \in S
    <3>1. mvs[m].amount \in Int
      BY DEF Types, MoveRow
    <3>2. mvs[m].amount >= 0
      BY <1>4 DEF RowsOK, RowOK
    <3> QED BY <3>1, <3>2
  <2> QED BY <2>1, <1>1, SumNat
<1> QED BY <1>2, <1>3, <1>4

\* What a month adds and takes away, and what it passes on.
LEMMA EndIs ==
  ASSUME Types, RowsOK, NEW u, NEW month, Marked(u, month)
  PROVE  RawEnd(u, month) \in Int
<1> DEFINE S == Of(u, "still_have", month)
           IsLast(m) == \A o \in S : mvs[o].at <= mvs[m].at
           mark == CHOOSE m \in S : IsLast(m)
           Later(kind) == {m \in Of(u, kind, month) : mvs[m].at > mvs[mark].at}
           logs == {t \in Logged(u, month) : txns[t].at > mvs[mark].at}
<1>1. S \in SUBSET Rows /\ S # {}
  BY DEF Marked, Of
<1>2. \E m \in S : IsLast(m)
  <2>1. Table(mvs)
    BY DEF Types, Table, Rows
  <2> QED BY <1>1, <2>1, LatestRow DEF Rows
<1>3. mark \in S
  <2> HIDE DEF S, IsLast
  <2> QED BY <1>2
<1>4. mvs[mark].amount \in Int
  <2> HIDE DEF mark
  <2> QED BY <1>1, <1>3 DEF Types, MoveRow
<1>5. /\ Total(Later("take")) \in Int /\ Total(Later("put_back")) \in Int /\ Total(Later("out")) \in Int
      /\ TotalLogged(logs) \in Int
  <2>1. \A kind : Later(kind) \in SUBSET Rows
    BY DEF Of
  <2>2. logs \in SUBSET Txns
    BY DEF Logged
  <2> HIDE DEF Later, logs
  <2> QED BY <2>1, <2>2, TotalsAre
<1>6. RawEnd(u, month) = mvs[mark].amount + Total(Later("take")) - Total(Later("put_back")) - Total(Later("out"))
                           - TotalLogged(logs)
  BY DEF RawEnd
<1> HIDE DEF mark, Later, logs
<1> QED BY <1>4, <1>5, <1>6

LEMMA MonthIs ==
  ASSUME Types, RowsOK, NEW u, NEW month
  PROVE  /\ StillHave(u, month) \in Nat /\ Excess(u, month) \in Nat
         /\ Total(Of(u, "take", month)) \in Nat /\ Total(Of(u, "put_back", month)) \in Nat
         /\ Total(Of(u, "out", month)) \in Nat /\ TotalLogged(Logged(u, month)) \in Nat
<1>1. StillHave(u, month) \in Nat /\ Excess(u, month) \in Nat
  <2>1. CASE Marked(u, month)
    <3>1. RawEnd(u, month) \in Int
      BY <2>1, EndIs
    <3>2. Larger(RawEnd(u, month), 0) \in Nat /\ Larger(0 - RawEnd(u, month), 0) \in Nat
      BY <3>1, LargerIs
    <3> QED BY <2>1, <3>2 DEF StillHave, Excess
  <2> QED BY <2>1 DEF StillHave, Excess
<1>2. ASSUME NEW kind, kind # "stash_count" PROVE Total(Of(u, kind, month)) \in Nat
  <2>1. Of(u, kind, month) \in SUBSET Rows /\ \A m \in Of(u, kind, month) : mvs[m].kind # "stash_count"
    BY <1>2 DEF Of
  <2> QED BY <2>1, TotalsAre
<1>3. TotalLogged(Logged(u, month)) \in Nat
  <2>1. Logged(u, month) \in SUBSET Txns
    BY DEF Logged
  <2> QED BY <2>1, TotalsAre
<1> QED BY <1>1, <1>2, <1>3

LEMMA CarriedIs ==
  ASSUME Types, RowsOK, NEW u, NEW month \in Int
  PROVE  Carried(u, month) = StillHave(u, month - 1) /\ Carried(u, month) \in Nat
<1>1. Carried(u, month) = StillHave(u, month - 1)
  BY DEF Carried, StillHave
<1> QED BY <1>1, MonthIs

LEMMA OwnIsInt ==
  ASSUME Types, RowsOK, NEW u, NEW month \in Int
  PROVE  /\ Own(u, month) = Carried(u, month) + Total(Of(u, "take", month)) - Total(Of(u, "put_back", month))
                              - StillHave(u, month) - TotalLogged(Logged(u, month)) - Total(Of(u, "out", month))
                              + Excess(u, month)
         /\ Own(u, month) \in Int
<1>1. Own(u, month) = Carried(u, month) + Total(Of(u, "take", month)) - Total(Of(u, "put_back", month))
                        - StillHave(u, month) - TotalLogged(Logged(u, month)) - Total(Of(u, "out", month))
                        + Excess(u, month)
  BY MonthIs, CarriedIs DEF Own, Spent
<1> QED BY <1>1, MonthIs, CarriedIs

\* The shortfall pass, from the last month down, is defined at every month.
IsInto(f, own, closed, L) ==
    f = [month \in 0 .. L |-> IF month = L \/ month \in closed THEN 0
                              ELSE Larger(f[month + 1] - own[month + 1], 0)]
LEMMA IntoExists ==
  ASSUME NEW L \in Nat, NEW own \in [1 .. L -> Int], NEW closed
  PROVE  /\ \E f : IsInto(f, own, closed, L)
         /\ \A f : IsInto(f, own, closed, L) => \A month \in 0 .. L : f[month] \in Nat
<1> DEFINE Part(f, k) ==
             /\ f \in [L - k .. L -> Nat]
             /\ \A month \in L - k .. L : f[month] = IF month = L \/ month \in closed THEN 0
                                                     ELSE Larger(f[month + 1] - own[month + 1], 0)
           Bad == {k \in 0 .. L : ~\E f : Part(f, k)}
<1>1. ASSUME Bad # {} PROVE FALSE
  <2>1. PICK k \in Bad : \A j \in Bad : k <= j
    <3>1. Bad \in SUBSET Nat
      OBVIOUS
    <3> HIDE DEF Bad
    <3> QED BY <1>1, <3>1, LeastNumber
  <2>2. k # 0
    <3>1. Part([x \in L .. L |-> 0], 0)
      OBVIOUS
    <3> HIDE DEF Part
    <3> QED BY <3>1
  <2>3. k - 1 \in 0 .. L /\ k - 1 \notin Bad
    <3>1. k - 1 \in 0 .. L /\ ~(k <= k - 1)
      BY <2>2
    <3> HIDE DEF Bad
    <3> QED BY <2>1, <3>1
  <2>4. PICK f : Part(f, k - 1)
    <3> HIDE DEF Part
    <3> QED BY <2>3
  <2> DEFINE n == L - k
             v == IF n \in closed THEN 0 ELSE Larger(f[n + 1] - own[n + 1], 0)
             e == [x \in n .. L |-> IF x = n THEN v ELSE f[x]]
  <2>5. v \in Nat
    <3>1. f[n + 1] \in Int /\ own[n + 1] \in Int
      BY <2>2, <2>4
    <3> HIDE DEF n
    <3> QED BY <3>1, LargerIs
  <2>6. Part(e, k)
    <3>1. n \in 0 .. L /\ n # L /\ n + 1 \in 0 .. L /\ L - (k - 1) = n + 1 /\ n = L - k
      BY <2>2
    <3>2. f \in [n + 1 .. L -> Nat]
          /\ \A month \in n + 1 .. L : f[month] = IF month = L \/ month \in closed THEN 0
                                                     ELSE Larger(f[month + 1] - own[month + 1], 0)
      BY <2>4, <3>1
    <3> HIDE DEF n, v
    <3>3. e \in [n .. L -> Nat] /\ e[n] = v /\ \A x \in n + 1 .. L : e[x] = f[x]
      BY <2>5, <3>1, <3>2
    <3>4. v = IF n = L \/ n \in closed THEN 0 ELSE Larger(e[n + 1] - own[n + 1], 0)
      BY <3>1, <3>3 DEF v
    <3>5. \A month \in n .. L : e[month] = IF month = L \/ month \in closed THEN 0
                                           ELSE Larger(e[month + 1] - own[month + 1], 0)
      <4> HIDE DEF e
      <4> TAKE month \in n .. L
      <4>1. CASE month = n
        BY <4>1, <3>3, <3>4
      <4>2. CASE month # n
        <5>1. month \in n + 1 .. L /\ (month # L => month + 1 \in n + 1 .. L)
          BY <4>2, <3>1
        <5> QED BY <5>1, <3>2, <3>3
      <4> QED BY <4>1, <4>2
    <3> QED BY <3>1, <3>3, <3>5
  <2> HIDE DEF Part
  <2> QED BY <2>1, <2>6
<1>2. PICK f : Part(f, L)
  <2>1. L \in 0 .. L
    OBVIOUS
  <2> HIDE DEF Part
  <2> QED BY <1>1, <2>1
<1>3. IsInto(f, own, closed, L)
  BY <1>2 DEF IsInto
<1>4. ASSUME NEW g, IsInto(g, own, closed, L), NEW month \in 0 .. L PROVE g[month] \in Nat
  <2> DEFINE Off == {k \in 0 .. L : g[L - k] \notin Nat}
  <2>0. \A x \in 0 .. L : g[x] = IF x = L \/ x \in closed THEN 0 ELSE Larger(g[x + 1] - own[x + 1], 0)
    BY <1>4 DEF IsInto
  <2>1. ASSUME Off # {} PROVE FALSE
    <3>1. PICK k \in Off : \A j \in Off : k <= j
      <4>1. Off \in SUBSET Nat
        OBVIOUS
      <4> HIDE DEF Off
      <4> QED BY <2>1, <4>1, LeastNumber
    <3>2. L - k \in 0 .. L /\ L - k # L /\ g[L - k] = Larger(g[L - k + 1] - own[L - k + 1], 0)
      BY <2>0
    <3>3. k - 1 \notin Off
      <4>1. ~(k <= k - 1)
        OBVIOUS
      <4> HIDE DEF Off
      <4> QED BY <3>1, <4>1
    <3>4. g[L - k + 1] \in Nat /\ own[L - k + 1] \in Int
      <4>1. k - 1 \in 0 .. L /\ L - (k - 1) = L - k + 1 /\ L - k + 1 \in 1 .. L
        BY <3>2
      <4> QED BY <3>3, <4>1
    <3>5. Larger(g[L - k + 1] - own[L - k + 1], 0) \in Nat
      BY <3>4, LargerIs
    <3> QED BY <3>2, <3>5
  <2>2. L - month \in 0 .. L /\ L - (L - month) = month
    OBVIOUS
  <2> QED BY <2>1, <2>2
<1> QED BY <1>3, <1>4

\* What a month's row of the breakdown holds, and how the next month's follows from it.
Follows(rows, month, S) ==
    LET row == rows[month]
    IN  /\ row.carried \in Nat /\ row.taken \in Nat /\ row.put_back \in Nat /\ row.still_have \in Nat
        /\ row.logged \in Nat /\ row.outs \in Nat /\ row.not_yet_logged \in Nat /\ row.logged_cross_month \in Nat
        /\ row.not_yet_logged >= row.carried + row.taken - row.put_back - row.still_have - row.logged - row.outs
                                    - row.logged_cross_month
        /\ month + 1 \in S => rows[month + 1].carried = row.still_have
LEMMA BreakdownIs ==
  ASSUME Types, RowsOK, NEW u, NEW rows, rows = Breakdown(u), NEW month \in Months
  PROVE  Follows(rows, month, Months)
<1> DEFINE own == CHOOSE f \in {[m \in Months |-> Own(u, m)]} : TRUE
           closed == {m \in 0 .. LastMonth : Marked(u, m)}
           Pass(f) == [m \in 0 .. LastMonth |-> IF m = LastMonth \/ Marked(u, m) THEN 0
                                                 ELSE Larger(f[m + 1] - own[m + 1], 0)]
           into == CHOOSE f : f = Pass(f)
<1>1. LastMonth \in Nat /\ Months = 1 .. LastMonth /\ month \in Int /\ month \in 0 .. LastMonth
  BY MonthsAre
<1>2. own = [m \in Months |-> Own(u, m)]
  OBVIOUS
<1> HIDE DEF own
<1>3. own \in [1 .. LastMonth -> Int] /\ own[month] = Own(u, month)
  BY <1>1, <1>2, OwnIsInt
<1>4. \A f : (f = Pass(f)) <=> IsInto(f, own, closed, LastMonth)
  BY DEF IsInto
<1>5. into = Pass(into)
  <2>1. \E f : f = Pass(f)
    <3> HIDE DEF Pass, closed
    <3> QED BY <1>1, <1>3, <1>4, IntoExists
  <2> HIDE DEF Pass
  <2> QED BY <2>1
<1>6. into[month] \in Nat
  <2> HIDE DEF Pass, closed, into
  <2> QED BY <1>1, <1>3, <1>4, <1>5, IntoExists
<1>7. rows = [m \in Months |->
            [carried |-> Carried(u, m), taken |-> Total(Of(u, "take", m)),
             put_back |-> Total(Of(u, "put_back", m)), still_have |-> StillHave(u, m),
             logged |-> TotalLogged(Logged(u, m)), outs |-> Total(Of(u, "out", m)),
             own |-> own[m],
             not_yet_logged |-> Larger(own[m] - into[m], 0),
             logged_cross_month |-> Smaller(into[m], Larger(own[m], 0))]]
  BY DEF Breakdown, own
<1> HIDE DEF into
<1> DEFINE o == Own(u, month)
           i == into[month]
<1>8. /\ Larger(o - i, 0) \in Nat /\ Smaller(i, Larger(o, 0)) \in Nat
      /\ Larger(o - i, 0) >= o - Smaller(i, Larger(o, 0))
  <2>1. o \in Int /\ i \in Nat
    BY <1>1, <1>6, OwnIsInt
  <2> HIDE DEF o, i
  <2>2. Larger(o - i, 0) = (IF o - i >= 0 THEN o - i ELSE 0) /\ Larger(o, 0) = IF o >= 0 THEN o ELSE 0
    BY <2>1, LargerIs
  <2>3. Smaller(i, Larger(o, 0)) = IF i <= Larger(o, 0) THEN i ELSE Larger(o, 0)
    BY <2>1, <2>2, LargerIs
  <2> QED BY <2>1, <2>2, <2>3
<1>9. o + Smaller(i, Larger(o, 0)) - Smaller(i, Larger(o, 0)) = o
  BY <1>1, <1>8, OwnIsInt
<1>10. month + 1 \in Months => Carried(u, month + 1) = StillHave(u, month)
  <2> DEFINE n == month + 1
  <2>1. n \in Int /\ n - 1 = month
    BY <1>1
  <2> HIDE DEF n
  <2>2. Carried(u, n) = StillHave(u, month)
    BY <2>1, CarriedIs
  <2> QED BY <2>2 DEF n
<1>11. /\ rows[month].carried = Carried(u, month) /\ rows[month].taken = Total(Of(u, "take", month))
       /\ rows[month].put_back = Total(Of(u, "put_back", month)) /\ rows[month].still_have = StillHave(u, month)
       /\ rows[month].logged = TotalLogged(Logged(u, month)) /\ rows[month].outs = Total(Of(u, "out", month))
       /\ rows[month].not_yet_logged = Larger(o - i, 0)
       /\ rows[month].logged_cross_month = Smaller(i, Larger(o, 0))
       /\ month + 1 \in Months => rows[month + 1].carried = Carried(u, month + 1)
  BY <1>3, <1>7
<1>12. /\ Carried(u, month) \in Nat /\ StillHave(u, month) \in Nat /\ Excess(u, month) \in Nat
       /\ Total(Of(u, "take", month)) \in Nat /\ Total(Of(u, "put_back", month)) \in Nat
       /\ Total(Of(u, "out", month)) \in Nat /\ TotalLogged(Logged(u, month)) \in Nat
       /\ o = Carried(u, month) + Total(Of(u, "take", month)) - Total(Of(u, "put_back", month))
                - StillHave(u, month) - TotalLogged(Logged(u, month)) - Total(Of(u, "out", month))
                + Excess(u, month)
  BY <1>1, MonthIs, CarriedIs, OwnIsInt
<1> HIDE DEF o, i
<1>13. Larger(o - i, 0) >= Carried(u, month) + Total(Of(u, "take", month)) - Total(Of(u, "put_back", month))
                - StillHave(u, month) - TotalLogged(Logged(u, month)) - Total(Of(u, "out", month)) - Smaller(i, Larger(o, 0))
  BY <1>8, <1>12
<1> QED BY <1>8, <1>10, <1>11, <1>12, <1>13 DEF Follows

\* The sums of the wallet card.
LEMMA NetIs ==
  ASSUME NEW rows, NEW S, IsFiniteSet(S)
  PROVE  MapThenSumSet(LAMBDA n : rows[n].taken - rows[n].put_back, S)
           = SumOver([n \in S |-> rows[n].taken - rows[n].put_back], S)
<1> DEFINE g == [n \in S |-> rows[n].taken - rows[n].put_back]
           Body(k) == [s \in SUBSET S |-> IF s = {} THEN 0
                        ELSE (rows[Some(s)].taken - rows[Some(s)].put_back) + k[s \ {Some(s)}]]
           k == CHOOSE x : x = Body(x)
<1>1. ASSUME NEW h PROVE IsSum(h, g, S) <=> h = Body(h)
  <2>1. \A s \in SUBSET S : s # {} => g[Some(s)] = rows[Some(s)].taken - rows[Some(s)].put_back
    BY DEF Some
  <2>2. [s \in SUBSET S |-> IF s = {} THEN 0 ELSE g[Some(s)] + h[s \ {Some(s)}]] = Body(h)
    <3> HIDE DEF g
    <3> QED BY <2>1
  <2> HIDE DEF g, Body
  <2> QED BY <2>2 DEF IsSum
<1>2. PICK h : IsSum(h, g, S) /\ SumOver(g, S) = h[S]
  <2> HIDE DEF g
  <2> QED BY SumIs
<1>3. k = Body(k)
  <2>1. \E x : x = Body(x)
    BY <1>1, <1>2
  <2> HIDE DEF Body
  <2> QED BY <2>1
<1>4. IsSum(k, g, S)
  BY <1>1, <1>3
<1>5. h[S] = k[S]
  <2> HIDE DEF k, g
  <2> QED BY <1>2, <1>4, SumAgrees
<1>6. MapThenSumSet(LAMBDA n : rows[n].taken - rows[n].put_back, S) = k[S]
  BY DEF MapThenSumSet, MapThenFoldSet, Some
<1> QED BY <1>2, <1>5, <1>6

LEMMA GoneIs ==
  ASSUME NEW rows, NEW S, IsFiniteSet(S)
  PROVE  MapThenSumSet(LAMBDA n : rows[n].logged + rows[n].outs + rows[n].logged_cross_month, S)
           = SumOver([n \in S |-> rows[n].logged + rows[n].outs + rows[n].logged_cross_month], S)
<1> DEFINE g == [n \in S |-> rows[n].logged + rows[n].outs + rows[n].logged_cross_month]
           Body(k) == [s \in SUBSET S |-> IF s = {} THEN 0
                        ELSE (rows[Some(s)].logged + rows[Some(s)].outs + rows[Some(s)].logged_cross_month) + k[s \ {Some(s)}]]
           k == CHOOSE x : x = Body(x)
<1>1. ASSUME NEW h PROVE IsSum(h, g, S) <=> h = Body(h)
  <2>1. \A s \in SUBSET S : s # {} => g[Some(s)] = rows[Some(s)].logged + rows[Some(s)].outs + rows[Some(s)].logged_cross_month
    BY DEF Some
  <2>2. [s \in SUBSET S |-> IF s = {} THEN 0 ELSE g[Some(s)] + h[s \ {Some(s)}]] = Body(h)
    <3> HIDE DEF g
    <3> QED BY <2>1
  <2> HIDE DEF g, Body
  <2> QED BY <2>2 DEF IsSum
<1>2. PICK h : IsSum(h, g, S) /\ SumOver(g, S) = h[S]
  <2> HIDE DEF g
  <2> QED BY SumIs
<1>3. k = Body(k)
  <2>1. \E x : x = Body(x)
    BY <1>1, <1>2
  <2> HIDE DEF Body
  <2> QED BY <2>1
<1>4. IsSum(k, g, S)
  BY <1>1, <1>3
<1>5. h[S] = k[S]
  <2> HIDE DEF k, g
  <2> QED BY <1>2, <1>4, SumAgrees
<1>6. MapThenSumSet(LAMBDA n : rows[n].logged + rows[n].outs + rows[n].logged_cross_month, S) = k[S]
  BY DEF MapThenSumSet, MapThenFoldSet, Some
<1> QED BY <1>2, <1>5, <1>6

LEMMA LeftIs ==
  ASSUME NEW rows, NEW S, IsFiniteSet(S)
  PROVE  MapThenSumSet(LAMBDA n : rows[n].not_yet_logged, S)
           = SumOver([n \in S |-> rows[n].not_yet_logged], S)
<1> DEFINE g == [n \in S |-> rows[n].not_yet_logged]
           Body(k) == [s \in SUBSET S |-> IF s = {} THEN 0
                        ELSE (rows[Some(s)].not_yet_logged) + k[s \ {Some(s)}]]
           k == CHOOSE x : x = Body(x)
<1>1. ASSUME NEW h PROVE IsSum(h, g, S) <=> h = Body(h)
  <2>1. \A s \in SUBSET S : s # {} => g[Some(s)] = rows[Some(s)].not_yet_logged
    BY DEF Some
  <2>2. [s \in SUBSET S |-> IF s = {} THEN 0 ELSE g[Some(s)] + h[s \ {Some(s)}]] = Body(h)
    <3> HIDE DEF g
    <3> QED BY <2>1
  <2> HIDE DEF g, Body
  <2> QED BY <2>2 DEF IsSum
<1>2. PICK h : IsSum(h, g, S) /\ SumOver(g, S) = h[S]
  <2> HIDE DEF g
  <2> QED BY SumIs
<1>3. k = Body(k)
  <2>1. \E x : x = Body(x)
    BY <1>1, <1>2
  <2> HIDE DEF Body
  <2> QED BY <2>1
<1>4. IsSum(k, g, S)
  BY <1>1, <1>3
<1>5. h[S] = k[S]
  <2> HIDE DEF k, g
  <2> QED BY <1>2, <1>4, SumAgrees
<1>6. MapThenSumSet(LAMBDA n : rows[n].not_yet_logged, S) = k[S]
  BY DEF MapThenSumSet, MapThenFoldSet, Some
<1> QED BY <1>2, <1>5, <1>6

LEMMA NatIsInt == \A x \in Nat : x \in Int
OBVIOUS

LEMMA NatSums ==
  /\ \A x, y \in Nat : x - y \in Int
  /\ \A x, y, z \in Nat : x + y + z \in Nat
OBVIOUS

LEMMA LeftOfOne ==
  ASSUME NEW left \in Nat, NEW carried \in Nat, NEW taken \in Nat, NEW back \in Nat, NEW have \in Nat, NEW logged \in Nat,
         NEW outs \in Nat, NEW cross \in Nat, left >= carried + taken - back - have - logged - outs - cross
  PROVE  left >= carried + (taken - back) - have - (logged + outs + cross)
OBVIOUS

LEMMA LeftOfBoth ==
  ASSUME NEW l \in Int, NEW left \in Int, NEW first \in Int, NEW n \in Int, NEW net \in Int, NEW g \in Int, NEW gone \in Int,
         NEW h \in Int, NEW have \in Int, left >= h + net - have - gone, l >= first + n - h - g
  PROVE  left + l >= first + (net + n) - have - (gone + g)
OBVIOUS

NetOf(rows, L) == [n \in 1 .. L |-> rows[n].taken - rows[n].put_back]
GoneOf(rows, L) == [n \in 1 .. L |-> rows[n].logged + rows[n].outs + rows[n].logged_cross_month]
LeftOf(rows, L) == [n \in 1 .. L |-> rows[n].not_yet_logged]

LEMMA MonthSums ==
  ASSUME NEW L \in Nat, NEW rows, NEW n \in 1 .. L, Follows(rows, n, 1 .. L)
  PROVE  /\ NetOf(rows, L)[n] = rows[n].taken - rows[n].put_back /\ NetOf(rows, L)[n] \in Int
         /\ GoneOf(rows, L)[n] = rows[n].logged + rows[n].outs + rows[n].logged_cross_month /\ GoneOf(rows, L)[n] \in Nat
         /\ LeftOf(rows, L)[n] = rows[n].not_yet_logged /\ LeftOf(rows, L)[n] \in Nat
         /\ rows[n].carried \in Nat /\ rows[n].still_have \in Nat
         /\ LeftOf(rows, L)[n] >= rows[n].carried + NetOf(rows, L)[n] - rows[n].still_have - GoneOf(rows, L)[n]
         /\ n + 1 \in 1 .. L => rows[n + 1].carried = rows[n].still_have
<1> DEFINE row == rows[n]
<1>1. /\ row.carried \in Nat /\ row.taken \in Nat /\ row.put_back \in Nat /\ row.still_have \in Nat
      /\ row.logged \in Nat /\ row.outs \in Nat /\ row.not_yet_logged \in Nat /\ row.logged_cross_month \in Nat
      /\ row.not_yet_logged >= row.carried + row.taken - row.put_back - row.still_have - row.logged - row.outs
                                  - row.logged_cross_month
      /\ n + 1 \in 1 .. L => rows[n + 1].carried = row.still_have
  BY DEF Follows
<1>2. row.not_yet_logged >= row.carried + (row.taken - row.put_back) - row.still_have
                              - (row.logged + row.outs + row.logged_cross_month)
  <2> HIDE DEF row
  <2> QED BY <1>1, LeftOfOne
<1>3. /\ NetOf(rows, L)[n] = row.taken - row.put_back
      /\ GoneOf(rows, L)[n] = row.logged + row.outs + row.logged_cross_month
      /\ LeftOf(rows, L)[n] = row.not_yet_logged
  BY DEF NetOf, GoneOf, LeftOf
<1>4. row.taken - row.put_back \in Int /\ row.logged + row.outs + row.logged_cross_month \in Nat
  <2>1. row.taken \in Nat /\ row.put_back \in Nat /\ row.logged \in Nat /\ row.outs \in Nat /\ row.logged_cross_month \in Nat
    BY <1>1
  <2> HIDE DEF row
  <2> QED BY <2>1, NatSums
<1> QED BY <1>1, <1>2, <1>3, <1>4

\* From month a to month b: what is left over covers what came in and is neither still there nor gone.
LEMMA Telescopes ==
  ASSUME NEW L \in Nat, NEW rows, NEW a \in 1 .. L,
         \A m \in 1 .. L : Follows(rows, m, 1 .. L), NEW b \in a .. L
  PROVE  LET net == NetOf(rows, L)
             gone == GoneOf(rows, L)
             left == LeftOf(rows, L)
         IN
         /\ SumOver(left, a .. b) \in Nat /\ SumOver(gone, a .. b) \in Nat /\ SumOver(net, a .. b) \in Int
         /\ SumOver(left, a .. b) >= rows[a].carried + SumOver(net, a .. b) - rows[b].still_have - SumOver(gone, a .. b)
<1> DEFINE net == NetOf(rows, L)
           gone == GoneOf(rows, L)
           left == LeftOf(rows, L)
<1>0. \A n \in 1 .. L : left[n] \in Nat /\ gone[n] \in Nat /\ net[n] \in Int /\ left[n] \in Int /\ gone[n] \in Int
  <2> TAKE n \in 1 .. L
  <2>1. left[n] \in Nat /\ gone[n] \in Nat /\ net[n] \in Int
    BY MonthSums
  <2> HIDE DEF left, gone, net
  <2> QED BY <2>1
<1> HIDE DEF net, gone, left
<1>1. ASSUME NEW c \in Int, c <= L
      PROVE  /\ IsFiniteSet(a .. c) /\ a .. c \subseteq 1 .. L
             /\ SumOver(left, a .. c) \in Nat /\ SumOver(gone, a .. c) \in Nat /\ SumOver(net, a .. c) \in Int
  <2>1. IsFiniteSet(a .. c) /\ a .. c \subseteq 1 .. L
    BY <1>1, FS_Interval
  <2> QED BY <1>0, <2>1, SumNat, SumInt
<1> DEFINE Holds(c) == SumOver(left, a .. c) >= rows[a].carried + SumOver(net, a .. c) - rows[c].still_have
                                                 - SumOver(gone, a .. c)
           Bad == {c \in a .. L : ~Holds(c)}
<1>2. ASSUME Bad # {} PROVE FALSE
  <2>1. PICK c \in Bad : \A d \in Bad : c <= d
    <3>1. Bad \in SUBSET Nat
      OBVIOUS
    <3> HIDE DEF Bad
    <3> QED BY <1>2, <3>1, LeastNumber
  <2> DEFINE S == a .. c
             T == a .. c - 1
  <2>2. S \ {c} = T /\ c \in S /\ c \in 1 .. L /\ c \in Int /\ c <= L /\ c - 1 \in Int /\ c - 1 <= L
    OBVIOUS
  <2>3. /\ SumOver(left, S) = left[c] + SumOver(left, T)
        /\ SumOver(gone, S) = gone[c] + SumOver(gone, T)
        /\ SumOver(net, S) = net[c] + SumOver(net, T)
    <3>1. IsFiniteSet(S) /\ S \subseteq 1 .. L
      BY <2>2, <1>1
    <3>2. /\ \A x \in S : left[x] \in Int
          /\ \A x \in S : gone[x] \in Int
          /\ \A x \in S : net[x] \in Int
      BY <1>0, <3>1
    <3>0. c \in S /\ S \ {c} = T
      BY <2>2
    <3> HIDE DEF S, T
    <3>3. SumOver(left, S) = left[c] + SumOver(left, T)
      <4>1. IsFiniteSet(S) /\ \A x \in S : left[x] \in Int
        BY <3>1, <3>2
      <4>2. SumOver(left, S) = left[c] + SumOver(left, S \ {c})
        BY <3>0, <4>1, SumStep
      <4> QED BY <3>0, <4>2
    <3>4. SumOver(gone, S) = gone[c] + SumOver(gone, T)
      <4>1. IsFiniteSet(S) /\ \A x \in S : gone[x] \in Int
        BY <3>1, <3>2
      <4>2. SumOver(gone, S) = gone[c] + SumOver(gone, S \ {c})
        BY <3>0, <4>1, SumStep
      <4> QED BY <3>0, <4>2
    <3>5. SumOver(net, S) = net[c] + SumOver(net, T)
      <4>1. IsFiniteSet(S) /\ \A x \in S : net[x] \in Int
        BY <3>1, <3>2
      <4>2. SumOver(net, S) = net[c] + SumOver(net, S \ {c})
        BY <3>0, <4>1, SumStep
      <4> QED BY <3>0, <4>2
    <3> QED BY <3>3, <3>4, <3>5
  <2>4. /\ SumOver(left, T) \in Nat /\ SumOver(gone, T) \in Nat /\ SumOver(net, T) \in Int
    BY <1>1, <2>2
  <2>6. /\ left[c] >= rows[c].carried + net[c] - rows[c].still_have - gone[c]
        /\ rows[c].carried \in Nat /\ rows[c].still_have \in Nat
    BY <2>2, MonthSums DEF net, gone, left
  <2>7. rows[c].carried \in Nat /\ rows[c].still_have \in Nat /\ left[c] \in Nat /\ gone[c] \in Nat /\ net[c] \in Int
    BY <1>0, <2>2, <2>6
  <2>8. CASE c = a
    <3>1. T = {}
      BY <2>8
    <3>2. SumOver(left, T) = 0 /\ SumOver(gone, T) = 0 /\ SumOver(net, T) = 0
      <4> HIDE DEF T
      <4> QED BY <3>1, SumEmpty
    <3> HIDE DEF S, T
    <3>3. Holds(c)
      <4>1. SumOver(left, S) = left[c] /\ SumOver(gone, S) = gone[c] /\ SumOver(net, S) = net[c]
        BY <2>3, <2>7, <3>2
      <4> QED BY <4>1, <2>6, <2>7, <2>8 DEF S
    <3> QED BY <3>3
  <2>9. CASE c # a
    <3>1. c - 1 \in a .. L /\ c - 1 \in 1 .. L /\ ~(c <= c - 1) /\ c - 1 + 1 = c
      BY <2>9
    <3>2. Holds(c - 1)
      <4>1. c - 1 \notin Bad
        <5> HIDE DEF Bad
        <5> QED BY <2>1, <3>1
      <4> QED BY <3>1, <4>1
    <3>3. rows[c].carried = rows[c - 1].still_have /\ rows[a].carried \in Nat /\ rows[c - 1].still_have \in Nat
      <4> DEFINE d == c - 1
      <4>1. d \in 1 .. L /\ d + 1 = c /\ c \in 1 .. L
        BY <2>2, <3>1
      <4> HIDE DEF d
      <4>2. rows[d].still_have \in Nat /\ (d + 1 \in 1 .. L => rows[d + 1].carried = rows[d].still_have)
        BY <4>1, MonthSums
      <4>3. rows[c].carried = rows[d].still_have /\ rows[d].still_have \in Nat /\ rows[a].carried \in Nat
        BY <4>1, <4>2, MonthSums
      <4> QED BY <4>3 DEF d
    <3> DEFINE l == SumOver(left, T)
               g == SumOver(gone, T)
               n == SumOver(net, T)
               h == rows[c - 1].still_have
    <3>4. l >= rows[a].carried + n - h - g
      BY <3>2
    <3>5. /\ SumOver(left, S) = left[c] + l /\ SumOver(gone, S) = gone[c] + g /\ SumOver(net, S) = net[c] + n
          /\ l \in Nat /\ g \in Nat /\ n \in Int /\ h = rows[c].carried
      BY <2>3, <2>4, <3>3
    <3> HIDE DEF l, g, n, h, S, T
    <3>6. left[c] + l >= rows[a].carried + (net[c] + n) - rows[c].still_have - (gone[c] + g)
      <4> HIDE DEF h
      <4>1. /\ left[c] \in Int /\ net[c] \in Int /\ gone[c] \in Int /\ rows[a].carried \in Int /\ rows[c].still_have \in Int
            /\ l \in Int /\ g \in Int /\ n \in Int /\ h \in Int
        <5>1. /\ left[c] \in Nat /\ net[c] \in Int /\ gone[c] \in Nat /\ rows[a].carried \in Nat /\ rows[c].still_have \in Nat
              /\ l \in Nat /\ g \in Nat /\ n \in Int
          BY <2>7, <3>3, <3>5
        <5>2. h \in Nat
          BY <3>3 DEF h
        <5> QED BY <5>1, <5>2, NatIsInt
      <4>2. left[c] >= h + net[c] - rows[c].still_have - gone[c]
        BY <2>6, <3>5
      <4> QED BY <3>4, <4>1, <4>2, LeftOfBoth
    <3>7. Holds(c)
      BY <3>5, <3>6 DEF S
    <3> QED BY <3>7
  <2> QED BY <2>8, <2>9
<1>3. Holds(b)
  BY <1>2
<1>4. b \in Int /\ b <= L
  OBVIOUS
<1> QED BY <1>1, <1>3, <1>4 DEF net, gone, left

\* No wallet card shows more than what is left to log, month by month.
LEMMA CardCovered ==
  ASSUME Types, RowsOK
  PROVE  WalletAddsUp
<1> SUFFICES ASSUME NEW u \in Member, NEW rows \in {Breakdown(u)}, NEW a \in Months, NEW b \in Months, a <= b
             PROVE  Shown(rows, a, b) <= MapThenSumSet(LAMBDA n : rows[n].not_yet_logged, a .. b)
  BY DEF WalletAddsUp
<1> DEFINE L == LastMonth
           S == a .. b
           net == NetOf(rows, L)
           gone == GoneOf(rows, L)
           left == LeftOf(rows, L)
<1>1. L \in Nat /\ Months = 1 .. L /\ a \in 1 .. L /\ b \in a .. L /\ S \subseteq 1 .. L /\ IsFiniteSet(S)
  <2>1. L \in Nat /\ Months = 1 .. L
    BY MonthsAre
  <2> HIDE DEF L
  <2> QED BY <2>1, FS_Interval
<1>2. \A m \in 1 .. L : Follows(rows, m, 1 .. L)
  <2>1. rows = Breakdown(u)
    OBVIOUS
  <2> HIDE DEF L
  <2> QED BY <1>1, <2>1, BreakdownIs
<1>3. /\ SumOver(left, S) \in Nat /\ SumOver(gone, S) \in Nat /\ SumOver(net, S) \in Int
      /\ SumOver(left, S) >= rows[a].carried + SumOver(net, S) - rows[b].still_have - SumOver(gone, S)
  <2> HIDE DEF L
  <2> QED BY <1>1, <1>2, Telescopes
<1>4. /\ MapThenSumSet(LAMBDA n : rows[n].taken - rows[n].put_back, S) = SumOver(net, S)
      /\ MapThenSumSet(LAMBDA n : rows[n].logged + rows[n].outs + rows[n].logged_cross_month, S) = SumOver(gone, S)
      /\ MapThenSumSet(LAMBDA n : rows[n].not_yet_logged, S) = SumOver(left, S)
  <2>1. /\ \A n \in S : [x \in S |-> rows[x].taken - rows[x].put_back][n] = net[n]
        /\ \A n \in S : [x \in S |-> rows[x].logged + rows[x].outs + rows[x].logged_cross_month][n] = gone[n]
        /\ \A n \in S : [x \in S |-> rows[x].not_yet_logged][n] = left[n]
    BY <1>1 DEF NetOf, GoneOf, LeftOf
  <2> HIDE DEF L, S, net, gone, left
  <2>2. SumOver([x \in S |-> rows[x].taken - rows[x].put_back], S) = SumOver(net, S)
    <3> DEFINE f == [x \in S |-> rows[x].taken - rows[x].put_back]
    <3>1. \A x \in S : f[x] = net[x]
      BY <2>1
    <3> HIDE DEF f
    <3>2. SumOver(f, S) = SumOver(net, S)
      BY <1>1, <3>1, SumCongruent
    <3> QED BY <3>2 DEF f
  <2>3. SumOver([x \in S |-> rows[x].logged + rows[x].outs + rows[x].logged_cross_month], S) = SumOver(gone, S)
    <3> DEFINE f == [x \in S |-> rows[x].logged + rows[x].outs + rows[x].logged_cross_month]
    <3>1. \A x \in S : f[x] = gone[x]
      BY <2>1
    <3> HIDE DEF f
    <3>2. SumOver(f, S) = SumOver(gone, S)
      BY <1>1, <3>1, SumCongruent
    <3> QED BY <3>2 DEF f
  <2>4. SumOver([x \in S |-> rows[x].not_yet_logged], S) = SumOver(left, S)
    <3> DEFINE f == [x \in S |-> rows[x].not_yet_logged]
    <3>1. \A x \in S : f[x] = left[x]
      BY <2>1
    <3> HIDE DEF f
    <3>2. SumOver(f, S) = SumOver(left, S)
      BY <1>1, <3>1, SumCongruent
    <3> QED BY <3>2 DEF f
  <2> QED BY <1>1, <2>2, <2>3, <2>4, NetIs, GoneIs, LeftIs
<1> DEFINE n == SumOver(net, S)
           g == SumOver(gone, S)
           in == rows[a].carried + n
<1>5. Shown(rows, a, b) = Larger(in, 0) - rows[b].still_have - g
  BY <1>4 DEF Shown
<1>6. in \in Int /\ g \in Nat /\ rows[a].carried \in Nat /\ rows[b].still_have \in Nat /\ n \in Int
  <2>1. rows[a].carried \in Nat /\ rows[b].still_have \in Nat
    <3> HIDE DEF L
    <3>1. b \in 1 .. L
      BY <1>1
    <3> QED BY <3>1, <1>1, <1>2, MonthSums
  <2> HIDE DEF L, net, gone, left
  <2> QED BY <1>3, <2>1
<1>7. SumOver(left, S) >= in - rows[b].still_have - g /\ SumOver(left, S) \in Nat
  <2>1. SumOver(left, S) >= rows[a].carried + n - rows[b].still_have - g
    BY <1>3
  <2>2. in = rows[a].carried + n
    OBVIOUS
  <2> HIDE DEF n, g, in, left
  <2>3. in - rows[b].still_have - g = rows[a].carried + n - rows[b].still_have - g
    BY <1>6, <2>2
  <2> QED BY <1>3, <2>1, <2>3
<1> HIDE DEF in, n, g, left
<1>8. Larger(in, 0) = IF in >= 0 THEN in ELSE 0
  BY <1>6, LargerIs
<1>9. Larger(in, 0) - rows[b].still_have - g <= SumOver(left, S)
  BY <1>6, <1>7, <1>8
<1> QED BY <1>4, <1>5, <1>9 DEF left

\* "took - still_have - logged - outs - logged_cross_month + over_logged = not_yet_logged", for any number of movements,
\* expenses and months, in every state.
THEOREM WalletsAddUp == CashSpec => []WalletAddsUp
<1>1. Basic => WalletAddsUp
  BY CardCovered DEF Basic
<1> QED BY <1>1, TablesAndRequests, PTL

(***************************************************************************)
(* Keys.                                                                   *)
(***************************************************************************)
KeysStay ==
    /\ DOMAIN mvs' = Rows /\ DOMAIN txns' = Txns
    /\ \A m \in Rows : (mvs[m].aged => mvs'[m].aged) /\ (mvs[m].txn = 0 => mvs'[m].key = mvs[m].key)
    /\ \A t \in Txns : txns'[t].key = txns[t].key

LEMMA EditKeys ==
  ASSUME Basic, NEW r \in Req, CommitEdit(r)
  PROVE  KeysStay /\ \A o \in Req : Same(req[o], req'[o]) \/ req'[o].pc # "save"
<1>1. /\ req[r] \in SyncedReq /\ SyncedOK(req[r], mvs, txns)
      /\ req'[r] = Idle /\ (\A o \in Req \ {r} : Same(req[o], req'[o]))
      /\ mvs' = [m \in Rows |-> EditedRow(req[r], m)]
      /\ DOMAIN txns' = Txns /\ \A t \in Txns \ {req[r].txn} : txns'[t] = txns[t]
      /\ txns'[req[r].txn].key = txns[req[r].txn].key
  BY CommitEditShape
<1>2. \A m \in Rows : (mvs[m].aged => mvs'[m].aged) /\ mvs'[m].key = mvs[m].key
  <2> TAKE m \in Rows
  <2>1. mvs[m] \in MoveRow /\ mvs'[m] = EditedRow(req[r], m)
    BY <1>1 DEF Basic, Types
  <2> QED BY <2>1 DEF EditedRow, MoveRow
<1>3. \A t \in Txns : txns'[t].key = txns[t].key
  BY <1>1
<1> QED BY <1>1, <1>2, <1>3, IdleOK DEF KeysStay

\* All the other steps.
LEMMA QuietStep ==
  ASSUME Basic, CashNext, ~Begun, ~\E r \in Req : CommitSave(r) \/ CommitEdit(r)
  PROVE  Quiet /\ \A o \in Req : Same(req[o], req'[o]) \/ req'[o].pc # "save"
<1>2. CASE \E r \in Req, u \in Member, t \in Txns, e \in Edits : BeginEdit(r, u, t, e)
  <2> PICK r \in Req, u \in Member, t \in Txns, e \in Edits : BeginEdit(r, u, t, e)
    BY <1>2
  <2>1. UNCHANGED <<mvs, txns, raced>> /\ (\A o \in Req \ {r} : req'[o] = req[o]) /\ req'[r].pc = "edit"
    BY EditBegan
  <2> QED BY <2>1, QuietSame DEF Same
<1>4. CASE \E r \in Req : CommitTag(r)
  BY <1>4, QuietTag, IdleOK
<1>5. CASE \E r \in Req : Abandon(r)
  <2> PICK r \in Req : Abandon(r)
    BY <1>5
  <2>1. UNCHANGED <<mvs, txns, raced>> /\ req'[r] = Idle /\ \A o \in Req \ {r} : req'[o] = req[o]
    BY DEF Abandon, Basic, Types
  <2> QED BY <2>1, QuietSame, IdleOK DEF Same
<1>6. CASE \E r \in Req, m \in Rows : BeginUnsave(r, m)
  <2> PICK r \in Req, m \in Rows : BeginUnsave(r, m)
    BY <1>6
  <2>1. UNCHANGED <<mvs, txns, raced>> /\ (\A o \in Req \ {r} : req'[o] = req[o]) /\ req'[r].pc = "unsave"
    BY UnsaveBegan
  <2> QED BY <2>1, QuietSame DEF Same
<1>7. CASE \E r \in Req : CommitUnsave(r)
  <2> PICK r \in Req : CommitUnsave(r)
    BY <1>7
  <2>1. req'[r] = Idle /\ \A o \in Req \ {r} : Same(req[o], req'[o])
    BY CommitUnsaveShape
  <2> QED BY <2>1, QuietUnsave, IdleOK
<1>8. CASE \E r \in Req : SyncEdit(r)
  <2> PICK r \in Req : SyncEdit(r)
    BY <1>8
  <2>1. /\ UNCHANGED <<mvs, txns, raced>> /\ (\A o \in Req \ {r} : req'[o] = req[o])
        /\ req'[r] = Idle \/ req'[r] = Synced(req[r])
    BY SyncEditShape
  <2>2. req'[r].pc # "save"
    BY <2>1, IdleOK DEF Synced
  <2> QED BY <2>1, <2>2, QuietSame DEF Same
<1>10. CASE \E t \in Txns : DeleteExpense(t)
  BY <1>10, QuietDelete, DeleteExpenseShape
<1>11. CASE Age
  BY <1>11, QuietAge DEF Age, Same
<1> QED BY <1>2, <1>4, <1>5, <1>6, <1>7, <1>8, <1>10, <1>11, Steps

\* A movement and the key it was made for.
KeyedRow(M, X, S, m) ==
    M[m].for # NoOne =>
        /\ S[M[m].for] # NoOne
        /\ S[M[m].for][2].expense = (M[m].txn # 0)
        /\ M[m].txn = 0 => M[m].key = M[m].for
        /\ M[m].txn # 0 => X[M[m].txn].key = M[m].for
\* A movement being saved with a key is the first of it in a day.
FirstOfKey(q, M) ==
    q.pc = "save" /\ q.key # NoOne /\ ~q.expense => \A m \in DOMAIN M : M[m].for = q.key => M[m].aged
KeysInv == KeysOK /\ SavedOnce

LEMMA KeysParts ==
  KeysOK <=> /\ \A m \in DOMAIN mvs : KeyedRow(mvs, txns, sent, m)
             /\ \A t, o \in DOMAIN txns : txns[t].key # NoOne /\ txns[t].key = txns[o].key => t = o
             /\ \A r \in Req : FirstOfKey(req[r], mvs)
BY DEF KeysOK, KeyedRow, FirstOfKey, Rows, Txns

LEMMA KeysKept ==
  ASSUME Basic, KeysInv, Step, KeysStay,
         \A o \in Req : Same(req[o], req'[o]) \/ FirstOfKey(req'[o], mvs)
  PROVE  KeysInv'
<1>1. /\ \A m \in Rows : KeyedRow(mvs, txns, sent, m)
      /\ \A t, o \in Txns : txns[t].key # NoOne /\ txns[t].key = txns[o].key => t = o
      /\ \A r \in Req : FirstOfKey(req[r], mvs)
  BY KeysParts DEF KeysInv, Rows, Txns
<1>2. /\ DOMAIN mvs' = Rows /\ DOMAIN txns' = Txns
      /\ \A m \in Rows : /\ mvs'[m].txn = mvs[m].txn /\ mvs'[m].for = mvs[m].for /\ (mvs[m].aged => mvs'[m].aged)
                         /\ mvs[m].txn = 0 => mvs'[m].key = mvs[m].key
      /\ \A t \in Txns : txns'[t].key = txns[t].key
      /\ \A k \in Key : sent[k] # NoOne => sent'[k] = sent[k]
  BY DEF KeysStay, Step, Evolves, Rows
<1>3. ASSUME NEW m \in Rows PROVE KeyedRow(mvs', txns', sent', m)
  <2>1. KeyedRow(mvs, txns, sent, m) /\ mvs[m].for \in Key \cup {NoOne} /\ mvs[m].txn \in {0} \cup Txns
    BY <1>1 DEF Basic, Types, RowsOK, RowOK, MoveRow
  <2> QED BY <1>2, <2>1 DEF KeyedRow
<1>4. ASSUME NEW o \in Req PROVE FirstOfKey(req'[o], mvs')
  <2>1. FirstOfKey(req'[o], mvs)
    <3>1. CASE Same(req[o], req'[o])
      <4>1. req[o] \in Requests
        BY ReqTypes DEF Basic
      <4>2. /\ req'[o].pc = req[o].pc
            /\ req[o].pc = "save" => req'[o].key = req[o].key /\ req'[o].expense = req[o].expense
        BY <3>1, <4>1, SameFields
      <4> QED BY <1>1, <4>2 DEF FirstOfKey
    <3> QED BY <3>1
  <2> QED BY <1>2, <2>1 DEF FirstOfKey, Rows
<1>5. KeysOK'
  <2>1. KeysOK' <=> /\ \A m \in DOMAIN mvs' : KeyedRow(mvs', txns', sent', m)
                    /\ \A t, o \in DOMAIN txns' : txns'[t].key # NoOne /\ txns'[t].key = txns'[o].key => t = o
                    /\ \A r \in Req : FirstOfKey(req'[r], mvs')
    BY DEF KeysOK, KeyedRow, FirstOfKey, Rows, Txns
  <2> QED BY <1>1, <1>2, <1>3, <1>4, <2>1
<1>6. SavedOnce'
  BY <1>2 DEF SavedOnce, KeysInv, Rows
<1> QED BY <1>5, <1>6 DEF KeysInv

LEMMA KeysBegun ==
  ASSUME Basic, KeysInv, Begun, Step
  PROVE  KeysInv'
<1> PICK r \in Req, u \in Member, s \in Saves, key \in Key \cup {NoOne}, via \in Vias : Begin(r, u, s, key, via)
  BY DEF Begun
<1>1. /\ UNCHANGED <<mvs, txns, raced>> /\ \A o \in Req \ {r} : req'[o] = req[o]
      /\ req'[r].key = key /\ req'[r].expense = s.expense
      /\ key # NoOne => sent[key] \in {NoOne, <<u, s, via>>}
      /\ key # NoOne /\ via = "api" => ~Replayed(key)
      /\ key # NoOne /\ ~s.expense => via = "api"
  BY Began DEF Begin
<1>2. KeysStay
  BY <1>1 DEF KeysStay, Rows, Txns
<1>3. FirstOfKey(req'[r], mvs)
  <2> SUFFICES ASSUME key # NoOne, ~s.expense, NEW m \in Rows, mvs[m].for = key PROVE mvs[m].aged
    BY <1>1 DEF FirstOfKey, Rows
  <2>1. KeyedRow(mvs, txns, sent, m)
    BY KeysParts DEF KeysInv, Rows
  <2>2. sent[key] = <<u, s, via>>
    BY <1>1, <2>1 DEF KeyedRow
  <2>3. mvs[m].txn = 0
    <3>1. s.expense = (mvs[m].txn # 0)
      BY <2>1, <2>2 DEF KeyedRow
    <3>2. s.expense = FALSE
      BY FormsAssumption
    <3> QED BY <3>1, <3>2
  <2>4. mvs[m].key = key
    BY <2>1, <2>3 DEF KeyedRow
  <2> QED BY <1>1, <2>4 DEF Replayed
<1> QED BY <1>1, <1>2, <1>3, KeysKept DEF Same

LEMMA KeysCommitSave ==
  ASSUME Basic, KeysInv, NEW r \in Req, CommitSave(r)
  PROVE  KeysInv'
<1> DEFINE q == req[r]
<1>s. /\ q \in SaveReq /\ SaveOK(q, sent)
      /\ req'[r] = After(q) /\ (\A o \in Req \ {r} : Same(req[o], req'[o]))
      /\ sent' = sent
      /\ LostRace(q) => mvs' = mvs /\ txns' = txns
      /\ ~LostRace(q) =>
            /\ NextRow \notin Rows /\ NextTxn \notin Txns /\ NextTxn # 0
            /\ DOMAIN mvs' = Rows \cup {NextRow} /\ mvs'[NextRow] = NewRow(q)
            /\ \A m \in Rows : mvs'[m] = mvs[m]
            /\ ~q.expense => txns' = txns
            /\ q.expense => /\ DOMAIN txns' = Txns \cup {NextTxn} /\ txns'[NextTxn] = NewTxn(q)
                            /\ \A t \in Txns : txns'[t] = txns[t]
  BY CommitSaveShape
<1>0. Step
  BY CommitSaveBasic
<1>1. /\ \A m \in Rows : KeyedRow(mvs, txns, sent, m)
      /\ \A t, o \in Txns : txns[t].key # NoOne /\ txns[t].key = txns[o].key => t = o
      /\ \A o \in Req : FirstOfKey(req[o], mvs)
  BY KeysParts DEF KeysInv, Rows, Txns
<1>a. req'[r].pc # "save"
  BY <1>s, IdleOK DEF After
<1>2. CASE LostRace(q)
  <2>1. KeysStay
    BY <1>2, <1>s DEF KeysStay, Rows, Txns
  <2>2. \A o \in Req : Same(req[o], req'[o]) \/ FirstOfKey(req'[o], mvs)
    BY <1>s, <1>a DEF FirstOfKey
  <2> QED BY <1>0, <2>1, <2>2, KeysKept
<1>3. CASE ~LostRace(q)
  <2>n. /\ NewRow(q).for = q.key /\ NewRow(q).aged = FALSE
        /\ NewRow(q).txn = (IF q.expense THEN NextTxn ELSE 0) /\ (~q.expense => NewRow(q).key = q.key)
        /\ NewTxn(q).key = q.key
    BY DEF NewRow, NewTxn, NextTxn
  <2>b. q.expense \in BOOLEAN /\ q.pc = "save" /\ q.key \in Key \cup {NoOne}
    BY <1>s DEF SaveReq
  <2>e. q.expense /\ q.key # NoOne => \A t \in Txns : txns[t].key # q.key
    BY <1>3 DEF LostRace, HasExpense
  <2>q. /\ q.key # NoOne => sent[q.key] # NoOne /\ sent[q.key][2].expense = q.expense
        /\ q.key # NoOne => sent[q.key][1] = q.user /\ (~q.expense => q.locked)
    BY <1>s DEF SaveOK
  <2> HIDE DEF q
  <2>1. ASSUME NEW m \in Rows PROVE KeyedRow(mvs', txns', sent', m)
    <3>1. KeyedRow(mvs, txns, sent, m) /\ mvs[m].txn \in {0} \cup Txns
      BY <1>1 DEF Basic, RowsOK, RowOK
    <3>2. mvs'[m] = mvs[m] /\ \A t \in Txns : txns'[t] = txns[t]
      BY <1>3, <1>s
    <3> QED BY <1>s, <3>1, <3>2 DEF KeyedRow
  <2>2. KeyedRow(mvs', txns', sent', NextRow)
    <3>1. q.expense = (NewRow(q).txn # 0)
      BY <1>3, <1>s, <2>n, <2>b
    <3>2. q.expense => txns'[NextTxn].key = q.key
      BY <1>3, <1>s, <2>n
    <3>3. mvs'[NextRow] = NewRow(q) /\ sent' = sent
      BY <1>3, <1>s
    <3>4. ~q.expense => NewRow(q).txn = 0
      BY <2>n
    <3> QED BY <2>n, <2>b, <2>q, <3>1, <3>2, <3>3, <3>4 DEF KeyedRow
  <2>3. \A t, o \in DOMAIN txns' : txns'[t].key # NoOne /\ txns'[t].key = txns'[o].key => t = o
    BY <1>3, <1>s, <1>1, <2>n, <2>e DEF Txns
  <2>4. ASSUME NEW o \in Req PROVE FirstOfKey(req'[o], mvs')
    <3>1. CASE o = r
      BY <3>1, <1>a DEF FirstOfKey
    <3>2. CASE o # r
      <4> DEFINE p == req[o]
      <4>1. /\ p \in Requests /\ req'[o].pc = p.pc
            /\ p.pc = "save" => req'[o].key = p.key /\ req'[o].expense = p.expense
        BY <3>2, <1>s, ReqTypes, SameFields DEF Basic
      <4> SUFFICES ASSUME p.pc = "save", p.key # NoOne, ~p.expense, NEW m \in DOMAIN mvs', mvs'[m].for = p.key
                   PROVE  mvs'[m].aged
        BY <4>1 DEF FirstOfKey
      <4>2. CASE m \in Rows
        <5>1. FirstOfKey(p, mvs)
          BY <1>1
        <5> QED BY <1>3, <1>s, <4>2, <5>1 DEF FirstOfKey, Rows
      <4>3. CASE m = NextRow
        <5>1. p.key = q.key
          BY <1>3, <1>s, <4>3, <2>n
        <5>2. SaveOK(p, sent)
          BY DEF Basic, ReqsOK, ReqOK
        <5>3. p \in SaveReq
          BY <4>1, ReqKinds
        <5>4. sent[p.key][2].expense = p.expense /\ sent[p.key][1] = p.user /\ p.locked
          BY <5>2 DEF SaveOK
        <5>5. p.expense = FALSE /\ q.expense = FALSE /\ q.locked /\ p.user = q.user
          BY <5>1, <5>3, <5>4, <2>q DEF SaveReq
        <5>6. ~p.locked
          BY <5>5, <3>2, <2>b DEF Basic, LockOK, q
        <5> QED BY <5>4, <5>6
      <4> QED BY <1>3, <1>s, <4>2, <4>3
    <3> QED BY <3>1, <3>2
  <2>5. KeysOK'
    <3>1. KeysOK' <=> /\ \A m \in DOMAIN mvs' : KeyedRow(mvs', txns', sent', m)
                      /\ \A t, o \in DOMAIN txns' : txns'[t].key # NoOne /\ txns'[t].key = txns'[o].key => t = o
                      /\ \A o \in Req : FirstOfKey(req'[o], mvs')
      BY DEF KeysOK, KeyedRow, FirstOfKey, Rows, Txns
    <3> QED BY <1>3, <1>s, <2>1, <2>2, <2>3, <2>4, <3>1
  <2>6. ASSUME NEW n \in Rows, q.key # NoOne, mvs[n].for = q.key
        PROVE  mvs[n].aged /\ mvs[n].txn = 0 /\ NewRow(q).txn = 0
    <3>1. KeyedRow(mvs, txns, sent, n) /\ mvs[n].txn \in {0} \cup Txns
      BY <1>1 DEF Basic, RowsOK, RowOK
    <3>2. q.expense = (mvs[n].txn # 0)
      BY <3>1, <2>6, <2>q DEF KeyedRow
    <3>3. CASE q.expense
      <4>1. mvs[n].txn \in Txns /\ txns[mvs[n].txn].key = q.key
        BY <3>1, <3>2, <3>3, <2>6 DEF KeyedRow
      <4> QED BY <4>1, <3>3, <2>6, <2>e
    <3>4. CASE ~q.expense
      <4>1. FirstOfKey(q, mvs)
        BY <1>1 DEF q
      <4>2. mvs[n].aged
        BY <4>1, <3>4, <2>b, <2>6 DEF FirstOfKey, Rows
      <4> QED BY <4>2, <3>2, <3>4, <2>n
    <3> QED BY <3>3, <3>4
  <2>7. SavedOnce'
    <3>1. Rows' = Rows \cup {NextRow} /\ mvs'[NextRow] = NewRow(q) /\ \A m \in Rows : mvs'[m] = mvs[m]
      BY <1>3, <1>s DEF Rows
    <3>2. NewRow(q).for = q.key
      BY <2>n
    <3> SUFFICES ASSUME NEW m \in Rows', NEW n \in Rows', m # n, mvs'[m].for # NoOne, mvs'[m].for = mvs'[n].for
                 PROVE  (mvs'[m].aged \/ mvs'[n].aged) /\ mvs'[m].txn = 0 /\ mvs'[n].txn = 0
      BY DEF SavedOnce
    <3>3. CASE m \in Rows /\ n \in Rows
      BY <3>1, <3>3 DEF KeysInv, SavedOnce
    <3>4. CASE m = NextRow /\ n \in Rows
      BY <3>1, <3>2, <3>4, <2>6
    <3>5. CASE n = NextRow /\ m \in Rows
      BY <3>1, <3>2, <3>5, <2>6
    <3> QED BY <3>1, <3>3, <3>4, <3>5
  <2> QED BY <2>5, <2>7 DEF KeysInv
<1> QED BY <1>2, <1>3

LEMMA KeysNext ==
  ASSUME Basic, KeysInv, CashNext
  PROVE  KeysInv'
<1>0. Step
  BY BasicNext
<1>1. CASE Begun
  BY <1>0, <1>1, KeysBegun
<1>2. CASE \E r \in Req : CommitSave(r)
  BY <1>2, KeysCommitSave
<1>3. CASE \E r \in Req : CommitEdit(r)
  <2>1. KeysStay /\ \A o \in Req : Same(req[o], req'[o]) \/ FirstOfKey(req'[o], mvs)
    BY <1>3, EditKeys DEF FirstOfKey
  <2> QED BY <1>0, <2>1, KeysKept
<1>4. CASE ~Begun /\ ~\E r \in Req : CommitSave(r) \/ CommitEdit(r)
  <2>1. Quiet /\ \A o \in Req : Same(req[o], req'[o]) \/ FirstOfKey(req'[o], mvs)
    BY <1>4, QuietStep DEF FirstOfKey
  <2>2. KeysStay
    BY <2>1 DEF Quiet, KeysStay
  <2> QED BY <1>0, <2>1, <2>2, KeysKept
<1> QED BY <1>1, <1>2, <1>3, <1>4

\* What was saved with a key is one movement while the day lasts, and an expense is made once: through lost answers,
\* retries, a death between the two commits of a save, and deletions.
THEOREM SavesAreOnce == CashSpec => []SavedOnce
<1>1. CashInit => KeysInv
  <2> SUFFICES ASSUME CashInit PROVE KeysInv
    OBVIOUS
  <2>1. Rows = {} /\ Txns = {} /\ \A r \in Req : req[r] = Idle
    BY DEF CashInit, Rows, Txns
  <2> QED BY <2>1, IdleOK DEF KeysInv, KeysOK, SavedOnce
<1>2. Basic /\ KeysInv /\ [CashNext]_cvars => KeysInv'
  <2> SUFFICES ASSUME Basic, KeysInv, UNCHANGED cvars PROVE KeysInv'
    BY KeysNext
  <2>1. UNCHANGED <<mvs, txns, req, sent>>
    BY DEF cvars
  <2>2. Step /\ KeysStay /\ \A o \in Req : Same(req[o], req'[o])
    BY <2>1, SameTables DEF KeysStay, Same, Rows, Txns
  <2> QED BY <2>2, KeysKept
<1>3. KeysInv => SavedOnce
  BY DEF KeysInv
<1> QED BY <1>1, <1>2, <1>3, TablesAndRequests, PTL DEF CashSpec

(***************************************************************************)
(* Stashes.                                                                *)
(***************************************************************************)
\* What a request relies on: the stash of its member, others' takes given back, still bears what it is about to do.
Relied(q, M) ==
    LET own == OwnBalance(M, q.user)
    IN  /\ q.pc = "save" /\ q.relies => IF q.kind = "take" THEN q.amount <= own ELSE own + q.amount >= 0
        /\ q.pc = "unsave" /\ q.relies => (M[q.row].live => M[q.row].amount <= own)
        /\ q.pc = "synced" /\ q.relies => \A m \in q.takes : q.new.amount > q.was[m] => q.new.amount - q.was[m] <= own
StashesOK ==
    ~raced => /\ \A u \in Member : OwnBalance(mvs, u) >= 0
              /\ \A r \in Req : Relied(req[r], mvs)
Relying(q) == q.pc \in {"save", "unsave", "synced"} /\ q.relies

LEMMA OwnMonotone ==
  ASSUME NEW M, NEW M2, Table(M), Table(M2), DOMAIN M2 = DOMAIN M, NEW u,
         \A m \in DOMAIN M : OwnFn(M, u)[m] <= OwnFn(M2, u)[m]
  PROVE  OwnBalance(M, u) <= OwnBalance(M2, u)
<1> DEFINE S == DOMAIN M
           f == OwnFn(M, u)
           e == OwnFn(M2, u)
           g == [m \in S |-> e[m] - f[m]]
<1>1. IsFiniteSet(S) /\ \A m \in S : f[m] \in Int /\ e[m] \in Int /\ f[m] <= e[m]
  BY NextNumber, FnTypes DEF Table
<1> HIDE DEF f, e
<1>2. \A m \in S : g[m] \in Nat /\ g[m] \in Int /\ e[m] = f[m] + g[m]
  BY <1>1
<1> HIDE DEF g, S
<1>3. SumOver(e, S) = SumOver(f, S) + SumOver(g, S)
  BY <1>1, <1>2, SumPlus
<1>4. SumOver(g, S) \in Nat /\ SumOver(f, S) \in Int
  BY <1>1, <1>2, SumNat, SumInt
<1>5. SumOver(f, S) <= SumOver(e, S)
  BY <1>3, <1>4
<1> QED BY <1>5 DEF OwnBalance, S, f, e

LEMMA StashSame ==
  ASSUME NEW M, NEW M2, Table(M), Table(M2), DOMAIN M2 = DOMAIN M, NEW u,
         \A m \in DOMAIN M : StashFn(M, u)[m] = StashFn(M2, u)[m]
  PROVE  Balance(M, u) = Balance(M2, u)
<1>1. IsFiniteSet(DOMAIN M)
  BY NextNumber DEF Table
<1>2. SumOver(StashFn(M, u), DOMAIN M) = SumOver(StashFn(M2, u), DOMAIN M)
  BY <1>1, SumCongruent
<1> QED BY <1>2 DEF Balance

LEMMA TableGrows ==
  ASSUME NEW M, NEW M2, Table(M), Table(M2), NEW n, n \notin DOMAIN M, DOMAIN M2 = DOMAIN M \cup {n},
         \A m \in DOMAIN M : M2[m] = M[m], NEW u
  PROVE  /\ OwnBalance(M2, u) = OwnBalance(M, u) + OwnFn(M2, u)[n] /\ OwnFn(M2, u)[n] \in Int
         /\ Balance(M2, u) = Balance(M, u) + StashFn(M2, u)[n] /\ StashFn(M2, u)[n] \in Int
<1> DEFINE S == DOMAIN M
<1>1. IsFiniteSet(S)
  BY NextNumber DEF Table
<1>2. \A m \in S \cup {n} : OwnFn(M2, u)[m] \in Int /\ StashFn(M2, u)[m] \in Int
  BY FnTypes
<1>3. \A m \in S : OwnFn(M, u)[m] = OwnFn(M2, u)[m] /\ StashFn(M, u)[m] = StashFn(M2, u)[m]
  BY DEF OwnFn, StashFn, InStashOf, Others, Worth
<1>4. n \notin S /\ DOMAIN M2 = S \cup {n}
  OBVIOUS
<1> HIDE DEF S
<1>5. SumOver(OwnFn(M2, u), S \cup {n}) = SumOver(OwnFn(M, u), S) + OwnFn(M2, u)[n]
  BY <1>1, <1>2, <1>3, <1>4, SumMore
<1>6. SumOver(StashFn(M2, u), S \cup {n}) = SumOver(StashFn(M, u), S) + StashFn(M2, u)[n]
  BY <1>1, <1>2, <1>3, <1>4, SumMore
<1> QED BY <1>2, <1>4, <1>5, <1>6 DEF OwnBalance, Balance, S

LEMMA RowChanges ==
  ASSUME NEW M, NEW M2, Table(M), Table(M2), DOMAIN M2 = DOMAIN M, NEW n \in DOMAIN M,
         \A m \in DOMAIN M \ {n} : M2[m] = M[m], NEW u
  PROVE  OwnBalance(M2, u) = OwnBalance(M, u) + OwnFn(M2, u)[n] - OwnFn(M, u)[n]
<1> DEFINE S == DOMAIN M
<1>1. IsFiniteSet(S)
  BY NextNumber DEF Table
<1>2. \A m \in S : OwnFn(M, u)[m] \in Int /\ OwnFn(M2, u)[m] \in Int
  BY FnTypes
<1>3. \A m \in S \ {n} : OwnFn(M, u)[m] = OwnFn(M2, u)[m]
  BY DEF OwnFn, InStashOf, Others, Worth
<1>4. n \in S /\ DOMAIN M2 = S
  OBVIOUS
<1> HIDE DEF S
<1>5. SumOver(OwnFn(M2, u), S) = SumOver(OwnFn(M, u), S) + OwnFn(M2, u)[n] - OwnFn(M, u)[n]
  BY <1>1, <1>2, <1>3, <1>4, SumChange
<1> QED BY <1>4, <1>5 DEF OwnBalance, S

\* A request goes on relying on a stash that has not become smaller.
LEMMA ReliedMore ==
  ASSUME Basic, Types', Step, NEW o \in Req, Same(req[o], req'[o]), Relied(req[o], mvs),
         ~Relying(req[o]) \/ OwnBalance(mvs, req[o].user) <= OwnBalance(mvs', req[o].user)
  PROVE  Relied(req'[o], mvs')
<1> DEFINE q == req[o]
           p == req'[o]
           own == OwnBalance(mvs, q.user)
           own2 == OwnBalance(mvs', q.user)
<1>1. q \in Requests /\ ReqOK(q, mvs, txns, sent)
  BY ReqTypes DEF Basic, ReqsOK
<1>2. own \in Int /\ own2 \in Int
  <2>1. Table(mvs) /\ Table(mvs')
    BY DEF Basic, Types, Table, Rows
  <2> QED BY <2>1, OwnIsRest
<1>3. /\ p.pc = q.pc /\ (q.pc # "save" => p = q)
      /\ q.pc = "save" => p.user = q.user /\ p.kind = q.kind /\ p.amount = q.amount /\ p.relies = q.relies
  BY <1>1, SameFields
<1>4. ~Relying(q) \/ own <= own2
  OBVIOUS
<1>5. Relied(q, mvs)
  OBVIOUS
<1> SUFFICES Relied(p, mvs')
  OBVIOUS
<1> HIDE DEF q, p
<1>6. CASE q.pc = "save" /\ q.relies
  <2>1. q.amount \in Int
    BY <1>1, <1>6, ReqKinds DEF SaveReq
  <2>2. own <= own2 /\ p.pc = "save" /\ p.user = q.user /\ p.kind = q.kind /\ p.amount = q.amount
    BY <1>3, <1>4, <1>6 DEF Relying
  <2>3. IF q.kind = "take" THEN q.amount <= own ELSE own + q.amount >= 0
    BY <1>5, <1>6 DEF Relied
  <2>4. IF p.kind = "take" THEN p.amount <= own2 ELSE own2 + p.amount >= 0
    <3> HIDE DEF own, own2
    <3> QED BY <1>2, <2>1, <2>2, <2>3
  <2> QED BY <2>2, <2>4 DEF Relied
<1>7. CASE q.pc = "unsave" /\ q.relies
  <2>1. own <= own2 /\ p = q
    BY <1>3, <1>4, <1>7 DEF Relying
  <2>2. UnsaveOK(q, mvs)
    BY <1>1, <1>7 DEF ReqOK
  <2>3. /\ q.row \in Rows /\ mvs[q.row].amount \in Int /\ mvs'[q.row].amount = mvs[q.row].amount
        /\ mvs'[q.row].live => mvs[q.row].live
    BY <2>2, <1>7 DEF UnsaveOK, Adds, Step, Evolves, Basic, Types, MoveRow, Rows
  <2>4. mvs[q.row].live => mvs[q.row].amount <= own
    BY <1>5, <1>7 DEF Relied
  <2>5. mvs'[q.row].live => mvs'[q.row].amount <= own2
    <3> HIDE DEF own, own2
    <3> QED BY <1>2, <2>1, <2>3, <2>4
  <2> QED BY <1>7, <2>1, <2>5 DEF Relied
<1>8. CASE q.pc = "synced" /\ q.relies
  <2>1. own <= own2 /\ p = q
    BY <1>3, <1>4, <1>8 DEF Relying
  <2>2. SyncedOK(q, mvs, txns) /\ q \in SyncedReq
    BY <1>1, <1>8, ReqKinds DEF ReqOK
  <2>3. q.new.amount \in Int /\ \A m \in q.takes : q.was[m] \in Int
    BY <2>2 DEF SyncedOK, SyncedReq, TxnRow
  <2>4. \A m \in q.takes : q.new.amount > q.was[m] => q.new.amount - q.was[m] <= own
    BY <1>5, <1>8 DEF Relied
  <2>5. \A m \in q.takes : q.new.amount > q.was[m] => q.new.amount - q.was[m] <= own2
    <3> HIDE DEF own, own2
    <3> QED BY <1>2, <2>1, <2>3, <2>4
  <2> QED BY <1>8, <2>1, <2>5 DEF Relied
<1>9. CASE ~Relying(q)
  BY <1>9, <1>3 DEF Relied, Relying
<1> QED BY <1>6, <1>7, <1>8, <1>9 DEF Relying

LEMMA StashesKept ==
  ASSUME Basic, Types', Step, StashesOK, raced => raced',
         ~raced' => \A o \in Req :
            \/ /\ Same(req[o], req'[o])
               /\ ~Relying(req[o]) \/ OwnBalance(mvs, req[o].user) <= OwnBalance(mvs', req[o].user)
            \/ Relied(req'[o], mvs'),
         ~raced' => \A u \in Member : OwnBalance(mvs', u) >= 0 \/ OwnBalance(mvs, u) <= OwnBalance(mvs', u)
  PROVE  StashesOK'
<1> SUFFICES ASSUME ~raced'
             PROVE  (\A u \in Member : OwnBalance(mvs', u) >= 0) /\ (\A r \in Req : Relied(req'[r], mvs'))
  BY DEF StashesOK, Relied, OwnBalance, OwnFn, InStashOf, Others, Worth
<1>1. (\A u \in Member : OwnBalance(mvs, u) >= 0) /\ (\A r \in Req : Relied(req[r], mvs))
  BY DEF StashesOK
<1>2. Table(mvs) /\ Table(mvs')
  BY DEF Basic, Types, Table, Rows
<1>3. \A u \in Member : OwnBalance(mvs', u) >= 0
  BY <1>1, <1>2, OwnIsRest
<1>4. ASSUME NEW o \in Req PROVE Relied(req'[o], mvs')
  BY <1>1, ReliedMore
<1> QED BY <1>3, <1>4

\* Nobody else relies on the stash of the member whose request lowers it, as long as none raced.
LEMMA Alone ==
  ASSUME Basic, NEW r \in Req, NEW w, ~Races(r, w), (req[r].pc = "save" /\ req[r].user = w) \/ ~req[r].locked,
         NEW o \in Req \ {r}, Relying(req[o])
  PROVE  req[o].user # w
<1> SUFFICES ASSUME req[o].user = w PROVE FALSE
  OBVIOUS
<1>1. req[o].locked /\ req[r].locked
  BY DEF Races, Relying
<1>2. req[o] \in Requests
  BY ReqTypes DEF Basic
<1>3. req[o].pc = "save"
  BY <1>1, <1>2, ReqKinds DEF Relying, UnsaveReq, SyncedReq
<1> QED BY <1>1, <1>3 DEF Basic, LockOK

LEMMA StashCommitSave ==
  ASSUME Basic, StashesOK, NEW r \in Req, CommitSave(r)
  PROVE  StashesOK'
<1> DEFINE q == req[r]
           row == NewRow(q)
           d(u) == OwnFn(mvs', u)[NextRow]
<1>s. /\ q \in SaveReq /\ SaveOK(q, sent)
      /\ req'[r] = After(q) /\ (\A o \in Req \ {r} : Same(req[o], req'[o]))
      /\ raced' = (raced \/ (Lowers(q) /\ Races(r, q.user)))
      /\ LostRace(q) => mvs' = mvs
      /\ ~LostRace(q) =>
            /\ NextRow \notin Rows
            /\ DOMAIN mvs' = Rows \cup {NextRow} /\ mvs'[NextRow] = row
            /\ \A m \in Rows : mvs'[m] = mvs[m]
      /\ Types'
  BY CommitSaveShape
<1>0. Step /\ Table(mvs) /\ Table(mvs')
  BY CommitSaveBasic DEF Basic, Types, Table, Rows
<1>b. \A u \in Member : OwnBalance(mvs, u) \in Int /\ OwnBalance(mvs', u) \in Int
  BY <1>0, OwnIsRest
<1>a. Relied(req'[r], mvs')
  BY <1>s, IdleOK DEF After, Relied
<1>u. \A o \in Req \ {r} : Relying(req[o]) => req[o].user \in Member
  BY ReqTypes, ReqKinds DEF Basic, Relying, SaveReq, UnsaveReq, SyncedReq
<1>1. CASE LostRace(q)
  <2>1. \A u \in Member : OwnBalance(mvs, u) <= OwnBalance(mvs', u)
    BY <1>1, <1>s, <1>b
  <2>2. raced => raced'
    BY <1>s
  <2> QED BY <2>1, <2>2, <1>s, <1>0, <1>a, <1>u, StashesKept
<1>2. CASE ~LostRace(q)
  <2>1. \A u \in Member : OwnBalance(mvs', u) = OwnBalance(mvs, u) + d(u) /\ d(u) \in Int
    BY <1>0, <1>2, <1>s, TableGrows DEF Rows
  <2>2. /\ row.live /\ row.kind = q.kind /\ row.user = q.user /\ row.owner = q.owner /\ row.amount = q.amount
        /\ mvs'[NextRow] = row /\ NextRow \in DOMAIN mvs'
    BY <1>2, <1>s DEF NewRow
  <2>3. /\ q.amount \in Int /\ q.user \in Member
        /\ q.kind # "stash_count" => q.amount >= 0
        /\ q.relies <=> q.kind = "stash_count" \/ (q.kind = "take" /\ q.owner = q.user)
        /\ q.pc = "save"
    BY <1>s DEF SaveOK, SaveReq
  <2> HIDE DEF q, row
  <2>4. \A u : d(u) = IF InStashOf(mvs', u, NextRow) /\ ~Others(mvs', u, NextRow) THEN Worth(mvs', NextRow) ELSE 0
    BY <2>2 DEF OwnFn
  <2>5. ASSUME NEW u \in Member, u # q.user PROVE d(u) = 0
    BY <2>2, <2>4, <2>5 DEF InStashOf, Others
  <2>6. ASSUME ~Lowers(q) PROVE d(q.user) >= 0
    BY <2>2, <2>3, <2>4, <2>6 DEF InStashOf, Others, Worth, Lowers
  <2>7. ASSUME Lowers(q) PROVE d(q.user) = IF q.kind = "take" THEN 0 - q.amount ELSE q.amount
    BY <2>2, <2>3, <2>4, <2>7 DEF InStashOf, Others, Worth, Lowers
  <2> HIDE DEF d
  <2>8. CASE ~Lowers(q)
    <3>1. \A u \in Member : OwnBalance(mvs, u) <= OwnBalance(mvs', u)
      BY <2>1, <2>3, <2>5, <2>6, <2>8, <1>b
    <3> QED BY <3>1, <1>s, <1>0, <1>a, <1>u, StashesKept
  <2>9. CASE Lowers(q)
    <3>1. \A u \in Member \ {q.user} : OwnBalance(mvs, u) <= OwnBalance(mvs', u)
      BY <2>1, <2>5, <1>b
    <3>2. ASSUME ~raced' PROVE OwnBalance(mvs', q.user) >= 0
      <4>1. Relied(q, mvs)
        BY <3>2, <1>s DEF StashesOK, q
      <4>2. IF q.kind = "take" THEN q.amount <= OwnBalance(mvs, q.user) ELSE OwnBalance(mvs, q.user) + q.amount >= 0
        BY <4>1, <2>3, <2>9 DEF Relied, Lowers
      <4> QED BY <4>2, <2>1, <2>3, <2>7, <2>9, <1>b
    <3>3. ASSUME ~raced', NEW o \in Req \ {r}, Relying(req[o]) PROVE req[o].user # q.user
      <4>1. ~Races(r, q.user)
        BY <3>3, <1>s, <2>9
      <4> QED BY <4>1, <3>3, <2>3, Alone DEF q
    <3>4. ~raced' => \A o \in Req :
            \/ /\ Same(req[o], req'[o])
               /\ ~Relying(req[o]) \/ OwnBalance(mvs, req[o].user) <= OwnBalance(mvs', req[o].user)
            \/ Relied(req'[o], mvs')
      BY <3>1, <3>3, <1>s, <1>a, <1>u
    <3>5. ~raced' => \A u \in Member : OwnBalance(mvs', u) >= 0 \/ OwnBalance(mvs, u) <= OwnBalance(mvs', u)
      BY <3>1, <3>2
    <3>6. raced => raced'
      BY <1>s
    <3> QED BY <3>4, <3>5, <3>6, <1>s, <1>0, StashesKept
  <2> QED BY <2>8, <2>9
<1> QED BY <1>1, <1>2

LEMMA StashCommitUnsave ==
  ASSUME Basic, StashesOK, NEW r \in Req, CommitUnsave(r)
  PROVE  StashesOK'
<1> DEFINE q == req[r]
           n == q.row
           d(u) == OwnFn(mvs, u)[n]
<1>s. /\ q \in UnsaveReq /\ UnsaveOK(q, mvs) /\ n \in Rows
      /\ req'[r] = Idle /\ (\A o \in Req \ {r} : Same(req[o], req'[o]))
      /\ raced' = (raced \/ (q.relies /\ Races(r, q.user)))
      /\ mvs' = [mvs EXCEPT ![n].live = FALSE]
      /\ Types'
  BY CommitUnsaveShape
<1>0. Step /\ Table(mvs) /\ Table(mvs')
  BY CommitUnsaveBasic DEF Basic, Types, Table, Rows
<1>b. \A u \in Member : OwnBalance(mvs, u) \in Int /\ OwnBalance(mvs', u) \in Int
  BY <1>0, OwnIsRest
<1>a. Relied(req'[r], mvs')
  BY <1>s, IdleOK DEF Relied
<1>u. \A o \in Req \ {r} : Relying(req[o]) => req[o].user \in Member
  BY ReqTypes, ReqKinds DEF Basic, Relying, SaveReq, UnsaveReq, SyncedReq
<1>1. mvs[n] \in MoveRow /\ mvs[n].user = q.user /\ q.user \in Member /\ ~q.locked /\ q.pc = "unsave"
      /\ (q.relies <=> Adds(mvs, n))
  BY <1>s DEF Basic, Types, UnsaveOK, UnsaveReq
<1>2. mvs[n].amount \in Int /\ (mvs[n].kind # "stash_count" => mvs[n].amount >= 0)
  BY <1>1, <1>s DEF MoveRow, Basic, RowsOK, RowOK
<1> HIDE DEF q
<1>3. \A u \in Member : OwnBalance(mvs', u) = OwnBalance(mvs, u) - d(u) /\ d(u) \in Int
  <2> TAKE u \in Member
  <2>1. DOMAIN mvs' = DOMAIN mvs /\ n \in DOMAIN mvs /\ \A m \in DOMAIN mvs \ {n} : mvs'[m] = mvs[m]
    BY <1>s DEF Rows
  <2>2. OwnBalance(mvs', u) = OwnBalance(mvs, u) + OwnFn(mvs', u)[n] - OwnFn(mvs, u)[n]
    <3> HIDE DEF n
    <3> QED BY <1>0, <2>1, RowChanges
  <2>3. mvs'[n].live = FALSE
    BY <1>s, <1>1 DEF Rows, MoveRow
  <2>4. OwnFn(mvs', u)[n] = 0
    BY <2>1, <2>3 DEF OwnFn, InStashOf
  <2>5. OwnFn(mvs, u)[n] \in Int
    BY <1>0, <1>s, FnTypes DEF Rows
  <2> QED BY <2>2, <2>4, <2>5, <1>b
<1>4. \A u : d(u) = IF InStashOf(mvs, u, n) /\ ~Others(mvs, u, n) THEN Worth(mvs, n) ELSE 0
  BY <1>s DEF OwnFn, Rows
<1>5. ASSUME NEW u \in Member, u # q.user PROVE d(u) = 0
  BY <1>1, <1>4, <1>5 DEF InStashOf, Others
<1>6. ASSUME ~(Adds(mvs, n) /\ mvs[n].live) PROVE d(q.user) <= 0
  BY <1>1, <1>2, <1>4, <1>6 DEF InStashOf, Others, Worth, Adds
<1>7. ASSUME Adds(mvs, n), mvs[n].live PROVE d(q.user) = mvs[n].amount
  BY <1>1, <1>2, <1>4, <1>7 DEF InStashOf, Others, Worth, Adds
<1> HIDE DEF d, n
<1>8. CASE ~(Adds(mvs, n) /\ mvs[n].live)
  <2>1. \A u \in Member : OwnBalance(mvs, u) <= OwnBalance(mvs', u)
    BY <1>3, <1>5, <1>6, <1>8, <1>1, <1>b
  <2>2. raced => raced'
    BY <1>s
  <2> QED BY <2>1, <2>2, <1>s, <1>0, <1>a, <1>u, StashesKept
<1>9. CASE Adds(mvs, n) /\ mvs[n].live
  <2>1. \A u \in Member \ {q.user} : OwnBalance(mvs, u) <= OwnBalance(mvs', u)
    BY <1>3, <1>5, <1>b
  <2>2. ASSUME ~raced' PROVE OwnBalance(mvs', q.user) >= 0
    <3>1. Relied(q, mvs)
      BY <2>2, <1>s DEF StashesOK, q
    <3>2. mvs[n].amount <= OwnBalance(mvs, q.user)
      BY <3>1, <1>1, <1>9 DEF Relied, n
    <3> QED BY <3>2, <1>1, <1>2, <1>3, <1>7, <1>9, <1>b
  <2>3. ASSUME ~raced', NEW o \in Req \ {r}, Relying(req[o]) PROVE req[o].user # q.user
    <3>1. ~Races(r, q.user)
      BY <2>3, <1>s, <1>1, <1>9
    <3> QED BY <3>1, <2>3, <1>1, Alone DEF q
  <2>4. ~raced' => \A o \in Req :
          \/ /\ Same(req[o], req'[o])
             /\ ~Relying(req[o]) \/ OwnBalance(mvs, req[o].user) <= OwnBalance(mvs', req[o].user)
          \/ Relied(req'[o], mvs')
    BY <2>1, <2>3, <1>s, <1>a, <1>u
  <2>5. ~raced' => \A u \in Member : OwnBalance(mvs', u) >= 0 \/ OwnBalance(mvs, u) <= OwnBalance(mvs', u)
    BY <2>1, <2>2
  <2>6. raced => raced'
    BY <1>s
  <2> QED BY <2>4, <2>5, <2>6, <1>s, <1>0, StashesKept
<1> QED BY <1>8, <1>9

LEMMA StashCommitEdit ==
  ASSUME Basic, StepOK, StashesOK, NEW r \in Req, CommitEdit(r)
  PROVE  StashesOK'
<1> DEFINE q == req[r]
<1>s. /\ q \in SyncedReq /\ SyncedOK(q, mvs, txns)
      /\ req'[r] = Idle /\ (\A o \in Req \ {r} : Same(req[o], req'[o]))
      /\ raced' = \/ raced
                  \/ q.relies /\ Races(r, q.user)
                  \/ \E o \in Req \ {r} : req[o].pc \in {"edit", "synced"} /\ req[o].txn = q.txn
      /\ mvs' = [m \in Rows |-> EditedRow(q, m)] /\ \A m \in q.takes : mvs[m].kind = "take"
      /\ Types'
  BY CommitEditShape
<1>0. Step /\ Table(mvs) /\ Table(mvs')
  BY CommitEditBasic DEF Basic, Types, Table, Rows
<1>b. \A u \in Member : OwnBalance(mvs, u) \in Int /\ OwnBalance(mvs', u) \in Int
  BY <1>0, OwnIsRest
<1>a. Relied(req'[r], mvs')
  BY <1>s, IdleOK DEF Relied
<1>u. \A o \in Req \ {r} : Relying(req[o]) => req[o].user \in Member
  BY ReqTypes, ReqKinds DEF Basic, Relying, SaveReq, UnsaveReq, SyncedReq
<1>r. raced => raced'
  BY <1>s
<1>q. ~q.locked /\ q.pc = "synced" /\ q.user \in Member /\ q.new.amount \in Int
  <2>1. q.new.amount \in Nat
    BY <1>s DEF SyncedReq, TxnRow
  <2>2. ~q.locked /\ q.pc = "synced" /\ q.user \in Member
    BY <1>s DEF SyncedReq
  <2> HIDE DEF q
  <2> QED BY <2>1, <2>2
<1>1. ~raced' => \A m \in q.takes : q.was[m] = mvs[m].amount
  BY <1>r, <1>q DEF StepOK, EditsFresh, Fresh
<1>2. ~raced' => Relied(q, mvs)
  BY <1>r DEF StashesOK
<1>3. ~raced' /\ q.relies => \A o \in Req \ {r} : Relying(req[o]) => req[o].user # q.user
  BY <1>s, <1>q, Alone
<1>4. \A m, n \in q.takes : m = n
  <2>1. q.txn # 0 /\ \A m \in q.takes : m \in Rows /\ mvs[m].txn = q.txn
    BY <1>s, NextNumber DEF SyncedOK, Basic, Types, Txns, Rows
  <2> QED BY <2>1 DEF Basic, RowsOK
<1> HIDE DEF q
<1>5. CASE q.takes = {}
  <2>1. mvs' = mvs
    BY <1>s, <1>5 DEF EditedRow, Basic, Types
  <2>2. \A u \in Member : OwnBalance(mvs, u) <= OwnBalance(mvs', u)
    BY <2>1, <1>b
  <2> QED BY <2>2, <1>s, <1>r, <1>0, <1>a, <1>u, StashesKept
<1>6. CASE q.takes # {}
  <2> PICK n \in q.takes : TRUE
    BY <1>6
  <2>1. n \in Rows /\ mvs[n] \in MoveRow /\ mvs[n].kind = "take" /\ mvs[n].amount \in Int /\ mvs[n].amount >= 0
    BY <1>s DEF SyncedOK, Basic, Types, RowsOK, RowOK, MoveRow, Rows
  <2>2. mvs'[n] = EditedRow(q, n) /\ DOMAIN mvs' = Rows /\ \A m \in Rows \ {n} : mvs'[m] = mvs[m]
    BY <1>s, <1>4, <2>1 DEF EditedRow
  <2> DEFINE d(u) == OwnFn(mvs, u)[n]
             e(u) == OwnFn(mvs', u)[n]
  <2>3. \A u \in Member : OwnBalance(mvs', u) = OwnBalance(mvs, u) + e(u) - d(u) /\ d(u) \in Int /\ e(u) \in Int
    <3> TAKE u \in Member
    <3>1. n \in DOMAIN mvs /\ DOMAIN mvs' = DOMAIN mvs /\ \A m \in DOMAIN mvs \ {n} : mvs'[m] = mvs[m]
      BY <2>1, <2>2 DEF Rows
    <3>2. OwnBalance(mvs', u) = OwnBalance(mvs, u) + OwnFn(mvs', u)[n] - OwnFn(mvs, u)[n]
      BY <1>0, <3>1, RowChanges
    <3>3. OwnFn(mvs', u)[n] \in Int /\ OwnFn(mvs, u)[n] \in Int
      BY <1>0, <3>1, FnTypes
    <3> QED BY <3>2, <3>3
  <2>4. \A u : d(u) = IF mvs[n].live /\ mvs[n].owner = u /\ mvs[n].user = u THEN 0 - mvs[n].amount ELSE 0
    BY <2>1 DEF OwnFn, InStashOf, Others, Worth, Rows
  <2>5. /\ mvs'[n].kind = "take" /\ mvs'[n].owner = mvs[n].owner /\ mvs'[n].user = mvs[n].user
        /\ (mvs'[n].live => mvs[n].live)
    BY <1>0, <2>1 DEF Step, Evolves, Rows
  <2>6. \A u : e(u) = IF mvs'[n].live /\ mvs[n].owner = u /\ mvs[n].user = u THEN 0 - mvs'[n].amount ELSE 0
    BY <2>1, <2>2, <2>5 DEF OwnFn, InStashOf, Others, Worth, Rows
  <2>7. ~raced' => IF q.new.cash THEN mvs'[n].live = mvs[n].live /\ mvs'[n].amount = q.new.amount ELSE mvs'[n].live = FALSE
    BY <1>1, <2>1, <2>2 DEF EditedRow, MoveRow
  <2> HIDE DEF d, e
  <2>8. CASE q.new.cash /\ mvs[n].owner # NoOne /\ q.new.amount > mvs[n].amount
    <3>1. ~raced' => q.relies /\ q.user = mvs[n].owner
      BY <1>1, <1>s, <1>q, <2>1, <2>8 DEF SyncedOK
    <3>2. \A u \in Member \ {mvs[n].owner} : OwnBalance(mvs, u) <= OwnBalance(mvs', u)
      BY <2>3, <2>4, <2>6, <1>b
    <3>3. ASSUME ~raced' PROVE OwnBalance(mvs', q.user) >= 0
      <4>1. q.new.amount - mvs[n].amount <= OwnBalance(mvs, q.user)
        BY <3>1, <3>3, <1>1, <1>2, <1>q, <2>8 DEF Relied
      <4>2. e(q.user) - d(q.user) >= mvs[n].amount - q.new.amount
        BY <3>3, <2>1, <2>4, <2>6, <2>7, <2>8, <1>q
      <4>3. OwnBalance(mvs', q.user) = OwnBalance(mvs, q.user) + e(q.user) - d(q.user) /\ d(q.user) \in Int /\ e(q.user) \in Int
        BY <2>3, <1>q
      <4> QED BY <4>1, <4>2, <4>3, <1>b, <1>q, <2>1
    <3>4. ~raced' => \A o \in Req :
            \/ /\ Same(req[o], req'[o])
               /\ ~Relying(req[o]) \/ OwnBalance(mvs, req[o].user) <= OwnBalance(mvs', req[o].user)
            \/ Relied(req'[o], mvs')
      BY <3>1, <3>2, <1>3, <1>s, <1>a, <1>u
    <3>5. ~raced' => \A u \in Member : OwnBalance(mvs', u) >= 0 \/ OwnBalance(mvs, u) <= OwnBalance(mvs', u)
      BY <3>1, <3>2, <3>3
    <3> QED BY <3>4, <3>5, <1>r, <1>s, <1>0, StashesKept
  <2>9. CASE ~(q.new.cash /\ mvs[n].owner # NoOne /\ q.new.amount > mvs[n].amount)
    <3>1. ASSUME ~raced', NEW u \in Member PROVE OwnBalance(mvs, u) <= OwnBalance(mvs', u)
      <4>1. d(u) <= e(u)
        <5>1. u # NoOne
          BY CashAssumption
        <5>2. CASE q.new.cash
          BY <3>1, <5>1, <5>2, <2>1, <2>4, <2>6, <2>7, <2>9, <1>q
        <5>3. CASE ~q.new.cash
          BY <3>1, <5>3, <2>1, <2>4, <2>6, <2>7
        <5> QED BY <5>2, <5>3
      <4> QED BY <4>1, <2>3, <1>b
    <3>2. ~raced' => \A o \in Req :
            \/ /\ Same(req[o], req'[o])
               /\ ~Relying(req[o]) \/ OwnBalance(mvs, req[o].user) <= OwnBalance(mvs', req[o].user)
            \/ Relied(req'[o], mvs')
      BY <3>1, <1>s, <1>a, <1>u
    <3> QED BY <3>1, <3>2, <1>r, <1>s, <1>0, StashesKept
  <2> QED BY <2>8, <2>9
<1> QED BY <1>5, <1>6

\* Steps that at most end the life of takes.
LEMMA OwnGrows ==
  ASSUME Basic, Types', Step, DOMAIN mvs' = Rows,
         \A m \in Rows : mvs'[m].amount = mvs[m].amount /\ (mvs'[m].live = mvs[m].live \/ mvs[m].kind = "take"),
         NEW u
  PROVE  OwnBalance(mvs, u) <= OwnBalance(mvs', u)
<1>1. Table(mvs) /\ Table(mvs') /\ DOMAIN mvs' = DOMAIN mvs
  BY DEF Basic, Types, Table, Rows
<1>2. ASSUME NEW m \in DOMAIN mvs PROVE OwnFn(mvs, u)[m] <= OwnFn(mvs', u)[m]
  <2>1. /\ mvs'[m].user = mvs[m].user /\ mvs'[m].kind = mvs[m].kind /\ mvs'[m].owner = mvs[m].owner
        /\ (mvs'[m].live => mvs[m].live) /\ mvs'[m].amount = mvs[m].amount
        /\ (mvs'[m].live = mvs[m].live \/ mvs[m].kind = "take")
    BY DEF Step, Evolves, Rows
  <2>2. mvs[m].amount \in Int /\ (mvs[m].kind = "take" => mvs[m].amount >= 0) /\ mvs[m].live \in BOOLEAN
    BY <1>1 DEF Basic, RowsOK, RowOK, Rows, Table, MoveRow
  <2>3. CASE mvs[m].kind = "take"
    BY <1>1, <2>1, <2>2, <2>3 DEF OwnFn, InStashOf, Others, Worth
  <2>4. CASE mvs'[m].live = mvs[m].live
    BY <1>1, <2>1, <2>2, <2>4 DEF OwnFn, InStashOf, Others, Worth
  <2> QED BY <2>1, <2>3, <2>4
<1> QED BY <1>1, <1>2, OwnMonotone

LEMMA StashDelete ==
  ASSUME Basic, StashesOK, NEW t \in Txns, DeleteExpense(t)
  PROVE  StashesOK'
<1>1. /\ mvs' = [m \in Rows |-> IF mvs[m].txn = t THEN [mvs[m] EXCEPT !.live = FALSE] ELSE mvs[m]]
      /\ raced' = raced /\ (\A o \in Req : Same(req[o], req'[o])) /\ Types'
  BY DeleteExpenseShape
<1>2. Step
  BY DeleteExpenseBasic
<1>3. \A m \in Rows : mvs'[m].amount = mvs[m].amount /\ (mvs'[m].live = mvs[m].live \/ mvs[m].kind = "take")
  <2> TAKE m \in Rows
  <2>1. mvs[m] \in MoveRow /\ (mvs[m].txn = t => mvs[m].kind = "take")
    BY NextNumber DEF Basic, Types, RowsOK, RowOK
  <2> QED BY <1>1, <2>1 DEF MoveRow
<1>4. DOMAIN mvs' = Rows
  BY <1>1
<1>5. \A u : OwnBalance(mvs, u) <= OwnBalance(mvs', u)
  BY <1>1, <1>2, <1>3, <1>4, OwnGrows
<1> QED BY <1>1, <1>2, <1>5, StashesKept

\* A request that begins or reads on, the movements as they were.
LEMMA StashRead ==
  ASSUME Basic, Types', Step, StashesOK, NEW r \in Req, mvs' = mvs, raced' = raced,
         \A o \in Req \ {r} : req'[o] = req[o], ~raced => Relied(req'[r], mvs)
  PROVE  StashesOK'
<1>1. Table(mvs)
  BY DEF Basic, Types, Table, Rows
<1>2. \A u : OwnBalance(mvs', u) \in Int /\ OwnBalance(mvs, u) = OwnBalance(mvs', u)
  BY <1>1, OwnIsRest
<1>3. \A u : OwnBalance(mvs, u) <= OwnBalance(mvs', u)
  BY <1>2
<1>4. ~raced' => Relied(req'[r], mvs')
  OBVIOUS
<1> QED BY <1>3, <1>4, StashesKept DEF Same

LEMMA StashBegun ==
  ASSUME Basic, StashesOK, NEW r \in Req, NEW u \in Member, NEW s \in Saves, NEW key \in Key \cup {NoOne},
         NEW via \in Vias, Begin(r, u, s, key, via)
  PROVE  StashesOK'
<1> DEFINE amount == IF s.kind = "stash_count" THEN s.amount - StashBalance(u) ELSE s.amount
           new == [pc |-> "save", user |-> u, locked |-> via = "api", kind |-> s.kind,
                   owner |-> s.owner, amount |-> amount, counted |-> s.amount,
                   month |-> s.month, expense |-> s.expense, key |-> key, via |-> via,
                   relies |-> s.kind = "stash_count" \/ (s.kind = "take" /\ s.owner = u), upset |-> FALSE]
<1>1. /\ UNCHANGED <<mvs, txns, raced>> /\ req' = [req EXCEPT ![r] = new]
      /\ s.kind = "take" /\ s.owner # NoOne => StashCovers(s.owner, s.amount, u, 0)
  BY DEF Begin, BeginSave
<1>2. /\ new.pc = "save" /\ new.user = u /\ new.kind = s.kind /\ new.amount = amount
      /\ new.relies => s.kind = "stash_count" \/ (s.kind = "take" /\ s.owner = u)
  OBVIOUS
<1> HIDE DEF new
<1>3. Step /\ Types' /\ Table(mvs) /\ \A m \in DOMAIN mvs : mvs[m].kind # "stash_count" => mvs[m].amount >= 0
  BY BeginSaveBasic DEF Begin, Basic, Types, Table, RowsOK, RowOK, Rows
<1>4. /\ StashBalance(u) = Balance(mvs, u) /\ Balance(mvs, u) \in Int /\ OwnBalance(mvs, u) \in Int
      /\ Balance(mvs, u) <= OwnBalance(mvs, u)
  BY <1>3, StashIs, OwnIsRest, OwnIsMore
<1>5. s.amount \in Nat /\ u # NoOne
  BY FormsAssumption, CashAssumption
<1>6. Relied(new, mvs)
  <2> DEFINE own == OwnBalance(mvs, u)
  <2>1. s.kind = "stash_count" => amount = s.amount - Balance(mvs, u)
    BY <1>4
  <2>2. s.kind = "take" => amount = s.amount
    OBVIOUS
  <2>3. s.kind = "take" /\ s.owner = u => s.amount <= Balance(mvs, u)
    BY <1>1, <1>4, <1>5 DEF StashCovers
  <2> HIDE DEF amount, own
  <2>4. s.kind = "stash_count" => own + amount >= 0
    BY <1>4, <1>5, <2>1 DEF own
  <2>5. s.kind = "take" /\ s.owner = u => amount <= own
    BY <1>4, <1>5, <2>2, <2>3 DEF own
  <2> QED BY <1>2, <2>4, <2>5 DEF Relied, own
<1>7. req'[r] = new /\ \A o \in Req \ {r} : req'[o] = req[o]
  BY <1>1 DEF Basic, Types
<1> QED BY <1>1, <1>3, <1>6, <1>7, StashRead

LEMMA StashUnsaveBegun ==
  ASSUME Basic, StashesOK, NEW r \in Req, NEW m \in Rows, BeginUnsave(r, m)
  PROVE  StashesOK'
<1>1. /\ UNCHANGED <<mvs, txns, raced>> /\ (\A o \in Req \ {r} : req'[o] = req[o])
      /\ req'[r].pc = "unsave" /\ req'[r].row = m /\ req'[r].user = mvs[m].user
      /\ Adds(mvs, m) => StashBalance(mvs[m].user) >= mvs[m].amount
  BY UnsaveBegan
<1>2. Step /\ Basic'
  BY BeginUnsaveBasic
<1>3. UnsaveOK(req'[r], mvs)
  BY <1>1, <1>2 DEF Basic, ReqsOK, ReqOK
<1>4. Table(mvs) /\ mvs[m].amount \in Int /\ \A n \in DOMAIN mvs : mvs[n].kind # "stash_count" => mvs[n].amount >= 0
  BY DEF Basic, Types, Table, RowsOK, RowOK, Rows, MoveRow
<1>5. LET u == mvs[m].user
      IN  /\ StashBalance(u) = Balance(mvs, u) /\ Balance(mvs, u) \in Int /\ OwnBalance(mvs, u) \in Int
          /\ Balance(mvs, u) <= OwnBalance(mvs, u)
  BY <1>4, StashIs, OwnIsRest, OwnIsMore
<1>6. Adds(mvs, m) => mvs[m].amount <= OwnBalance(mvs, mvs[m].user)
  BY <1>1, <1>4, <1>5
<1>7. Relied(req'[r], mvs)
  BY <1>1, <1>3, <1>6 DEF Relied, UnsaveOK
<1>8. Types'
  BY <1>2 DEF Basic
<1> QED BY <1>1, <1>2, <1>7, <1>8, StashRead

LEMMA StashSyncEdit ==
  ASSUME Basic, StashesOK, NEW r \in Req, SyncEdit(r)
  PROVE  StashesOK'
<1> DEFINE q == req[r]
           new == Synced(q)
<1>1. /\ q \in EditReq /\ EditOK(q, txns)
      /\ Takes(q) \subseteq Rows /\ (\A m \in Takes(q) : mvs[m] \in MoveRow /\ mvs[m].txn = q.txn)
      /\ UNCHANGED <<mvs, txns, raced>>
      /\ \A o \in Req \ {r} : req'[o] = req[o]
      /\ \/ req'[r] = Idle
         \/ /\ req'[r] = new
            /\ q.new.cash => \A m \in Takes(q) : ~RefusedTake(q, m)
  BY SyncEditShape
<1>2. Step /\ Types'
  BY SyncEditBasic DEF Basic
<1>n. /\ new.pc = "synced" /\ new.user = q.user /\ new.new = q.new /\ new.takes = Takes(q)
      /\ new.was = [m \in Takes(q) |-> mvs[m].amount] /\ (new.relies => q.new.cash /\ Grows(q))
  BY DEF Synced
<1> HIDE DEF q, new
<1>3. Table(mvs) /\ \A n \in DOMAIN mvs : mvs[n].kind # "stash_count" => mvs[n].amount >= 0
  BY DEF Basic, Types, Table, RowsOK, RowOK, Rows
<1>4. q.new.amount \in Int /\ q.user \in Member
  BY <1>1 DEF EditReq, TxnRow
<1>5. \A m, n \in Takes(q) : m = n
  <2>1. q.txn # 0
    BY <1>1, NextNumber DEF EditOK, Basic, Types, Txns
  <2> QED BY <1>1, <2>1 DEF Basic, RowsOK
<1>6. ASSUME req'[r] = new, q.new.cash => \A m \in Takes(q) : ~RefusedTake(q, m) PROVE Relied(req'[r], mvs)
  <2> SUFFICES ASSUME new.relies, NEW m \in Takes(q), q.new.amount > mvs[m].amount
               PROVE  q.new.amount - mvs[m].amount <= OwnBalance(mvs, q.user)
    BY <1>6, <1>n DEF Relied
  <2>1. mvs[m].amount \in Int
    BY <1>1 DEF MoveRow
  <2>2. q.new.cash /\ mvs[m].owner # NoOne
    BY <1>n, <1>5 DEF Grows
  <2>3. q.user = mvs[m].owner /\ StashCovers(mvs[m].owner, q.new.amount, q.user, mvs[m].amount)
    BY <1>6, <2>1, <2>2, <1>4 DEF RefusedTake
  <2>4. /\ StashBalance(q.user) = Balance(mvs, q.user) /\ Balance(mvs, q.user) \in Int /\ OwnBalance(mvs, q.user) \in Int
        /\ Balance(mvs, q.user) <= OwnBalance(mvs, q.user)
    BY <1>3, StashIs, OwnIsRest, OwnIsMore
  <2>5. Balance(mvs, q.user) + mvs[m].amount >= q.new.amount
    BY <2>3, <2>4 DEF StashCovers
  <2> QED BY <2>1, <2>4, <2>5, <1>4
<1>7. Relied(req'[r], mvs)
  BY <1>1, <1>6, IdleOK DEF Relied
<1> QED BY <1>1, <1>2, <1>7, StashRead

LEMMA StashNext ==
  ASSUME Basic, StepOK, StashesOK, CashNext
  PROVE  StashesOK'
<1>0. Step /\ Types'
  BY BasicNext DEF Basic
<1>1. CASE Begun
  BY <1>1, StashBegun DEF Begun
<1>2. CASE \E r \in Req, u \in Member, t \in Txns, e \in Edits : BeginEdit(r, u, t, e)
  <2> PICK r \in Req, u \in Member, t \in Txns, e \in Edits : BeginEdit(r, u, t, e)
    BY <1>2
  <2>1. UNCHANGED <<mvs, txns, raced>> /\ (\A o \in Req \ {r} : req'[o] = req[o]) /\ req'[r].pc = "edit"
    BY EditBegan
  <2>2. Relied(req'[r], mvs)
    BY <2>1 DEF Relied
  <2> QED BY <1>0, <2>1, <2>2, StashRead
<1>3. CASE \E r \in Req : CommitSave(r)
  BY <1>3, StashCommitSave
<1>4. CASE \E r \in Req : CommitTag(r)
  <2> PICK r \in Req : CommitTag(r)
    BY <1>4
  <2>1. Quiet /\ req'[r] = Idle /\ \A o \in Req \ {r} : Same(req[o], req'[o])
    BY QuietTag
  <2>2. \A m \in Rows : mvs'[m].live = mvs[m].live
    <3> TAKE m \in Rows
    <3>1. mvs[m] \in MoveRow
      BY DEF Basic, Types
    <3>2. mvs'[m] = mvs[m] \/ mvs'[m] = [mvs[m] EXCEPT !.key = req[r].key]
      BY DEF CommitTag, Basic, Types
    <3> QED BY <3>1, <3>2 DEF MoveRow
  <2>3. \A u : OwnBalance(mvs, u) <= OwnBalance(mvs', u)
    BY <1>0, <2>1, <2>2, OwnGrows DEF Quiet
  <2>4. Relied(req'[r], mvs') /\ raced' = raced
    BY <2>1, IdleOK DEF Relied, CommitTag
  <2> QED BY <1>0, <2>1, <2>3, <2>4, StashesKept
<1>5. CASE \E r \in Req : Abandon(r)
  <2> PICK r \in Req : Abandon(r)
    BY <1>5
  <2>1. UNCHANGED <<mvs, txns, raced>> /\ req'[r] = Idle /\ \A o \in Req \ {r} : req'[o] = req[o]
    BY DEF Abandon, Basic, Types
  <2>2. Relied(req'[r], mvs)
    BY <2>1, IdleOK DEF Relied
  <2> QED BY <1>0, <2>1, <2>2, StashRead
<1>6. CASE \E r \in Req, m \in Rows : BeginUnsave(r, m)
  BY <1>6, StashUnsaveBegun
<1>7. CASE \E r \in Req : CommitUnsave(r)
  BY <1>7, StashCommitUnsave
<1>8. CASE \E r \in Req : SyncEdit(r)
  BY <1>8, StashSyncEdit
<1>9. CASE \E r \in Req : CommitEdit(r)
  BY <1>9, StashCommitEdit
<1>10. CASE \E t \in Txns : DeleteExpense(t)
  BY <1>10, StashDelete
<1>11. CASE Age
  <2>1. mvs' = [m \in Rows |-> [mvs[m] EXCEPT !.aged = TRUE]] /\ UNCHANGED <<req, raced>>
    BY <1>11 DEF Age
  <2>2. \A m \in Rows : mvs'[m].amount = mvs[m].amount /\ mvs'[m].live = mvs[m].live
    <3> TAKE m \in Rows
    <3>1. mvs[m] \in MoveRow
      BY DEF Basic, Types
    <3> QED BY <2>1, <3>1 DEF MoveRow
  <2>3. \A u : OwnBalance(mvs, u) <= OwnBalance(mvs', u)
    BY <1>0, <2>1, <2>2, OwnGrows
  <2> QED BY <1>0, <2>1, <2>3, StashesKept DEF Same
<1> QED BY <1>1, <1>2, <1>3, <1>4, <1>5, <1>6, <1>7, <1>8, <1>9, <1>10, <1>11, Steps

LEMMA StashInit == CashInit => StashesOK
<1> SUFFICES ASSUME CashInit PROVE StashesOK
  OBVIOUS
<1>1. mvs = << >> /\ DOMAIN mvs = {} /\ \A r \in Req : req[r] = Idle
  BY DEF CashInit
<1>2. \A u : OwnBalance(mvs, u) = 0
  BY <1>1, SumEmpty DEF OwnBalance
<1>3. \A r \in Req : Relied(req[r], mvs)
  BY <1>1, IdleOK DEF Relied
<1> QED BY <1>2, <1>3 DEF StashesOK

\* A member's own saves, recounts, deletions and edits never overdraw their stash, however they overlap with others'
\* requests: below zero it goes only by what others took. Two of the member's own requests may overlap only under
\* the lock (require_stash_covers, lock_actor_cash).
THEOREM OwnActsCovered == CashSpec => []OwnActsNeverOverdraw
<1>1. CashInit => StashesOK
  BY StashInit
<1>2. CashInit => StepOK
  <2> SUFFICES ASSUME CashInit PROVE StepOK
    OBVIOUS
  <2>1. Rows = {} /\ \A r \in Req : req[r] = Idle
    BY DEF CashInit, Rows
  <2> QED BY <2>1, IdleFresh DEF StepOK, EditsFresh, TakeInStep
<1>3. Basic /\ StepOK /\ StashesOK /\ [CashNext]_cvars => StepOK' /\ StashesOK'
  <2> SUFFICES ASSUME Basic, StepOK, StashesOK, UNCHANGED cvars PROVE StepOK' /\ StashesOK'
    BY StepNext, StashNext
  <2>1. UNCHANGED <<mvs, raced, req>>
    BY DEF cvars
  <2>2. StashesOK'
    BY <2>1 DEF StashesOK, Relied, OwnBalance, OwnFn, InStashOf, Others, Worth
  <2> QED BY <2>2, StepStutter
<1>4. Basic /\ StashesOK => OwnActsNeverOverdraw
  <2> SUFFICES ASSUME Basic, StashesOK, ~raced, NEW u \in Member PROVE OwnStash(u) >= 0
    BY DEF OwnActsNeverOverdraw, OwnStash
  <2>1. Table(mvs)
    BY DEF Basic, Types, Table, Rows
  <2> QED BY <2>1, OwnIs DEF StashesOK
<1> QED BY <1>1, <1>2, <1>3, <1>4, TablesAndRequests, PTL DEF CashSpec

(***************************************************************************)
(* Recounts.                                                               *)
(***************************************************************************)
\* A recount that nothing upset corrects the balance there is.
CountOK(q, M) == q.pc = "save" /\ q.kind = "stash_count" /\ ~q.upset => q.amount = q.counted - Balance(M, q.user)
CountsOK == \A r \in Req : CountOK(req[r], mvs)

LEMMA CountsKept ==
  ASSUME Basic, CountsOK,
         \A o \in Req :
            \/ /\ Same(req[o], req'[o])
               /\ req[o].pc = "save" => req'[o].upset \/ Balance(mvs', req[o].user) = Balance(mvs, req[o].user)
            \/ CountOK(req'[o], mvs')
  PROVE  \A o \in Req : CountOK(req'[o], mvs')
<1> SUFFICES ASSUME NEW o \in Req, Same(req[o], req'[o]),
                    req[o].pc = "save" => req'[o].upset \/ Balance(mvs', req[o].user) = Balance(mvs, req[o].user)
             PROVE  CountOK(req'[o], mvs')
  OBVIOUS
<1> DEFINE q == req[o]
           p == req'[o]
<1>1. q \in Requests /\ CountOK(q, mvs) /\ Same(q, p)
  BY ReqTypes DEF Basic, CountsOK
<1>2. p.pc = q.pc /\ (q.pc = "save" => p.kind = q.kind /\ p.user = q.user /\ p.amount = q.amount /\ p.counted = q.counted)
  BY <1>1, SameFields
<1>3. q.pc = "save" /\ ~p.upset => ~q.upset
  BY <1>1, ReqKinds DEF Same, SaveReq
<1>4. q.pc = "save" => p.upset \/ Balance(mvs', q.user) = Balance(mvs, q.user)
  OBVIOUS
<1> HIDE DEF q
<1>5. CountOK(p, mvs')
  <2> HIDE DEF p
  <2> QED BY <1>1, <1>2, <1>3, <1>4 DEF CountOK
<1> QED BY <1>5

\* Movements that hold the same are worth the same.
LEMMA BalanceStays ==
  ASSUME Basic, Types', Step, DOMAIN mvs' = Rows, NEW u,
         \A m \in Rows : \/ mvs'[m].amount = mvs[m].amount /\ mvs'[m].live = mvs[m].live
                        \/ ~InStashOf(mvs, u, m)
  PROVE  Balance(mvs', u) = Balance(mvs, u)
<1>1. Table(mvs) /\ Table(mvs') /\ DOMAIN mvs' = DOMAIN mvs
  BY DEF Basic, Types, Table, Rows
<1>2. ASSUME NEW m \in DOMAIN mvs PROVE StashFn(mvs, u)[m] = StashFn(mvs', u)[m]
  <2>1. /\ mvs'[m].user = mvs[m].user /\ mvs'[m].kind = mvs[m].kind /\ mvs'[m].owner = mvs[m].owner
        /\ mvs'[m].live => mvs[m].live
    BY DEF Step, Evolves
  <2>2. \/ mvs'[m].amount = mvs[m].amount /\ mvs'[m].live = mvs[m].live
        \/ ~InStashOf(mvs, u, m)
    BY DEF Rows
  <2>3. mvs[m].live \in BOOLEAN /\ mvs'[m].live \in BOOLEAN
    BY <1>1 DEF Table, MoveRow
  <2>4. InStashOf(mvs', u, m) => InStashOf(mvs, u, m)
    BY <2>1 DEF InStashOf
  <2>5. CASE ~InStashOf(mvs, u, m)
    BY <1>1, <2>4, <2>5 DEF StashFn
  <2>6. CASE mvs'[m].amount = mvs[m].amount /\ mvs'[m].live = mvs[m].live
    BY <1>1, <2>1, <2>3, <2>6 DEF StashFn, InStashOf, Worth
  <2> QED BY <2>2, <2>5, <2>6
<1> QED BY <1>1, <1>2, StashSame

LEMMA CountsCommitSave ==
  ASSUME Basic, CountsOK, NEW r \in Req, CommitSave(r)
  PROVE  /\ \A o \in Req : CountOK(req'[o], mvs')
         /\ \A o \in Req \ {r} : req[o].pc = "save" => req'[o] # Idle
         /\ req[r].kind = "stash_count" /\ ~req[r].upset => Balance(mvs', req[r].user) = req[r].counted
<1> DEFINE q == req[r]
           row == NewRow(q)
<1>s. /\ q \in SaveReq /\ SaveOK(q, sent)
      /\ req'[r] = After(q) /\ (\A o \in Req \ {r} : Same(req[o], req'[o]))
      /\ \A o \in Req \ {r} : req[o].pc = "save" /\ req[o].user = StashOf(q) => req'[o].upset
      /\ LostRace(q) => mvs' = mvs
      /\ ~LostRace(q) =>
            /\ NextRow \notin Rows
            /\ DOMAIN mvs' = Rows \cup {NextRow} /\ mvs'[NextRow] = row
            /\ \A m \in Rows : mvs'[m] = mvs[m]
      /\ Types'
  BY CommitSaveShape
<1>0. Table(mvs) /\ Table(mvs')
  BY <1>s DEF Basic, Types, Table, Rows
<1>a. CountOK(req'[r], mvs')
  BY <1>s, IdleOK DEF After, CountOK
<1>1. \A o \in Req \ {r} : req[o].pc = "save" => req'[o] # Idle
  BY <1>s, SameFields, ReqTypes, IdleOK DEF Basic
<1>2. CASE LostRace(q)
  <2>1. \A o \in Req : CountOK(req'[o], mvs')
    BY <1>2, <1>s, <1>a, CountsKept
  <2>2. q.kind # "stash_count"
    BY <1>2, <1>s DEF LostRace, SaveOK
  <2> QED BY <1>1, <2>1, <2>2
<1>3. CASE ~LostRace(q)
  <2>1. \A u : Balance(mvs', u) = Balance(mvs, u) + StashFn(mvs', u)[NextRow]
    BY <1>0, <1>3, <1>s, TableGrows DEF Rows
  <2>2. /\ row.live /\ row.kind = q.kind /\ row.user = q.user /\ row.owner = q.owner /\ row.amount = q.amount
        /\ mvs'[NextRow] = row /\ NextRow \in DOMAIN mvs'
    BY <1>3, <1>s DEF NewRow
  <2>b. \A u : Balance(mvs, u) \in Int
    BY <1>0, OwnIsRest
  <2>3. q.amount \in Int /\ q.counted \in Int /\ CountOK(q, mvs) /\ q.pc = "save"
    BY <1>s DEF SaveReq, CountsOK
  <2> HIDE DEF row, q
  <2>4. ASSUME NEW u, u # StashOf(q) PROVE StashFn(mvs', u)[NextRow] = 0
    BY <2>2, <2>4 DEF StashFn, InStashOf, StashOf
  <2>5. q.kind = "stash_count" => StashFn(mvs', q.user)[NextRow] = q.amount
    BY <2>2 DEF StashFn, InStashOf, Worth
  <2>6. \A o \in Req \ {r} : req[o].pc = "save" => req'[o].upset \/ Balance(mvs', req[o].user) = Balance(mvs, req[o].user)
    BY <1>s, <2>1, <2>4, <2>b
  <2>7. \A o \in Req : CountOK(req'[o], mvs')
    BY <1>s, <1>a, <2>6, CountsKept
  <2>8. q.kind = "stash_count" /\ ~q.upset => Balance(mvs', q.user) = q.counted
    BY <2>1, <2>3, <2>5, <2>b DEF CountOK
  <2> QED BY <1>1, <2>7, <2>8 DEF q
<1> QED BY <1>2, <1>3

LEMMA CountsCommitUnsave ==
  ASSUME Basic, CountsOK, NEW r \in Req, CommitUnsave(r)
  PROVE  \A o \in Req : CountOK(req'[o], mvs')
<1> DEFINE n == req[r].row
<1>s. /\ n \in Rows /\ req'[r] = Idle /\ (\A o \in Req \ {r} : Same(req[o], req'[o]))
      /\ \A o \in Req \ {r} : req[o].pc = "save" /\ req[o].user = StashOf(mvs[n]) => req'[o].upset
      /\ mvs' = [mvs EXCEPT ![n].live = FALSE]
      /\ Types'
  BY CommitUnsaveShape
<1>0. Step
  BY CommitUnsaveBasic
<1> HIDE DEF n
<1>1. DOMAIN mvs' = Rows /\ \A m \in Rows \ {n} : mvs'[m] = mvs[m]
  BY <1>s DEF Rows
<1>2. ASSUME NEW u, u # StashOf(mvs[n]) PROVE Balance(mvs', u) = Balance(mvs, u)
  <2>1. ~InStashOf(mvs, u, n)
    BY <1>2 DEF InStashOf, StashOf
  <2> QED BY <1>0, <1>1, <1>s, <2>1, BalanceStays
<1>3. CountOK(req'[r], mvs')
  BY <1>s, IdleOK DEF CountOK
<1> QED BY <1>s, <1>2, <1>3, CountsKept

LEMMA CountsCommitEdit ==
  ASSUME Basic, CountsOK, NEW r \in Req, CommitEdit(r)
  PROVE  \A o \in Req : CountOK(req'[o], mvs')
<1> DEFINE q == req[r]
<1>s. /\ req'[r] = Idle /\ (\A o \in Req \ {r} : Same(req[o], req'[o]))
      /\ \A o \in Req \ {r} : \A m \in q.takes :
            EditChanges(q) /\ req[o].pc = "save" /\ req[o].user = mvs[m].owner => req'[o].upset
      /\ mvs' = [m \in Rows |-> EditedRow(q, m)] /\ \A m \in q.takes : mvs[m].kind = "take"
      /\ Types'
  BY CommitEditShape
<1>0. Step
  BY CommitEditBasic
<1> HIDE DEF q
<1>1. ASSUME NEW u, \A m \in q.takes : EditChanges(q) => mvs[m].owner # u PROVE Balance(mvs', u) = Balance(mvs, u)
  <2>1. DOMAIN mvs' = Rows
    BY <1>s
  <2>2. ASSUME NEW m \in Rows
        PROVE  (mvs'[m].amount = mvs[m].amount /\ mvs'[m].live = mvs[m].live) \/ ~InStashOf(mvs, u, m)
    <3>1. mvs'[m] = EditedRow(q, m)
      BY <1>s
    <3>2. CASE m \notin q.takes \/ ~EditChanges(q)
      BY <3>1, <3>2 DEF EditedRow, EditChanges
    <3>3. CASE m \in q.takes /\ EditChanges(q)
      BY <1>1, <1>s, <3>3 DEF InStashOf
    <3> QED BY <3>2, <3>3
  <2> QED BY <1>0, <1>s, <2>1, <2>2, BalanceStays
<1>3. CountOK(req'[r], mvs')
  BY <1>s, IdleOK DEF CountOK
<1>4. \A o \in Req \ {r} : req[o].pc = "save" => req'[o].upset \/ Balance(mvs', req[o].user) = Balance(mvs, req[o].user)
  BY <1>s, <1>1
<1> QED BY <1>s, <1>3, <1>4, CountsKept

LEMMA CountsDelete ==
  ASSUME Basic, CountsOK, NEW t \in Txns, DeleteExpense(t)
  PROVE  \A o \in Req : CountOK(req'[o], mvs')
<1>s. /\ mvs' = [m \in Rows |-> IF mvs[m].txn = t THEN [mvs[m] EXCEPT !.live = FALSE] ELSE mvs[m]]
      /\ \A o \in Req : Same(req[o], req'[o])
      /\ \A o \in Req : \A m \in LinkedTakes(t) : req[o].pc = "save" /\ mvs[m].owner = req[o].user => req'[o].upset
      /\ Types'
  BY DeleteExpenseShape
<1>0. Step
  BY DeleteExpenseBasic
<1>1. ASSUME NEW u, \A m \in LinkedTakes(t) : mvs[m].owner # u PROVE Balance(mvs', u) = Balance(mvs, u)
  <2>1. DOMAIN mvs' = Rows
    BY <1>s
  <2>2. ASSUME NEW m \in Rows
        PROVE  (mvs'[m].amount = mvs[m].amount /\ mvs'[m].live = mvs[m].live) \/ ~InStashOf(mvs, u, m)
    <3>1. CASE mvs[m].txn # t
      BY <1>s, <3>1
    <3>2. CASE mvs[m].txn = t
      <4>1. mvs[m].kind = "take"
        BY <3>2, NextNumber DEF Basic, Types, RowsOK, RowOK
      <4> QED BY <1>1, <3>2, <4>1 DEF InStashOf, LinkedTakes
    <3> QED BY <3>1, <3>2
  <2> QED BY <1>0, <1>s, <2>1, <2>2, BalanceStays
<1> QED BY <1>s, <1>1, CountsKept

LEMMA CountsBegun ==
  ASSUME Basic, CountsOK, NEW r \in Req, NEW u \in Member, NEW s \in Saves, NEW key \in Key \cup {NoOne},
         NEW via \in Vias, Begin(r, u, s, key, via)
  PROVE  \A o \in Req : CountOK(req'[o], mvs')
<1> DEFINE amount == IF s.kind = "stash_count" THEN s.amount - StashBalance(u) ELSE s.amount
           new == [pc |-> "save", user |-> u, locked |-> via = "api", kind |-> s.kind,
                   owner |-> s.owner, amount |-> amount, counted |-> s.amount,
                   month |-> s.month, expense |-> s.expense, key |-> key, via |-> via,
                   relies |-> s.kind = "stash_count" \/ (s.kind = "take" /\ s.owner = u), upset |-> FALSE]
<1>1. mvs' = mvs /\ req' = [req EXCEPT ![r] = new]
  BY DEF Begin, BeginSave
<1>2. new.user = u /\ new.kind = s.kind /\ new.amount = amount /\ new.counted = s.amount
  OBVIOUS
<1>3. StashBalance(u) = Balance(mvs, u)
  BY Tables, StashIs DEF Basic
<1>4. CountOK(new, mvs)
  <2>1. s.kind = "stash_count" => amount = s.amount - Balance(mvs, u)
    BY <1>3
  <2> HIDE DEF new, amount
  <2> QED BY <1>2, <2>1 DEF CountOK
<1> HIDE DEF new
<1>5. req'[r] = new /\ \A o \in Req \ {r} : req'[o] = req[o]
  BY <1>1 DEF Basic, Types
<1> QED BY <1>1, <1>4, <1>5, CountsKept DEF Same

\* The steps that leave the tables of movements as they are, but for tags.
LEMMA CountsQuiet ==
  ASSUME Basic, CountsOK, Types', Step, DOMAIN mvs' = Rows,
         \A m \in Rows : mvs'[m].amount = mvs[m].amount /\ mvs'[m].live = mvs[m].live,
         \A o \in Req : Same(req[o], req'[o]) \/ req'[o].pc # "save"
  PROVE  \A o \in Req : CountOK(req'[o], mvs')
<1>1. \A u : Balance(mvs', u) = Balance(mvs, u)
  BY BalanceStays
<1> QED BY <1>1, CountsKept DEF CountOK

LEMMA CountsNext ==
  ASSUME Basic, CountsOK, CashNext
  PROVE  \A o \in Req : CountOK(req'[o], mvs')
<1>0. Step /\ Types'
  BY BasicNext DEF Basic
<1>k. ASSUME UNCHANGED mvs, \A o \in Req : Same(req[o], req'[o]) \/ req'[o].pc # "save"
      PROVE  \A o \in Req : CountOK(req'[o], mvs')
  BY <1>0, <1>k, CountsQuiet DEF Rows
<1>1. CASE Begun
  BY <1>1, CountsBegun DEF Begun
<1>2. CASE \E r \in Req, u \in Member, t \in Txns, e \in Edits : BeginEdit(r, u, t, e)
  <2> PICK r \in Req, u \in Member, t \in Txns, e \in Edits : BeginEdit(r, u, t, e)
    BY <1>2
  <2>1. UNCHANGED <<mvs, txns, raced>> /\ (\A o \in Req \ {r} : req'[o] = req[o]) /\ req'[r].pc = "edit"
    BY EditBegan
  <2> QED BY <1>k, <2>1 DEF Same
<1>3. CASE \E r \in Req : CommitSave(r)
  BY <1>3, CountsCommitSave
<1>4. CASE \E r \in Req : CommitTag(r)
  <2> PICK r \in Req : CommitTag(r)
    BY <1>4
  <2>1. Quiet /\ req'[r] = Idle /\ \A o \in Req \ {r} : Same(req[o], req'[o])
    BY QuietTag
  <2>2. \A m \in Rows : mvs'[m].live = mvs[m].live
    <3> TAKE m \in Rows
    <3>1. mvs[m] \in MoveRow
      BY DEF Basic, Types
    <3>2. mvs'[m] = mvs[m] \/ mvs'[m] = [mvs[m] EXCEPT !.key = req[r].key]
      BY DEF CommitTag, Basic, Types
    <3> QED BY <3>1, <3>2 DEF MoveRow
  <2>3. \A o \in Req : Same(req[o], req'[o]) \/ req'[o].pc # "save"
    BY <2>1, IdleOK
  <2> QED BY <1>0, <2>1, <2>2, <2>3, CountsQuiet DEF Quiet
<1>5. CASE \E r \in Req : Abandon(r)
  <2> PICK r \in Req : Abandon(r)
    BY <1>5
  <2>1. UNCHANGED <<mvs, txns, raced>> /\ req'[r] = Idle /\ \A o \in Req \ {r} : req'[o] = req[o]
    BY DEF Abandon, Basic, Types
  <2> QED BY <1>k, <2>1, IdleOK DEF Same
<1>6. CASE \E r \in Req, m \in Rows : BeginUnsave(r, m)
  <2> PICK r \in Req, m \in Rows : BeginUnsave(r, m)
    BY <1>6
  <2>1. UNCHANGED <<mvs, txns, raced>> /\ (\A o \in Req \ {r} : req'[o] = req[o]) /\ req'[r].pc = "unsave"
    BY UnsaveBegan
  <2> QED BY <1>k, <2>1 DEF Same
<1>7. CASE \E r \in Req : CommitUnsave(r)
  BY <1>7, CountsCommitUnsave
<1>8. CASE \E r \in Req : SyncEdit(r)
  <2> PICK r \in Req : SyncEdit(r)
    BY <1>8
  <2>1. /\ UNCHANGED <<mvs, txns, raced>> /\ (\A o \in Req \ {r} : req'[o] = req[o])
        /\ req'[r] = Idle \/ req'[r] = Synced(req[r])
    BY SyncEditShape
  <2>2. req'[r].pc # "save"
    BY <2>1, IdleOK DEF Synced
  <2> QED BY <1>k, <2>1, <2>2 DEF Same
<1>9. CASE \E r \in Req : CommitEdit(r)
  BY <1>9, CountsCommitEdit
<1>10. CASE \E t \in Txns : DeleteExpense(t)
  BY <1>10, CountsDelete
<1>11. CASE Age
  <2>1. mvs' = [m \in Rows |-> [mvs[m] EXCEPT !.aged = TRUE]] /\ UNCHANGED req
    BY <1>11 DEF Age
  <2>2. \A m \in Rows : mvs'[m].amount = mvs[m].amount /\ mvs'[m].live = mvs[m].live
    <3> TAKE m \in Rows
    <3>1. mvs[m] \in MoveRow
      BY DEF Basic, Types
    <3> QED BY <2>1, <3>1 DEF MoveRow
  <2> QED BY <1>0, <2>1, <2>2, CountsQuiet DEF Same
<1> QED BY <1>1, <1>2, <1>3, <1>4, <1>5, <1>6, <1>7, <1>8, <1>9, <1>10, <1>11, Steps

\* Only the commit of a save makes a movement.
LEMMA RowsSame ==
  ASSUME Basic, CashNext, ~\E r \in Req : CommitSave(r)
  PROVE  Rows' = Rows
<1>1. CASE Begun
  BY <1>1, Began DEF Begun, Rows
<1>2. CASE \E r \in Req : CommitEdit(r)
  BY <1>2, EditKeys DEF KeysStay, Rows
<1>3. CASE ~Begun /\ ~\E r \in Req : CommitSave(r) \/ CommitEdit(r)
  BY <1>3, QuietStep DEF Quiet, Rows
<1> QED BY <1>1, <1>2, <1>3

\* What a member counts is what their stash holds once the recount is saved, unless something changed the stash after the
\* balance was read (record_stash_count).
THEOREM RecountsExact == CashSpec => RecountExact
<1> DEFINE Exact == \A r \in Req, u \in Member :
          /\ req[r].pc = "save" /\ req[r].kind = "stash_count" /\ req[r].user = u
          /\ ~req[r].upset /\ Rows' # Rows /\ req'[r] = Idle
          => StashBalance(u)' = req[r].counted
<1>1. CashInit => CountsOK
  BY IdleOK DEF CashInit, CountsOK, CountOK
<1>2. Basic /\ CountsOK /\ [CashNext]_cvars => CountsOK'
  <2> SUFFICES ASSUME Basic, CountsOK, [CashNext]_cvars PROVE \A o \in Req : CountOK(req'[o], mvs')
    BY DEF CountsOK, CountOK, Balance, StashFn, InStashOf, Worth
  <2>1. CASE CashNext
    BY <2>1, CountsNext
  <2>2. CASE UNCHANGED cvars
    BY <2>2 DEF cvars, CountsOK
  <2> QED BY <2>1, <2>2
<1>3. Basic /\ Basic' /\ CountsOK /\ [CashNext]_cvars => [Exact]_cvars
  <2> SUFFICES ASSUME Basic, Basic', CountsOK, CashNext, NEW r \in Req, NEW u \in Member,
                      req[r].pc = "save", req[r].kind = "stash_count", req[r].user = u,
                      ~req[r].upset, Rows' # Rows, req'[r] = Idle
               PROVE  StashBalance(u)' = req[r].counted
    OBVIOUS
  <2>1. PICK x \in Req : CommitSave(x)
    BY RowsSame
  <2>2. x = r
    BY <2>1, CountsCommitSave
  <2>3. Balance(mvs', u) = req[r].counted
    BY <2>1, <2>2, CountsCommitSave
  <2>4. Table(mvs')
    BY DEF Basic, Types, Table, Rows
  <2> QED BY <2>3, <2>4, StashIsNext
<1>4. (CashSpec => [][Exact]_cvars) => (CashSpec => RecountExact)
  BY DEF RecountExact
<1> QED BY <1>1, <1>2, <1>3, <1>4, TablesAndRequests, PTL DEF CashSpec

(***************************************************************************)
(* The sheets of one phone (CashForms).                                    *)
(***************************************************************************)
\* A sheet that saves is for a kind of movement.
ModeOK(sheet) == sheet # None /\ sheet.kind = "cash" => sheet.mode \in Modes
\* The records have their fields, numbers are given out once, a sheet is as its form makes it.
Shapes ==
    /\ server = [moves |-> server.moves, taken |-> server.taken, logged |-> server.logged]
    /\ phone = [copy |-> phone.copy, asked |-> phone.asked, sheet |-> phone.sheet, queue |-> phone.queue,
                online |-> phone.online, next |-> phone.next]
    /\ phone.next \in Nat /\ phone.sheet \in Sheets \cup {None} /\ ModeOK(phone.sheet)
    /\ \A m \in server.moves :
          /\ m = [id |-> m.id, body |-> m.body, correction |-> m.correction, live |-> m.live, press |-> m.press]
          /\ m.id \in Nat
    /\ \A r \in reqs :
          r = [sheet |-> r.sheet, kind |-> r.kind, id |-> r.id, body |-> r.body, stage |-> r.stage, press |-> r.press,
               shown |-> r.shown]

\* The stamps there are: of movements, of saves under way, and of the sheet's last press.
StampOf(x) == [id |-> x.id, body |-> x.body]
LastOf(sheet) == IF sheet = None THEN {} ELSE {sheet.last} \ {None}
Used(moves, rs, sheet) ==
    {StampOf(m) : m \in moves} \cup {StampOf(r) : r \in {q \in rs : q.kind = "save"}} \cup LastOf(sheet)
\* A client_id stands for one body, and was given out.
StampsOK(S, next) ==
    /\ S \subseteq Stamps /\ \A s \in S : s.id < next
    /\ \A s, t \in S : s.id = t.id => s = t

\* The press that is not accepted yet is the one that the sheet's last stamp was made for.
PressOK(sheet, press) ==
    IF sheet = None THEN press = None
    ELSE IF sheet.last = None THEN press = None
    ELSE press \in Presses /\ press.body = sheet.last.body /\ press.n = sheet.last.id
\* A stamp and a press go together, a client_id made one movement, and what was answered is stored.
MovesOK(moves, rs) ==
    /\ \A m \in moves : m.press = m.id
    /\ \A m, o \in moves : m.id = o.id => m = o
    /\ \A r \in rs : r.kind = "save" =>
          /\ r.press = r.id
          /\ r.stage \in {"ok", "settling"} => \E m \in moves : m.id = r.id /\ m.body = r.body

FormsInv ==
    /\ Shapes /\ StampsOK(Used(server.moves, reqs, phone.sheet), phone.next)
    /\ PressOK(phone.sheet, pressed) /\ MovesOK(server.moves, reqs)

\* Fewer stamps, or the same, and numbers only grow.
LEMMA StampsStay ==
  ASSUME NEW S, NEW T, NEW n \in Nat, NEW k \in Nat, T \subseteq S, n <= k, StampsOK(S, n)
  PROVE  StampsOK(T, k)
<1>1. \A s \in T : s \in Stamps /\ s.id \in Nat /\ s.id < n
  BY DEF StampsOK, Stamps
<1>2. \A s \in T : s.id < k
  BY <1>1
<1> QED BY <1>1, <1>2 DEF StampsOK

LEMMA FormsInitInv == FormsInit => FormsInv
<1> SUFFICES ASSUME FormsInit PROVE FormsInv
  OBVIOUS
<1>1. PICK amount \in FormAmounts :
        server = [moves |-> {[id |-> 0, body |-> [kind |-> kind, amount |-> amount], correction |-> 0, live |-> TRUE, press |-> 0]
                               : kind \in {"stash_in"}},
                  taken |-> 0, logged |-> {}]
  BY DEF FormsInit
<1> DEFINE first == [id |-> 0, body |-> [kind |-> "stash_in", amount |-> amount], correction |-> 0, live |-> TRUE, press |-> 0]
<1>2. server.moves = {first} /\ server = [moves |-> server.moves, taken |-> server.taken, logged |-> server.logged]
  BY <1>1
<1>3. /\ phone = [copy |-> None, asked |-> TRUE, sheet |-> None, queue |-> <<>>, online |-> TRUE, next |-> 1]
      /\ reqs = {} /\ pressed = None
  BY DEF FormsInit
<1>4. Shapes
  BY <1>2, <1>3 DEF Shapes, ModeOK
<1>5. Used(server.moves, reqs, phone.sheet) = {StampOf(first)}
  BY <1>2, <1>3 DEF Used, LastOf
<1>6. StampOf(first) \in Stamps /\ StampOf(first).id = 0
  BY DEF StampOf, Stamps, Bodies, Modes
<1>7. StampsOK(Used(server.moves, reqs, phone.sheet), phone.next)
  BY <1>3, <1>5, <1>6 DEF StampsOK
<1>8. PressOK(phone.sheet, pressed) /\ MovesOK(server.moves, reqs)
  BY <1>2, <1>3 DEF PressOK, MovesOK
<1> QED BY <1>4, <1>7, <1>8 DEF FormsInv

\* A step that leaves the server and the requests alone, and of the sheet what it last after.
LEMMA SheetStep ==
  ASSUME FormsInv, UNCHANGED <<reqs>>, server'.moves = server.moves,
         server' = [moves |-> server'.moves, taken |-> server'.taken, logged |-> server'.logged],
         phone' = [copy |-> phone'.copy, asked |-> phone'.asked, sheet |-> phone'.sheet, queue |-> phone'.queue,
                   online |-> phone'.online, next |-> phone'.next],
         phone'.next \in Nat, phone.next <= phone'.next, phone'.sheet \in Sheets \cup {None}, ModeOK(phone'.sheet),
         LastOf(phone'.sheet) \subseteq LastOf(phone.sheet), PressOK(phone'.sheet, pressed')
  PROVE  FormsInv'
<1>1. Shapes'
  BY DEF FormsInv, Shapes
<1>2. Used(server'.moves, reqs', phone'.sheet) \subseteq Used(server.moves, reqs, phone.sheet)
  BY DEF Used
<1>3. StampsOK(Used(server'.moves, reqs', phone'.sheet), phone'.next)
  BY <1>2, StampsStay DEF FormsInv, Shapes
<1>4. MovesOK(server'.moves, reqs')
  BY DEF FormsInv
<1> QED BY <1>1, <1>3, <1>4 DEF FormsInv

\* Reads, spells offline and what is typed in a sheet.
LEMMA QuietSteps ==
  ASSUME FormsInv,
         \/ Read \/ FetchFails \/ GoOffline \/ GoOnline
         \/ \E mode \in {"take", "put_back", "still_have"} : Switch(mode)
         \/ \E amount \in FormAmounts : Type(amount) \/ LogOffline(amount) \/ PartnerTakes(amount)
         \/ \E heard \in BOOLEAN : Replay(heard)
  PROVE  FormsInv'
<1> DEFINE Whole == server' = [moves |-> server'.moves, taken |-> server'.taken, logged |-> server'.logged]
           Phone == phone' = [copy |-> phone'.copy, asked |-> phone'.asked, sheet |-> phone'.sheet, queue |-> phone'.queue,
                              online |-> phone'.online, next |-> phone'.next]
<1>0. Shapes /\ PressOK(phone.sheet, pressed)
  BY DEF FormsInv
<1>1. CASE Read \/ FetchFails \/ GoOffline \/ GoOnline \/ \E heard \in BOOLEAN : Replay(heard)
  <2>1. UNCHANGED <<reqs, pressed>> /\ Whole /\ server'.moves = server.moves
    BY <1>0, <1>1 DEF Read, FetchFails, GoOffline, GoOnline, Replay, CashMoved, Shapes
  <2>2. Phone /\ phone'.next = phone.next /\ phone'.sheet = phone.sheet
    BY <1>0, <1>1 DEF Read, FetchFails, GoOffline, GoOnline, Replay, CashMoved, Shapes
  <2> QED BY <1>0, <2>1, <2>2, SheetStep DEF Shapes
<1>2. CASE \E amount \in FormAmounts : LogOffline(amount) \/ PartnerTakes(amount)
  <2>1. UNCHANGED <<reqs, pressed>> /\ Whole /\ server'.moves = server.moves
    BY <1>0, <1>2 DEF LogOffline, PartnerTakes, Shapes
  <2>2. Phone /\ phone'.next \in {phone.next, phone.next + 1} /\ phone'.sheet = phone.sheet
    BY <1>0, <1>2 DEF LogOffline, PartnerTakes, Shapes
  <2> QED BY <1>0, <2>1, <2>2, SheetStep DEF Shapes
<1>3. CASE \/ \E mode \in {"take", "put_back", "still_have"} : Switch(mode)
           \/ \E amount \in FormAmounts : Type(amount)
  <2>1. UNCHANGED <<reqs, pressed, server>> /\ Whole
    BY <1>0, <1>3 DEF Switch, Type, CashMoved, Shapes
  <2>2. Phone /\ phone'.next = phone.next /\ phone.sheet # None /\ phone.sheet \in Sheets
    BY <1>0, <1>3 DEF Switch, Type, CashMoved, Editing, Shapes
  <2>3. phone'.sheet \in Sheets /\ phone'.sheet.last = phone.sheet.last /\ ModeOK(phone'.sheet)
    <3> DEFINE s == phone.sheet
    <3>1. \/ \E mode \in Modes : phone'.sheet = [s EXCEPT !.mode = mode, !.problem = FALSE]
          \/ \E amount \in FormAmounts : phone'.sheet = [s EXCEPT !.amount = amount, !.problem = FALSE]
      BY <1>0, <1>3 DEF Switch, Type, CashMoved, Shapes, Modes
    <3>2. s \in Sheets /\ ModeOK(s) /\ s # None
      BY <1>0, <2>2 DEF Shapes
    <3> HIDE DEF s
    <3>3. phone'.sheet \in Sheets /\ phone'.sheet.last = s.last /\ ModeOK(phone'.sheet)
      BY <3>1, <3>2 DEF Sheets, ModeOK
    <3> QED BY <3>3 DEF s
  <2>4. phone'.sheet # None
    BY <2>3, CashFormsAssumption
  <2>5. LastOf(phone'.sheet) \subseteq LastOf(phone.sheet) /\ PressOK(phone'.sheet, pressed')
    BY <1>0, <2>1, <2>2, <2>3, <2>4 DEF LastOf, PressOK
  <2> QED BY <1>0, <2>1, <2>2, <2>3, <2>5, SheetStep DEF Shapes
<1> QED BY <1>1, <1>2, <1>3

\* Sheets open with nothing after, and close.
LEMMA OpenAndClose ==
  ASSUME FormsInv, OpenCash \/ OpenCount \/ Pick \/ Close
  PROVE  FormsInv'
<1>0. Shapes /\ PressOK(phone.sheet, pressed)
  BY DEF FormsInv
<1>1. CASE Close
  <2>1. /\ UNCHANGED <<reqs, server>> /\ pressed' = None /\ phone'.sheet = None /\ phone'.next = phone.next
        /\ phone' = [copy |-> phone'.copy, asked |-> phone'.asked, sheet |-> phone'.sheet, queue |-> phone'.queue,
                     online |-> phone'.online, next |-> phone'.next]
    BY <1>0, <1>1 DEF Close, CashMoved, Shapes
  <2> QED BY <1>0, <2>1, SheetStep DEF Shapes, LastOf, PressOK, ModeOK
<1>2. CASE OpenCash \/ OpenCount \/ Pick
  <2>1. Deleting \in BOOLEAN
    BY DEF Deleting
  <2>2. /\ \A mode \in Modes : LET f == Sheet("cash", mode, None) IN f \in Sheets /\ f.last = None /\ ModeOK(f)
        /\ \A k \in Nat : LET f == [Sheet("delete", "delete", k) EXCEPT !.busy = Deleting]
                         IN  f \in Sheets /\ f.last = None /\ ModeOK(f)
    BY <1>0, <2>1 DEF Sheet, Sheets, Shapes, ModeOK
  <2>3. PICK sheet : OpenSheet(sheet) /\ sheet \in Sheets /\ sheet.last = None /\ ModeOK(sheet)
    <3>1. CASE OpenCash \/ OpenCount
      <4>1. \E mode \in Modes : OpenSheet(Sheet("cash", mode, None))
        BY <3>1 DEF OpenCash, OpenCount, Modes
      <4> QED BY <2>2, <4>1
    <3>2. CASE Pick
      <4>1. PICK m \in Live : OpenSheet([Sheet("delete", "delete", m.id) EXCEPT !.busy = Deleting])
        BY <3>2 DEF Pick
      <4>2. m.id \in Nat
        BY <1>0 DEF Live, Shapes
      <4> QED BY <2>2, <4>1, <4>2
    <3> QED BY <1>2, <3>1, <3>2
  <2>4. /\ UNCHANGED <<reqs, server, pressed>> /\ phone.sheet = None /\ phone'.sheet = sheet /\ phone'.next = phone.next + 1
        /\ phone' = [copy |-> phone'.copy, asked |-> phone'.asked, sheet |-> phone'.sheet, queue |-> phone'.queue,
                     online |-> phone'.online, next |-> phone'.next]
    BY <1>0, <2>3 DEF OpenSheet, Shapes
  <2>5. pressed = None
    BY <1>0, <2>4 DEF PressOK
  <2>6. LastOf(phone'.sheet) = {} /\ PressOK(phone'.sheet, pressed')
    BY <2>3, <2>4, <2>5 DEF LastOf, PressOK
  <2> QED BY <1>0, <2>3, <2>4, <2>6, SheetStep DEF Shapes
<1> QED BY <1>1, <1>2

\* A press keeps the sheet's stamp while the body is the same, and then it is the same press; else both are fresh.
LEMMA SaveStep == FormsInv /\ Save => FormsInv'
<1> SUFFICES ASSUME FormsInv, Save PROVE FormsInv'
  OBVIOUS
<1> DEFINE s == phone.sheet
           body == BodyOf(s)
           id == Stamp(s)
           n == phone.next
           used == Used(server.moves, reqs, s)
           new == [sheet |-> s.n, kind |-> "save", id |-> id, body |-> body, stage |-> "sent", press |-> Pressed(s),
                   shown |-> phone.copy.stash]
<1>0. Shapes /\ PressOK(s, pressed) /\ StampsOK(used, n) /\ MovesOK(server.moves, reqs) /\ n \in Nat
  BY DEF FormsInv, Shapes
<1>1. s \in Sheets /\ s # None /\ s.kind = "cash" /\ s.amount # None
  BY <1>0 DEF Save, Editing, Ready, Shapes
<1>2. body \in Bodies
  <2>1. s.mode \in Modes
    BY <1>0, <1>1 DEF Shapes, ModeOK
  <2> QED BY <1>1, <2>1 DEF BodyOf, Bodies, Sheets
<1>3. /\ phone'.sheet = [s EXCEPT !.busy = TRUE, !.problem = FALSE, !.last = [id |-> id, body |-> body]]
      /\ phone'.next = n + 1
      /\ phone' = [copy |-> phone'.copy, asked |-> phone'.asked, sheet |-> phone'.sheet, queue |-> phone'.queue,
                   online |-> phone'.online, next |-> phone'.next]
      /\ reqs' = reqs \cup {new} /\ server' = server /\ pressed' = [body |-> body, n |-> Pressed(s)]
  BY <1>0 DEF Save, Shapes
\* The stamp and the press are the same number.
<1>4. /\ id \in Nat /\ id < n + 1 /\ Pressed(s) = id
      /\ \/ [id |-> id, body |-> body] \in LastOf(s)
         \/ id = n
  <2>1. CASE s.last = None
    BY <1>0, <1>1, <2>1 DEF PressOK, Stamp, Pressed
  <2>2. CASE s.last # None
    <3>1. s.last \in Stamps /\ s.last \in used
      BY <1>1, <2>2 DEF Sheets, Used, LastOf
    <3>2. s.last.id \in Nat /\ s.last.id < n /\ s.last = [id |-> s.last.id, body |-> s.last.body]
      BY <1>0, <3>1 DEF StampsOK, Stamps
    <3>3. pressed \in Presses /\ pressed # None /\ pressed.body = s.last.body /\ pressed.n = s.last.id
      BY <1>0, <1>1, <2>2, CashFormsAssumption DEF PressOK
    <3> QED BY <1>0, <1>1, <2>2, <3>2, <3>3 DEF Stamp, Pressed, LastOf
  <2> QED BY <2>1, <2>2
<1>5. [id |-> id, body |-> body] \in Stamps
  BY <1>2, <1>4 DEF Stamps
<1> HIDE DEF s, body, id, n, used
<1>6. phone'.sheet \in Sheets /\ phone'.sheet.last = [id |-> id, body |-> body] /\ ModeOK(phone'.sheet)
  <2>1. s.mode \in Modes
    BY <1>0, <1>1 DEF Shapes, ModeOK, s
  <2> QED BY <1>1, <1>3, <1>5, <2>1 DEF Sheets, ModeOK
<1>7. phone'.sheet # None /\ phone'.sheet.last # None
  BY <1>5, <1>6, CashFormsAssumption
<1>8. Shapes'
  BY <1>0, <1>3, <1>6 DEF Shapes
<1>9. Used(server'.moves, reqs', phone'.sheet) \subseteq used \cup {[id |-> id, body |-> body]}
  <2>1. LastOf(phone'.sheet) = {[id |-> id, body |-> body]}
    BY <1>6, <1>7 DEF LastOf
  <2>2. StampOf(new) = [id |-> id, body |-> body]
    BY DEF StampOf
  <2> QED BY <1>3, <2>1, <2>2 DEF Used, used
<1>10. StampsOK(used \cup {[id |-> id, body |-> body]}, n + 1)
  <2>1. \A t \in used : t \in Stamps /\ t.id \in Nat /\ t.id < n
    BY <1>0 DEF StampsOK, Stamps
  <2>2. [id |-> id, body |-> body] \in used \/ id = n
    BY <1>4 DEF used, Used
  <2>3. \A t, o \in used : t.id = o.id => t = o
    BY <1>0 DEF StampsOK
  <2> QED BY <1>0, <1>4, <1>5, <2>1, <2>2, <2>3 DEF StampsOK
<1>11. StampsOK(Used(server'.moves, reqs', phone'.sheet), phone'.next)
  <2>1. n + 1 \in Nat /\ n + 1 <= phone'.next /\ phone'.next \in Nat
    BY <1>0, <1>3
  <2> QED BY <1>9, <1>10, <2>1, StampsStay
<1>12. PressOK(phone'.sheet, pressed')
  <2>1. pressed' \in Presses
    BY <1>2, <1>3, <1>4 DEF Presses
  <2> QED BY <1>3, <1>4, <1>6, <1>7, <2>1 DEF PressOK
<1>13. MovesOK(server'.moves, reqs')
  BY <1>0, <1>3, <1>4 DEF MovesOK
<1> QED BY <1>8, <1>11, <1>12, <1>13 DEF FormsInv

\* Asking for a deletion.
LEMMA ConfirmStep == FormsInv /\ Confirm => FormsInv'
<1> SUFFICES ASSUME FormsInv, Confirm PROVE FormsInv'
  OBVIOUS
<1> DEFINE s == phone.sheet
           new == [sheet |-> s.n, kind |-> "delete", id |-> s.row, body |-> None, stage |-> "sent", press |-> s.n,
                   shown |-> phone.copy.stash]
<1>0. Shapes /\ PressOK(s, pressed) /\ MovesOK(server.moves, reqs) /\ s \in Sheets /\ s # None
  BY DEF FormsInv, Shapes, Confirm
<1>1. /\ phone'.sheet = [s EXCEPT !.busy = TRUE, !.problem = FALSE] /\ phone'.next = phone.next
      /\ phone' = [copy |-> phone'.copy, asked |-> phone'.asked, sheet |-> phone'.sheet, queue |-> phone'.queue,
                   online |-> phone'.online, next |-> phone'.next]
      /\ reqs' = reqs \cup {new} /\ server' = server /\ pressed' = pressed
  BY <1>0 DEF Confirm, Shapes
<1>2. phone'.sheet \in Sheets /\ phone'.sheet.last = s.last /\ phone'.sheet # None /\ ModeOK(phone'.sheet)
  <2>0. s \in Sheets /\ ModeOK(s) /\ s # None
    BY <1>0 DEF Shapes
  <2> HIDE DEF s
  <2>1. phone'.sheet \in Sheets /\ phone'.sheet.last = s.last /\ ModeOK(phone'.sheet)
    BY <2>0, <1>1 DEF Sheets, ModeOK
  <2> QED BY <2>1, CashFormsAssumption
<1>3. Shapes'
  BY <1>0, <1>1, <1>2 DEF Shapes
<1>4. {r \in reqs' : r.kind = "save"} = {r \in reqs : r.kind = "save"}
  BY <1>1
<1>5. LastOf(phone'.sheet) = LastOf(s)
  BY <1>0, <1>2 DEF LastOf
<1>6. StampsOK(Used(server'.moves, reqs', phone'.sheet), phone'.next)
  BY <1>1, <1>4, <1>5 DEF FormsInv, Used
<1>7. PressOK(phone'.sheet, pressed') /\ MovesOK(server'.moves, reqs')
  BY <1>0, <1>1, <1>2 DEF PressOK, MovesOK
<1> QED BY <1>3, <1>6, <1>7 DEF FormsInv

\* What a write becomes, and the answer to it.
LEMMA AnswerStep ==
  ASSUME FormsInv, NEW r \in reqs, Answered(r) \/ Done(r) \/ Refused(r) \/ Lose(r)
  PROVE  FormsInv'
<1>0. Shapes /\ PressOK(phone.sheet, pressed) /\ MovesOK(server.moves, reqs)
      /\ StampsOK(Used(server.moves, reqs, phone.sheet), phone.next)
  BY DEF FormsInv
<1> DEFINE next == [r EXCEPT !.stage = "settling"]
<1>1. /\ next.sheet = r.sheet /\ next.kind = r.kind /\ next.id = r.id /\ next.body = r.body /\ next.press = r.press
      /\ next.shown = r.shown /\ next.stage = "settling"
      /\ next = [sheet |-> next.sheet, kind |-> next.kind, id |-> next.id, body |-> next.body, stage |-> next.stage,
                 press |-> next.press, shown |-> next.shown]
  BY <1>0 DEF Shapes
<1>2. server' = server /\ (reqs' = reqs \ {r} \/ (r.stage = "ok" /\ reqs' = (reqs \ {r}) \cup {next}))
  BY DEF Answered, Done, Refused, Lose, Becomes, At
<1> HIDE DEF next
<1>3. /\ phone' = [copy |-> phone'.copy, asked |-> phone'.asked, sheet |-> phone'.sheet, queue |-> phone'.queue,
                   online |-> phone'.online, next |-> phone'.next]
      /\ phone'.next = phone.next
      /\ \/ phone'.sheet = phone.sheet /\ pressed' = pressed
         \/ phone'.sheet = None /\ pressed' = None
         \/ /\ phone.sheet # None /\ pressed' = pressed
            /\ \/ phone'.sheet = [phone.sheet EXCEPT !.busy = FALSE, !.problem = TRUE]
               \/ phone'.sheet = [phone.sheet EXCEPT !.busy = FALSE]
  <2>1. CASE Answered(r)
    BY <1>0, <2>1 DEF Answered, Shapes
  <2>2. CASE Done(r)
    BY <1>0, <2>2 DEF Done, Shapes
  <2>3. CASE Refused(r)
    BY <1>0, <2>3 DEF Refused, Hears, IsOf, Shapes
  <2>4. CASE Lose(r)
    BY <1>0, <2>4 DEF Lose, Hears, IsOf, Shapes
  <2> QED BY <2>1, <2>2, <2>3, <2>4
<1>4. /\ phone'.sheet \in Sheets \cup {None} /\ ModeOK(phone'.sheet) /\ LastOf(phone'.sheet) \subseteq LastOf(phone.sheet)
      /\ PressOK(phone'.sheet, pressed')
  <2>1. CASE phone'.sheet = phone.sheet /\ pressed' = pressed
    BY <1>0, <2>1 DEF Shapes
  <2>2. CASE phone'.sheet = None /\ pressed' = None
    BY <2>2 DEF ModeOK, LastOf, PressOK
  <2>3. CASE /\ phone.sheet # None /\ pressed' = pressed
             /\ \/ phone'.sheet = [phone.sheet EXCEPT !.busy = FALSE, !.problem = TRUE]
                \/ phone'.sheet = [phone.sheet EXCEPT !.busy = FALSE]
    <3> DEFINE s == phone.sheet
    <3>1. s \in Sheets /\ s # None /\ ModeOK(s) /\ PressOK(s, pressed)
      BY <1>0, <2>3 DEF Shapes
    <3>2. phone'.sheet \in {[s EXCEPT !.busy = FALSE, !.problem = TRUE], [s EXCEPT !.busy = FALSE]}
      BY <2>3
    <3> HIDE DEF s
    <3>3. phone'.sheet \in Sheets /\ ModeOK(phone'.sheet) /\ phone'.sheet.last = s.last
      BY <3>1, <3>2 DEF Sheets, ModeOK
    <3>4. phone'.sheet # None
      BY <3>3, CashFormsAssumption
    <3>5. LastOf(phone'.sheet) \subseteq LastOf(s) /\ PressOK(phone'.sheet, pressed)
      BY <3>1, <3>3, <3>4 DEF LastOf, PressOK
    <3> QED BY <2>3, <3>3, <3>5 DEF s
  <2> QED BY <1>3, <2>1, <2>2, <2>3
<1>5. Shapes'
  BY <1>0, <1>1, <1>2, <1>3, <1>4 DEF Shapes
<1>6. Used(server'.moves, reqs', phone'.sheet) \subseteq Used(server.moves, reqs, phone.sheet)
  <2>1. next.kind = r.kind /\ StampOf(next) = StampOf(r)
    BY <1>1 DEF StampOf
  <2> QED BY <1>2, <1>4, <2>1 DEF Used
<1>7. StampsOK(Used(server'.moves, reqs', phone'.sheet), phone'.next)
  BY <1>0, <1>3, <1>6, StampsStay DEF Shapes
<1>8. MovesOK(server'.moves, reqs')
  BY <1>0, <1>1, <1>2 DEF MovesOK
<1> QED BY <1>4, <1>5, <1>7, <1>8 DEF FormsInv

\* The server knows a client_id by the movement that it made, and the client_id stands for one body.
LEMMA ServeStep ==
  ASSUME FormsInv, NEW r \in reqs, Serve(r)
  PROVE  FormsInv'
<1> DEFINE moves == server.moves
           used == Used(moves, reqs, phone.sheet)
           after(stage) == [r EXCEPT !.stage = stage]
           gone(m) == IF m.id = r.id THEN [m EXCEPT !.live = FALSE] ELSE m
<1>0. Shapes /\ PressOK(phone.sheet, pressed) /\ MovesOK(moves, reqs) /\ StampsOK(used, phone.next)
  BY DEF FormsInv
<1>1. \A stage \in {"ok", "refused"} : LET next == after(stage) IN
        /\ next.sheet = r.sheet /\ next.kind = r.kind /\ next.id = r.id /\ next.body = r.body /\ next.press = r.press
        /\ next.shown = r.shown /\ next.stage = stage
        /\ next = [sheet |-> next.sheet, kind |-> next.kind, id |-> next.id, body |-> next.body, stage |-> next.stage,
                   press |-> next.press, shown |-> next.shown]
  BY <1>0 DEF Shapes
<1>2. \A m \in moves : LET g == gone(m) IN
        /\ g.id = m.id /\ g.body = m.body /\ g.press = m.press
        /\ g = [id |-> g.id, body |-> g.body, correction |-> g.correction, live |-> g.live, press |-> g.press]
  <2> TAKE m \in moves
  <2>1. m = [id |-> m.id, body |-> m.body, correction |-> m.correction, live |-> m.live, press |-> m.press]
    BY <1>0 DEF Shapes
  <2>2. CASE m.id = r.id
    BY <2>1, <2>2
  <2>3. CASE m.id # r.id
    BY <2>1, <2>3
  <2> QED BY <2>2, <2>3
<1>3. /\ UNCHANGED <<phone, pressed>>
      /\ \E stage \in {"ok", "refused"} :
            /\ reqs' = (reqs \ {r}) \cup {after(stage)}
            /\ \/ /\ server' = server /\ (stage = "ok" /\ r.kind = "save" => \E m \in moves : m.id = r.id)
               \/ /\ r.kind = "save" /\ (\A m \in moves : m.id # r.id)
                  /\ server' = [server EXCEPT !.moves = moves \cup {Movement(r)}]
               \/ /\ r.kind = "delete"
                  /\ server' = [server EXCEPT !.moves = {gone(m) : m \in moves}]
  BY DEF Serve, Becomes, At, Known
<1> PICK stage \in {"ok", "refused"} :
            /\ reqs' = (reqs \ {r}) \cup {after(stage)}
            /\ \/ /\ server' = server /\ (stage = "ok" /\ r.kind = "save" => \E m \in moves : m.id = r.id)
               \/ /\ r.kind = "save" /\ (\A m \in moves : m.id # r.id)
                  /\ server' = [server EXCEPT !.moves = moves \cup {Movement(r)}]
               \/ /\ r.kind = "delete"
                  /\ server' = [server EXCEPT !.moves = {gone(m) : m \in moves}]
  BY <1>3
<1> DEFINE mark == after(stage)
<1>4. /\ mark.kind = r.kind /\ mark.id = r.id /\ mark.body = r.body /\ mark.press = r.press /\ mark.stage = stage
      /\ mark = [sheet |-> mark.sheet, kind |-> mark.kind, id |-> mark.id, body |-> mark.body, stage |-> mark.stage,
                 press |-> mark.press, shown |-> mark.shown]
      /\ reqs' = (reqs \ {r}) \cup {mark} /\ StampOf(mark) = StampOf(r)
  BY <1>1 DEF StampOf
<1>5. server' = [moves |-> server'.moves, taken |-> server'.taken, logged |-> server'.logged]
  BY <1>0 DEF Shapes
<1>6. r.kind = "save" => r.press = r.id /\ StampOf(r) \in used /\ r.id \in Nat
  BY <1>0 DEF MovesOK, Used, StampOf, StampsOK, Stamps
<1>20. \A T : T \subseteq used => StampsOK(T, phone.next)
  <2>1. phone.next \in Nat /\ phone.next <= phone.next
    BY <1>0 DEF Shapes
  <2> HIDE DEF used
  <2> QED BY <1>0, <2>1, StampsStay
<1> HIDE DEF mark, gone, after
<1>7. CASE server' = server /\ (stage = "ok" /\ r.kind = "save" => \E m \in moves : m.id = r.id)
  <2>1. Shapes'
    BY <1>0, <1>3, <1>4, <1>7 DEF Shapes
  <2>2. Used(server'.moves, reqs', phone'.sheet) \subseteq used
    BY <1>3, <1>4, <1>7 DEF Used
  <2>3. StampsOK(Used(server'.moves, reqs', phone'.sheet), phone'.next)
    BY <1>3, <1>20, <2>2
  <2>4. ASSUME r.kind = "save", stage = "ok" PROVE \E m \in moves : m.id = r.id /\ m.body = r.body
    <3>1. PICK m \in moves : m.id = r.id
      BY <1>7, <2>4
    <3>2. StampOf(m) \in used /\ StampOf(r) \in used
      BY <1>6, <2>4 DEF Used
    <3>3. StampOf(m) = StampOf(r)
      BY <1>0, <3>1, <3>2 DEF StampsOK, StampOf
    <3> QED BY <3>1, <3>3 DEF StampOf
  <2>5. MovesOK(server'.moves, reqs')
    BY <1>0, <1>4, <1>6, <1>7, <2>4 DEF MovesOK
  <2> QED BY <1>0, <1>3, <2>1, <2>3, <2>5 DEF FormsInv
<1>8. CASE /\ r.kind = "save" /\ (\A m \in moves : m.id # r.id)
           /\ server' = [server EXCEPT !.moves = moves \cup {Movement(r)}]
  <2> DEFINE new == Movement(r)
  <2>1. /\ new.id = r.id /\ new.body = r.body /\ new.press = r.press /\ StampOf(new) = StampOf(r)
        /\ new = [id |-> new.id, body |-> new.body, correction |-> new.correction, live |-> new.live, press |-> new.press]
    BY DEF Movement, StampOf
  <2>2. server'.moves = moves \cup {new}
    BY <1>0, <1>8 DEF Shapes
  <2> HIDE DEF new
  <2>3. Shapes'
    BY <1>0, <1>3, <1>4, <1>5, <1>6, <1>8, <2>1, <2>2 DEF Shapes
  <2>4. Used(server'.moves, reqs', phone'.sheet) \subseteq used
    BY <1>3, <1>4, <1>6, <1>8, <2>1, <2>2 DEF Used
  <2>5. StampsOK(Used(server'.moves, reqs', phone'.sheet), phone'.next)
    BY <1>3, <1>20, <2>4
  <2>6. MovesOK(server'.moves, reqs')
    BY <1>0, <1>4, <1>6, <1>8, <2>1, <2>2 DEF MovesOK
  <2> QED BY <1>0, <1>3, <2>3, <2>5, <2>6 DEF FormsInv
<1>9. CASE r.kind = "delete" /\ server' = [server EXCEPT !.moves = {gone(m) : m \in moves}]
  <2>1. server'.moves = {gone(m) : m \in moves}
    BY <1>0, <1>9 DEF Shapes
  <2>2. \A m \in moves : LET g == gone(m) IN
        /\ g.id = m.id /\ g.body = m.body /\ g.press = m.press /\ StampOf(g) = StampOf(m)
        /\ g = [id |-> g.id, body |-> g.body, correction |-> g.correction, live |-> g.live, press |-> g.press]
    BY <1>2 DEF gone, StampOf
  <2>3. Shapes'
    BY <1>0, <1>3, <1>4, <1>5, <2>1, <2>2 DEF Shapes
  <2>4. Used(server'.moves, reqs', phone'.sheet) \subseteq used
    BY <1>3, <1>4, <1>9, <2>1, <2>2 DEF Used
  <2>5. StampsOK(Used(server'.moves, reqs', phone'.sheet), phone'.next)
    BY <1>3, <1>20, <2>4
  <2>6. MovesOK(server'.moves, reqs')
    BY <1>0, <1>4, <1>9, <2>1, <2>2 DEF MovesOK
  <2> QED BY <1>0, <1>3, <2>3, <2>5, <2>6 DEF FormsInv
<1> QED BY <1>7, <1>8, <1>9

LEMMA FormsStep == FormsInv /\ [FormsNext]_cashVars => FormsInv'
<1> SUFFICES ASSUME FormsInv, [FormsNext]_cashVars PROVE FormsInv'
  OBVIOUS
<1>1. CASE UNCHANGED cashVars
  BY <1>1 DEF cashVars, FormsInv, Shapes
<1>2. CASE FormsNext
  BY <1>2, QuietSteps, OpenAndClose, SaveStep, ConfirmStep, ServeStep, AnswerStep DEF FormsNext
<1> QED BY <1>1, <1>2

\* However often Save is pressed on a sheet whose fields stay as they are, through answers that get lost, refusals and spells
\* offline, the movement is made once (useCashWrite keeps the client_id while the body is the same).
THEOREM RetriesAreOnce == FormsSpec => []RetryIsOnce
<1>1. FormsInv => RetryIsOnce
  BY DEF FormsInv, MovesOK, RetryIsOnce
<1> QED BY <1>1, FormsInitInv, FormsStep, PTL DEF FormsSpec

\* A save that is answered "ok" was stored as it was after: a client_id the server knows is never answered for another body.
THEOREM AnsweredIsStored == FormsSpec => []OkIsStored
<1>1. FormsInv => OkIsStored
  BY DEF FormsInv, MovesOK, OkIsStored
<1> QED BY <1>1, FormsInitInv, FormsStep, PTL DEF FormsSpec
=============================================================================
