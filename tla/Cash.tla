--------------------------------- MODULE Cash ---------------------------------
(* Cash: each member's private stash, the wallet, and the takes that go with  *)
(* a cash expense.                                                            *)
(*                                                                            *)
(* A save reads (the replay lookup, the stash balance) and then writes and    *)
(* commits, so two saves can read one balance.  The JSON API holds a          *)
(* per-member advisory lock from the read to the commit; the old page, a cash *)
(* expense saved through /transactions, an edit and a deletion do not.        *)
(* Amounts are whole numbers and a date is its month.                         *)
EXTENDS Integers, FiniteSets, FiniteSetsExt

CONSTANTS
    Member, NoOne,      \* NoOne: the bank, no expense, no key
    Req,                \* HTTP requests
    Key,                \* client_id values, one per save of a client
    Saves,              \* what a client may save, see MCCash
    Edits,              \* the forms an expense edit may send
    Amounts,            \* amounts in the forms
    Months,             \* 1 .. n
    MaxRows, MaxExpenses, MaxRequests

ASSUME CashAssumption ==
    /\ NoOne \notin Member /\ NoOne \notin Key
    /\ Amounts \subseteq Nat
    /\ IsFiniteSet(Months) /\ Months = 1 .. Cardinality(Months)
    /\ MaxRows \in Nat /\ MaxExpenses \in Nat /\ MaxRequests \in Nat

Kinds == {"stash_in", "take", "put_back", "still_have", "out", "stash_count"}
Vias == {"api", "page", "expense"}

\* Only a take names a stash or what it was spent on.
ASSUME FormsAssumption ==
    /\ Saves \subseteq [kind : Kinds, owner : Member \cup {NoOne}, amount : Amounts, month : Months,
                        expense : BOOLEAN]
    /\ \A s \in Saves : s.expense \/ s.owner # NoOne => s.kind = "take"
    /\ Edits \subseteq [amount : Amounts, cash : BOOLEAN, payer : Member \cup {NoOne}]
    /\ NoOne \notin Member \X Saves \X Vias

Idle == [pc |-> "idle"]
Row == 1 .. MaxRows
Expense == 1 .. MaxExpenses

VARIABLES
    mvs,        \* the cash_movements rows, in the order they were created
    txns,       \* the cash expenses
    stamp,      \* created_at: rows and expenses share one clock
    req,        \* the open requests
    sent,       \* history: what each key was first sent with
    begun,      \* requests so far (bound)
    raced       \* history: two saves of one stash, not both locked, overlapped

cvars == <<mvs, txns, stamp, req, sent, begun, raced>>

Rows == DOMAIN mvs
Txns == DOMAIN txns
Larger(a, b) == Max({a, b})
Smaller(a, b) == Min({a, b})

\* ---------------------------------------------------------------- the stash
\* mutant: the rows of the stash without its recounts
InStashUncounted(u, m) ==
    /\ mvs[m].live
    /\ \/ mvs[m].user = u /\ mvs[m].kind \in {"stash_in", "put_back"}
       \/ mvs[m].kind = "take" /\ mvs[m].owner = u

InStash(u, m) ==
    /\ mvs[m].live
    /\ \/ mvs[m].user = u /\ mvs[m].kind \in {"stash_in", "put_back", "stash_count"}
       \/ mvs[m].kind = "take" /\ mvs[m].owner = u

Signed(m) == IF mvs[m].kind = "take" THEN 0 - mvs[m].amount ELSE mvs[m].amount

StashBalance(u) == MapThenSumSet(Signed, {m \in Rows : InStash(u, m)})

\* Someone else's take is never refused, so that a refusal cannot tell them
\* what the stash holds.
StashCovers(owner, amount, actor, freed) ==
    actor = owner => StashBalance(owner) + freed >= amount

\* ----------------------------------------------------------------- requests
Open(pc) == {r \in Req : req[r].pc = pc}
LockHeldNever(u) == FALSE \* mutant
LockHeld(u) == \E r \in Open("save") : req[r].locked /\ req[r].user = u
Begins(r) == req[r] = Idle /\ begun < MaxRequests /\ begun' = begun + 1
MayInsert(n, x) ==
    /\ Cardinality(Rows) + Cardinality({r \in Open("save") : TRUE}) + n <= MaxRows
    /\ Cardinality(Txns) + Cardinality({r \in Open("save") : req[r].expense}) + x <= MaxExpenses

\* An own save that lowers the stash while another unlocked one relies on its
\* balance; a recount is upset by whatever else changes its stash.
Races(r, u) ==
    \E q \in Req \ {r} :
        /\ req[q].pc \in {"save", "unsave", "synced"} /\ req[q].user = u /\ req[q].relies
        /\ ~(req[q].locked /\ req[r].locked)

Upset(r, u, next) ==
    [q \in Req |-> IF /\ q # r /\ req[q].pc = "save" /\ req[q].user = u
                      /\ ~(req[q].locked /\ req[r].locked /\ req[r].user = u)
                   THEN [next[q] EXCEPT !.upset = TRUE]
                   ELSE next[q]]

ReplayedLive(key) == \E m \in Rows : mvs[m].key = key /\ ~mvs[m].aged /\ mvs[m].live \* mutant
Replayed(key) == \E m \in Rows : mvs[m].key = key /\ ~mvs[m].aged
HasExpense(key) == \E t \in Txns : txns[t].key = key

\* The checks of a save.  What was saved with the key is answered and nothing
\* is written.
BeginSave(r, u, s, key, via) ==
    LET locked == via = "api"
        bad == s.expense /\ s.owner \notin {u, NoOne}
        amount == IF s.kind = "stash_count" THEN s.amount - StashBalance(u) ELSE s.amount
    IN  /\ Begins(r)
        /\ key # NoOne => sent[key] \in {NoOne, <<u, s, via>>}
        /\ locked => ~LockHeld(u)
        /\ ~(key # NoOne /\ via = "api" /\ Replayed(key))
        /\ ~(key # NoOne /\ s.expense /\ HasExpense(key))
        /\ ~bad /\ (s.kind = "take" /\ s.owner # NoOne => StashCovers(s.owner, s.amount, u, 0))
        /\ MayInsert(1, IF s.expense THEN 1 ELSE 0)
        /\ sent' = IF key = NoOne THEN sent ELSE [sent EXCEPT ![key] = <<u, s, via>>]
        /\ req' = [req EXCEPT ![r] =
                      [pc |-> "save", user |-> u, locked |-> locked, kind |-> s.kind,
                       owner |-> s.owner, amount |-> amount, counted |-> s.amount,
                       month |-> s.month, expense |-> s.expense, key |-> key, via |-> via,
                       relies |-> s.kind = "stash_count" \/ (s.kind = "take" /\ s.owner = u),
                       upset |-> FALSE]]
        /\ UNCHANGED <<mvs, txns, stamp, raced>>

\* POST /cash/movements (locked, with a key the client keeps across retries),
\* the old page's form, and a cash expense taken from the stash through POST
\* /transactions.
SaveMovement(r, u, s, key) == BeginSave(r, u, s, key, "api")
SaveOnPage(r, u, s) == s.kind # "stash_count" /\ BeginSave(r, u, s, NoOne, "page")
SaveExpense(r, u, s, key) == s.expense /\ BeginSave(r, u, s, key, "expense")

Lowers(q) == \/ q.kind = "take" /\ q.owner = q.user
             \/ q.kind = "stash_count" /\ q.amount < 0

\* The insert and its commit; with an expense, both rows in one transaction.  A
\* concurrent save with the same key has won the expense's unique key.  The
\* take is tagged with the key in a second transaction, after the lock is gone.
CommitSave(r) ==
    LET q == req[r]
        m == Cardinality(Rows) + 1
        t == Cardinality(Txns) + 1
        lost == q.expense /\ q.key # NoOne /\ HasExpense(q.key)
        row == [kind |-> q.kind, user |-> q.user, owner |-> q.owner, amount |-> q.amount,
                month |-> q.month, txn |-> IF q.expense THEN t ELSE 0, live |-> TRUE,
                key |-> IF q.expense THEN NoOne ELSE q.key, aged |-> FALSE,
                at |-> stamp + 1, for |-> q.key]
        after == IF q.expense /\ q.key # NoOne /\ q.via = "api" /\ ~lost
                 THEN [pc |-> "tag", user |-> q.user, row |-> m, key |-> q.key]
                 ELSE Idle
        stash == IF q.kind = "take" THEN q.owner ELSE q.user
    IN  /\ q.pc = "save"
        /\ IF lost THEN UNCHANGED <<mvs, txns, stamp>>
           ELSE /\ mvs' = [x \in Rows \cup {m} |-> IF x = m THEN row ELSE mvs[x]]
                /\ txns' = IF ~q.expense THEN txns
                           ELSE [x \in Txns \cup {t} |->
                                    IF x = t THEN [payer |-> q.user, amount |-> q.amount,
                                                   month |-> q.month, cash |-> TRUE, live |-> TRUE,
                                                   key |-> q.key, at |-> stamp]
                                    ELSE txns[x]]
                /\ stamp' = stamp + 2
        /\ req' = Upset(r, stash, [req EXCEPT ![r] = after])
        /\ raced' = (raced \/ (Lowers(q) /\ Races(r, q.user)))
        /\ UNCHANGED <<sent, begun>>

\* The second commit, unless the take is gone by now (an error, nothing saved).
CommitTag(r) ==
    /\ req[r].pc = "tag"
    /\ req' = [req EXCEPT ![r] = Idle]
    /\ mvs' = IF mvs[req[r].row].live THEN [mvs EXCEPT ![req[r].row].key = req[r].key] ELSE mvs
    /\ UNCHANGED <<txns, stamp, sent, begun, raced>>

\* The worker dies, or the connection does: what was not committed is undone.
Abandon(r) ==
    /\ req[r] # Idle
    /\ req' = [req EXCEPT ![r] = Idle]
    /\ UNCHANGED <<mvs, txns, stamp, sent, begun, raced>>

\* DELETE /cash/movements/{id}: one's own, and an addition only while the
\* stash still holds it.
BeginUnsave(r, m) ==
    LET u == mvs[m].user
        adds == mvs[m].kind \in {"stash_in", "put_back", "stash_count"} /\ mvs[m].amount > 0
    IN  /\ Begins(r)
        /\ mvs[m].live
        /\ adds => StashBalance(u) >= mvs[m].amount
        /\ req' = [req EXCEPT ![r] = [pc |-> "unsave", user |-> u, row |-> m, locked |-> FALSE,
                                      relies |-> adds]]
        /\ UNCHANGED <<mvs, txns, stamp, sent, raced>>

CommitUnsave(r) ==
    /\ req[r].pc = "unsave"
    /\ LET m == req[r].row
           stash == IF mvs[m].kind = "take" THEN mvs[m].owner ELSE mvs[m].user
       IN  /\ mvs' = [mvs EXCEPT ![m].live = FALSE]
           /\ req' = Upset(r, stash, [req EXCEPT ![r] = Idle])
           /\ raced' = (raced \/ (req[r].relies /\ Races(r, req[r].user)))
    /\ UNCHANGED <<txns, stamp, sent, begun>>

\* ------------------------------------------------- the expense and its take
LinkedTakes(t) == {m \in Rows : mvs[m].live /\ mvs[m].txn = t}

\* PUT /transactions/{id}: loads the live expense; the form replaces it.
BeginEdit(r, u, t, e) ==
    /\ Begins(r)
    /\ txns[t].live
    /\ req' = [req EXCEPT ![r] = [pc |-> "edit", user |-> u, txn |-> t, old |-> txns[t],
                                  new |-> [txns[t] EXCEPT !.amount = e.amount, !.cash = e.cash,
                                                          !.payer = e.payer]]]
    /\ UNCHANGED <<mvs, txns, stamp, sent, raced>>

HoldsTxn(r, t) == req[r].pc = "synced" /\ req[r].txn = t /\ req[r].new # req[r].old

\* The flush of the changed columns locks the expense; then sync_linked_take
\* reads the take and decides: drop it, follow the amount, or refuse.
SyncEdit(r) ==
    LET q == req[r]
        t == q.txn
        takes == LinkedTakes(t)
        grows == \E m \in takes : mvs[m].owner # NoOne /\ q.new.amount > mvs[m].amount
    IN  /\ q.pc = "edit"
        /\ q.new # q.old => \A o \in Req : ~HoldsTxn(o, t)
        /\ IF q.new.cash /\ \E m \in takes :
                \/ q.new.payer # mvs[m].user
                \/ /\ mvs[m].owner # NoOne
                   /\ \/ q.new.amount # mvs[m].amount /\ q.user # mvs[m].owner
                      \/ q.new.amount > mvs[m].amount
                         /\ ~StashCovers(mvs[m].owner, q.new.amount, q.user, mvs[m].amount)
           THEN req' = [req EXCEPT ![r] = Idle]
           ELSE req' = [req EXCEPT ![r] = [pc |-> "synced", user |-> q.user, txn |-> t,
                                           old |-> q.old, new |-> q.new, takes |-> takes,
                                           was |-> [m \in takes |-> mvs[m].amount],
                                           locked |-> FALSE, relies |-> q.new.cash /\ grows]]
        /\ UNCHANGED <<mvs, txns, stamp, sent, begun, raced>>

\* The commit writes the columns that differ from what was read.
CommitEdit(r) ==
    LET q == req[r]
        t == q.txn
        Column(c) == IF q.new[c] # q.old[c] THEN q.new[c] ELSE txns[t][c]
        amounts == \E m \in q.takes : q.new.amount # q.was[m]
    IN  /\ q.pc = "synced"
        /\ txns' = [txns EXCEPT ![t].amount = Column("amount"), ![t].cash = Column("cash"),
                                ![t].payer = Column("payer")]
        /\ mvs' = [m \in Rows |->
                      IF m \notin q.takes THEN mvs[m]
                      ELSE IF ~q.new.cash THEN [mvs[m] EXCEPT !.live = FALSE]
                      ELSE IF q.new.amount # q.was[m] THEN [mvs[m] EXCEPT !.amount = q.new.amount]
                      ELSE mvs[m]]
        /\ LET done == [req EXCEPT ![r] = Idle]
           IN  req' = IF q.takes # {} /\ (amounts \/ ~q.new.cash)
                      THEN Upset(r, mvs[CHOOSE m \in q.takes : TRUE].owner, done) ELSE done
        /\ raced' = \/ raced
                    \/ q.relies /\ Races(r, q.user)
                    \/ \E o \in Req \ {r} : req[o].pc \in {"edit", "synced"} /\ req[o].txn = t
        /\ UNCHANGED <<stamp, sent, begun>>

\* mutant: the take is forgotten
DeleteExpenseAlone(t) ==
    /\ txns[t].live /\ \A r \in Req : ~HoldsTxn(r, t)
    /\ txns' = [txns EXCEPT ![t].live = FALSE]
    /\ UNCHANGED <<mvs, stamp, req, sent, begun, raced>>

\* DELETE /transactions/{id}: the take goes with the expense.
DeleteExpense(t) ==
    /\ txns[t].live /\ \A r \in Req : ~HoldsTxn(r, t)
    /\ txns' = [txns EXCEPT ![t].live = FALSE]
    /\ mvs' = [m \in Rows |-> IF mvs[m].txn = t THEN [mvs[m] EXCEPT !.live = FALSE] ELSE mvs[m]]
    /\ req' = [q \in Req |->
                  IF /\ req[q].pc = "save"
                     /\ \E m \in LinkedTakes(t) : mvs[m].owner = req[q].user
                  THEN [req[q] EXCEPT !.upset = TRUE] ELSE req[q]]
    /\ UNCHANGED <<stamp, sent, begun, raced>>

\* A day passes: the replay window of every movement so far closes.
Age ==
    /\ \E m \in Rows : ~mvs[m].aged
    /\ mvs' = [m \in Rows |-> [mvs[m] EXCEPT !.aged = TRUE]]
    /\ UNCHANGED <<txns, stamp, req, sent, begun, raced>>

\* ---------------------------------------------------------------- the wallet
Of(u, kind, month) == {m \in Rows : /\ mvs[m].live /\ mvs[m].user = u /\ mvs[m].kind = kind
                                    /\ mvs[m].month = month /\ mvs[m].txn = 0}
Total(S) == LET A(m) == mvs[m].amount IN MapThenSumSet(A, S)
\* A linked take and its expense are left out on both sides.
Logged(u, month) == {t \in Txns : /\ txns[t].live /\ txns[t].cash /\ txns[t].payer = u
                                  /\ txns[t].month = month /\ LinkedTakes(t) = {}}
TotalLogged(S) == LET A(t) == txns[t].amount IN MapThenSumSet(A, S)

Marked(u, month) == Of(u, "still_have", month) # {}

\* still_have_end before the floor: the latest still_have rolled forward.
RawEnd(u, month) ==
    LET mark == CHOOSE m \in Of(u, "still_have", month) :
                    \A o \in Of(u, "still_have", month) : mvs[o].at <= mvs[m].at
        Later(kind) == {m \in Of(u, kind, month) : mvs[m].at > mvs[mark].at}
    IN  mvs[mark].amount + Total(Later("take")) - Total(Later("put_back")) - Total(Later("out"))
          - TotalLogged({t \in Logged(u, month) : txns[t].at > mvs[mark].at})

\* mutant: what was entered is carried, not what it became by the month's end
CarriedAsEntered(u, month) ==
    LET A(m) == mvs[m].amount IN Max({0} \cup {A(m) : m \in Of(u, "still_have", month - 1)})
Carried(u, month) == IF Marked(u, month - 1) THEN Larger(RawEnd(u, month - 1), 0) ELSE 0
StillHave(u, month) == IF Marked(u, month) THEN Larger(RawEnd(u, month), 0) ELSE 0
Excess(u, month) == IF Marked(u, month) THEN Larger(0 - RawEnd(u, month), 0) ELSE 0

Spent(u, month) ==
    Carried(u, month) + Total(Of(u, "take", month)) - Total(Of(u, "put_back", month))
        - StillHave(u, month)

\* A month's own balance, before later months draw on it.
Own(u, month) ==
    Spent(u, month) - TotalLogged(Logged(u, month)) - Total(Of(u, "out", month)) + Excess(u, month)

LastMonth == Max(Months)

\* mutant: no shortfall pass
BreakdownNoPass(u) ==
    [month \in Months |-> [own |-> Own(u, month), not_yet_logged |-> Larger(Own(u, month), 0)]]

\* The rows of _breakdown.  The shortfall pass, latest month first: what
\* month + 1 could not cover, unless a still_have closed this month.
Breakdown(u) ==
    LET own == CHOOSE f \in {[month \in Months |-> Own(u, month)]} : TRUE
        into[month \in 0 .. LastMonth] ==
            IF month = LastMonth \/ Marked(u, month) THEN 0
            ELSE Larger(into[month + 1] - own[month + 1], 0)
    IN  [month \in Months |->
            [carried |-> Carried(u, month), taken |-> Total(Of(u, "take", month)),
             put_back |-> Total(Of(u, "put_back", month)), still_have |-> StillHave(u, month),
             logged |-> TotalLogged(Logged(u, month)), outs |-> Total(Of(u, "out", month)),
             own |-> own[month],
             not_yet_logged |-> Larger(own[month] - into[month], 0),
             logged_cross_month |-> Smaller(into[month], Larger(own[month], 0))]]

\* The wallet card's sum over the months from a to b, as its own member sees it.
Shown(rows, a, b) ==
    Larger(rows[a].carried + MapThenSumSet(LAMBDA n : rows[n].taken - rows[n].put_back, a .. b), 0)
        - rows[b].still_have
        - MapThenSumSet(LAMBDA n : rows[n].logged + rows[n].outs + rows[n].logged_cross_month, a .. b)

\* ------------------------------------------------------------- specification
CashInit ==
    /\ mvs = << >> /\ txns = << >>
    /\ stamp = 1
    /\ req = [r \in Req |-> Idle]
    /\ sent = [k \in Key |-> NoOne]
    /\ begun = 0 /\ raced = FALSE

CashNext ==
    \/ \E r \in Req :
          \/ \E u \in Member :
                \/ \E s \in Saves : \/ SaveOnPage(r, u, s)
                                    \/ \E k \in Key \cup {NoOne} :
                                          SaveMovement(r, u, s, k) \/ SaveExpense(r, u, s, k)
                \/ \E t \in Txns, e \in Edits : BeginEdit(r, u, t, e)
          \/ CommitSave(r) \/ CommitTag(r) \/ Abandon(r)
          \/ \E m \in Rows : BeginUnsave(r, m)
          \/ CommitUnsave(r) \/ SyncEdit(r) \/ CommitEdit(r)
    \/ \E t \in Txns : DeleteExpense(t)
    \/ Age

CashSpec == CashInit /\ [][CashNext]_cvars

\* ---------------------------------------------------------------- properties
\* Rows keep their columns' domains; only a take names a stash or an expense.
CashTypeOK ==
    /\ Rows \subseteq Row /\ Txns \subseteq Expense /\ raced \in BOOLEAN
    /\ \A m \in Rows : /\ mvs[m].user \in Member /\ mvs[m].kind \in Kinds
                       /\ mvs[m].amount \in Int /\ mvs[m].txn \in {0} \cup Txns
                       /\ mvs[m].owner # NoOne \/ mvs[m].txn # 0 => mvs[m].kind = "take"
    /\ \A t \in Txns : txns[t].payer \in Member \cup {NoOne} /\ txns[t].cash \in BOOLEAN

\* A member's own saves, deletions and edits never overdraw their stash: below
\* zero it is only by what others took, whose takes are never refused.  Others'
\* takes may land anywhere; two of the owner's own requests may overlap only
\* when both hold the lock (require_stash_covers, lock_actor_cash).
OwnActsNeverOverdraw ==
    ~raced => \A u \in Member :
        StashBalance(u)
          + Total({m \in Rows : InStash(u, m) /\ mvs[m].kind = "take" /\ mvs[m].user # u}) >= 0

\* "Stores the signed correction ... so the balance afterwards is what was
\* counted" (record_stash_count), unless another member's take or a request
\* outside the lock changed the stash after the balance was read.
RecountExact ==
    [][\A r \in Req, u \in Member :
          /\ req[r].pc = "save" /\ req[r].kind = "stash_count" /\ req[r].user = u
          /\ ~req[r].upset /\ Rows' # Rows /\ req'[r] = Idle
          => StashBalance(u)' = req[r].counted]_cvars

\* A linked take stays in step with its expense through edits and deletions:
\* while it lives the expense is a live cash expense of its taker for the same
\* amount (sync_linked_take); two edits of one expense may not overlap.
TakeInStep ==
    ~raced => \A m \in Rows :
        mvs[m].live /\ mvs[m].txn # 0 =>
            LET t == txns[mvs[m].txn]
            IN  t.live /\ t.cash /\ t.payer = mvs[m].user /\ t.amount = mvs[m].amount

\* A save and its retries make one movement while the 24 hours last, even when
\* the first answer was lost, the request died between its two commits, or the
\* movement was deleted since; an expense is never made twice.
SavedOnce ==
    \A m, n \in Rows :
        /\ m # n /\ mvs[m].for # NoOne /\ mvs[m].for = mvs[n].for
        => (mvs[m].aged \/ mvs[n].aged) /\ mvs[m].txn = 0 /\ mvs[n].txn = 0

\* The rows alone make the wallet, and every state of them is also reached with
\* no request under way: the wallet is looked at there.
Settled == \A r \in Req : req[r] = Idle

\* "took - still_have - logged - outs - logged_cross_month + over_logged =
\* not_yet_logged", exactly, for every period: the floor of over_logged never
\* cuts anything off for the member themselves (_over_logged).
WalletAddsUp ==
    Settled => \A u \in Member : \A rows \in {Breakdown(u)} :
        \A a, b \in Months :
            a <= b => Shown(rows, a, b) <= MapThenSumSet(LAMBDA n : rows[n].not_yet_logged, a .. b)

\* Cash taken is counted once across months: for a member who entered no
\* still_have and never logged more than they had taken so far, what is not
\* yet logged over all months is what was taken and neither put back, given out
\* nor logged ("January's not yet logged is 0, not 40 counted again").
CashCountedOnce ==
    Settled => \A u \in Member : \A rows \in {Breakdown(u)} :
        LET Left(month) == rows[month].own
            Counted(month) == rows[month].not_yet_logged
        IN  /\ \A month \in Months : ~Marked(u, month)
            /\ \A month \in Months : MapThenSumSet(Left, {n \in Months : n <= month}) >= 0
            => MapThenSumSet(Counted, Months) = MapThenSumSet(Left, Months)
=============================================================================
