------------------------------- MODULE Settlement -------------------------------
(* Settle-up: who owes whom in a bucket and in the household, the transfers   *)
(* that clear it, and the payments recorded against what a page displayed.    *)
(*                                                                            *)
(* A settle request reads the balances, compares them with the fingerprint of *)
(* what the page showed, and inserts its rows at the commit; nothing is       *)
(* locked in between.  Money is in parts of a cent, so that a cent divides    *)
(* among the members; expenses and payments are whole cents.                  *)
EXTENDS Base, Integers, FiniteSets, FiniteSetsExt

CONSTANTS
    Person,
    Bucket,
    Cent,               \* parts of a cent
    Forms,              \* the expenses a client may save, see MCSettlement
    Asked,              \* what a client may ask for, see Everything
    Orders,             \* orders in which a process may list the members
    Tab, Settler,
    MaxListed, MaxChanges, MaxSettles

ASSUME SettlementAssumption ==
    /\ None \notin Person \cup Bucket \cup Tab
    /\ Cent \in Nat \ {0}
    /\ \A a \in Asked : a.from # None => a.from # a.to
    /\ MaxListed \in Nat /\ MaxChanges \in Nat /\ MaxSettles \in Nat

Scope == Bucket \cup {None}
Closed == [pc |-> "idle"]
Blank == [scope |-> "blank", list |-> {}, uses |-> 0, touched |-> TRUE]

VARIABLES
    expenses,   \* the expenses that are not in the trash
    enabled,    \* buckets with settle-up on
    payments,   \* the settlements rows, added up: [scope][from, to]
    page,       \* what each tab displays
    sreq,       \* open settle requests
    changes,    \* changes made elsewhere so far (bound)
    settlesBegun,      \* requests so far (bound)
    overlapped  \* history: a settle recorded what another change had overtaken

svars == <<expenses, enabled, payments, page, sreq, changes, settlesBegun, overlapped>>

LOCAL SumOver(f(_), S) == MapThenSumSet(f, S)
LOCAL Smaller(a, b) == Min({a, b})
LOCAL Larger(a, b) == Max({a, b})

\* ------------------------------------------------------------------ balances
\* quantize: half a cent rounds away from zero.
Quantized(x) ==
    IF x >= 0 THEN ((2 * x + Cent) \div (2 * Cent)) * Cent
    ELSE 0 - ((Cent - 2 * x) \div (2 * Cent)) * Cent

TakesPart(e) == ~e.excluded /\ (e.payer # None \/ e.mode = "own")
In(b) == {e \in expenses : e.bucket = b /\ TakesPart(e)}
Recorded(scope) == {p \in Person \X Person : payments[scope][p] > 0}
Parties(scope) == UNION {{p[1], p[2]} : p \in Recorded(scope)}

Participants(b) ==
    UNION {(DOMAIN e.splits) \cup ({e.payer} \ {None}) : e \in In(b)} \cup Parties(b)

\* mutant: what the splits leave open is nobody's
SharesForSplit(e, u, members) ==
    IF e.splits = << >> THEN e.amount \div Cardinality(members)
    ELSE IF u \in DOMAIN e.splits THEN e.splits[u] ELSE 0

\* What u answers for: the split, and of what the splits leave open all for the
\* payer, or the same for everyone where each paid their own share.  Without
\* splits it is divided equally.
SharesFor(e, u, members) ==
    LET split(v) == e.splits[v]
        open == e.amount - SumOver(split, DOMAIN e.splits)
        rest == IF 2 * open > Cent \/ 2 * open < 0 - Cent THEN open ELSE 0
    IN  IF e.splits = << >> THEN e.amount \div Cardinality(members)
        ELSE (IF u \in DOMAIN e.splits THEN e.splits[u] ELSE 0)
                + (IF e.payer = None THEN rest \div Cardinality(members)
                   ELSE IF e.payer = u THEN rest ELSE 0)

PaidFor(e, u, members) ==
    IF e.mode = "own" THEN SharesFor(e, u, members)
    ELSE IF e.payer = u THEN e.amount ELSE 0

\* What the payments of a scope moved for u.
OffsetSwapped(scope, u) == \* mutant: a payment raises the debt it pays
    SumOver(LAMBDA p : payments[scope][p], {p \in Recorded(scope) : p[2] = u})
        - SumOver(LAMBDA p : payments[scope][p], {p \in Recorded(scope) : p[1] = u})

Offset(scope, u) ==
    SumOver(LAMBDA p : payments[scope][p], {p \in Recorded(scope) : p[1] = u})
        - SumOver(LAMBDA p : payments[scope][p], {p \in Recorded(scope) : p[2] = u})

\* compute_bucket_net: above zero, u is owed money.
BucketNet(b) ==
    LET members == Participants(b)
    IN  [u \in Person |->
            IF u \notin members \/ Cardinality(members) < 2 THEN 0
            ELSE SumOver(LAMBDA e : PaidFor(e, u, members) - SharesFor(e, u, members), In(b))
                   + Offset(b, u)]

HouseholdNet ==
    [u \in Person |-> SumOver(LAMBDA b : BucketNet(b)[u], enabled) + Offset(None, u)]

Net(scope) == IF scope = None THEN HouseholdNet ELSE BucketNet(scope)

\* simplify_debts.  Walking both lists, largest first, pairs the k-th cent owed
\* with the k-th cent due; a single cent is not asked for.
Transfers(net, order) ==
    LET owed == [u \in Person |-> Larger(Quantized(net[u]), 0)]
        due == [u \in Person |-> Larger(0 - Quantized(net[u]), 0)]
        place(u) == CHOOSE i \in DOMAIN order : order[i] = u
        Before(side, u) ==
            SumOver(LAMBDA v : side[v],
                    {v \in Person : \/ side[v] > side[u]
                                    \/ side[v] = side[u] /\ place(v) < place(u)})
        meet(d, c) == Smaller(Before(owed, c) + owed[c], Before(due, d) + due[d])
                          - Larger(Before(owed, c), Before(due, d))
    IN  {[from |-> p[1], to |-> p[2], amount |-> meet(p[1], p[2])] :
            p \in {q \in Person \X Person : /\ due[q[1]] > 0 /\ owed[q[2]] > 0
                                            /\ meet(q[1], q[2]) > Cent}}

\* What a process may list as outstanding.
Lists(scope) == {Transfers(net, order) : net \in {Net(scope)}, order \in Orders}

\* ------------------------------------------------------------------ requests
Overtaken(open) == [r \in Settler |-> IF open[r] = Closed THEN Closed
                                  ELSE [open[r] EXCEPT !.overtaken = TRUE]]

\* Expenses are saved and deleted, settle-up is switched on and off, elsewhere.
Elsewhere ==
    /\ changes < MaxChanges /\ changes' = changes + 1
    /\ page' = [t \in Tab |-> [page[t] EXCEPT !.touched = TRUE]]
    /\ sreq' = Overtaken(sreq)
    /\ UNCHANGED <<payments, settlesBegun, overlapped>>

AddExpense(e) ==
    /\ e \notin expenses /\ expenses' = expenses \cup {e}
    /\ Elsewhere /\ UNCHANGED enabled

RemoveExpense(e) ==
    /\ expenses' = expenses \ {e}
    /\ Elsewhere /\ UNCHANGED enabled

EnableSettlement(b) ==
    /\ enabled' = IF b \in enabled THEN enabled \ {b} ELSE enabled \cup {b}
    /\ Elsewhere /\ UNCHANGED expenses

\* A settlement page with its fingerprint; it replaces the page an open request
\* was sent from.
Display(t, scope, list) ==
    /\ page' = [page EXCEPT ![t] = [scope |-> scope, list |-> list, uses |-> 0, touched |-> FALSE]]
    /\ sreq' = [r \in Settler |-> IF sreq[r] # Closed /\ sreq[r].tab = t
                              THEN [sreq[r] EXCEPT !.tab = None] ELSE sreq[r]]
    /\ UNCHANGED <<expenses, enabled, payments, changes, settlesBegun, overlapped>>

LookAtBucket(t, b, list) == b \in enabled /\ Display(t, b, list)
LookAtHousehold(t, list) == Display(t, None, list)

MatchesAnyway(list, t) == TRUE \* mutant
Matches(list, t) == \A u \in {t} \cap Tab : page[u].list = list

\* What a client asks for: everything (no `from`), one of the transfers, or an
\* amount of its own choosing from one member to another.
Everything == [from |-> None, to |-> None, amount |-> None]
Pairs(list, a) ==
    IF a = Everything THEN list
    ELSE IF a.amount = None THEN {x \in list : x.from = a.from /\ x.to = a.to}
    ELSE {a}

\* record_household_settlement from a tab's page, or without `expected` (t =
\* None).  A list other than the displayed one records nothing.
Record(r, t, scope, list, a) ==
    /\ sreq[r] = Closed /\ settlesBegun < MaxSettles /\ settlesBegun' = settlesBegun + 1
    /\ \A u \in {t} \cap Tab : page[u].scope = scope
    /\ Matches(list, t)
    /\ sreq' = [sreq EXCEPT ![r] = [pc |-> "settle", tab |-> t, scope |-> scope,
                                    all |-> a = Everything, pairs |-> Pairs(list, a),
                                    overtaken |-> FALSE]]
    /\ UNCHANGED <<expenses, enabled, payments, page, changes, overlapped>>

\* POST /buckets/{id}/settle and POST /settlement/settle
SettleBucket(r, t, b, list, a) == b \in enabled /\ Record(r, t, b, list, a)
SettleHousehold(r, t, list, a) == Record(r, t, None, list, a)

CommitSettle(r) ==
    LET q == sreq[r]
        of(p) == {x \in q.pairs : x.from = p[1] /\ x.to = p[2]}
    IN  /\ q.pc = "settle"
        /\ payments' = [payments EXCEPT ![q.scope] =
                           [p \in DOMAIN @ |-> @[p] + SumOver(LAMBDA x : x.amount, of(p))]]
        /\ page' = [t \in Tab |->
                       IF q.pairs = {} THEN page[t]
                       ELSE IF t = q.tab THEN [page[t] EXCEPT !.uses = @ + 1]
                       ELSE [page[t] EXCEPT !.touched = TRUE]]
        /\ sreq' = LET open == [sreq EXCEPT ![r] = Closed]
                   IN  IF q.pairs = {} THEN open ELSE Overtaken(open)
        /\ overlapped' = (overlapped \/ (q.overtaken /\ q.pairs # {}))
        /\ UNCHANGED <<expenses, enabled, changes, settlesBegun>>

\* ------------------------------------------------------------- specification
SettleInit ==
    /\ expenses \in {S \in SUBSET Forms : Cardinality(S) <= MaxListed}
    /\ enabled = Bucket
    /\ payments = [scope \in Scope |-> [p \in Person \X Person |-> 0]]
    /\ page = [t \in Tab |-> Blank]
    /\ sreq = [r \in Settler |-> Closed] /\ changes = 0 /\ settlesBegun = 0 /\ overlapped = FALSE

SettleNext ==
    \/ \E e \in Forms : AddExpense(e)
    \/ \E e \in expenses : RemoveExpense(e)
    \/ \E b \in Bucket : EnableSettlement(b)
    \/ \E b \in enabled : \E list \in Lists(b) :
          \/ \E t \in Tab : LookAtBucket(t, b, list)
          \/ \E r \in Settler, t \in Tab \cup {None}, a \in Asked : SettleBucket(r, t, b, list, a)
    \/ \E list \in Lists(None) :
          \/ \E t \in Tab : LookAtHousehold(t, list)
          \/ \E r \in Settler, t \in Tab \cup {None}, a \in Asked : SettleHousehold(r, t, list, a)
    \/ \E r \in Settler : CommitSettle(r)

SettleSpec == SettleInit /\ [][SettleNext]_svars

\* ---------------------------------------------------------------- properties
\* "The returned shares always sum to the transaction total, which is what
\* guarantees household balances net to zero" (shares_for): whatever mix of
\* splits, payers and payments a bucket holds, its balances sum to zero.
NetsSumToZero ==
    \A scope \in Scope : SumOver(LAMBDA u : Net(scope)[u], Person) = 0

\* "Settles everything currently outstanding": once recorded, the same page
\* asks for nothing more, rounding and left-over cents included, unless another
\* change committed between the read and the commit.  Never more transfers than
\* there are people with a balance.
SettleClears ==
    [][\A r \in Settler, scope \in Scope :
          LET q == sreq[r]
          IN  /\ q # Closed /\ sreq'[r] = Closed /\ payments' # payments
              /\ q.scope = scope /\ q.all /\ ~q.overtaken
              => /\ (Lists(scope) = {{}})'
                 /\ Cardinality(q.pairs) <= Cardinality({u \in Person : Net(scope)[u] # 0})]_svars

\* "A double submit (or a stale tab) cannot record the same payment twice and
\* reverse the debt" (settlement_fingerprint): what a page displayed is paid
\* from it once, unless another change came in between, or two settles overlap.
PaidOnce ==
    \A t \in Tab : page[t].uses > 1 => page[t].touched \/ overlapped
=================================================================================
