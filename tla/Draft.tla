------------------------------- MODULE Draft -------------------------------
(***************************************************************************)
(* The entry a member is filling in on the Add and Edit screens: the       *)
(* reducer of the composer (composer/state.ts), the defaults it fills in   *)
(* and learns (defaults.ts), its split arithmetic (splits.ts), what it     *)
(* accepts and sends (model.ts), and the pickers and sheets that feed it.  *)
(*                                                                         *)
(* Money is in cents.  Names, notes, dates, fuel prices and currency codes *)
(* are left out; a currency is the household's or a foreign one, with a    *)
(* rate or without.  A split is a function from its sharers to cents.      *)
(***************************************************************************)
EXTENDS WebBase

CONSTANTS
    Members, Me,        \* the household, and the member at the screen
    Buckets,
    IncomeBuckets,      \* those that track income, or did (gone.untracked)
    Categories,
    Amounts,            \* amounts the keypad may show, in cents
    TypedValues,        \* what may be typed into a split field: cents, or percents
    Stored,             \* entries the server may hold (RowFields)
    Receipts,           \* what a receipt's QR may say: amount, currency and category, each perhaps missing
    Stash,              \* the balance of the member's wallet
    MaxSteps, MaxSaves, MaxGone   \* bounds: inputs, saves, things that vanish

VARIABLES
    draft,      \* the reducer's state, or None while no form is open
    known,      \* the defaults record stored on the device
    loaded,     \* the defaults record this mount of the composer has read
    gone,       \* what went away meanwhile: buckets, categories, members
    steps, saves

draftVars == <<draft, known, loaded, gone, steps, saves>>

Fields == {"bucket", "category", "payer", "method"}
NoShares == [m \in {} |-> 0]
Total(shares) == MapThenSumSet(LAMBDA m : shares[m], DOMAIN shares)

\* A stored entry. `bill` says that it is linked to a recurring item, `take` who took its cash, and from where.
RowFields == {"type", "amount", "foreign", "bucket", "bill", "category", "payer", "ownShare", "method", "splits", "take"}
RowOK(t) ==
    /\ DOMAIN t = RowFields
    /\ t.type \in {"expense", "income"} /\ t.amount \in Nat /\ t.foreign \in BOOLEAN /\ t.bill \in BOOLEAN
    /\ t.bucket \in (IF t.type = "income" THEN IncomeBuckets ELSE Buckets) \cup {None}
    /\ t.category \in Categories \cup {None} /\ t.payer \in Members \cup {None}
    /\ t.splits \in [DOMAIN t.splits -> Nat] /\ DOMAIN t.splits \subseteq Members
    /\ t.type = "income" => DOMAIN t.splits = {}
    /\ t.ownShare \in BOOLEAN
    /\ t.ownShare => t.type = "expense" /\ t.payer = None /\ DOMAIN t.splits # {}
    /\ t.take # None => t.type = "expense" /\ t.method = "cash" /\ t.take.by \in Members

ASSUME DraftAssumption ==
    /\ IsFiniteSet(Members) /\ Me \in Members
    /\ IncomeBuckets \subseteq Buckets
    /\ Amounts \subseteq Nat /\ TypedValues \subseteq Nat /\ Stash \in Nat
    /\ \A t \in Stored : RowOK(t) /\ t # None /\ [t EXCEPT !.category = None] # None
    /\ \A r \in Receipts : r.amount \in Nat \cup {None}
    /\ None \notin Members \cup Buckets \cup Categories

(***************************************************************************)
(* Split arithmetic.                                                       *)
(***************************************************************************)
\* The payer, when one of the sharers, takes what is left.
Rest(total, payer, shares) ==
    IF payer \in DOMAIN shares THEN [shares EXCEPT ![payer] = total - (Total(shares) - @)] ELSE shares

Heir(ids) == CHOOSE m \in ids : TRUE       \* the first sharer takes the leftover cents when the payer is none

EqualShares(ids, total, payer) ==
    Rest(total, IF payer \in ids THEN payer ELSE Heir(ids), [m \in ids |-> total \div Cardinality(ids)])

\* What was typed for a member; blank counts as nothing.
TypedFor(typed, m) == IF m \in DOMAIN typed THEN typed[m] ELSE 0

\* Everyone but the payer keeps what was typed; the payer takes what is left, below zero when too much was typed.
AmountShares(ids, total, payer, typed) == Rest(total, payer, [m \in ids |-> TypedFor(typed, m)])

PercentShares(ids, total, payer, typed) == Rest(total, payer, [m \in ids |-> (total * TypedFor(typed, m)) \div 100])

Shares(mode, ids, total, payer, typed) ==
    CASE mode = "equal" -> EqualShares(ids, total, payer)
      [] mode = "amounts" -> AmountShares(ids, total, payer, typed)
      [] mode = "percent" -> PercentShares(ids, total, payer, typed)

\* Done of the split sheet is disabled on a share below zero, and on own shares that miss the total by over a cent.
SplitFits(total, shares, own) ==
    /\ \A m \in DOMAIN shares : shares[m] >= 0
    /\ IF own THEN Total(shares) - total \in -1..1 ELSE Total(shares) <= total

(***************************************************************************)
(* The defaults a form is filled with.                                     *)
(***************************************************************************)
NoMemory == [bucket |-> None, category |-> None, payer |-> None, method |-> None]
NoDefaults == [last |-> NoMemory, lastIncome |-> NoMemory,
               byCategory |-> [c \in Categories |-> NoMemory], byBucket |-> [b \in Buckets |-> NoMemory]]

Here == Members \ gone.left

\* Buckets a picker offers, and a default may name, for an entry of this type.
Offered(type) ==
    (IF type = "income" THEN IncomeBuckets \ gone.untracked ELSE Buckets) \ (gone.archived \cup gone.deleted)

Sanitize(r, type) ==
    [r EXCEPT !.bucket = IF r.bucket \in Offered(type) THEN @ ELSE None,
              !.category = IF r.category \in Categories \ gone.deleted THEN @ ELSE None,
              !.payer = IF r.payer \in Here THEN @ ELSE None]

DefaultMethod(type) == IF type = "income" THEN "transfer" ELSE "card"

BlankState(type) ==
    [mode |-> "new", entry |-> None, type |-> type, amount |-> 0, foreign |-> FALSE, rated |-> TRUE,
     bucketId |-> None, fixedCost |-> FALSE, categoryId |-> None, ruled |-> FALSE,
     paidBy |-> Me, ownShare |-> FALSE, method |-> DefaultMethod(type), tookFrom |-> "none", cashMode |-> FALSE,
     splitOn |-> FALSE, splitMode |-> "equal", splits |-> NoShares, splitTyped |-> NoShares,
     stash |-> None, scanned |-> FALSE, scanCategoryId |-> None, rememberRule |-> FALSE, touched |-> {}]

\* Cash mode: cash out of the wallet, paid by the member.
CashOn(d) == [d EXCEPT !.cashMode = TRUE, !.method = "cash", !.tookFrom = "stash", !.paidBy = Me]

InitialNew(defaults, type, cash, take) ==
    LET r == Sanitize(IF type = "income" THEN defaults.lastIncome ELSE defaults.last, type)
        d == [BlankState(type) EXCEPT !.bucketId = r.bucket, !.categoryId = r.category,
                                      !.paidBy = Or(r.payer, Me), !.method = Or(r.method, @)]
    IN CASE cash /\ type = "expense" /\ take -> CashOn(d)
         [] cash /\ type = "expense" /\ ~take -> [CashOn(d) EXCEPT !.tookFrom = "none"]
         [] OTHER -> d

\* Fill the default fields the member has not picked by hand.
Fill(d, r, except) ==
    LET free == Fields \ (d.touched \cup {except})
        pinned == d.cashMode \/ d.tookFrom # "none"
        method == IF "method" \in free /\ ~pinned /\ d.type = "expense" THEN Or(r.method, d.method) ELSE d.method
        category == IF "category" \in free THEN Or(r.category, d.categoryId) ELSE d.categoryId
    IN [d EXCEPT !.bucketId = IF "bucket" \in free /\ ~d.fixedCost THEN Or(r.bucket, @) ELSE @,
                 !.categoryId = category,
                 !.ruled = @ /\ category = d.categoryId,
                 !.paidBy = IF "payer" \in free /\ ~pinned /\ ~d.ownShare THEN Or(r.payer, @) ELSE @,
                 !.method = method,
                 !.tookFrom = IF method = "cash" THEN @ ELSE "none"]

\* What a save teaches: the last entry of its type, and for an expense its category and its bucket.
Learn(rec, d) ==
    LET payer(old) == IF d.ownShare THEN old ELSE d.paidBy
        all == [bucket |-> d.bucketId, category |-> d.categoryId, payer |-> payer(rec.last.payer), method |-> d.method]
        part == [all EXCEPT !.payer = payer(None)]
    IN IF d.mode # "new" THEN rec
       ELSE IF d.type = "income" THEN [rec EXCEPT !.lastIncome = all]
       ELSE [rec EXCEPT
               !.last = all,
               !.byCategory = [c \in Categories |-> IF c = d.categoryId THEN [part EXCEPT !.category = None] ELSE @[c]],
               !.byBucket = [b \in Buckets |-> IF b = d.bucketId THEN [part EXCEPT !.bucket = None] ELSE @[b]]]

(***************************************************************************)
(* What the form accepts and what it sends.                                *)
(***************************************************************************)
TookCash(d) == d.type = "expense" /\ d.method = "cash" /\ d.tookFrom # "none" /\ ~d.ownShare

Problems(d) ==
    {p \in {"amount", "bucket", "rate", "split", "payer", "wallet"} :
        CASE p = "amount" -> d.amount = 0
          [] p = "bucket" -> d.type = "expense" /\ d.bucketId = None /\ ~d.fixedCost
          [] p = "rate" -> d.foreign /\ ~d.rated
          [] p = "split" -> d.type = "expense" /\ (d.splitOn \/ d.ownShare)
                            /\ \/ d.ownShare /\ Total(d.splits) - d.amount \notin -1..1
                               \/ Total(d.splits) > d.amount
                               \/ \E m \in DOMAIN d.splits : d.splits[m] < 0
          [] p = "payer" -> TookCash(d) /\ d.paidBy # Me
          [] p = "wallet" -> TookCash(d) /\ d.tookFrom = "stash" /\ d.stash # None /\ ~d.foreign /\ d.amount > d.stash}

CanSave(d) == Problems(d) = {}

\* The body of the POST; the PUT of an edit is the same, its take left out.
CreateBody(d) ==
    [type |-> d.type, amount |-> d.amount, foreign |-> d.foreign, exchange_rate |-> ~d.foreign \/ d.rated,
     bucket_id |-> IF d.fixedCost THEN None ELSE d.bucketId, category_id |-> d.categoryId,
     paid_by |-> IF d.ownShare THEN None ELSE d.paidBy, payer_mode |-> IF d.ownShare THEN "own_share" ELSE "single",
     payment_method |-> d.method, took_cash |-> d.mode = "new" /\ TookCash(d), take_from |-> d.tookFrom,
     splits |-> IF d.type = "expense" /\ (d.ownShare \/ d.splitOn) THEN d.splits ELSE NoShares]

\* The server's rules, for a new entry (t is None) and for an edit of entry t: the schema, the checks of bucket, income
\* bucket, payer, category and sharers, and those on cash taken for it. A blank payer is who was stored, or the sender.
ServerAccepts(b, t) ==
    LET fixedCost == t # None /\ t.bill /\ t.bucket = None /\ b.type = "expense"
        moved == t = None \/ t.type # "income" \/ t.bucket # b.bucket_id
        own == b.payer_mode = "own_share"
        payer == IF own THEN None ELSE Or(b.paid_by, IF t = None THEN Me ELSE Or(t.payer, Me))
        taken == t # None /\ t.take # None /\ b.type = "expense" /\ b.payment_method = "cash"
        changed == b.amount # t.amount \/ b.foreign # t.foreign
    IN /\ b.amount > 0 /\ b.exchange_rate
       /\ b.bucket_id # None \/ b.type = "income" \/ fixedCost
       /\ b.bucket_id \in (Buckets \ gone.deleted) \cup {None}
       /\ b.type = "income" /\ moved => b.bucket_id \in Offered("income") \cup {None}
       /\ b.paid_by \in Here \cup {None}
       /\ b.category_id \notin gone.deleted
       /\ DOMAIN b.splits \subseteq Here
       /\ \A m \in DOMAIN b.splits : b.splits[m] > 0
       /\ Total(b.splits) <= b.amount
       /\ own => b.type = "expense" /\ DOMAIN b.splits # {} /\ Total(b.splits) - b.amount \in -1..1
       /\ b.took_cash =>
             /\ b.payment_method = "cash" /\ b.type = "expense" /\ payer = Me
             /\ b.take_from = "stash" /\ ~b.foreign => b.amount <= Stash
       /\ taken =>
             /\ payer = t.take.by
             /\ t.take.from = "stash" /\ changed => t.take.by = Me /\ (~b.foreign => b.amount <= Stash + t.amount)

(***************************************************************************)
(* The reducer: an amount that changed takes the split with it.            *)
(***************************************************************************)
\* Without a payer among the sharers nobody takes the rest of amounts and percents: they are left as they are.
Resplit(d) ==
    LET ids == DOMAIN d.splits IN
    IF \/ d.type # "expense" \/ d.ownShare \/ ~d.splitOn \/ ids = {}
       \/ d.splitMode # "equal" /\ d.paidBy \notin ids
    THEN d
    ELSE [d EXCEPT !.splits = Shares(d.splitMode, ids, d.amount, d.paidBy, d.splitTyped)]

Reduce(d, next) == IF next.amount # d.amount THEN Resplit(next) ELSE next

\* A step of the reducer on the open form.
Step(next) ==
    /\ steps < MaxSteps
    /\ draft' = Reduce(draft, next)
    /\ steps' = steps + 1
    /\ UNCHANGED <<known, loaded, gone, saves>>

Expense == draft # None /\ draft.type = "expense"

\* Keys of the keypad, or the amount field of the panel.
PressKeys(a) == draft # None /\ Step([draft EXCEPT !.amount = a])

\* The payer chip is fixed to the member while cash is taken.
PayerLocked == draft.mode = "new" /\ Expense /\ draft.method = "cash" /\ draft.tookFrom # "none"

SwitchTypeOnly(type) ==
    /\ draft # None /\ draft.mode = "new" /\ draft.type # type
    /\ Step([draft EXCEPT !.type = type, !.touched = {}, !.splitOn = FALSE, !.cashMode = FALSE, !.tookFrom = "none",
                          !.bucketId = None, !.categoryId = None])

SwitchType(type) ==
    LET r == Sanitize(IF type = "income" THEN loaded.lastIncome ELSE loaded.last, type) IN
    /\ draft # None /\ draft.mode = "new" /\ draft.type # type
    /\ Step([draft EXCEPT !.type = type, !.touched = {}, !.ownShare = FALSE, !.splitOn = FALSE, !.splits = NoShares,
                          !.splitTyped = NoShares, !.cashMode = FALSE, !.tookFrom = "none", !.ruled = FALSE, !.stash = None,
                          !.bucketId = r.bucket, !.categoryId = r.category, !.paidBy = Or(r.payer, Me),
                          !.method = Or(r.method, DefaultMethod(type))])

\* Typing a merchant applies a household rule's category unless a category was picked.
TypeMerchant(rule) ==
    /\ draft # None
    /\ IF rule # None /\ "category" \notin draft.touched
       THEN Step([draft EXCEPT !.categoryId = rule, !.ruled = TRUE])
       ELSE Step([draft EXCEPT !.ruled = @ /\ rule # None])

PickBucket(b) ==
    /\ draft # None /\ ~draft.fixedCost
    /\ b \in Offered(draft.type) \/ (b = None /\ draft.type = "income")
    /\ LET r == IF b = None THEN NoMemory ELSE Sanitize(loaded.byBucket[b], draft.type)
       IN Step(Fill([draft EXCEPT !.bucketId = b, !.touched = @ \cup {"bucket"}], r, "bucket"))

PickCategory(c) ==
    /\ draft # None /\ c \notin gone.deleted
    /\ Step(Fill([draft EXCEPT !.categoryId = c, !.ruled = FALSE, !.touched = @ \cup {"category"}],
                 Sanitize(loaded.byCategory[c], draft.type), "category"))

\* With a new remainder holder every current share is frozen as typed: percent cannot stay percent.
PickPayer(m) ==
    LET d == [draft EXCEPT !.paidBy = m, !.ownShare = FALSE, !.splits = IF draft.ownShare THEN NoShares ELSE @,
                           !.touched = @ \cup {"payer"}] IN
    /\ draft # None /\ ~PayerLocked /\ m \in Here
    /\ Step(IF d.splitOn /\ d.splitMode # "equal" THEN [d EXCEPT !.splitMode = "amounts", !.splitTyped = d.splits] ELSE d)

\* "Each paid own share": the payer sheet offers it while no cash is taken; the split sheet asks who paid what.
EnterOwnShare(typed) ==
    /\ Expense /\ ~PayerLocked /\ Cardinality(Here) > 1 /\ draft.tookFrom = "none"
    /\ SplitFits(draft.amount, typed, TRUE)
    /\ Step([draft EXCEPT !.ownShare = TRUE, !.paidBy = None, !.splitOn = FALSE, !.splits = typed, !.splitTyped = typed,
                          !.cashMode = FALSE, !.tookFrom = "none", !.touched = @ \cup {"payer"}])

PickMethod(m) ==
    /\ Expense
    /\ Step([draft EXCEPT !.method = m, !.tookFrom = IF m = "cash" THEN @ ELSE "none", !.cashMode = @ /\ m = "cash",
                          !.stash = IF m = "cash" THEN @ ELSE None, !.touched = @ \cup {"method"}])

\* Where the cash came from: a tracked take makes the member its payer.
SetTookFrom(from) ==
    /\ Expense /\ draft.mode = "new" /\ draft.method = "cash"
    /\ LET d == [draft EXCEPT !.tookFrom = from, !.stash = IF from = "stash" THEN @ ELSE None]
       IN IF from = "none" THEN Step(d)
          ELSE Step([d EXCEPT !.paidBy = Me, !.ownShare = FALSE, !.splits = IF draft.ownShare THEN NoShares ELSE @])

\* The wallet line has read the balance: from now on Save checks against it.
ShowWallet ==
    /\ Expense /\ draft.mode = "new" /\ draft.method = "cash" /\ draft.tookFrom = "stash" /\ draft.stash = None
    /\ Step([draft EXCEPT !.stash = Stash])

\* A foreign currency comes with the last rate typed for it, or with none.
PickCurrency(foreign, rated) ==
    /\ draft # None
    /\ Step([draft EXCEPT !.foreign = foreign, !.rated = ~foreign \/ rated])

TypeRate(valid) == draft # None /\ draft.foreign /\ Step([draft EXCEPT !.rated = valid])

\* The split sheet opens from More, with what was typed before; Done needs shares that fit.
\* A payer that left takes nothing: what would be theirs is nobody's.
EnterSplit(mode, typed) ==
    LET payer == Or(draft.paidBy, Heir(Here))
        shares == Shares(mode, Here, draft.amount, payer, typed) IN
    /\ Expense /\ Cardinality(Here) > 1 /\ ~draft.ownShare
    /\ DOMAIN typed = Here \ {payer}              \* the payer's share is not a field
    /\ SplitFits(draft.amount, shares, FALSE)
    /\ Step([draft EXCEPT !.splitOn = TRUE, !.splitMode = mode, !.splits = shares,
                          !.splitTyped = IF mode = "equal" THEN NoShares ELSE typed])

ClearSplit ==
    /\ Expense /\ draft.splitOn /\ ~draft.ownShare
    /\ Step([draft EXCEPT !.splitOn = FALSE, !.splits = NoShares, !.splitTyped = NoShares])

\* A receipt's QR fills what it names, a category chosen by hand included.
ApplyScan(amount, currency, category) ==
    LET d == [draft EXCEPT !.scanned = TRUE, !.scanCategoryId = category, !.rememberRule = TRUE,
                           !.amount = Or(amount, @),
                           !.foreign = IF currency = None THEN @ ELSE currency = "foreign",
                           !.rated = IF currency = None THEN @ ELSE currency = "home",
                           !.categoryId = Or(category, @), !.ruled = @ /\ category = None] IN
    /\ Expense /\ draft.mode = "new" /\ category \notin gone.deleted
    /\ Step(d)

\* The toggle shown when the member corrected a scanned category.
SetRemember(on) ==
    /\ draft # None /\ draft.scanned /\ draft.categoryId \notin {None, draft.scanCategoryId}
    /\ Step([draft EXCEPT !.rememberRule = on])

(***************************************************************************)
(* Opening and saving.                                                     *)
(***************************************************************************)
\* A stored entry as the edit form loads it: everything counts as picked, a split as typed amounts.
FromTransaction(t) ==
    [BlankState(t.type) EXCEPT !.mode = "edit", !.entry = t, !.amount = t.amount, !.foreign = t.foreign,
        !.bucketId = t.bucket, !.fixedCost = t.type = "expense" /\ t.bucket = None /\ t.bill, !.categoryId = t.category,
        !.paidBy = IF t.ownShare THEN None ELSE t.payer, !.ownShare = t.ownShare, !.method = t.method,
        !.splitOn = ~t.ownShare /\ DOMAIN t.splits # {}, !.splitMode = "amounts", !.splits = t.splits, !.splitTyped = t.splits,
        !.touched = Fields]

Opened(d) ==
    /\ draft = None /\ saves <= MaxSaves
    /\ draft' = d /\ loaded' = known
    /\ UNCHANGED <<known, gone, steps, saves>>

\* A deleted bucket had no entries left; a deleted category was taken off its entries.
AsStored(t) == IF t.category \in gone.deleted THEN [t EXCEPT !.category = None] ELSE t

OpenNew(cash, take) == Opened(InitialNew(known, "expense", cash, take))
OpenEdit(t) == t.bucket \notin gone.deleted /\ Opened(FromTransaction(AsStored(t)))

\* "Duplicate": a new entry with the old one's values; a fixed cost has to choose a bucket.
OpenCopy(t) ==
    /\ t.bucket \notin gone.deleted
    /\ Opened([FromTransaction(AsStored(t)) EXCEPT !.mode = "new", !.entry = None, !.fixedCost = FALSE])

\* A save that goes through or is queued teaches the defaults from the record this mount has read. The phone's form
\* closes; the panel starts a new entry that keeps date, bucket and payer.
Save(inPanel) ==
    LET fresh == InitialNew(loaded, draft.type, FALSE, FALSE)
        next == [fresh EXCEPT !.bucketId = draft.bucketId, !.paidBy = Or(draft.paidBy, @)] IN
    /\ draft # None /\ CanSave(draft) /\ saves < MaxSaves
    /\ known' = Learn(loaded, draft)
    /\ saves' = saves + 1
    /\ draft' = IF inPanel /\ draft.mode = "new" THEN next ELSE None
    /\ UNCHANGED <<loaded, gone, steps>>

Close == draft # None /\ draft' = None /\ UNCHANGED <<known, loaded, gone, steps, saves>>

\* Another member archives a bucket, stops tracking its income, deletes a bucket or a category, or the owner removes a
\* member; the lists behind the pickers follow.
Vanish(how, x) ==
    /\ CASE how = "archived" -> x \in Buckets
         [] how = "untracked" -> x \in IncomeBuckets
         [] how = "deleted" -> x \in Buckets \cup Categories
         [] how = "left" -> x \in Members \ {Me}
    /\ x \notin gone[how] /\ FoldSet(LAMBDA h, n : n + Cardinality(gone[h]), 0, DOMAIN gone) < MaxGone
    /\ gone' = [gone EXCEPT ![how] = @ \cup {x}]
    /\ UNCHANGED <<draft, known, loaded, steps, saves>>

DraftInit ==
    /\ draft = None /\ known = NoDefaults /\ loaded = NoDefaults
    /\ gone = [archived |-> {}, untracked |-> {}, deleted |-> {}, left |-> {}]
    /\ steps = 0 /\ saves = 0

DraftNext ==
    \/ \E a \in Amounts : PressKeys(a)
    \/ \E type \in {"expense", "income"} : SwitchType(type)
    \/ \E rule \in (Categories \ gone.deleted) \cup {None} : TypeMerchant(rule)
    \/ \E b \in Buckets \cup {None} : PickBucket(b)
    \/ \E c \in Categories : PickCategory(c)
    \/ \E m \in Members : PickPayer(m)
    \/ \E typed \in [Here -> TypedValues] : EnterOwnShare(typed)
    \/ \E m \in {"card", "cash"} : PickMethod(m)
    \/ \E from \in {"none", "stash", "bank"} : SetTookFrom(from)
    \/ ShowWallet
    \/ \E foreign, rated \in BOOLEAN : PickCurrency(foreign, rated)
    \/ \E valid \in BOOLEAN : TypeRate(valid)
    \/ \E mode \in {"equal", "amounts", "percent"}, payer \in Members : \E typed \in [Here \ {payer} -> TypedValues] :
          EnterSplit(mode, typed)
    \/ ClearSplit
    \/ \E r \in Receipts : ApplyScan(r.amount, r.currency, r.category)
    \/ \E on \in BOOLEAN : SetRemember(on)
    \/ \E cash, take \in BOOLEAN : OpenNew(cash, take)
    \/ \E t \in Stored : OpenEdit(t) \/ OpenCopy(t)
    \/ \E inPanel \in BOOLEAN : Save(inPanel)
    \/ Close
    \/ \E how \in DOMAIN gone, x \in Buckets \cup Categories \cup Members : Vanish(how, x)

DraftSpec == DraftInit /\ [][DraftNext]_draftVars

(***************************************************************************)
(* Properties.                                                             *)
(***************************************************************************)
Value(f) ==
    CASE f = "bucket" -> draft.bucketId [] f = "category" -> draft.categoryId
      [] f = "payer" -> draft.paidBy [] f = "method" -> draft.method

\* Whatever order method, payer, type, defaults and scans come in, cash that is taken stays the member's own: the payer
\* chip is locked then (ComposerForm payerLocked), so any other payer would be a form nobody can save.
TakeIsOwn ==
    draft # None /\ draft.tookFrom # "none" =>
        Expense /\ draft.method = "cash" /\ draft.paidBy = Me /\ ~draft.ownShare

\* A split follows the amount: as long as somebody among the sharers pays the rest, through keys, scans, a new payer or
\* another mode, shares that added up to the total still do, and after every change of the amount they do (resplit).
Held(d) == d.splitMode = "equal" \/ d.paidBy \in DOMAIN d.splits
SplitAddsUp ==
    [][draft # None /\ draft' # None /\ draft.splitOn /\ draft'.splitOn /\ Held(draft') =>
        (Total(draft.splits) = draft.amount \/ draft'.amount # draft.amount => Total(draft'.splits) = draft'.amount)]_draftVars

\* A field the member picked changes only when they pick it again, with a scan that names a category, or by saying where
\* the cash came from, which makes them the payer: no default, rule or other pick takes it back (fill and touched).
Picks(f) ==
    CASE f = "bucket" -> \E b \in Buckets \cup {None} : PickBucket(b)
      [] f = "category" -> (\E c \in Categories : PickCategory(c))
                           \/ (\E r \in Receipts : r.category # None /\ ApplyScan(r.amount, r.currency, r.category))
      [] f = "payer" -> (\E m \in Members : PickPayer(m)) \/ (\E typed \in [Here -> TypedValues] : EnterOwnShare(typed))
                        \/ (\E from \in {"stash", "bank"} : SetTookFrom(from) /\ draft'.paidBy = Me)
      [] f = "method" -> \E m \in {"card", "cash"} : PickMethod(m)
PickStays ==
    [][draft # None /\ draft' # None =>
        \A f \in draft.touched \cap draft'.touched : Value(f)' = Value(f) \/ Picks(f)]_draftVars

\* What the draft names is still there, and no rule that the form does not know stands in its way: no share of zero, the
\* balance read before cash is taken from it, and a cash take that stays as it was.
StillThere(d) ==
    LET b == CreateBody(d) IN
    /\ b.bucket_id \notin gone.deleted
    /\ d.type = "income" /\ (d.entry = None \/ d.entry.type # "income" \/ d.entry.bucket # d.bucketId) =>
          d.bucketId \notin gone.untracked \cup gone.archived
    /\ d.categoryId \notin gone.deleted /\ d.paidBy \in Here \cup {None}
    /\ DOMAIN b.splits \subseteq Here /\ (\A m \in DOMAIN b.splits : b.splits[m] # 0)
    /\ b.took_cash /\ d.tookFrom = "stash" => d.stash # None
    /\ d.entry # None /\ d.entry.take # None /\ d.method = "cash" =>
          d.paidBy = d.entry.take.by /\ d.amount = d.entry.amount /\ d.foreign = d.entry.foreign

\* Whatever was typed in whatever order, for new entries, copies and edits of anything stored: what the form lets the
\* member save the server takes. Offline it is queued, and a refusal would come when nobody looks at it any more.
SaveIsAccepted ==
    draft # None /\ CanSave(draft) /\ StillThere(draft) => ServerAccepts(CreateBody(draft), draft.entry)

\* Defaults never bring back what is gone: a bucket or category that a step fills in is one the household still has.
FilledIsAlive ==
    [][draft # None /\ draft' # None =>
        /\ draft'.bucketId \in gone.archived \cup gone.deleted => draft'.bucketId = draft.bucketId
        /\ draft'.categoryId \in gone.deleted => draft'.categoryId = draft.categoryId]_draftVars

(***************************************************************************)
(* What the code and its comments say and the model refutes.               *)
(***************************************************************************)
\* "Blank is fine (0)" (splits.ts): a member may have no share. The server refuses a share of zero.
ZeroShareAccepted ==
    draft # None /\ CanSave(draft) => \A m \in DOMAIN CreateBody(draft).splits : draft.splits[m] > 0

\* What the form lets the member save the server takes, without the conditions of StillThere.
EverySaveIsAccepted ==
    draft # None /\ CanSave(draft) => ServerAccepts(CreateBody(draft), draft.entry)

\* "A split follows it" (state.ts): also when its payer has left the household or was never stored.
EverySplitFollows ==
    [][draft # None /\ draft' # None /\ draft.splitOn /\ draft'.splitOn /\ Total(draft.splits) = draft.amount =>
        Total(draft'.splits) = draft'.amount]_draftVars

\* "amounts and percent keep what was typed and the payer takes the new remainder" (state.ts): the amount alone never
\* changes the share of a member who is not the payer.
OthersKeepTheirShare ==
    [][\A a \in Amounts : PressKeys(a) /\ draft.splitOn /\ draft.splitMode = "amounts" =>
        \A m \in DOMAIN draft.splits \ {draft.paidBy} : draft'.splits[m] = draft.splits[m]]_draftVars

\* What a save taught about a category stays until an entry of that category teaches something else.
LearnedStays ==
    [][\A c \in Categories :
        known'.byCategory[c] # known.byCategory[c] => draft # None /\ draft.categoryId = c]_draftVars
=============================================================================
