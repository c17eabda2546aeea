---------------------------- MODULE FormsProofs ----------------------------
(***************************************************************************)
(* Theorems about the forms of the web app: the draft of a transaction, the*)
(* composer that saves it, and the camera of "Add to pantry"; for any      *)
(* accounts, buckets, amounts, texts, sheets and goods.                    *)
(***************************************************************************)
EXTENDS Draft, Composer, PantryAdd, DataLemmas

(***************************************************************************)
(* The draft.                                                              *)
(***************************************************************************)
DraftFields ==
    {"mode", "entry", "type", "amount", "foreign", "rated", "bucketId", "fixedCost", "categoryId", "ruled", "paidBy",
     "ownShare", "method", "tookFrom", "cashMode", "splitOn", "splitMode", "splits", "splitTyped", "stash", "scanned",
     "scanCategoryId", "rememberRule", "touched"}
IsCents(s) == s \in [DOMAIN s -> Int] /\ DOMAIN s \subseteq Members
BucketsOf(type) == IF type = "income" THEN IncomeBuckets ELSE Buckets

\* What an edit keeps of the entry it was opened with; a new entry was opened with none.
EntryOK(d) ==
    /\ d.mode = "new" => d.entry = None
    /\ d.fixedCost => d.entry # None /\ d.entry.bill /\ d.entry.bucket = None /\ d.type = "expense"
    /\ d.entry # None /\ ~d.ownShare => d.paidBy # None \/ d.entry.payer = None
    /\ d.ownShare => d.paidBy = None
    /\ d.entry # None /\ d.entry.take # None => d.entry.take.by # None

\* Only an expense is split, or paid by everyone's own share.
DraftOK(d) ==
    /\ DOMAIN d = DraftFields
    /\ d.type \in {"expense", "income"} /\ d.amount \in Nat
    /\ d.bucketId \in BucketsOf(d.type) \cup {None}
    /\ IsCents(d.splits) /\ IsCents(d.splitTyped) /\ d.splitMode \in {"equal", "amounts", "percent"}
    /\ d.ownShare \in BOOLEAN /\ d.splitOn \in BOOLEAN /\ d.fixedCost \in BOOLEAN
    /\ d.ownShare \/ d.splitOn => d.type = "expense" /\ DOMAIN d.splits # {}
    /\ ~(d.ownShare /\ d.splitOn)
    /\ d.paidBy \in Members \cup {None} /\ d.stash \in {None, Stash} /\ d.touched \subseteq Fields
TakeOK(d) ==
    d.tookFrom # "none" =>
        d.mode = "new" /\ d.type = "expense" /\ d.method = "cash" /\ d.paidBy = Me /\ ~d.ownShare
FormOK(d) == DraftOK(d) /\ EntryOK(d) /\ TakeOK(d)

\* What is remembered of a save.
DefaultsOK(rec) ==
    /\ DOMAIN rec = {"last", "lastIncome", "byCategory", "byBucket"}
    /\ DOMAIN rec.last = Fields /\ DOMAIN rec.lastIncome = Fields
    /\ \A c \in Categories : DOMAIN rec.byCategory[c] = Fields
    /\ \A b \in Buckets : DOMAIN rec.byBucket[b] = Fields
GoneOK == DOMAIN gone = {"archived", "untracked", "deleted", "left"} /\ Me \notin gone.left
DraftInv == (draft # None => FormOK(draft)) /\ DefaultsOK(known) /\ DefaultsOK(loaded) /\ GoneOK

\* What a step may do to a split: the body of SplitAddsUp.
AddsUp ==
    draft # None /\ draft' # None /\ draft.splitOn /\ draft'.splitOn /\ Held(draft') =>
        (Total(draft.splits) = draft.amount \/ draft'.amount # draft.amount => Total(draft'.splits) = draft'.amount)

\* A form that the reducer may be asked for: the split stays, or adds up, or is left to follow the amount.
SplitKept(d) == d.splitOn /\ Held(d) /\ d.amount = draft.amount => d.splits = draft.splits \/ Total(d.splits) = d.amount
GoodNext(d) == FormOK(d) /\ SplitKept(d)

LEMMA TotalIs == ASSUME NEW s PROVE Total(s) = SumOver(s, DOMAIN s)
BY DEF Total, SumOver

LEMMA TotalIsInt == ASSUME NEW s, IsCents(s) PROVE Total(s) \in Int
<1>1. IsFiniteSet(DOMAIN s) /\ \A m \in DOMAIN s : s[m] \in Int
  BY DraftAssumption, FS_Subset DEF IsCents
<1> QED BY <1>1, SumInt, TotalIs

LEMMA RestIs ==
  ASSUME NEW total \in Int, NEW payer, NEW s, IsCents(s)
  PROVE  /\ IsCents(Rest(total, payer, s)) /\ DOMAIN Rest(total, payer, s) = DOMAIN s
         /\ payer \in DOMAIN s => Total(Rest(total, payer, s)) = total
<1> DEFINE rest == total - (Total(s) - s[payer])
           e == [s EXCEPT ![payer] = rest]
<1>1. CASE payer \in DOMAIN s
  <2>1. Total(s) \in Int /\ s[payer] \in Int
    BY <1>1, TotalIsInt DEF IsCents
  <2>2. rest \in Int /\ Total(s) + rest - s[payer] = total
    BY <2>1
  <2>3. IsCents(e) /\ DOMAIN e = DOMAIN s /\ e[payer] = rest /\ \A m \in DOMAIN s \ {payer} : s[m] = e[m]
    <3> HIDE DEF rest
    <3> QED BY <1>1, <2>2 DEF IsCents
  <2>4. \A m \in DOMAIN s : s[m] \in Int /\ e[m] \in Int
    <3> HIDE DEF e
    <3> QED BY <2>3 DEF IsCents
  <2>5. IsFiniteSet(DOMAIN s)
    BY DraftAssumption, FS_Subset DEF IsCents
  <2>6. SumOver(e, DOMAIN s) = SumOver(s, DOMAIN s) + e[payer] - s[payer]
    <3> HIDE DEF e
    <3> QED BY <1>1, <2>3, <2>4, <2>5, SumChange
  <2>7. Total(e) = Total(s) + rest - s[payer]
    <3> HIDE DEF e, rest
    <3> QED BY <2>3, <2>6, TotalIs
  <2>8. Rest(total, payer, s) = e
    BY <1>1 DEF Rest
  <2> HIDE DEF e, rest
  <2> QED BY <2>2, <2>3, <2>7, <2>8
<1>2. CASE payer \notin DOMAIN s
  BY <1>2 DEF Rest
<1> QED BY <1>1, <1>2

LEMMA SharesAre ==
  ASSUME NEW mode \in {"equal", "amounts", "percent"}, NEW ids \in SUBSET Members, ids # {}, NEW total \in Nat, NEW payer,
         NEW given, IsCents(given)
  PROVE  /\ IsCents(Shares(mode, ids, total, payer, given)) /\ DOMAIN Shares(mode, ids, total, payer, given) = ids
         /\ mode = "equal" \/ payer \in ids => Total(Shares(mode, ids, total, payer, given)) = total
<1>1. \A m : TypedFor(given, m) \in Int
  BY DEF TypedFor, IsCents
<1>2. CASE mode = "equal"
  <2> DEFINE n == Cardinality(ids)
             each == [m \in ids |-> total \div n]
             to == IF payer \in ids THEN payer ELSE Heir(ids)
  <2>1. n \in Nat /\ n # 0
    BY DraftAssumption, FS_Subset, FS_CardinalityType, FS_EmptySet
  <2>2. to \in ids
    BY DEF Heir
  <2>3. total \div n \in Int
    <3> HIDE DEF n
    <3> QED BY <2>1
  <2>4. IsCents(each) /\ DOMAIN each = ids
    <3> HIDE DEF n
    <3> QED BY <2>3 DEF IsCents
  <2>5. IsCents(Rest(total, to, each)) /\ DOMAIN Rest(total, to, each) = ids /\ Total(Rest(total, to, each)) = total
    <3> HIDE DEF each, to
    <3> QED BY <2>2, <2>4, RestIs
  <2> QED BY <1>2, <2>5 DEF Shares, EqualShares
<1>3. CASE mode = "amounts"
  <2> DEFINE each == [m \in ids |-> TypedFor(given, m)]
  <2>1. IsCents(each) /\ DOMAIN each = ids
    BY <1>1 DEF IsCents
  <2>2. IsCents(Rest(total, payer, each)) /\ DOMAIN Rest(total, payer, each) = ids
        /\ (payer \in ids => Total(Rest(total, payer, each)) = total)
    <3> HIDE DEF each
    <3> QED BY <2>1, RestIs
  <2> QED BY <1>3, <2>2 DEF Shares, AmountShares
<1>4. CASE mode = "percent"
  <2> DEFINE each == [m \in ids |-> (total * TypedFor(given, m)) \div 100]
  <2>1. \A m \in ids : total * TypedFor(given, m) \in Int
    BY <1>1
  <2>2. IsCents(each) /\ DOMAIN each = ids
    BY <2>1 DEF IsCents
  <2>3. IsCents(Rest(total, payer, each)) /\ DOMAIN Rest(total, payer, each) = ids
        /\ (payer \in ids => Total(Rest(total, payer, each)) = total)
    <3> HIDE DEF each
    <3> QED BY <2>2, RestIs
  <2> QED BY <1>4, <2>3 DEF Shares, PercentShares
<1> QED BY <1>2, <1>3, <1>4

LEMMA NoSharesAre == IsCents(NoShares) /\ DOMAIN NoShares = {}
BY DEF NoShares, IsCents

\* The reducer takes the split along with the amount.
LEMMA ReducedOK ==
  ASSUME NEW next, GoodNext(next)
  PROVE  /\ FormOK(Reduce(draft, next))
         /\ LET d == Reduce(draft, next) IN
            d.splitOn /\ Held(d) => IF d.amount = draft.amount THEN d.splits = draft.splits \/ Total(d.splits) = d.amount
                                                               ELSE Total(d.splits) = d.amount
<1> DEFINE ids == DOMAIN next.splits
           s == Shares(next.splitMode, ids, next.amount, next.paidBy, next.splitTyped)
           d == [next EXCEPT !.splits = s]
<1>1. FormOK(next) /\ DOMAIN next = DraftFields
  BY DEF GoodNext, FormOK, DraftOK
<1>2. CASE next.amount = draft.amount
  BY <1>1, <1>2 DEF Reduce, GoodNext, SplitKept
<1>3. CASE next.amount # draft.amount /\ next.splitOn /\ Held(next)
  <2>1. /\ next.type = "expense" /\ ~next.ownShare /\ ids # {} /\ ids \in SUBSET Members /\ next.amount \in Nat
        /\ next.splitMode \in {"equal", "amounts", "percent"} /\ IsCents(next.splitTyped)
        /\ next.splitMode = "equal" \/ next.paidBy \in ids
    BY <1>1, <1>3 DEF FormOK, DraftOK, IsCents, Held
  <2>2. IsCents(s) /\ DOMAIN s = ids /\ Total(s) = next.amount
    BY <2>1, SharesAre
  <2>3. Reduce(draft, next) = d
    BY <1>3, <2>1 DEF Reduce, Resplit
  <2> HIDE DEF s
  <2>4. FormOK(d) /\ d.splits = s /\ d.amount = next.amount
    BY <1>1, <2>1, <2>2 DEF FormOK, DraftOK, EntryOK, TakeOK, DraftFields
  <2> HIDE DEF d
  <2> QED BY <1>3, <2>2, <2>3, <2>4
<1>4. CASE next.amount # draft.amount /\ ~(next.splitOn /\ Held(next))
  <2>1. next.splitOn \in BOOLEAN
    BY <1>1 DEF FormOK, DraftOK
  <2>2. Reduce(draft, next) = next
    BY <1>4, <2>1 DEF Reduce, Resplit, Held
  <2> QED BY <1>1, <1>4, <2>2
<1> QED BY <1>2, <1>3, <1>4

\* A step of the reducer to a form of the right kind.
LEMMA ReducerStep ==
  ASSUME DraftInv, NEW next, GoodNext(next), Step(next)
  PROVE  DraftInv' /\ AddsUp
<1> DEFINE d == Reduce(draft, next)
<1>1. draft' = d /\ UNCHANGED <<known, loaded, gone>>
  BY DEF Step
<1>2. FormOK(d) /\ (d.splitOn /\ Held(d) => IF d.amount = draft.amount THEN d.splits = draft.splits \/ Total(d.splits) = d.amount
                                                                         ELSE Total(d.splits) = d.amount)
  BY ReducedOK
<1> HIDE DEF d
<1>3. DraftInv'
  BY <1>1, <1>2 DEF DraftInv, GoneOK
<1>4. AddsUp
  BY <1>1, <1>2 DEF AddsUp
<1> QED BY <1>3, <1>4

LEMMA SanitizedIs ==
  ASSUME NEW r, NEW type, DOMAIN r = Fields
  PROVE  Sanitize(r, type).payer \in Members \cup {None} /\ Sanitize(r, type).bucket \in BucketsOf(type) \cup {None}
BY DEF Sanitize, Fields, Here, Offered, BucketsOf

LEMMA FilledOK ==
  ASSUME NEW d, NEW r, NEW except, FormOK(d), d.splits = draft.splits, r.payer \in Members \cup {None},
         r.bucket \in BucketsOf(d.type) \cup {None}
  PROVE  GoodNext(Fill(d, r, except))
<1> DEFINE free == Fields \ (d.touched \cup {except})
           pinned == d.cashMode \/ d.tookFrom # "none"
           method == IF "method" \in free /\ ~pinned /\ d.type = "expense" THEN Or(r.method, d.method) ELSE d.method
           category == IF "category" \in free THEN Or(r.category, d.categoryId) ELSE d.categoryId
           bucket == IF "bucket" \in free /\ ~d.fixedCost THEN Or(r.bucket, d.bucketId) ELSE d.bucketId
           payer == IF "payer" \in free /\ ~pinned /\ ~d.ownShare THEN Or(r.payer, d.paidBy) ELSE d.paidBy
           took == IF method = "cash" THEN d.tookFrom ELSE "none"
           next == [d EXCEPT !.bucketId = bucket, !.categoryId = category, !.ruled = @ /\ category = d.categoryId,
                             !.paidBy = payer, !.method = method, !.tookFrom = took]
<1>1. DOMAIN d = DraftFields
  BY DEF FormOK, DraftOK
<1>2. Fill(d, r, except) = next
  BY <1>1 DEF Fill, DraftFields
<1>3. payer = d.paidBy \/ (payer \in Members /\ ~d.ownShare)
  BY DraftAssumption DEF Or
<1>4. d.tookFrom # "none" => payer = d.paidBy /\ method = d.method
  OBVIOUS
<1>5. took = d.tookFrom \/ took = "none"
  OBVIOUS
<1>6. bucket \in BucketsOf(d.type) \cup {None}
  BY DEF FormOK, DraftOK, Or
<1> HIDE DEF bucket, category, payer, method, took
<1>7. DraftOK(next) /\ next.splits = draft.splits
  BY <1>3, <1>6 DEF FormOK, DraftOK, DraftFields
<1>8. TakeOK(next)
  BY <1>1, <1>4, <1>5 DEF FormOK, TakeOK, DraftFields
<1>9. EntryOK(next)
  BY <1>1, <1>3, DraftAssumption DEF FormOK, EntryOK, DraftFields
<1> HIDE DEF next
<1> QED BY <1>2, <1>7, <1>8, <1>9 DEF GoodNext, FormOK, SplitKept

LEMMA BlankOK ==
  ASSUME NEW type \in {"expense", "income"}
  PROVE  LET d == BlankState(type) IN
         /\ FormOK(d) /\ d.tookFrom = "none" /\ ~d.splitOn /\ ~d.ownShare /\ d.type = type /\ d.mode = "new" /\ d.entry = None
         /\ ~d.fixedCost /\ d.touched = {} /\ d.stash = None
BY NoSharesAre, DraftAssumption
   DEF BlankState, FormOK, DraftOK, EntryOK, DraftFields, TakeOK, BucketsOf, Fields

LEMMA NewOK ==
  ASSUME NEW defaults, DefaultsOK(defaults), NEW type \in {"expense", "income"}, NEW cash \in BOOLEAN, NEW take \in BOOLEAN
  PROVE  LET d == InitialNew(defaults, type, cash, take) IN
         /\ FormOK(d) /\ d.mode = "new" /\ d.type = type /\ d.touched = {} /\ ~d.splitOn
         /\ ~(cash /\ type = "expense") => d.tookFrom = "none" /\ ~d.ownShare
<1> DEFINE r == Sanitize(IF type = "income" THEN defaults.lastIncome ELSE defaults.last, type)
           payer == Or(r.payer, Me)
           method == Or(r.method, DefaultMethod(type))
           blank == BlankState(type)
           d == [blank EXCEPT !.bucketId = r.bucket, !.categoryId = r.category, !.paidBy = payer, !.method = method]
<1>1. r.payer \in Members \cup {None} /\ r.bucket \in BucketsOf(type) \cup {None}
  BY SanitizedIs DEF DefaultsOK
<1>2. InitialNew(defaults, type, cash, take) \in {d, CashOn(d), [CashOn(d) EXCEPT !.tookFrom = "none"]}
      /\ (~(cash /\ type = "expense") => InitialNew(defaults, type, cash, take) = d)
  BY DEF InitialNew, BlankState
<1>3. payer \in Members
  <2> HIDE DEF r
  <2> QED BY <1>1, DraftAssumption DEF Or
<1>4. /\ FormOK(blank) /\ blank.tookFrom = "none" /\ ~blank.splitOn /\ ~blank.ownShare /\ blank.type = type /\ blank.mode = "new"
      /\ blank.touched = {} /\ blank.entry = None
  BY BlankOK
<1> HIDE DEF r, payer, method, blank
<1>5. /\ FormOK(d) /\ d.tookFrom = "none" /\ ~d.splitOn /\ ~d.ownShare /\ d.type = type /\ d.mode = "new" /\ d.touched = {}
      /\ d.entry = None
  BY <1>1, <1>3, <1>4, DraftAssumption DEF FormOK, DraftOK, EntryOK, DraftFields, TakeOK
<1> HIDE DEF d
<1>6. ASSUME type = "expense", NEW from \in {"stash", "none"}
      PROVE  LET x == [CashOn(d) EXCEPT !.tookFrom = from] IN
             FormOK(x) /\ x.mode = "new" /\ x.type = type /\ x.touched = {} /\ ~x.splitOn
  <2> DEFINE x == [d EXCEPT !.cashMode = TRUE, !.method = "cash", !.tookFrom = from, !.paidBy = Me]
  <2>1. [CashOn(d) EXCEPT !.tookFrom = from] = x
    BY <1>5 DEF CashOn, FormOK, DraftOK, DraftFields
  <2>2. DraftOK(x) /\ x.mode = "new" /\ x.type = type /\ x.touched = {} /\ ~x.splitOn
    BY <1>5, DraftAssumption DEF FormOK, DraftOK, DraftFields
  <2>3. EntryOK(x) /\ TakeOK(x)
    BY <1>5, <1>6 DEF FormOK, DraftOK, EntryOK, DraftFields, TakeOK
  <2> HIDE DEF x
  <2> QED BY <2>1, <2>2, <2>3 DEF FormOK
<1>7. CashOn(d) = [CashOn(d) EXCEPT !.tookFrom = "stash"]
  BY <1>5 DEF CashOn, FormOK, DraftOK, DraftFields
<1> QED BY <1>2, <1>5, <1>6, <1>7

LEMMA InputStep ==
  ASSUME DraftInv,
         \/ \E a \in Amounts : PressKeys(a)
         \/ \E type \in {"expense", "income"} : SwitchType(type)
         \/ \E rule \in (Categories \ gone.deleted) \cup {None} : TypeMerchant(rule)
         \/ \E foreign, rated \in BOOLEAN : PickCurrency(foreign, rated)
         \/ \E valid \in BOOLEAN : TypeRate(valid)
         \/ \E on \in BOOLEAN : SetRemember(on)
  PROVE  DraftInv' /\ AddsUp
<1>1. FormOK(draft) /\ DefaultsOK(loaded)
  BY DEF DraftInv, PressKeys, SwitchType, TypeMerchant, PickCurrency, TypeRate, SetRemember
<1>2. ASSUME NEW a \in Amounts, PressKeys(a) PROVE DraftInv' /\ AddsUp
  <2>1. GoodNext([draft EXCEPT !.amount = a])
    BY <1>1, DraftAssumption DEF FormOK, GoodNext, DraftOK, EntryOK, DraftFields, SplitKept, TakeOK
  <2> QED BY <1>2, <2>1, ReducerStep DEF PressKeys
<1>3. ASSUME NEW type \in {"expense", "income"}, SwitchType(type) PROVE DraftInv' /\ AddsUp
  <2> DEFINE r == Sanitize(IF type = "income" THEN loaded.lastIncome ELSE loaded.last, type)
             payer == Or(r.payer, Me)
             method == Or(r.method, DefaultMethod(type))
             next == [draft EXCEPT !.type = type, !.touched = {}, !.ownShare = FALSE, !.splitOn = FALSE, !.splits = NoShares,
                          !.splitTyped = NoShares, !.cashMode = FALSE, !.tookFrom = "none", !.ruled = FALSE, !.stash = None,
                          !.bucketId = r.bucket, !.categoryId = r.category, !.paidBy = payer, !.method = method]
  <2>1. Step(next) /\ draft.mode = "new"
    BY <1>3 DEF SwitchType
  <2>2. r.payer \in Members \cup {None} /\ r.bucket \in BucketsOf(type) \cup {None}
    BY <1>1, SanitizedIs DEF DefaultsOK
  <2> HIDE DEF r
  <2>3. payer \in Members
    BY <2>2, DraftAssumption DEF Or
  <2> HIDE DEF payer, method
  <2>4. DraftOK(next)
    BY <1>1, <2>2, <2>3, NoSharesAre DEF FormOK, DraftOK, DraftFields, Fields
  <2>5. EntryOK(next) /\ TakeOK(next) /\ SplitKept(next)
    BY <1>1, <2>1 DEF FormOK, DraftOK, EntryOK, DraftFields, SplitKept, TakeOK
  <2> HIDE DEF next
  <2> QED BY <2>1, <2>4, <2>5, ReducerStep DEF GoodNext, FormOK
<1>4. ASSUME NEW rule, TypeMerchant(rule) PROVE DraftInv' /\ AddsUp
  <2>1. /\ GoodNext([draft EXCEPT !.categoryId = rule, !.ruled = TRUE])
        /\ GoodNext([draft EXCEPT !.ruled = @ /\ rule # None])
    BY <1>1 DEF FormOK, GoodNext, DraftOK, EntryOK, DraftFields, SplitKept, TakeOK
  <2> QED BY <1>4, <2>1, ReducerStep DEF TypeMerchant
<1>5. ASSUME NEW foreign \in BOOLEAN, NEW rated \in BOOLEAN, PickCurrency(foreign, rated) PROVE DraftInv' /\ AddsUp
  <2>1. GoodNext([draft EXCEPT !.foreign = foreign, !.rated = ~foreign \/ rated])
    BY <1>1 DEF FormOK, GoodNext, DraftOK, EntryOK, DraftFields, SplitKept, TakeOK
  <2> QED BY <1>5, <2>1, ReducerStep DEF PickCurrency
<1>6. ASSUME NEW valid \in BOOLEAN, TypeRate(valid) PROVE DraftInv' /\ AddsUp
  <2>1. GoodNext([draft EXCEPT !.rated = valid])
    BY <1>1 DEF FormOK, GoodNext, DraftOK, EntryOK, DraftFields, SplitKept, TakeOK
  <2> QED BY <1>6, <2>1, ReducerStep DEF TypeRate
<1>7. ASSUME NEW on \in BOOLEAN, SetRemember(on) PROVE DraftInv' /\ AddsUp
  <2>1. GoodNext([draft EXCEPT !.rememberRule = on])
    BY <1>1 DEF FormOK, GoodNext, DraftOK, EntryOK, DraftFields, SplitKept, TakeOK
  <2> QED BY <1>7, <2>1, ReducerStep DEF SetRemember
<1> QED BY <1>2, <1>3, <1>4, <1>5, <1>6, <1>7

LEMMA PickStep ==
  ASSUME DraftInv,
         \/ \E b \in Buckets \cup {None} : PickBucket(b)
         \/ \E c \in Categories : PickCategory(c)
         \/ \E m \in Members : PickPayer(m)
         \/ \E m \in {"card", "cash"} : PickMethod(m)
         \/ \E from \in {"none", "stash", "bank"} : SetTookFrom(from)
         \/ ShowWallet
  PROVE  DraftInv' /\ AddsUp
<1>1. FormOK(draft) /\ DefaultsOK(loaded)
  BY DEF DraftInv, PickBucket, PickCategory, PickPayer, PickMethod, SetTookFrom, ShowWallet, Expense
<1>2. ASSUME NEW b \in Buckets \cup {None}, PickBucket(b) PROVE DraftInv' /\ AddsUp
  <2> DEFINE d == [draft EXCEPT !.bucketId = b, !.touched = @ \cup {"bucket"}]
             r == IF b = None THEN NoMemory ELSE Sanitize(loaded.byBucket[b], draft.type)
  <2>1. b \in BucketsOf(draft.type) \cup {None} /\ "bucket" \in Fields
    BY <1>2 DEF PickBucket, Offered, BucketsOf, Fields
  <2>2. FormOK(d) /\ d.splits = draft.splits /\ d.type = draft.type
    BY <1>1, <2>1 DEF FormOK, DraftOK, EntryOK, DraftFields, TakeOK
  <2>3. Step(Fill(d, r, "bucket"))
    BY <1>2 DEF PickBucket
  <2>4. r.payer \in Members \cup {None} /\ r.bucket \in BucketsOf(draft.type) \cup {None}
    <3>1. b # None => DOMAIN loaded.byBucket[b] = Fields
      BY <1>1, <1>2 DEF PickBucket, Offered, DefaultsOK
    <3> QED BY <3>1, SanitizedIs DEF NoMemory
  <2> HIDE DEF d, r
  <2>5. GoodNext(Fill(d, r, "bucket"))
    BY <2>2, <2>4, FilledOK
  <2> QED BY <2>3, <2>5, ReducerStep
<1>3. ASSUME NEW c \in Categories, PickCategory(c) PROVE DraftInv' /\ AddsUp
  <2> DEFINE d == [draft EXCEPT !.categoryId = c, !.ruled = FALSE, !.touched = @ \cup {"category"}]
             r == Sanitize(loaded.byCategory[c], draft.type)
  <2>1. FormOK(d) /\ d.splits = draft.splits /\ d.type = draft.type
    BY <1>1 DEF FormOK, DraftOK, EntryOK, DraftFields, TakeOK, Fields
  <2>2. Step(Fill(d, r, "category"))
    BY <1>3 DEF PickCategory
  <2>3. r.payer \in Members \cup {None} /\ r.bucket \in BucketsOf(draft.type) \cup {None}
    BY <1>1, SanitizedIs DEF DefaultsOK
  <2> HIDE DEF d, r
  <2>4. GoodNext(Fill(d, r, "category"))
    BY <2>1, <2>3, FilledOK
  <2> QED BY <2>2, <2>4, ReducerStep
<1>4. ASSUME NEW m \in Members, PickPayer(m) PROVE DraftInv' /\ AddsUp
  <2> DEFINE shares == IF draft.ownShare THEN NoShares ELSE draft.splits
             d == [draft EXCEPT !.paidBy = m, !.ownShare = FALSE, !.splits = shares, !.touched = @ \cup {"payer"}]
             e == [d EXCEPT !.splitMode = "amounts", !.splitTyped = d.splits]
  <2>1. d = [draft EXCEPT !.paidBy = m, !.ownShare = FALSE, !.splits = IF draft.ownShare THEN NoShares ELSE @,
                          !.touched = @ \cup {"payer"}]
    BY <1>1 DEF FormOK, DraftOK, DraftFields
  <2>2. Step(IF d.splitOn /\ d.splitMode # "equal" THEN e ELSE d)
    BY <1>4, <2>1 DEF PickPayer
  <2>3. draft.tookFrom = "none"
    BY <1>1, <1>4 DEF PickPayer, PayerLocked, Expense, FormOK, TakeOK
  <2>4. IsCents(shares) /\ (draft.splitOn => shares = draft.splits)
    BY <1>1, NoSharesAre DEF FormOK, DraftOK
  <2> HIDE DEF shares
  <2>5. DraftOK(d) /\ d.splits = shares /\ d.splitOn = draft.splitOn
    BY <1>1, <2>4 DEF FormOK, DraftOK, DraftFields, Fields
  <2>6. EntryOK(d) /\ TakeOK(d) /\ SplitKept(d)
    BY <1>1, <2>3, <2>4, DraftAssumption DEF FormOK, DraftOK, EntryOK, DraftFields, SplitKept, TakeOK
  <2> HIDE DEF d
  <2>7. DraftOK(e) /\ e.splits = d.splits /\ e.splitOn = d.splitOn
    BY <2>5 DEF DraftOK, DraftFields
  <2>8. EntryOK(e) /\ TakeOK(e) /\ SplitKept(e)
    BY <2>4, <2>5, <2>6 DEF DraftOK, EntryOK, DraftFields, SplitKept, TakeOK
  <2> HIDE DEF e
  <2> QED BY <2>2, <2>5, <2>6, <2>7, <2>8, ReducerStep DEF GoodNext, FormOK
<1>5. ASSUME NEW m \in {"card", "cash"}, PickMethod(m) PROVE DraftInv' /\ AddsUp
  <2> DEFINE d == [draft EXCEPT !.method = m, !.tookFrom = IF m = "cash" THEN @ ELSE "none", !.cashMode = @ /\ m = "cash",
                          !.stash = IF m = "cash" THEN @ ELSE None, !.touched = @ \cup {"method"}]
  <2>1. DraftOK(d)
    BY <1>1 DEF FormOK, DraftOK, DraftFields, Fields
  <2>2. EntryOK(d) /\ TakeOK(d) /\ SplitKept(d)
    BY <1>1 DEF FormOK, DraftOK, EntryOK, DraftFields, SplitKept, TakeOK
  <2>3. Step(d)
    BY <1>5 DEF PickMethod
  <2> HIDE DEF d
  <2> QED BY <2>1, <2>2, <2>3, ReducerStep DEF GoodNext, FormOK
<1>6. ASSUME NEW from \in {"none", "stash", "bank"}, SetTookFrom(from) PROVE DraftInv' /\ AddsUp
  <2> DEFINE shares == IF draft.ownShare THEN NoShares ELSE draft.splits
             stash == IF from = "stash" THEN draft.stash ELSE None
             d == [draft EXCEPT !.tookFrom = from, !.stash = stash]
             e == [draft EXCEPT !.tookFrom = from, !.stash = stash, !.paidBy = Me, !.ownShare = FALSE, !.splits = shares]
  <2>1. draft.type = "expense" /\ draft.mode = "new" /\ draft.method = "cash"
    BY <1>6 DEF SetTookFrom, Expense
  <2>2. IF from = "none" THEN Step(d) ELSE Step(e)
    BY <1>1, <1>6 DEF SetTookFrom, FormOK, DraftOK, DraftFields
  <2>3. stash \in {None, Stash} /\ IsCents(shares) /\ (draft.splitOn => shares = draft.splits)
    BY <1>1, NoSharesAre DEF FormOK, DraftOK
  <2> HIDE DEF shares, stash
  <2>4. DraftOK(d) /\ DraftOK(e)
    BY <1>1, <2>1, <2>3, DraftAssumption DEF FormOK, DraftOK, DraftFields
  <2>5. EntryOK(d) /\ EntryOK(e) /\ TakeOK(e) /\ SplitKept(d) /\ SplitKept(e) /\ (from = "none" => TakeOK(d))
    BY <1>1, <2>1, <2>3 DEF FormOK, DraftOK, EntryOK, DraftFields, SplitKept, TakeOK
  <2> HIDE DEF d, e
  <2> QED BY <2>2, <2>4, <2>5, ReducerStep DEF GoodNext, FormOK
<1>7. CASE ShowWallet
  <2>1. GoodNext([draft EXCEPT !.stash = Stash])
    BY <1>1 DEF FormOK, GoodNext, DraftOK, EntryOK, DraftFields, SplitKept, TakeOK
  <2> QED BY <1>7, <2>1, ReducerStep DEF ShowWallet
<1> QED BY <1>2, <1>3, <1>4, <1>5, <1>6, <1>7

\* What is typed for some of the household.
LEMMA TypedAreCents ==
  ASSUME NEW S, S \subseteq Members, NEW given \in [S -> TypedValues]
  PROVE  IsCents(given) /\ DOMAIN given = S
<1>1. given \in [S -> Int] /\ DOMAIN given = S
  BY DraftAssumption
<1> QED BY <1>1 DEF IsCents

LEMMA SplitStep ==
  ASSUME DraftInv,
         \/ \E fields \in [Here -> TypedValues] : EnterOwnShare(fields)
         \/ \E mode \in {"equal", "amounts", "percent"}, payer \in Members : \E fields \in [Here \ {payer} -> TypedValues] :
               EnterSplit(mode, fields)
         \/ ClearSplit
         \/ \E r \in Receipts : ApplyScan(r.amount, r.currency, r.category)
  PROVE  DraftInv' /\ AddsUp
<1>1. FormOK(draft)
  BY DEF DraftInv, EnterOwnShare, EnterSplit, ClearSplit, ApplyScan, Expense
<1>h. Here \in SUBSET Members
  BY DEF Here
<1>s. Cardinality(Here) > 1 => Here # {}
  BY FS_EmptySet
<1>2. ASSUME NEW fields \in [Here -> TypedValues], EnterOwnShare(fields) PROVE DraftInv' /\ AddsUp
  <2> DEFINE next == [draft EXCEPT !.ownShare = TRUE, !.paidBy = None, !.splitOn = FALSE, !.splits = fields,
                          !.splitTyped = fields, !.cashMode = FALSE, !.tookFrom = "none", !.touched = @ \cup {"payer"}]
  <2>1. Step(next) /\ draft.type = "expense" /\ Here # {}
    BY <1>2, <1>s DEF EnterOwnShare, Expense
  <2>2. IsCents(fields) /\ DOMAIN fields = Here
    BY <1>h, TypedAreCents
  <2>3. DraftOK(next)
    BY <1>1, <2>1, <2>2 DEF FormOK, DraftOK, DraftFields, Fields
  <2>4. EntryOK(next) /\ TakeOK(next) /\ SplitKept(next)
    BY <1>1, <2>1 DEF FormOK, DraftOK, EntryOK, DraftFields, SplitKept, TakeOK
  <2> HIDE DEF next
  <2> QED BY <2>1, <2>3, <2>4, ReducerStep DEF GoodNext, FormOK
<1>3. ASSUME NEW mode \in {"equal", "amounts", "percent"}, NEW p \in Members, NEW fields \in [Here \ {p} -> TypedValues],
             EnterSplit(mode, fields)
      PROVE  DraftInv' /\ AddsUp
  <2> DEFINE payer == Or(draft.paidBy, Heir(Here))
             shares == Shares(mode, Here, draft.amount, payer, fields)
             kept == IF mode = "equal" THEN NoShares ELSE fields
             next == [draft EXCEPT !.splitOn = TRUE, !.splitMode = mode, !.splits = shares, !.splitTyped = kept]
  <2>1. Step(next) /\ draft.type = "expense" /\ ~draft.ownShare /\ Here # {}
    BY <1>3, <1>s DEF EnterSplit, Expense
  <2>2. IsCents(fields)
    BY <1>h, TypedAreCents
  <2>3. draft.amount \in Nat
    BY <1>1 DEF FormOK, DraftOK
  <2>4. draft.paidBy \in Here => payer \in Here
    BY DraftAssumption, <1>h DEF Or
  <2>5. IsCents(shares) /\ DOMAIN shares = Here /\ (mode = "equal" \/ draft.paidBy \in Here => Total(shares) = draft.amount)
    <3> HIDE DEF payer
    <3> QED BY <1>h, <2>1, <2>2, <2>3, <2>4, SharesAre
  <2>6. IsCents(kept)
    BY <2>2, NoSharesAre
  <2> HIDE DEF shares, kept
  <2>7. DraftOK(next)
    BY <1>1, <2>1, <2>5, <2>6 DEF FormOK, DraftOK, DraftFields
  <2>8. EntryOK(next) /\ TakeOK(next)
    BY <1>1 DEF FormOK, DraftOK, EntryOK, DraftFields, TakeOK
  <2>9. SplitKept(next)
    BY <1>1, <2>5 DEF FormOK, DraftOK, DraftFields, SplitKept, Held
  <2> HIDE DEF next
  <2> QED BY <2>1, <2>7, <2>8, <2>9, ReducerStep DEF GoodNext, FormOK
<1>4. CASE ClearSplit
  <2> DEFINE next == [draft EXCEPT !.splitOn = FALSE, !.splits = NoShares, !.splitTyped = NoShares]
  <2>1. Step(next) /\ ~draft.ownShare
    BY <1>4 DEF ClearSplit
  <2>2. DraftOK(next)
    BY <1>1, <2>1, NoSharesAre DEF FormOK, DraftOK, DraftFields
  <2>3. EntryOK(next) /\ TakeOK(next) /\ SplitKept(next)
    BY <1>1 DEF FormOK, DraftOK, EntryOK, DraftFields, SplitKept, TakeOK
  <2> HIDE DEF next
  <2> QED BY <2>1, <2>2, <2>3, ReducerStep DEF GoodNext, FormOK
<1>5. ASSUME NEW r \in Receipts, ApplyScan(r.amount, r.currency, r.category) PROVE DraftInv' /\ AddsUp
  <2> DEFINE amount == Or(r.amount, draft.amount)
             next == [draft EXCEPT !.scanned = TRUE, !.scanCategoryId = r.category, !.rememberRule = TRUE, !.amount = amount,
                           !.foreign = IF r.currency = None THEN @ ELSE r.currency = "foreign",
                           !.rated = IF r.currency = None THEN @ ELSE r.currency = "home",
                           !.categoryId = Or(r.category, @), !.ruled = @ /\ r.category = None]
  <2>1. Step(next)
    BY <1>1, <1>5 DEF ApplyScan, FormOK, DraftOK, DraftFields
  <2>2. amount \in Nat
    BY <1>1, DraftAssumption DEF Or, FormOK, DraftOK
  <2> HIDE DEF amount
  <2>3. DraftOK(next)
    BY <1>1, <2>2 DEF FormOK, DraftOK, DraftFields
  <2>4. EntryOK(next) /\ TakeOK(next) /\ SplitKept(next)
    BY <1>1 DEF FormOK, DraftOK, EntryOK, DraftFields, SplitKept, TakeOK
  <2> HIDE DEF next
  <2> QED BY <2>1, <2>3, <2>4, ReducerStep DEF GoodNext, FormOK
<1> QED BY <1>2, <1>3, <1>4, <1>5

\* A stored entry as the edit form loads it, and as its copy does.
LEMMA StoredOK ==
  ASSUME NEW t \in Stored
  PROVE  /\ RowOK(AsStored(t)) /\ AsStored(t) # None
         /\ FormOK(FromTransaction(AsStored(t))) /\ FromTransaction(AsStored(t)).entry = AsStored(t)
         /\ FormOK([FromTransaction(AsStored(t)) EXCEPT !.mode = "new", !.entry = None, !.fixedCost = FALSE])
<1>1. RowOK(t) /\ t # None /\ [t EXCEPT !.category = None] # None
  BY DraftAssumption
<1>2. PICK u : u = AsStored(t)
  OBVIOUS
<1>3. RowOK(u)
  BY <1>1, <1>2 DEF AsStored, RowOK, RowFields
<1>4. u # None
  BY <1>1, <1>2 DEF AsStored
<1>5. IsCents(u.splits) /\ u.type \in {"expense", "income"} /\ u.bucket \in BucketsOf(u.type) \cup {None}
  BY <1>3 DEF RowOK, IsCents, BucketsOf
<1> DEFINE d == FromTransaction(u)
           e == [d EXCEPT !.mode = "new", !.entry = None, !.fixedCost = FALSE]
<1>6. /\ DOMAIN d = DraftFields /\ d.mode = "edit" /\ d.entry = u /\ d.type = u.type /\ d.amount = u.amount /\ d.bucketId = u.bucket
      /\ d.fixedCost = (u.type = "expense" /\ u.bucket = None /\ u.bill)
      /\ d.paidBy = (IF u.ownShare THEN None ELSE u.payer) /\ d.ownShare = u.ownShare
      /\ d.splitOn = (~u.ownShare /\ DOMAIN u.splits # {}) /\ d.splitMode = "amounts" /\ d.splits = u.splits
      /\ d.splitTyped = u.splits /\ d.touched = Fields /\ d.tookFrom = "none" /\ d.stash = None
  <2> DEFINE fixed == u.type = "expense" /\ u.bucket = None /\ u.bill
             payer == IF u.ownShare THEN None ELSE u.payer
             split == ~u.ownShare /\ DOMAIN u.splits # {}
             x == [BlankState(u.type) EXCEPT !.mode = "edit", !.entry = u, !.amount = u.amount, !.foreign = u.foreign,
                      !.bucketId = u.bucket, !.fixedCost = fixed, !.categoryId = u.category,
                      !.paidBy = payer, !.ownShare = u.ownShare, !.method = u.method,
                      !.splitOn = split, !.splitMode = "amounts", !.splits = u.splits, !.splitTyped = u.splits,
                      !.touched = Fields]
  <2>1. d = x
    BY DEF FromTransaction
  <2> HIDE DEF fixed, payer, split, d
  <2>2. /\ DOMAIN x = DraftFields /\ x.mode = "edit" /\ x.entry = u /\ x.type = u.type /\ x.amount = u.amount
        /\ x.bucketId = u.bucket /\ x.fixedCost = fixed /\ x.paidBy = payer /\ x.ownShare = u.ownShare
        /\ x.splitOn = split /\ x.splitMode = "amounts" /\ x.splits = u.splits
        /\ x.splitTyped = u.splits /\ x.touched = Fields /\ x.tookFrom = "none" /\ x.stash = None
    BY DEF BlankState, DraftFields
  <2> HIDE DEF x
  <2> QED BY <2>1, <2>2 DEF fixed, payer, split
<1> HIDE DEF d
<1>7. DraftOK(d)
  BY <1>3, <1>5, <1>6 DEF DraftOK, RowOK
<1>8. EntryOK(d) /\ TakeOK(d)
  BY <1>3, <1>4, <1>6, DraftAssumption DEF EntryOK, TakeOK, RowOK
<1>9. DraftOK(e) /\ EntryOK(e) /\ TakeOK(e)
  BY <1>6, <1>7 DEF DraftOK, EntryOK, TakeOK, DraftFields
<1> HIDE DEF e
<1>10. d = FromTransaction(u)
  BY DEF d
<1>11. e = [FromTransaction(u) EXCEPT !.mode = "new", !.entry = None, !.fixedCost = FALSE]
  BY DEF e, d
<1> QED BY <1>2, <1>3, <1>4, <1>6, <1>7, <1>8, <1>9, <1>10, <1>11 DEF FormOK

LEMMA LearnedOK ==
  ASSUME NEW rec, DefaultsOK(rec), NEW d, d.bucketId \in BucketsOf(d.type) \cup {None}
  PROVE  DefaultsOK(Learn(rec, d))
BY DEF Learn, DefaultsOK, Fields

LEMMA OpenStep ==
  ASSUME DraftInv,
         \/ \E cash, take \in BOOLEAN : OpenNew(cash, take)
         \/ \E t \in Stored : OpenEdit(t) \/ OpenCopy(t)
         \/ \E inPanel \in BOOLEAN : Save(inPanel)
         \/ Close
         \/ \E how \in DOMAIN gone, x \in Buckets \cup Categories \cup Members : Vanish(how, x)
  PROVE  DraftInv' /\ AddsUp
<1>1. ASSUME NEW d, FormOK(d), Opened(d) PROVE DraftInv' /\ AddsUp
  BY <1>1 DEF Opened, DraftInv, GoneOK, AddsUp
<1>2. ASSUME NEW cash \in BOOLEAN, NEW take \in BOOLEAN, OpenNew(cash, take) PROVE DraftInv' /\ AddsUp
  <2>1. FormOK(InitialNew(known, "expense", cash, take))
    BY NewOK DEF DraftInv
  <2> QED BY <1>1, <1>2, <2>1 DEF OpenNew
<1>3. ASSUME NEW t \in Stored, OpenEdit(t) \/ OpenCopy(t) PROVE DraftInv' /\ AddsUp
  BY <1>1, <1>3, StoredOK DEF OpenEdit, OpenCopy
<1>4. ASSUME NEW inPanel \in BOOLEAN, Save(inPanel) PROVE DraftInv' /\ AddsUp
  <2> DEFINE fresh == InitialNew(loaded, draft.type, FALSE, FALSE)
             payer == Or(draft.paidBy, fresh.paidBy)
             next == [fresh EXCEPT !.bucketId = draft.bucketId, !.paidBy = payer]
  <2>1. FormOK(draft) /\ DefaultsOK(loaded)
    BY <1>4 DEF DraftInv, Save
  <2>2. draft.type \in {"expense", "income"} /\ draft.bucketId \in BucketsOf(draft.type) \cup {None}
    BY <2>1 DEF FormOK, DraftOK
  <2>3. /\ FormOK(fresh) /\ fresh.mode = "new" /\ fresh.type = draft.type /\ ~fresh.splitOn
        /\ fresh.tookFrom = "none" /\ ~fresh.ownShare
    <3>1. \A type \in {"expense", "income"} :
             LET d == InitialNew(loaded, type, FALSE, FALSE)
             IN FormOK(d) /\ d.mode = "new" /\ d.type = type /\ ~d.splitOn /\ d.tookFrom = "none" /\ ~d.ownShare
      BY <2>1, NewOK, ZenonT(60)
    <3> QED BY <2>2, <3>1
  <2>4. known' = Learn(loaded, draft) /\ loaded' = loaded /\ gone' = gone
    BY <1>4 DEF Save
  <2>5. draft' = next \/ draft' = None
    <3>1. DOMAIN fresh = DraftFields
      BY <2>3 DEF FormOK, DraftOK
    <3> QED BY <1>4, <3>1 DEF Save, DraftFields
  <2> HIDE DEF fresh
  <2>6. payer \in Members \cup {None}
    BY <2>1, <2>3 DEF Or, FormOK, DraftOK
  <2> HIDE DEF payer
  <2>7. DraftOK(next) /\ ~next.splitOn
    BY <2>2, <2>3, <2>6 DEF FormOK, DraftOK, DraftFields
  <2>8. EntryOK(next) /\ TakeOK(next)
    BY <2>3 DEF FormOK, DraftOK, EntryOK, TakeOK, DraftFields
  <2> HIDE DEF next
  <2>9. DefaultsOK(known') /\ DefaultsOK(loaded')
    <3>1. DefaultsOK(Learn(loaded, draft))
      BY <2>1, <2>2, LearnedOK
    <3> QED BY <2>1, <2>4, <3>1
  <2>10. DraftInv'
    BY <2>4, <2>5, <2>7, <2>8, <2>9 DEF DraftInv, GoneOK, FormOK
  <2>11. AddsUp
    BY <2>5, <2>7 DEF AddsUp
  <2> QED BY <2>10, <2>11
<1>5. CASE Close
  BY <1>5 DEF Close, DraftInv, GoneOK, AddsUp
<1>6. ASSUME NEW how \in DOMAIN gone, NEW x, Vanish(how, x) PROVE DraftInv' /\ AddsUp
  <2>1. UNCHANGED <<draft, known, loaded>> /\ gone' = [gone EXCEPT ![how] = @ \cup {x}] /\ (how = "left" => x # Me)
    BY <1>6 DEF Vanish
  <2>2. GoneOK'
    BY <2>1 DEF DraftInv, GoneOK
  <2> QED BY <2>1, <2>2 DEF DraftInv, AddsUp
<1> QED BY <1>2, <1>3, <1>4, <1>5, <1>6

LEMMA DraftNextOK == DraftInv /\ [DraftNext]_draftVars => DraftInv' /\ (DraftNext => AddsUp)
<1> SUFFICES ASSUME DraftInv, [DraftNext]_draftVars PROVE DraftInv' /\ (DraftNext => AddsUp)
  OBVIOUS
<1>1. CASE UNCHANGED draftVars /\ ~DraftNext
  BY <1>1 DEF draftVars, DraftInv, GoneOK
<1>2. CASE DraftNext
  BY <1>2, InputStep, PickStep, SplitStep, OpenStep DEF DraftNext
<1> QED BY <1>1, <1>2

LEMMA DraftInvHolds == DraftSpec => []DraftInv
<1>1. DraftInit => DraftInv
  BY DEF DraftInit, DraftInv, GoneOK, DefaultsOK, NoDefaults, NoMemory, Fields
<1> QED BY <1>1, DraftNextOK, PTL DEF DraftSpec

LEMMA SavedIsAccepted ==
  ASSUME DraftInv, draft # None, CanSave(draft), StillThere(draft)
  PROVE  ServerAccepts(CreateBody(draft), draft.entry)
<1> DEFINE d == draft
           t == draft.entry
           b == CreateBody(draft)
           own == b.payer_mode = "own_share"
           payer == IF own THEN None ELSE Or(b.paid_by, IF t = None THEN Me ELSE Or(t.payer, Me))
<1>1. FormOK(draft) /\ Me \in Here
  BY DraftAssumption DEF DraftInv, GoneOK, Here
<1>2. /\ b.type = d.type /\ b.amount = d.amount /\ b.foreign = d.foreign /\ (b.exchange_rate <=> ~d.foreign \/ d.rated)
      /\ b.bucket_id = (IF d.fixedCost THEN None ELSE d.bucketId) /\ b.category_id = d.categoryId
      /\ b.paid_by = (IF d.ownShare THEN None ELSE d.paidBy) /\ (own <=> d.ownShare) /\ b.payment_method = d.method
      /\ (b.took_cash <=> d.mode = "new" /\ TookCash(d)) /\ b.take_from = d.tookFrom
      /\ b.splits = (IF d.type = "expense" /\ (d.ownShare \/ d.splitOn) THEN d.splits ELSE NoShares)
  BY DEF CreateBody
<1>3. /\ d.amount # 0 /\ (d.foreign => d.rated) /\ (d.type = "expense" => d.bucketId # None \/ d.fixedCost)
      /\ (d.type = "expense" /\ (d.splitOn \/ d.ownShare) =>
             /\ d.ownShare => Total(d.splits) - d.amount \in -1..1
             /\ ~(Total(d.splits) > d.amount)
             /\ \A m \in DOMAIN d.splits : ~(d.splits[m] < 0))
      /\ (TookCash(d) => d.paidBy = Me)
      /\ (TookCash(d) /\ d.tookFrom = "stash" /\ d.stash # None /\ ~d.foreign => ~(d.amount > d.stash))
  <2>1. \A p \in {"amount", "bucket", "rate", "split", "payer", "wallet"} : p \notin Problems(draft)
    BY DEF CanSave
  <2>2. "amount" \notin Problems(draft) /\ "bucket" \notin Problems(draft) /\ "rate" \notin Problems(draft)
        /\ "split" \notin Problems(draft) /\ "payer" \notin Problems(draft) /\ "wallet" \notin Problems(draft)
    BY <2>1
  <2> QED BY <2>2 DEF Problems
<1>4. /\ b.bucket_id \notin gone.deleted /\ d.categoryId \notin gone.deleted /\ d.paidBy \in Here \cup {None}
      /\ (d.type = "income" /\ (t = None \/ t.type # "income" \/ t.bucket # d.bucketId) =>
             d.bucketId \notin gone.untracked \cup gone.archived)
      /\ DOMAIN b.splits \subseteq Here /\ (\A m \in DOMAIN b.splits : b.splits[m] # 0)
      /\ (b.took_cash /\ d.tookFrom = "stash" => d.stash # None)
      /\ (t # None /\ t.take # None /\ d.method = "cash" =>
             d.paidBy = t.take.by /\ d.amount = t.amount /\ d.foreign = t.foreign)
  BY DEF StillThere
<1>5. /\ d.type \in {"expense", "income"} /\ d.amount \in Nat /\ d.bucketId \in BucketsOf(d.type) \cup {None}
      /\ IsCents(d.splits) /\ d.stash \in {None, Stash}
      /\ (d.ownShare \/ d.splitOn => d.type = "expense" /\ DOMAIN d.splits # {}) /\ (d.mode = "new" => t = None)
      /\ (d.fixedCost => t # None /\ t.bill /\ t.bucket = None /\ d.type = "expense")
      /\ (t # None /\ ~d.ownShare => d.paidBy # None \/ t.payer = None) /\ (d.ownShare => d.paidBy = None)
      /\ (t # None /\ t.take # None => t.take.by # None)
  BY <1>1 DEF FormOK, DraftOK, EntryOK
<1> HIDE DEF b
<1>6. b.amount > 0 /\ b.exchange_rate
  BY <1>2, <1>3, <1>5
<1>7. b.bucket_id # None \/ b.type = "income" \/ (t # None /\ t.bill /\ t.bucket = None /\ b.type = "expense")
  BY <1>2, <1>3, <1>5
<1>8. b.bucket_id \in (Buckets \ gone.deleted) \cup {None}
  BY <1>2, <1>4, <1>5, DraftAssumption DEF BucketsOf
<1>9. b.type = "income" /\ (t = None \/ t.type # "income" \/ t.bucket # b.bucket_id) => b.bucket_id \in Offered("income") \cup {None}
  <2>1. b.type = "income" => b.bucket_id = d.bucketId /\ d.bucketId \in IncomeBuckets \cup {None}
    BY <1>2, <1>5 DEF BucketsOf
  <2> QED BY <1>2, <1>4, <2>1 DEF Offered
<1>10. b.paid_by \in Here \cup {None} /\ (d.paidBy = Me /\ ~d.ownShare => payer = Me)
       /\ (d.paidBy # None => payer = d.paidBy)
  BY <1>1, <1>2, <1>4, <1>5, DraftAssumption DEF Or
<1>11. b.category_id \notin gone.deleted
  BY <1>2, <1>4
<1>12. DOMAIN b.splits \subseteq Here /\ (\A m \in DOMAIN b.splits : b.splits[m] > 0) /\ Total(b.splits) <= b.amount
       /\ (own => b.type = "expense" /\ DOMAIN b.splits # {} /\ Total(b.splits) - b.amount \in -1..1)
  <2>1. CASE d.type = "expense" /\ (d.ownShare \/ d.splitOn)
    <3>1. b.splits = d.splits /\ Total(d.splits) \in Int /\ \A m \in DOMAIN d.splits : d.splits[m] \in Int
      BY <1>2, <1>5, <2>1, TotalIsInt DEF IsCents
    <3> QED BY <1>2, <1>3, <1>4, <1>5, <2>1, <3>1
  <2>2. CASE ~(d.type = "expense" /\ (d.ownShare \/ d.splitOn))
    <3>1. b.splits = NoShares /\ ~d.ownShare
      BY <1>2, <1>5, <2>2
    <3>2. Total(NoShares) = 0
      BY TotalIs, NoSharesAre, SumEmpty
    <3> QED BY <1>2, <1>5, <3>1, <3>2, NoSharesAre
  <2> QED BY <2>1, <2>2
<1>13. b.took_cash =>
         /\ b.payment_method = "cash" /\ b.type = "expense" /\ payer = Me
         /\ b.take_from = "stash" /\ ~b.foreign => b.amount <= Stash
  BY <1>2, <1>3, <1>4, <1>5, <1>10, DraftAssumption DEF TookCash
<1>14. t # None /\ t.take # None /\ b.type = "expense" /\ b.payment_method = "cash" =>
         payer = t.take.by /\ b.amount = t.amount /\ b.foreign = t.foreign
  BY <1>2, <1>4, <1>5, <1>10
<1> HIDE DEF payer, own
<1>15. ServerAccepts(b, t)
  BY <1>6, <1>7, <1>8, <1>9, <1>10, <1>11, <1>12, <1>13, <1>14 DEF ServerAccepts, payer, own
<1> QED BY <1>15 DEF b

\* For any household, anything it has stored, any receipt and any balance: whatever was typed and picked in whatever order,
\* what the form lets the member save the server takes, as long as what the draft names is still there, no share is zero,
\* a balance that cash is taken from has been read, and cash taken before stays with its entry (StillThere).
THEOREM SavesAreAccepted == DraftSpec => []SaveIsAccepted
<1>1. DraftInv => SaveIsAccepted
  BY SavedIsAccepted DEF SaveIsAccepted
<1> QED BY <1>1, DraftInvHolds, PTL

\* For any household and any keys, scans, payers and modes: a split that added up to the amount still does, and one whose
\* amount changed does, as long as somebody among its sharers pays the rest.
THEOREM SplitsAddUp == DraftSpec => SplitAddsUp
<1>1. DraftInv /\ [DraftNext]_draftVars => [AddsUp]_draftVars
  BY DraftNextOK
<1> QED BY <1>1, DraftInvHolds, PTL DEF DraftSpec, SplitAddsUp, AddsUp

\* Cash that is taken stays the member's own whatever order method, payer, type, defaults and scans come in.
THEOREM TakesAreOwn == DraftSpec => []TakeIsOwn
<1>1. DraftInv => TakeIsOwn
  BY DEF DraftInv, FormOK, TakeOK, TakeIsOwn, Expense
<1> QED BY <1>1, DraftInvHolds, PTL

ValueOf(d, f) ==
    CASE f = "bucket" -> d.bucketId [] f = "category" -> d.categoryId [] f = "payer" -> d.paidBy [] f = "method" -> d.method

\* The fields picked on both sides of a step, but for those in `but`, have the same value.
SamePicks(d, but) == \A f \in (draft.touched \cap d.touched) \ but : ValueOf(d, f) = ValueOf(draft, f)
PicksKept(but) == \A f \in (draft.touched \cap draft'.touched) \ but : Value(f)' = Value(f)

LEMMA PicksStep ==
  ASSUME NEW next, DOMAIN next = DraftFields, Step(next), NEW but, SamePicks(next, but)
  PROVE  PicksKept(but) /\ draft'.paidBy = next.paidBy
<1>1. draft' = Reduce(draft, next)
  BY DEF Step
<1>2. ASSUME NEW s
      PROVE  LET d == [next EXCEPT !.splits = s] IN
             /\ d.touched = next.touched /\ d.bucketId = next.bucketId /\ d.categoryId = next.categoryId
             /\ d.paidBy = next.paidBy /\ d.method = next.method
  BY DEF DraftFields
<1>3. /\ draft'.touched = next.touched /\ draft'.bucketId = next.bucketId /\ draft'.categoryId = next.categoryId
      /\ draft'.paidBy = next.paidBy /\ draft'.method = next.method
  <2>1. draft' = next \/ \E s : draft' = [next EXCEPT !.splits = s]
    BY <1>1 DEF Reduce, Resplit
  <2> QED BY <1>2, <2>1
<1>4. \A f : Value(f)' = ValueOf(next, f) /\ Value(f) = ValueOf(draft, f)
  BY <1>3 DEF Value, ValueOf
<1> QED BY <1>3, <1>4 DEF SamePicks, PicksKept

LEMMA FilledPicks ==
  ASSUME NEW d, NEW r, NEW except, NEW but, FormOK(d), SamePicks(d, but)
  PROVE  DOMAIN Fill(d, r, except) = DraftFields /\ SamePicks(Fill(d, r, except), but)
<1> DEFINE e == Fill(d, r, except)
<1>1. DOMAIN d = DraftFields /\ d.touched \subseteq Fields
  BY DEF FormOK, DraftOK
<1>2. DOMAIN e = DraftFields /\ e.touched = d.touched /\ ("bucket" \in d.touched => e.bucketId = d.bucketId)
      /\ ("category" \in d.touched => e.categoryId = d.categoryId) /\ ("payer" \in d.touched => e.paidBy = d.paidBy)
      /\ ("method" \in d.touched => e.method = d.method)
  BY <1>1 DEF Fill, DraftFields
<1> HIDE DEF e
<1>3. \A f \in d.touched : ValueOf(e, f) = ValueOf(d, f)
  BY <1>1, <1>2 DEF ValueOf, Fields
<1>4. DOMAIN e = DraftFields /\ SamePicks(e, but)
  BY <1>2, <1>3 DEF SamePicks
<1> QED BY <1>4 DEF e

LEMMA InputPicks ==
  ASSUME DraftInv,
         \/ \E a \in Amounts : PressKeys(a)
         \/ \E rule \in (Categories \ gone.deleted) \cup {None} : TypeMerchant(rule)
         \/ \E foreign, rated \in BOOLEAN : PickCurrency(foreign, rated)
         \/ \E valid \in BOOLEAN : TypeRate(valid)
         \/ \E on \in BOOLEAN : SetRemember(on)
         \/ ShowWallet
         \/ ClearSplit
         \/ \E mode \in {"equal", "amounts", "percent"}, payer \in Members : \E fields \in [Here \ {payer} -> TypedValues] :
               EnterSplit(mode, fields)
  PROVE  PicksKept({})
<1>1. DOMAIN draft = DraftFields /\ draft.touched \subseteq Fields
  BY DEF DraftInv, FormOK, DraftOK, PressKeys, TypeMerchant, PickCurrency, TypeRate, SetRemember, ShowWallet, ClearSplit,
         EnterSplit, Expense
<1>2. ASSUME NEW a, PressKeys(a) PROVE PicksKept({})
  <2> DEFINE next == [draft EXCEPT !.amount = a]
  <2>1. Step(next)
    BY <1>2 DEF PressKeys
  <2>2. DOMAIN next = DraftFields /\ SamePicks(next, {})
    BY <1>1 DEF SamePicks, ValueOf, DraftFields, Fields
  <2> HIDE DEF next
  <2> QED BY <2>1, <2>2, PicksStep
<1>3. ASSUME NEW rule, TypeMerchant(rule) PROVE PicksKept({})
  <2> DEFINE ruled == [draft EXCEPT !.categoryId = rule, !.ruled = TRUE]
             next == [draft EXCEPT !.ruled = @ /\ rule # None]
  <2>1. ("category" \notin draft.touched /\ Step(ruled)) \/ Step(next)
    BY <1>3 DEF TypeMerchant
  <2>2. DOMAIN next = DraftFields /\ SamePicks(next, {})
    BY <1>1 DEF SamePicks, ValueOf, DraftFields, Fields
  <2>3. DOMAIN ruled = DraftFields /\ ("category" \notin draft.touched => SamePicks(ruled, {}))
    BY <1>1 DEF SamePicks, ValueOf, DraftFields, Fields
  <2> HIDE DEF ruled, next
  <2> QED BY <2>1, <2>2, <2>3, PicksStep
<1>4. ASSUME NEW foreign, NEW rated, PickCurrency(foreign, rated) PROVE PicksKept({})
  <2> DEFINE next == [draft EXCEPT !.foreign = foreign, !.rated = ~foreign \/ rated]
  <2>1. Step(next)
    BY <1>4 DEF PickCurrency
  <2>2. DOMAIN next = DraftFields /\ SamePicks(next, {})
    BY <1>1 DEF SamePicks, ValueOf, DraftFields, Fields
  <2> HIDE DEF next
  <2> QED BY <2>1, <2>2, PicksStep
<1>5. ASSUME NEW valid, TypeRate(valid) PROVE PicksKept({})
  <2> DEFINE next == [draft EXCEPT !.rated = valid]
  <2>1. Step(next)
    BY <1>5 DEF TypeRate
  <2>2. DOMAIN next = DraftFields /\ SamePicks(next, {})
    BY <1>1 DEF SamePicks, ValueOf, DraftFields, Fields
  <2> HIDE DEF next
  <2> QED BY <2>1, <2>2, PicksStep
<1>6. ASSUME NEW on, SetRemember(on) PROVE PicksKept({})
  <2> DEFINE next == [draft EXCEPT !.rememberRule = on]
  <2>1. Step(next)
    BY <1>6 DEF SetRemember
  <2>2. DOMAIN next = DraftFields /\ SamePicks(next, {})
    BY <1>1 DEF SamePicks, ValueOf, DraftFields, Fields
  <2> HIDE DEF next
  <2> QED BY <2>1, <2>2, PicksStep
<1>7. ASSUME ShowWallet PROVE PicksKept({})
  <2> DEFINE next == [draft EXCEPT !.stash = Stash]
  <2>1. Step(next)
    BY <1>7 DEF ShowWallet
  <2>2. DOMAIN next = DraftFields /\ SamePicks(next, {})
    BY <1>1 DEF SamePicks, ValueOf, DraftFields, Fields
  <2> HIDE DEF next
  <2> QED BY <2>1, <2>2, PicksStep
<1>8. ASSUME ClearSplit PROVE PicksKept({})
  <2> DEFINE next == [draft EXCEPT !.splitOn = FALSE, !.splits = NoShares, !.splitTyped = NoShares]
  <2>1. Step(next)
    BY <1>8 DEF ClearSplit
  <2>2. DOMAIN next = DraftFields /\ SamePicks(next, {})
    BY <1>1 DEF SamePicks, ValueOf, DraftFields, Fields
  <2> HIDE DEF next
  <2> QED BY <2>1, <2>2, PicksStep
<1>9. ASSUME NEW mode, NEW fields, EnterSplit(mode, fields) PROVE PicksKept({})
  <2> DEFINE shares == Shares(mode, Here, draft.amount, Or(draft.paidBy, Heir(Here)), fields)
             kept == IF mode = "equal" THEN NoShares ELSE fields
             next == [draft EXCEPT !.splitOn = TRUE, !.splitMode = mode, !.splits = shares, !.splitTyped = kept]
  <2>1. Step(next)
    BY <1>9 DEF EnterSplit
  <2> HIDE DEF shares, kept
  <2>2. DOMAIN next = DraftFields /\ SamePicks(next, {})
    BY <1>1 DEF SamePicks, ValueOf, DraftFields, Fields
  <2> HIDE DEF next
  <2> QED BY <2>1, <2>2, PicksStep
<1> QED BY <1>2, <1>3, <1>4, <1>5, <1>6, <1>7, <1>8, <1>9

\* The picks: each changes the field it is about, and no other that was picked.
LEMMA HandPicks ==
  ASSUME DraftInv, NEW f,
         \/ f = "bucket" /\ \E b \in Buckets \cup {None} : PickBucket(b)
         \/ f = "category" /\ \E c \in Categories : PickCategory(c)
         \/ f = "payer" /\ \E m \in Members : PickPayer(m)
         \/ f = "payer" /\ \E fields \in [Here -> TypedValues] : EnterOwnShare(fields)
         \/ f = "method" /\ \E m \in {"card", "cash"} : PickMethod(m)
  PROVE  PicksKept({f})
<1>1. DOMAIN draft = DraftFields /\ draft.touched \subseteq Fields /\ FormOK(draft)
  BY DEF DraftInv, FormOK, DraftOK, PickBucket, PickCategory, PickPayer, PickMethod, EnterOwnShare, Expense
<1>2. ASSUME NEW b \in Buckets \cup {None}, PickBucket(b) PROVE PicksKept({"bucket"})
  <2> DEFINE d == [draft EXCEPT !.bucketId = b, !.touched = @ \cup {"bucket"}]
             r == IF b = None THEN NoMemory ELSE Sanitize(loaded.byBucket[b], draft.type)
  <2>1. SamePicks(d, {"bucket"})
    BY <1>1 DEF SamePicks, ValueOf, DraftFields, Fields
  <2>2. b \in BucketsOf(draft.type) \cup {None} /\ "bucket" \in Fields
    BY <1>2 DEF PickBucket, Offered, BucketsOf, Fields
  <2>3. FormOK(d)
    BY <1>1, <2>2 DEF FormOK, DraftOK, EntryOK, DraftFields, TakeOK
  <2>4. Step(Fill(d, r, "bucket"))
    BY <1>2 DEF PickBucket
  <2> HIDE DEF d, r
  <2> QED BY <2>1, <2>3, <2>4, FilledPicks, PicksStep
<1>3. ASSUME NEW c \in Categories, PickCategory(c) PROVE PicksKept({"category"})
  <2> DEFINE d == [draft EXCEPT !.categoryId = c, !.ruled = FALSE, !.touched = @ \cup {"category"}]
             r == Sanitize(loaded.byCategory[c], draft.type)
  <2>1. SamePicks(d, {"category"})
    BY <1>1 DEF SamePicks, ValueOf, DraftFields, Fields
  <2>2. FormOK(d)
    BY <1>1 DEF FormOK, DraftOK, EntryOK, DraftFields, TakeOK, Fields
  <2>3. Step(Fill(d, r, "category"))
    BY <1>3 DEF PickCategory
  <2> HIDE DEF d, r
  <2> QED BY <2>1, <2>2, <2>3, FilledPicks, PicksStep
<1>4. ASSUME NEW m, PickPayer(m) PROVE PicksKept({"payer"})
  <2> DEFINE shares == IF draft.ownShare THEN NoShares ELSE draft.splits
             d == [draft EXCEPT !.paidBy = m, !.ownShare = FALSE, !.splits = shares, !.touched = @ \cup {"payer"}]
             e == [d EXCEPT !.splitMode = "amounts", !.splitTyped = d.splits]
  <2>1. d = [draft EXCEPT !.paidBy = m, !.ownShare = FALSE, !.splits = IF draft.ownShare THEN NoShares ELSE @,
                          !.touched = @ \cup {"payer"}]
    BY <1>1 DEF DraftFields
  <2>2. Step(d) \/ Step(e)
    BY <1>4, <2>1 DEF PickPayer
  <2> HIDE DEF shares
  <2>3. DOMAIN d = DraftFields /\ SamePicks(d, {"payer"})
    BY <1>1 DEF SamePicks, ValueOf, DraftFields, Fields
  <2> HIDE DEF d
  <2>4. DOMAIN e = DraftFields /\ SamePicks(e, {"payer"})
    BY <2>3 DEF SamePicks, ValueOf, DraftFields
  <2> HIDE DEF e
  <2> QED BY <2>2, <2>3, <2>4, PicksStep
<1>5. ASSUME NEW fields, EnterOwnShare(fields) PROVE PicksKept({"payer"})
  <2> DEFINE next == [draft EXCEPT !.ownShare = TRUE, !.paidBy = None, !.splitOn = FALSE, !.splits = fields,
                          !.splitTyped = fields, !.cashMode = FALSE, !.tookFrom = "none", !.touched = @ \cup {"payer"}]
  <2>1. Step(next)
    BY <1>5 DEF EnterOwnShare
  <2>2. DOMAIN next = DraftFields /\ SamePicks(next, {"payer"})
    BY <1>1 DEF SamePicks, ValueOf, DraftFields, Fields
  <2> HIDE DEF next
  <2> QED BY <2>1, <2>2, PicksStep
<1>6. ASSUME NEW m, PickMethod(m) PROVE PicksKept({"method"})
  <2> DEFINE next == [draft EXCEPT !.method = m, !.tookFrom = IF m = "cash" THEN @ ELSE "none", !.cashMode = @ /\ m = "cash",
                          !.stash = IF m = "cash" THEN @ ELSE None, !.touched = @ \cup {"method"}]
  <2>1. Step(next)
    BY <1>6 DEF PickMethod
  <2>2. DOMAIN next = DraftFields /\ SamePicks(next, {"method"})
    BY <1>1 DEF SamePicks, ValueOf, DraftFields, Fields
  <2> HIDE DEF next
  <2> QED BY <2>1, <2>2, PicksStep
<1> QED BY <1>2, <1>3, <1>4, <1>5, <1>6

\* A cash take makes the member the payer; a scan that names a category replaces the category.
LEMMA OtherPicks ==
  ASSUME DraftInv
  PROVE  /\ \A from \in {"none", "stash", "bank"} : SetTookFrom(from) =>
               PicksKept({"payer"}) /\ IF from = "none" THEN PicksKept({}) ELSE draft'.paidBy = Me
         /\ \A r \in Receipts : ApplyScan(r.amount, r.currency, r.category) =>
               PicksKept({"category"}) /\ (r.category = None => PicksKept({}))
<1>1. draft # None => DOMAIN draft = DraftFields /\ draft.touched \subseteq Fields
  BY DEF DraftInv, FormOK, DraftOK
<1>2. ASSUME NEW from \in {"none", "stash", "bank"}, SetTookFrom(from)
      PROVE  PicksKept({"payer"}) /\ IF from = "none" THEN PicksKept({}) ELSE draft'.paidBy = Me
  <2> DEFINE shares == IF draft.ownShare THEN NoShares ELSE draft.splits
             stash == IF from = "stash" THEN draft.stash ELSE None
             d == [draft EXCEPT !.tookFrom = from, !.stash = stash]
             e == [draft EXCEPT !.tookFrom = from, !.stash = stash, !.paidBy = Me, !.ownShare = FALSE, !.splits = shares]
  <2>1. IF from = "none" THEN Step(d) ELSE Step(e)
    BY <1>1, <1>2 DEF SetTookFrom, Expense, DraftFields
  <2> HIDE DEF shares, stash
  <2>2. DOMAIN d = DraftFields /\ SamePicks(d, {}) /\ SamePicks(d, {"payer"})
    BY <1>1, <1>2 DEF SetTookFrom, Expense, SamePicks, ValueOf, DraftFields, Fields
  <2>3. DOMAIN e = DraftFields /\ SamePicks(e, {"payer"}) /\ e.paidBy = Me
    BY <1>1, <1>2 DEF SetTookFrom, Expense, SamePicks, ValueOf, DraftFields, Fields
  <2> HIDE DEF d, e
  <2> QED BY <2>1, <2>2, <2>3, PicksStep
<1>3. ASSUME NEW r, ApplyScan(r.amount, r.currency, r.category)
      PROVE  PicksKept({"category"}) /\ (r.category = None => PicksKept({}))
  <2> DEFINE next == [draft EXCEPT !.scanned = TRUE, !.scanCategoryId = r.category, !.rememberRule = TRUE,
                           !.amount = Or(r.amount, @),
                           !.foreign = IF r.currency = None THEN @ ELSE r.currency = "foreign",
                           !.rated = IF r.currency = None THEN @ ELSE r.currency = "home",
                           !.categoryId = Or(r.category, @), !.ruled = @ /\ r.category = None]
  <2>1. Step(next) /\ DOMAIN draft = DraftFields /\ draft.touched \subseteq Fields
    BY <1>1, <1>3 DEF ApplyScan, Expense
  <2>2. DOMAIN next = DraftFields /\ SamePicks(next, {"category"}) /\ (r.category = None => SamePicks(next, {}))
    BY <2>1 DEF SamePicks, ValueOf, DraftFields, Fields, Or
  <2> HIDE DEF next
  <2> QED BY <2>1, <2>2, PicksStep
<1> QED BY <1>2, <1>3

\* What opens, saves or closes a form, or empties `touched`.
LEMMA OpenPicks ==
  ASSUME DraftInv, draft # None, draft' # None,
         \/ \E type \in {"expense", "income"} : SwitchType(type)
         \/ \E cash, take \in BOOLEAN : OpenNew(cash, take)
         \/ \E t \in Stored : OpenEdit(t) \/ OpenCopy(t)
         \/ \E inPanel \in BOOLEAN : Save(inPanel)
         \/ Close
         \/ \E how \in DOMAIN gone, x \in Buckets \cup Categories \cup Members : Vanish(how, x)
  PROVE  PicksKept({})
<1>1. FormOK(draft) /\ DOMAIN draft = DraftFields
  BY DEF DraftInv, FormOK, DraftOK
<1>2. ASSUME NEW type, SwitchType(type) PROVE PicksKept({})
  <2> DEFINE r == Sanitize(IF type = "income" THEN loaded.lastIncome ELSE loaded.last, type)
             payer == Or(r.payer, Me)
             method == Or(r.method, DefaultMethod(type))
             next == [draft EXCEPT !.type = type, !.touched = {}, !.ownShare = FALSE, !.splitOn = FALSE, !.splits = NoShares,
                          !.splitTyped = NoShares, !.cashMode = FALSE, !.tookFrom = "none", !.ruled = FALSE, !.stash = None,
                          !.bucketId = r.bucket, !.categoryId = r.category, !.paidBy = payer, !.method = method]
  <2>1. Step(next)
    BY <1>2 DEF SwitchType
  <2> HIDE DEF r, payer, method
  <2>2. DOMAIN next = DraftFields /\ SamePicks(next, {})
    BY <1>1 DEF SamePicks, DraftFields
  <2> HIDE DEF next
  <2> QED BY <2>1, <2>2, PicksStep
<1>3. ASSUME NEW inPanel, Save(inPanel) PROVE PicksKept({})
  <2> DEFINE fresh == InitialNew(loaded, draft.type, FALSE, FALSE)
             next == [fresh EXCEPT !.bucketId = draft.bucketId, !.paidBy = Or(draft.paidBy, @)]
  <2>1. draft' = next
    BY <1>3 DEF Save
  <2>2. fresh.touched = {}
    BY DEF InitialNew, BlankState
  <2> HIDE DEF fresh
  <2>3. next.touched = {}
    BY <2>2
  <2> QED BY <2>1, <2>3 DEF PicksKept
<1>4. CASE \E how \in DOMAIN gone, x \in Buckets \cup Categories \cup Members : Vanish(how, x)
  BY <1>4 DEF Vanish, PicksKept, Value
<1> QED BY <1>2, <1>3, <1>4 DEF OpenNew, OpenEdit, OpenCopy, Opened, Close

\* For any household: a field that the member picked changes only when they pick it again, scan a receipt that names a
\* category, or say where the cash came from, which makes them the payer; no default, rule or other pick changes it.
THEOREM PicksStay == DraftSpec => PickStays
<1> DEFINE Stay == draft # None /\ draft' # None =>
                     \A f \in draft.touched \cap draft'.touched : Value(f)' = Value(f) \/ Picks(f)
<1>1. DraftInv /\ DraftNext => Stay
  <2> SUFFICES ASSUME DraftInv, DraftNext, draft # None, draft' # None,
                      NEW f \in draft.touched \cap draft'.touched, ~Picks(f)
               PROVE  Value(f)' = Value(f)
    OBVIOUS
  <2>1. ASSUME NEW but, PicksKept(but), f \notin but PROVE Value(f)' = Value(f)
    BY <2>1 DEF PicksKept
  <2>2. PicksKept({}) => Value(f)' = Value(f)
    BY <2>1
  <2>3. /\ f = "bucket" => ~\E b \in Buckets \cup {None} : PickBucket(b)
        /\ f = "category" => (~\E c \in Categories : PickCategory(c))
              /\ ~\E r \in Receipts : r.category # None /\ ApplyScan(r.amount, r.currency, r.category)
        /\ f = "payer" => (~\E m \in Members : PickPayer(m)) /\ (~\E fields \in [Here -> TypedValues] : EnterOwnShare(fields))
              /\ ~\E from \in {"stash", "bank"} : SetTookFrom(from) /\ draft'.paidBy = Me
        /\ f = "method" => ~\E m \in {"card", "cash"} : PickMethod(m)
    BY DEF Picks
  <2>4. CASE \E b \in Buckets \cup {None} : PickBucket(b)
    BY <2>1, <2>3, <2>4, HandPicks
  <2>5. CASE \E c \in Categories : PickCategory(c)
    BY <2>1, <2>3, <2>5, HandPicks
  <2>6. CASE \E m \in Members : PickPayer(m)
    BY <2>1, <2>3, <2>6, HandPicks
  <2>7. CASE \E fields \in [Here -> TypedValues] : EnterOwnShare(fields)
    BY <2>1, <2>3, <2>7, HandPicks
  <2>8. CASE \E m \in {"card", "cash"} : PickMethod(m)
    BY <2>1, <2>3, <2>8, HandPicks
  <2>9. ASSUME NEW from \in {"none", "stash", "bank"}, SetTookFrom(from) PROVE Value(f)' = Value(f)
    <3>1. PicksKept({"payer"}) /\ IF from = "none" THEN PicksKept({}) ELSE draft'.paidBy = Me
      BY <2>9, OtherPicks
    <3>2. CASE from = "none"
      BY <2>2, <3>1, <3>2
    <3>3. CASE from # "none"
      BY <2>1, <2>3, <2>9, <3>1, <3>3
    <3> QED BY <3>2, <3>3
  <2>10. ASSUME NEW r \in Receipts, ApplyScan(r.amount, r.currency, r.category) PROVE Value(f)' = Value(f)
    <3>1. PicksKept({"category"}) /\ (r.category = None => PicksKept({}))
      BY <2>10, OtherPicks
    <3>2. CASE r.category = None
      BY <2>2, <3>1, <3>2
    <3>3. CASE r.category # None
      BY <2>1, <2>3, <2>10, <3>1, <3>3
    <3> QED BY <3>2, <3>3
  <2> QED BY <2>2, <2>4, <2>5, <2>6, <2>7, <2>8, <2>9, <2>10, InputPicks, OpenPicks DEF DraftNext
<1>2. [DraftNext]_draftVars /\ DraftInv => [Stay]_draftVars
  BY <1>1
<1> QED BY <1>2, DraftInvHolds, PTL DEF DraftSpec, PickStays

(***************************************************************************)
(* The composer.                                                           *)
(***************************************************************************)
Clients == Nat \X Nat
SaveJobs == [mount : Nat, key : Keys, layout : Layouts, client : Clients, text : Nat, stage : {"check", "send", "delete"}]
Writes == [client : Clients, text : Nat]

FormTypes ==
    /\ form \in Forms \cup {None} /\ mounts \in Nat /\ typed \in Nat
    /\ form # None => form.mount <= mounts
    /\ parked \in [Keys -> Parks \cup {None}]
    /\ jobs \in SUBSET SaveJobs /\ queue \in Seq(Writes)
    /\ DOMAIN entries \subseteq Clients /\ \A c \in DOMAIN entries : entries[c] \in Nat

\* A text that is on the screen of a new entry, parked, being saved, queued or stored, under its client_id.
Sent(c, t) ==
    \/ \E j \in jobs : j.key = "new" /\ j.client = c /\ j.text = t
    \/ \E i \in DOMAIN queue : queue[i].client = c /\ queue[i].text = t /\ t # 0
    \/ c \in DOMAIN entries /\ entries[c] = t
Goes(c, t) ==
    \/ Sent(c, t)
    \/ form # None /\ form.key = "new" /\ form.client = c /\ form.text = t /\ t # 0
    \/ parked["new"] # None /\ parked["new"].client = c /\ parked["new"].text = t

OneClient == \A c, d \in Clients, t \in Nat : Goes(c, t) /\ Goes(d, t) => c = d
WasTyped == \A c \in Clients, t \in Nat : Goes(c, t) => 0 < t /\ t <= typed
FormInv == FormTypes /\ OneClient /\ WasTyped

LEMMA SameTexts ==
  ASSUME FormInv, FormTypes', typed' = typed, \A c \in Clients, t \in Nat : Goes(c, t)' => Goes(c, t)
  PROVE  FormInv'
BY DEF FormInv, OneClient, WasTyped

\* Everything the texts and the types are of.
formTexts == <<mounts, typed, parked, jobs, queue, entries>>

LEMMA SameForm == ASSUME FormInv, UNCHANGED formTexts, form' = form PROVE FormInv'
<1>1. /\ typed' = typed /\ mounts' = mounts /\ parked' = parked
      /\ jobs' = jobs /\ queue' = queue /\ entries' = entries
  BY DEF formTexts
<1>2. FormTypes'
  BY <1>1 DEF FormInv, FormTypes
<1>3. ASSUME NEW c \in Clients, NEW t \in Nat, Goes(c, t)' PROVE Goes(c, t)
  <2>1. Sent(c, t)' => Sent(c, t)
    BY <1>1 DEF Sent
  <2> QED BY <1>1, <1>3, <2>1 DEF Goes
<1> QED BY <1>1, <1>2, <1>3, SameTexts

LEMMA ScreenStep ==
  ASSUME FormInv, UNCHANGED formTexts, form' \in Forms \cup {None}, form' # None => form'.mount <= mounts,
         form' # None /\ form'.text # 0 => form # None /\ form'.key = form.key /\ form'.client = form.client /\ form'.text = form.text
  PROVE  FormInv'
<1>1. FormTypes'
  BY DEF FormInv, FormTypes, formTexts
<1>2. \A c \in Clients, t \in Nat : Goes(c, t)' => Goes(c, t)
  BY DEF Goes, Sent, formTexts
<1>3. typed' = typed
  BY DEF formTexts
<1> QED BY <1>1, <1>2, <1>3, SameTexts

LEMMA NavigatedIs ==
  ASSUME NEW f \in Forms
  PROVE  /\ Navigated(f) \in Forms \cup {None}
         /\ Navigated(f) # None => /\ Navigated(f).mount = f.mount /\ Navigated(f).key = f.key
                                   /\ Navigated(f).client = f.client /\ Navigated(f).text = f.text
         /\ Dirty(f) => Navigated(f) # None
BY ComposerAssumption DEF Navigated, Dirty, Forms

LEMMA SkeletonIs ==
  ASSUME FormTypes, NEW key \in Keys, NEW layout \in Layouts
  PROVE  /\ Skeleton(key, layout) \in Forms /\ Skeleton(key, layout) # None
         /\ Skeleton(key, layout).mount = mounts + 1 /\ Skeleton(key, layout).text = 0
<1> DEFINE f == Skeleton(key, layout)
<1>1. mounts + 1 \in Nat /\ <<mounts + 1, 0>> \in Nat \X Nat
  BY DEF FormTypes
<1>2. f \in Forms /\ f.mount = mounts + 1 /\ f.text = 0
  BY <1>1 DEF Skeleton, Forms
<1> HIDE DEF f
<1>3. f # None
  BY <1>2, ComposerAssumption
<1> QED BY <1>2, <1>3 DEF f

LEMMA MountStep ==
  ASSUME FormInv, NEW key \in Keys, NEW layout \in Layouts, Mount(key, layout), UNCHANGED <<typed, jobs, queue, entries>>,
         parked' \in [Keys -> Parks \cup {None}],
         \/ parked' = parked
         \/ form # None /\ form.text # 0 /\ parked' = [parked EXCEPT ![form.key] = [text |-> form.text, client |-> form.client]]
  PROVE  FormInv'
<1>1. form' = Skeleton(key, layout) /\ mounts' = mounts + 1 /\ FormTypes
  BY DEF Mount, FormInv
<1>2. FormTypes'
  BY <1>1, SkeletonIs DEF FormTypes
<1>3. form'.text = 0
  BY <1>1, SkeletonIs
<1>4. \A c \in Clients, t \in Nat : Goes(c, t)' => Goes(c, t)
  <2>1. CASE parked' = parked
    BY <1>3, <2>1 DEF Goes, Sent
  <2>2. CASE form # None /\ form.text # 0 /\ parked' = [parked EXCEPT ![form.key] = [text |-> form.text, client |-> form.client]]
    <3>1. form \in Forms /\ form.key \in Keys
      BY <1>1, <2>2 DEF FormTypes, Forms
    <3>2. CASE form.key = "new"
      <4>1. parked'["new"] = [text |-> form.text, client |-> form.client]
        BY <1>1, <2>2, <3>2 DEF FormTypes, Keys
      <4> QED BY <1>3, <2>2, <3>2, <4>1 DEF Goes, Sent
    <3>3. CASE form.key # "new"
      BY <1>3, <1>1, <2>2, <3>3 DEF Goes, Sent, FormTypes, Keys
    <3> QED BY <3>2, <3>3
  <2> QED BY <2>1, <2>2
<1> QED BY <1>2, <1>4, SameTexts

LEMMA OpensStep == ASSUME FormInv, (\E key \in Keys, layout \in Layouts : Open(key, layout)) \/ OpenThatOne \/ Cross PROVE FormInv'
<1>1. ASSUME NEW key \in Keys, NEW layout \in Layouts, Open(key, layout) PROVE FormInv'
  BY <1>1, MountStep DEF Open, FormInv, FormTypes
<1>2. CASE OpenThatOne
  <2>1. form.layout \in Layouts /\ "edit" \in Keys
    BY <1>2 DEF OpenThatOne, Usable, FormInv, FormTypes, Forms, Keys
  <2> QED BY <1>2, <2>1, MountStep DEF OpenThatOne, FormInv, FormTypes
<1>3. CASE Cross
  <2>1. form \in Forms /\ form.key \in Keys /\ Other(form.layout) \in Layouts
    BY <1>3 DEF Cross, FormInv, FormTypes, Forms, Layouts, Other
  <2>2. [text |-> form.text, client |-> form.client] \in Parks
    BY <2>1 DEF Forms, Parks
  <2>3. parked' \in [Keys -> Parks \cup {None}]
    BY <1>3, <2>1, <2>2 DEF Cross, FormInv, FormTypes
  <2> QED BY <1>3, <2>1, <2>3, MountStep DEF Cross, Dirty
<1> QED BY <1>1, <1>2, <1>3

LEMMA ReadyStep == ASSUME FormInv, Ready PROVE FormInv'
<1> DEFINE p == parked[form.key]
<1>1. form \in Forms /\ form.key \in Keys /\ p \in Parks \cup {None} /\ parked \in [Keys -> Parks \cup {None}]
  BY DEF Ready, FormInv, FormTypes, Forms
<1>2. /\ form' = IF p = None THEN [form EXCEPT !.ready = TRUE] ELSE [form EXCEPT !.ready = TRUE, !.text = p.text, !.client = p.client]
      /\ parked' = [parked EXCEPT ![form.key] = None] /\ UNCHANGED <<mounts, typed, jobs, queue, entries>>
  BY DEF Ready
<1>3. /\ form' \in Forms /\ form'.mount = form.mount /\ form'.key = form.key
      /\ p = None => form'.text = form.text /\ form'.client = form.client
      /\ p # None => form'.text = p.text /\ form'.client = p.client
  <2> HIDE DEF p
  <2> QED BY <1>1, <1>2 DEF Forms, Parks
<1>4. FormTypes'
  BY <1>1, <1>2, <1>3 DEF FormInv, FormTypes, Ready
<1>5. \A c \in Clients, t \in Nat : Goes(c, t)' => Goes(c, t)
  <2>1. form.key # "new" => parked'["new"] = parked["new"]
    BY <1>1, <1>2 DEF Keys
  <2>2. form.key = "new" => parked'["new"] = None
    BY <1>1, <1>2 DEF Keys
  <2> QED BY <1>2, <1>3, <2>1, <2>2 DEF Goes, Sent, Ready
<1> QED BY <1>2, <1>4, <1>5, SameTexts

LEMMA TypeStep == ASSUME FormInv, Type PROVE FormInv'
<1>1. form \in Forms /\ typed \in Nat /\ form # None
  BY DEF Type, Usable, FormInv, FormTypes
<1>2. form' = [form EXCEPT !.text = typed + 1] /\ typed' = typed + 1 /\ UNCHANGED <<mounts, parked, jobs, queue, entries>>
  BY DEF Type
<1>3. form' \in Forms /\ form'.mount = form.mount /\ form'.key = form.key /\ form'.client = form.client /\ form'.text = typed + 1
  <2> DEFINE n == typed + 1
  <2>1. n \in Nat /\ form' = [form EXCEPT !.text = n]
    BY <1>1, <1>2
  <2> HIDE DEF n
  <2>2. form' \in Forms /\ form'.mount = form.mount /\ form'.key = form.key /\ form'.client = form.client /\ form'.text = n
    BY <1>1, <2>1 DEF Forms
  <2> QED BY <2>2 DEF n
<1>4. FormTypes'
  BY <1>1, <1>2, <1>3 DEF FormInv, FormTypes
<1>5. \A c \in Clients, t \in Nat : Goes(c, t)' => Goes(c, t) \/ (t = typed + 1 /\ c = form.client)
  BY <1>1, <1>2, <1>3 DEF Goes, Sent
<1>6. \A c \in Clients : ~Goes(c, typed + 1)
  BY <1>1 DEF FormInv, WasTyped
<1>7. OneClient'
  BY <1>5, <1>6 DEF FormInv, OneClient
<1>8. WasTyped'
  <2> SUFFICES ASSUME NEW c \in Clients, NEW t \in Nat, Goes(c, t)' PROVE 0 < t /\ t <= typed'
    BY DEF WasTyped
  <2>1. Goes(c, t) => 0 < t /\ t <= typed
    BY DEF FormInv, WasTyped
  <2> QED BY <1>1, <1>2, <1>5, <2>1
<1> QED BY <1>4, <1>7, <1>8 DEF FormInv
\* What an answer does to the screen.
Screen ==
    /\ form' \in Forms \cup {None} /\ mounts' \in Nat
    /\ form' # None => form'.mount <= mounts'
    /\ form' # None /\ form'.text # 0 => form # None /\ form'.key = form.key /\ form'.client = form.client /\ form'.text = form.text

LEMMA SendStep ==
  ASSUME FormInv, Screen, typed' = typed, parked' = parked, jobs' \in SUBSET SaveJobs, queue' \in Seq(Writes),
         DOMAIN entries' \subseteq Clients, \A c \in DOMAIN entries' : entries'[c] \in Nat,
         \A c \in Clients, t \in Nat : Sent(c, t)' => Goes(c, t)
  PROVE  FormInv'
<1>1. FormTypes'
  BY DEF FormInv, FormTypes, Screen
<1>2. \A c \in Clients, t \in Nat : Goes(c, t)' => Goes(c, t)
  <2> SUFFICES ASSUME NEW c \in Clients, NEW t \in Nat, Goes(c, t)' PROVE Goes(c, t)
    OBVIOUS
  <2>1. CASE Sent(c, t)'
    BY <2>1
  <2>2. CASE ~Sent(c, t)'
    BY <2>2 DEF Goes, Screen
  <2> QED BY <2>1, <2>2
<1> QED BY <1>1, <1>2, SameTexts

LEMMA SameScreen ==
  ASSUME FormInv, mounts' = mounts,
         form' = form \/ (form # None /\ form' \in Forms /\ form'.mount = form.mount /\ form'.key = form.key
                          /\ form'.client = form.client /\ form'.text = form.text)
  PROVE  Screen
BY DEF FormInv, FormTypes, Screen, Forms

LEMMA SavedScreen ==
  ASSUME FormInv, NEW j \in SaveJobs, NEW undoable \in BOOLEAN, Saved(j, undoable)
  PROVE  Screen
<1>1. form \in Forms \cup {None} /\ mounts \in Nat /\ (form # None => form.mount <= mounts)
  BY DEF FormInv, FormTypes
<1>2. CASE j.layout = "panel" /\ j.key = "new"
  <2>1. /\ form' = IF Mounted(j) THEN [form EXCEPT !.text = 0, !.saves = @ + 1, !.client = <<form.mount, form.saves + 1>>,
                                                   !.dup = FALSE, !.submitting = FALSE]
                   ELSE IF form = None /\ mounts < MaxMounts THEN Skeleton("new", "panel") ELSE form
        /\ mounts' = IF form = None /\ mounts < MaxMounts THEN mounts + 1 ELSE mounts
    BY <1>2 DEF Saved
  <2>2. CASE Mounted(j)
    <3>1. form \in Forms /\ form # None /\ mounts' = mounts
      BY <1>1, <2>1, <2>2 DEF Mounted
    <3>2. form.saves + 1 \in Nat /\ <<form.mount, form.saves + 1>> \in Nat \X Nat
      BY <3>1 DEF Forms
    <3>3. form' \in Forms /\ form'.mount = form.mount /\ form'.text = 0
      BY <2>1, <2>2, <3>1, <3>2 DEF Forms
    <3> QED BY <1>1, <3>1, <3>3 DEF Screen
  <2>3. CASE ~Mounted(j) /\ form = None /\ mounts < MaxMounts
    <3>1. "new" \in Keys /\ "panel" \in Layouts /\ FormTypes
      BY DEF Keys, Layouts, FormInv
    <3>2. Skeleton("new", "panel") \in Forms /\ Skeleton("new", "panel").mount = mounts + 1 /\ Skeleton("new", "panel").text = 0
      BY <3>1, SkeletonIs
    <3> QED BY <1>1, <2>1, <2>3, <3>2 DEF Screen
  <2>4. CASE ~Mounted(j) /\ ~(form = None /\ mounts < MaxMounts)
    BY <1>1, <2>1, <2>4 DEF Screen
  <2> QED BY <2>2, <2>3, <2>4
<1>3. CASE ~(j.layout = "panel" /\ j.key = "new")
  <2>1. form' = (IF Mounted(j) THEN None ELSE Navigated(form)) /\ mounts' = mounts
    BY <1>3 DEF Saved
  <2>2. CASE form \in Forms
    <3>1. form # None /\ mounts' = mounts /\ (form' = None \/ form' = Navigated(form))
      BY <2>1, <2>2, ComposerAssumption
    <3>2. /\ form' \in Forms \cup {None}
          /\ form' # None => form'.mount = form.mount /\ form'.key = form.key /\ form'.client = form.client /\ form'.text = form.text
      BY <2>2, <3>1, NavigatedIs
    <3> QED BY <1>1, <3>1, <3>2 DEF Screen
  <2>3. CASE form = None
    BY <1>1, <2>1, <2>3 DEF Screen, Navigated, Dirty
  <2> QED BY <1>1, <2>2, <2>3
<1> QED BY <1>2, <1>3

LEMMA StartStep ==
  ASSUME FormInv, NEW stage \in {"check", "send"}, StartSave(stage)
  PROVE  FormInv'
<1> DEFINE job == [mount |-> form.mount, key |-> form.key, layout |-> form.layout, client |-> form.client, text |-> form.text, stage |-> stage]
<1>1. form \in Forms /\ form # None /\ form.text # 0
  BY DEF StartSave, Usable, FormInv, FormTypes
<1>2. job \in SaveJobs /\ job.client = form.client /\ job.text = form.text /\ job.key = form.key
  BY <1>1 DEF Forms, SaveJobs, Clients
<1>3. jobs' = jobs \cup {job} /\ form' = [form EXCEPT !.submitting = TRUE, !.dup = FALSE]
      /\ UNCHANGED <<mounts, typed, parked, queue, entries>>
  BY DEF StartSave
<1> HIDE DEF job
<1>4. Screen
  <2>1. form' \in Forms /\ form'.mount = form.mount /\ form'.key = form.key /\ form'.client = form.client /\ form'.text = form.text
    BY <1>1, <1>3 DEF Forms
  <2> QED BY <1>1, <1>3, <2>1, SameScreen
<1>5. \A c \in Clients, t \in Nat : Sent(c, t)' => Goes(c, t)
  BY <1>1, <1>2, <1>3 DEF Goes, Sent
<1> QED BY <1>2, <1>3, <1>4, <1>5, SendStep DEF FormInv, FormTypes

LEMMA TapsStep == ASSUME FormInv, TapSave \/ SaveAnyway \/ TapDelete PROVE FormInv'
<1>1. CASE TapSave \/ SaveAnyway
  BY <1>1, StartStep DEF TapSave, SaveAnyway
<1>2. CASE TapDelete
  <2> DEFINE job == [mount |-> form.mount, key |-> "edit", layout |-> form.layout, client |-> form.client, text |-> 0, stage |-> "delete"]
  <2>1. form \in Forms /\ form # None
    BY <1>2 DEF TapDelete, Usable, FormInv, FormTypes
  <2>2. job \in SaveJobs /\ job.key = "edit"
    BY <2>1 DEF Forms, SaveJobs, Clients, Keys
  <2>3. jobs' = jobs \cup {job} /\ form' = [form EXCEPT !.submitting = TRUE] /\ UNCHANGED <<mounts, typed, parked, queue, entries>>
    BY <1>2 DEF TapDelete
  <2> HIDE DEF job
  <2>4. Screen
    <3>1. form' \in Forms /\ form'.mount = form.mount /\ form'.key = form.key /\ form'.client = form.client /\ form'.text = form.text
      BY <2>1, <2>3 DEF Forms
    <3> QED BY <2>1, <2>3, <3>1, SameScreen
  <2>5. \A c \in Clients, t \in Nat : Sent(c, t)' => Goes(c, t)
    BY <2>2, <2>3 DEF Goes, Sent
  <2> QED BY <2>2, <2>3, <2>4, <2>5, SendStep DEF FormInv, FormTypes
<1> QED BY <1>1, <1>2

LEMMA AnswerStep ==
  ASSUME FormInv, NEW j \in jobs, FoundDuplicate(j) \/ NoDuplicate(j) \/ SendRefused(j) \/ DeleteFailed(j)
  PROVE  FormInv'
<1>1. j \in SaveJobs /\ jobs \in SUBSET SaveJobs
  BY DEF FormInv, FormTypes
<1>2. UNCHANGED <<mounts, typed, parked, queue, entries>>
  BY DEF FoundDuplicate, NoDuplicate, SendRefused, DeleteFailed
<1>3. Screen
  <2>1. CASE form' = form
    BY <1>2, <2>1, SameScreen
  <2>2. CASE form' # form
    <3>1. form # None /\ (form' = [form EXCEPT !.dup = TRUE, !.submitting = FALSE] \/ form' = [form EXCEPT !.submitting = FALSE])
      BY <2>2 DEF FoundDuplicate, NoDuplicate, SendRefused, DeleteFailed, Mounted
    <3>2. form \in Forms
      BY <3>1 DEF FormInv, FormTypes
    <3>3. form' \in Forms /\ form'.mount = form.mount /\ form'.key = form.key /\ form'.client = form.client /\ form'.text = form.text
      BY <3>1, <3>2 DEF Forms
    <3> QED BY <1>2, <3>1, <3>3, SameScreen
  <2> QED BY <2>1, <2>2
<1>4. CASE jobs' = jobs \ {j}
  <2>1. \A c \in Clients, t \in Nat : Sent(c, t)' => Goes(c, t)
    BY <1>2, <1>4 DEF Goes, Sent
  <2> QED BY <1>1, <1>2, <1>3, <1>4, <2>1, SendStep DEF FormInv, FormTypes
<1>5. CASE NoDuplicate(j)
  <2> DEFINE k == [j EXCEPT !.stage = "send"]
  <2>1. k \in SaveJobs /\ k.key = j.key /\ k.client = j.client /\ k.text = j.text
    BY <1>1 DEF SaveJobs
  <2>2. jobs' = (jobs \ {j}) \cup {k}
    BY <1>5 DEF NoDuplicate
  <2> HIDE DEF k
  <2>3. \A c \in Clients, t \in Nat : Sent(c, t)' => Goes(c, t)
    BY <1>2, <2>1, <2>2 DEF Goes, Sent
  <2>4. jobs' \in SUBSET SaveJobs
    BY <1>1, <2>1, <2>2
  <2> QED BY <1>2, <1>3, <2>3, <2>4, SendStep DEF FormInv, FormTypes
<1> QED BY <1>4, <1>5 DEF FoundDuplicate, SendRefused, DeleteFailed

\* The server's table with one entry more.
LEMMA OneEntryMore ==
  ASSUME FormInv, NEW d \in Clients, NEW u \in Nat, d \notin DOMAIN entries,
         entries' = [c \in DOMAIN entries \cup {d} |-> IF c = d THEN u ELSE entries[c]]
  PROVE  /\ DOMAIN entries' \subseteq Clients /\ \A c \in DOMAIN entries' : entries'[c] \in Nat
         /\ \A c \in Clients, t \in Nat : c \in DOMAIN entries' /\ entries'[c] = t =>
                (c = d /\ t = u) \/ (c \in DOMAIN entries /\ entries[c] = t)
BY DEF FormInv, FormTypes

LEMMA DoneStep ==
  ASSUME FormInv, NEW j \in jobs, SendDone(j) \/ SendQueued(j) \/ DeleteDone(j)
  PROVE  FormInv'
<1>1. /\ j \in SaveJobs /\ jobs \in SUBSET SaveJobs /\ j.client \in Clients /\ j.text \in Nat /\ j.key \in Keys
      /\ queue \in Seq(Writes) /\ jobs' = jobs \ {j}
  BY DEF FormInv, FormTypes, SaveJobs, SendDone, SendQueued, DeleteDone
<1>2. UNCHANGED <<typed, parked>>
  BY DEF SendDone, SendQueued, DeleteDone
<1>3. Screen
  <2>1. PICK u \in BOOLEAN : Saved(j, u)
    BY DEF SendDone, SendQueued, DeleteDone
  <2> QED BY <1>1, <2>1, SavedScreen
<1>4. /\ DOMAIN entries' \subseteq Clients /\ \A c \in DOMAIN entries' : entries'[c] \in Nat
      /\ \A c \in Clients, t \in Nat : c \in DOMAIN entries' /\ entries'[c] = t => Sent(c, t)
  <2>1. CASE entries' = entries
    BY <2>1 DEF FormInv, FormTypes, Sent
  <2>2. CASE entries' # entries
    <3>1. /\ j.key = "new" /\ j.client \notin DOMAIN entries
          /\ entries' = [c \in DOMAIN entries \cup {j.client} |-> IF c = j.client THEN j.text ELSE entries[c]]
      BY <2>2 DEF SendDone, SendQueued, DeleteDone
    <3>2. \A c \in Clients, t \in Nat : c \in DOMAIN entries' /\ entries'[c] = t =>
             (c = j.client /\ t = j.text) \/ (c \in DOMAIN entries /\ entries[c] = t)
      BY <1>1, <3>1, OneEntryMore
    <3>3. DOMAIN entries' \subseteq Clients /\ \A c \in DOMAIN entries' : entries'[c] \in Nat
      BY <1>1, <3>1, OneEntryMore
    <3> QED BY <3>1, <3>2, <3>3 DEF Sent
  <2> QED BY <2>1, <2>2
<1>5. /\ queue' \in Seq(Writes)
      /\ \A c \in Clients, t \in Nat : (\E i \in DOMAIN queue' : queue'[i].client = c /\ queue'[i].text = t /\ t # 0) => Sent(c, t)
  <2>1. CASE queue' = queue
    BY <1>1, <2>1 DEF Sent
  <2>2. CASE queue' # queue
    <3>1. PICK w \in {[client |-> j.client, text |-> j.text], [client |-> j.client, text |-> 0]} :
             queue' = Append(queue, w) /\ (w.text # 0 => j.key = "new" /\ w.text = j.text) /\ w.client = j.client
      BY <2>2 DEF SendDone, SendQueued, DeleteDone
    <3>2. w \in Writes
      BY <1>1 DEF Writes
    <3>3. \A i \in DOMAIN queue' : queue'[i] = w \/ (i \in DOMAIN queue /\ queue'[i] = queue[i])
      BY <1>1, <3>1, <3>2
    <3> QED BY <1>1, <3>1, <3>2, <3>3 DEF Sent
  <2> QED BY <2>1, <2>2
<1>6. \A c \in Clients, t \in Nat : Sent(c, t)' => Goes(c, t)
  BY <1>1, <1>4, <1>5 DEF Goes, Sent
<1> QED BY <1>1, <1>2, <1>3, <1>4, <1>5, <1>6, SendStep

LEMMA ReplayStep == ASSUME FormInv, Replay PROVE FormInv'
<1> DEFINE q == Head(queue)
<1>1. queue \in Seq(Writes) /\ queue # <<>>
  BY DEF FormInv, FormTypes, Replay
<1>2. /\ q = queue[1] /\ 1 \in DOMAIN queue /\ q \in Writes /\ Tail(queue) \in Seq(Writes)
      /\ \A i \in DOMAIN Tail(queue) : i + 1 \in DOMAIN queue /\ Tail(queue)[i] = queue[i + 1]
  BY <1>1
<1>3. /\ queue' = Tail(queue) /\ UNCHANGED <<form, mounts, typed, parked, jobs>>
      /\ entries' = IF q.text = 0 \/ q.client \in DOMAIN entries THEN entries
                    ELSE [c \in DOMAIN entries \cup {q.client} |-> IF c = q.client THEN q.text ELSE entries[c]]
  BY DEF Replay
<1> HIDE DEF q
<1>4. q.client \in Clients /\ q.text \in Nat
  BY <1>2 DEF Writes
<1>5. Screen
  BY <1>3, SameScreen
<1>6. /\ DOMAIN entries' \subseteq Clients /\ \A c \in DOMAIN entries' : entries'[c] \in Nat
      /\ \A c \in Clients, t \in Nat : c \in DOMAIN entries' /\ entries'[c] = t => Sent(c, t)
  <2>1. CASE entries' = entries
    BY <2>1 DEF FormInv, FormTypes, Sent
  <2>2. CASE entries' # entries
    <3>1. /\ q.text # 0 /\ q.client \notin DOMAIN entries
          /\ entries' = [c \in DOMAIN entries \cup {q.client} |-> IF c = q.client THEN q.text ELSE entries[c]]
      BY <1>3, <2>2
    <3>2. \A c \in Clients, t \in Nat : c \in DOMAIN entries' /\ entries'[c] = t =>
             (c = q.client /\ t = q.text) \/ (c \in DOMAIN entries /\ entries[c] = t)
      BY <1>4, <3>1, OneEntryMore
    <3>3. DOMAIN entries' \subseteq Clients /\ \A c \in DOMAIN entries' : entries'[c] \in Nat
      BY <1>4, <3>1, OneEntryMore
    <3> QED BY <1>2, <3>1, <3>2, <3>3 DEF Sent
  <2> QED BY <2>1, <2>2
<1>7. \A c \in Clients, t \in Nat : Sent(c, t)' => Goes(c, t)
  BY <1>2, <1>3, <1>6 DEF Goes, Sent
<1> QED BY <1>2, <1>3, <1>5, <1>6, <1>7, SendStep DEF FormInv, FormTypes

LEMMA LeaveStep == ASSUME FormInv, Leave \/ Discard \/ KeepEditing PROVE FormInv'
<1>1. form \in Forms /\ form # None
  BY DEF Leave, Discard, KeepEditing, FormInv, FormTypes
<1>2. UNCHANGED formTexts
  BY DEF Leave, Discard, KeepEditing, Refused, formTexts
<1>3. CASE form' = Navigated(form)
  BY <1>1, <1>2, <1>3, NavigatedIs, ScreenStep DEF FormInv, FormTypes
<1>4. CASE form' = None
  BY <1>2, <1>4, ScreenStep
<1>5. CASE form' = [form EXCEPT !.ask = "no"]
  <2>1. form' \in Forms /\ form'.mount = form.mount /\ form'.key = form.key /\ form'.client = form.client /\ form'.text = form.text
    BY <1>1, <1>5 DEF Forms
  <2> QED BY <1>1, <1>2, <2>1, ScreenStep DEF FormInv, FormTypes
<1> QED BY <1>3, <1>4, <1>5 DEF Leave, Discard, KeepEditing

LEMMA LineStep ==
  ASSUME FormInv,
         \/ UndoTimer \/ ToastTimer \/ GoOffline \/ GoOnline
         \/ \E line \in OffersUndo : TapUndo(line)
         \/ \E u \in undos : UndoDone(u) \/ UndoFailed(u)
         \/ \E id \in DOMAIN entries : RuleOffered(id)
  PROVE  FormInv'
<1>1. UNCHANGED formTexts /\ form' = form
  BY DEF UndoTimer, ToastTimer, GoOffline, GoOnline, TapUndo, UndoDone, UndoFailed, RuleOffered, formTexts
<1> QED BY <1>1, SameForm

LEMMA FormInvNext == FormInv /\ [FormNext]_formVars => FormInv'
<1> SUFFICES ASSUME FormInv, [FormNext]_formVars PROVE FormInv'
  OBVIOUS
<1>1. CASE UNCHANGED formVars
  BY <1>1, SameForm DEF formVars, formTexts
<1>2. CASE (\E key \in Keys, layout \in Layouts : Open(key, layout)) \/ OpenThatOne \/ Cross
  BY <1>2, OpensStep
<1>3. CASE Ready \/ Type
  BY <1>3, ReadyStep, TypeStep
<1>4. CASE Leave \/ Discard \/ KeepEditing
  BY <1>4, LeaveStep
<1>5. CASE TapSave \/ SaveAnyway \/ TapDelete
  BY <1>5, TapsStep
<1>6. ASSUME NEW j \in jobs, FoundDuplicate(j) \/ NoDuplicate(j) \/ SendRefused(j) \/ DeleteFailed(j) PROVE FormInv'
  BY <1>6, AnswerStep
<1>7. ASSUME NEW j \in jobs, SendDone(j) \/ SendQueued(j) \/ DeleteDone(j) PROVE FormInv'
  BY <1>7, DoneStep
<1>8. CASE Replay
  BY <1>8, ReplayStep
<1>9. CASE \/ UndoTimer \/ ToastTimer \/ GoOffline \/ GoOnline
           \/ \E line \in OffersUndo : TapUndo(line)
           \/ \E u \in undos : UndoDone(u) \/ UndoFailed(u)
           \/ \E id \in DOMAIN entries : RuleOffered(id)
  BY <1>9, LineStep
<1> QED BY <1>1, <1>2, <1>3, <1>4, <1>5, <1>6, <1>7, <1>8, <1>9 DEF FormNext

LEMMA FormInvInit == FormInit => FormInv
<1> SUFFICES ASSUME FormInit PROVE FormInv
  OBVIOUS
<1>1. queue = <<>> /\ queue \in Seq(Writes) /\ DOMAIN queue = {} /\ DOMAIN entries = {} /\ jobs = {} /\ form = None
  BY DEF FormInit
<1>2. \A c, t : ~Goes(c, t)
  BY <1>1 DEF FormInit, Goes, Sent, Keys
<1>3. FormTypes
  BY <1>1 DEF FormInit, FormTypes
<1> QED BY <1>2, <1>3 DEF FormInv, OneClient, WasTyped

LEMMA FormInvHolds == FormSpec => []FormInv
BY FormInvInit, FormInvNext, PTL DEF FormSpec

\* What was typed becomes one entry at most: wherever a text is under way or stored, it goes by one client_id.
THEOREM SavesAreOneEntry == FormSpec => []SavedOnce
<1>1. ASSUME FormInv PROVE SavedOnce
  <2> DEFINE sent == {<<c, entries[c]>> : c \in DOMAIN entries} \cup {<<q.client, q.text>> : q \in {w \in ToSet(queue) : w.text # 0}}
                     \cup {<<j.client, j.text>> : j \in {k \in jobs : k.key = "new"}}
  <2>1. ASSUME NEW a \in sent PROVE a[1] \in Clients /\ a[2] \in Nat /\ Sent(a[1], a[2])
    <3>1. CASE a \in {<<c, entries[c]>> : c \in DOMAIN entries}
      BY <1>1, <3>1 DEF FormInv, FormTypes, Sent
    <3>2. CASE a \in {<<q.client, q.text>> : q \in {w \in ToSet(queue) : w.text # 0}}
      <4>1. PICK i \in DOMAIN queue : a = <<queue[i].client, queue[i].text>> /\ queue[i].text # 0
        BY <3>2 DEF ToSet
      <4>2. queue[i] \in Writes
        BY <1>1, <4>1 DEF FormInv, FormTypes
      <4> QED BY <4>1, <4>2 DEF Writes, Sent
    <3>3. CASE a \in {<<j.client, j.text>> : j \in {k \in jobs : k.key = "new"}}
      <4>1. PICK j \in jobs : j.key = "new" /\ a = <<j.client, j.text>>
        BY <3>3
      <4>2. j \in SaveJobs
        BY <1>1, <4>1 DEF FormInv, FormTypes
      <4> QED BY <4>1, <4>2 DEF SaveJobs, Sent
    <3> QED BY <3>1, <3>2, <3>3
  <2> HIDE DEF sent
  <2>2. \A a, b \in sent : a[2] = b[2] => a[1] = b[1]
    BY <1>1, <2>1 DEF FormInv, OneClient, Goes
  <2> QED BY <2>2 DEF SavedOnce, sent
<1> QED BY <1>1, FormInvHolds, PTL
\* A step that leaves the same form open, with something typed in it.
StaysOpen == form' # None /\ form'.mount = form.mount /\ form'.text # 0

LEMMA OpenStays ==
  ASSUME FormInv, Dirty(form), ~Saving(form), FormNext, ~Cross, ~Discard, ~OpenThatOne
  PROVE  StaysOpen
<1>1. form \in Forms /\ form # None /\ form.ready /\ form.text # 0 /\ typed \in Nat /\ mounts \in Nat
  BY DEF FormInv, FormTypes, Dirty
<1>2. CASE form' = form
  BY <1>1, <1>2 DEF StaysOpen
<1>3. CASE form' \in {[form EXCEPT !.dup = TRUE, !.submitting = FALSE], [form EXCEPT !.submitting = FALSE],
                     [form EXCEPT !.submitting = TRUE, !.dup = FALSE], [form EXCEPT !.submitting = TRUE],
                     [form EXCEPT !.ask = "no"]}
  <2>1. form' \in Forms /\ form'.mount = form.mount /\ form'.text = form.text
    BY <1>1, <1>3 DEF Forms
  <2> QED BY <1>1, <2>1, ComposerAssumption DEF StaysOpen
<1>4. CASE form' = [form EXCEPT !.text = typed + 1]
  <2>1. typed + 1 \in Nat /\ typed + 1 # 0
    BY <1>1
  <2>2. form' \in Forms /\ form'.mount = form.mount /\ form'.text = typed + 1
    BY <1>1, <1>4, <2>1 DEF Forms
  <2> QED BY <2>1, <2>2, ComposerAssumption DEF StaysOpen
<1>5. CASE form' = Navigated(form)
  <2>1. form' # None
    BY <1>1, <1>5, NavigatedIs
  <2> QED BY <1>1, <1>5, <2>1, NavigatedIs DEF StaysOpen
<1>6. ASSUME NEW j \in jobs, SendDone(j) \/ SendQueued(j) \/ DeleteDone(j) PROVE form' = form \/ form' = Navigated(form)
  <2>1. ~Mounted(j)
    BY DEF Saving, Mounted
  <2>2. PICK u \in BOOLEAN : Saved(j, u)
    BY <1>6 DEF SendDone, SendQueued, DeleteDone
  <2> QED BY <1>1, <2>1, <2>2 DEF Saved
<1>7. CASE (\E key \in Keys, layout \in Layouts : Open(key, layout)) \/ Ready
  BY <1>1, <1>7 DEF Open, Ready
<1>8. CASE Leave
  BY <1>5, <1>8 DEF Leave
<1>9. CASE Type \/ KeepEditing
  BY <1>3, <1>4, <1>9 DEF Type, KeepEditing
<1>10. CASE TapSave \/ SaveAnyway \/ TapDelete
  BY <1>3, <1>10 DEF TapSave, SaveAnyway, TapDelete, StartSave
<1>11. ASSUME NEW j \in jobs, FoundDuplicate(j) \/ NoDuplicate(j) \/ SendRefused(j) \/ DeleteFailed(j) PROVE StaysOpen
  BY <1>2, <1>3, <1>11 DEF FoundDuplicate, NoDuplicate, SendRefused, DeleteFailed
<1>12. CASE \/ Replay \/ UndoTimer \/ ToastTimer \/ GoOffline \/ GoOnline
            \/ \E line \in OffersUndo : TapUndo(line)
            \/ \E u \in undos : UndoDone(u) \/ UndoFailed(u)
            \/ \E id \in DOMAIN entries : RuleOffered(id)
  BY <1>2, <1>12 DEF Replay, UndoTimer, ToastTimer, GoOffline, GoOnline, TapUndo, UndoDone, UndoFailed, RuleOffered
<1> QED BY <1>2, <1>5, <1>6, <1>7, <1>8, <1>9, <1>10, <1>11, <1>12 DEF FormNext

LEMMA CrossParks == ASSUME FormInv, Dirty(form), Cross PROVE \A t \in 1 .. MaxTyped : t = form.text => Kept(t)'
<1>1. form \in Forms /\ form.key \in Keys /\ form.leaving = FALSE /\ parked \in [Keys -> Parks \cup {None}]
  BY DEF FormInv, FormTypes, Dirty, Forms
<1>2. parked' = [parked EXCEPT ![form.key] = [text |-> form.text, client |-> form.client]]
  BY <1>1 DEF Cross
<1>3. [text |-> form.text, client |-> form.client] \in Parks
  BY <1>1 DEF Forms, Parks
<1>4. parked'[form.key] # None /\ parked'[form.key].text = form.text
  BY <1>1, <1>2, <1>3, ComposerAssumption
<1> QED BY <1>1, <1>4 DEF Kept

\* A changed draft leaves the screen only into a save, a park or a choice of the member's: no answer, timer, crossing or
\* address takes it away, for any number of forms and saves.
THEOREM TypedStays == FormSpec => TypedIsKept
<1>1. ASSUME FormInv, FormNext, Dirty(form), ~Saving(form), form' = None \/ form'.mount # form.mount \/ form'.text = 0
      PROVE  (\A t \in 1 .. MaxTyped : t = form.text => Kept(t)') \/ Discard \/ OpenThatOne
  <2>1. CASE Cross
    BY <1>1, <2>1, CrossParks
  <2>2. CASE ~Cross
    BY <1>1, <2>2, OpenStays DEF StaysOpen
  <2> QED BY <2>1, <2>2
<1>2. FormInv /\ [FormNext]_formVars =>
        [/\ Dirty(form) /\ ~Saving(form)
         /\ form' = None \/ form'.mount # form.mount \/ form'.text = 0
         => (\A t \in 1..MaxTyped : t = form.text => Kept(t)') \/ Discard \/ OpenThatOne]_formVars
  BY <1>1
<1> QED BY <1>2, FormInvHolds, PTL DEF FormSpec, TypedIsKept

(***************************************************************************)
(* The camera of "Add to pantry".                                          *)
(***************************************************************************)
Cameras == [phase : {"asking", "starting", "frame", "reading", "off"}, live : BOOLEAN, stream : BOOLEAN, home : BOOLEAN]
ShownKeys == Goods \cup {"found", "manual"}
Asks == [q : Queries \cup {None}, aborted : BOOLEAN]
Answers == {"none", "missing", "have", "found"}
Probes == [code : Codes, answer : Answers, aborted : BOOLEAN]
PostFields == {"id", "good", "key", "there", "stage", "home"}

\* The sheet of a barcode lies over the page, never over the camera.
SheetOK == sheet # None => sheet \in Sheets /\ (sheet.lookup # None => sheet.scanning = FALSE)

\* A camera that streams is the live one, and that is the one whose window is open; a camera is at home on a sheet.
CamerasOK ==
    /\ cams \in Seq(Cameras)
    /\ \A c \in DOMAIN cams :
          /\ cams[c].stream = TRUE => cams[c].live = TRUE
          /\ cams[c].live = TRUE => WindowOpen(c)
          /\ cams[c].home = TRUE => sheet # None

\* What was asked from a sheet that is gone says so.
IsPost(p) == DOMAIN p = PostFields /\ p.key \in ShownKeys /\ (p.key \in Goods => p.good = p.key)
PostsOK == \A p \in posts : IsPost(p) /\ ((p.there = TRUE \/ p.home = "open") => sheet # None)
ProbesOK == \A b \in probes : b \in Probes /\ (b.aborted = FALSE => sheet # None)

AddInv == SheetOK /\ CamerasOK /\ PostsOK /\ ProbesOK /\ asks \in SUBSET Asks

(***************************************************************************)
(* The helpers.                                                            *)
(***************************************************************************)
LEMMA AbortedProbes ==
  ASSUME NEW set \in SUBSET Probes PROVE \A b \in Aborted(set) : b \in Probes /\ b.aborted = TRUE
BY DEF Aborted, Probes

LEMMA AbortedAsks == ASSUME NEW set \in SUBSET Asks PROVE Aborted(set) \in SUBSET Asks
BY DEF Aborted, Asks

LEMMA UnmountedPosts ==
  ASSUME PostsOK, NEW keys, NEW q \in Unmounted(keys)
  PROVE  IsPost(q) /\ ((q.there = TRUE \/ q.home = "open") => sheet # None)
<1>1. PICK p \in posts : q = [p EXCEPT !.there = @ /\ p.key \notin keys]
  BY DEF Unmounted
<1>2. DOMAIN p = PostFields
  BY DEF PostsOK, IsPost
<1>3. DOMAIN q = PostFields /\ q.key = p.key /\ q.good = p.good /\ q.home = p.home
  BY <1>1, <1>2 DEF PostFields
<1>4. q.there = TRUE => p.there = TRUE
  BY <1>1, <1>2 DEF PostFields
<1> QED BY <1>3, <1>4 DEF PostsOK, IsPost

LEMMA LeftPosts ==
  ASSUME NEW set, \A p \in set : IsPost(p), NEW home, home # "open", NEW q \in Left(set, home)
  PROVE  IsPost(q) /\ q.there = FALSE /\ q.home # "open"
<1>1. PICK p \in set : q = [p EXCEPT !.there = FALSE, !.home = IF @ = "gone" THEN @ ELSE home]
  BY DEF Left
<1> QED BY <1>1 DEF IsPost, PostFields

LEMMA StoppedCamera ==
  ASSUME NEW k \in Cameras
  PROVE  Stopped(k) \in Cameras /\ Stopped(k).live = FALSE /\ Stopped(k).stream = FALSE /\ Stopped(k).home = k.home
BY DEF Cameras, Stopped

LEMMA OffCamera ==
  ASSUME NEW k \in Cameras
  PROVE  LET o == [Stopped(k) EXCEPT !.phase = "off"]
         IN  o \in Cameras /\ o.live = FALSE /\ o.stream = FALSE /\ o.home = k.home
BY DEF Cameras, Stopped

LEMMA LeftCamera ==
  ASSUME NEW k \in Cameras
  PROVE  LET o == [Stopped(k) EXCEPT !.home = FALSE]
         IN  o \in Cameras /\ o.live = FALSE /\ o.stream = FALSE /\ o.home = FALSE
BY DEF Cameras, Stopped

\* One camera changes.
LEMMA OneCamera ==
  ASSUME cams \in Seq(Cameras), NEW c \in DOMAIN cams, NEW k \in Cameras
  PROVE  LET d == [cams EXCEPT ![c] = k]
         IN  /\ d \in Seq(Cameras) /\ DOMAIN d = DOMAIN cams /\ Len(d) = Len(cams) /\ d[c] = k
             /\ \A e \in DOMAIN cams : e # c => d[e] = cams[e]
OBVIOUS

(***************************************************************************)
(* The kinds of steps.                                                     *)
(***************************************************************************)
\* The sheet stays as open, and as far from the camera, as it was.
SheetStays ==
    /\ sheet = None => sheet' = None
    /\ sheet # None => sheet' \in Sheets /\ sheet'.scanning = sheet.scanning
                       /\ (sheet'.lookup # None => sheet.lookup # None)

LEMMA StayingSheet == ASSUME AddInv, SheetStays PROVE SheetOK' /\ (sheet # None <=> sheet' # None)
BY PantryAddAssumption DEF AddInv, SheetOK, SheetStays

LEMMA QuietStep ==
  ASSUME AddInv, SheetStays, cams' = cams, PostsOK', ProbesOK', asks' \in SUBSET Asks PROVE AddInv'
<1>1. SheetOK' /\ (sheet # None <=> sheet' # None)
  BY StayingSheet
<1>2. sheet # None => sheet'.scanning = sheet.scanning
  BY DEF SheetStays
<1>3. CamerasOK'
  BY <1>1, <1>2 DEF AddInv, CamerasOK, WindowOpen
<1> QED BY <1>1, <1>3 DEF AddInv

LEMMA SamePosts == ASSUME AddInv, SheetStays, posts' \in SUBSET posts PROVE PostsOK'
<1>1. sheet # None <=> sheet' # None
  BY StayingSheet
<1> QED BY <1>1 DEF AddInv, PostsOK

LEMMA UnmountedKeep ==
  ASSUME AddInv, SheetStays, NEW keys, posts' \in SUBSET Unmounted(keys) PROVE PostsOK'
<1>1. sheet # None <=> sheet' # None
  BY StayingSheet
<1>2. \A q \in posts' : IsPost(q) /\ ((q.there = TRUE \/ q.home = "open") => sheet # None)
  BY UnmountedPosts DEF AddInv
<1> QED BY <1>1, <1>2 DEF PostsOK

LEMMA SameProbes == ASSUME AddInv, SheetStays, probes' \in SUBSET probes PROVE ProbesOK'
<1>1. sheet # None <=> sheet' # None
  BY StayingSheet
<1> QED BY <1>1 DEF AddInv, ProbesOK

LEMMA AbortedKeep == ASSUME AddInv, probes' = Aborted(probes) PROVE ProbesOK'
<1>1. probes \in SUBSET Probes
  BY DEF AddInv, ProbesOK
<1>2. \A b \in probes' : b \in Probes /\ b.aborted = TRUE
  BY <1>1, AbortedProbes
<1> QED BY <1>2 DEF ProbesOK

LEMMA GoneStep ==
  ASSUME AddInv, NEW home, home # "open", NEW set \in SUBSET posts, Gone(home, set) PROVE AddInv'
<1>1. sheet' = None /\ cams' = CamsLeft /\ posts' = Left(set, home) /\ asks' = Aborted(asks) /\ probes' = Aborted(probes)
  BY DEF Gone
<1>2. SheetOK'
  BY <1>1 DEF SheetOK
<1>3. ProbesOK' /\ asks' \in SUBSET Asks
  BY <1>1, AbortedKeep, AbortedAsks DEF AddInv
<1>4. PostsOK'
  <2>1. \A p \in set : IsPost(p)
    BY DEF AddInv, PostsOK
  <2>2. \A q \in posts' : IsPost(q) /\ q.there = FALSE /\ q.home # "open"
    BY <1>1, <2>1, LeftPosts
  <2> QED BY <2>2 DEF PostsOK
<1>5. CamerasOK'
  <2>1. cams \in Seq(Cameras)
    BY DEF AddInv, CamerasOK
  <2>2. \A c \in DOMAIN cams : cams[c] \in Cameras
    BY <2>1
  <2> DEFINE k(c) == [Stopped(cams[c]) EXCEPT !.home = FALSE]
  <2>3. cams' = [c \in DOMAIN cams |-> k(c)]
    BY <1>1 DEF CamsLeft
  <2>4. \A c \in DOMAIN cams : k(c) \in Cameras /\ k(c).live = FALSE /\ k(c).stream = FALSE /\ k(c).home = FALSE
    BY <2>2, LeftCamera
  <2> HIDE DEF k
  <2>5. cams' \in Seq(Cameras) /\ DOMAIN cams' = DOMAIN cams
    BY <2>1, <2>3, <2>4
  <2> QED BY <2>3, <2>4, <2>5 DEF CamerasOK
<1> QED BY <1>2, <1>3, <1>4, <1>5 DEF AddInv

(***************************************************************************)
(* The page, the search and the network.                                   *)
(***************************************************************************)
LEMMA OpenSheetAdds == ASSUME AddInv, OpenSheet PROVE AddInv'
<1>1. sheet = None /\ sheet' = Fresh /\ UNCHANGED <<asks, cams, probes, posts>>
  BY DEF OpenSheet
<1>2. Fresh \in Sheets /\ Fresh.lookup = None
  BY DEF Fresh, Sheets
<1>3. SheetOK'
  BY <1>1, <1>2 DEF SheetOK
<1>4. \A c \in DOMAIN cams : cams[c].live # TRUE /\ cams[c].home # TRUE
  BY <1>1 DEF AddInv, CamerasOK, WindowOpen
<1>5. CamerasOK'
  BY <1>1, <1>4 DEF AddInv, CamerasOK
<1> QED BY <1>1, <1>3, <1>5 DEF AddInv, PostsOK, ProbesOK

\* The effect of a query leaves the sheet where it is.
LEMMA SearchingStays ==
  ASSUME AddInv, sheet # None, NEW q \in Queries \cup {None}, NEW on \in BOOLEAN, sheet' = Searching(sheet, q, on)
  PROVE  SheetStays
<1>1. sheet \in Sheets
  BY DEF AddInv, SheetOK
<1>2. sheet' \in Sheets /\ sheet'.scanning = sheet.scanning /\ sheet'.lookup = sheet.lookup
  <2> DEFINE timer == q # None /\ on
             left == IF q # None /\ on THEN sheet.sending ELSE sheet.sending \ Goods
  <2>1. timer \in BOOLEAN /\ left \in SUBSET (Goods \cup {"found", "manual"})
    BY <1>1 DEF Sheets
  <2>2. sheet' = [sheet EXCEPT !.query = q, !.timer = timer, !.sending = left]
    BY DEF Searching
  <2> HIDE DEF timer, left
  <2> QED BY <1>1, <2>1, <2>2 DEF Sheets
<1> QED BY <1>2 DEF SheetStays

LEMMA SearchStep ==
  ASSUME AddInv,
         \/ \E q \in Queries \cup {None} : TypeQuery(q)
         \/ Pause
         \/ \E a \in asks : SearchAnswered(a) \/ SearchFailed(a)
  PROVE  AddInv'
<1>1. cams' = cams /\ probes' = probes
  BY DEF TypeQuery, Pause, SearchAnswered, SearchFailed
<1>2. ASSUME NEW q \in Queries \cup {None}, TypeQuery(q) PROVE AddInv'
  <2>1. SheetStays
    BY <1>2, SearchingStays DEF TypeQuery, Page, OnTop
  <2>2. PostsOK'
    BY <1>2, <2>1, SamePosts, UnmountedKeep DEF TypeQuery
  <2>3. asks' \in SUBSET Asks
    BY <1>2, AbortedAsks DEF TypeQuery, AddInv
  <2> QED BY <1>1, <2>1, <2>2, <2>3, SameProbes, QuietStep
<1>3. CASE Pause
  <2>1. sheet # None /\ sheet \in Sheets
    BY <1>3 DEF Pause, AddInv, SheetOK
  <2>2. SheetStays
    <3>1. sheet' = [sheet EXCEPT !.timer = FALSE, !.search = [state |-> "loading", q |-> sheet.query], !.sending = @ \ Goods]
      BY <1>3 DEF Pause
    <3>2. sheet' \in Sheets /\ sheet'.scanning = sheet.scanning /\ sheet'.lookup = sheet.lookup
      BY <2>1, <3>1 DEF Sheets
    <3> QED BY <2>1, <3>2 DEF SheetStays
  <2>3. PostsOK'
    BY <1>3, <2>2, UnmountedKeep DEF Pause
  <2>4. asks' \in SUBSET Asks
    <3>1. sheet.query \in Queries \cup {None}
      BY <2>1 DEF Sheets
    <3>2. [q |-> sheet.query, aborted |-> FALSE] \in Asks
      BY <3>1 DEF Asks
    <3>3. asks' = asks \cup {[q |-> sheet.query, aborted |-> FALSE]}
      BY <1>3 DEF Pause
    <3> QED BY <3>2, <3>3 DEF AddInv
  <2> QED BY <1>1, <2>2, <2>3, <2>4, SameProbes, QuietStep
<1>4. ASSUME NEW a \in asks, SearchAnswered(a) \/ SearchFailed(a) PROVE AddInv'
  <2>1. a.q \in Queries \cup {None}
    BY DEF AddInv, Asks
  <2>2. SheetStays
    <3>1. \/ sheet' = sheet
          \/ \E state \in {"done", "unavailable"} :
                sheet # None /\ sheet' = [sheet EXCEPT !.search = [state |-> state, q |-> a.q]]
      BY <1>4 DEF SearchAnswered, SearchFailed, Shows
    <3> QED BY <2>1, <3>1 DEF SheetStays, AddInv, SheetOK, Sheets
  <2>3. posts' = posts /\ asks' \in SUBSET Asks
    BY <1>4 DEF SearchAnswered, SearchFailed, AddInv
  <2> QED BY <1>1, <2>2, <2>3, SamePosts, SameProbes, QuietStep
<1> QED BY <1>2, <1>3, <1>4

LEMMA NetworkStep == ASSUME AddInv, NetworkLost \/ NetworkBack PROVE AddInv'
<1>1. SheetStays
  <2>1. CASE sheet = None
    BY <2>1 DEF NetworkLost, NetworkBack, SheetStays
  <2>2. CASE sheet # None
    <3>1. sheet.query \in Queries \cup {None}
      BY <2>2 DEF AddInv, SheetOK, Sheets
    <3>2. sheet' = Searching(sheet, sheet.query, FALSE) \/ sheet' = Searching(sheet, sheet.query, TRUE)
      BY <2>2 DEF NetworkLost, NetworkBack
    <3> QED BY <2>2, <3>1, <3>2, SearchingStays
  <2> QED BY <2>1, <2>2
<1>2. cams' = cams /\ probes' = probes
  BY DEF NetworkLost, NetworkBack
<1>3. PostsOK'
  BY <1>1, SamePosts, UnmountedKeep DEF NetworkLost, NetworkBack
<1>4. asks' \in SUBSET Asks
  BY AbortedAsks DEF NetworkLost, NetworkBack, AddInv
<1> QED BY <1>1, <1>2, <1>3, <1>4, SameProbes, QuietStep

(***************************************************************************)
(* The camera's own steps.                                                 *)
(***************************************************************************)
\* No camera is live while the window is closed, and only the last one is while it is open.
LEMMA WhoIsLive ==
  ASSUME AddInv
  PROVE  /\ (sheet = None \/ sheet.scanning # TRUE) => \A c \in DOMAIN cams : cams[c].live = FALSE
         /\ \A c \in DOMAIN cams : cams[c].live = TRUE => c = Len(cams)
         /\ \A c \in DOMAIN cams : cams[c] \in Cameras
<1>1. \A c \in DOMAIN cams : cams[c] \in Cameras
  BY DEF AddInv, CamerasOK
<1>2. \A c \in DOMAIN cams : cams[c].live \in BOOLEAN
  BY <1>1 DEF Cameras
<1>3. \A c \in DOMAIN cams : cams[c].live = TRUE => WindowOpen(c)
  BY DEF AddInv, CamerasOK
<1> QED BY <1>1, <1>2, <1>3 DEF WindowOpen

\* A window opens over the page.
LEMMA NewCamera ==
  ASSUME AddInv, \A c \in DOMAIN cams : cams[c].live = FALSE, ScannerOpens,
         sheet # None, sheet' \in Sheets, sheet'.scanning = TRUE, sheet'.lookup = None
  PROVE  SheetOK' /\ CamerasOK'
<1> DEFINE k == [phase |-> "asking", live |-> TRUE, stream |-> FALSE, home |-> TRUE]
<1>1. cams' = Append(cams, k) /\ cams \in Seq(Cameras)
  BY DEF ScannerOpens, AddInv, CamerasOK
<1>2. k \in Cameras /\ k.stream = FALSE
  BY DEF Cameras
<1> HIDE DEF k
<1>3. /\ cams' \in Seq(Cameras) /\ Len(cams') = Len(cams) + 1 /\ cams'[Len(cams) + 1] = k
      /\ \A c \in DOMAIN cams' : c = Len(cams') \/ (c \in DOMAIN cams /\ cams'[c] = cams[c])
  BY <1>1, <1>2
<1>4. sheet' # None
  BY PantryAddAssumption
<1>5. CamerasOK'
  <2> SUFFICES ASSUME NEW c \in DOMAIN cams'
               PROVE  /\ cams'[c].stream = TRUE => cams'[c].live = TRUE
                      /\ cams'[c].live = TRUE => WindowOpen(c)'
    BY <1>3, <1>4 DEF CamerasOK
  <2>1. CASE c = Len(cams')
    <3>1. WindowOpen(c)'
      BY <1>4, <2>1 DEF WindowOpen
    <3>2. cams'[c] = k
      BY <1>1, <1>3, <2>1
    <3> QED BY <1>2, <3>1, <3>2
  <2>2. CASE c # Len(cams')
    BY <1>3, <2>2 DEF AddInv, CamerasOK
  <2> QED BY <2>1, <2>2
<1> QED BY <1>5 DEF SheetOK

LEMMA ScanStep == ASSUME AddInv, Scan PROVE AddInv'
<1>1. /\ sheet # None /\ sheet \in Sheets /\ sheet.scanning # TRUE /\ sheet.lookup = None
      /\ UNCHANGED <<asks, probes, posts>> /\ ScannerOpens
  BY DEF Scan, Page, OnTop, AddInv, SheetOK
<1>2. sheet' \in Sheets /\ sheet'.scanning = TRUE /\ sheet'.lookup = None
  BY <1>1 DEF Scan, Sheets
<1>3. sheet' # None
  BY <1>2, PantryAddAssumption
<1> QED BY <1>1, <1>2, <1>3, WhoIsLive, NewCamera DEF AddInv, PostsOK, ProbesOK

LEMMA CameraStep ==
  ASSUME AddInv, NEW c \in DOMAIN cams, Granted(c) \/ Started(c) \/ NextFrame(c) \/ NothingRead(c)
  PROVE  AddInv'
<1>1. UNCHANGED <<sheet, asks, probes, posts>>
  BY DEF Granted, Started, NextFrame, NothingRead, CamStep
<1>2. cams[c] \in Cameras
  BY DEF AddInv, CamerasOK
<1>3. PICK k : /\ cams' = [cams EXCEPT ![c] = k] /\ k \in Cameras /\ k.live = cams[c].live /\ k.home = cams[c].home
               /\ k.stream = TRUE => cams[c].stream = TRUE \/ cams[c].live = TRUE
  <2>1. PICK phase \in {"starting", "frame", "reading", "off"} :
            \/ cams' = [cams EXCEPT ![c] = [cams[c] EXCEPT !.phase = phase]]
            \/ cams[c].live = TRUE /\ cams' = [cams EXCEPT ![c] = [cams[c] EXCEPT !.phase = phase, !.stream = TRUE]]
    BY <1>2 DEF Granted, Started, NextFrame, NothingRead, CamStep, Cameras
  <2>2. LET k == [cams[c] EXCEPT !.phase = phase]
        IN  k \in Cameras /\ k.live = cams[c].live /\ k.home = cams[c].home /\ k.stream = cams[c].stream
    BY <1>2 DEF Cameras
  <2>3. LET k == [cams[c] EXCEPT !.phase = phase, !.stream = TRUE]
        IN  k \in Cameras /\ k.live = cams[c].live /\ k.home = cams[c].home
    BY <1>2 DEF Cameras
  <2> QED BY <2>1, <2>2, <2>3
<1>4. cams \in Seq(Cameras)
  BY DEF AddInv, CamerasOK
<1>5. /\ cams' \in Seq(Cameras) /\ DOMAIN cams' = DOMAIN cams /\ Len(cams') = Len(cams) /\ cams'[c] = k
      /\ \A e \in DOMAIN cams : e # c => cams'[e] = cams[e]
  BY <1>3, <1>4, OneCamera
<1>6. CamerasOK'
  BY <1>1, <1>3, <1>5 DEF AddInv, CamerasOK, WindowOpen
<1> QED BY <1>1, <1>6 DEF AddInv, SheetOK, PostsOK, ProbesOK

\* What closes the window leaves no camera live.
LEMMA AllOff ==
  ASSUME AddInv, cams' \in Seq(Cameras), DOMAIN cams' = DOMAIN cams,
         \A c \in DOMAIN cams : cams'[c].live = FALSE /\ cams'[c].stream = FALSE /\ cams'[c].home = cams[c].home,
         sheet # None => sheet' # None
  PROVE  CamerasOK'
BY DEF AddInv, CamerasOK

LEMMA LookedUpSheet ==
  ASSUME NEW s \in Sheets, NEW code \in Codes
  PROVE  LookedUp(s, code) \in Sheets /\ LookedUp(s, code).scanning = FALSE
BY DEF LookedUp, Sheets

LEMMA OneProbe ==
  ASSUME AddInv, sheet # None, sheet' # None, NEW code \in Codes, Probe(code) PROVE ProbesOK'
<1>1. [code |-> code, answer |-> "none", aborted |-> FALSE] \in Probes
  BY DEF Probes, Answers
<1> QED BY <1>1 DEF Probe, AddInv, ProbesOK

LEMMA ReadStep == ASSUME AddInv, NEW c \in DOMAIN cams, NEW code \in Codes, Read(c, code) PROVE AddInv'
<1> DEFINE k == [Stopped(cams[c]) EXCEPT !.phase = "off"]
<1>1. cams' = [cams EXCEPT ![c] = k] /\ UNCHANGED <<asks, posts>>
  BY DEF Read
<1>2. cams[c] \in Cameras /\ cams \in Seq(Cameras)
  BY DEF AddInv, CamerasOK
<1>3. k \in Cameras /\ k.live = FALSE /\ k.stream = FALSE /\ k.home = cams[c].home
  BY <1>2, OffCamera
<1> HIDE DEF k
<1>4. /\ cams' \in Seq(Cameras) /\ DOMAIN cams' = DOMAIN cams /\ Len(cams') = Len(cams) /\ cams'[c] = k
      /\ \A e \in DOMAIN cams : e # c => cams'[e] = cams[e]
  BY <1>1, <1>2, <1>3, OneCamera
<1>5. CASE cams[c].live = TRUE
  <2>1. sheet # None /\ sheet \in Sheets /\ c = Len(cams)
    BY <1>5 DEF AddInv, CamerasOK, SheetOK, WindowOpen
  <2>2. sheet' = LookedUp(sheet, code) /\ Probe(code)
    BY <1>5 DEF Read
  <2>3. sheet' \in Sheets /\ sheet'.scanning = FALSE /\ sheet' # None
    BY <2>1, <2>2, LookedUpSheet, PantryAddAssumption
  <2>4. \A e \in DOMAIN cams : cams'[e].live = FALSE /\ cams'[e].stream = FALSE /\ cams'[e].home = cams[e].home
    <3>1. \A e \in DOMAIN cams : e # c => cams[e].live = FALSE /\ cams[e].stream = FALSE
      <4>1. \A e \in DOMAIN cams : cams[e].live \in BOOLEAN /\ cams[e].stream \in BOOLEAN
        BY WhoIsLive DEF Cameras
      <4> QED BY <2>1, <4>1, WhoIsLive DEF AddInv, CamerasOK
    <3> QED BY <1>3, <1>4, <3>1
  <2>5. CamerasOK'
    BY <1>4, <2>3, <2>4, AllOff
  <2> QED BY <1>1, <2>1, <2>2, <2>3, <2>5, OneProbe DEF AddInv, SheetOK, PostsOK
<1>6. CASE cams[c].live # TRUE
  <2>1. UNCHANGED <<sheet, probes>>
    BY <1>6 DEF Read
  <2>2. CamerasOK'
    BY <1>3, <1>4, <2>1 DEF AddInv, CamerasOK, WindowOpen
  <2> QED BY <1>1, <2>1, <2>2 DEF AddInv, SheetOK, PostsOK, ProbesOK
<1> QED BY <1>5, <1>6

LEMMA NoCameraStep == ASSUME AddInv, NEW c \in DOMAIN cams, NoCamera(c) PROVE AddInv'
<1> DEFINE k == [Stopped(cams[c]) EXCEPT !.phase = "off"]
           all == [cams EXCEPT ![c] = k]
<1>1. UNCHANGED <<asks, probes, posts>>
  BY DEF NoCamera
<1>2. cams[c] \in Cameras /\ cams \in Seq(Cameras)
  BY DEF AddInv, CamerasOK
<1>3. k \in Cameras /\ k.live = FALSE /\ k.stream = FALSE /\ k.home = cams[c].home
  BY <1>2, OffCamera
<1>a. \/ cams[c].home = TRUE /\ sheet' = [sheet EXCEPT !.scanning = FALSE, !.noCamera = TRUE]
         /\ cams' = [d \in DOMAIN all |-> Stopped(all[d])]
      \/ sheet' = sheet /\ cams' = all
  <2>1. cams[c].home \in BOOLEAN
    BY <1>2 DEF Cameras
  <2> QED BY <2>1 DEF NoCamera
<1> HIDE DEF k
<1>4. /\ all \in Seq(Cameras) /\ DOMAIN all = DOMAIN cams /\ Len(all) = Len(cams) /\ all[c] = k
      /\ \A e \in DOMAIN cams : e # c => all[e] = cams[e]
  BY <1>2, <1>3, OneCamera
<1> HIDE DEF all
<1>5. CASE sheet' = sheet /\ cams' = all
  <2>1. CamerasOK'
    BY <1>3, <1>4, <1>5 DEF AddInv, CamerasOK, WindowOpen
  <2> QED BY <1>1, <1>5, <2>1 DEF AddInv, SheetOK, PostsOK, ProbesOK
<1>6. CASE cams[c].home = TRUE /\ sheet' = [sheet EXCEPT !.scanning = FALSE, !.noCamera = TRUE]
           /\ cams' = [d \in DOMAIN all |-> Stopped(all[d])]
  <2>1. sheet # None /\ sheet \in Sheets
    BY <1>6 DEF AddInv, CamerasOK, SheetOK
  <2>2. sheet' \in Sheets /\ sheet'.scanning = FALSE
    BY <1>6, <2>1 DEF Sheets
  <2>3. sheet' # None
    BY <2>2, PantryAddAssumption
  <2>4. \A d \in DOMAIN cams : all[d] \in Cameras /\ all[d].home = cams[d].home
    BY <1>3, <1>4
  <2>5. \A d \in DOMAIN cams : /\ Stopped(all[d]) \in Cameras /\ Stopped(all[d]).live = FALSE
                              /\ Stopped(all[d]).stream = FALSE /\ Stopped(all[d]).home = cams[d].home
    BY <2>4, StoppedCamera
  <2>6. cams' = [d \in DOMAIN cams |-> Stopped(all[d])]
    BY <1>4, <1>6
  <2>7. cams' \in Seq(Cameras) /\ DOMAIN cams' = DOMAIN cams
    BY <1>2, <2>5, <2>6
  <2>8. CamerasOK'
    BY <2>3, <2>5, <2>6, <2>7, AllOff
  <2> QED BY <1>1, <2>1, <2>2, <2>3, <2>8 DEF AddInv, SheetOK, PostsOK, ProbesOK
<1> QED BY <1>a, <1>5, <1>6

LEMMA LeaveScannerStep == ASSUME AddInv, LeaveScanner PROVE AddInv'
<1>1. sheet # None /\ sheet \in Sheets /\ UNCHANGED <<asks, probes, posts>>
  BY DEF LeaveScanner, AddInv, SheetOK
<1>2. sheet' \in Sheets /\ sheet'.scanning = FALSE
  BY <1>1 DEF LeaveScanner, Sheets
<1>3. sheet' # None
  BY <1>2, PantryAddAssumption
<1>4. cams \in Seq(Cameras) /\ cams' = [cams EXCEPT ![Len(cams)] = Stopped(cams[Len(cams)])]
  BY DEF LeaveScanner, AddInv, CamerasOK
<1>5. CamerasOK'
  <2>1. CASE cams = <<>>
    <3>1. DOMAIN cams = {}
      BY <1>4, <2>1
    <3>2. cams' = cams
      BY <1>4, <3>1
    <3> QED BY <3>1, <3>2 DEF AddInv, CamerasOK
  <2>2. CASE cams # <<>>
    <3> DEFINE c == Len(cams)
    <3>1. c \in DOMAIN cams
      BY <1>4, <2>2
    <3>2. cams[c] \in Cameras
      BY <1>4, <3>1
    <3> DEFINE k == Stopped(cams[c])
    <3>3. k \in Cameras /\ k.live = FALSE /\ k.stream = FALSE /\ k.home = cams[c].home
      BY <3>2, StoppedCamera
    <3>4. cams' = [cams EXCEPT ![c] = k]
      BY <1>4
    <3> HIDE DEF k
    <3>5. /\ cams' \in Seq(Cameras) /\ DOMAIN cams' = DOMAIN cams /\ cams'[c] = k
          /\ \A e \in DOMAIN cams : e # c => cams'[e] = cams[e]
      BY <1>4, <3>1, <3>3, <3>4, OneCamera
    <3>6. \A e \in DOMAIN cams : e # c => cams[e].live = FALSE /\ cams[e].stream = FALSE
      <4>1. \A e \in DOMAIN cams : cams[e].live \in BOOLEAN /\ cams[e].stream \in BOOLEAN
        BY WhoIsLive DEF Cameras
      <4> QED BY <4>1, WhoIsLive DEF AddInv, CamerasOK
    <3>7. \A e \in DOMAIN cams : cams'[e].live = FALSE /\ cams'[e].stream = FALSE /\ cams'[e].home = cams[e].home
      BY <3>3, <3>5, <3>6
    <3> QED BY <1>3, <3>5, <3>7, AllOff
  <2> QED BY <2>1, <2>2
<1> QED BY <1>1, <1>2, <1>3, <1>5 DEF AddInv, SheetOK, PostsOK, ProbesOK

(***************************************************************************)
(* The sheet of a barcode.                                                 *)
(***************************************************************************)
LEMMA TypeCodeStep == ASSUME AddInv, NEW code \in Codes, TypeCode(code) PROVE AddInv'
<1>1. /\ sheet # None /\ sheet \in Sheets /\ sheet.scanning # TRUE /\ sheet' = LookedUp(sheet, code) /\ Probe(code)
      /\ UNCHANGED <<asks, cams, posts>>
  BY DEF TypeCode, Page, OnTop, AddInv, SheetOK
<1>2. sheet' \in Sheets /\ sheet'.scanning = FALSE /\ sheet' # None
  BY <1>1, LookedUpSheet, PantryAddAssumption
<1>3. CamerasOK'
  BY <1>1, <1>2, WhoIsLive DEF AddInv, CamerasOK
<1> QED BY <1>1, <1>2, <1>3, OneProbe DEF AddInv, SheetOK, PostsOK

LEMMA ProbeStep ==
  ASSUME AddInv, NEW b \in probes, ServeProbe(b) \/ ProbeAnswered(b) \/ ProbeFailed(b) PROVE AddInv'
<1>1. UNCHANGED <<asks, cams, posts>> /\ b \in Probes /\ (b.aborted = FALSE => sheet # None)
  BY DEF ServeProbe, ProbeAnswered, ProbeFailed, Result, AddInv, ProbesOK
<1>2. CASE ServeProbe(b)
  <2>1. PICK answer \in Answers : probes' = (probes \ {b}) \cup {[b EXCEPT !.answer = answer]}
    <3> DEFINE good == GoodOf[b.code]
               answer == IF good = None THEN "missing" ELSE IF stock[good] > 0 THEN "have" ELSE "found"
    <3>1. answer \in Answers
      BY DEF Answers
    <3> QED BY <1>2, <3>1 DEF ServeProbe
  <2>2. [b EXCEPT !.answer = answer] \in Probes /\ [b EXCEPT !.answer = answer].aborted = b.aborted
    BY <1>1 DEF Probes
  <2>3. sheet' = sheet
    BY <1>2 DEF ServeProbe
  <2>4. ProbesOK'
    BY <1>1, <2>1, <2>2, <2>3 DEF AddInv, ProbesOK
  <2>5. SheetStays
    BY <2>3 DEF SheetStays, AddInv, SheetOK
  <2> QED BY <1>1, <2>4, <2>5, SamePosts, QuietStep DEF AddInv
<1>3. CASE ProbeAnswered(b) \/ ProbeFailed(b)
  <2>1. PICK answer \in {"missing", "have", "found", "unavailable"} : Result(b, answer)
    BY <1>1, <1>3 DEF ProbeAnswered, ProbeFailed, Probes, Answers
  <2>2. SheetStays
    <3>1. CASE b.aborted = TRUE
      BY <2>1, <3>1 DEF Result, SheetStays, AddInv, SheetOK
    <3>2. CASE b.aborted = FALSE
      <4>1. sheet \in Sheets /\ sheet # None /\ sheet' = [sheet EXCEPT !.result = answer]
        BY <1>1, <2>1, <3>2 DEF Result, AddInv, SheetOK
      <4>2. sheet' \in Sheets /\ sheet'.scanning = sheet.scanning /\ sheet'.lookup = sheet.lookup
        BY <4>1 DEF Sheets
      <4> QED BY <4>1, <4>2 DEF SheetStays
    <3> QED BY <1>1, <3>1, <3>2 DEF Probes
  <2>3. probes' \in SUBSET probes
    BY <2>1 DEF Result
  <2> QED BY <1>1, <2>2, <2>3, SamePosts, SameProbes, QuietStep DEF AddInv
<1> QED BY <1>2, <1>3

LEMMA GoneLookup ==
  ASSUME NEW s \in Sheets
  PROVE  LookupGone(s) \in Sheets /\ LookupGone(s).lookup = None /\ LookupGone(s).scanning = s.scanning
BY DEF LookupGone, Sheets

LEMMA LookupStep == ASSUME AddInv, CloseLookup \/ ScanAnother \/ AddManually PROVE AddInv'
<1>1. /\ sheet # None /\ sheet \in Sheets /\ sheet.lookup # None /\ asks' = asks
      /\ probes' = Aborted(probes) /\ posts' = Unmounted({"found"})
  BY DEF CloseLookup, ScanAnother, AddManually, LeaveLookup, AddInv, SheetOK
<1>2. sheet.scanning = FALSE
  BY <1>1 DEF AddInv, SheetOK
<1> DEFINE s == LookupGone(sheet)
<1>3. s \in Sheets /\ s.lookup = None /\ s.scanning = FALSE
  BY <1>1, <1>2, GoneLookup
<1>4. \/ sheet' = s /\ cams' = cams
      \/ sheet' = [s EXCEPT !.manual = TRUE] /\ cams' = cams
      \/ sheet' = [s EXCEPT !.scanning = TRUE] /\ ScannerOpens
  BY DEF CloseLookup, ScanAnother, AddManually, LeaveLookup
<1> HIDE DEF s
<1>5. ProbesOK'
  BY <1>1, AbortedKeep
<1>6. sheet' \in Sheets /\ sheet'.lookup = None /\ sheet' # None
  <2>1. sheet' \in Sheets /\ sheet'.lookup = None
    <3>1. /\ [s EXCEPT !.manual = TRUE] \in Sheets /\ [s EXCEPT !.manual = TRUE].lookup = None
          /\ [s EXCEPT !.scanning = TRUE] \in Sheets /\ [s EXCEPT !.scanning = TRUE].lookup = None
      BY <1>3 DEF Sheets
    <3> QED BY <1>3, <1>4, <3>1
  <2> QED BY <2>1, PantryAddAssumption
<1>7. PostsOK'
  BY <1>1, <1>6, UnmountedPosts DEF AddInv, PostsOK
<1>8. CamerasOK'
  <2>1. CASE cams' = cams
    BY <1>2, <1>6, <2>1, WhoIsLive DEF AddInv, CamerasOK
  <2>2. CASE cams' # cams
    <3>1. sheet' = [s EXCEPT !.scanning = TRUE] /\ ScannerOpens
      BY <1>4, <2>2
    <3>2. sheet'.scanning = TRUE
      BY <1>3, <3>1 DEF Sheets
    <3> QED BY <1>1, <1>2, <1>6, <3>1, <3>2, WhoIsLive, NewCamera
  <2> QED BY <2>1, <2>2
<1> QED BY <1>1, <1>5, <1>6, <1>7, <1>8 DEF AddInv, SheetOK

LEMMA GoneSteps == ASSUME AddInv, CloseSheet \/ OpenItem PROVE AddInv'
BY GoneStep DEF CloseSheet, OpenItem

(***************************************************************************)
(* POST /stock.                                                            *)
(***************************************************************************)
LEMMA PostStep ==
  ASSUME AddInv, NEW key \in ShownKeys, NEW good, key \in Goods => good = key, sheet # None, Post(good, key) PROVE AddInv'
<1>1. sheet \in Sheets /\ UNCHANGED <<asks, cams, probes>>
  BY DEF Post, AddInv, SheetOK
<1>2. SheetStays
  <2>1. sheet' = [sheet EXCEPT !.sending = @ \cup {key}]
    BY DEF Post
  <2>2. sheet' \in Sheets /\ sheet'.scanning = sheet.scanning /\ sheet'.lookup = sheet.lookup
    BY <1>1, <2>1 DEF Sheets, ShownKeys
  <2> QED BY <2>2 DEF SheetStays
<1> DEFINE p == [id |-> acts, good |-> good, key |-> key, there |-> TRUE, stage |-> "sent", home |-> "open"]
<1>3. posts' = posts \cup {p}
  BY DEF Post
<1>4. IsPost(p)
  BY DEF IsPost, PostFields
<1> HIDE DEF p
<1>5. sheet' # None
  BY <1>2, StayingSheet
<1>6. PostsOK'
  BY <1>3, <1>4, <1>5 DEF AddInv, PostsOK
<1> QED BY <1>1, <1>2, <1>6, SameProbes, QuietStep DEF AddInv

LEMMA AddStep == ASSUME AddInv, AddFound \/ (\E g \in Goods : AddResult(g) \/ SubmitManual(g)) PROVE AddInv'
<1>1. CASE AddFound
  <2>1. "found" \in ShownKeys /\ "found" \notin Goods
    BY PantryAddAssumption DEF ShownKeys
  <2> QED BY <1>1, <2>1, PostStep DEF AddFound
<1>2. ASSUME NEW g \in Goods, AddResult(g) PROVE AddInv'
  <2>1. g \in ShownKeys /\ sheet # None /\ Post(g, g)
    BY <1>2 DEF AddResult, Page, OnTop, ShownKeys
  <2> QED BY <2>1, PostStep
<1>3. ASSUME NEW g \in Goods, SubmitManual(g) PROVE AddInv'
  <2>1. "manual" \in ShownKeys /\ "manual" \notin Goods /\ sheet # None /\ Post(g, "manual")
    BY <1>3, PantryAddAssumption DEF ShownKeys, SubmitManual, OnTop
  <2> QED BY <2>1, PostStep
<1> QED BY <1>1, <1>2, <1>3

LEMMA TurnStep == ASSUME AddInv, FormByHand \/ BackFromManual PROVE AddInv'
<1>1. PICK on \in BOOLEAN, keys \in {Goods, {"manual"}} : Turn([sheet EXCEPT !.manual = on], keys) /\ sheet # None
  BY DEF FormByHand, BackFromManual, Page, OnTop
<1>2. sheet \in Sheets
  BY <1>1 DEF AddInv, SheetOK
<1> DEFINE s == [sheet EXCEPT !.manual = on]
<1>3. s \in Sheets /\ s.scanning = sheet.scanning /\ s.lookup = sheet.lookup
  BY <1>2 DEF Sheets
<1>4. sheet' = [s EXCEPT !.sending = @ \ keys] /\ posts' = Unmounted(keys) /\ UNCHANGED <<asks, cams, probes>>
  BY <1>1 DEF Turn
<1> HIDE DEF s
<1>5. sheet' \in Sheets /\ sheet'.scanning = sheet.scanning /\ sheet'.lookup = sheet.lookup
  BY <1>3, <1>4 DEF Sheets
<1>6. SheetStays
  BY <1>1, <1>5 DEF SheetStays
<1> QED BY <1>4, <1>6, UnmountedKeep, SameProbes, QuietStep DEF AddInv

LEMMA FreedStays ==
  ASSUME AddInv, NEW p \in posts, sheet' = Freed(p)
  PROVE  SheetStays
<1>1. CASE p.there = TRUE
  <2>1. sheet \in Sheets /\ sheet # None /\ sheet' = [sheet EXCEPT !.sending = @ \ {p.key}]
    BY <1>1 DEF AddInv, PostsOK, SheetOK, Freed
  <2>2. sheet' \in Sheets /\ sheet'.scanning = sheet.scanning /\ sheet'.lookup = sheet.lookup
    BY <2>1 DEF Sheets
  <2> QED BY <2>1, <2>2 DEF SheetStays
<1>2. CASE p.there # TRUE
  BY <1>2 DEF Freed, SheetStays, AddInv, SheetOK
<1> QED BY <1>1, <1>2

LEMMA PostEnds == ASSUME AddInv, NEW p \in posts, ServePost(p) \/ PostLost(p) PROVE AddInv'
<1>1. UNCHANGED <<asks, cams, probes>>
  BY DEF ServePost, PostLost
<1>2. CASE PostLost(p)
  BY <1>1, <1>2, FreedStays, SamePosts, SameProbes, QuietStep DEF PostLost, AddInv
<1>3. CASE ServePost(p)
  <2>1. SheetStays /\ sheet' = sheet
    BY <1>3 DEF ServePost, SheetStays, AddInv, SheetOK
  <2> DEFINE q == [p EXCEPT !.stage = "done"]
  <2>2. IsPost(p) /\ ((p.there = TRUE \/ p.home = "open") => sheet # None)
    BY DEF AddInv, PostsOK
  <2>3. IsPost(q) /\ q.there = p.there /\ q.home = p.home
    BY <2>2 DEF IsPost, PostFields
  <2>4. posts' = (posts \ {p}) \cup {q}
    BY <1>3 DEF ServePost
  <2> HIDE DEF q
  <2>5. PostsOK'
    BY <2>1, <2>2, <2>3, <2>4 DEF AddInv, PostsOK
  <2> QED BY <1>1, <2>1, <2>5, SameProbes, QuietStep DEF AddInv
<1> QED BY <1>2, <1>3

LEMMA PostAnsweredStep == ASSUME AddInv, NEW p \in posts, PostAnswered(p) PROVE AddInv'
<1>1. IsPost(p) /\ ((p.there = TRUE \/ p.home = "open") => sheet # None)
  BY DEF AddInv, PostsOK
<1>2. CASE p.key \in Goods
  <2>1. /\ sheet' = IF p.home = "open" THEN [Freed(p) EXCEPT !.added = @ \cup {p.good}] ELSE sheet
        /\ posts' = posts \ {p} /\ UNCHANGED <<asks, cams, probes>>
    BY <1>2, PantryAddAssumption DEF PostAnswered
  <2>2. SheetStays
    <3>1. CASE p.home = "open"
      <4> DEFINE s == Freed(p)
      <4>1. sheet # None /\ sheet \in Sheets
        BY <1>1, <3>1 DEF AddInv, SheetOK
      <4>2. s \in Sheets /\ s.scanning = sheet.scanning /\ s.lookup = sheet.lookup
        BY <4>1 DEF Freed, Sheets
      <4>3. sheet' = [s EXCEPT !.added = @ \cup {p.good}] /\ p.good \in Goods
        BY <1>1, <1>2, <2>1, <3>1 DEF IsPost
      <4> HIDE DEF s
      <4>4. sheet' \in Sheets /\ sheet'.scanning = sheet.scanning /\ sheet'.lookup = sheet.lookup
        BY <4>2, <4>3 DEF Sheets
      <4> QED BY <4>1, <4>4 DEF SheetStays
    <3>2. CASE p.home # "open"
      BY <2>1, <3>2 DEF SheetStays, AddInv, SheetOK
    <3> QED BY <3>1, <3>2
  <2> QED BY <2>1, <2>2, SamePosts, SameProbes, QuietStep DEF AddInv
<1>3. CASE p.key = "found"
  <2>1. UNCHANGED <<asks, cams>>
        /\ IF p.home = "open"
           THEN /\ sheet' = LookupGone(sheet) /\ probes' = Aborted(probes)
                /\ posts' = Unmounted({"found"}) \ {[p EXCEPT !.there = FALSE]}
           ELSE UNCHANGED <<sheet, probes>> /\ posts' = posts \ {p}
    BY <1>3, PantryAddAssumption DEF PostAnswered
  <2>2. CASE p.home = "open"
    <3>1. sheet # None /\ sheet \in Sheets
      BY <1>1, <2>2 DEF AddInv, SheetOK
    <3>2. SheetStays
      BY <2>1, <2>2, <3>1, GoneLookup DEF SheetStays
    <3> QED BY <2>1, <2>2, <3>2, UnmountedKeep, AbortedKeep, QuietStep DEF AddInv
  <2>3. CASE p.home # "open"
    <3>1. SheetStays
      BY <2>1, <2>3 DEF SheetStays, AddInv, SheetOK
    <3> QED BY <2>1, <2>3, <3>1, SamePosts, SameProbes, QuietStep DEF AddInv
  <2> QED BY <2>2, <2>3
<1>4. CASE p.key = "manual"
  <2>1. \/ UNCHANGED <<sheet, asks, cams, probes>> /\ posts' = posts \ {p}
        \/ Gone("closed", posts \ {p})
    BY <1>4, PantryAddAssumption DEF PostAnswered
  <2>2. CASE UNCHANGED <<sheet, asks, cams, probes>> /\ posts' = posts \ {p}
    <3>1. SheetStays
      BY <2>2 DEF SheetStays, AddInv, SheetOK
    <3> QED BY <2>2, <3>1, SamePosts, SameProbes, QuietStep DEF AddInv
  <2>3. CASE Gone("closed", posts \ {p})
    BY <2>3, GoneStep
  <2> QED BY <2>1, <2>2, <2>3
<1> QED BY <1>1, <1>2, <1>3, <1>4 DEF IsPost, ShownKeys

LEMMA AddInitInv == AddInit => AddInv
<1> SUFFICES ASSUME AddInit PROVE AddInv
  OBVIOUS
<1>1. cams \in Seq(Cameras) /\ DOMAIN cams = {}
  BY DEF AddInit
<1> QED BY <1>1 DEF AddInit, AddInv, SheetOK, CamerasOK, PostsOK, ProbesOK

LEMMA AddNextInv == AddInv /\ [AddNext]_addVars => AddInv'
<1> SUFFICES ASSUME AddInv, [AddNext]_addVars PROVE AddInv'
  OBVIOUS
<1>1. CASE UNCHANGED addVars
  BY <1>1 DEF addVars, AddInv, SheetOK, CamerasOK, PostsOK, ProbesOK, WindowOpen
<1>2. CASE OpenSheet \/ CloseSheet \/ OpenItem
  BY <1>2, OpenSheetAdds, GoneSteps
<1>3. CASE (\E q \in Queries \cup {None} : TypeQuery(q)) \/ Pause \/ \E a \in asks : SearchAnswered(a) \/ SearchFailed(a)
  BY <1>3, SearchStep
<1>4. CASE NetworkLost \/ NetworkBack
  BY <1>4, NetworkStep
<1>5. CASE Scan \/ LeaveScanner
  BY <1>5, ScanStep, LeaveScannerStep
<1>6. CASE CloseLookup \/ ScanAnother \/ AddManually
  BY <1>6, LookupStep
<1>7. CASE AddFound \/ (\E g \in Goods : AddResult(g) \/ SubmitManual(g))
  BY <1>7, AddStep
<1>8. CASE FormByHand \/ BackFromManual
  BY <1>8, TurnStep
<1>9. ASSUME NEW c \in DOMAIN cams, Granted(c) \/ Started(c) \/ NextFrame(c) \/ NothingRead(c) \/ NoCamera(c)
      PROVE  AddInv'
  BY <1>9, CameraStep, NoCameraStep
<1>10. ASSUME NEW c \in DOMAIN cams, NEW code \in Codes, Read(c, code) PROVE AddInv'
  BY <1>10, ReadStep
<1>11. ASSUME NEW code \in Codes, TypeCode(code) PROVE AddInv'
  BY <1>11, TypeCodeStep
<1>12. ASSUME NEW b \in probes, ServeProbe(b) \/ ProbeAnswered(b) \/ ProbeFailed(b) PROVE AddInv'
  BY <1>12, ProbeStep
<1>13. ASSUME NEW p \in posts, ServePost(p) \/ PostAnswered(p) \/ PostLost(p) PROVE AddInv'
  BY <1>13, PostEnds, PostAnsweredStep
<1> QED BY <1>1, <1>2, <1>3, <1>4, <1>5, <1>6, <1>7, <1>8, <1>9, <1>10, <1>11, <1>12, <1>13 DEF AddNext

LEMMA AddInvHolds == AddSpec => []AddInv
BY AddInitInv, AddNextInv, PTL DEF AddSpec

\* No camera streams unless its own window is open: whenever the browser grants it and however the window closed, for
\* any number of cameras, searches, lookups and posts.
THEOREM CamerasGoOff == AddSpec => []CameraOff
<1>1. AddInv => CameraOff
  BY DEF AddInv, CamerasOK, CameraOff
<1> QED BY <1>1, AddInvHolds, PTL

\* What a camera that reads may do.
LEMMA ReadingStays ==
  ASSUME AddInv, AddNext, NEW c \in DOMAIN cams, cams[c].phase = "reading", cams'[c].phase = "off"
  PROVE  (\E code \in Codes : Read(c, code)) \/ NoCamera(c)
<1> SUFFICES ASSUME ~((\E code \in Codes : Read(c, code)) \/ NoCamera(c)) PROVE cams'[c].phase = "reading"
  OBVIOUS
<1>1. cams \in Seq(Cameras) /\ cams[c] \in Cameras
  BY DEF AddInv, CamerasOK
<1>2. CASE cams' = cams
  BY <1>2
<1>3. CASE ScannerOpens
  BY <1>1, <1>3 DEF ScannerOpens
<1>4. CASE LeaveScanner
  <2>1. cams' = [cams EXCEPT ![Len(cams)] = Stopped(cams[Len(cams)])]
    BY <1>4 DEF LeaveScanner
  <2>2. Stopped(cams[c]).phase = cams[c].phase
    BY <1>1 DEF Stopped, Cameras
  <2>3. cams'[c] = cams[c] \/ cams'[c] = Stopped(cams[c])
    BY <1>1, <2>1
  <2> QED BY <2>2, <2>3
<1>5. CASE cams' = CamsLeft
  <2>1. [Stopped(cams[c]) EXCEPT !.home = FALSE].phase = cams[c].phase
    BY <1>1 DEF Stopped, Cameras
  <2>2. cams'[c] = [Stopped(cams[c]) EXCEPT !.home = FALSE]
    BY <1>5 DEF CamsLeft
  <2> QED BY <2>1, <2>2
<1>6. ASSUME NEW d \in DOMAIN cams, Granted(d) \/ Started(d) \/ NextFrame(d) \/ NothingRead(d) PROVE cams'[c].phase = "reading"
  <2>1. CASE d # c
    <3>1. PICK k : cams' = [cams EXCEPT ![d] = k]
      BY <1>6 DEF Granted, Started, NextFrame, NothingRead, CamStep
    <3> QED BY <1>1, <2>1, <3>1
  <2>2. CASE d = c
    <3>1. NothingRead(c)
      BY <1>6, <2>2 DEF Granted, Started, NextFrame, CamStep
    <3>2. cams' = [cams EXCEPT ![c] = [cams[c] EXCEPT !.phase = "frame"]]
      BY <3>1 DEF NothingRead, CamStep
    <3>3. cams'[c] = [cams[c] EXCEPT !.phase = "frame"]
      BY <1>1, <3>2
    <3>4. cams'[c].phase = "frame"
      BY <1>1, <3>3 DEF Cameras
    <3> QED BY <3>4
  <2> QED BY <2>1, <2>2
<1>7. ASSUME NEW d \in DOMAIN cams, NEW code \in Codes, Read(d, code) PROVE cams'[c].phase = "reading"
  BY <1>1, <1>7 DEF Read
<1>8. ASSUME NEW d \in DOMAIN cams, NoCamera(d) PROVE cams'[c].phase = "reading"
  <2> DEFINE all == [cams EXCEPT ![d] = [Stopped(cams[d]) EXCEPT !.phase = "off"]]
  <2>1. d # c
    BY <1>8
  <2>2. all[c] = cams[c] /\ DOMAIN all = DOMAIN cams
    BY <1>1, <2>1
  <2>3. cams' = all \/ cams' = [e \in DOMAIN all |-> Stopped(all[e])]
    BY <1>8 DEF NoCamera
  <2> HIDE DEF all
  <2>4. cams'[c] = cams[c] \/ cams'[c] = Stopped(cams[c])
    BY <2>2, <2>3
  <2>5. Stopped(cams[c]).phase = cams[c].phase
    BY <1>1 DEF Stopped, Cameras
  <2> QED BY <2>4, <2>5
<1>9. \/ cams' = cams \/ ScannerOpens \/ LeaveScanner \/ cams' = CamsLeft
      \/ \E d \in DOMAIN cams : Granted(d) \/ Started(d) \/ NextFrame(d) \/ NothingRead(d) \/ NoCamera(d)
      \/ \E d \in DOMAIN cams, code \in Codes : Read(d, code)
  <2>1. CASE OpenSheet \/ CloseSheet \/ Pause \/ Scan \/ OpenItem \/ CloseLookup \/ ScanAnother \/ AddManually
    BY <2>1 DEF OpenSheet, CloseSheet, Pause, Scan, OpenItem, CloseLookup, ScanAnother, AddManually, Gone
  <2>2. CASE AddFound \/ FormByHand \/ BackFromManual \/ NetworkLost \/ NetworkBack
    BY <2>2 DEF AddFound, FormByHand, BackFromManual, NetworkLost, NetworkBack, Post, Turn
  <2>3. ASSUME NEW q \in Queries \cup {None}, TypeQuery(q) PROVE cams' = cams
    BY <2>3 DEF TypeQuery
  <2>4. ASSUME NEW a \in asks, SearchAnswered(a) \/ SearchFailed(a) PROVE cams' = cams
    BY <2>4 DEF SearchAnswered, SearchFailed
  <2>5. ASSUME NEW code \in Codes, TypeCode(code) PROVE cams' = cams
    BY <2>5 DEF TypeCode
  <2>6. ASSUME NEW b \in probes, ServeProbe(b) \/ ProbeAnswered(b) \/ ProbeFailed(b) PROVE cams' = cams
    BY <2>6 DEF ServeProbe, ProbeAnswered, ProbeFailed, Result
  <2>7. ASSUME NEW g \in Goods, AddResult(g) \/ SubmitManual(g) PROVE cams' = cams
    BY <2>7 DEF AddResult, SubmitManual, Post
  <2>8. ASSUME NEW p \in posts, ServePost(p) \/ PostAnswered(p) \/ PostLost(p) PROVE cams' = cams \/ cams' = CamsLeft
    <3>1. CASE ServePost(p) \/ PostLost(p)
      BY <3>1 DEF ServePost, PostLost
    <3>2. CASE PostAnswered(p)
      <4>1. p.key \in Goods \/ p.key = "found" \/ p.key = "manual"
        BY DEF AddInv, PostsOK, IsPost, ShownKeys
      <4> QED BY <3>2, <4>1, PantryAddAssumption DEF PostAnswered, Gone
    <3> QED BY <2>8, <3>1, <3>2
  <2> QED BY <2>1, <2>2, <2>3, <2>4, <2>5, <2>6, <2>7, <2>8 DEF AddNext
<1> QED BY <1>2, <1>3, <1>4, <1>5, <1>6, <1>7, <1>8, <1>9

\* Only the open window reads: a code in a frame taken before the camera closed is not looked up.
THEOREM NoReadIsLate == AddSpec => NoLateRead
<1>1. ASSUME AddInv, [AddNext]_addVars, NEW c \in DOMAIN cams, cams[c].phase = "reading", sheet # None, sheet' # None,
             cams'[c].phase = "off", sheet'.lookup # sheet.lookup
      PROVE  WindowOpen(c)
  <2>1. AddNext
    BY <1>1 DEF addVars
  <2>2. CASE \E code \in Codes : Read(c, code)
    <3>1. cams[c].live = TRUE
      <4>1. cams[c].live \in BOOLEAN
        BY <1>1, WhoIsLive DEF Cameras
      <4> QED BY <1>1, <2>2, <4>1 DEF Read
    <3> QED BY <1>1, <3>1 DEF AddInv, CamerasOK
  <2>3. CASE NoCamera(c)
    <3>1. sheet \in Sheets
      BY <1>1 DEF AddInv, SheetOK
    <3>2. sheet' = sheet \/ sheet' = [sheet EXCEPT !.scanning = FALSE, !.noCamera = TRUE]
      BY <2>3 DEF NoCamera
    <3>3. sheet'.lookup = sheet.lookup
      BY <3>1, <3>2 DEF Sheets
    <3> QED BY <1>1, <3>3
  <2> QED BY <1>1, <2>1, <2>2, <2>3, ReadingStays
<1>2. AddInv /\ [AddNext]_addVars =>
        [\A c \in DOMAIN cams :
          cams[c].phase = "reading" /\ sheet # None /\ sheet' # None /\ cams'[c].phase = "off"
              /\ sheet'.lookup # sheet.lookup => WindowOpen(c)]_addVars
  BY <1>1
<1> QED BY <1>2, AddInvHolds, PTL DEF AddSpec, NoLateRead
=============================================================================
