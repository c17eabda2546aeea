-------------------------- MODULE RecurringProofs --------------------------
(***************************************************************************)
(* Theorems about the entries the server makes of its rules and about the  *)
(* daily job that makes them and tells the members: for any calendar, rules,*)
(* requests, processes, members, reminders and runs.                       *)
(***************************************************************************)
EXTENDS Generation, DailyJob, DataLemmas

(***************************************************************************)
(* The entries of a rule.                                                  *)
(***************************************************************************)
\* What a request holds at each of its stages.
Days == 0 .. MaxToday
EntriesOf(s, asOf) == Entries(s.rule, s.start, s.end, s.total, asOf + Horizon)
AllEntries == UNION {EntriesOf(p[1], p[2]) : p \in Schedules \X Days}
LoadedReq == [pc : {"loaded", "clearing", "pausing"}, kind : Kind \ {"top_up"}, old : Schedules, new : Schedules]
DeletingReq == [pc : {"deleting"}, kind : {"delete"}, old : Schedules, new : Schedules]
ListedReq == [pc : {"listed"}, kind : {"top_up"}, day : Days]
TopUpReq == [pc : {"loaded"}, kind : {"top_up"}, old : Schedules, new : Schedules, day : Days]
ClearedReq == [pc : {"cleared"}, kind : Kind \ {"top_up"}, old : Schedules, new : Schedules, holds : BOOLEAN, removed : SUBSET Day]
PlannedReq == [pc : {"planned"}, kind : Kind, old : Schedules, new : Schedules, holds : BOOLEAN, removed : SUBSET Day,
               day : Days, plan : SUBSET AllEntries]
Requests == {Idle} \cup LoadedReq \cup DeletingReq \cup ListedReq \cup TopUpReq \cup ClearedReq \cup PlannedReq

\* A row has its columns, and its period is that of its date before adjustment.
RowOK(row) ==
    /\ {"status", "amount", "linked", "key", "nominal"} \subseteq DOMAIN row
    /\ row.status \in {"unpaid", "paid", "skipped"}
    /\ row.key = NoKey \/ \E kind \in {b.rule.kind : b \in Bodies} : row.key = PeriodKey(kind, row.nominal)

Tables ==
    /\ item \in Schedules \cup {Gone}
    /\ rows = [d \in Day |-> rows[d]] /\ \A d \in Day : rows[d] = NoRow \/ RowOK(rows[d])
    /\ item = Gone => \A d \in Day : rows[d] = NoRow
    /\ req \in [Req -> Requests]
    /\ today \in Days /\ touches \in Nat /\ crossed \in BOOLEAN

\* A row that a request removed is locked: it is as it was, and no other request has removed it.
Free(row) == row # NoRow /\ row.status = "unpaid" /\ ~row.amount /\ ~row.linked
LocksOK ==
    /\ \A r \in Req : \A d \in Locked(r) : Free(rows[d])
    /\ \A r, o \in Req : r # o => Locked(r) \cap Locked(o) = {}

\* What a request is about to insert are entries of its schedule, and a row that has the period of one is on its date.
PlanOf(q) == q.pc = "planned" => q.plan \subseteq EntriesOf(q.new, q.day)
PlanFits(q, table) ==
    q.pc = "planned" =>
        \A e \in q.plan : \A d \in Day \ q.removed : table[d] # NoRow /\ table[d].key = e.key => d = e.due
KeysApart(table) ==
    \A d, e \in Day : d # e /\ table[d] # NoRow /\ table[e] # NoRow /\ table[d].key # NoKey => table[d].key # table[e].key
PeriodsOK ==
    /\ \A r \in Req : PlanOf(req[r])
    /\ OnePerPeriod /\ ~crossed => KeysApart(rows) /\ \A r \in Req : PlanFits(req[r], rows)

Basic == Tables /\ LocksOK

LEMMA ReqKinds ==
  ASSUME NEW q \in Requests
  PROVE  /\ q.pc \in {"idle", "loaded", "clearing", "pausing", "deleting", "listed", "cleared", "planned"}
         /\ q.pc = "idle" <=> q = Idle
         /\ q.pc \in {"clearing", "pausing"} => q \in LoadedReq
         /\ q.pc = "deleting" => q \in DeletingReq
         /\ q.pc = "loaded" => q \in LoadedReq \cup TopUpReq
         /\ q.pc = "loaded" /\ q.kind # "top_up" => q \in LoadedReq
         /\ q.pc = "loaded" /\ q.kind = "top_up" => q \in TopUpReq
         /\ q.pc = "listed" => q \in ListedReq
         /\ q.pc = "cleared" => q \in ClearedReq
         /\ q.pc = "planned" => q \in PlannedReq
         /\ "removed" \in DOMAIN q <=> q.pc \in {"cleared", "planned"}
<1>1. CASE q = Idle
  BY <1>1 DEF Idle
<1>2. CASE q \in LoadedReq
  BY <1>2 DEF LoadedReq, Idle
<1>3. CASE q \in ListedReq
  BY <1>3 DEF ListedReq, Idle
<1>4. CASE q \in TopUpReq
  BY <1>4 DEF TopUpReq, Idle
<1>5. CASE q \in ClearedReq
  BY <1>5 DEF ClearedReq, Idle
<1>6. CASE q \in PlannedReq
  BY <1>6 DEF PlannedReq, Idle
<1>7. CASE q \in DeletingReq
  BY <1>7 DEF DeletingReq, Idle
<1> QED BY <1>1, <1>2, <1>3, <1>4, <1>5, <1>6, <1>7 DEF Requests

LEMMA NotGone == \A s \in Schedules : s # Gone
<1> SUFFICES ASSUME NEW s \in Schedules, s = Gone PROVE FALSE
  OBVIOUS
<1>1. "start" \in DOMAIN s
  BY DEF Schedules
<1>2. "start" \notin DOMAIN Gone
  BY DEF Gone
<1> QED BY <1>1, <1>2

LEMMA RowsApart == \A row : RowOK(row) => row # NoRow
  BY DEF RowOK, NoRow

LEMMA WrittenType ==
  ASSUME NEW a \in Schedules, NEW b \in Schedules, NEW c \in Schedules
  PROVE  Written(a, b, c) \in Schedules
BY DEF Written, Schedules

LEMMA NewRowOK ==
  ASSUME NEW e \in AllEntries, NEW asOf, NEW past
  PROVE  /\ RowOK(NewRow(e, asOf, past)) /\ NewRow(e, asOf, past).key = e.key
         /\ e.key # NoKey /\ ~NewRow(e, asOf, past).linked /\ NewRow(e, asOf, past).status # "paid"
<1>1. PICK p \in Schedules \X Days : e \in EntriesOf(p[1], p[2])
  BY DEF AllEntries
<1>2. PICK s \in Schedules : \E n : e = [due |-> Due(s.rule, n), key |-> PeriodKey(s.rule.kind, n), nominal |-> n]
  BY <1>1 DEF EntriesOf, Entries
<1>3. PICK n : e = [due |-> Due(s.rule, n), key |-> PeriodKey(s.rule.kind, n), nominal |-> n]
  BY <1>2
<1>4. PICK b \in Bodies : s.rule = b.rule
  BY DEF Schedules
<1>5. e.key = PeriodKey(b.rule.kind, e.nominal)
  BY <1>3, <1>4
<1>6. e.key # NoKey
  <2>1. PeriodKey(b.rule.kind, e.nominal)[1] \in {"week", "year", "month"}
    BY DEF PeriodKey, KeyFormat
  <2>2. NoKey[1] = "none"
    BY DEF NoKey
  <2> QED BY <1>5, <2>1, <2>2
<1> QED BY <1>5, <1>6 DEF NewRow, RowOK

(***************************************************************************)
(* The invariant: tables, locks and periods.                               *)
(***************************************************************************)
GenInv == Tables /\ LocksOK /\ PeriodsOK

\* What a request locks, as a function of what it holds.
Rem(q) == IF q.pc \in {"cleared", "planned"} THEN q.removed ELSE {}
LEMMA LockedIsRem ==
  ASSUME Tables, NEW r \in Req
  PROVE  Locked(r) = Rem(req[r]) /\ Rem(req[r]) \subseteq Day
<1>1. req[r] \in Requests
  BY DEF Tables
<1>2. "removed" \in DOMAIN req[r] <=> req[r].pc \in {"cleared", "planned"}
  BY <1>1, ReqKinds
<1>3. req[r].pc = "cleared" => req[r].removed \subseteq Day
  BY <1>1, ReqKinds DEF ClearedReq
<1>4. req[r].pc = "planned" => req[r].removed \subseteq Day
  BY <1>1, ReqKinds DEF PlannedReq
<1> QED BY <1>2, <1>3, <1>4 DEF Locked, Rem

LEMMA LockedNext ==
  ASSUME Tables', NEW r \in Req
  PROVE  Locked(r)' = Rem(req'[r]) /\ Rem(req'[r]) \subseteq Day
<1>1. req'[r] \in Requests
  BY DEF Tables
<1>2. "removed" \in DOMAIN req'[r] <=> req'[r].pc \in {"cleared", "planned"}
  BY <1>1, ReqKinds
<1>3. req'[r].pc = "cleared" => req'[r].removed \subseteq Day
  BY <1>1, ReqKinds DEF ClearedReq
<1>4. req'[r].pc = "planned" => req'[r].removed \subseteq Day
  BY <1>1, ReqKinds DEF PlannedReq
<1> QED BY <1>2, <1>3, <1>4 DEF Locked, Rem

LEMMA GenInitInv == GenInit => GenInv
<1> SUFFICES ASSUME GenInit PROVE GenInv
  OBVIOUS
<1>1. PICK old \in SUBSET Legacy :
        /\ old # {} => item # Gone
        /\ rows = [d \in Day |-> IF d \in old THEN LegacyRow(d) ELSE NoRow]
  BY DEF GenInit
<1>2. \A d \in Day : RowOK(LegacyRow(d)) /\ LegacyRow(d).key = NoKey
  BY DEF RowOK, LegacyRow
<1>3. \A d \in Day : rows[d] = NoRow \/ (RowOK(rows[d]) /\ rows[d].key = NoKey)
  BY <1>1, <1>2
<1>4. item \in Schedules \cup {Gone}
  BY GenerationAssumption DEF GenInit
<1>5. Tables
  <2>1. req \in [Req -> Requests]
    BY DEF GenInit, Requests
  <2>2. today \in Days /\ touches \in Nat /\ crossed \in BOOLEAN
    <3>1. today = 0 /\ touches = 0 /\ crossed = FALSE
      BY DEF GenInit
    <3>2. MaxToday \in Nat
      BY GenerationAssumption
    <3>3. today \in Days /\ touches \in Nat
      BY <3>1, <3>2 DEF Days
    <3> QED BY <3>1, <3>3
  <2>3. item = Gone => \A d \in Day : rows[d] = NoRow
    BY <1>1
  <2>4. rows = [d \in Day |-> rows[d]] /\ \A d \in Day : rows[d] = NoRow \/ RowOK(rows[d])
    BY <1>1, <1>3
  <2> QED BY <1>4, <2>1, <2>2, <2>3, <2>4 DEF Tables
<1>6. \A r \in Req : req[r] = Idle /\ req[r].pc = "idle" /\ Locked(r) = {}
  BY DEF GenInit, Idle, Locked
<1>7. LocksOK
  BY <1>6 DEF LocksOK
<1>8. PeriodsOK
  BY <1>3, <1>6 DEF PeriodsOK, PlanOf, PlanFits, KeysApart
<1> QED BY <1>5, <1>7, <1>8 DEF GenInv

\* A step that leaves the tables alone: one request begins, loads, ends, or nothing but time passes.
LEMMA QuietStep ==
  ASSUME GenInv, UNCHANGED <<item, rows, crossed>>, touches' \in Nat, today' \in Days,
         \/ UNCHANGED req
         \/ \E r \in Req, q \in Requests : /\ req' = [req EXCEPT ![r] = q]
                                           /\ Rem(q) = {} /\ q.pc # "planned"
  PROVE  GenInv'
<1>1. Tables'
  BY DEF GenInv, Tables
<1>2. \A o \in Req : req'[o] = req[o] \/ (Rem(req'[o]) = {} /\ req'[o].pc # "planned")
  BY DEF GenInv, Tables
<1>3. \A o \in Req : Locked(o)' \subseteq Locked(o)
  BY <1>1, <1>2, LockedIsRem, LockedNext DEF GenInv
<1>4. LocksOK'
  <2>1. \A r \in Req : \A d \in Locked(r)' : Free(rows'[d])
    BY <1>3 DEF GenInv, LocksOK
  <2>2. \A r, o \in Req : r # o => Locked(r)' \cap Locked(o)' = {}
    BY <1>3 DEF GenInv, LocksOK
  <2> QED BY <2>1, <2>2 DEF LocksOK
<1>5. PeriodsOK'
  BY <1>2 DEF GenInv, PeriodsOK, PlanOf, PlanFits
<1> QED BY <1>1, <1>4, <1>5 DEF GenInv

\* Requests that begin, load what they work on, or write the flag alone; a deletion is of the item and its rows.
LEMMA RequestSteps ==
  ASSUME GenInv, NEW r \in Req,
         \/ \E b \in Bodies : UpdateItem(r, b) \/ EditBill(r, b) \/ UpdateBill(r, b)
         \/ BeginToggle(r) \/ BeginTopUp(r) \/ LoadTopUp(r) \/ BeginDelete(r) \/ RollBack(r)
  PROVE  GenInv'
<1>0. Tables /\ item \in Schedules \cup {Gone} /\ today \in Days
  BY DEF GenInv, Tables
<1>1. CASE \E b \in Bodies : UpdateItem(r, b) \/ EditBill(r, b) \/ UpdateBill(r, b)
  <2>1. PICK b \in Bodies, kind \in {"edit", "form", "put"} : Edit(r, kind, b)
    BY <1>1 DEF UpdateItem, EditBill, UpdateBill
  <2> DEFINE q == [pc |-> IF kind = "put" THEN "clearing" ELSE "loaded", kind |-> kind, old |-> item, new |-> b]
  <2>2. b \in Schedules /\ item \in Schedules
    BY <1>0, <2>1, GenerationAssumption DEF Edit
  <2>3. q \in LoadedReq /\ Rem(q) = {} /\ q.pc # "planned"
    BY <2>2 DEF LoadedReq, Kind, Rem
  <2>4. req' = [req EXCEPT ![r] = q] /\ UNCHANGED <<item, rows, crossed, touches, today>>
    BY <2>1 DEF Edit, Began
  <2> HIDE DEF q
  <2> QED BY <1>0, <2>3, <2>4, QuietStep DEF Requests, Tables
<1>2. CASE BeginToggle(r)
  <2> DEFINE new == [item EXCEPT !.active = ~item.active]
             q == [pc |-> IF new.active THEN "loaded" ELSE "pausing", kind |-> "resume", old |-> item, new |-> new]
  <2>1. item \in Schedules
    BY <1>0, <1>2 DEF BeginToggle
  <2>2. new \in Schedules
    BY <2>1 DEF Schedules
  <2>4. req' = [req EXCEPT ![r] = q] /\ UNCHANGED <<item, rows, crossed, touches, today>>
    BY <1>2 DEF BeginToggle, Began
  <2> HIDE DEF new
  <2>3. q \in LoadedReq /\ Rem(q) = {} /\ q.pc # "planned"
    BY <2>1, <2>2 DEF LoadedReq, Kind, Rem
  <2> HIDE DEF q
  <2> QED BY <1>0, <2>3, <2>4, QuietStep DEF Requests, Tables
<1>3. CASE BeginTopUp(r)
  <2> DEFINE q == [pc |-> "listed", kind |-> "top_up", day |-> today]
  <2>3. q \in ListedReq /\ Rem(q) = {} /\ q.pc # "planned"
    BY <1>0 DEF ListedReq, Rem
  <2>4. req' = [req EXCEPT ![r] = q] /\ UNCHANGED <<item, rows, crossed, touches, today>>
    BY <1>3 DEF BeginTopUp
  <2> HIDE DEF q
  <2> QED BY <1>0, <2>3, <2>4, QuietStep DEF Requests, Tables
<1>4. CASE LoadTopUp(r)
  <2> DEFINE p == [pc |-> "loaded", kind |-> "top_up", old |-> item, new |-> item, day |-> req[r].day]
             q == IF item = Gone THEN Idle ELSE p
  <2>1. req[r] \in ListedReq
    BY <1>0, <1>4, ReqKinds DEF LoadTopUp, Tables
  <2>3. q \in Requests /\ Rem(q) = {} /\ q.pc # "planned"
    <3>1. item # Gone => p \in TopUpReq
      BY <1>0, <2>1 DEF TopUpReq, ListedReq
    <3> QED BY <3>1 DEF Requests, Rem, Idle
  <2>4. req' = [req EXCEPT ![r] = q] /\ UNCHANGED <<item, rows, crossed, touches, today>>
    BY <1>4 DEF LoadTopUp
  <2> HIDE DEF q
  <2> QED BY <1>0, <2>3, <2>4, QuietStep DEF Tables
<1>5. CASE BeginDelete(r)
  <2> DEFINE q == [pc |-> "deleting", kind |-> "delete", old |-> item, new |-> item]
  <2>1. item \in Schedules
    BY <1>0, <1>5 DEF BeginDelete
  <2>3. q \in DeletingReq /\ Rem(q) = {} /\ q.pc # "planned"
    BY <2>1 DEF DeletingReq, Rem
  <2>4. req' = [req EXCEPT ![r] = q] /\ UNCHANGED <<item, rows, crossed, touches, today>>
    BY <1>5 DEF BeginDelete, Began
  <2> HIDE DEF q
  <2> QED BY <1>0, <2>3, <2>4, QuietStep DEF Requests, Tables
<1>6. CASE RollBack(r)
  <2>1. Idle \in Requests /\ Rem(Idle) = {} /\ Idle.pc # "planned"
    BY DEF Requests, Rem, Idle
  <2>2. req' = [req EXCEPT ![r] = Idle] /\ UNCHANGED <<item, rows, crossed, touches, today>>
    BY <1>6 DEF RollBack
  <2> QED BY <1>0, <2>1, <2>2, QuietStep DEF Tables
<1> QED BY <1>1, <1>2, <1>3, <1>4, <1>5, <1>6

LEMMA TickStep == GenInv /\ Tick => GenInv'
<1> SUFFICES ASSUME GenInv, Tick PROVE GenInv'
  OBVIOUS
<1>1. today' \in Days /\ touches' \in Nat /\ UNCHANGED <<item, rows, crossed, req>>
  BY GenerationAssumption DEF Tick, GenInv, Tables, Days
<1> QED BY <1>1, QuietStep

\* Removing waits for what others removed.
LEMMA ClearStep == \A r \in Req : GenInv /\ Clear(r) => GenInv'
<1> SUFFICES ASSUME NEW r \in Req, GenInv, Clear(r) PROVE GenInv'
  OBVIOUS
<1> DEFINE holds == req[r].kind # "put" /\ req[r].new # req[r].old
           left == {d \in Day : Removable(rows[d], d, today)}
           q == [pc |-> "cleared", kind |-> req[r].kind, old |-> req[r].old, new |-> req[r].new, holds |-> holds,
                 removed |-> left]
<1>0. Tables /\ LocksOK /\ PeriodsOK
  BY DEF GenInv
<1>1. /\ req' = [req EXCEPT ![r] = q] /\ UNCHANGED <<item, rows, crossed, touches, today>>
      /\ left \cap LockedRows(Req \ {r}) = {}
  BY DEF Clear
<1>2. req[r] \in LoadedReq
  BY <1>0, ReqKinds DEF Clear, Tables
<1>3. q \in ClearedReq /\ q.pc = "cleared" /\ Rem(q) = left /\ \A d \in left : Free(rows[d])
  BY <1>2 DEF LoadedReq, ClearedReq, Rem, Removable, Free
<1> HIDE DEF q, left
<1>4. Tables'
  BY <1>0, <1>1, <1>3 DEF Tables, Requests
<1>5. req'[r] = q /\ \A o \in Req \ {r} : req'[o] = req[o]
  BY <1>0, <1>1 DEF Tables
<1>6. Locked(r)' = left /\ \A o \in Req \ {r} : Locked(o)' = Locked(o)
  BY <1>0, <1>3, <1>4, <1>5, LockedIsRem, LockedNext
<1>7. \A o \in Req \ {r} : left \cap Locked(o) = {}
  BY <1>1 DEF LockedRows
<1>8. LocksOK'
  <2>1. \A o \in Req : \A d \in Locked(o)' : Free(rows'[d])
    BY <1>0, <1>1, <1>3, <1>6 DEF LocksOK
  <2>2. \A p, o \in Req : p # o => Locked(p)' \cap Locked(o)' = {}
    BY <1>0, <1>6, <1>7 DEF LocksOK
  <2> QED BY <2>1, <2>2 DEF LocksOK
<1>9. PeriodsOK'
  BY <1>0, <1>1, <1>3, <1>5 DEF PeriodsOK, PlanOf, PlanFits
<1> QED BY <1>4, <1>8, <1>9 DEF GenInv

\* What is planned is of no period that is taken, less what the request removed itself.
LEMMA MissingFacts ==
  ASSUME NEW s, NEW table, NEW asOf, NEW past, NEW e \in Missing(s, table, asOf, past)
  PROVE  e \in EntriesOf(s, asOf) /\ e.key \notin Taken(s.rule.kind, table)
BY DEF Missing, EntriesOf

LEMMA EntriesKeyed ==
  ASSUME NEW s, NEW asOf, NEW e \in EntriesOf(s, asOf)
  PROVE  e.key[1] = KeyFormat(s.rule.kind) /\ e.key # NoKey
<1>1. PICK n : e = [due |-> Due(s.rule, n), key |-> PeriodKey(s.rule.kind, n), nominal |-> n]
  BY DEF EntriesOf, Entries
<1>2. e.key[1] = KeyFormat(s.rule.kind)
  BY <1>1 DEF PeriodKey
<1>3. e.key # NoKey
  BY <1>2 DEF KeyFormat, NoKey
<1> QED BY <1>2, <1>3

LEMMA PlanStep == \A r \in Req : GenInv /\ Plan(r) => GenInv'
<1> SUFFICES ASSUME NEW r \in Req, GenInv, Plan(r) PROVE GenInv'
  OBVIOUS
<1> DEFINE p == req[r]
           removed == Locked(r)
           asOf == IF p.kind = "top_up" THEN p.day ELSE today
           seen == [d \in Day |-> IF d \in removed THEN NoRow ELSE rows[d]]
           plan == Missing(p.new, seen, asOf, Past(p.kind))
           q == [pc |-> "planned", kind |-> p.kind, old |-> p.old, new |-> p.new, holds |-> p.new # p.old,
                 removed |-> removed, day |-> asOf, plan |-> plan]
<1>0. Tables /\ LocksOK /\ PeriodsOK
  BY DEF GenInv
<1>1. req' = [req EXCEPT ![r] = q] /\ UNCHANGED <<item, rows, crossed, touches, today>>
  BY DEF Plan
<1>2. p \in ClearedReq \/ p \in LoadedReq \/ p \in TopUpReq
  BY <1>0, ReqKinds DEF Plan, Tables
<1>3. p.kind \in Kind /\ p.old \in Schedules /\ p.new \in Schedules /\ asOf \in Days
  <2>1. CASE p \in ClearedReq \/ p \in LoadedReq
    BY <1>0, <2>1 DEF ClearedReq, LoadedReq, Tables
  <2>2. CASE p \in TopUpReq
    BY <1>0, <2>2 DEF TopUpReq, Tables, Kind
  <2> QED BY <1>2, <2>1, <2>2
<1>4. removed = Rem(p) /\ removed \subseteq Day
  BY <1>0, LockedIsRem
<1> HIDE DEF p, removed, asOf, seen
<1>5. plan \subseteq EntriesOf(p.new, asOf) /\ \A e \in plan : e.key \notin Taken(p.new.rule.kind, seen)
  BY MissingFacts
<1>6. plan \subseteq AllEntries
  <2>1. <<p.new, asOf>> \in Schedules \X Days /\ EntriesOf(<<p.new, asOf>>[1], <<p.new, asOf>>[2]) = EntriesOf(p.new, asOf)
    BY <1>3
  <2>2. EntriesOf(<<p.new, asOf>>[1], <<p.new, asOf>>[2]) \subseteq AllEntries
    BY <2>1 DEF AllEntries
  <2> QED BY <1>5, <2>1, <2>2
<1> HIDE DEF plan
<1>7. q \in PlannedReq /\ Rem(q) = removed /\ q.pc = "planned" /\ q.plan = plan /\ q.removed = removed /\ q.new = p.new /\ q.day = asOf
  BY <1>3, <1>4, <1>6 DEF PlannedReq, Rem
<1> HIDE DEF q
<1>8. Tables'
  BY <1>0, <1>1, <1>7 DEF Tables, Requests
<1>9. req'[r] = q /\ \A o \in Req \ {r} : req'[o] = req[o]
  BY <1>0, <1>1 DEF Tables
<1>10. \A o \in Req : Locked(o)' = Locked(o)
  BY <1>0, <1>4, <1>7, <1>8, <1>9, LockedIsRem, LockedNext DEF p
<1>11. LocksOK'
  BY <1>0, <1>1, <1>10 DEF LocksOK
<1>12. PlanOf(q) /\ PlanFits(q, rows)
  <2>1. PlanOf(q)
    BY <1>5, <1>7 DEF PlanOf
  <2>2. ASSUME NEW e \in plan, NEW d \in Day \ removed, rows[d] # NoRow, rows[d].key = e.key PROVE FALSE
    <3>1. e.key[1] = KeyFormat(p.new.rule.kind) /\ e.key # NoKey
      BY <1>5, EntriesKeyed
    <3>2. seen[d] = rows[d]
      BY DEF seen
    <3>3. e.key \in RowPeriod(p.new.rule.kind, seen[d])
      BY <2>2, <3>1, <3>2 DEF RowPeriod
    <3>4. e.key \in Taken(p.new.rule.kind, seen)
      BY <2>2, <3>2, <3>3 DEF Taken
    <3> QED BY <1>5, <3>4
  <2> QED BY <1>7, <2>1, <2>2 DEF PlanFits
<1>13. PeriodsOK'
  BY <1>0, <1>1, <1>9, <1>12 DEF PeriodsOK
<1> QED BY <1>8, <1>11, <1>13 DEF GenInv

\* A row is put on a free date only, and of two requests that planned the same schedule for the same day the second
\* finds the first one's row on the date that it would have given it.
LEMMA CommitStep == \A r \in Req : GenInv /\ Commit(r) => GenInv'
<1> SUFFICES ASSUME NEW r \in Req, GenInv, Commit(r) PROVE GenInv'
  OBVIOUS
<1> DEFINE q == req[r]
           base == [d \in Day |-> IF d \in q.removed THEN NoRow ELSE rows[d]]
           put == {e \in q.plan : base[e.due] = NoRow}
<1>0. Tables /\ LocksOK /\ PeriodsOK
  BY DEF GenInv
<1>1. q \in PlannedReq /\ q.pc = "planned"
  BY <1>0, ReqKinds DEF Commit, Tables
<1>2. /\ q.old \in Schedules /\ q.new \in Schedules /\ q.day \in Days /\ q.removed \subseteq Day /\ q.plan \subseteq AllEntries
      /\ q.plan \subseteq EntriesOf(q.new, q.day)
  BY <1>0, <1>1 DEF PlannedReq, PeriodsOK, PlanOf
<1>3. req' = [req EXCEPT ![r] = Idle] /\ UNCHANGED <<touches, today>>
  BY DEF Commit
<1>4. CASE item = Gone
  <2>1. UNCHANGED <<item, rows, crossed>>
    BY <1>4 DEF Commit
  <2>2. Idle \in Requests /\ Rem(Idle) = {} /\ Idle.pc # "planned"
    BY DEF Requests, Rem, Idle
  <2> QED BY <1>0, <1>3, <2>1, <2>2, QuietStep DEF Tables
<1>5. CASE item # Gone
  <2>1. /\ item' = Written(q.old, q.new, item)
        /\ rows' = [d \in Day |-> IF \E e \in put : e.due = d THEN NewRow(CHOOSE e \in put : e.due = d, q.day, Past(q.kind))
                                                              ELSE base[d]]
        /\ crossed' = (crossed \/ \E o \in Req \ {r} : /\ req[o].pc = "planned"
                                                      /\ \/ ~SameSchedule(req[o].new, q.new)
                                                         \/ req[o].day # q.day)
    BY <1>5 DEF Commit
  <2>2. put \in SUBSET AllEntries /\ put \subseteq q.plan
    BY <1>2
  <2>4. \A d \in Day : base[d] = NoRow \/ (base[d] = rows[d] /\ RowOK(rows[d]) /\ d \notin q.removed)
    BY <1>0 DEF Tables
  <2>5. rows' = [d \in Day |-> rows'[d]]
    BY <2>1
  <2>6. \A e \in put : e.due \in Day => base[e.due] = NoRow
    OBVIOUS
  <2> HIDE DEF q, base, put
  <2>3. \A d \in Day : \/ (\A e \in put : e.due # d) /\ rows'[d] = base[d]
                       \/ \E e \in put : /\ e.due = d /\ rows'[d] = NewRow(e, q.day, Past(q.kind)) /\ RowOK(rows'[d])
                                         /\ rows'[d].key = e.key
    <3> TAKE d \in Day
    <3> DEFINE e == CHOOSE x \in put : x.due = d
    <3>1. CASE \E x \in put : x.due = d
      <4>1. e \in put /\ e.due = d
        BY <3>1
      <4>2. rows'[d] = NewRow(e, q.day, Past(q.kind))
        BY <2>1, <3>1
      <4> HIDE DEF e
      <4>3. RowOK(NewRow(e, q.day, Past(q.kind))) /\ NewRow(e, q.day, Past(q.kind)).key = e.key
        BY <2>2, <4>1, NewRowOK
      <4> QED BY <4>1, <4>2, <4>3
    <3>2. CASE ~\E x \in put : x.due = d
      BY <2>1, <3>2
    <3> QED BY <3>1, <3>2
  <2>7. item' \in Schedules /\ item' # Gone
    BY <1>0, <1>2, <1>5, <2>1, WrittenType, NotGone DEF Tables
  <2>8. crossed' \in BOOLEAN
    BY <1>0, <2>1 DEF Tables
  <2>9. Tables'
    <3>1. req' \in [Req -> Requests]
      BY <1>0, <1>3 DEF Tables, Requests
    <3>2. \A d \in Day : rows'[d] = NoRow \/ RowOK(rows'[d])
      BY <2>3, <2>4
    <3> QED BY <1>0, <1>3, <2>5, <2>7, <2>8, <3>1, <3>2 DEF Tables
  <2>10. req'[r] = Idle /\ \A o \in Req \ {r} : req'[o] = req[o]
    BY <1>0, <1>3 DEF Tables
  <2>11. /\ Locked(r) = q.removed /\ Locked(r)' = {}
         /\ \A o \in Req \ {r} : Locked(o)' = Locked(o) /\ Locked(o) \subseteq Day
    <3>1. Rem(Idle) = {} /\ Rem(q) = q.removed
      BY <1>1 DEF Rem, Idle
    <3> QED BY <1>0, <2>9, <2>10, <3>1, LockedIsRem, LockedNext DEF q
  <2>12. LocksOK'
    <3>1. ASSUME NEW o \in Req \ {r}, NEW d \in Locked(o) PROVE rows'[d] = rows[d]
      <4>1. d \in Day /\ Free(rows[d]) /\ d \notin q.removed
        BY <1>0, <2>11, <3>1 DEF LocksOK
      <4>2. base[d] = rows[d] /\ base[d] # NoRow
        BY <4>1 DEF base, Free
      <4> QED BY <2>3, <2>6, <4>1, <4>2
    <3>2. \A o \in Req : \A d \in Locked(o)' : Free(rows'[d])
      BY <1>0, <2>11, <3>1 DEF LocksOK
    <3>3. \A p, o \in Req : p # o => Locked(p)' \cap Locked(o)' = {}
      BY <1>0, <2>11 DEF LocksOK
    <3> QED BY <3>2, <3>3 DEF LocksOK
  <2>13. PeriodsOK'
    <3>1. \A o \in Req : PlanOf(req'[o])
      BY <1>0, <2>10 DEF PeriodsOK, PlanOf, Idle
    <3>2. ASSUME OnePerPeriod, ~crossed' PROVE KeysApart(rows') /\ \A o \in Req : PlanFits(req'[o], rows')
      <4>1. /\ ~crossed /\ KeysApart(rows) /\ PlanFits(q, rows)
            /\ \A o \in Req \ {r} : PlanFits(req[o], rows)
        BY <1>0, <2>1, <3>2 DEF PeriodsOK, q
      \* Two entries of the plan with one key are one.
      <4>2. \A h \in Days : h + Horizon \in 0 .. MaxToday + Horizon
        BY GenerationAssumption DEF Days
      <4>3. \A s \in Schedules : \A h \in Days : \A e, o \in EntriesOf(s, h) : e.key = o.key => e = o
        BY <3>2, <4>2 DEF OnePerPeriod, EntriesOf
      <4>4. \A e \in put : \A d \in Day : base[d] # NoRow => base[d].key # e.key
        <5> SUFFICES ASSUME NEW e \in put, NEW d \in Day, base[d] # NoRow, base[d].key = e.key PROVE FALSE
          OBVIOUS
        <5>1. base[d] = rows[d] /\ d \notin q.removed /\ rows[d] # NoRow /\ e \in q.plan
          BY <2>2, <2>4
        <5>2. d = e.due
          BY <1>1, <4>1, <5>1 DEF PlanFits
        <5> QED BY <2>6, <5>2
      <4>5. \A e, o \in put : e.key = o.key => e = o
        BY <1>2, <2>2, <4>3
      <4>6. KeysApart(rows')
        <5> SUFFICES ASSUME NEW d \in Day, NEW e \in Day, d # e, rows'[d] # NoRow, rows'[e] # NoRow, rows'[d].key # NoKey,
                            rows'[d].key = rows'[e].key
                     PROVE  FALSE
          BY DEF KeysApart
        <5>1. CASE rows'[d] = base[d] /\ rows'[e] = base[e]
          BY <2>4, <4>1, <5>1 DEF KeysApart
        <5>2. CASE \E x \in put : x.due = d /\ rows'[d].key = x.key
          <6>1. PICK x \in put : x.due = d /\ rows'[d].key = x.key
            BY <5>2
          <6>2. \A y \in put : y.due = e => y.key # x.key
            BY <4>5, <6>1
          <6>3. CASE rows'[e] = base[e]
            BY <4>4, <6>1, <6>3
          <6>4. CASE \E y \in put : y.due = e /\ rows'[e].key = y.key
            BY <6>1, <6>2, <6>4
          <6> QED BY <2>3, <6>3, <6>4
        <5>3. CASE \E x \in put : x.due = e /\ rows'[e].key = x.key
          <6>1. PICK x \in put : x.due = e /\ rows'[e].key = x.key
            BY <5>3
          <6>2. \A y \in put : y.due = d => y.key # x.key
            BY <4>5, <6>1
          <6> QED BY <2>3, <4>4, <6>1, <6>2
        <5> QED BY <2>3, <5>1, <5>2, <5>3
      <4>7. ASSUME NEW o \in Req \ {r}, req[o].pc = "planned" PROVE PlanFits(req[o], rows')
        <5> DEFINE p == req[o]
        <5>1. SameSchedule(p.new, q.new) /\ p.day = q.day
          BY <2>1, <3>2, <4>7
        <5>2. EntriesOf(p.new, p.day) = EntriesOf(q.new, q.day)
          BY <5>1 DEF SameSchedule, EntriesOf
        <5>3. p.plan \subseteq EntriesOf(q.new, q.day)
          BY <1>0, <4>7, <5>2 DEF PeriodsOK, PlanOf
        <5> HIDE DEF p
        <5>4. ASSUME NEW e \in p.plan, NEW d \in Day \ p.removed, rows'[d] # NoRow, rows'[d].key = e.key PROVE d = e.due
          <6>1. CASE rows'[d] = base[d]
            <7>1. rows[d] # NoRow /\ rows[d].key = e.key
              BY <2>4, <5>4, <6>1
            <7> QED BY <4>1, <4>7, <5>4, <7>1 DEF PlanFits, p
          <6>2. CASE \E x \in put : x.due = d /\ rows'[d].key = x.key
            <7>1. PICK x \in put : x.due = d /\ rows'[d].key = x.key
              BY <6>2
            <7>2. x \in EntriesOf(q.new, q.day) /\ e \in EntriesOf(q.new, q.day) /\ x.key = e.key
              BY <1>2, <2>2, <5>3, <5>4, <7>1
            <7>3. x = e
              BY <1>2, <4>3, <7>2
            <7> QED BY <7>1, <7>3
          <6> QED BY <2>3, <5>4, <6>1, <6>2
        <5> QED BY <5>4 DEF PlanFits, p
      <4>8. \A o \in Req : PlanFits(req'[o], rows')
        BY <2>10, <4>7 DEF PlanFits, Idle
      <4> QED BY <4>6, <4>8
    <3> QED BY <3>1, <3>2 DEF PeriodsOK
  <2> QED BY <2>9, <2>12, <2>13 DEF GenInv
<1> QED BY <1>4, <1>5

\* A new item starts from an empty table, with no request under way.
LEMMA CreateStep ==
  ASSUME GenInv, NEW body \in Bodies, NEW past, Created(body, past)
  PROVE  GenInv'
<1> DEFINE plan == Missing(body, rows, today, past)
<1>0. Tables /\ LocksOK /\ PeriodsOK
  BY DEF GenInv
<1>1. /\ item = Gone /\ Open = {} /\ item' = body /\ UNCHANGED <<req, today, touches, crossed>>
      /\ rows' = [d \in Day |-> IF \E e \in plan : e.due = d THEN NewRow(CHOOSE e \in plan : e.due = d, today, past)
                                                             ELSE rows[d]]
  BY DEF Created
<1>2. \A d \in Day : rows[d] = NoRow
  BY <1>0, <1>1 DEF Tables
<1>3. body \in Schedules /\ today \in Days
  BY <1>0, GenerationAssumption DEF Tables
<1>4. plan \subseteq EntriesOf(body, today)
  BY MissingFacts
<1>5. plan \subseteq AllEntries
  <2>1. <<body, today>> \in Schedules \X Days /\ EntriesOf(<<body, today>>[1], <<body, today>>[2]) = EntriesOf(body, today)
    BY <1>3
  <2>2. EntriesOf(<<body, today>>[1], <<body, today>>[2]) \subseteq AllEntries
    BY <2>1 DEF AllEntries
  <2> QED BY <1>4, <2>1, <2>2
<1> HIDE DEF plan
<1>6. \A d \in Day : rows'[d] = NoRow \/ \E e \in plan : e.due = d /\ RowOK(rows'[d]) /\ rows'[d].key = e.key
  <2> TAKE d \in Day
  <2> DEFINE e == CHOOSE x \in plan : x.due = d
  <2>1. CASE \E x \in plan : x.due = d
    <3>1. e \in plan /\ e.due = d
      BY <2>1
    <3>2. rows'[d] = NewRow(e, today, past)
      BY <1>1, <2>1
    <3> HIDE DEF e
    <3>3. RowOK(NewRow(e, today, past)) /\ NewRow(e, today, past).key = e.key
      BY <1>5, <3>1, NewRowOK
    <3> QED BY <3>1, <3>2, <3>3
  <2>2. CASE ~\E x \in plan : x.due = d
    BY <1>1, <1>2, <2>2
  <2> QED BY <2>1, <2>2
<1>7. Tables'
  <2>1. rows' = [d \in Day |-> rows'[d]]
    BY <1>1
  <2>2. item' \in Schedules /\ item' # Gone
    BY <1>1, <1>3, NotGone
  <2> QED BY <1>0, <1>1, <1>6, <2>1, <2>2 DEF Tables
<1>8. \A r \in Req : req[r].pc = "idle" /\ req'[r] = req[r]
  BY <1>1 DEF Open
<1>9. \A r \in Req : Locked(r)' = {}
  BY <1>7, <1>8, LockedNext DEF Rem
<1>10. LocksOK'
  BY <1>9 DEF LocksOK
<1>11. OnePerPeriod => \A e, o \in plan : e.key = o.key => e = o
  <2>1. today + Horizon \in 0 .. MaxToday + Horizon
    BY <1>3, GenerationAssumption DEF Days
  <2> QED BY <1>3, <1>4, <2>1 DEF OnePerPeriod, EntriesOf
<1>12. OnePerPeriod => KeysApart(rows')
  BY <1>6, <1>11 DEF KeysApart
<1>13. PeriodsOK'
  BY <1>8, <1>12 DEF PeriodsOK, PlanOf, PlanFits
<1> QED BY <1>7, <1>10, <1>13 DEF GenInv

\* Pausing writes the flag.
LEMMA PauseStep == \A r \in Req : GenInv /\ CommitPause(r) => GenInv'
<1> SUFFICES ASSUME NEW r \in Req, GenInv, CommitPause(r) PROVE GenInv'
  OBVIOUS
<1>0. Tables /\ LocksOK /\ PeriodsOK
  BY DEF GenInv
<1>1. req[r] \in LoadedReq
  BY <1>0, ReqKinds DEF CommitPause, Tables
<1>2. item' \in Schedules \cup {Gone} /\ (item' = Gone <=> item = Gone)
  <2>1. item # Gone => Written(req[r].old, req[r].new, item) \in Schedules
    BY <1>0, <1>1, WrittenType DEF LoadedReq, Tables
  <2> QED BY <2>1, NotGone DEF CommitPause
<1>3. req' = [req EXCEPT ![r] = Idle] /\ UNCHANGED <<rows, crossed, today, touches>>
  BY DEF CommitPause
<1>4. Idle \in Requests /\ Rem(Idle) = {} /\ Idle.pc # "planned"
  BY DEF Requests, Rem, Idle
<1>5. Tables'
  BY <1>0, <1>2, <1>3, <1>4 DEF Tables
<1>6. \A o \in Req : req'[o] = req[o] \/ req'[o] = Idle
  BY <1>0, <1>3 DEF Tables
<1>7. \A o \in Req : Locked(o)' \subseteq Locked(o)
  BY <1>0, <1>4, <1>5, <1>6, LockedIsRem, LockedNext
<1>8. LocksOK'
  <2>1. \A o \in Req : \A d \in Locked(o)' : Free(rows'[d])
    BY <1>0, <1>3, <1>7 DEF LocksOK
  <2>2. \A p, o \in Req : p # o => Locked(p)' \cap Locked(o)' = {}
    BY <1>0, <1>7 DEF LocksOK
  <2> QED BY <2>1, <2>2 DEF LocksOK
<1>9. PeriodsOK'
  BY <1>0, <1>3, <1>4, <1>6 DEF PeriodsOK, PlanOf, PlanFits
<1> QED BY <1>5, <1>8, <1>9 DEF GenInv

\* The entries go with their item, unless a request holds one of them.
LEMMA DeleteStep == \A r \in Req : GenInv /\ CommitDelete(r) => GenInv'
<1> SUFFICES ASSUME NEW r \in Req, GenInv, CommitDelete(r) PROVE GenInv'
  OBVIOUS
<1>0. Tables /\ LocksOK /\ PeriodsOK
  BY DEF GenInv
<1>1. /\ req' = [req EXCEPT ![r] = Idle] /\ UNCHANGED <<today, touches, crossed>>
      /\ req[r].pc = "deleting" /\ LockedRows(Req \ {r}) = {}
      /\ \/ item' = Gone /\ rows' = [d \in Day |-> NoRow]
         \/ UNCHANGED <<item, rows>>
  BY DEF CommitDelete
<1>2. Idle \in Requests /\ Rem(Idle) = {} /\ Idle.pc # "planned"
  BY DEF Requests, Rem, Idle
<1>3. CASE UNCHANGED <<item, rows>>
  BY <1>0, <1>1, <1>2, <1>3, QuietStep DEF Tables
<1>4. CASE item' = Gone /\ rows' = [d \in Day |-> NoRow]
  <2>1. Tables'
    BY <1>0, <1>1, <1>2, <1>4 DEF Tables
  <2>2. req'[r] = Idle /\ \A o \in Req \ {r} : req'[o] = req[o] /\ Locked(o) = {}
    BY <1>0, <1>1 DEF Tables, LockedRows
  <2>3. \A o \in Req : Locked(o)' = {}
    BY <1>0, <1>2, <2>1, <2>2, LockedIsRem, LockedNext
  <2>4. LocksOK'
    BY <2>3 DEF LocksOK
  <2>5. PeriodsOK'
    BY <1>0, <1>2, <1>4, <2>2 DEF PeriodsOK, PlanOf, PlanFits, KeysApart
  <2> QED BY <2>1, <2>4, <2>5 DEF GenInv
<1> QED BY <1>1, <1>3, <1>4

\* A tap changes a row that nobody removed, and neither its period nor its date.
Taps == \E d \in Day : \/ Skip(d) \/ SetAmount(d)
                       \/ \E b \in BOOLEAN : Pay(d, b) \/ Undo(d, b)
Touched(row, new) == new.key = row.key /\ new.nominal = row.nominal /\ (row.amount = TRUE => new.amount = TRUE)
LEMMA TapChanges ==
  ASSUME Tables, Taps
  PROVE  /\ UNCHANGED <<item, req, today, crossed>> /\ touches' = touches + 1
         /\ \E d \in Day : /\ rows[d] # NoRow /\ d \notin LockedRows(Req)
                           /\ \A q \in Open : req[q].kind \in Overlap
                           /\ rows' = [rows EXCEPT ![d] = rows'[d]]
                           /\ RowOK(rows'[d]) /\ Touched(rows[d], rows'[d])
<1>1. PICK d \in Day : Skip(d) \/ SetAmount(d) \/ \E b \in BOOLEAN : Pay(d, b) \/ Undo(d, b)
  BY DEF Taps
<1> DEFINE row == rows[d]
<1>2. Tap(d) /\ RowOK(row)
  BY <1>1 DEF Skip, SetAmount, Pay, Undo, Tables, Tap
<1>3. \/ rows' = [rows EXCEPT ![d] = [row EXCEPT !.status = "skipped"]]
      \/ rows' = [rows EXCEPT ![d] = [row EXCEPT !.amount = TRUE]]
      \/ rows' = [rows EXCEPT ![d] = [row EXCEPT !.status = "unpaid", !.linked = FALSE]]
      \/ \E b \in BOOLEAN : rows' = [rows EXCEPT ![d] = [row EXCEPT !.status = "paid", !.linked = b, !.amount = b \/ row.amount]]
  <2>1. CASE Skip(d)
    BY <2>1 DEF Skip
  <2>2. CASE SetAmount(d)
    BY <2>2 DEF SetAmount
  <2>3. CASE \E b \in BOOLEAN : Undo(d, b)
    BY <2>3 DEF Undo
  <2>4. CASE \E b \in BOOLEAN : Pay(d, b)
    <3>1. PICK b \in BOOLEAN : Pay(d, b)
      BY <2>4
    <3>2. rows' = [rows EXCEPT ![d] = [row EXCEPT !.status = "paid", !.linked = b, !.amount = b \/ row.amount]]
      BY <1>2, <3>1 DEF Pay, RowOK
    <3> QED BY <3>2
  <2> QED BY <1>1, <2>1, <2>2, <2>3, <2>4
<1>4. rows = [x \in Day |-> rows[x]]
  BY DEF Tables
<1> HIDE DEF row
<1>5. PICK new : rows' = [rows EXCEPT ![d] = new] /\ RowOK(new) /\ Touched(row, new)
  <2>2. LET new == [row EXCEPT !.status = "skipped"] IN RowOK(new) /\ Touched(row, new)
    BY <1>2 DEF RowOK, Touched
  <2>3. LET new == [row EXCEPT !.amount = TRUE] IN RowOK(new) /\ Touched(row, new)
    BY <1>2 DEF RowOK, Touched
  <2>4. LET new == [row EXCEPT !.status = "unpaid", !.linked = FALSE] IN RowOK(new) /\ Touched(row, new)
    BY <1>2 DEF RowOK, Touched
  <2>5. \A b, c : (row.amount = TRUE => c = TRUE) =>
            LET new == [row EXCEPT !.status = "paid", !.linked = b, !.amount = c] IN RowOK(new) /\ Touched(row, new)
    BY <1>2 DEF RowOK, Touched
  <2>6. CASE \E b \in BOOLEAN : rows' = [rows EXCEPT ![d] = [row EXCEPT !.status = "paid", !.linked = b, !.amount = b \/ row.amount]]
    <3>1. PICK b \in BOOLEAN : rows' = [rows EXCEPT ![d] = [row EXCEPT !.status = "paid", !.linked = b, !.amount = b \/ row.amount]]
      BY <2>6
    <3> DEFINE new == [row EXCEPT !.status = "paid", !.linked = b, !.amount = b \/ row.amount]
    <3>2. RowOK(new) /\ Touched(row, new)
      BY <2>5
    <3> QED BY <3>1, <3>2
  <2> QED BY <1>3, <2>2, <2>3, <2>4, <2>6
<1>6. rows'[d] = new
  BY <1>4, <1>5
<1> QED BY <1>2, <1>5, <1>6 DEF Tap, row

LEMMA TapStep == GenInv /\ Taps => GenInv'
<1> SUFFICES ASSUME GenInv, Taps PROVE GenInv'
  OBVIOUS
<1>0. Tables /\ LocksOK /\ PeriodsOK
  BY DEF GenInv
<1>1. UNCHANGED <<item, req, today, crossed>> /\ touches' = touches + 1
  BY <1>0, TapChanges
<1>2. PICK d \in Day : /\ rows[d] # NoRow /\ d \notin LockedRows(Req)
                       /\ rows' = [rows EXCEPT ![d] = rows'[d]]
                       /\ RowOK(rows'[d]) /\ rows'[d].key = rows[d].key
  BY <1>0, TapChanges DEF Touched
<1>3. \A x \in Day : x # d => rows'[x] = rows[x]
  BY <1>0, <1>2 DEF Tables
<1>4. rows'[d] # NoRow
  BY <1>2, RowsApart
<1>5. Tables'
  <2>1. rows' = [x \in Day |-> rows'[x]]
    BY <1>0, <1>2 DEF Tables
  <2>2. touches' \in Nat /\ item' # Gone
    BY <1>0, <1>1, <1>2 DEF Tables
  <2> QED BY <1>0, <1>1, <1>2, <1>3, <2>1, <2>2 DEF Tables
<1>6. \A r \in Req : Locked(r)' = Locked(r) /\ d \notin Locked(r) /\ Locked(r) \subseteq Day
  BY <1>0, <1>1, <1>2, LockedIsRem DEF Locked, LockedRows
<1>7. LocksOK'
  <2>1. \A o \in Req : \A x \in Locked(o)' : Free(rows'[x])
    BY <1>0, <1>3, <1>6 DEF LocksOK
  <2>2. \A p, o \in Req : p # o => Locked(p)' \cap Locked(o)' = {}
    BY <1>0, <1>6 DEF LocksOK
  <2> QED BY <2>1, <2>2 DEF LocksOK
<1>8. \A x \in Day : (rows'[x] # NoRow <=> rows[x] # NoRow) /\ (rows[x] # NoRow => rows'[x].key = rows[x].key)
  BY <1>2, <1>3, <1>4
<1>9. PeriodsOK'
  <2>1. \A o \in Req : PlanOf(req[o])
    BY <1>0 DEF PeriodsOK
  <2>2. ASSUME OnePerPeriod, ~crossed PROVE KeysApart(rows') /\ \A o \in Req : PlanFits(req[o], rows')
    <3>1. KeysApart(rows) /\ \A o \in Req : PlanFits(req[o], rows)
      BY <1>0, <2>2 DEF PeriodsOK
    <3>2. KeysApart(rows')
      BY <1>8, <3>1 DEF KeysApart
    <3>3. \A o \in Req : PlanFits(req[o], rows')
      BY <1>8, <3>1 DEF PlanFits
    <3> QED BY <3>2, <3>3
  <2> QED BY <1>1, <2>1, <2>2 DEF PeriodsOK
<1> QED BY <1>5, <1>7, <1>9 DEF GenInv

LEMMA GenStep == GenInv /\ [GenNext]_gvars => GenInv'
<1> SUFFICES ASSUME GenInv, [GenNext]_gvars PROVE GenInv'
  OBVIOUS
<1>1. CASE UNCHANGED gvars
  BY <1>1, QuietStep DEF gvars, GenInv, Tables
<1>2. CASE \E b \in Bodies : CreateItem(b) \/ CreateBill(b)
  BY <1>2, CreateStep DEF CreateItem, CreateBill
<1>3. CASE Taps
  BY <1>3, TapStep
<1>4. CASE Tick
  BY <1>4, TickStep
<1>5. CASE \E r \in Req : \/ \E b \in Bodies : UpdateItem(r, b) \/ EditBill(r, b) \/ UpdateBill(r, b)
                          \/ BeginToggle(r) \/ BeginTopUp(r) \/ LoadTopUp(r) \/ BeginDelete(r) \/ RollBack(r)
  BY <1>5, RequestSteps
<1>6. CASE \E r \in Req : Clear(r) \/ Plan(r) \/ Commit(r) \/ CommitPause(r) \/ CommitDelete(r)
  BY <1>6, ClearStep, PlanStep, CommitStep, PauseStep, DeleteStep
<1> QED BY <1>1, <1>2, <1>3, <1>4, <1>5, <1>6 DEF GenNext, Taps

\* While no generation commits over one planned on another schedule or day, an item has one entry in a period, through edits
\* of the rule and of its kind, pauses, top-ups, deletions and taps (the comment on BillOccurrence.period), on any
\* calendar whose rules name one date in a period.
THEOREM OneEntryPerPeriod ==
  ASSUME OnePerPeriod
  PROVE  GenSpec => []OncePerPeriod
<1>1. GenInv => OncePerPeriod
  <2> SUFFICES ASSUME GenInv, ~crossed, NEW d \in Day, NEW e \in Day, d # e, rows[d] # NoRow, rows[e] # NoRow,
                      rows[d].key # NoKey, rows[e].key[1] = rows[d].key[1]
               PROVE  CASE rows[d].key[1] = "month" -> MonthOf(rows[d].nominal) # MonthOf(rows[e].nominal)
                        [] rows[d].key[1] = "year" -> YearOf(rows[d].nominal) # YearOf(rows[e].nominal)
                        [] OTHER -> WeekOf(rows[d].nominal) # WeekOf(rows[e].nominal)
    BY DEF OncePerPeriod
  <2>1. rows[d].key # rows[e].key /\ RowOK(rows[d]) /\ RowOK(rows[e])
    BY DEF GenInv, Tables, PeriodsOK, KeysApart
  <2>2. PICK kind : rows[d].key = PeriodKey(kind, rows[d].nominal)
    BY <2>1 DEF RowOK
  <2>3. rows[d].key[1] \in {"week", "year", "month"} /\ NoKey[1] = "none"
    BY <2>2 DEF PeriodKey, KeyFormat, NoKey
  <2>4. PICK other : rows[e].key = PeriodKey(other, rows[e].nominal)
    BY <2>1, <2>3 DEF RowOK
  <2>5. KeyFormat(kind) = KeyFormat(other) /\ rows[d].key[1] = KeyFormat(kind)
    BY <2>2, <2>4 DEF PeriodKey
  <2> QED BY <2>1, <2>2, <2>3, <2>4, <2>5 DEF PeriodKey
<1> QED BY <1>1, GenInitInv, GenStep, PTL DEF GenSpec

(***************************************************************************)
(* Payments and what a user touched.                                       *)
(***************************************************************************)
\* Rows that a commit takes away are free ones, and what it puts is not paid.
LEMMA CommitRows ==
  ASSUME GenInv, NEW r \in Req, Commit(r), NEW d \in Day, rows[d] # NoRow, ~Free(rows[d])
  PROVE  rows'[d] = rows[d]
<1> DEFINE q == req[r]
           base == [x \in Day |-> IF x \in q.removed THEN NoRow ELSE rows[x]]
           put == {e \in q.plan : base[e.due] = NoRow}
<1>1. q \in PlannedReq
  BY ReqKinds DEF Commit, GenInv, Tables
<1>2. Locked(r) = q.removed
  BY <1>1, LockedIsRem DEF GenInv, Rem, PlannedReq
<1>3. d \notin q.removed
  BY <1>2 DEF GenInv, LocksOK
<1>4. base[d] = rows[d]
  BY <1>3
<1>5. ~\E e \in put : e.due = d
  BY <1>4
<1>6. CASE item = Gone
  BY <1>6 DEF Commit
<1>7. CASE item # Gone
  <2>1. rows' = [x \in Day |-> IF \E e \in put : e.due = x THEN NewRow(CHOOSE e \in put : e.due = x, q.day, Past(q.kind))
                                                          ELSE base[x]]
    BY <1>7 DEF Commit
  <2> QED BY <1>4, <1>5, <2>1
<1> QED BY <1>6, <1>7

LEMMA CommitPuts ==
  ASSUME GenInv, NEW r \in Req, Commit(r), NEW d \in Day
  PROVE  rows'[d] \in {rows[d], NoRow} \/ (RowOK(rows'[d]) /\ rows'[d].status # "paid" /\ ~rows'[d].linked)
<1> DEFINE q == req[r]
           base == [x \in Day |-> IF x \in q.removed THEN NoRow ELSE rows[x]]
           put == {e \in q.plan : base[e.due] = NoRow}
           e == CHOOSE x \in put : x.due = d
<1>1. put \subseteq AllEntries
  BY ReqKinds DEF Commit, GenInv, Tables, PlannedReq
<1>2. CASE item = Gone
  BY <1>2 DEF Commit
<1>3. CASE item # Gone
  <2>1. rows' = [x \in Day |-> IF \E y \in put : y.due = x THEN NewRow(CHOOSE y \in put : y.due = x, q.day, Past(q.kind))
                                                          ELSE base[x]]
    BY <1>3 DEF Commit
  <2>2. CASE \E x \in put : x.due = d
    <3>1. e \in AllEntries
      BY <1>1, <2>2
    <3>2. rows'[d] = NewRow(e, q.day, Past(q.kind))
      BY <2>1, <2>2
    <3> HIDE DEF e
    <3> QED BY <3>1, <3>2, NewRowOK
  <2>3. CASE ~\E x \in put : x.due = d
    BY <2>1, <2>3
  <2> QED BY <2>2, <2>3
<1> QED BY <1>2, <1>3

\* An edit, a top-up or a resume leaves alone a row that is done or skipped, or whose amount somebody set, also when that
\* happens while it is under way: such a row changes by a tap of its own, or goes with its item.
THEOREM TouchedStay == GenSpec => TouchedRowsStay
<1> DEFINE Stays == \A d \in Day :
                     /\ rows[d] # NoRow /\ rows'[d] # rows[d] /\ item' # Gone
                     /\ rows[d].status # "unpaid" \/ rows[d].amount \/ rows[d].linked
                     => touches' # touches
<1>1. GenInv /\ [GenNext]_gvars => Stays
  <2> SUFFICES ASSUME GenInv, [GenNext]_gvars, NEW d \in Day, rows[d] # NoRow, rows'[d] # rows[d], item' # Gone,
                      rows[d].status # "unpaid" \/ rows[d].amount \/ rows[d].linked
               PROVE  touches' # touches
    OBVIOUS
  <2>1. ~Free(rows[d])
    BY DEF Free
  <2>2. rows' # rows
    OBVIOUS
  <2>3. CASE Taps
    <3>1. touches' = touches + 1 /\ touches \in Nat
      BY <2>3, TapChanges DEF GenInv, Tables
    <3> QED BY <3>1
  <2>4. CASE \E b \in Bodies : CreateItem(b) \/ CreateBill(b)
    BY <2>4 DEF CreateItem, CreateBill, Created, GenInv, Tables
  <2>5. CASE \E r \in Req : Commit(r)
    BY <2>1, <2>5, CommitRows
  <2>6. CASE \E r \in Req : CommitDelete(r)
    BY <2>2, <2>6 DEF CommitDelete
  <2>7. CASE Tick \/ UNCHANGED gvars \/ \E r \in Req :
               \/ \E b \in Bodies : UpdateItem(r, b) \/ EditBill(r, b) \/ UpdateBill(r, b)
               \/ BeginToggle(r) \/ BeginTopUp(r) \/ LoadTopUp(r) \/ BeginDelete(r)
               \/ Clear(r) \/ Plan(r) \/ CommitPause(r) \/ RollBack(r)
    BY <2>2, <2>7 DEF Tick, gvars, UpdateItem, EditBill, UpdateBill, Edit, BeginToggle, BeginTopUp, LoadTopUp, BeginDelete,
                      Clear, Plan, CommitPause, RollBack
  <2> QED BY <2>3, <2>4, <2>5, <2>6, <2>7 DEF GenNext, Taps
<1>2. GenInv /\ [GenNext]_gvars => [Stays]_gvars
  BY <1>1
<1> HIDE DEF Stays
<1>3. GenSpec => [][Stays]_gvars
  BY <1>2, GenInitInv, GenStep, PTL DEF GenSpec
<1> QED BY <1>3 DEF Stays, TouchedRowsStay

\* While a deletion is between its check and its commit, what was paid has an expense of its own or was claimed since; and
\* as long as an item without a bucket has no expense, no entry of it is linked.
PaidKept(table, known) == \A d \in Day : table[d] # NoRow /\ table[d].status = "paid" => table[d].linked \/ d \in known
NoneLinked(table) == \A d \in Day : table[d] # NoRow => ~table[d].linked
DeletesOK ==
    /\ \A r \in Req : req[r].pc = "deleting" => PaidKept(rows, raced)
    /\ ~Bucketed => refs \in Nat /\ (refs = 0 => NoneLinked(rows))

LEMMA DeletesKept ==
  ASSUME GenInv, DeletesOK, [GenNext]_gvars
  PROVE  DeletesOK'
<1>0. Tables
  BY DEF GenInv
<1>1. CASE \E b \in Bodies : CreateItem(b) \/ CreateBill(b)
  <2>1. PICK b \in Bodies, past \in {"none", "skipped"} : Created(b, past)
    BY <1>1 DEF CreateItem, CreateBill
  <2>2. (\A r \in Req : req'[r].pc # "deleting") /\ UNCHANGED refs
    BY <2>1 DEF Created, Open
  <2>3. ASSUME NEW d \in Day PROVE rows'[d] # NoRow => ~rows'[d].linked
    <3> DEFINE plan == Missing(b, rows, today, past)
               e == CHOOSE x \in plan : x.due = d
    <3>1. rows' = [x \in Day |-> IF \E y \in plan : y.due = x THEN NewRow(CHOOSE y \in plan : y.due = x, today, past) ELSE rows[x]]
      BY <2>1 DEF Created
    <3>2. rows[d] = NoRow
      BY <1>0, <2>1 DEF Created, Tables
    <3> HIDE DEF plan
    <3> QED BY <3>1, <3>2 DEF NewRow
  <2> QED BY <2>2, <2>3 DEF DeletesOK, NoneLinked
<1>2. CASE \E r \in Req : Commit(r)
  <2>1. PICK r \in Req : Commit(r)
    BY <1>2
  <2>2. \A o \in Req : req'[o].pc = "deleting" => req[o].pc = "deleting"
    BY <1>0, <2>1 DEF Commit, Tables, Idle
  <2>3. PaidKept(rows, raced) => PaidKept(rows', raced)
    BY <2>1, CommitPuts DEF PaidKept
  <2>4. NoneLinked(rows) => NoneLinked(rows')
    BY <2>1, CommitPuts DEF NoneLinked
  <2>5. UNCHANGED <<refs, raced>>
    BY <2>1 DEF Commit
  <2> QED BY <2>2, <2>3, <2>4, <2>5 DEF DeletesOK
<1>3. CASE \E r \in Req : CommitDelete(r)
  <2>1. PICK r \in Req : CommitDelete(r)
    BY <1>3
  <2>2. \A o \in Req : req'[o].pc = "deleting" => req[o].pc = "deleting"
    BY <1>0, <2>1 DEF CommitDelete, Tables, Idle
  <2>3. UNCHANGED raced /\ (UNCHANGED <<rows, refs>> \/ (rows' = [d \in Day |-> NoRow] /\ refs' = 0))
    BY <2>1 DEF CommitDelete
  <2>4. (PaidKept(rows, raced) => PaidKept(rows', raced)) /\ (NoneLinked(rows) => NoneLinked(rows'))
    BY <2>3 DEF PaidKept, NoneLinked
  <2>5. refs' = 0 => refs = 0 \/ NoneLinked(rows')
    BY <2>3 DEF NoneLinked
  <2> QED BY <2>2, <2>3, <2>4, <2>5 DEF DeletesOK
<1>4. CASE \E r \in Req : BeginDelete(r)
  <2>1. PaidKept(rows, {}) /\ rows' = rows /\ raced' = {} /\ UNCHANGED refs
    BY <1>4 DEF BeginDelete, HasHistory, PaidKept
  <2> QED BY <2>1 DEF DeletesOK
<1>5. CASE Taps
  <2>1. UNCHANGED req
    BY <1>0, <1>5, TapChanges
  <2>2. PICK d \in Day : Skip(d) \/ SetAmount(d) \/ \E b \in BOOLEAN : Pay(d, b) \/ Undo(d, b)
    BY <1>5 DEF Taps
  <2>3. rows[d] # NoRow /\ RowOK(rows[d]) /\ rows = [x \in Day |-> rows[x]]
    BY <1>0, <2>2 DEF Skip, SetAmount, Pay, Undo, Tap, Tables
  <2>4. CASE Skip(d)
    <3>1. /\ \A x \in Day \ {d} : rows'[x] = rows[x]
          /\ rows'[d].status # "paid" /\ rows'[d].linked = rows[d].linked /\ UNCHANGED <<refs, raced>>
      BY <2>3, <2>4 DEF Skip, RowOK
    <3> QED BY <2>1, <2>3, <3>1 DEF DeletesOK, PaidKept, NoneLinked
  <2>5. CASE SetAmount(d)
    <3>1. /\ \A x \in Day \ {d} : rows'[x] = rows[x]
          /\ rows'[d].status = rows[d].status /\ rows'[d].linked = rows[d].linked /\ UNCHANGED <<refs, raced>>
      BY <2>3, <2>5 DEF SetAmount, RowOK
    <3> QED BY <2>1, <2>3, <3>1 DEF DeletesOK, PaidKept, NoneLinked
  <2>6. ASSUME NEW b \in BOOLEAN, Undo(d, b) PROVE DeletesOK'
    <3>1. /\ \A x \in Day \ {d} : rows'[x] = rows[x]
          /\ rows'[d].status # "paid" /\ ~rows'[d].linked /\ UNCHANGED raced
          /\ ~Bucketed => UNCHANGED refs
      BY <2>3, <2>6 DEF Undo, RowOK
    <3> QED BY <2>1, <2>3, <3>1 DEF DeletesOK, PaidKept, NoneLinked
  <2>7. ASSUME Pay(d, TRUE) PROVE DeletesOK'
    <3>1. /\ \A x \in Day \ {d} : rows'[x] = rows[x]
          /\ rows'[d].linked /\ refs' = refs + 1 /\ UNCHANGED raced
      BY <2>3, <2>7 DEF Pay, RowOK
    <3>2. refs \in Nat => refs' \in Nat /\ refs' # 0
      BY <3>1
    <3> QED BY <2>1, <3>1, <3>2 DEF DeletesOK, PaidKept
  <2>8. ASSUME Pay(d, FALSE) PROVE DeletesOK'
    <3>1. /\ \A x \in Day \ {d} : rows'[x] = rows[x]
          /\ ~rows'[d].linked /\ UNCHANGED refs
          /\ raced' = IF \E r \in Req : req[r].pc = "deleting" THEN raced \cup {d} ELSE raced
      BY <2>3, <2>8 DEF Pay, RowOK
    <3> QED BY <2>1, <3>1 DEF DeletesOK, PaidKept, NoneLinked
  <2> QED BY <2>2, <2>4, <2>5, <2>6, <2>7, <2>8
<1>6. CASE UNCHANGED gvars
  BY <1>6 DEF gvars, DeletesOK, PaidKept, NoneLinked
<1>7. CASE Tick
  BY <1>7 DEF Tick, DeletesOK, PaidKept, NoneLinked
<1>8. CASE \E r \in Req :
               \/ \E b \in Bodies : UpdateItem(r, b) \/ EditBill(r, b) \/ UpdateBill(r, b)
               \/ BeginToggle(r) \/ BeginTopUp(r) \/ LoadTopUp(r)
               \/ Clear(r) \/ Plan(r) \/ CommitPause(r) \/ RollBack(r)
  <2>1. PICK r \in Req : \/ \E b \in Bodies : UpdateItem(r, b) \/ EditBill(r, b) \/ UpdateBill(r, b)
                         \/ BeginToggle(r) \/ BeginTopUp(r) \/ LoadTopUp(r)
                         \/ Clear(r) \/ Plan(r) \/ CommitPause(r) \/ RollBack(r)
    BY <1>8
  <2>2. UNCHANGED <<rows, refs, raced>>
    BY <2>1 DEF UpdateItem, EditBill, UpdateBill, Edit, BeginToggle, BeginTopUp, LoadTopUp, Clear, Plan, CommitPause, RollBack
  <2>3. (\A o \in Req \ {r} : req'[o] = req[o]) /\ req'[r].pc # "deleting"
    <3>0. req = [o \in Req |-> req[o]]
      BY <1>0 DEF Tables
    <3>1. CASE \E b \in Bodies : UpdateItem(r, b) \/ EditBill(r, b) \/ UpdateBill(r, b)
      BY <3>0, <3>1 DEF UpdateItem, EditBill, UpdateBill, Edit, Began
    <3>2. CASE BeginToggle(r)
      BY <3>0, <3>2 DEF BeginToggle, Began
    <3>3. CASE BeginTopUp(r)
      BY <3>0, <3>3 DEF BeginTopUp
    <3>4. CASE LoadTopUp(r)
      BY <3>0, <3>4 DEF LoadTopUp, Idle
    <3>5. CASE Clear(r)
      BY <3>0, <3>5 DEF Clear
    <3>6. CASE Plan(r)
      BY <3>0, <3>6 DEF Plan
    <3>7. CASE CommitPause(r)
      BY <3>0, <3>7 DEF CommitPause, Idle
    <3>8. CASE RollBack(r)
      BY <3>0, <3>8 DEF RollBack, Idle
    <3> QED BY <2>1, <3>1, <3>2, <3>3, <3>4, <3>5, <3>6, <3>7, <3>8
  <2>4. \A o \in Req : req'[o].pc = "deleting" => req[o].pc = "deleting"
    BY <2>3
  <2> QED BY <2>2, <2>4 DEF DeletesOK, PaidKept, NoneLinked
<1> QED BY <1>1, <1>2, <1>3, <1>4, <1>5, <1>6, <1>7, <1>8 DEF GenNext, Taps

\* Deleting an item never erases a payment that has an expense, and of the others only what the old app claims between the
\* check of a deletion and its commit, with or without a bucket and whatever edits, pauses, top-ups and taps overlap.
THEOREM PaymentsStay == GenSpec => PaymentsOutliveItem
<1> DEFINE Stays == \A d \in Day : rows[d] # NoRow /\ rows[d].status = "paid" /\ rows'[d] = NoRow
                                    => IF rows[d].linked THEN Bucketed ELSE d \in raced
<1>1. GenInv /\ DeletesOK /\ [GenNext]_gvars => Stays
  <2> SUFFICES ASSUME GenInv, DeletesOK, [GenNext]_gvars, NEW d \in Day, rows[d] # NoRow, rows[d].status = "paid", rows'[d] = NoRow
               PROVE  IF rows[d].linked THEN Bucketed ELSE d \in raced
    OBVIOUS
  <2>1. ~Free(rows[d])
    BY DEF Free
  <2>2. rows' # rows
    OBVIOUS
  <2>3. CASE Taps
    <3>1. PICK x \in Day : rows' = [rows EXCEPT ![x] = rows'[x]] /\ RowOK(rows'[x])
      BY <2>3, TapChanges DEF GenInv
    <3> QED BY <3>1, RowsApart DEF GenInv, Tables
  <2>4. CASE \E b \in Bodies : CreateItem(b) \/ CreateBill(b)
    BY <2>4 DEF CreateItem, CreateBill, Created, GenInv, Tables
  <2>5. CASE \E r \in Req : Commit(r)
    BY <2>1, <2>5, CommitRows
  <2>6. CASE \E r \in Req : CommitDelete(r)
    <3>1. PICK r \in Req : CommitDelete(r)
      BY <2>6
    <3>2. req[r].pc = "deleting" /\ (refs = 0 \/ Bucketed)
      BY <2>2, <3>1 DEF CommitDelete
    <3> QED BY <3>2 DEF DeletesOK, PaidKept, NoneLinked
  <2>7. CASE Tick \/ UNCHANGED gvars \/ \E r \in Req :
               \/ \E b \in Bodies : UpdateItem(r, b) \/ EditBill(r, b) \/ UpdateBill(r, b)
               \/ BeginToggle(r) \/ BeginTopUp(r) \/ LoadTopUp(r) \/ BeginDelete(r)
               \/ Clear(r) \/ Plan(r) \/ CommitPause(r) \/ RollBack(r)
    BY <2>2, <2>7 DEF Tick, gvars, UpdateItem, EditBill, UpdateBill, Edit, BeginToggle, BeginTopUp, LoadTopUp, BeginDelete,
                      Clear, Plan, CommitPause, RollBack
  <2> QED BY <2>3, <2>4, <2>5, <2>6, <2>7 DEF GenNext, Taps
<1>2. GenInv /\ DeletesOK /\ [GenNext]_gvars => [Stays]_gvars
  BY <1>1
<1>3. GenInit => DeletesOK
  BY DEF GenInit, DeletesOK, NoneLinked, LegacyRow, NoRow, Idle
<1>4. GenInv /\ DeletesOK /\ [GenNext]_gvars => DeletesOK'
  BY DeletesKept
<1> HIDE DEF Stays
<1>5. GenSpec => [][Stays]_gvars
  BY <1>2, <1>3, <1>4, GenInitInv, GenStep, PTL DEF GenSpec
<1> QED BY <1>5 DEF Stays, PaymentsOutliveItem

(***************************************************************************)
(* Every date is covered.                                                  *)
(***************************************************************************)
\* The dates that a generation for `asOf` answers for, and a row that has a period (an old row has its month).
Dated(s, asOf) == {e \in EntriesOf(s, asOf) : e.due >= asOf}
Holds(row, key) ==
    row # NoRow /\ (row.key = key \/ (row.key = NoKey /\ PeriodKey("monthly_interval", row.nominal) = key))
OldRowHolds(table, key) == \E d \in Day : table[d] # NoRow /\ table[d].key = NoKey /\ Holds(table[d], key)
CoveredBut(removed, table, e) ==
    \/ \E d \in Day \ removed : Holds(table[d], e.key)
    \/ e.due \notin removed /\ table[e.due] # NoRow

\* What a request planned and what it leaves cover its dates, and it planned what has the period of a row it removed.
PlanCovers(q, table) ==
    q.pc = "planned" => \A e \in Dated(q.new, q.day) : e \in q.plan \/ CoveredBut(q.removed, table, e)
PlanRefills(q, table) ==
    q.pc = "planned" =>
        \A e \in Dated(q.new, q.day) : \A d \in q.removed :
            table[d].key = e.key => e \in q.plan \/ OldRowHolds(table, e.key)

\* Old rows are never removed, and pausing leaves the rule alone.
OldRowsStay == \A d \in Day : rows[d] # NoRow /\ rows[d].key = NoKey => rows[d].amount = TRUE
PausesOK == \A r \in Req : req[r].pc = "pausing" => SameSchedule(req[r].old, req[r].new)
CoversOK ==
    OnePerPeriod /\ InCalendar /\ ~crossed /\ item # Gone =>
        /\ \A r \in Req : PlanCovers(req[r], rows) /\ PlanRefills(req[r], rows)
        /\ fresh => \A e \in Dated(item, today) : CoveredBut({}, rows, e)
CoverInv == GenInv /\ OldRowsStay /\ PausesOK /\ CoversOK

LEMMA TakenHolds ==
  ASSUME NEW s, NEW asOf, NEW e \in EntriesOf(s, asOf), NEW row, row # NoRow
  PROVE  e.key \in RowPeriod(s.rule.kind, row) <=> Holds(row, e.key)
<1>1. e.key[1] = KeyFormat(s.rule.kind) /\ e.key # NoKey
  BY EntriesKeyed
<1>2. CASE row.key = NoKey
  BY <1>1, <1>2 DEF RowPeriod, Holds
<1>3. CASE row.key # NoKey
  BY <1>1, <1>3 DEF RowPeriod, Holds
<1> QED BY <1>2, <1>3

LEMMA DatesInCalendar ==
  ASSUME InCalendar, NEW s \in Schedules, NEW asOf \in Days, NEW e \in Dated(s, asOf)
  PROVE  e.due \in Day
<1>1. asOf + Horizon \in 0 .. MaxToday + Horizon
  BY GenerationAssumption DEF Days
<1> QED BY <1>1 DEF InCalendar, Dated, EntriesOf

LEMMA CoverInitInv == GenInit => CoverInv
<1> SUFFICES ASSUME GenInit PROVE CoverInv
  OBVIOUS
<1>1. PICK old \in SUBSET Legacy : rows = [d \in Day |-> IF d \in old THEN LegacyRow(d) ELSE NoRow]
  BY DEF GenInit
<1>2. OldRowsStay
  BY <1>1 DEF OldRowsStay, LegacyRow
<1>3. \A r \in Req : req[r].pc = "idle"
  BY DEF GenInit, Idle
<1>4. fresh = FALSE
  BY DEF GenInit
<1>5. PausesOK
  BY <1>3 DEF PausesOK
<1>6. CoversOK
  BY <1>3, <1>4 DEF CoversOK, PlanCovers, PlanRefills
<1> QED BY <1>2, <1>5, <1>6, GenInitInv DEF CoverInv

\* A step that leaves the tables alone and plans nothing.
LEMMA QuietCover ==
  ASSUME CoverInv, GenInv', UNCHANGED <<item, rows, crossed>>, fresh' => fresh /\ today' = today,
         \A r \in Req : \/ req'[r] = req[r]
                        \/ /\ req'[r].pc # "planned"
                           /\ req'[r].pc = "pausing" => SameSchedule(req'[r].old, req'[r].new)
  PROVE  CoverInv'
<1>1. OldRowsStay'
  BY DEF CoverInv, OldRowsStay
<1>2. PausesOK'
  BY DEF CoverInv, PausesOK
<1>3. CoversOK'
  <2> SUFFICES ASSUME OnePerPeriod, InCalendar, ~crossed, item # Gone
               PROVE  /\ \A r \in Req : PlanCovers(req'[r], rows) /\ PlanRefills(req'[r], rows)
                      /\ fresh' => \A e \in Dated(item, today') : CoveredBut({}, rows, e)
    BY DEF CoversOK
  <2>1. /\ \A r \in Req : PlanCovers(req[r], rows) /\ PlanRefills(req[r], rows)
        /\ fresh => \A e \in Dated(item, today) : CoveredBut({}, rows, e)
    BY DEF CoverInv, CoversOK
  <2>2. \A r \in Req : PlanCovers(req'[r], rows) /\ PlanRefills(req'[r], rows)
    BY <2>1 DEF PlanCovers, PlanRefills
  <2> QED BY <2>1, <2>2
<1> QED BY <1>1, <1>2, <1>3 DEF CoverInv

LEMMA QuietCovers ==
  ASSUME CoverInv, GenInv',
         \/ UNCHANGED gvars \/ Tick
         \/ \E r \in Req : \/ \E b \in Bodies : UpdateItem(r, b) \/ EditBill(r, b) \/ UpdateBill(r, b)
                           \/ BeginToggle(r) \/ BeginTopUp(r) \/ LoadTopUp(r) \/ BeginDelete(r) \/ RollBack(r) \/ Clear(r)
  PROVE  CoverInv'
<1>0. req = [o \in Req |-> req[o]]
  BY DEF CoverInv, GenInv, Tables
<1>1. CASE UNCHANGED gvars
  BY <1>1, QuietCover DEF gvars
<1>2. CASE Tick
  BY <1>2, QuietCover DEF Tick
<1>3. CASE \E r \in Req : \/ \E b \in Bodies : UpdateItem(r, b) \/ EditBill(r, b) \/ UpdateBill(r, b)
                          \/ BeginToggle(r) \/ BeginTopUp(r) \/ LoadTopUp(r) \/ BeginDelete(r) \/ RollBack(r) \/ Clear(r)
  <2>1. PICK r \in Req : \/ \E b \in Bodies : UpdateItem(r, b) \/ EditBill(r, b) \/ UpdateBill(r, b)
                         \/ BeginToggle(r) \/ BeginTopUp(r) \/ LoadTopUp(r) \/ BeginDelete(r) \/ RollBack(r) \/ Clear(r)
    BY <1>3
  <2>2. UNCHANGED <<item, rows, crossed, fresh, today>>
    BY <2>1 DEF UpdateItem, EditBill, UpdateBill, Edit, BeginToggle, BeginTopUp, LoadTopUp, BeginDelete, RollBack, Clear
  <2>3. /\ \A o \in Req \ {r} : req'[o] = req[o]
        /\ req'[r].pc # "planned" /\ (req'[r].pc = "pausing" => SameSchedule(req'[r].old, req'[r].new))
    <3>1. CASE \E b \in Bodies : UpdateItem(r, b) \/ EditBill(r, b) \/ UpdateBill(r, b)
      BY <1>0, <3>1 DEF UpdateItem, EditBill, UpdateBill, Edit, Began
    <3>2. CASE BeginToggle(r)
      <4>1. item \in Schedules
        BY <3>2 DEF BeginToggle, CoverInv, GenInv, Tables
      <4> QED BY <1>0, <3>2, <4>1 DEF BeginToggle, Began, SameSchedule, Schedules
    <3>3. CASE BeginTopUp(r)
      BY <1>0, <3>3 DEF BeginTopUp
    <3>4. CASE LoadTopUp(r)
      BY <1>0, <3>4 DEF LoadTopUp, Idle
    <3>5. CASE BeginDelete(r)
      BY <1>0, <3>5 DEF BeginDelete, Began
    <3>6. CASE RollBack(r)
      BY <1>0, <3>6 DEF RollBack, Idle
    <3>7. CASE Clear(r)
      BY <1>0, <3>7 DEF Clear
    <3> QED BY <2>1, <3>1, <3>2, <3>3, <3>4, <3>5, <3>6, <3>7
  <2> QED BY <2>2, <2>3, QuietCover
<1> QED BY <1>1, <1>2, <1>3

\* Pausing changes the flag of the item alone.
LEMMA PauseCovers == \A r \in Req : CoverInv /\ GenInv' /\ CommitPause(r) => CoverInv'
<1> SUFFICES ASSUME NEW r \in Req, CoverInv, GenInv', CommitPause(r) PROVE CoverInv'
  OBVIOUS
<1>0. Tables
  BY DEF CoverInv, GenInv
<1>1. req' = [req EXCEPT ![r] = Idle] /\ UNCHANGED <<rows, crossed, today, fresh>> /\ req[r].pc = "pausing"
  BY DEF CommitPause
<1>2. req'[r] = Idle /\ \A o \in Req \ {r} : req'[o] = req[o]
  BY <1>0, <1>1 DEF Tables
<1>3. req[r].old \in Schedules /\ req[r].new \in Schedules /\ SameSchedule(req[r].old, req[r].new)
  BY <1>0, <1>1, ReqKinds DEF CoverInv, PausesOK, Tables, LoadedReq
<1>4. item' # Gone => item # Gone /\ SameSchedule(item, item')
  <2> SUFFICES ASSUME item' # Gone PROVE item # Gone /\ SameSchedule(item, item')
    OBVIOUS
  <2>1. item # Gone /\ item' = Written(req[r].old, req[r].new, item) /\ item \in Schedules
    BY <1>0 DEF CommitPause, Tables
  <2> QED BY <1>3, <2>1 DEF Written, SameSchedule, Schedules
<1>5. OldRowsStay' /\ PausesOK'
  BY <1>1, <1>2 DEF CoverInv, OldRowsStay, PausesOK, Idle
<1>6. CoversOK'
  <2> SUFFICES ASSUME OnePerPeriod, InCalendar, ~crossed, item' # Gone
               PROVE  /\ \A o \in Req : PlanCovers(req'[o], rows) /\ PlanRefills(req'[o], rows)
                      /\ fresh => \A e \in Dated(item', today) : CoveredBut({}, rows, e)
    BY <1>1 DEF CoversOK
  <2>1. /\ \A o \in Req : PlanCovers(req[o], rows) /\ PlanRefills(req[o], rows)
        /\ fresh => \A e \in Dated(item, today) : CoveredBut({}, rows, e)
    BY <1>4 DEF CoverInv, CoversOK
  <2>2. Dated(item', today) = Dated(item, today)
    BY <1>4 DEF Dated, EntriesOf, SameSchedule
  <2>3. \A o \in Req : PlanCovers(req'[o], rows) /\ PlanRefills(req'[o], rows)
    BY <1>2, <2>1 DEF PlanCovers, PlanRefills, Idle
  <2> QED BY <2>1, <2>2, <2>3
<1> QED BY <1>5, <1>6 DEF CoverInv

\* A deletion takes item and entries, or nothing.
LEMMA DeleteCovers == \A r \in Req : CoverInv /\ GenInv' /\ CommitDelete(r) => CoverInv'
<1> SUFFICES ASSUME NEW r \in Req, CoverInv, GenInv', CommitDelete(r) PROVE CoverInv'
  OBVIOUS
<1>0. Tables
  BY DEF CoverInv, GenInv
<1>1. req' = [req EXCEPT ![r] = Idle] /\ UNCHANGED <<crossed, today, fresh>>
  BY DEF CommitDelete
<1>2. req'[r] = Idle /\ \A o \in Req \ {r} : req'[o] = req[o]
  BY <1>0, <1>1 DEF Tables
<1>3. CASE UNCHANGED <<item, rows>>
  BY <1>1, <1>2, <1>3, QuietCover DEF Idle
<1>4. CASE item' = Gone /\ rows' = [d \in Day |-> NoRow]
  BY <1>2, <1>4 DEF CoverInv, OldRowsStay, PausesOK, CoversOK, Idle
<1> QED BY <1>3, <1>4 DEF CommitDelete

\* A tap leaves a row where it is and its period too.
LEMMA TapCovers == CoverInv /\ GenInv' /\ Taps => CoverInv'
<1> SUFFICES ASSUME CoverInv, GenInv', Taps PROVE CoverInv'
  OBVIOUS
<1>0. Tables
  BY DEF CoverInv, GenInv
<1>1. UNCHANGED <<item, req, today, crossed, fresh>>
  BY <1>0, TapChanges DEF Taps, Skip, SetAmount, Pay, Undo, Tap
<1>2. PICK d \in Day : /\ rows[d] # NoRow /\ rows' = [rows EXCEPT ![d] = rows'[d]]
                       /\ RowOK(rows'[d]) /\ Touched(rows[d], rows'[d])
  BY <1>0, TapChanges
<1>3. \A x \in Day : \/ rows'[x] = rows[x]
                     \/ rows[x] # NoRow /\ rows'[x] # NoRow /\ Touched(rows[x], rows'[x])
  BY <1>0, <1>2, RowsApart DEF Tables
<1>4. OldRowsStay'
  BY <1>3 DEF CoverInv, OldRowsStay, Touched
<1>5. PausesOK'
  BY <1>1 DEF CoverInv, PausesOK
<1>6. \A key : \A x \in Day : Holds(rows[x], key) <=> Holds(rows'[x], key)
  BY <1>3 DEF Holds, Touched
<1>7. \A x \in Day : rows[x] # NoRow => rows'[x] # NoRow /\ rows'[x].key = rows[x].key
  BY <1>3 DEF Touched
<1>8. CoversOK'
  <2> SUFFICES ASSUME OnePerPeriod, InCalendar, ~crossed, item # Gone
               PROVE  /\ \A o \in Req : PlanCovers(req[o], rows') /\ PlanRefills(req[o], rows')
                      /\ fresh => \A e \in Dated(item, today) : CoveredBut({}, rows', e)
    BY <1>1 DEF CoversOK
  <2>1. /\ \A o \in Req : PlanCovers(req[o], rows) /\ PlanRefills(req[o], rows)
        /\ fresh => \A e \in Dated(item, today) : CoveredBut({}, rows, e)
    BY DEF CoverInv, CoversOK
  <2>2. \A s \in Schedules, asOf \in Days : \A e \in Dated(s, asOf) : e.due \in Day
    BY DatesInCalendar
  <2>3. \A removed : \A s \in Schedules, asOf \in Days : \A e \in Dated(s, asOf) :
           CoveredBut(removed, rows, e) => CoveredBut(removed, rows', e)
    BY <1>6, <1>7, <2>2 DEF CoveredBut
  <2>4. \A key : OldRowHolds(rows, key) => OldRowHolds(rows', key)
    BY <1>6, <1>7 DEF OldRowHolds
  <2>5. ASSUME NEW o \in Req, req[o].pc = "planned" PROVE PlanCovers(req[o], rows') /\ PlanRefills(req[o], rows')
    <3>1. req[o] \in PlannedReq
      BY <1>0, <2>5, ReqKinds DEF Tables
    <3>2. req[o].new \in Schedules /\ req[o].day \in Days /\ req[o].removed \subseteq Day
      BY <3>1 DEF PlannedReq
    <3>3. PlanCovers(req[o], rows')
      BY <2>1, <2>3, <3>2 DEF PlanCovers
    <3>4. \A x \in req[o].removed : rows[x] # NoRow
      <4>1. Locked(o) = req[o].removed
        BY <1>0, <2>5, LockedIsRem DEF Rem
      <4> QED BY <4>1 DEF CoverInv, GenInv, LocksOK, Free
    <3>5. PlanRefills(req[o], rows')
      BY <1>7, <2>1, <2>4, <3>2, <3>4 DEF PlanRefills
    <3> QED BY <3>3, <3>5
  <2>6. fresh => \A e \in Dated(item, today) : CoveredBut({}, rows', e)
    BY <1>0, <2>1, <2>3 DEF Tables
  <2>7. \A o \in Req : PlanCovers(req[o], rows') /\ PlanRefills(req[o], rows')
    BY <2>5 DEF PlanCovers, PlanRefills
  <2> QED BY <2>6, <2>7
<1> QED BY <1>4, <1>5, <1>8 DEF CoverInv

\* A new item gets every date of its rule.
LEMMA CreateCovers ==
  ASSUME CoverInv, GenInv', NEW body \in Bodies, NEW past, Created(body, past)
  PROVE  CoverInv'
<1> DEFINE plan == Missing(body, rows, today, past)
<1>0. Tables /\ body \in Schedules /\ today \in Days
  BY GenerationAssumption DEF CoverInv, GenInv, Tables
<1>1. /\ item = Gone /\ Open = {} /\ item' = body /\ UNCHANGED <<req, today, touches, crossed>>
      /\ rows' = [d \in Day |-> IF \E e \in plan : e.due = d THEN NewRow(CHOOSE e \in plan : e.due = d, today, past)
                                                             ELSE rows[d]]
  BY DEF Created
<1>2. \A d \in Day : rows[d] = NoRow
  BY <1>0, <1>1 DEF Tables
<1>3. plan \subseteq AllEntries
  <2>1. <<body, today>> \in Schedules \X Days /\ EntriesOf(<<body, today>>[1], <<body, today>>[2]) = EntriesOf(body, today)
    BY <1>0
  <2>2. EntriesOf(<<body, today>>[1], <<body, today>>[2]) \subseteq AllEntries
    BY <2>1 DEF AllEntries
  <2> QED BY <2>1, <2>2, MissingFacts
<1>4. OnePerPeriod /\ InCalendar => Dated(body, today) \subseteq plan
  <2> SUFFICES ASSUME OnePerPeriod, InCalendar, NEW e \in Dated(body, today) PROVE e \in plan
    OBVIOUS
  <2>1. today + Horizon \in 0 .. MaxToday + Horizon
    BY <1>0, GenerationAssumption DEF Days
  <2>2. Taken(body.rule.kind, rows) = {}
    BY <1>2 DEF Taken
  <2>3. e \in Entries(body.rule, body.start, body.end, body.total, today + Horizon) /\ e.due >= today
    BY DEF Dated, EntriesOf
  <2>4. \A o \in Entries(body.rule, body.start, body.end, body.total, today + Horizon) : o.key = e.key => o = e
    BY <1>0, <2>1, <2>3 DEF OnePerPeriod
  <2>5. e.due \in Int /\ today \in Int
    BY <1>0, DatesInCalendar DEF Day, Days
  <2>6. e.due <= e.due /\ ~(e.due < today)
    BY <2>3, <2>5
  <2> QED BY <2>2, <2>3, <2>4, <2>6 DEF Missing
<1> HIDE DEF plan
<1>5. \A d \in Day : (\E e \in plan : e.due = d) => rows'[d] # NoRow
  <2> SUFFICES ASSUME NEW d \in Day, \E e \in plan : e.due = d PROVE rows'[d] # NoRow
    OBVIOUS
  <2> DEFINE e == CHOOSE x \in plan : x.due = d
  <2>1. e \in plan
    OBVIOUS
  <2>2. rows'[d] = NewRow(e, today, past)
    BY <1>1
  <2> HIDE DEF e
  <2> QED BY <1>3, <2>1, <2>2, NewRowOK, RowsApart
<1>6. \A d \in Day : rows'[d] # NoRow => rows'[d].key # NoKey
  <2> SUFFICES ASSUME NEW d \in Day, \E e \in plan : e.due = d PROVE rows'[d].key # NoKey
    BY <1>1, <1>2
  <2> DEFINE e == CHOOSE x \in plan : x.due = d
  <2>1. e \in plan
    OBVIOUS
  <2>2. rows'[d] = NewRow(e, today, past)
    BY <1>1
  <2> HIDE DEF e
  <2> QED BY <1>3, <2>1, <2>2, NewRowOK
<1>7. OldRowsStay'
  BY <1>6 DEF OldRowsStay
<1>8. \A r \in Req : req'[r].pc = "idle"
  BY <1>1 DEF Open
<1>9. PausesOK'
  BY <1>8 DEF PausesOK
<1>10. CoversOK'
  <2> SUFFICES ASSUME OnePerPeriod, InCalendar, NEW e \in Dated(body, today) PROVE CoveredBut({}, rows', e)
    BY <1>1, <1>8 DEF CoversOK, PlanCovers, PlanRefills
  <2>1. e \in plan /\ e.due \in Day
    BY <1>0, <1>4, DatesInCalendar
  <2> QED BY <1>5, <2>1 DEF CoveredBut
<1> QED BY <1>7, <1>9, <1>10 DEF CoverInv

\* A plan has the dates whose period no row has that stays, so also those of the rows that the request removed.
LEMMA PlanStepCovers == \A r \in Req : CoverInv /\ GenInv' /\ Plan(r) => CoverInv'
<1> SUFFICES ASSUME NEW r \in Req, CoverInv, GenInv', Plan(r) PROVE CoverInv'
  OBVIOUS
<1> DEFINE p == req[r]
           removed == Locked(r)
           asOf == IF p.kind = "top_up" THEN p.day ELSE today
           seen == [d \in Day |-> IF d \in removed THEN NoRow ELSE rows[d]]
           plan == Missing(p.new, seen, asOf, Past(p.kind))
           q == [pc |-> "planned", kind |-> p.kind, old |-> p.old, new |-> p.new, holds |-> p.new # p.old,
                 removed |-> removed, day |-> asOf, plan |-> plan]
<1>0. Tables /\ LocksOK /\ PeriodsOK
  BY DEF CoverInv, GenInv
<1>1. req' = [req EXCEPT ![r] = q] /\ UNCHANGED <<item, rows, crossed, touches, today, fresh>>
  BY DEF Plan
<1>2. req'[r] = q /\ \A o \in Req \ {r} : req'[o] = req[o]
  BY <1>0, <1>1 DEF Tables
<1>3. q.pc = "planned" /\ q.plan = plan /\ q.removed = removed /\ q.new = p.new /\ q.day = asOf
  OBVIOUS
<1>4. req'[r] \in PlannedReq
  BY <1>2, <1>3, ReqKinds DEF GenInv, Tables
<1>5. p.new \in Schedules /\ asOf \in Days /\ removed \subseteq Day
  BY <1>2, <1>3, <1>4 DEF PlannedReq
<1> HIDE DEF q, p, removed, asOf, seen
<1>6. \A d \in Day : \/ d \in removed /\ seen[d] = NoRow
                     \/ d \notin removed /\ seen[d] = rows[d]
  BY DEF seen
<1>7. ASSUME OnePerPeriod, InCalendar, NEW e \in Dated(p.new, asOf), e \notin plan
      PROVE  \E d \in Day \ removed : Holds(rows[d], e.key)
  <2>1. asOf + Horizon \in 0 .. MaxToday + Horizon
    BY <1>5, GenerationAssumption DEF Days
  <2>2. e \in EntriesOf(p.new, asOf) /\ e.due >= asOf
    BY <1>7 DEF Dated
  <2>3. \A o \in EntriesOf(p.new, asOf) : o.key = e.key => o = e
    BY <1>5, <1>7, <2>1, <2>2 DEF OnePerPeriod, EntriesOf
  <2>4. e.key \in Taken(p.new.rule.kind, seen)
    <3>1. e.due \in Int /\ asOf \in Int
      BY <1>5, <1>7, DatesInCalendar DEF Day, Days
    <3>2. e.due <= e.due /\ ~(e.due < asOf)
      BY <2>2, <3>1
    <3> QED BY <1>7, <2>2, <2>3, <3>2 DEF Missing, EntriesOf
  <2>5. PICK d \in Day : seen[d] # NoRow /\ e.key \in RowPeriod(p.new.rule.kind, seen[d])
    BY <2>4 DEF Taken
  <2>6. d \notin removed /\ seen[d] = rows[d]
    BY <1>6, <2>5
  <2> QED BY <2>2, <2>5, <2>6, TakenHolds
<1> HIDE DEF plan
<1>8. OldRowsStay' /\ PausesOK'
  BY <1>1, <1>2, <1>3 DEF CoverInv, OldRowsStay, PausesOK
<1>9. CoversOK'
  <2> SUFFICES ASSUME OnePerPeriod, InCalendar, ~crossed, item # Gone
               PROVE  /\ \A o \in Req : PlanCovers(req'[o], rows) /\ PlanRefills(req'[o], rows)
                      /\ fresh => \A e \in Dated(item, today) : CoveredBut({}, rows, e)
    BY <1>1 DEF CoversOK
  <2>1. /\ \A o \in Req : PlanCovers(req[o], rows) /\ PlanRefills(req[o], rows)
        /\ fresh => \A e \in Dated(item, today) : CoveredBut({}, rows, e)
    BY DEF CoverInv, CoversOK
  <2>2. PlanCovers(q, rows)
    BY <1>3, <1>7 DEF PlanCovers, CoveredBut
  <2>3. ASSUME NEW e \in Dated(p.new, asOf), NEW d \in removed, rows[d].key = e.key, e \notin plan
        PROVE  OldRowHolds(rows, e.key)
    <3>1. PICK x \in Day \ removed : Holds(rows[x], e.key)
      BY <1>7, <2>3
    <3>2. rows[d] # NoRow /\ d \in Day /\ d # x
      BY <1>0, <1>5, <2>3 DEF LocksOK, Free, removed
    <3>3. e.key # NoKey
      BY EntriesKeyed DEF Dated
    <3>4. rows[x].key # e.key
      BY <1>0, <2>3, <3>1, <3>2, <3>3 DEF PeriodsOK, KeysApart, Holds
    <3> QED BY <3>1, <3>4 DEF OldRowHolds, Holds
  <2>4. PlanRefills(q, rows)
    BY <1>3, <2>3 DEF PlanRefills
  <2> QED BY <1>2, <2>1, <2>2, <2>4
<1> QED BY <1>8, <1>9 DEF CoverInv

\* What a commit does to the rows: it keeps those it did not remove, and every date of its plan has one.
LEMMA CommitFacts ==
  ASSUME GenInv, GenInv', NEW r \in Req, Commit(r), item # Gone
  PROVE  LET q == req[r] IN
         /\ q \in PlannedReq /\ q.pc = "planned" /\ Locked(r) = q.removed
         /\ item' = Written(q.old, q.new, item) /\ item' \in Schedules
         /\ \A d \in Day \ q.removed : rows[d] # NoRow => rows'[d] = rows[d]
         /\ \A e \in q.plan : e.due \in Day => rows'[e.due] # NoRow
         /\ \A d \in Day : rows'[d] # NoRow => rows'[d] = rows[d] \/ rows'[d].key # NoKey
<1> DEFINE q == req[r]
           base == [d \in Day |-> IF d \in q.removed THEN NoRow ELSE rows[d]]
           put == {e \in q.plan : base[e.due] = NoRow}
<1>1. q \in PlannedReq /\ q.pc = "planned" /\ q.plan \subseteq AllEntries
  BY ReqKinds DEF Commit, GenInv, Tables, PlannedReq
<1>2. Locked(r) = q.removed
  BY <1>1, LockedIsRem DEF GenInv, Rem
<1>3. /\ item' = Written(q.old, q.new, item)
      /\ rows' = [d \in Day |-> IF \E e \in put : e.due = d THEN NewRow(CHOOSE e \in put : e.due = d, q.day, Past(q.kind))
                                                            ELSE base[d]]
  BY DEF Commit
<1>4. item' \in Schedules
  BY <1>1, <1>3, WrittenType DEF GenInv, Tables, PlannedReq
<1>5. \A d \in Day : base[d] = IF d \in q.removed THEN NoRow ELSE rows[d]
  OBVIOUS
<1>6. \A e \in q.plan : e \notin put => base[e.due] # NoRow
  OBVIOUS
<1>7. \A e \in put : e \in q.plan /\ base[e.due] = NoRow
  OBVIOUS
<1> HIDE DEF base, put
<1>8. \A d \in Day : \/ (\A e \in put : e.due # d) /\ rows'[d] = base[d]
                     \/ (\E e \in put : e.due = d) /\ rows'[d] # NoRow /\ rows'[d].key # NoKey
  <2> TAKE d \in Day
  <2> DEFINE e == CHOOSE x \in put : x.due = d
  <2>1. CASE \E x \in put : x.due = d
    <3>1. e \in put
      BY <2>1
    <3>2. rows'[d] = NewRow(e, q.day, Past(q.kind))
      BY <1>3, <2>1
    <3> HIDE DEF e
    <3> QED BY <1>1, <1>7, <2>1, <3>1, <3>2, NewRowOK, RowsApart
  <2>2. CASE ~\E x \in put : x.due = d
    BY <1>3, <2>2
  <2> QED BY <2>1, <2>2
<1>9. \A d \in Day \ q.removed : rows[d] # NoRow => rows'[d] = rows[d]
  BY <1>5, <1>7, <1>8
<1>10. \A e \in q.plan : e.due \in Day => rows'[e.due] # NoRow
  BY <1>6, <1>8
<1>11. \A d \in Day : rows'[d] # NoRow => rows'[d] = rows[d] \/ rows'[d].key # NoKey
  BY <1>5, <1>8
<1> QED BY <1>1, <1>2, <1>3, <1>4, <1>9, <1>10, <1>11

\* A commit makes its own dates covered, and another request with the same dates that is planned stays covered: a row
\* it counted on that the commit removes is planned again by it, and its own date is free to have one.
LEMMA CommitCovers == \A r \in Req : CoverInv /\ GenInv' /\ Commit(r) => CoverInv'
<1> SUFFICES ASSUME NEW r \in Req, CoverInv, GenInv', Commit(r) PROVE CoverInv'
  OBVIOUS
<1> DEFINE q == req[r]
<1>0. Tables /\ LocksOK /\ PeriodsOK /\ OldRowsStay /\ PausesOK /\ GenInv
  BY DEF CoverInv, GenInv
<1>1. req' = [req EXCEPT ![r] = Idle] /\ UNCHANGED <<touches, today>>
  BY DEF Commit
<1>2. req'[r] = Idle /\ \A o \in Req \ {r} : req'[o] = req[o]
  BY <1>0, <1>1 DEF Tables
<1>3. CASE item = Gone
  <2>1. UNCHANGED <<item, rows, crossed, fresh>>
    BY <1>3 DEF Commit
  <2> QED BY <1>1, <1>2, <2>1, QuietCover DEF Idle
<1>4. CASE item # Gone
  <2>1. /\ q \in PlannedReq /\ q.pc = "planned" /\ Locked(r) = q.removed
        /\ item' = Written(q.old, q.new, item) /\ item' \in Schedules
        /\ \A d \in Day \ q.removed : rows[d] # NoRow => rows'[d] = rows[d]
        /\ \A e \in q.plan : e.due \in Day => rows'[e.due] # NoRow
        /\ \A d \in Day : rows'[d] # NoRow => rows'[d] = rows[d] \/ rows'[d].key # NoKey
    BY <1>0, <1>4, CommitFacts
  <2>2. /\ crossed' = (crossed \/ \E o \in Req \ {r} : /\ req[o].pc = "planned"
                                                      /\ \/ ~SameSchedule(req[o].new, q.new)
                                                         \/ req[o].day # q.day)
        /\ fresh' = IF SameSchedule(q.new, item') /\ q.day = today THEN TRUE
                    ELSE fresh /\ q.removed = {} /\ item' = item
        /\ \A e \in q.plan : e.due \notin LockedRows(Req \ {r})
    BY <1>4 DEF Commit
  <2>3. q.new \in Schedules /\ q.day \in Days /\ q.removed \subseteq Day
    BY <2>1 DEF PlannedReq
  <2> HIDE DEF q
  <2>4. OldRowsStay'
    BY <1>0, <2>1 DEF OldRowsStay
  <2>5. PausesOK'
    BY <1>0, <1>2 DEF PausesOK, Idle
  <2>6. ASSUME OnePerPeriod, InCalendar, ~crossed'
        PROVE  /\ \A o \in Req : PlanCovers(req'[o], rows') /\ PlanRefills(req'[o], rows')
               /\ fresh' => \A e \in Dated(item', today) : CoveredBut({}, rows', e)
    <3>1. /\ \A o \in Req : PlanCovers(req[o], rows) /\ PlanRefills(req[o], rows)
          /\ fresh => \A e \in Dated(item, today) : CoveredBut({}, rows, e)
      BY <1>4, <2>2, <2>6 DEF CoverInv, CoversOK
    <3>2. \A s \in Schedules, asOf \in Days : \A e \in Dated(s, asOf) : e.due \in Day
      BY <2>6, DatesInCalendar
    <3>3. \A d \in Day \ q.removed : \A key : Holds(rows[d], key) => Holds(rows'[d], key)
      BY <2>1 DEF Holds
    <3>4. \A d \in Day : rows[d] # NoRow /\ rows[d].key = NoKey => d \notin q.removed
      BY <1>0, <2>1 DEF OldRowsStay, LocksOK, Free
    <3>5. \A key : OldRowHolds(rows, key) => OldRowHolds(rows', key)
      BY <2>1, <3>4 DEF OldRowHolds
    <3>6. ASSUME fresh', NEW e \in Dated(item', today) PROVE CoveredBut({}, rows', e)
      <4>1. CASE SameSchedule(q.new, item') /\ q.day = today
        <5>1. Dated(item', today) = Dated(q.new, q.day)
          BY <4>1 DEF Dated, EntriesOf, SameSchedule
        <5>2. e \in Dated(q.new, q.day) /\ e.due \in Day
          BY <2>3, <3>2, <3>6, <5>1
        <5>3. e \in q.plan \/ CoveredBut(q.removed, rows, e)
          BY <2>1, <3>1, <5>2 DEF PlanCovers, q
        <5> QED BY <2>1, <3>3, <5>2, <5>3 DEF CoveredBut
      <4>2. CASE ~(SameSchedule(q.new, item') /\ q.day = today)
        <5>1. fresh /\ q.removed = {} /\ item' = item
          BY <2>2, <3>6, <4>2
        <5>2. CoveredBut({}, rows, e) /\ e.due \in Day
          BY <1>0, <1>4, <3>1, <3>2, <3>6, <5>1 DEF Tables
        <5> QED BY <2>1, <3>3, <5>1, <5>2 DEF CoveredBut
      <4> QED BY <4>1, <4>2
    <3>7. ASSUME NEW o \in Req \ {r}, req[o].pc = "planned" PROVE PlanCovers(req[o], rows') /\ PlanRefills(req[o], rows')
      <4> DEFINE p == req[o]
      <4>1. p \in PlannedReq /\ Locked(o) = p.removed
        BY <1>0, <3>7, ReqKinds, LockedIsRem DEF Tables, Rem
      <4>2. p.removed \subseteq Day /\ p.removed \cap q.removed = {} /\ \A d \in p.removed : rows[d] # NoRow
        BY <1>0, <2>1, <4>1 DEF PlannedReq, LocksOK, Free
      <4>3. p.removed \subseteq LockedRows(Req \ {r})
        BY <4>1 DEF LockedRows
      <4>4. Dated(p.new, p.day) = Dated(q.new, q.day)
        <5>1. SameSchedule(p.new, q.new) /\ p.day = q.day
          BY <2>2, <2>6, <3>7
        <5> QED BY <5>1 DEF SameSchedule, Dated, EntriesOf
      <4>5. PlanCovers(p, rows) /\ PlanRefills(p, rows) /\ PlanCovers(q, rows) /\ PlanRefills(q, rows)
        BY <3>1 DEF q
      <4>6. p.pc = "planned"
        BY <3>7
      <4>7. \A d \in Day : rows[d] # NoRow /\ rows[d].key = NoKey => d \notin p.removed
        BY <1>0, <4>1 DEF OldRowsStay, LocksOK, Free
      <4> HIDE DEF p
      <4>8. ASSUME NEW e \in Dated(p.new, p.day), e \notin p.plan PROVE CoveredBut(p.removed, rows', e)
        <5>1. e.due \in Day /\ e \in Dated(q.new, q.day)
          BY <2>3, <3>2, <4>4, <4>8
        \* A date that the other request plans is not one this one removed.
        <5>2. CASE e \in q.plan
          <6>1. e.due \notin p.removed /\ rows'[e.due] # NoRow
            BY <2>1, <2>2, <4>3, <5>1, <5>2
          <6> QED BY <6>1 DEF CoveredBut
        <5>3. CASE OldRowHolds(rows, e.key)
          <6>1. PICK d \in Day : rows[d] # NoRow /\ rows[d].key = NoKey /\ Holds(rows[d], e.key)
            BY <5>3 DEF OldRowHolds
          <6>2. d \notin p.removed /\ Holds(rows'[d], e.key)
            BY <3>3, <3>4, <4>7, <6>1
          <6> QED BY <6>2 DEF CoveredBut
        <5>4. CASE e \notin q.plan /\ ~OldRowHolds(rows, e.key)
          \* Neither of the two removed a row with the period.
          <6>1. \A d \in p.removed \cup q.removed : rows[d].key # e.key
            BY <4>5, <4>6, <4>8, <5>1, <5>4, <2>1 DEF PlanRefills
          <6>2. \A d \in Day : Holds(rows[d], e.key) => d \notin p.removed \cup q.removed /\ Holds(rows'[d], e.key)
            BY <3>3, <5>4, <6>1 DEF Holds, OldRowHolds
          <6>3. CASE \E d \in Day : Holds(rows[d], e.key)
            BY <6>2, <6>3 DEF CoveredBut
          <6>4. CASE ~\E d \in Day : Holds(rows[d], e.key)
            <7>1. CoveredBut(p.removed, rows, e) /\ CoveredBut(q.removed, rows, e)
              BY <2>1, <4>5, <4>6, <4>8, <5>1, <5>4 DEF PlanCovers
            <7>2. e.due \notin p.removed /\ e.due \notin q.removed /\ rows[e.due] # NoRow
              BY <6>4, <7>1 DEF CoveredBut
            <7>3. rows'[e.due] # NoRow
              BY <2>1, <5>1, <7>2
            <7> QED BY <7>2, <7>3 DEF CoveredBut
          <6> QED BY <6>3, <6>4
        <5> QED BY <5>2, <5>3, <5>4
      <4>9. PlanCovers(p, rows')
        BY <4>8 DEF PlanCovers
      <4>10. \A d \in p.removed : rows'[d] = rows[d]
        BY <2>1, <4>2
      <4>11. PlanRefills(p, rows')
        BY <3>5, <4>5, <4>10 DEF PlanRefills
      <4> QED BY <4>9, <4>11 DEF p
    <3>8. \A o \in Req : PlanCovers(req'[o], rows') /\ PlanRefills(req'[o], rows')
      BY <1>2, <3>7 DEF PlanCovers, PlanRefills, Idle
    <3> QED BY <3>6, <3>8
  <2>7. CoversOK'
    BY <1>1, <2>6 DEF CoversOK
  <2> QED BY <2>4, <2>5, <2>7 DEF CoverInv
<1> QED BY <1>3, <1>4

LEMMA CoverStep == CoverInv /\ [GenNext]_gvars => CoverInv'
<1> SUFFICES ASSUME CoverInv, [GenNext]_gvars PROVE CoverInv'
  OBVIOUS
<1>0. GenInv'
  BY GenStep DEF CoverInv
<1>1. CASE UNCHANGED gvars \/ Tick
  BY <1>0, <1>1, QuietCovers
<1>2. CASE \E b \in Bodies : CreateItem(b) \/ CreateBill(b)
  BY <1>0, <1>2, CreateCovers DEF CreateItem, CreateBill
<1>3. CASE Taps
  BY <1>0, <1>3, TapCovers
<1>4. CASE \E r \in Req : \/ \E b \in Bodies : UpdateItem(r, b) \/ EditBill(r, b) \/ UpdateBill(r, b)
                          \/ BeginToggle(r) \/ BeginTopUp(r) \/ LoadTopUp(r) \/ BeginDelete(r) \/ RollBack(r) \/ Clear(r)
  BY <1>0, <1>4, QuietCovers
<1>5. CASE \E r \in Req : Plan(r) \/ Commit(r) \/ CommitPause(r) \/ CommitDelete(r)
  BY <1>0, <1>5, PlanStepCovers, CommitCovers, PauseCovers, DeleteCovers
<1> QED BY <1>1, <1>2, <1>3, <1>4, <1>5 DEF GenNext, Taps

\* Nothing is dropped: after an edit, a resume or the night's top-up every date of the stored rule from today to the
\* horizon has an entry in its period or on its day, also when requests of one schedule and day overlap, each removing
\* rows that the other counted on (generate_occurrences).
THEOREM EveryDateCovered ==
  ASSUME OnePerPeriod, InCalendar
  PROVE  GenSpec => []Covered
<1>1. CoverInv => Covered
  <2> SUFFICES ASSUME CoverInv, fresh, ~crossed, item # Gone,
                      NEW e \in Entries(item.rule, item.start, item.end, item.total, today + Horizon), e.due >= today
               PROVE  rows[e.due] # NoRow \/ e.key \in Taken(item.rule.kind, rows)
    BY DEF Covered
  <2>1. e \in Dated(item, today) /\ e \in EntriesOf(item, today)
    BY DEF Dated, EntriesOf
  <2>2. CoveredBut({}, rows, e)
    BY <2>1 DEF CoverInv, CoversOK
  <2>3. ASSUME NEW d \in Day, Holds(rows[d], e.key) PROVE e.key \in Taken(item.rule.kind, rows)
    <3>1. e.key \in RowPeriod(item.rule.kind, rows[d]) /\ rows[d] # NoRow
      BY <2>1, <2>3, TakenHolds DEF Holds
    <3> QED BY <3>1 DEF Taken
  <2> QED BY <2>2, <2>3 DEF CoveredBut
<1> QED BY <1>1, CoverInitInv, CoverStep, PTL DEF GenSpec

(***************************************************************************)
(* The daily job pushes a notification once.                               *)
(***************************************************************************)
RunRow == [pc : {"load", "stage", "price", "done"}, today : Nat, stage : Nat,
           todo : SUBSET Pair, pending : SUBSET Pair, at : Pair \cup {None},
           cur : Reminder \cup {None}, fetch : [product : Product, seen : BOOLEAN] \cup {None},
           items : SUBSET Product, misses : Nat, owed : SUBSET Pair]

JobTypes ==
    /\ run \in [Run -> {Off} \cup RunRow] /\ day \in Nat
    /\ notes \subseteq Pair /\ lost \subseteq Pair /\ sent \in [Pair -> Nat]

\* A run only holds what its stage says, and no notification between stages; the
\* refresh of prices says nothing.
OfStage(q, p) == StageOf[p[1]] = JobStages[q.stage]
RunOK(q) ==
    /\ q.pc \in {"load", "done"} => q.pending = {}
    /\ q.pc # "done" =>
          /\ \A p \in q.pending \cup q.todo : OfStage(q, p)
          /\ q.at # None => OfStage(q, q.at)
          /\ q.pc = "price" \/ q.items # {} => JobStages[q.stage] = "refresh"
RunsOK == \A r \in Run : Running(r) => RunOK(run[r])

\* What was pushed and not rolled back since is there, or in an open transaction.
Held(p) == p \in notes \/ \E r \in Run : p \in Pending(r)
PushedIsKept == \A p \in Pair : p \notin lost => sent[p] <= 1 /\ (sent[p] = 1 => Held(p))

JobInv == JobTypes /\ RunsOK /\ PushedIsKept

-----------------------------------------------------------------------------
LEMMA OffIsNot == Off.pc = "off" /\ \A q \in RunRow : q.pc # "off"
BY DEF Off, RunRow

\* A run that is under way has its row.
LEMMA RunningRow ==
  ASSUME JobInv, NEW r \in Run, run[r].pc # "off"
  PROVE  run[r] \in RunRow /\ RunOK(run[r]) /\ Pending(r) = run[r].pending /\ Running(r)
<1>1. run[r] \in {Off} \cup RunRow
  BY DEF JobInv, JobTypes
<1>2. run[r] \in RunRow
  BY <1>1, OffIsNot
<1> QED BY <1>2 DEF Pending, Running, JobInv, RunsOK

LEMMA Stages == Len(JobStages) = 10 /\ Busy \subseteq Nat
BY DEF JobStages, Busy

\* The next stage begins with empty hands.
LEMMA NextStageRow ==
  ASSUME NEW q \in RunRow, q.pending = {}
  PROVE  /\ NextStage(q) \in RunRow /\ RunOK(NextStage(q))
         /\ NextStage(q).pending = {}
<1> DEFINE left == {n \in Busy : n > q.stage}
<1>1. CASE left = {}
  <2>1. NextStage(q) = [q EXCEPT !.pc = "done"]
    BY <1>1 DEF NextStage
  <2>2. [q EXCEPT !.pc = "done"] \in RunRow /\ [q EXCEPT !.pc = "done"].pc = "done"
        /\ [q EXCEPT !.pc = "done"].pending = {}
    BY DEF RunRow
  <2> QED BY <2>1, <2>2 DEF RunOK
<1>2. CASE left # {}
  <2>1. left \in SUBSET Nat
    BY Stages
  <2> DEFINE n == CHOOSE m \in left : \A o \in left : m <= o
  <2>2. NextStage(q) = AtStage(q, n)
    BY <1>2 DEF NextStage
  <2>3. n \in Nat
    <3> HIDE DEF left
    <3>1. \E m \in left : \A o \in left : m <= o
      BY <1>2, <2>1, LeastNumber
    <3> QED BY <3>1, <2>1
  <2> HIDE DEF n
  <2>4. /\ AtStage(q, n) \in RunRow /\ AtStage(q, n).pending = {} /\ AtStage(q, n).todo = {}
        /\ AtStage(q, n).at = None /\ AtStage(q, n).items = {} /\ AtStage(q, n).pc = "load"
    BY <2>3 DEF AtStage, RunRow
  <2> QED BY <2>2, <2>4 DEF RunOK
<1> QED BY <1>1, <1>2

LEMMA JobInvInit == JobInit => JobInv
<1> SUFFICES ASSUME JobInit PROVE JobInv
  OBVIOUS
<1>1. JobTypes
  BY DEF JobInit, JobTypes
<1>2. RunsOK
  BY OffIsNot DEF JobInit, RunsOK, Running
<1>3. PushedIsKept
  BY DEF JobInit, PushedIsKept
<1> QED BY <1>1, <1>2, <1>3 DEF JobInv

\* One run goes on; what it held is still held, committed, or lost.
LEMMA OneRun ==
  ASSUME JobInv, NEW r \in Run, NEW q \in {Off} \cup RunRow, run' = [run EXCEPT ![r] = q],
         q # Off => RunOK(q),
         day' = day, notes \subseteq notes', notes' \subseteq Pair,
         lost \subseteq lost', lost' \subseteq Pair, sent' = sent,
         \A p \in Pending(r) : p \in notes' \/ p \in lost' \/ (q # Off /\ p \in q.pending)
  PROVE  JobInv'
<1>1. run'[r] = q /\ \A o \in Run \ {r} : run'[o] = run[o]
  BY DEF JobInv, JobTypes
<1>2. JobTypes'
  BY DEF JobInv, JobTypes
<1>3. q.pc = "off" <=> q = Off
  BY OffIsNot
<1>4. RunsOK'
  <2> SUFFICES ASSUME NEW o \in Run, run'[o].pc # "off" PROVE RunOK(run'[o])
    BY DEF RunsOK, Running, RunOK, OfStage
  <2>1. CASE o = r
    BY <2>1, <1>1, <1>3
  <2>2. CASE o # r
    BY <2>2, <1>1 DEF JobInv, RunsOK, Running
  <2> QED BY <2>1, <2>2
<1>5. PushedIsKept'
  <2> SUFFICES ASSUME NEW p \in Pair, p \notin lost', sent'[p] = 1 \/ ~(sent'[p] <= 1)
               PROVE  sent'[p] <= 1 /\ Held(p)'
    BY DEF PushedIsKept
  <2>1. p \notin lost /\ sent[p] <= 1 /\ Held(p)
    BY DEF JobInv, PushedIsKept
  <2>2. CASE p \in notes
    BY <2>1, <2>2 DEF Held
  <2>3. CASE \E o \in Run : p \in Pending(o)
    <3>1. PICK o \in Run : p \in Pending(o)
      BY <2>3
    <3>2. CASE o # r
      <4>1. p \in Pending(o)'
        BY <1>1, <3>1, <3>2 DEF Pending, Running
      <4> QED BY <4>1, <2>1 DEF Held
    <3>3. CASE o = r
      <4>1. p \in notes' \/ (q # Off /\ p \in q.pending)
        BY <3>1, <3>3
      <4>2. CASE p \in notes'
        BY <4>2, <2>1 DEF Held
      <4>3. CASE q # Off /\ p \in q.pending
        <5>1. p \in Pending(r)'
          BY <1>1, <1>3, <4>3 DEF Pending, Running
        <5> QED BY <5>1, <2>1 DEF Held
      <4> QED BY <4>1, <4>2, <4>3
    <3> QED BY <3>2, <3>3
  <2> QED BY <2>1, <2>2, <2>3 DEF Held
<1> QED BY <1>2, <1>4, <1>5 DEF JobInv
-----------------------------------------------------------------------------
(* The steps of a run.                                                       *)
LEMMA BeginKeeps ==
  ASSUME JobInv, NEW r \in Run, BeginRun(r)
  PROVE  JobInv'
<1> DEFINE q == [pc |-> "load", today |-> day, stage |-> 0, todo |-> {},
                 pending |-> {}, at |-> None, cur |-> None, fetch |-> None,
                 items |-> {}, misses |-> 0, owed |-> {}]
<1>1. /\ ~Running(r) /\ run' = [run EXCEPT ![r] = NextStage(q)]
      /\ UNCHANGED <<day, notes, sent, lost>>
  BY DEF BeginRun
<1>2. q \in RunRow /\ q.pending = {}
  BY DEF RunRow, JobInv, JobTypes
<1> HIDE DEF q
<1>3. NextStage(q) \in RunRow /\ RunOK(NextStage(q))
  BY <1>2, NextStageRow
<1>4. Pending(r) = {}
  BY <1>1 DEF Pending
<1> QED BY <1>1, <1>3, <1>4, OneRun DEF JobInv, JobTypes

LEMMA LoadKeeps ==
  ASSUME JobInv, NEW r \in Run, LoadStage(r)
  PROVE  JobInv'
<1> DEFINE w == Wanted(Stage(r), run[r].today)
           x == Stale(Stage(r))
           q == [run[r] EXCEPT !.pc = "stage", !.todo = w, !.items = x, !.owed = @ \cup w]
<1>1. run[r].pc = "load" /\ UNCHANGED <<day, notes, sent, lost>>
  BY DEF LoadStage
<1>2. run[r] \in RunRow /\ RunOK(run[r]) /\ Pending(r) = run[r].pending
  BY <1>1, RunningRow
<1>3. run' = [run EXCEPT ![r] = q]
  BY <1>2 DEF LoadStage, JobInv, JobTypes
<1>4. /\ w \subseteq Pair /\ \A p \in w : StageOf[p[1]] = JobStages[run[r].stage]
      /\ x \subseteq Product /\ (x # {} => JobStages[run[r].stage] = "refresh")
  BY DEF Wanted, Stale, Stage
<1> HIDE DEF w, x
<1>5. /\ q \in RunRow /\ q.pc = "stage" /\ q.pending = {} /\ q.todo = w /\ q.items = x
      /\ q.stage = run[r].stage /\ q.at = run[r].at
  BY <1>1, <1>2, <1>4 DEF RunRow, RunOK
<1> HIDE DEF q
<1>6. RunOK(q)
  BY <1>1, <1>2, <1>4, <1>5 DEF RunOK, OfStage
<1>7. Pending(r) = {}
  BY <1>1, <1>2 DEF RunOK
<1> QED BY <1>1, <1>3, <1>5, <1>6, <1>7, OneRun DEF JobInv, JobTypes

LEMMA PickKeeps ==
  ASSUME JobInv, NEW r \in Run, PickNext(r)
  PROVE  JobInv'
<1>1. run[r].pc = "stage" /\ UNCHANGED <<day, notes, sent, lost>>
  BY DEF PickNext
<1>2. run[r] \in RunRow /\ RunOK(run[r]) /\ Pending(r) = run[r].pending
  BY <1>1, RunningRow
<1>3. PICK p \in run[r].todo :
         run' = [run EXCEPT ![r].at = p, ![r].cur = p[1], ![r].todo = run[r].todo \ {p}]
  BY DEF PickNext
<1> DEFINE q == [run[r] EXCEPT !.at = p, !.cur = p[1], !.todo = run[r].todo \ {p}]
<1>4. run' = [run EXCEPT ![r] = q]
  BY <1>3 DEF JobInv, JobTypes
<1>5. p \in Pair /\ p[1] \in Reminder /\ OfStage(run[r], p)
  BY <1>1, <1>2 DEF RunRow, RunOK, Pair
<1>6. /\ q \in RunRow /\ q.pc = "stage" /\ q.pending = run[r].pending /\ q.todo = run[r].todo \ {p}
      /\ q.items = run[r].items /\ q.stage = run[r].stage /\ q.at = p
  BY <1>1, <1>2, <1>5 DEF RunRow
<1> HIDE DEF q
<1>7. RunOK(q)
  BY <1>1, <1>2, <1>5, <1>6 DEF RunOK, OfStage
<1>8. q # Off
  BY <1>6, OffIsNot
<1>9. \A o \in Pending(r) : o \in q.pending
  BY <1>2, <1>6
<1>10. notes \subseteq Pair /\ lost \subseteq Pair
  BY DEF JobInv, JobTypes
<1> QED BY <1>1, <1>4, <1>6, <1>7, <1>8, <1>9, <1>10, OneRun

LEMMA CommitKeeps ==
  ASSUME JobInv, NEW r \in Run, CommitStage(r)
  PROVE  JobInv'
<1> DEFINE q == [run[r] EXCEPT !.pending = {}]
<1>1. /\ run[r].pc = "stage" /\ UNCHANGED <<day, sent, lost>> /\ notes' = notes \cup run[r].pending
      /\ run' = [run EXCEPT ![r] = NextStage(q)]
  BY DEF CommitStage
<1>2. run[r] \in RunRow /\ Pending(r) = run[r].pending
  BY <1>1, RunningRow
<1>3. q \in RunRow /\ q.pending = {} /\ run[r].pending \subseteq Pair
  BY <1>2 DEF RunRow
<1> HIDE DEF q
<1>4. NextStage(q) \in RunRow /\ RunOK(NextStage(q))
  BY <1>3, NextStageRow
<1> QED BY <1>1, <1>2, <1>3, <1>4, OneRun DEF JobInv, JobTypes

LEMMA UndoneKeeps ==
  ASSUME JobInv, NEW r \in Run, Undone(r)
  PROVE  JobInv'
<1> DEFINE q == [run[r] EXCEPT !.pending = {}, !.owed = {p \in @ : StageOf[p[1]] # Stage(r)}]
<1>1. /\ run[r].pc = "stage" /\ UNCHANGED <<day, sent, notes>> /\ lost' = lost \cup run[r].pending
      /\ run' = [run EXCEPT ![r] = NextStage(q)]
  BY DEF Undone
<1>2. run[r] \in RunRow /\ Pending(r) = run[r].pending
  BY <1>1, RunningRow
<1>3. q \in RunRow /\ q.pending = {} /\ run[r].pending \subseteq Pair
  BY <1>2 DEF RunRow
<1> HIDE DEF q
<1>4. NextStage(q) \in RunRow /\ RunOK(NextStage(q))
  BY <1>3, NextStageRow
<1> QED BY <1>1, <1>2, <1>3, <1>4, OneRun DEF JobInv, JobTypes

LEMMA ItemUndoneKeeps ==
  ASSUME JobInv, NEW r \in Run, ItemUndone(r)
  PROVE  JobInv'
<1> DEFINE Of(p) == p[1] = run[r].cur
           q == [run[r] EXCEPT !.pending = {p \in @ : ~Of(p)}, !.todo = {p \in @ : ~Of(p)},
                               !.at = None, !.cur = None, !.owed = {p \in @ : ~Of(p)}]
<1>1. /\ run[r].pc = "stage" /\ UNCHANGED <<day, sent, notes>>
      /\ lost' = lost \cup {p \in run[r].pending : Of(p)}
  BY DEF ItemUndone
<1>2. run[r] \in RunRow /\ RunOK(run[r]) /\ Pending(r) = run[r].pending
  BY <1>1, RunningRow
<1>3. run' = [run EXCEPT ![r] = q]
  BY <1>2 DEF ItemUndone, JobInv, JobTypes
<1>4. /\ q \in RunRow /\ q.pc = "stage" /\ q.pending = {p \in run[r].pending : ~Of(p)}
      /\ q.todo \subseteq run[r].todo /\ q.at = None /\ q.stage = run[r].stage
      /\ q.items = run[r].items /\ run[r].pending \subseteq Pair
  BY <1>1, <1>2 DEF RunRow
<1> HIDE DEF q
<1>5. RunOK(q)
  BY <1>1, <1>2, <1>4 DEF RunOK, OfStage
<1>6. (\A p \in Pending(r) : p \in lost' \/ p \in q.pending) /\ lost' \subseteq Pair
  BY <1>1, <1>2, <1>4 DEF JobInv, JobTypes
<1>7. q # Off
  BY <1>4, OffIsNot
<1> QED BY <1>1, <1>3, <1>4, <1>5, <1>6, <1>7, OneRun DEF JobInv, JobTypes

LEMMA FetchKeeps ==
  ASSUME JobInv, NEW r \in Run, NEW x \in Product, NEW answers \in BOOLEAN, Fetch(r, x, answers)
  PROVE  JobInv'
<1>1. run[r].pc = "stage" /\ x \in run[r].items /\ UNCHANGED <<day, sent, notes, lost>>
  BY DEF Fetch
<1>2. run[r] \in RunRow /\ RunOK(run[r]) /\ Pending(r) = run[r].pending
  BY <1>1, RunningRow
<1>3. JobStages[run[r].stage] = "refresh"
  BY <1>1, <1>2 DEF RunOK
<1>4. \E q \in RunRow : /\ run' = [run EXCEPT ![r] = q] /\ q.pc \in {"stage", "price"}
                        /\ q.pending = run[r].pending /\ q.todo = run[r].todo /\ q.at = run[r].at
                        /\ q.stage = run[r].stage
  <2>1. CASE answers
    <3> DEFINE f == [product |-> x, seen |-> price[x] # None]
               q == [run[r] EXCEPT !.fetch = f, !.pc = "price", !.items = @ \ {x}, !.misses = 0]
    <3>1. f \in [product : Product, seen : BOOLEAN]
      OBVIOUS
    <3>2. run' = [run EXCEPT ![r] = q]
      BY <2>1 DEF Fetch, JobInv, JobTypes
    <3> HIDE DEF f
    <3>3. q \in RunRow /\ q.pc = "price" /\ q.pending = run[r].pending /\ q.todo = run[r].todo
          /\ q.at = run[r].at /\ q.stage = run[r].stage
      BY <1>2, <3>1 DEF RunRow
    <3> QED BY <3>2, <3>3
  <2>2. CASE ~answers
    <3> DEFINE rest == IF run[r].misses + 1 = MaxFailures THEN {} ELSE run[r].items \ {x}
               more == run[r].misses + 1
               q == [run[r] EXCEPT !.misses = more, !.items = rest]
    <3>1. run' = [run EXCEPT ![r] = q]
      BY <2>2 DEF Fetch, JobInv, JobTypes
    <3>2. rest \subseteq Product /\ more \in Nat
      BY <1>2 DEF RunRow
    <3> HIDE DEF rest, more
    <3>3. q \in RunRow /\ q.pc = "stage" /\ q.pending = run[r].pending /\ q.todo = run[r].todo
          /\ q.at = run[r].at /\ q.stage = run[r].stage
      BY <1>1, <1>2, <3>2 DEF RunRow
    <3> QED BY <3>1, <3>3
  <2> QED BY <2>1, <2>2
<1>5. PICK q \in RunRow : /\ run' = [run EXCEPT ![r] = q] /\ q.pc \in {"stage", "price"}
                          /\ q.pending = run[r].pending /\ q.todo = run[r].todo /\ q.at = run[r].at
                          /\ q.stage = run[r].stage
  BY <1>4
<1>6. RunOK(q)
  BY <1>1, <1>2, <1>3, <1>5 DEF RunOK, OfStage
<1>7. q # Off
  BY <1>5, OffIsNot
<1> QED BY <1>1, <1>2, <1>5, <1>6, <1>7, OneRun DEF JobInv, JobTypes

\* The refresh of prices holds no notification, so a refused insert loses none.
LEMMA PriceKeeps ==
  ASSUME JobInv, NEW r \in Run, CommitPrice(r)
  PROVE  JobInv'
<1>1. run[r].pc = "price" /\ UNCHANGED <<day, sent, notes, lost>>
  BY DEF CommitPrice
<1>2. run[r] \in RunRow /\ RunOK(run[r]) /\ Pending(r) = run[r].pending
  BY <1>1, RunningRow
<1>3. run[r].pending = {}
  <2> SUFFICES ASSUME NEW p \in run[r].pending PROVE FALSE
    OBVIOUS
  <2>1. p[1] \in Reminder
    BY <1>2 DEF RunRow, Pair
  <2>2. StageOf[p[1]] = "refresh"
    BY <1>1, <1>2 DEF RunOK, OfStage
  <2> QED BY <2>1, <2>2, JobAssumption
<1> DEFINE a == [run[r] EXCEPT !.fetch = None]
           b == [run[r] EXCEPT !.pc = "stage", !.fetch = None]
<1>4. run' = [run EXCEPT ![r] = NextStage(a)] \/ run' = [run EXCEPT ![r] = b]
  BY DEF CommitPrice
<1>5. /\ a \in RunRow /\ a.pending = {} /\ b \in RunRow /\ b.pc = "stage" /\ b.pending = {}
      /\ b.todo = run[r].todo /\ b.at = run[r].at /\ b.stage = run[r].stage /\ b.items = run[r].items
  BY <1>2, <1>3 DEF RunRow
<1> HIDE DEF a, b
<1>6. NextStage(a) \in RunRow /\ RunOK(NextStage(a))
  BY <1>5, NextStageRow
<1>7. RunOK(b)
  BY <1>1, <1>2, <1>5 DEF RunOK, OfStage
<1>8. PICK q \in RunRow : run' = [run EXCEPT ![r] = q] /\ RunOK(q)
  BY <1>4, <1>5, <1>6, <1>7
<1> QED BY <1>1, <1>2, <1>3, <1>8, OneRun DEF JobInv, JobTypes

LEMMA EndKeeps ==
  ASSUME JobInv, NEW r \in Run, EndRun(r)
  PROVE  JobInv'
<1>1. /\ run[r].pc = "done" /\ run' = [run EXCEPT ![r] = Off] /\ UNCHANGED <<day, sent, notes, lost>>
  BY DEF EndRun
<1>2. Pending(r) = {}
  BY <1>1, RunningRow DEF RunOK
<1> QED BY <1>1, <1>2, OneRun DEF JobInv, JobTypes

\* What is pushed is neither there nor in any open transaction.
LEMMA NotifyKeeps ==
  ASSUME JobInv, NEW r \in Run, Notify(r)
  PROVE  JobInv'
<1> DEFINE p == run[r].at
           new == ~Muted(p) /\ p \notin notes \cup run[r].pending
           q == [run[r] EXCEPT !.at = None, !.pending = IF new THEN @ \cup {p} ELSE @,
                               !.owed = IF Muted(p) THEN @ \ {p} ELSE @]
<1>1. /\ run[r].pc = "stage" /\ p # None /\ (~Muted(p) => ~InTheWay(p, r))
      /\ sent' = [sent EXCEPT ![p] = IF new THEN @ + 1 ELSE @]
      /\ UNCHANGED <<day, notes, lost>>
  BY DEF Notify
<1>2. run[r] \in RunRow /\ RunOK(run[r]) /\ Pending(r) = run[r].pending
  BY <1>1, RunningRow
<1>3. run' = [run EXCEPT ![r] = q]
  BY <1>2 DEF Notify, JobInv, JobTypes
<1>4. p \in Pair /\ OfStage(run[r], p)
  BY <1>1, <1>2 DEF RunRow, RunOK
<1>5. new \in BOOLEAN /\ Muted(p) \in BOOLEAN
  BY DEF Muted
<1>6. new => /\ p \notin notes /\ \A o \in Run : p \notin Pending(o)
  BY <1>1, <1>2 DEF InTheWay
<1> HIDE DEF p, new
<1>7. /\ q \in RunRow /\ q.pc = "stage" /\ q.at = None /\ q.todo = run[r].todo
      /\ q.items = run[r].items /\ q.stage = run[r].stage
      /\ q.pending = IF new THEN run[r].pending \cup {p} ELSE run[r].pending
  BY <1>1, <1>2, <1>4, <1>5 DEF RunRow
<1> HIDE DEF q
<1>8. RunOK(q)
  BY <1>1, <1>2, <1>4, <1>7 DEF RunOK, OfStage
<1>9. run'[r] = q /\ \A o \in Run \ {r} : run'[o] = run[o]
  BY <1>3 DEF JobInv, JobTypes
<1>10. sent[p] \in Nat /\ sent' \in [Pair -> Nat] /\ sent'[p] = (IF new THEN sent[p] + 1 ELSE sent[p])
       /\ \A o \in Pair \ {p} : sent'[o] = sent[o]
  BY <1>1, <1>4 DEF JobInv, JobTypes
<1>11. JobTypes'
  BY <1>1, <1>3, <1>7, <1>10 DEF JobInv, JobTypes
<1>12. RunsOK'
  <2> SUFFICES ASSUME NEW o \in Run, run'[o].pc # "off" PROVE RunOK(run'[o])
    BY DEF RunsOK, Running, RunOK, OfStage
  <2> QED BY <1>8, <1>9 DEF JobInv, RunsOK, Running
<1>13. Pending(r)' = q.pending /\ \A o \in Run \ {r} : Pending(o)' = Pending(o)
  BY <1>7, <1>9 DEF Pending, Running
<1>14. PushedIsKept'
  <2> SUFFICES ASSUME NEW o \in Pair, o \notin lost'
               PROVE  sent'[o] <= 1 /\ (sent'[o] = 1 => Held(o)')
    BY DEF PushedIsKept
  <2>1. sent[o] \in Nat /\ sent[o] <= 1 /\ (sent[o] = 1 => Held(o))
    BY <1>1 DEF JobInv, JobTypes, PushedIsKept
  <2>2. Held(o) => Held(o)'
    <3>1. \A s \in Run : o \in Pending(s) => o \in Pending(s)'
      BY <1>2, <1>7, <1>13
    <3> QED BY <3>1, <1>1 DEF Held
  <2>3. CASE o = p /\ new
    <3>1. sent[o] = 0
      BY <2>1, <2>3, <1>6 DEF Held
    <3>2. p \in Pending(r)'
      BY <2>3, <1>7, <1>13
    <3> QED BY <2>3, <3>1, <3>2, <1>10 DEF Held
  <2>4. CASE ~(o = p /\ new)
    <3>1. sent'[o] = sent[o]
      BY <2>4, <1>10
    <3> QED BY <3>1, <2>1, <2>2
  <2> QED BY <2>3, <2>4
<1> QED BY <1>11, <1>12, <1>14 DEF JobInv

-----------------------------------------------------------------------------
(* The other steps.                                                          *)

\* A process that dies takes its runs with it; what they had pushed is lost.
LEMMA DieKeeps ==
  ASSUME JobInv, NEW p \in Process, Die(p)
  PROVE  JobInv'
<1> DEFINE ours == UNION {Pending(r) : r \in {q \in Run : q[1] = p}}
<1>1. /\ run' = [r \in Run |-> IF r[1] = p THEN Off ELSE run[r]]
      /\ lost' = lost \cup ours /\ UNCHANGED <<day, notes, sent>>
  BY DEF Die
<1>2. ours \subseteq Pair
  <2>1. \A r \in Run : Pending(r) \subseteq Pair
    BY RunningRow DEF Pending, Running, RunRow
  <2> QED BY <2>1
<1>3. \A r \in Run : run'[r] = IF r[1] = p THEN Off ELSE run[r]
  BY <1>1
<1>4. JobTypes'
  BY <1>1, <1>2 DEF JobInv, JobTypes
<1>5. RunsOK'
  <2> SUFFICES ASSUME NEW r \in Run, run'[r].pc # "off" PROVE RunOK(run'[r])
    BY DEF RunsOK, Running, RunOK, OfStage
  <2> QED BY <1>3, OffIsNot DEF JobInv, RunsOK, Running
<1>6. PushedIsKept'
  <2> SUFFICES ASSUME NEW o \in Pair, o \notin lost'
               PROVE  sent'[o] <= 1 /\ (sent'[o] = 1 => Held(o)')
    BY DEF PushedIsKept
  <2>1. o \notin lost /\ o \notin ours /\ sent[o] <= 1 /\ (sent[o] = 1 => Held(o))
    BY <1>1 DEF JobInv, PushedIsKept
  <2>2. ASSUME NEW r \in Run, o \in Pending(r) PROVE o \in Pending(r)'
    <3>1. r[1] # p
      BY <2>1, <2>2
    <3> QED BY <3>1, <2>2, <1>3 DEF Pending, Running
  <2>3. Held(o) => Held(o)'
    BY <2>2, <1>1 DEF Held
  <2> QED BY <2>1, <2>3, <1>1
<1> QED BY <1>4, <1>5, <1>6 DEF JobInv

\* Processes that start, locks that are lost, users: no run is touched.
LEMMA QuietKeeps ==
  ASSUME JobInv, UNCHANGED <<run, notes, sent, lost>>, day' \in Nat
  PROVE  JobInv'
<1>1. JobTypes' /\ RunsOK'
  BY DEF JobInv, JobTypes, RunsOK, Running, RunOK, OfStage
<1>2. PushedIsKept'
  BY DEF JobInv, PushedIsKept, Held, Pending, Running
<1> QED BY <1>1, <1>2 DEF JobInv

LEMMA JobInvNext == JobInv /\ [JobNext]_jvars => JobInv'
<1> SUFFICES ASSUME JobInv, [JobNext]_jvars PROVE JobInv'
  OBVIOUS
<1>0. day \in Nat
  BY DEF JobInv, JobTypes
<1>1. CASE UNCHANGED jvars
  BY <1>0, <1>1, QuietKeeps DEF jvars
<1>2. ASSUME NEW p \in Process, Start(p) \/ Die(p) PROVE JobInv'
  BY <1>0, <1>2, DieKeeps, QuietKeeps DEF Start
<1>3. CASE LoseLock
  BY <1>0, <1>3, QuietKeeps DEF LoseLock
<1>4. CASE NextDay
  BY <1>0, <1>4, QuietKeeps DEF NextDay
<1>5. ASSUME NEW r \in Run, Goes(r) PROVE JobInv'
  <2>1. ASSUME EndWait(r) PROVE JobInv'
    BY <2>1, UndoneKeeps, ItemUndoneKeeps DEF EndWait
  <2> QED BY <1>5, <2>1, BeginKeeps, LoadKeeps, PickKeeps, NotifyKeeps, CommitKeeps, FetchKeeps,
             PriceKeeps, EndKeeps DEF Goes, Works
<1>6. ASSUME NEW r \in Run, StageFails(r) \/ ItemFails(r) PROVE JobInv'
  BY <1>6, UndoneKeeps, ItemUndoneKeeps DEF StageFails, ItemFails
<1>7. ASSUME NEW r \in Run, NEW x \in Product, Fetch(r, x, FALSE) PROVE JobInv'
  BY <1>7, FetchKeeps
<1>8. ASSUME NEW m \in MayEnd, Settle(m) PROVE JobInv'
  BY <1>0, <1>8, QuietKeeps DEF Settle, UNCHANGEDByUser
<1>9. ASSUME NEW a \in MayMute, ToggleMute(a[1], a[2]) PROVE JobInv'
  BY <1>0, <1>9, QuietKeeps DEF ToggleMute, UNCHANGEDByUser
<1>10. ASSUME NEW x \in Product, LogPrice(x) PROVE JobInv'
  BY <1>0, <1>10, QuietKeeps DEF LogPrice, UNCHANGEDByUser
<1> QED BY <1>1, <1>2, <1>3, <1>4, <1>5, <1>6, <1>7, <1>8, <1>9, <1>10 DEF JobNext

\* A notification is pushed once per member, however many processes and runs
\* overlap, unless a stage was undone after its push (create_notification).
THEOREM NotificationsPushOnce == JobSpec => []PushedOnce
<1>1. JobInit => JobInv
  BY JobInvInit
<1>2. JobInv /\ [JobNext]_jvars => JobInv'
  BY JobInvNext
<1>3. JobInv => PushedOnce
  BY DEF JobInv, JobTypes, PushedIsKept, PushedOnce
<1> QED BY <1>1, <1>2, <1>3, PTL DEF JobSpec
=============================================================================
