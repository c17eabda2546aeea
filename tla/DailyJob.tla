------------------------------- MODULE DailyJob -------------------------------
(* The daily job: which process may run it, its stages one after the other,   *)
(* the notifications they create and push, the refresh of prices, and what    *)
(* happens when stages fail, processes die and two runs overlap.              *)
(*                                                                            *)
(* What a stage wants to send is an input (Wanted): the queries behind it are *)
(* not modelled.  The auto-payments of the first stage are in BillEntries.    *)
EXTENDS Base, Integers, FiniteSets, Sequences

CONSTANTS
    Process, Member,
    Reminder,           \* what there may be to say: one dedupe_key each
    StageOf, DaysOf,    \* the stage that says it, and on which days
    Product,            \* tracked products, linked to PosoKanei
    MayEnd, MayMute,    \* what users settle, and the <<stage, member>> they mute
    MaxDay, MaxStarts, MaxBegun, MaxFails, MaxChanges

JobStages == <<"auto_pay", "due_soon", "overdue", "contracts", "drift", "month_review",
               "budgets", "refresh", "stock", "purge">>
StageName == {JobStages[n] : n \in 1..Len(JobStages)}
ItemByItem == {"drift", "month_review"} \* each item in a savepoint of its own
MaxFailures == 3                         \* PRICE_REFRESH_MAX_FAILURES

ASSUME JobAssumption ==
    /\ None \notin Process \cup Reminder \cup Product
    /\ StageOf \in [Reminder -> StageName \ {"refresh"}] /\ \A m \in Reminder : DaysOf[m] \subseteq Nat
    /\ MayEnd \subseteq Reminder /\ MayMute \subseteq StageName \X Member
    /\ {MaxDay, MaxStarts, MaxBegun, MaxFails, MaxChanges} \subseteq Nat

Run == Process \X {"daily", "startup"}
Pair == Reminder \X Member
Off == [pc |-> "off"]

VARIABLES
    day,
    proc,       \* per process: down, up, or up and scheduling
    lock,       \* who holds the advisory lock
    due,        \* runs whose trigger fired
    run,        \* the runs under way
    notes,      \* notifications, committed: <<reminder, member>>
    gone,       \* reminders whose cause is gone (paid, reviewed, restocked)
    muted,      \* muted: <<stage, member>>
    price,      \* today's snapshot of each product
    sent,       \* history: pushes of each notification
    lost,       \* history: notifications rolled back after their push
    starts, runsBegun, fails, changes

jvars == <<day, proc, lock, due, run, notes, gone, muted, price, sent, lost,
           starts, runsBegun, fails, changes>>

Stage(r) == JobStages[run[r].stage]
Running(r) == run[r].pc # "off"
Pending(r) == IF Running(r) THEN run[r].pending ELSE {}
Muted(p) == <<StageOf[p[1]], p[2]>> \in muted

\* ----------------------------------------------------------------- processes
\* start_scheduler: whoever gets the advisory lock schedules, and runs once now.
Start(p) ==
    /\ proc[p] = "down" /\ starts < MaxStarts /\ starts' = starts + 1
    /\ IF lock = None
       THEN /\ lock' = p /\ proc' = [proc EXCEPT ![p] = "scheduling"]
            /\ due' = due \cup {<<p, "startup">>}
       ELSE /\ proc' = [proc EXCEPT ![p] = "up"] /\ UNCHANGED <<lock, due>>
    /\ UNCHANGED <<day, run, notes, gone, muted, price, sent, lost, runsBegun, fails, changes>>

\* The process dies: its transactions are rolled back, its lock is free.
Die(p) ==
    /\ proc[p] # "down" /\ fails < MaxFails /\ fails' = fails + 1
    /\ proc' = [proc EXCEPT ![p] = "down"]
    /\ lock' = IF lock = p THEN None ELSE lock
    /\ due' = {r \in due : r[1] # p}
    /\ run' = [r \in Run |-> IF r[1] = p THEN Off ELSE run[r]]
    /\ lost' = lost \cup UNION {Pending(r) : r \in {q \in Run : q[1] = p}}
    /\ UNCHANGED <<day, notes, gone, muted, price, sent, starts, runsBegun, changes>>

\* The database drops the lock's connection; the process goes on scheduling.
LoseLock ==
    /\ lock # None /\ fails < MaxFails /\ fails' = fails + 1
    /\ lock' = None
    /\ UNCHANGED <<day, proc, due, run, notes, gone, muted, price, sent, lost, starts,
                   runsBegun, changes>>

\* Midnight: the triggers of 00:05 fire (missed ones coalesce).
NextDay ==
    /\ day < MaxDay /\ day' = day + 1
    /\ due' = due \cup {<<p, "daily">> : p \in {q \in Process : proc[q] = "scheduling"}}
    /\ price' = [x \in Product |-> None]
    /\ UNCHANGED <<proc, lock, run, notes, gone, muted, sent, lost, starts, runsBegun, fails,
                   changes>>

\* ------------------------------------------------------------------ one stage
\* What the queries of a stage find.  A household told about its month once is
\* not told again.
Wanted(s, today) ==
    {p \in Pair : /\ StageOf[p[1]] = s /\ today \in DaysOf[p[1]] /\ p[1] \notin gone
                  /\ ~(s = "month_review" /\ \E u \in Member : <<p[1], u>> \in notes)}
Stale(s) == IF s = "refresh" THEN {x \in Product : price[x] = None} ELSE {}

AtStage(q, n) ==
    [q EXCEPT !.stage = n, !.pc = "load", !.pending = {}, !.at = None, !.cur = None,
              !.fetch = None, !.todo = {}, !.items = {}, !.misses = 0]

\* A stage that no reminder belongs to has nothing to do here and is passed over.
Busy == {n \in 1..Len(JobStages) :
            JobStages[n] = "refresh" \/ \E m \in Reminder : StageOf[m] = JobStages[n]}
NextStage(q) ==
    LET left == {n \in Busy : n > q.stage}
    IN  IF left = {} THEN [q EXCEPT !.pc = "done"]
        ELSE AtStage(q, CHOOSE n \in left : \A o \in left : n <= o)

\* max_instances=1: not beside itself; beside the other job it may run.
BeginRun(r) ==
    /\ r \in due /\ ~Running(r) /\ runsBegun < MaxBegun /\ runsBegun' = runsBegun + 1
    /\ due' = due \ {r}
    /\ run' = [run EXCEPT ![r] =
                 NextStage([pc |-> "load", today |-> day, stage |-> 0, todo |-> {},
                            pending |-> {}, at |-> None, cur |-> None, fetch |-> None,
                            items |-> {}, misses |-> 0, owed |-> {}])]
    /\ UNCHANGED <<day, proc, lock, notes, gone, muted, price, sent, lost, starts, fails,
                   changes>>

LoadStage(r) ==
    LET w == Wanted(Stage(r), run[r].today)
    IN  /\ run[r].pc = "load"
        /\ run' = [run EXCEPT ![r].pc = "stage", ![r].todo = w, ![r].items = Stale(Stage(r)),
                              ![r].owed = @ \cup w]
        /\ UNCHANGED <<day, proc, lock, due, notes, gone, muted, price, sent, lost,
                       starts, runsBegun, fails, changes>>

\* _notify_members: item by item, member by member, in the order of the query.
PickNext(r) ==
    LET q == run[r]
    IN  /\ q.pc = "stage" /\ q.at = None
        /\ \E p \in q.todo :
              /\ (\E o \in q.todo : o[1] = q.cur) => p[1] = q.cur
              /\ run' = [run EXCEPT ![r].at = p, ![r].cur = p[1], ![r].todo = q.todo \ {p}]
        /\ UNCHANGED <<day, proc, lock, due, notes, gone, muted, price, sent, lost,
                       starts, runsBegun, fails, changes>>

InTheWayNever(p, r) == FALSE \* mutant
InTheWay(p, r) == \E o \in Run \ {r} : p \in Pending(o)

\* create_notification: not when muted, not when there already; an insert of
\* another run that is not committed yet is waited for.  Then the push, at once.
Notify(r) ==
    LET q == run[r]
        p == q.at
        new == ~Muted(p) /\ p \notin notes \cup q.pending
    IN  /\ q.pc = "stage" /\ p # None
        /\ ~Muted(p) => ~InTheWay(p, r)
        /\ run' = [run EXCEPT ![r].at = None,
                              ![r].pending = IF new THEN @ \cup {p} ELSE @,
                              ![r].owed = IF Muted(p) THEN @ \ {p} ELSE @]
        /\ sent' = [sent EXCEPT ![p] = IF new THEN @ + 1 ELSE @]
        /\ UNCHANGED <<day, proc, lock, due, notes, gone, muted, price, lost, starts,
                       runsBegun, fails, changes>>

CommitStageAtEnd(r) == \* mutant: one commit, after the last stage
    LET q == run[r]
        n == NextStage(q)
    IN  /\ q.pc = "stage" /\ q.todo = {} /\ q.at = None /\ q.items = {}
        /\ notes' = IF n.pc = "done" THEN notes \cup q.pending ELSE notes
        /\ run' = [run EXCEPT ![r] = [n EXCEPT !.pending = IF n.pc = "done" THEN {}
                                                           ELSE q.pending]]
        /\ UNCHANGED <<day, proc, lock, due, gone, muted, price, sent, lost, starts,
                       runsBegun, fails, changes>>
CommitStage(r) ==
    LET q == run[r]
    IN  /\ q.pc = "stage" /\ q.todo = {} /\ q.at = None /\ q.items = {}
        /\ notes' = notes \cup q.pending
        /\ run' = [run EXCEPT ![r] = NextStage([q EXCEPT !.pending = {}])]
        /\ UNCHANGED <<day, proc, lock, due, gone, muted, price, sent, lost, starts,
                       runsBegun, fails, changes>>

\* A stage fails: what it did not commit is undone, the next stage goes on.
Undone(r) ==
    LET q == run[r]
    IN  /\ q.pc = "stage"
        /\ lost' = lost \cup q.pending
        /\ run' = [run EXCEPT ![r] =
                     NextStage([q EXCEPT !.pending = {},
                                            !.owed = {p \in @ : StageOf[p[1]] # Stage(r)}])]
        /\ UNCHANGED <<day, proc, lock, due, notes, gone, muted, price, sent, starts,
                       runsBegun, changes>>

StageFails(r) == fails < MaxFails /\ fails' = fails + 1 /\ Undone(r)

\* One bad item: its savepoint is rolled back, the others go on.
ItemUndone(r) ==
    LET q == run[r]
        Of(p) == p[1] = q.cur
    IN  /\ q.pc = "stage" /\ Stage(r) \in ItemByItem /\ q.cur # None
        /\ lost' = lost \cup {p \in q.pending : Of(p)}
        /\ run' = [run EXCEPT ![r].pending = {p \in @ : ~Of(p)}, ![r].todo = {p \in @ : ~Of(p)},
                              ![r].at = None, ![r].cur = None, ![r].owed = {p \in @ : ~Of(p)}]
        /\ UNCHANGED <<day, proc, lock, due, notes, gone, muted, price, sent,
                       starts, runsBegun, changes>>

ItemFails(r) == fails < MaxFails /\ fails' = fails + 1 /\ ItemUndone(r)

\* The database ends one of the inserts that wait for each other: the error
\* undoes the item, or the stage where items have no savepoint of their own.
Waits(r, o) == Running(r) /\ run[r].at # None /\ ~Muted(run[r].at) /\ run[r].at \in Pending(o)
InCircle(r) == \E o \in Run \ {r} : Waits(r, o) /\ Waits(o, r)
EndWaitNever(r) == FALSE /\ Undone(r) /\ UNCHANGED fails \* mutant
EndWait(r) ==
    /\ InCircle(r) /\ UNCHANGED fails
    /\ IF Stage(r) \in ItemByItem THEN ItemUndone(r) ELSE Undone(r)

\* --------------------------------------------------------------------- prices
\* PosoKanei answers for a product; the third failure in a row ends the stage.
Fetch(r, x, answers) ==
    LET q == run[r]
    IN  /\ q.pc = "stage" /\ x \in q.items
        /\ IF answers
           THEN /\ run' = [run EXCEPT ![r].fetch = [product |-> x, seen |-> price[x] # None],
                                      ![r].pc = "price", ![r].items = @ \ {x}, ![r].misses = 0]
                /\ UNCHANGED fails
           ELSE /\ fails < MaxFails /\ fails' = fails + 1
                /\ run' = [run EXCEPT ![r].misses = @ + 1,
                                      ![r].items = IF q.misses + 1 = MaxFailures THEN {}
                                                   ELSE @ \ {x}]
        /\ UNCHANGED <<day, proc, lock, due, notes, gone, muted, price, sent, lost,
                       starts, runsBegun, changes>>

\* record_snapshots leaves what it saw alone; what came in between refuses its
\* insert, which ends the stage.  (A day that is over gets its late snapshot.)
SavedOver(x, new) == new \* mutant
Saved(x, new) == IF price[x] = None THEN new ELSE price[x]
CommitPrice(r) ==
    LET q == run[r]
        x == q.fetch.product
    IN  /\ q.pc = "price"
        /\ price' = [price EXCEPT ![x] = IF q.today = day /\ ~q.fetch.seen THEN Saved(x, "posokanei")
                                         ELSE @]
        /\ run' = [run EXCEPT ![r] =
                     IF q.today = day /\ ~q.fetch.seen /\ price[x] # None
                     THEN NextStage([q EXCEPT !.fetch = None])
                     ELSE [q EXCEPT !.pc = "stage", !.fetch = None]]
        /\ UNCHANGED <<day, proc, lock, due, notes, gone, muted, sent, lost, starts,
                       runsBegun, fails, changes>>

\* ---------------------------------------------------------------------- users
Changes == changes < MaxChanges /\ changes' = changes + 1
UNCHANGEDByUser == <<day, proc, lock, due, run, notes, sent, lost, starts, runsBegun, fails>>

\* An entry is paid, a month reviewed, an item restocked.
Settle(m) ==
    /\ Changes /\ m \notin gone /\ gone' = gone \cup {m}
    /\ UNCHANGED UNCHANGEDByUser /\ UNCHANGED <<muted, price>>

\* PUT of the alert settings
ToggleMute(s, u) ==
    /\ Changes
    /\ muted' = IF <<s, u>> \in muted THEN muted \ {<<s, u>>} ELSE muted \cup {<<s, u>>}
    /\ UNCHANGED UNCHANGEDByUser /\ UNCHANGED <<gone, price>>

\* POST /stock/{id}/prices: the price paid replaces what there is for the day.
LogPrice(x) ==
    /\ Changes /\ price[x] # "manual" /\ price' = [price EXCEPT ![x] = "manual"]
    /\ UNCHANGED UNCHANGEDByUser /\ UNCHANGED <<gone, muted>>

\* ------------------------------------------------------------- specification
JobInit ==
    /\ day = 1 /\ proc = [p \in Process |-> "down"] /\ lock = None /\ due = {}
    /\ run = [r \in Run |-> Off] /\ notes = {} /\ gone = {} /\ muted = {}
    /\ price = [x \in Product |-> None]
    /\ sent = [p \in Pair |-> 0] /\ lost = {}
    /\ starts = 0 /\ runsBegun = 0 /\ fails = 0 /\ changes = 0

EndRun(r) ==
    /\ run[r].pc = "done" /\ run' = [run EXCEPT ![r] = Off]
    /\ UNCHANGED <<day, proc, lock, due, notes, gone, muted, price, sent, lost,
                   starts, runsBegun, fails, changes>>

Works(r) ==
    \/ LoadStage(r) \/ PickNext(r) \/ Notify(r) \/ CommitStage(r)
    \/ \E x \in Product : Fetch(r, x, TRUE)
    \/ CommitPrice(r) \/ EndRun(r)

\* A run that was started goes on; the database ends circles of waits.
Goes(r) == BeginRun(r) \/ Works(r) \/ EndWait(r)

JobNext ==
    \/ \E p \in Process : Start(p) \/ Die(p)
    \/ LoseLock \/ NextDay
    \/ \E r \in Run :
          \/ Goes(r) \/ StageFails(r) \/ ItemFails(r)
          \/ \E x \in Product : Fetch(r, x, FALSE)
    \/ \E m \in MayEnd : Settle(m)
    \/ \E a \in MayMute : ToggleMute(a[1], a[2])
    \/ \E x \in Product : LogPrice(x)

JobFairness == \A r \in Run : WF_jvars(Goes(r))
JobSpec == JobInit /\ [][JobNext]_jvars /\ JobFairness

\* ---------------------------------------------------------------- properties
\* Nobody who may not schedule runs the job, and a notification is inserted by
\* one run at a time.
JobTypeOK ==
    /\ \A r \in Run : Running(r) => proc[r[1]] = "scheduling"
    /\ lock # None => proc[lock] = "scheduling"
    /\ \A r, o \in Run : r # o => Pending(r) \cap Pending(o) = {}

\* A notification is pushed at most once, however often the job runs and
\* whichever runs overlap, unless a stage was undone after its push
\* ("delivered once per user, no matter how many times the job runs", Notification).
PushedOnce == \A p \in Pair : sent[p] > 1 => p \in lost

\* "Each stage is isolated so a failure in one does not discard the others":
\* at the end of a run, all a stage wanted that did not fail is notified.
StagesIsolated == \A r \in Run : run[r].pc = "done" => run[r].owed \subseteq notes

\* What a user logged as the price paid stays that day's price.
ManualPriceStays ==
    [][\A x \in Product : price[x] = "manual" /\ day' = day => price'[x] = "manual"]_jvars

\* Every run ends (there is again a time when none is under way): two runs that
\* insert the same notifications in different orders do not wait for ever.
RunsEnd == []<>(\A r \in Run : ~Running(r))
================================================================================
