---------------------------- MODULE OfflineQueue ----------------------------
(***************************************************************************)
(* The writes of the web app: sent at once while online, and otherwise     *)
(* kept encrypted in IndexedDB and replayed in order, by whichever tab     *)
(* holds the Web Lock, for the account that made them.                     *)
(*                                                                         *)
(* A tab's code is asynchronous: an action stands for what it does between *)
(* two awaits.  Time is abstracted to "the row's backoff is over" (Elapse).*)
(* A key generation is not a number here: forgetKey marks the work it      *)
(* overtook as stale, which is what comparing generations finds out.       *)
(***************************************************************************)
EXTENDS Naturals, Sequences, Subsequence

CONSTANTS
    Tab,        \* browser tabs: one IndexedDB, one cookie, a page each
    Account,    \* "user:household" pairs that sign in on the device
    Write,      \* 1..n: the writes the user makes, in this order
    Kind,       \* Kind[w]: how the server treats w a second time (KindSet)
    Target,     \* Target[w]: the row that w changes
    Events,     \* what the surroundings do, out of EventSet
    MaxEpoch,   \* bound: how often the device is wiped
    MaxEvents,  \* bound: how many events other than visits happen
    NoAccount, NoTab

\* create: carries a client_id.  item: POST /recurring, which has none.
\* set: an idempotent write in a lane.  done: settles an expected entry.
KindSet == {"create", "item", "set", "done"}
EventSet == {"offline", "reload", "visit", "expire", "signin", "signout", "partner"}

ASSUME QueueAssumption ==
    /\ Write \subseteq Nat
    /\ Kind \in [Write -> KindSet]
    /\ \A v, w \in Write : v # w /\ Target[v] = Target[w] => Kind[w] = "set"
    /\ Events \subseteq EventSet
    /\ MaxEpoch \in Nat
    /\ MaxEvents \in Nat
    /\ NoAccount \notin Account
    /\ NoTab \notin Tab

VARIABLES
    session, \* the account of the server session in the shared cookie
    made,    \* how often the server carried the write out (2: twice or more)
    moved,   \* writes whose object someone else has moved on
    online,  \* navigator.onLine
    queue,   \* the rows of the queue table, by id
    epoch,   \* the device key: a new one after every wipe of the database
    me,      \* the profile in the cache table
    tab,     \* the memory of each page
    drain,   \* each tab's replay()
    lock,    \* the tab that holds the Web Lock
    write,   \* each write's perform()
    events   \* how many events have happened

server == <<session, made, moved, events>>
vars == <<server, online, queue, epoch, me, tab, drain, lock, write>>

Who == Account \cup {NoAccount}
Key == 0..MaxEpoch
NoKey == MaxEpoch + 1
Replies == {"ok", "409", "refused", "later", "401", "412"}

Row == [w : Write, owner : Account, key : Key, status : {"pending", "failed"}, late : BOOLEAN]

Page == [status : {"loading", "out", "in"}, reading : BOOLEAN, wiping : BOOLEAN, who : Who, next : Who,
         key : Key \cup {NoKey}, marks : SUBSET {Target[w] : w \in Write},
         kick : BOOLEAN, timer : BOOLEAN, mail : SUBSET {"signedOut", "switched"}]

FreshPage == [status |-> "loading", reading |-> TRUE, wiping |-> FALSE, who |-> NoAccount, next |-> NoAccount,
              key |-> NoKey, marks |-> {}, kick |-> FALSE, timer |-> FALSE, mail |-> {}]

Drain == [pc : {"idle", "lock", "me", "row", "sent", "reply"}, force : BOOLEAN, rerun : BOOLEAN,
          first : BOOLEAN, stale : BOOLEAN, as : Who, rows : Seq(Row), reply : Replies]

NoDrain == [pc |-> "idle", force |-> FALSE, rerun |-> FALSE, first |-> FALSE, stale |-> FALSE,
            as |-> NoAccount, rows |-> <<>>, reply |-> "ok"]

Perform == [state : {"none", "lane", "sending", "answered", "sealing", "queued", "sent",
                     "done", "rejected", "lost"},
            tab : Tab \cup {NoTab}, owner : Who, key : Key \cup {NoKey}, lane : BOOLEAN,
            stale : BOOLEAN, online : BOOLEAN, reply : Replies]

NoWrite == [state |-> "none", tab |-> NoTab, owner |-> NoAccount, key |-> NoKey, lane |-> FALSE,
            stale |-> FALSE, online |-> FALSE, reply |-> "ok"]

Init ==
    /\ session \in Who
    /\ made = [w \in Write |-> 0]
    /\ moved = {}
    /\ online = TRUE
    /\ queue = <<>>
    /\ epoch = 0
    /\ me = NoAccount
    /\ tab = [t \in Tab |-> FreshPage]
    /\ drain = [t \in Tab |-> NoDrain]
    /\ lock = NoTab
    /\ write = [w \in Write |-> NoWrite]
    /\ events = 0

-----------------------------------------------------------------------------
(* The server.                                                             *)

\* Mutant: a create is not looked up by its client_id.
TakesTwice(w) == Kind[w] = "done" => made[w] = 0 /\ w \notin moved

\* The write does something (again).
Takes(w) ==
    CASE Kind[w] = "create" -> made[w] = 0
      [] Kind[w] = "done"   -> made[w] = 0 /\ w \notin moved
      [] OTHER              -> TRUE

Conflict(w) ==
    \/ Kind[w] = "create" /\ made[w] > 0 /\ w \in moved
    \/ Kind[w] = "done" /\ ~Takes(w)

\* A 5xx, 408 or 429, a stale CSRF token or a dropped connection is "later"
\* and says nothing about whether the write was carried out.
Carry(w, reply) ==
    \/ /\ Takes(w)
       /\ reply \in {"ok", "later"}
       /\ made' = [made EXCEPT ![w] = IF made[w] < 2 THEN made[w] + 1 ELSE 2]
    \/ /\ \/ Takes(w) /\ reply = "refused"
          \/ Conflict(w) /\ reply = "409"
          \/ ~Takes(w) /\ ~Conflict(w) /\ reply = "ok"
       /\ UNCHANGED made

\* Mutant: the X-Expected-Account header is not compared.
ServeAnyAccount(w, expected, reply) ==
    /\ \/ reply = "later" /\ UNCHANGED made
       \/ online /\ IF session = NoAccount THEN reply = "401" /\ UNCHANGED made ELSE Carry(w, reply)
    /\ UNCHANGED <<session, moved, events>>

\* "expected" is the X-Expected-Account header, NoAccount without it.
Serve(w, expected, reply) ==
    /\ \/ reply = "later" /\ UNCHANGED made
       \/ /\ online
          /\ IF session = NoAccount THEN reply = "401" /\ UNCHANGED made
             ELSE IF expected \notin {NoAccount, session} THEN reply = "412" /\ UNCHANGED made
             ELSE Carry(w, reply)
    /\ UNCHANGED <<session, moved, events>>

-----------------------------------------------------------------------------
(* The device's store.                                                     *)

\* Mutant: a drain reads the due rows only.
PendingRowsDue ==
    Subsequence(queue, {i \in DOMAIN queue : queue[i].status = "pending" /\ ~queue[i].late})
Pending(rows) == Subsequence(rows, {i \in DOMAIN rows : rows[i].status = "pending"})
PendingRows == Pending(queue)
Late(w) == \E i \in DOMAIN queue : queue[i].w = w /\ queue[i].late
Remove(w) == Subsequence(queue, {i \in DOMAIN queue : queue[i].w # w})

\* patch: a row that a wipe has removed stays removed.
Backoff(w) == [i \in DOMAIN queue |->
    IF queue[i].w = w THEN [queue[i] EXCEPT !.late = TRUE] ELSE queue[i]]
\* Mutant: a status the schema does not know.
FailAsError(w) == [i \in DOMAIN queue |->
    IF queue[i].w = w THEN [queue[i] EXCEPT !.status = "error"] ELSE queue[i]]
Fail(w) == [i \in DOMAIN queue |->
    IF queue[i].w = w THEN [queue[i] EXCEPT !.status = "failed"] ELSE queue[i]]

\* getKey: the key in memory, else the stored one.
KeyOf(t) == IF tab[t].key = NoKey THEN epoch ELSE tab[t].key

\* forgetKey: work that started before must not persist or send anything.
ForgetDrain(t) == [drain[t] EXCEPT !.stale = TRUE]
ForgetWrites(t) == [w \in Write |->
    IF write[w].tab = t /\ write[w].state = "sealing" THEN [write[w] EXCEPT !.stale = TRUE]
                                                      ELSE write[w]]

Ended(w, state) == [write EXCEPT ![w] = [NoWrite EXCEPT !.state = state]]

-----------------------------------------------------------------------------
(* replay() and its triggers.                                              *)

\* Single-flight: a forced replay is remembered, another one is absorbed.
Replay(d, force) ==
    IF d.pc = "idle" THEN [d EXCEPT !.pc = "lock", !.force = force]
                     ELSE [d EXCEPT !.rerun = d.rerun \/ force]

\* The triggers are mounted while the page shows someone signed in.
Mounted(t) == tab[t].status = "in"

Trigger(t, force) == drain' = [drain EXCEPT ![t] = Replay(drain[t], force)]

Kick(t) ==
    /\ tab[t].kick
    /\ Trigger(t, FALSE)
    /\ tab' = [tab EXCEPT ![t].kick = FALSE]
    /\ UNCHANGED <<server, online, queue, epoch, me, lock, write>>

Run(t) ==
    /\ Trigger(t, FALSE)
    /\ tab' = [tab EXCEPT ![t].timer = FALSE]
    /\ UNCHANGED <<server, online, queue, epoch, me, lock, write>>

\* arm(): a timer for the head row, if it is backed off.
Arms(rows) == Pending(rows) # <<>> /\ Head(Pending(rows)).late

TimerFires(t) ==
    /\ tab[t].timer
    /\ ~Arms(queue)
    /\ Run(t)

\* visibilitychange: the app comes to the front.
Visit(t) ==
    /\ "visit" \in Events
    /\ Mounted(t)
    /\ Run(t)

Elapse(w) ==
    /\ Late(w)
    /\ queue' = [i \in DOMAIN queue |->
                   IF queue[i].w = w THEN [queue[i] EXCEPT !.late = FALSE] ELSE queue[i]]
    /\ UNCHANGED <<server, online, epoch, me, tab, drain, lock, write>>

\* The drain returns, the lock is free, and the triggers re-arm.
Return(t, rows, auth) ==
    /\ lock' = NoTab
    /\ queue' = rows
    /\ IF drain[t].rerun /\ ~auth
         THEN /\ drain' = [drain EXCEPT ![t] = [NoDrain EXCEPT !.pc = "lock", !.force = TRUE]]
              /\ UNCHANGED tab
         ELSE /\ drain' = [drain EXCEPT ![t] = NoDrain]
              /\ tab' = [tab EXCEPT ![t].timer = tab[t].timer \/
                           (~auth /\ Mounted(t) /\ Arms(rows))]

\* The rows are read inside the lock; a backed-off head blocks them all.
TakeLock(t) ==
    /\ drain[t].pc = "lock"
    /\ lock = NoTab
    /\ IF PendingRows = <<>> \/ (~drain[t].force /\ Head(PendingRows).late)
         THEN Return(t, queue, FALSE)
         ELSE /\ lock' = t
              /\ drain' = [drain EXCEPT ![t] = [drain[t] EXCEPT !.pc = "me", !.rows = PendingRows,
                                                                !.first = TRUE, !.stale = FALSE]]
              /\ UNCHANGED <<queue, tab>>
    /\ UNCHANGED <<server, online, epoch, me, write>>

WhoAmI(t) ==
    /\ drain[t].pc = "me"
    /\ online
    /\ IF session = NoAccount
         THEN Return(t, queue, TRUE)
         ELSE /\ drain' = [drain EXCEPT ![t].pc = "row", ![t].as = session]
              /\ UNCHANGED <<queue, tab, lock>>
    /\ UNCHANGED <<server, online, epoch, me, write>>

WhoAmIFails(t) ==
    /\ drain[t].pc = "me"
    /\ Return(t, Backoff(Head(drain[t].rows).w), FALSE)
    /\ UNCHANGED <<server, online, epoch, me, write>>

\* On to the next row.
NextRow(t) == [drain EXCEPT ![t] = [drain[t] EXCEPT !.pc = "row", !.rows = Tail(drain[t].rows),
                                                    !.first = FALSE, !.reply = "ok"]]

DrainRow(t) ==
    LET d == drain[t]
        r == Head(d.rows)
        held == Late(r.w) /\ ~(d.force /\ d.first)
    IN
    /\ d.pc = "row"
    /\ IF d.rows = <<>> \/ d.stale \/ held
         THEN Return(t, queue, FALSE)
         ELSE /\ tab' = [tab EXCEPT ![t].key = KeyOf(t)]
              /\ UNCHANGED lock
              /\ IF KeyOf(t) # r.key      THEN queue' = Fail(r.w) /\ drain' = NextRow(t)
                 ELSE IF r.owner # d.as   THEN queue' = Remove(r.w) /\ drain' = NextRow(t)
                 ELSE drain' = [drain EXCEPT ![t].pc = "sent"] /\ UNCHANGED queue
    /\ UNCHANGED <<server, online, epoch, me, write>>

ServeRow(t, reply) ==
    LET r == Head(drain[t].rows) IN
    /\ drain[t].pc = "sent"
    /\ Serve(r.w, r.owner, reply)
    /\ drain' = [drain EXCEPT ![t].pc = "reply", ![t].reply = reply]
    /\ UNCHANGED <<online, queue, epoch, me, tab, lock, write>>

\* Mutant: a refusal is retried like a 5xx.
RetriedRefused == {"later", "refused"}
Retried == {"later"}
\* Mutant: a refused row is dropped as sent.
FinishedRefused == {"ok", "409", "refused"}
Finished == {"ok", "409"}

\* What a reply does to the row; a row to retry stops the drain, for the order.
React(t) ==
    LET w == Head(drain[t].rows).w
        reply == drain[t].reply
        GoOn(rows) == queue' = rows /\ drain' = NextRow(t) /\ UNCHANGED <<tab, lock>>
    IN
    /\ drain[t].pc = "reply"
    /\ \/ reply = "401" /\ Return(t, queue, TRUE)
       \/ reply \in Retried /\ Return(t, Backoff(w), FALSE)
       \/ reply \in Finished \cup {"412"} /\ GoOn(Remove(w))
       \/ reply \notin {"401", "412"} \cup Retried \cup Finished /\ GoOn(Fail(w))
    /\ write' = IF reply \in Finished THEN Ended(w, "sent") ELSE write
    /\ UNCHANGED <<server, online, epoch, me>>

-----------------------------------------------------------------------------
(* perform(): one write.                                                   *)

\* enqueue up to the transaction: stamp the owner, seal with the device key.
Seal(w, t, viaSend) ==
    IF tab[t].who = NoAccount
      THEN /\ write' = Ended(w, "rejected")
           /\ UNCHANGED tab
      ELSE /\ write' = [write EXCEPT ![w] = [write[w] EXCEPT
                          !.state = "sealing", !.tab = t, !.owner = tab[t].who, !.key = KeyOf(t),
                          !.online = viaSend, !.reply = "ok"]]
           /\ tab' = [tab EXCEPT ![t].key = KeyOf(t)]

\* The user makes the next write; offline it goes to the queue at once.
Make(w, t) ==
    /\ write[w].state = "none"
    /\ \A v \in Write : v < w => write[v].state # "none"
    /\ Mounted(t)
    /\ IF online
         THEN /\ write' = [write EXCEPT ![w] = [NoWrite EXCEPT !.state = "lane", !.tab = t, !.lane = TRUE]]
              /\ UNCHANGED tab
         ELSE Seal(w, t, FALSE)
    /\ UNCHANGED <<server, online, queue, epoch, me, drain, lock>>

Unsettled == {"lane", "sending", "answered", "sealing"}

\* Mutant: no lane.
AheadNone(w) == {}

\* The writes to the same row that entered this tab's lane before w.
Ahead(w) == {v \in Write : /\ v < w
                           /\ Target[v] = Target[w]
                           /\ write[v].tab = write[w].tab
                           /\ write[v].lane
                           /\ write[v].state \in Unsettled}

LeaveLane(w) ==
    LET t == write[w].tab IN
    /\ write[w].state = "lane"
    /\ Ahead(w) = {}
    /\ IF ~online THEN Seal(w, t, FALSE)
       ELSE IF Target[w] \in tab[t].marks THEN Seal(w, t, TRUE)
       ELSE write' = [write EXCEPT ![w].state = "sending"] /\ UNCHANGED tab
    /\ UNCHANGED <<server, online, queue, epoch, me, drain, lock>>

ServeOnline(w, reply) ==
    /\ write[w].state = "sending"
    /\ Serve(w, NoAccount, reply)
    /\ write' = [write EXCEPT ![w].state = "answered", ![w].reply = reply]
    /\ UNCHANGED <<online, queue, epoch, me, tab, drain, lock>>

\* markSignedOut (a profile being read is not taken any more), and what
\* AppShell does once the status says so.
SignedOutPage(p) == [p EXCEPT !.status = "out", !.reading = FALSE, !.who = NoAccount,
                              !.next = NoAccount, !.timer = FALSE, !.marks = {}]

\* A create without a client_id is not queued after an ambiguous failure.
Settle(w) ==
    LET t == write[w].tab
        reply == write[w].reply
    IN
    /\ write[w].state = "answered"
    /\ IF reply = "later" /\ Kind[w] # "item"
         THEN Seal(w, t, TRUE)
         ELSE /\ write' = Ended(w, IF reply = "ok" THEN "done" ELSE "rejected")
              /\ tab' = [tab EXCEPT ![t] = IF reply = "401" THEN SignedOutPage(tab[t]) ELSE tab[t]]
    /\ UNCHANGED <<server, online, queue, epoch, me, drain, lock>>

\* The transaction of enqueue, then the marker and the kick.
Add(w) ==
    LET p == write[w]
        row == [w |-> w, owner |-> p.owner, key |-> p.key, status |-> "pending", late |-> FALSE]
    IN
    /\ p.state = "sealing"
    /\ IF p.stale
         THEN write' = Ended(w, "rejected") /\ UNCHANGED <<queue, tab>>
         ELSE /\ write' = [write EXCEPT ![w] = [NoWrite EXCEPT !.state = "queued", !.owner = p.owner]]
              /\ queue' = Append(queue, row)
              /\ tab' = [tab EXCEPT ![p.tab].marks = tab[p.tab].marks \cup {Target[w]},
                                    ![p.tab].kick = tab[p.tab].kick \/ p.online]
    /\ UNCHANGED <<server, online, epoch, me, drain, lock>>

\* queueBridge: nothing is pending any more.
ClearMarks(t) ==
    /\ PendingRows = <<>>
    /\ tab[t].marks # {}
    /\ tab' = [tab EXCEPT ![t].marks = {}]
    /\ UNCHANGED <<server, online, queue, epoch, me, drain, lock, write>>

-----------------------------------------------------------------------------
(* SessionProvider: who is signed in on a page.                            *)

\* Something the surroundings do; the bound counts these, visits excepted.
Event(e) ==
    /\ e \in Events
    /\ events < MaxEvents
    /\ events' = events + 1

\* Every other tab gets the message.
Post(t, pages, message) == [u \in Tab |->
    IF u = t THEN pages[u] ELSE [pages[u] EXCEPT !.mail = pages[u].mail \cup {message}]]

\* Signed in: the triggers mount, if they were not, and replay once.
SignedIn(t, pages, a) ==
    /\ tab' = [pages EXCEPT ![t].status = "in", ![t].reading = FALSE, ![t].wiping = FALSE,
                            ![t].who = a, ![t].next = NoAccount]
    /\ IF Mounted(t) THEN UNCHANGED drain ELSE Trigger(t, FALSE)

\* signOut or an account switch, up to the clearing of the tables.
Forget(t) ==
    /\ epoch < MaxEpoch
    /\ drain' = [drain EXCEPT ![t] = ForgetDrain(t)]
    /\ write' = ForgetWrites(t)

Forgotten(p, next) == [p EXCEPT !.wiping = TRUE, !.reading = FALSE, !.next = next,
                                !.key = NoKey, !.kick = FALSE, !.marks = {}]

\* GET /auth/me: the cookie's account, a 401, or the cached profile.
ReadMe(t) ==
    /\ tab[t].reading
    /\ online
    /\ IF session = NoAccount
         THEN tab' = [tab EXCEPT ![t] = SignedOutPage(tab[t])] /\ UNCHANGED <<me, drain, write>>
         ELSE IF me \notin {NoAccount, session}
           THEN /\ Forget(t)
                /\ tab' = [tab EXCEPT ![t] = Forgotten(tab[t], session)]
                /\ UNCHANGED me
           ELSE SignedIn(t, tab, session) /\ me' = session /\ UNCHANGED write
    /\ UNCHANGED <<server, online, queue, epoch, lock>>

ReadMeFails(t) ==
    /\ tab[t].reading
    /\ IF me = NoAccount
         THEN tab' = [tab EXCEPT ![t] = SignedOutPage(tab[t])] /\ UNCHANGED drain
         ELSE SignedIn(t, tab, me)
    /\ UNCHANGED <<server, online, queue, epoch, me, lock, write>>

\* The logout may not reach the server; the device is cleared all the same.
SignOut(t) ==
    /\ Event("signout")
    /\ Mounted(t)
    /\ ~tab[t].wiping
    /\ session' \in {session, NoAccount}
    /\ Forget(t)
    /\ tab' = Post(t, [tab EXCEPT ![t] = Forgotten(tab[t], NoAccount)], "signedOut")
    /\ UNCHANGED <<made, moved, online, queue, epoch, me, lock>>

\* The transaction that clears the three tables.
Wiped(t) ==
    LET owner == tab[t].next IN
    /\ tab[t].wiping
    /\ epoch < MaxEpoch
    /\ queue' = <<>>
    /\ epoch' = epoch + 1
    /\ me' = owner
    /\ IF owner = NoAccount
         THEN /\ tab' = [tab EXCEPT ![t] = [SignedOutPage(tab[t]) EXCEPT !.wiping = FALSE]]
              /\ UNCHANGED drain
         ELSE SignedIn(t, Post(t, tab, "switched"), owner)
    /\ UNCHANGED <<server, online, lock, write>>

\* The broadcast of another tab.  (A page in the middle of a wipe of its own
\* hears of an account switch only after it.)
Hear(t, message) ==
    /\ message \in tab[t].mail
    /\ tab[t].wiping => message = "signedOut"
    /\ drain' = [drain EXCEPT ![t] = ForgetDrain(t)]
    /\ write' = ForgetWrites(t)
    /\ LET p == [tab[t] EXCEPT !.key = NoKey, !.mail = tab[t].mail \ {message}] IN
         tab' = [tab EXCEPT ![t] = IF message = "switched" THEN [p EXCEPT !.reading = TRUE]
                                                           ELSE SignedOutPage(p)]
    /\ UNCHANGED <<server, online, queue, epoch, me, lock>>

-----------------------------------------------------------------------------
(* The surroundings.                                                       *)

\* A page load: what the page had in memory is gone.
Load(t) ==
    /\ tab' = [tab EXCEPT ![t] = FreshPage]
    /\ drain' = [drain EXCEPT ![t] = NoDrain]
    /\ lock' = IF lock = t THEN NoTab ELSE lock
    /\ write' = [w \in Write |->
                   IF write[w].tab = t /\ write[w].state \in Unsettled
                     THEN [NoWrite EXCEPT !.state = "lost"] ELSE write[w]]

Reload(t) ==
    /\ Event("reload")
    /\ Load(t)
    /\ UNCHANGED <<session, made, moved, online, queue, epoch, me>>

\* Signing in is a navigation, and so is changing the household, which the
\* app refuses while anything is queued.
SignIn(t, a) ==
    /\ Event("signin")
    /\ tab[t].status = "out" \/ (Mounted(t) /\ queue = <<>>)
    /\ session' = a
    /\ Load(t)
    /\ UNCHANGED <<made, moved, online, queue, epoch, me>>

Expire ==
    /\ Event("expire")
    /\ session # NoAccount
    /\ session' = NoAccount
    /\ UNCHANGED <<made, moved, online, queue, epoch, me, tab, drain, lock, write>>

GoOffline ==
    /\ Event("offline")
    /\ online
    /\ online' = FALSE
    /\ UNCHANGED <<session, made, moved, queue, epoch, me, tab, drain, lock, write>>

\* The "online" event forces a replay in every tab.
GoOnline ==
    /\ ~online
    /\ online' = TRUE
    /\ drain' = [t \in Tab |-> IF Mounted(t)
                               THEN Replay(drain[t], TRUE) ELSE drain[t]]
    /\ tab' = [t \in Tab |-> IF Mounted(t)
                             THEN [tab[t] EXCEPT !.timer = FALSE] ELSE tab[t]]
    /\ UNCHANGED <<server, queue, epoch, me, lock, write>>

\* Another member deletes the created transaction, or settles the entry.
PartnerMoves(w) ==
    /\ Event("partner")
    /\ w \notin moved
    /\ Kind[w] = "done" \/ (Kind[w] = "create" /\ made[w] > 0)
    /\ moved' = moved \cup {w}
    /\ UNCHANGED <<session, made, online, queue, epoch, me, tab, drain, lock, write>>

-----------------------------------------------------------------------------

DrainStep(t) ==
    \/ TakeLock(t)
    \/ WhoAmI(t)
    \/ WhoAmIFails(t)
    \/ DrainRow(t)
    \/ \E reply \in Replies : ServeRow(t, reply)
    \/ React(t)

WriteStep(w) ==
    \/ \E t \in Tab : Make(w, t)
    \/ LeaveLane(w)
    \/ \E reply \in Replies : ServeOnline(w, reply)
    \/ Settle(w)
    \/ Add(w)
    \/ Elapse(w)

PageStep(t) ==
    \/ Kick(t)
    \/ TimerFires(t)
    \/ Visit(t)
    \/ ClearMarks(t)
    \/ ReadMe(t)
    \/ ReadMeFails(t)
    \/ SignOut(t)
    \/ Wiped(t)
    \/ \E message \in tab[t].mail : Hear(t, message)
    \/ Reload(t)
    \/ \E a \in Account : SignIn(t, a)

World == Expire \/ GoOffline \/ GoOnline \/ \E w \in Write : PartnerMoves(w)

Next ==
    \/ \E t \in Tab : DrainStep(t) \/ PageStep(t)
    \/ \E w \in Write : WriteStep(w)
    \/ World

Spec == Init /\ [][Next]_vars

\* Promises settle, timers fire and a locked-out tab gets the lock; the app
\* comes to the front again and again; the server, tried again and again,
\* answers once with something else than "later".
Answers == Replies \ {"later"}
Fairness ==
    /\ \A t \in Tab :
         /\ WF_vars(TakeLock(t)) /\ WF_vars(DrainRow(t)) /\ WF_vars(React(t))
         /\ SF_vars(WhoAmI(t)) /\ SF_vars(\E reply \in Answers : ServeRow(t, reply))
         /\ WF_vars(Kick(t)) /\ WF_vars(TimerFires(t)) /\ WF_vars(Visit(t))
    /\ \A w \in Write : WF_vars(Elapse(w))

FairSpec == Spec /\ Fairness

-----------------------------------------------------------------------------
(* Properties.                                                             *)

TypeOK ==
    /\ session \in Who
    /\ made \in [Write -> 0..2]
    /\ moved \subseteq Write
    /\ online \in BOOLEAN
    /\ \A i \in DOMAIN queue : queue[i] \in Row
    /\ epoch \in Key
    /\ me \in Who
    /\ tab \in [Tab -> Page]
    /\ \A t \in Tab :
         /\ [drain[t] EXCEPT !.rows = <<>>] \in Drain
         /\ \A i \in DOMAIN drain[t].rows : drain[t].rows[i] \in Row
    /\ lock \in Tab \cup {NoTab}
    /\ write \in [Write -> Perform]
    /\ events \in 0..MaxEvents

\* Whatever the cookie flips to between a drain's look at /auth/me and its
\* requests, and whichever tab drains, the server carries out a replayed write
\* only for the account that made it.
ReplayedForItsOwner ==
    [][\A w \in Write :
         made'[w] # made[w] /\ write[w].state = "queued" => session = write[w].owner]_vars

\* A create takes effect at most once, however often its replies are lost,
\* its tab is reloaded or another tab takes the replay over.
CreatedOnce == \A w \in Write : Kind[w] \in {"create", "item"} => made[w] <= 1

\* A queued write that leaves the queue as sent did take effect, unless someone
\* else settled the entry it was to settle (whose 409 is dropped without a
\* word): no lost reply, refusal or replay lets a write slip out unsent.
SentTookEffect == \A w \in Write : write[w].state = "sent" =>
    made[w] > 0 \/ (Kind[w] = "done" /\ w \in moved)

\* The server carries a queued write out only when no write queued before it
\* is still waiting: backoff, forced replays, a second tab and reloads keep
\* the queue's order.
WaitsBefore(v, w) == \E i, j \in DOMAIN queue :
    i < j /\ queue[i].w = v /\ queue[i].status = "pending" /\ queue[j].w = w
QueueOrder ==
    [][\A v, w \in Write : made'[w] # made[w] => ~WaitsBefore(v, w)]_vars

\* The writes of one lane reach the server in the order the user made them:
\* an untick never gets there before its tick.
LaneOrder ==
    [][\A v, w \in Write :
         v < w /\ Target[v] = Target[w] /\ made'[w] # made[w] =>
           /\ write[v].state \notin Unsettled
           /\ \A i \in DOMAIN queue : queue[i].w = v => queue[i].status # "pending"]_vars

\* Every queued write leaves the queue some day.
Waiting(w) == \E i \in DOMAIN queue : queue[i].w = w /\ queue[i].status = "pending"
EveryWriteIsTried == \A w \in Write : Waiting(w) ~> ~Waiting(w)
=============================================================================
